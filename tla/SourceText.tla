----------------------------- MODULE SourceText -----------------------------
(***************************************************************************)
(* The three hand-written readers of C++ text: the include scanner          *)
(* (src/src/scan/include_scanner.cpp) and the text rules SF.7 and SF.8      *)
(* (src/src/rules/sf7_using_namespace.cpp, sf8_include_guard.cpp).  Each    *)
(* of them strips comments in its own way.                                  *)
(*                                                                         *)
(* A text is a sequence of physical lines, a line a sequence of lexemes.    *)
(* Of the text only the lexemes that a reader tells apart are kept:         *)
(*   "//" "/*" "*/"          comment markers                                *)
(*   "R(" ")R"               the ends of a raw string literal               *)
(*   "\\"                    at the end of a line: the next line is glued   *)
(*   "#if" "#ifndef G" "#ifndef g" "#define G" "#define g" "#endif"         *)
(*   "# ifndef G" "# define G"  the same with a blank behind the #          *)
(*   "#pragma once" "#import" "#include MACRO" "{" "}"                      *)
(*   "using namespace" "using x" "using namespacex"                         *)
(*   the members of DOMAIN Includes: an include with its token              *)
(* and any other string is code that no reader looks at.                    *)
(***************************************************************************)
EXTENDS Naturals, Sequences, FiniteSets, FiniteSetsExt, SequencesExt, TLC

CONSTANTS
    Includes,           \* include lexeme -> [kind |-> "Quote"/"Angle", token |-> a path]
    kScanLines          \* how many lines of code SF.8 looks at

IfndefName ==
    [x \in {"#ifndef G", "# ifndef G", "#ifndef g"} |-> IF x = "#ifndef g" THEN "g" ELSE "G"]
DefineName ==
    [x \in {"#define G", "# define G", "#define g"} |-> IF x = "#define g" THEN "g" ELSE "G"]
WithBlank == {"# ifndef G", "# define G"}
Opens == {"#if"} \cup DOMAIN IfndefName

\* The part of a sequence before, and after, the first of its elements that
\* is x; all of it, and nothing, when there is none.
Before(s, x) == IF x \in Range(s) THEN SubSeq(s, 1, SelectInSeq(s, LAMBDA y : y = x) - 1) ELSE s
After(s, x) == IF x \in Range(s) THEN SubSeq(s, SelectInSeq(s, LAMBDA y : y = x) + 1, Len(s)) ELSE << >>

-----------------------------------------------------------------------------
(* The include scanner.                                                     *)

NewLine == "newline"
Blank == " "

\* Is the next line glued to line n, and does a newline remain behind it?
Glued(text, n) == text[n] # << >> /\ Last(text[n]) = "\\" /\ n < Len(text)
Broken(text, n) == n < Len(text) /\ ~Glued(text, n)

\* Every lexeme with the physical line it stands on.
Physical(text, n) ==
    LET kept == IF Glued(text, n) THEN Front(text[n]) ELSE text[n]
    IN [i \in DOMAIN kept |-> [lex |-> kept[i], line |-> n]]
       \o IF Broken(text, n) THEN <<[lex |-> NewLine, line |-> n]>> ELSE << >>

join_continuations(text) == FlattenSeq([n \in DOMAIN text |-> Physical(text, n)])

\* The construct that a lexeme opens in code, and the one that ends it.
Opened == ("//" :> "line comment") @@ ("/*" :> "block comment") @@ ("R(" :> "raw string")
Closes == ("line comment" :> NewLine) @@ ("block comment" :> "*/") @@ ("raw string" :> ")R")

\* Comments and raw strings become blanks; the ends of lines stay.
preprocess(joined) ==
    LET Step(acc, c) ==
            IF acc.in = "code"
            THEN IF c.lex \in DOMAIN Opened
                 THEN [in |-> Opened[c.lex], out |-> Append(acc.out, [c EXCEPT !.lex = Blank])]
                 ELSE [acc EXCEPT !.out = Append(@, c)]
            ELSE [in |-> IF c.lex = Closes[acc.in] THEN "code" ELSE acc.in,
                  out |-> Append(acc.out, IF c.lex = NewLine THEN c ELSE [c EXCEPT !.lex = Blank])]
    IN FoldLeft(Step, [in |-> "code", out |-> << >>], joined).out

\* The logical lines, one more than there are newlines: what is left of each,
\* and the physical line it begins on.
LogicalLines(cleaned, newlines) ==
    LET breaks == {i \in DOMAIN cleaned : cleaned[i].lex = NewLine}
        On(k) == {i \in DOMAIN cleaned \ breaks : Cardinality({b \in breaks : b < i}) = k - 1}
        Code(k) == SelectSeq(SubSeq(cleaned, Min(On(k)), Max(On(k))), LAMBDA c : c.lex # Blank)
    IN [k \in 1..(newlines + 1) |->
          IF On(k) = {} THEN [at |-> 0, lex |-> << >>]
          ELSE [at |-> cleaned[Min(On(k))].line, lex |-> [i \in DOMAIN Code(k) |-> Code(k)[i].lex]]]

\* What a line begins with: only there is a directive one.
First(ln) == IF ln.lex = << >> THEN Blank ELSE ln.lex[1]

Shouty == {"G"}         \* the names is_shouty_ident accepts

\* The number of the logical line that opens the include guard, or 0.  The
\* first line that is not blank is the #ifndef, the next such line the #define.
IsLeast(i, S) == i \in S /\ \A j \in S : i <= j
OpensGuard(lines, i) ==
    LET significant == {j \in DOMAIN lines : lines[j].lex # << >>}
        ifndef == First(lines[i])
    IN /\ IsLeast(i, significant)
       /\ ifndef \in DOMAIN IfndefName /\ IfndefName[ifndef] \in Shouty
       /\ \E j \in DOMAIN lines :
            /\ IsLeast(j, significant \ {i})
            /\ First(lines[j]) \in DOMAIN DefineName /\ DefineName[First(lines[j])] = IfndefName[ifndef]
detect_include_guard_offset(lines) ==
    IF \E i \in DOMAIN lines : OpensGuard(lines, i)
    THEN CHOOSE i \in DOMAIN lines : OpensGuard(lines, i) ELSE 0

\* Mutant: the end of the guard is taken from the depth as well.
DepthAfterSigned(ln, isGuardOpen, depth) ==
    IF First(ln) \in Opens /\ ~isGuardOpen THEN depth + 1
    ELSE IF First(ln) = "#endif" THEN depth - 1 ELSE depth

\* The guard is not counted when it opens, and its #endif finds depth 0.
DepthAfter(ln, isGuardOpen, depth) ==
    IF First(ln) \in Opens /\ ~isGuardOpen THEN depth + 1
    ELSE IF First(ln) = "#endif" /\ depth > 0 THEN depth - 1 ELSE depth

\* The depth behind each line.
Depths(lines) ==
    LET guard == detect_include_guard_offset(lines)
        depth[i \in 0..Len(lines)] ==
            IF i = 0 THEN 0 ELSE DepthAfter(lines[i], i = guard, depth[i - 1])
    IN depth

try_extract(ln, conditional) == [lex |-> First(ln), line |-> ln.at, conditional |-> conditional]

View(text) ==
    LogicalLines(preprocess(join_continuations(text)),
                 Cardinality({n \in 1..Len(text) : Broken(text, n)}))

\* The directives in their order, each at the number of its logical line.
scanIncludes(text) ==
    LET lines == View(text)
        depth == Depths(lines)
    IN [directives |->
            [i \in {j \in DOMAIN lines : First(lines[j]) \in DOMAIN Includes} |->
                try_extract(lines[i], depth[i] > 0)],
        macros |-> {i \in DOMAIN lines : First(lines[i]) = "#include MACRO"}]

-----------------------------------------------------------------------------
(* SF.7: `using namespace` at global scope.                                 *)

\* Mutant: on the line that ends a comment the comment is seen as well.
updateBlockCommentStateWhole(raw, inBlock) ==
    IF inBlock
    THEN [vis |-> IF "*/" \in Range(raw) THEN raw ELSE << >>, inBlock |-> "*/" \notin Range(raw)]
    ELSE [vis |-> Before(raw, "/*"),
          inBlock |-> "/*" \in Range(raw) /\ "*/" \notin Range(After(raw, "/*"))]

\* What SF.7 sees of a line.  Behind a comment that ends on it the line is not
\* searched again, and behind one that begins on it nothing is seen.
updateBlockCommentState(raw, inBlock) ==
    IF inBlock
    THEN IF "*/" \in Range(raw) THEN [vis |-> After(raw, "*/"), inBlock |-> FALSE]
         ELSE [vis |-> << >>, inBlock |-> TRUE]
    ELSE [vis |-> Before(raw, "/*"),
          inBlock |-> "/*" \in Range(raw) /\ "*/" \notin Range(After(raw, "/*"))]

Count(s, x) == Len(SelectSeq(s, LAMBDA y : y = x))

\* Of the places where a line says "using" only the first is looked at, and what
\* follows there need only begin with "namespace".
Usings == {"using namespace", "using x", "using namespacex"}
hasUsingNamespace(line) ==
    LET using == SelectSeq(line, LAMBDA x : x \in Usings)
    IN  using # << >> /\ Head(using) # "using x"

\* The lines that SF.7 reports.  All the braces that open on a line count before
\* it is searched, and those that close count after it.
Sf7Lines(text) ==
    LET Step(acc, n) ==
            LET update == updateBlockCommentState(text[n], acc.inBlock)
                noComment == Before(update.vis, "//")
                inside == acc.braceDepth + Count(noComment, "{")
                after == IF Count(noComment, "}") > inside THEN 0 ELSE inside - Count(noComment, "}")
            IN [inBlock |-> update.inBlock, braceDepth |-> after,
                result |-> IF inside = 0 /\ hasUsingNamespace(noComment)
                           THEN acc.result \cup {n} ELSE acc.result]
    IN FoldLeft(Step, [inBlock |-> FALSE, braceDepth |-> 0, result |-> {}],
                [n \in DOMAIN text |-> n]).result

-----------------------------------------------------------------------------
(* SF.8: an include guard.                                                  *)

stripComment(line, inBlock) ==
    LET Step(acc, x) ==
            CASE acc.in = "block comment" /\ x = "*/" -> [acc EXCEPT !.in = "code"]
              [] acc.in = "code" /\ x \in {"//", "/*"} -> [acc EXCEPT !.in = Opened[x]]
              [] acc.in = "code" /\ x \notin {"//", "/*"} -> [acc EXCEPT !.code = Append(@, x)]
              [] OTHER -> acc
        end == FoldLeft(Step, [in |-> IF inBlock THEN "block comment" ELSE "code", code |-> << >>], line)
    IN [code |-> end.code, inBlock |-> end.in = "block comment"]

\* Mutant: the blank lines count as lines of code.
scanLeadingCodeAll(text) ==
    LET Step(acc, line) ==
            LET stripped == stripComment(line, acc.inBlock)
            IN [inBlock |-> stripped.inBlock, code |-> Append(acc.code, stripped.code)]
        code == FoldLeft(Step, [inBlock |-> FALSE, code |-> << >>], text).code
    IN SubSeq(code, 1, IF Len(code) < kScanLines THEN Len(code) ELSE kScanLines)

\* The lines of code the rule may look at: not blank, and no more than
\* kScanLines of them.
scanLeadingCode(text) ==
    LET Step(acc, line) ==
            LET stripped == stripComment(line, acc.inBlock)
            IN [inBlock |-> stripped.inBlock,
                code |-> IF stripped.code = << >> THEN acc.code ELSE Append(acc.code, stripped.code)]
        code == FoldLeft(Step, [inBlock |-> FALSE, code |-> << >>], text).code
    IN SubSeq(code, 1, IF Len(code) < kScanLines THEN Len(code) ELSE kScanLines)

isObjcFile(text) ==
    \E n \in DOMAIN scanLeadingCode(text) : "#import" \in Range(scanLeadingCode(text)[n])

\* The name in a directive, as directiveArg finds it: no blank behind the #.
Ifndefs == DOMAIN IfndefName \ WithBlank
Defines == DOMAIN DefineName \ WithBlank

\* A pair #ifndef, #define of one name; a line with an #ifndef is not searched
\* for a #define.
hasIncludeGuard(text) ==
    LET code == scanLeadingCode(text)
        Ifndef(n) == Range(code[n]) \cap Ifndefs
        Define(n) == Range(code[n]) \cap Defines
    IN \E n \in DOMAIN code :
         \/ "#pragma once" \in Range(code[n])
         \/ /\ Ifndef(n) = {}
            /\ \E m \in 1..(n - 1), x \in Ifndefs, y \in Defines :
                 x \in Ifndef(m) /\ y \in Define(n) /\ IfndefName[x] = DefineName[y]

\* Does SF.8 report this header?  (.inc files are left to the caller.)
Sf8Reports(text) == ~isObjcFile(text) /\ ~hasIncludeGuard(text)
=============================================================================
