--------------------------- MODULE TokenNormalizer ---------------------------
(***************************************************************************)
(* src/src/scan/duplication/token_normalizer.cpp: the tokens of a text, as  *)
(* all scans of function bodies see them.                                   *)
(*                                                                         *)
(* A text is a sequence of lines, a line a sequence of lexemes: "\t" is the *)
(* blank space that a line begins with, "//" "/*" "*/" are comment markers, *)
(* "R(" ")R" the ends of a raw string, "#if 0" "#if" "#endif" directives.   *)
(***************************************************************************)
EXTENDS Integers, Sequences, SequencesExt

CONSTANTS
    Keywords, Identifiers, Literals,    \* lexemes; all others are operators
    kMaxLexBytes                        \* a longer text has no tokens

\* FoldLeft, by recursion along the sequence: it takes the maximum of the
\* positions that are left for every step.
Fold(op(_, _), base, seq) ==
    LET f[i \in 0..Len(seq)] == IF i = 0 THEN base ELSE op(f[i - 1], seq[i])
    IN f[Len(seq)]

Indent == "\t"
LineEnd == "\n"

Stream(text) ==
    FlattenSeq([n \in DOMAIN text |->
        [i \in 1..Len(text[n]) + 1 |->
            [lex |-> IF i > Len(text[n]) THEN LineEnd ELSE text[n][i], line |-> n, column |-> i]]])

Size(text) == Len(Stream(text))

\* What a construct that is skipped, or that is one literal, ends with.
Terminator == [comment |-> LineEnd, block |-> "*/", raw |-> ")R"]

\* "#if 0" and "#if false", with blanks wherever they may be.
isDeadIfOpener(c) == c.lex = "#if 0"

\* Inside a block under "#if 0" only a directive in the first column counts.
updatePreprocessorDepth(c) ==
    IF c.column # 1 THEN 0
    ELSE IF c.lex \in {"#if", "#if 0"} THEN 1
    ELSE IF c.lex = "#endif" THEN -1 ELSE 0

Literal(acc, raw) == Append(acc.out, [sym |-> "lit", line |-> acc.from, raw |-> raw])

\* An identifier keeps its name as a call or as the label of a case.
pushIdentifierToken(out, c, nextIsParen) ==
    LET keep == nextIsParen \/ (out # << >> /\ Last(out).sym = "case")
    IN Append(out, [sym |-> IF keep THEN c.lex ELSE "id", line |-> c.line,
                    raw |-> IF keep THEN << >> ELSE <<c.lex>>])

consumeToken(acc, c, nextIsParen) ==
    CASE c.lex = "R(" -> [acc EXCEPT !.in = "raw", !.raw = <<"R(">>, !.from = c.line]
      [] c.lex \in Literals ->
            [acc EXCEPT !.out = Append(@, [sym |-> "lit", line |-> c.line, raw |-> <<c.lex>>])]
      [] c.lex \in Identifiers -> [acc EXCEPT !.out = pushIdentifierToken(@, c, nextIsParen)]
      [] OTHER -> [acc EXCEPT !.out = Append(@, [sym |-> c.lex, line |-> c.line, raw |-> << >>])]

\* One lexeme of code: trivia first, then a token, after which no directive
\* can begin on this line.
Consume(acc, c, nextIsParen) ==
    CASE c.lex = LineEnd -> [acc EXCEPT !.atLineStart = TRUE]
      [] c.lex = Indent -> acc
      [] c.lex = "//" -> [acc EXCEPT !.in = "comment"]
      [] c.lex = "/*" -> [acc EXCEPT !.in = "block"]
      [] isDeadIfOpener(c) /\ acc.atLineStart -> [acc EXCEPT !.in = "dead", !.depth = 1]
      [] OTHER -> consumeToken([acc EXCEPT !.atLineStart = FALSE], c, nextIsParen)

skipDeadIfBlock(acc, c) ==
    IF c.lex = LineEnd /\ acc.depth = 0 THEN [acc EXCEPT !.in = "code", !.atLineStart = TRUE]
    ELSE [acc EXCEPT !.depth = @ + updatePreprocessorDepth(c)]

lex(text) ==
    LET s == Stream(text)
        NextIsParen(i) ==
            LET j == SelectInSeq(SubSeq(s, i + 1, Len(s)), LAMBDA c : c.lex \notin {LineEnd, Indent})
            IN j > 0 /\ s[i + j].lex = "("
        Skip(acc, c) ==
            IF c.lex = Terminator[acc.in]
            THEN [acc EXCEPT !.in = "code", !.raw = << >>,
                             !.atLineStart = @ \/ c.lex = LineEnd,
                             !.out = IF acc.in = "raw" THEN Literal(acc, Append(acc.raw, c.lex)) ELSE @]
            ELSE [acc EXCEPT !.raw = IF acc.in = "raw" THEN Append(@, c.lex) ELSE @]
        Step(acc, i) ==
            CASE acc.in = "code" -> Consume(acc, s[i], NextIsParen(i))
              [] acc.in = "dead" -> skipDeadIfBlock(acc, s[i])
              [] OTHER -> Skip(acc, s[i])
        end == Fold(Step, [in |-> "code", atLineStart |-> TRUE, depth |-> 0, raw |-> << >>, from |-> 0,
                               out |-> << >>],
                        [i \in DOMAIN s |-> i])
    IN IF Size(text) > kMaxLexBytes THEN << >>
       ELSE IF end.in = "raw" THEN Literal(end, end.raw) ELSE end.out
=============================================================================
