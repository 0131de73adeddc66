----------------------------- MODULE Fragmenter ------------------------------
(***************************************************************************)
(* src/src/scan/duplication/fragmenter.cpp: the fragments of a file that    *)
(* are compared.  They are the bodies of callables of minTokens to maxTokens*)
(* tokens, the runs at both ends of such a body, and the runs of whole      *)
(* statements of a function too large to be compared as a whole.            *)
(***************************************************************************)
EXTENDS TokenNormalizer, FiniteSets, FiniteSetsExt

CONSTANTS
    minTokens, maxTokens,
    Skeleton            \* lexemes that begin a line of a switch without content

Qualifiers == {"const", "noexcept", "override", "final", "volatile", "mutable", "&", "&&"}
ControlWords == {"if", "for", "while", "switch", "catch"}
Punctuation == {"{", "}", "(", ")", ";"}

-----------------------------------------------------------------------------
(* One fragment.                                                            *)

\* The elements of S in their order; SetToSortSeq tries all the sequences.
Ordered(S, Before(_, _)) ==
    [k \in 1..Cardinality(S) |-> CHOOSE x \in S : Cardinality({y \in S : Before(y, x)}) = k - 1]

CountIn(t, lo, hi, sym) == Cardinality({i \in lo..hi : t[i].sym = sym})

\* The "{" that are closed, each with the "}" that closes it.
braceMatch(t) ==
    LET Balanced(i, j) == CountIn(t, i, j, "{") = CountIn(t, i, j, "}")
        Closers(i) == {j \in i..Len(t) : t[j].sym = "}" /\ Balanced(i, j)}
    IN [i \in {k \in DOMAIN t : t[k].sym = "{" /\ Closers(k) # {}} |-> Min(Closers(i))]

normalizeLine(raw) == SelectSeq(raw, LAMBDA x : x # Indent)

\* A line that says nothing: every switch has it.
isSwitchSkeletonLine(norm) == norm[1] \in Skeleton

\* The lines of less than four characters have nothing but punctuation.
Substantive(norm) == \E x \in Range(norm) : x \notin Punctuation

\* The lines of a fragment that are compared, as they are written.
collectNormLines(text, first, last) ==
    SelectSeq([k \in 1..(last - first + 1) |-> normalizeLine(text[first + k - 1])],
              LAMBDA norm : norm # << >> /\ ~isSwitchSkeletonLine(norm))

trigramDiversity(seq) ==
    IF Len(seq) < 3 THEN [grams |-> 1, of |-> 1]
    ELSE [grams |-> Cardinality({SubSeq(seq, i, i + 2) : i \in 1..(Len(seq) - 2)}), of |-> Len(seq) - 2]

\* The statements: ";" outside of parentheses.
trackParenAndStatements(seq) ==
    LET Step(acc, sym) ==
            CASE sym = "(" -> [acc EXCEPT !.paren = @ + 1]
              [] sym = ")" /\ acc.paren > 0 -> [acc EXCEPT !.paren = @ - 1]
              [] sym = ";" /\ acc.paren = 0 -> [acc EXCEPT !.count = @ + 1]
              [] OTHER -> acc
    IN Fold(Step, [paren |-> 0, count |-> 0], seq).count

\* The tokens lo to hi as a fragment.
makeFragment(t, lo, hi, file, text, nested, boundary) ==
    LET seq == [i \in 1..(hi - lo + 1) |-> t[lo + i - 1].sym]
        lines == collectNormLines(text, t[lo].line, t[hi].line)
    IN [file |-> file, startLine |-> t[lo].line, endLine |-> t[hi].line,
        seq |-> seq,
        rawSeq |-> [i \in DOMAIN seq |-> IF t[lo + i - 1].raw = << >> THEN <<seq[i]>> ELSE t[lo + i - 1].raw],
        statementCount |-> trackParenAndStatements(seq),
        bag |-> [sym \in Range(seq) |-> Cardinality({i \in DOMAIN seq : seq[i] = sym})],
        normLines |-> Range(lines), normLineSeq |-> SelectSeq(lines, Substantive),
        diversity |-> trigramDiversity(seq),
        nested |-> nested, boundary |-> boundary]

-----------------------------------------------------------------------------
(* The spans <<lo, hi>> of tokens that become fragments.                    *)

Sizes == <<minTokens, minTokens * 2, minTokens * 4>>

\* The runs at both ends of a body.
emitBoundaryRuns(lo, hi) ==
    LET enough == SelectSeq(Sizes, LAMBDA size : hi - lo + 1 >= size + minTokens)
    IN FlattenSeq([k \in DOMAIN enough |-> <<<<lo, lo + enough[k] - 1>>, <<hi - enough[k] + 1, hi>>>>])

\* Where the statements of a body begin; a block is one statement.
statementStarts(t, match, lo, hi) ==
    LET pushBoundary(starts, p) == IF p <= hi /\ t[p].sym # ";" THEN Append(starts, p) ELSE starts
        Step(acc, i) ==
            CASE i <= acc.skipTo -> acc
              [] i > acc.skipTo /\ t[i].sym = "(" -> [acc EXCEPT !.paren = @ + 1]
              [] i > acc.skipTo /\ t[i].sym = ")" /\ acc.paren > 0 -> [acc EXCEPT !.paren = @ - 1]
              [] i > acc.skipTo /\ i \in DOMAIN match ->
                    [acc EXCEPT !.skipTo = match[i], !.starts = pushBoundary(@, match[i] + 1)]
              [] i > acc.skipTo /\ t[i].sym = ";" /\ acc.paren = 0 ->
                    [acc EXCEPT !.starts = pushBoundary(@, i + 1)]
              [] OTHER -> acc
    IN Fold(Step, [skipTo |-> 0, paren |-> 0, starts |-> <<lo>>], [k \in 1..(hi - lo + 1) |-> lo + k - 1]).starts

\* The end of a run of at least tier tokens: before the next statement, or the
\* end of the body.
snapEnd(starts, si, tier, hi) ==
    LET far == {starts[sj] - 1 : sj \in {j \in si + 1..Len(starts) : starts[j] - starts[si] >= tier}}
    IN IF far = {} THEN hi ELSE Min(far)

\* The runs of statements of a body, no two tiers with the same end.
emitStatementRuns(t, match, lo, hi) ==
    LET starts == statementStarts(t, match, lo, hi)
        Ends(si) == {e \in {snapEnd(starts, si, Sizes[k], hi) : k \in DOMAIN Sizes} :
                        e - starts[si] + 1 >= minTokens}
        From(si) == [k \in 1..Cardinality(Ends(si)) |-> <<starts[si], Ordered(Ends(si), <)[k]>>]
    IN IF hi - lo + 1 < minTokens THEN << >> ELSE FlattenSeq([si \in DOMAIN starts |-> From(si)])

isControlBody(t, brace) ==
    LET openers == {k \in 1..(brace - 1) : t[k].sym = "("
                        /\ CountIn(t, k, brace - 1, "(") = CountIn(t, k, brace - 1, ")")}
    IN /\ brace > 1 /\ t[brace - 1].sym = ")"
       /\ openers # {} /\ Max(openers) > 1 /\ t[Max(openers) - 1].sym \in ControlWords

opensCallableBody(t, brace) ==
    LET before == {k \in 1..(brace - 1) : t[k].sym \notin Qualifiers}
    IN before # {} /\ t[Max(before)].sym = ")"

IsBody(t, match, i) ==
    opensCallableBody(t, i) /\ match[i] - i - 1 \in minTokens..maxTokens

\* The fragments that begin at a "{", in the order of the code.  What lies in a
\* body that was emitted is nested.
scanRange(t, match, file, text, i) ==
    LET lo == i + 1
        hi == match[i] - 1
        Fragments(spans) == [k \in DOMAIN spans |-> makeFragment(t, spans[k][1], spans[k][2], file, text, TRUE, TRUE)]
        nested == \E o \in DOMAIN match : o < i /\ match[i] < match[o] /\ IsBody(t, match, o)
    IN IF IsBody(t, match, i)
       THEN <<makeFragment(t, lo, hi, file, text, nested, FALSE)>> \o Fragments(emitBoundaryRuns(lo, hi))
       ELSE IF opensCallableBody(t, i) /\ hi - lo + 1 > maxTokens /\ ~isControlBody(t, i)
       THEN Fragments(emitStatementRuns(t, match, lo, hi))
       ELSE << >>

extractFragments(text, file) ==
    LET t == lex(text)
        match == braceMatch(t)
        opens == Ordered(DOMAIN match, <)
    IN FlattenSeq([k \in DOMAIN opens |-> scanRange(t, match, file, text, opens[k])])
=============================================================================
