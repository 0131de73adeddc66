----------------------------- MODULE CloneIndex ------------------------------
(***************************************************************************)
(* src/src/scan/duplication/clone_index.cpp, similarity.cpp and             *)
(* clone_classifier.cpp: which pairs of fragments are candidates for a      *)
(* clone, and how alike two fragments are.                                  *)
(*                                                                         *)
(* frags is the sequence of the fragments of a scan, a pair is <<a, b>>     *)
(* with a < b, a ratio is a record [num, den].                              *)
(***************************************************************************)
EXTENDS Fragmenter

CONSTANTS
    Code(_),            \* a number for every symbol (external: std::hash)
    rareDfCap, minSharedRare, fpK, fpWindow, fpMaxPostings

-----------------------------------------------------------------------------
(* Document frequencies.  A nested fragment is not a document.              *)

Documents(frags) == {i \in DOMAIN frags : ~frags[i].nested}

computeDocumentFrequency(frags) ==
    [sym \in UNION {DOMAIN frags[i].bag : i \in Documents(frags)} |->
        Cardinality({i \in Documents(frags) : sym \in DOMAIN frags[i].bag})]

DfOf(df, sym) == IF sym \in DOMAIN df THEN df[sym] ELSE 0

\* 1000 * ln(n) for n = 1, 2, ...
Ln == <<0, 693, 1099, 1386, 1609, 1792, 1946, 2079, 2197, 2303, 2398, 2485, 2565, 2639, 2708, 2773>>

\* 1000 times the weight of a symbol; 1 for one that is in no document.
computeIdfWeights(frags, df) ==
    [sym \in UNION {DOMAIN frags[i].bag : i \in DOMAIN frags} |->
        IF sym \in DOMAIN df THEN Ln[Cardinality(Documents(frags))] - Ln[df[sym]] ELSE 1000]

-----------------------------------------------------------------------------
(* Candidate pairs.                                                         *)

spanOverlaps(x, y) == x.file = y.file /\ x.startLine <= y.endLine /\ y.startLine <= x.endLine

sameFileOverlapOrAdjacent(a, b) ==
    a.file = b.file /\ (spanOverlaps(a, b) \/ a.endLine + 1 = b.startLine \/ b.endLine + 1 = a.startLine)

\* The number of rare symbols that two fragments share.
SharedRare(a, b, df) ==
    Cardinality({sym \in DOMAIN a.bag \cap DOMAIN b.bag : DfOf(df, sym) <= rareDfCap})

kGramHashes(seq) ==
    [i \in 1..(Len(seq) - fpK + 1) |-> Fold(LAMBDA h, sym : ((h + Code(sym)) * 31) % 8191, 7, SubSeq(seq, i, i + fpK - 1))]

\* The least hash of every window.
fingerprintsOf(seq) ==
    LET grams == kGramHashes(seq)
    IN {Min({grams[p] : p \in (end - fpWindow + 1)..end}) : end \in fpWindow..Len(grams)}

\* The pairs that share a fingerprint which is not in too many documents.
addFingerprintCandidates(frags, pairs) ==
    LET postings == UNION {{<<i, fp>> : fp \in fingerprintsOf(frags[i].seq)} : i \in DOMAIN frags}
        Boilerplate(fp) ==
            fpMaxPostings > 0 /\ Cardinality({i \in Documents(frags) : <<i, fp>> \in postings}) > fpMaxPostings
        signals == {x \in postings : ~Boilerplate(x[2])}
    IN {p \in pairs : \E x \in signals : x[1] = p[1] /\ <<p[2], x[2]>> \in signals}

NoIndex == [df |-> << >>, idf |-> << >>, candidates |-> {}]

\* The index of a scan.
buildIndex(frags) ==
    LET df == computeDocumentFrequency(frags)
        pairs == {p \in (DOMAIN frags) \X (DOMAIN frags) :
                    p[1] < p[2] /\ ~sameFileOverlapOrAdjacent(frags[p[1]], frags[p[2]])}
    IN [df |-> df, idf |-> computeIdfWeights(frags, df),
        candidates |-> {p \in pairs : SharedRare(frags[p[1]], frags[p[2]], df) >= minSharedRare}
                       \cup addFingerprintCandidates(frags, pairs)]

-----------------------------------------------------------------------------
(* How alike two fragments are.                                             *)

BagCount(f, sym) == IF sym \in DOMAIN f.bag THEN f.bag[sym] ELSE 0
Less(x, y) == IF x < y THEN x ELSE y

\* The weighted Jaccard similarity of two bags.
Jaccard(a, b, Weight(_)) ==
    LET syms == DOMAIN a.bag \cup DOMAIN b.bag
        Both(sym) == Less(BagCount(a, sym), BagCount(b, sym))
        Either(sym) == BagCount(a, sym) + BagCount(b, sym) - Both(sym)
    IN [num |-> MapThenSumSet(LAMBDA sym : Weight(sym) * Both(sym), syms),
        den |-> MapThenSumSet(LAMBDA sym : Weight(sym) * Either(sym), syms)]

weightedJaccard(a, b, idf) == Jaccard(a, b, LAMBDA sym : idf[sym])
plainJaccard(a, b) == Jaccard(a, b, LAMBDA sym : 1)

\* Is a ratio at least so many per cent?  No ratio of nothing is.
AtLeast(ratio, percent) == ratio.den > 0 /\ ratio.num * 100 >= percent * ratio.den

lineOverlap(a, b) ==
    [num |-> Cardinality(a.normLines \cap b.normLines), den |-> Cardinality(a.normLines \cup b.normLines)]

\* The length of the longest common subsequence, a row of the table at a time.
lcsLength(a, b) ==
    LET Cell(prev, x, cur, j) ==
            IF x = b[j] THEN prev[j] + 1 ELSE IF prev[j + 1] > Last(cur) THEN prev[j + 1] ELSE Last(cur)
        Row(prev, x) == Fold(LAMBDA cur, j : Append(cur, Cell(prev, x, cur, j)), <<0>>, [j \in 1..Len(prev) - 1 |-> j])
    IN Last(Fold(Row, [j \in 1..Len(b) + 1 |-> 0], a))

cloneType(a, b) ==
    LET differ == {i \in DOMAIN a.seq : a.rawSeq[i] # b.rawSeq[i]}
        kinds == {a.seq[i] : i \in differ} \cap {"id", "lit"}
    IN IF a.seq # b.seq THEN "STRUCTURAL"
       ELSE CASE kinds = {} -> "EXACT" [] kinds = {"id"} -> "RENAMED" [] kinds = {"lit"} -> "LITERAL" [] OTHER -> "MIXED"
=============================================================================
