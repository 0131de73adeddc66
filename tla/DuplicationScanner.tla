-------------------------- MODULE DuplicationScanner -------------------------
(***************************************************************************)
(* src/src/scan/duplication/duplication_scanner.cpp: the clones in a tree.  *)
(* A pair is scored, passes or fails one filter after another, and is       *)
(* dropped when a pair beside it tells the same.                            *)
(*                                                                         *)
(* The options are those of the callers: the metric is the weighted one,    *)
(* every guard is on, save the one for whole files, and only pairs in focus *)
(* are scored; focus is a set of paths, and {} stands for all.              *)
(***************************************************************************)
EXTENDS CloneIndex

CONSTANTS
    simThreshold, jointWeightedThreshold, jointLineThreshold, jointRunWeightedThreshold,  \* per cent
    jointMinClassicStatements, jointMinSharedLines,
    kShortTokens,       \* fragments of fewer tokens must be very much alike
    kInsertionSort,     \* so many elements std::sort sorts by insertion (external: 16)
    generatedPaths      \* the files isGeneratedPath says are generated

\* The fragments of a tree: files is a sequence of [path, text].
phase1TokenizeAndExtract(files) ==
    FlattenSeq([k \in DOMAIN files |-> extractFragments(files[k].text, files[k].path)])

\* Mutant: both files have to be in focus.
pairInFocusBoth(frags, a, b, focus) ==
    focus = {} \/ (frags[a].file \in focus /\ frags[b].file \in focus)

pairInFocus(frags, a, b, focus) ==
    focus = {} \/ frags[a].file \in focus \/ frags[b].file \in focus

\* Two runs without a symbol that weighs anything are compared by all symbols.
boundaryAwareWeighted(a, b, idf) ==
    LET weighted == weightedJaccard(a, b, idf)
    IN IF a.boundary /\ b.boundary /\ weighted.num = 0 THEN plainJaccard(a, b) ELSE weighted

\* The candidates in focus that are alike, with their measures.
phase3ScoreCandidates(frags, index, focus) ==
    LET inFocus == {p \in index.candidates : pairInFocus(frags, p[1], p[2], focus)}
        Scored(p) == [a |-> p[1], b |-> p[2],
                      weighted |-> boundaryAwareWeighted(frags[p[1]], frags[p[2]], index.idf),
                      line |-> lineOverlap(frags[p[1]], frags[p[2]]),
                      sharedLines |-> lcsLength(frags[p[1]].normLineSeq, frags[p[2]].normLineSeq)]
    IN {s \in {Scored(p) : p \in inFocus} : AtLeast(s.weighted, simThreshold)}

\* The pairs in ranks, the most alike first.  std::sort compares the scores alone:
\* no more than kInsertionSort pairs it leaves, where these are equal, in the
\* order of the index, and more of them in any order within a rank.
phase4Sort(pairs) ==
    LET Left(p, q) == p.weighted.num * q.weighted.den
        Before(p, q) ==
            \/ Left(p, q) > Left(q, p)
            \/ Left(p, q) = Left(q, p) /\ (p.a < q.a \/ (p.a = q.a /\ p.b < q.b))
        Ties(p) == {q \in pairs : Left(p, q) = Left(q, p)}
        ranks == IF Cardinality(pairs) <= kInsertionSort THEN {{p} : p \in pairs} ELSE {Ties(p) : p \in pairs}
    IN Ordered(ranks, LAMBDA R, S : \E p \in R : \A q \in S : Before(p, q))

-----------------------------------------------------------------------------
(* Filters that look at one pair.                                           *)

lineSpan(f) == f.endLine - f.startLine + 1

phase7SameFunctionFilter(fa, fb) == ~sameFileOverlapOrAdjacent(fa, fb)

phaseSpanBalance(fa, fb) ==
    lineSpan(fa) <= 2 * lineSpan(fb) /\ lineSpan(fb) <= 2 * lineSpan(fa)

LowDiversity(f) == f.diversity.grams * 100 < 30 * f.diversity.of

phase8JointTokenOrderFloor(p, fa, fb) ==
    \/ /\ AtLeast(p.weighted, jointWeightedThreshold) /\ AtLeast(p.line, jointLineThreshold)
       /\ Less(fa.statementCount, fb.statementCount) >= jointMinClassicStatements
    \/ /\ AtLeast(p.weighted, jointRunWeightedThreshold)
       /\ jointMinSharedLines > 0 /\ p.sharedLines >= jointMinSharedLines
       /\ ~(LowDiversity(fa) /\ LowDiversity(fb))

phasePathBasedFpSuppress(fa, fb) == {fa.file, fb.file} \cap generatedPaths = {}

phase10DataTableClassifier(fa, fb) ==
    ~(LowDiversity(fa) /\ LowDiversity(fb) /\ cloneType(fa, fb) \in {"LITERAL", "MIXED"})

phase11BoilerplateDensity(p, fa, fb) ==
    (Len(fa.seq) < kShortTokens /\ Len(fb.seq) < kShortTokens) => AtLeast(p.weighted, 90)

-----------------------------------------------------------------------------
(* Filters that look at the other pairs.                                    *)

\* The pairs of files that are copies of each other as a whole.
wholeFileClonePairs(pairs, frags) ==
    LET Bodies(file) == Cardinality({i \in Documents(frags) : frags[i].file = file})
        Files(p) == {frags[p.a].file, frags[p.b].file}
        whole == {p \in pairs : ~frags[p.a].nested /\ ~frags[p.b].nested /\ Cardinality(Files(p)) = 2}
        Matched(fs) == Cardinality({p \in whole : Files(p) = fs})
    IN {fs \in {Files(p) : p \in whole} :
          /\ \A file \in fs : Bodies(file) >= 2 /\ Matched(fs) * 5 >= Bodies(file) * 4}

phase9WholeFileSuppress(pairs, frags) ==
    LET wholeFile == wholeFileClonePairs(pairs, frags)
    IN {p \in pairs : {frags[p.a].file, frags[p.b].file} \notin wholeFile}

spanContains(outer, inner) ==
    outer.file = inner.file /\ outer.startLine <= inner.startLine /\ inner.endLine <= outer.endLine

\* Does R hold of both sides of two pairs, the one way or the other?
BothSides(R(_, _), p, q, frags) ==
    \/ R(frags[p.a], frags[q.a]) /\ R(frags[p.b], frags[q.b])
    \/ R(frags[p.b], frags[q.a]) /\ R(frags[p.a], frags[q.b])

pairContainedIn(inner, outer, frags) == BothSides(spanContains, outer, inner, frags)
pairOverlapsPair(p, q, frags) == BothSides(spanOverlaps, p, q, frags)

sameSpanPair(p, q, frags) ==
    LET Span(f) == <<f.startLine, f.endLine>>
    IN Span(frags[p.a]) = Span(frags[q.a]) /\ Span(frags[p.b]) = Span(frags[q.b])

boundaryPair(p, frags) == frags[p.a].boundary /\ frags[p.b].boundary

\* A pair of runs gives way to any pair of bodies it overlaps; a pair of
\* bodies gives way to no pair of runs.
shouldDropContainedPair(p, q, frags) ==
    /\ ~sameSpanPair(p, q, frags)
    /\ IF boundaryPair(p, frags) /\ ~boundaryPair(q, frags) THEN pairOverlapsPair(p, q, frags)
       ELSE /\ boundaryPair(p, frags) \/ ~boundaryPair(q, frags)
            /\ pairContainedIn(p, q, frags)

\* The other pair is one of all pairs, whether it stays or not.
phaseNestedContainment(pairs, frags) ==
    {p \in pairs : \A q \in pairs : ~shouldDropContainedPair(p, q, frags)}

\* What may be kept of the pairs, taken one after another in an order that the
\* ranks allow: of each rank, as many as overlap nothing that is kept.
phaseOverlapDedup(pairs, ranks, frags) ==
    LET Overlaps(p, S) == \E q \in S : pairOverlapsPair(p, q, frags)
        Apart(S) == \A p \in S : ~Overlaps(p, S \ {p})
        Taken(kept, rank) ==
            LET rest == {p \in rank \cap pairs : ~Overlaps(p, kept)}
            IN {kept \cup S : S \in {T \in SUBSET rest : Apart(T) /\ \A p \in rest \ T : Overlaps(p, T)}}
    IN Fold(LAMBDA outcomes, rank : UNION {Taken(kept, rank) : kept \in outcomes}, {{}}, ranks)

-----------------------------------------------------------------------------

\* What the clones may be, from phase 4 to the last.
applyCandidateFilters(scored, frags, enableWholeFileGuard) ==
    LET Pass(p) ==
            LET fa == frags[p.a]
                fb == frags[p.b]
            IN /\ phase7SameFunctionFilter(fa, fb) /\ phaseSpanBalance(fa, fb)
               /\ phase8JointTokenOrderFloor(p, fa, fb)
        Guarded(p) ==
            LET fa == frags[p.a]
                fb == frags[p.b]
            IN /\ phasePathBasedFpSuppress(fa, fb) /\ phase10DataTableClassifier(fa, fb)
               /\ phase11BoilerplateDensity(p, fa, fb)
        passed == {p \in scored : Pass(p)}
        several == IF enableWholeFileGuard THEN phase9WholeFileSuppress(passed, frags) ELSE passed
        guarded == {p \in several : Guarded(p)}
    IN phaseOverlapDedup(phaseNestedContainment(guarded, frags), phase4Sort(scored), frags)

Clones(frags, index, enableWholeFileGuard, focus) ==
    applyCandidateFilters(phase3ScoreCandidates(frags, index, focus), frags, enableWholeFileGuard)

-----------------------------------------------------------------------------
(* scanForDuplication, in three steps.                                      *)

VARIABLE scan           \* the scan under way, or the last one

NoScan == [step |-> "idle", fragments |-> << >>, index |-> NoIndex, pairs |-> {}]

Tokenize(files) ==
    scan' = [NoScan EXCEPT !.step = "fragments", !.fragments = phase1TokenizeAndExtract(files)]

Index ==
    /\ scan.step = "fragments"
    /\ scan' = [scan EXCEPT !.step = "index", !.index = buildIndex(scan.fragments)]

Score(enableWholeFileGuard, focus) ==
    /\ scan.step = "index"
    /\ \E pairs \in Clones(scan.fragments, scan.index, enableWholeFileGuard, focus) :
            scan' = [scan EXCEPT !.step = "pairs", !.pairs = pairs]
=============================================================================
