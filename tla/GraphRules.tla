----------------------------- MODULE GraphRules -----------------------------
(***************************************************************************)
(* The rules of `archcheck <path>` that read the include graph, SF.9 and    *)
(* the Lakos rules, those of `--drift-baseline`, DRIFT.1 to DRIFT.4         *)
(* (src/src/rules), and the gate policy that decides which findings fail a  *)
(* run.                                                                     *)
(*                                                                         *)
(* A project is a record: its nodes, the successors of each node in the     *)
(* order of its #includes, and the conditional edges.  What a rule asks of  *)
(* the name of a file is a constant.                                        *)
(***************************************************************************)
EXTENDS RegressionReport, SequencesExt

CONSTANTS
    areaOf,             \* path -> its module, or NoDir
    InlineSplits,       \* {{"d/foo.h", "d/foo.inl"}, ...}: one component each
    PchNames,           \* the paths with the name of a precompiled header
    ChainThreshold,     \* thresholds.chain_length
    kMassTouchEdges     \* DRIFT.4 is silent on changes with more new edges

\* The two halves of a component are in one directory.
ASSUME InlineSplitsAssumption ==
    \A s \in InlineSplits : \A p, q \in s :
        areaOf[p] = areaOf[q] \/ NoDir \in {areaOf[p], areaOf[q]}

EdgesOf(p) == {e \in p.nodes \X p.nodes : e[2] \in ToSet(p.successors[e[1]])}
graphOf(p) == [nodes |-> p.nodes, edges |-> EdgesOf(p)]
-----------------------------------------------------------------------------
(* SF.9 *)

\* The cycles through start inside the component s, each as the nodes that
\* follow start, start included.  CycleFinder takes a node back off its path
\* when it leads nowhere, so it may come to any of them.
CyclesThrough(p, s, start) ==
    LET prefixes == {w \in SeqOf(s \ {start}, Cardinality(s) - 1) : IsInjective(w)}
        edges == EdgesOf(p)
    IN  {w \in {Append(v, start) : v \in prefixes} :
            \A k \in DOMAIN w : <<IF k = 1 THEN start ELSE w[k - 1], w[k]>> \in edges}

\* Where does a list its #include of b?
Position(p, a, b) == CHOOSE i \in DOMAIN p.successors[a] : p.successors[a][i] = b

\* CycleFinder tries the successors in their order and so finds v before w.
FoundBefore(p, start, v, w) ==
    \E k \in DOMAIN v \cap DOMAIN w :
        LET last == IF k = 1 THEN start ELSE v[k - 1] IN
        /\ \A j \in 1 .. k - 1 : v[j] = w[j]
        /\ Position(p, last, v[k]) < Position(p, last, w[k])

CycleFinder(p, s) ==
    LET start == FrontOf(s)
        cycles == CyclesThrough(p, s, start)
    IN  CHOOSE v \in cycles : \A w \in cycles : w = v \/ FoundBefore(p, start, v, w)

\* Mutant: the edge that closes the cycle is not looked at.
allEdgesConditionalOpen(p, start, path) ==
    \A k \in 1 .. Len(path) - 1 :
        <<IF k = 1 THEN start ELSE path[k - 1], path[k]>> \in p.conditional

\* A self-include is a cycle without a path, and never conditional.
allEdgesConditional(p, start, path) ==
    /\ Len(path) > 1
    /\ \A k \in DOMAIN path :
          <<IF k = 1 THEN start ELSE path[k - 1], path[k]>> \in p.conditional

isInlineSplitScc(s) == s \in InlineSplits

\* The components Sf9NoCycles reports.
Sf9NoCycles(p) ==
    {s \in nontrivial_sccs(graphOf(p)) :
        ~isInlineSplitScc(s) /\ ~allEdgesConditional(p, FrontOf(s), CycleFinder(p, s))}
-----------------------------------------------------------------------------
(* The Lakos rules. *)

LakosGodHeaders(p) == GodHeaders(graphOf(p)) \ PchNames

\* computeIncludeDepths, see IncludeDepth.tla: the number of links of the
\* longest chain of components that begins at the file.
LakosChainLength(p) ==
    LET long == {c \in Chains(p.nodes, EdgesOf(p)) : Len(c) - 1 > ChainThreshold} IN
    UNION {c[1] : c \in long}
-----------------------------------------------------------------------------
(* The DRIFT rules, on two graphs. *)

\* Mutant: both files must be new.
DriftNoShortcutEdgeNew(baseline, current) ==
    {e \in addedEdges(baseline, current) : {e[1], e[2]} \cap baseline.nodes = {}}

\* DRIFT.1: new edges between files that both were there.
DriftNoShortcutEdge(baseline, current) ==
    {e \in addedEdges(baseline, current) : {e[1], e[2]} \subseteq baseline.nodes}

\* Mutant: a cycle that a new file closes is not looked at.
DriftNoCycleGrowthOld(baseline, current) ==
    {s \in grownSccs(baseline, current) : s \subseteq baseline.nodes}

\* DRIFT.2
DriftNoCycleGrowth(baseline, current) == grownSccs(baseline, current)

areaEdge(e) == <<areaOf[e[1]], areaOf[e[2]]>>
areaDeps(g) == {a \in {areaEdge(e) : e \in g.edges} : a[1] # a[2] /\ NoDir \notin {a[1], a[2]}}
Reversed(a) == <<a[2], a[1]>>

\* Mutant: a pair that was coupled in one direction is taken for an old one.
DriftBidirectionalCouplingAny(baseline, current) ==
    {{areaOf[e[1]], areaOf[e[2]]} : e \in
        {x \in addedEdges(baseline, current) :
            /\ {areaEdge(x), Reversed(areaEdge(x))} \subseteq areaDeps(current)
            /\ {areaEdge(x), Reversed(areaEdge(x))} \cap areaDeps(baseline) = {}
            /\ Reversed(x) \notin current.edges}}

\* DRIFT.3: the pairs of modules that now depend on each other and did not in
\* the baseline, through an edge that is not half of a cycle of two files.
DriftBidirectionalCoupling(baseline, current) ==
    {{areaOf[e[1]], areaOf[e[2]]} : e \in
        {x \in addedEdges(baseline, current) :
            /\ {areaEdge(x), Reversed(areaEdge(x))} \subseteq areaDeps(current)
            /\ ~({areaEdge(x), Reversed(areaEdge(x))} \subseteq areaDeps(baseline))
            /\ Reversed(x) \notin current.edges}}

\* The fan-in and fan-out diversity of a module, over pairs of modules.
fid(deps, m) == Cardinality({d \in deps : d[2] = m})
fod(deps, m) == Cardinality({d \in deps : d[1] = m})
ModulesOf(deps) == {d[1] : d \in deps} \cup {d[2] : d \in deps}

\* The element at half the length of the sorted fan-outs.
MedianFod(deps) ==
    LET modules == ModulesOf(deps)
        half == Cardinality(modules) \div 2
    IN  CHOOSE v \in {fod(deps, m) : m \in modules} :
            /\ Cardinality({m \in modules : fod(deps, m) < v}) <= half
            /\ Cardinality({m \in modules : fod(deps, m) <= v}) > half

\* Many modules use it, more than half of the most, and it uses few.
isShared(deps, m) ==
    /\ fid(deps, m) > Max({fid(deps, x) : x \in ModulesOf(deps)}) \div 2
    /\ fod(deps, m) <= MedianFod(deps)

\* I(b) > I(a) + 0.1, where I(m) is fod / (fid + fod), and 1/2 if m is unknown.
LessStable(deps, b, a) ==
    LET known(m) == m \in ModulesOf(deps)
        top(m) == IF known(m) THEN fod(deps, m) ELSE 1
        bottom(m) == IF known(m) THEN fid(deps, m) + fod(deps, m) ELSE 2
    IN  10 * top(b) * bottom(a) > 10 * top(a) * bottom(b) + bottom(a) * bottom(b)

gradeEdge(a, deps) ==
    IF Reversed(a) \in deps THEN "DRIFT.4.CYCLE"
    ELSE IF LessStable(deps, a[2], a[1]) THEN "DRIFT.4.SDP" ELSE "DRIFT.4.NEW"

\* DRIFT.4: first dependencies of a module on another that the baseline knew
\* and that is not shared by most, with their grade.
DriftLateralModuleDependency(baseline, current) ==
    LET deps == areaDeps(baseline)
        added == addedEdges(baseline, current)
        lateral == {a \in areaDeps([current EXCEPT !.edges = added]) :
                        a[2] \in ModulesOf(deps) /\ ~isShared(deps, a[2]) /\ a \notin deps}
    IN  IF Cardinality(added) > kMassTouchEdges THEN {}
        ELSE {[grade |-> gradeEdge(a, deps), pair |-> a] : a \in lateral}
-----------------------------------------------------------------------------
(* The gate policy. *)

GatesCheck(rule, failOnUnresolvedLocal) ==
    \/ rule \in {"SF.9", "CASE_MISMATCH_INCLUDE"}
    \/ rule = "UNRESOLVED_LOCAL_INCLUDE" /\ failOnUnresolvedLocal

\* Mutant: new edges only inform.
GatesDriftCycles(rule) == rule \in {"DRIFT.2", "DRIFT.4.CYCLE"}

GatesDrift(rule) == rule \in {"DRIFT.1", "DRIFT.2", "DRIFT.4.CYCLE"}
=============================================================================
