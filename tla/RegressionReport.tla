-------------------------- MODULE RegressionReport --------------------------
(***************************************************************************)
(* diff::buildRegressionReport, its gate and the rename guard               *)
(* (src/src/diff/regression_report.cpp): what the comparison of two include *)
(* graphs means for a change.                                               *)
(***************************************************************************)
EXTENDS GraphDiff

CONSTANTS
    Path,               \* the paths, in the order of their names
    TopDir,             \* path -> its first directory, or NoDir
    SubDir,             \* path -> its first two directories, TopDir if one
    NoDir,              \* the file is in the root of the repository
    FanInThreshold      \* thresholds.god_header_fan_in

ASSUME PathAssumption == Path \subseteq Nat /\ IsFiniteSet(Path)
ASSUME FanInThresholdAssumption == FanInThreshold \in Nat

IsGraph(g) == /\ g \in [nodes : SUBSET Path, edges : SUBSET (Path \X Path)]
              /\ g.edges \subseteq g.nodes \X g.nodes

fanIn(g, p) == Cardinality({e \in g.edges : e[2] = p})
GodHeaders(g) == {p \in g.nodes : fanIn(g, p) > FanInThreshold}
detectNewGodHeaders(baseline, current) == GodHeaders(current) \ GodHeaders(baseline)

\* One level of directories names an area, two when the two graphs together
\* have a single top directory.
useSecondLevel(baseline, current) ==
    Cardinality({TopDir[p] : p \in baseline.nodes \cup current.nodes} \ {NoDir}) = 1
classify(p, secondLevel) == IF secondLevel THEN SubDir[p] ELSE TopDir[p]
collectCrossAreaEdges(g, secondLevel) ==
    {a \in {<<classify(e[1], secondLevel), classify(e[2], secondLevel)>> : e \in g.edges} :
        a[1] # a[2]}
detectNewCrossAreaDependencies(baseline, current) ==
    LET secondLevel == useSecondLevel(baseline, current) IN
    collectCrossAreaEdges(current, secondLevel) \ collectCrossAreaEdges(baseline, secondLevel)

\* The growth of the chain length and of NCCD, numbers that only inform, is
\* left out.
buildRegressionReport(baseline, current) ==
    [addedEdges |-> addedEdges(baseline, current),
     removedEdges |-> removedEdges(baseline, current),
     grownCycles |-> grownSccs(baseline, current),
     newCrossAreaDependencies |-> detectNewCrossAreaDependencies(baseline, current),
     newGodHeaders |-> detectNewGodHeaders(baseline, current)]

\* Mutants: one renamed member is enough; nothing is dropped.
dropRenameArtifactCyclesAny(report, renamedNewPaths) ==
    [report EXCEPT !.grownCycles = {s \in @ : s \cap renamedNewPaths = {}}]
dropRenameArtifactCyclesNot(report, renamedNewPaths) == report

\* A grown cycle all of whose members are new paths of renamed files goes.
dropRenameArtifactCycles(report, renamedNewPaths) ==
    [report EXCEPT !.grownCycles = {s \in @ : ~(s \subseteq renamedNewPaths)}]

\* Mutant: god-headers only inform.
gatesOnCycles(report) == report.grownCycles # {}

gates(report) == report.grownCycles # {} \/ report.newGodHeaders # {}
=============================================================================
