------------------------- MODULE PullRequest_proofs -------------------------
(***************************************************************************)
(* Proofs about the diff gate: what its graph half promises (PullRequest),  *)
(* for every set of paths, every threshold and changes of every length; and *)
(* that the run around it hands the verdict on (DiffCommand), whichever git *)
(* commands fail on the way.                                                *)
(***************************************************************************)
EXTENDS PullRequest, DiffCommand, GraphDiff_proofs

\* The report of a Diff, with the renames that git found.
Guarded(found) ==
    LET full == buildRegressionReport(baseline, current)
    IN  IF full.grownCycles = {} THEN full ELSE dropRenameArtifactCycles(full, found)

\* A path is the new name of one file of the baseline at most.
OriginInv ==
    /\ DOMAIN origin \subseteq current.nodes
    /\ \A p \in DOMAIN origin : origin[p] \in baseline.nodes
    /\ \A p, q \in DOMAIN origin : origin[p] = origin[q] => p = q

\* A verdict is that of the two graphs as they are.
VerdictInv ==
    verdict # None =>
        /\ renamed \subseteq DetectableRenames
        /\ report = Guarded(renamed)
        /\ verdict = IF gates(report) THEN "fail" ELSE "ok"

IInv == IsGraph(baseline) /\ IsGraph(current) /\ OriginInv /\ VerdictInv
-----------------------------------------------------------------------------
(* The invariant holds in every state.                                     *)

\* An edit leaves a graph behind and keeps track of where files came from.
LEMMA EditStep ==
    ASSUME IInv, Edit, IsGraph(current'), OriginInv'
    PROVE  IInv'
BY DEF IInv, Edit, VerdictInv

\* A new file has no includes yet and comes from nowhere.
LEMMA AddFileStep == ASSUME IInv, NEW p \in Path, AddFile(p) PROVE IInv'
<1>1. current' = [current EXCEPT !.nodes = @ \cup {p}] /\ Edit /\ origin' = origin
  BY DEF AddFile
<1>2. /\ current \in [nodes : SUBSET Path, edges : SUBSET (Path \X Path)]
      /\ current.edges \subseteq current.nodes \X current.nodes
  BY DEF IInv, IsGraph
<1>3. current'.nodes = current.nodes \cup {p} /\ current'.edges = current.edges
  BY <1>1, <1>2
<1>4. current' \in [nodes : SUBSET Path, edges : SUBSET (Path \X Path)]
  BY <1>1, <1>2
<1>5. IsGraph(current')
  BY <1>2, <1>3, <1>4 DEF IsGraph
<1>6. OriginInv'
  BY <1>1, <1>3 DEF IInv, OriginInv, Edit
<1> QED
  BY <1>1, <1>5, <1>6, EditStep

\* The includes from and to a file go with it, and so does its origin.
LEMMA DeleteFileStep == ASSUME IInv, NEW p \in Path, DeleteFile(p) PROVE IInv'
<1>1. /\ current' = [nodes |-> current.nodes \ {p}, edges |-> {e \in current.edges : ~Touches(e, p)}]
      /\ origin' = [q \in DOMAIN origin \ {p} |-> origin[q]]
      /\ Edit
  BY DEF DeleteFile
<1>2. /\ current \in [nodes : SUBSET Path, edges : SUBSET (Path \X Path)]
      /\ current.edges \subseteq current.nodes \X current.nodes
  BY DEF IInv, IsGraph
<1>3. IsGraph(current')
  BY <1>1, <1>2 DEF IsGraph, Touches
<1>4. OriginInv'
  BY <1>1 DEF IInv, OriginInv, Edit
<1> QED
  BY <1>1, <1>3, <1>4, EditStep

\* An include joins two files that are there.
LEMMA AddIncludeStep ==
    ASSUME IInv, NEW a \in current.nodes, NEW b \in current.nodes, AddInclude(a, b)
    PROVE  IInv'
<1>1. current' = [current EXCEPT !.edges = @ \cup {<<a, b>>}] /\ Edit /\ origin' = origin
  BY DEF AddInclude
<1>2. /\ current \in [nodes : SUBSET Path, edges : SUBSET (Path \X Path)]
      /\ current.edges \subseteq current.nodes \X current.nodes
  BY DEF IInv, IsGraph
<1>3. current'.edges = current.edges \cup {<<a, b>>} /\ current'.nodes = current.nodes
  BY <1>1, <1>2
<1>4. a \in Path /\ b \in Path
  BY <1>2
<1>5. current' \in [nodes : SUBSET Path, edges : SUBSET (Path \X Path)]
  BY <1>1, <1>2, <1>4
<1>6. IsGraph(current')
  BY <1>2, <1>3, <1>5 DEF IsGraph
<1>7. OriginInv'
  BY <1>1, <1>3 DEF IInv, OriginInv, Edit
<1> QED
  BY <1>1, <1>6, <1>7, EditStep

\* Without one include it is still a graph.
LEMMA RemoveIncludeStep == ASSUME IInv, NEW e \in current.edges, RemoveInclude(e) PROVE IInv'
<1>1. current' = [current EXCEPT !.edges = @ \ {e}] /\ Edit /\ origin' = origin
  BY DEF RemoveInclude
<1>2. /\ current \in [nodes : SUBSET Path, edges : SUBSET (Path \X Path)]
      /\ current.edges \subseteq current.nodes \X current.nodes
  BY DEF IInv, IsGraph
<1>3. current'.edges = current.edges \ {e} /\ current'.nodes = current.nodes
  BY <1>1, <1>2
<1>4. current' \in [nodes : SUBSET Path, edges : SUBSET (Path \X Path)]
  BY <1>1, <1>2
<1>5. IsGraph(current')
  BY <1>2, <1>3, <1>4 DEF IsGraph
<1>6. OriginInv'
  BY <1>1, <1>3 DEF IInv, OriginInv, Edit
<1> QED
  BY <1>1, <1>5, <1>6, EditStep

\* A move takes the includes and the origin of a file to its new path.
LEMMA MoveFileStep ==
    ASSUME IInv, NEW p \in Path, NEW q \in Path, MoveFile(p, q)
    PROVE  IInv'
<1> DEFINE moved(x) == IF x = p THEN q ELSE x
<1>1. /\ current' = [nodes |-> {moved(x) : x \in current.nodes},
                     edges |-> {<<moved(e[1]), moved(e[2])>> : e \in current.edges}]
      /\ origin' = IF p \in DOMAIN origin
                   THEN [x \in (DOMAIN origin \ {p}) \cup {q} |->
                            IF x = q THEN origin[p] ELSE origin[x]]
                   ELSE origin
      /\ p \in current.nodes /\ q \notin current.nodes /\ Edit
  BY DEF MoveFile
<1>2. /\ current \in [nodes : SUBSET Path, edges : SUBSET (Path \X Path)]
      /\ current.edges \subseteq current.nodes \X current.nodes
  BY DEF IInv, IsGraph
<1>3. current'.nodes \in SUBSET Path /\ current'.edges \in SUBSET (current'.nodes \X current'.nodes)
  BY <1>1, <1>2
<1>4. IsGraph(current')
  <2>1. current'.edges \in SUBSET (Path \X Path)
    BY <1>3
  <2> QED
    BY <1>1, <1>3, <2>1 DEF IsGraph
<1>5. OriginInv'
  <2>1. \A x \in current.nodes : x # p => x \in current'.nodes
    BY <1>1
  <2>2. q \in current'.nodes
    BY <1>1
  <2> QED
    BY <1>1, <2>1, <2>2 DEF IInv, OriginInv, Edit
<1> QED
  BY <1>1, <1>4, <1>5, EditStep

\* The verdict is that of the two graphs as they are.
LEMMA DiffStep == ASSUME IInv, Diff PROVE IInv'
<1>1. UNCHANGED <<baseline, current, origin, edits>>
  BY DEF Diff
<1>2. PICK found \in SUBSET DetectableRenames :
         /\ renamed' = found
         /\ report' = Guarded(found)
         /\ verdict' = IF gates(Guarded(found)) THEN "fail" ELSE "ok"
  BY DEF Diff, Guarded
<1>3. DetectableRenames' = DetectableRenames /\ Guarded(renamed)' = Guarded(found)
  BY <1>1, <1>2 DEF DetectableRenames, Guarded
<1>4. VerdictInv'
  BY <1>2, <1>3 DEF VerdictInv
<1> QED
  BY <1>1, <1>4 DEF IInv, OriginInv

\* The graphs and the verdict of every state are as a Diff needs and leaves them.
THEOREM Invariance == Spec => []IInv
<1>1. Init => IInv
  BY BaselinesAssumption DEF Init, IInv, OriginInv, VerdictInv
<1>2. ASSUME IInv, [Next]_vars PROVE IInv'
  <2>1. CASE Merge
    BY <1>2, <2>1 DEF Merge, IInv, OriginInv, VerdictInv
  <2>2. CASE Abandon
    BY <1>2, <2>2 DEF Abandon, IInv, OriginInv, VerdictInv
  <2>3. CASE UNCHANGED vars
    BY <1>2, <2>3 DEF vars, IInv, OriginInv, VerdictInv, Guarded, DetectableRenames
  <2> QED
    BY <1>2, <2>1, <2>2, <2>3, AddFileStep, DeleteFileStep, AddIncludeStep, RemoveIncludeStep,
       MoveFileStep, DiffStep DEF Next
<1> QED
  BY <1>1, <1>2, PTL DEF Spec
-----------------------------------------------------------------------------
(* What a report says.                                                     *)

\* The graphs are finite.
LEMMA GraphIsFinite == ASSUME NEW g, IsGraph(g) PROVE FiniteGraph(g)
<1>1. g.nodes \in SUBSET Path
  BY DEF IsGraph
<1>2. IsFiniteSet(g.nodes) /\ g.nodes \subseteq Nat
  BY <1>1, PathAssumption, FS_Subset
<1> QED
  BY <1>2 DEF IsGraph, FiniteGraph

\* What the report says once there is a verdict.
LEMMA ReportIs ==
    ASSUME IInv, verdict # None
    PROVE  /\ renamed \subseteq DetectableRenames
           /\ report.addedEdges = addedEdges(baseline, current)
           /\ report.grownCycles = {s \in grownSccs(baseline, current) : ~(s \subseteq renamed)}
           /\ report.newCrossAreaDependencies = detectNewCrossAreaDependencies(baseline, current)
           /\ report.newGodHeaders = detectNewGodHeaders(baseline, current)
           /\ verdict = IF gates(report) THEN "fail" ELSE "ok"
<1> DEFINE full == buildRegressionReport(baseline, current)
<1>1. /\ full.addedEdges = addedEdges(baseline, current)
      /\ full.grownCycles = grownSccs(baseline, current)
      /\ full.newCrossAreaDependencies = detectNewCrossAreaDependencies(baseline, current)
      /\ full.newGodHeaders = detectNewGodHeaders(baseline, current)
  BY DEF buildRegressionReport
<1>2. /\ renamed \subseteq DetectableRenames
      /\ report = Guarded(renamed)
      /\ verdict = IF gates(report) THEN "fail" ELSE "ok"
  BY DEF IInv, VerdictInv
<1>3. CASE full.grownCycles = {}
  BY <1>1, <1>2, <1>3 DEF Guarded
<1>4. CASE full.grownCycles # {}
  <2>1. report = dropRenameArtifactCycles(full, renamed)
    BY <1>2, <1>4 DEF Guarded
  <2> DEFINE kept == {s \in full.grownCycles : ~(s \subseteq renamed)}
  <2>2. report = [full EXCEPT !.grownCycles = kept]
    BY <2>1 DEF dropRenameArtifactCycles
  <2>3. /\ DOMAIN full = {"addedEdges", "removedEdges", "grownCycles",
                          "newCrossAreaDependencies", "newGodHeaders"}
    BY DEF buildRegressionReport
  <2> HIDE DEF full, kept
  <2>4. /\ report.addedEdges = full.addedEdges /\ report.grownCycles = kept
        /\ report.newCrossAreaDependencies = full.newCrossAreaDependencies
        /\ report.newGodHeaders = full.newGodHeaders
    BY <2>2, <2>3
  <2> QED
    BY <1>1, <1>2, <2>4 DEF kept
<1> QED
  BY <1>3, <1>4

\* With fewer includes no file is included more often.
LEMMA FewerGodHeaders ==
    ASSUME NEW g, FiniteGraph(g), NEW h, FiniteGraph(h),
           g.nodes \subseteq h.nodes, g.edges \subseteq h.edges
    PROVE  GodHeaders(g) \subseteq GodHeaders(h)
<1> SUFFICES ASSUME NEW p \in g.nodes, fanIn(g, p) > FanInThreshold
             PROVE  fanIn(h, p) > FanInThreshold
  BY DEF GodHeaders
<1> DEFINE into(e) == {d \in e : d[2] = p}
<1>1. into(g.edges) \in SUBSET into(h.edges) /\ into(h.edges) \in SUBSET h.edges
  OBVIOUS
<1>2. IsFiniteSet(into(h.edges))
  BY <1>1, GraphFinite, FS_Subset
<1>3. IsFiniteSet(into(g.edges)) /\ Cardinality(into(g.edges)) <= Cardinality(into(h.edges))
  BY <1>1, <1>2, FS_Subset
<1>4. Cardinality(into(g.edges)) \in Nat /\ Cardinality(into(h.edges)) \in Nat
  BY <1>2, <1>3, FS_CardinalityType
<1>5. fanIn(g, p) = Cardinality(into(g.edges)) /\ fanIn(h, p) = Cardinality(into(h.edges))
  BY DEF fanIn
<1> HIDE DEF into
<1> QED
  BY <1>3, <1>4, <1>5, FanInThresholdAssumption
-----------------------------------------------------------------------------
(* The promises of the gate.                                               *)

\* A change that only deletes files and includes passes, and nothing in its
\* report is called new, however cyclic the legacy is.
THEOREM RemovalPasses == Spec => []RemovalNeverGates
<1>1. ASSUME IInv, verdict # None,
             current.nodes \subseteq baseline.nodes, current.edges \subseteq baseline.edges
      PROVE  verdict = "ok" /\ report.addedEdges = {} /\ report.newCrossAreaDependencies = {}
  <2>0. FiniteGraph(baseline) /\ FiniteGraph(current)
    BY <1>1, GraphIsFinite DEF IInv
  <2>1. grownSccs(baseline, current) = {}
    BY <1>1, <2>0, NothingGrows
  <2>2. detectNewGodHeaders(baseline, current) = {}
    BY <1>1, <2>0, FewerGodHeaders DEF detectNewGodHeaders
  <2>3. addedEdges(baseline, current) = {}
    BY <1>1 DEF addedEdges
  <2>4. detectNewCrossAreaDependencies(baseline, current) = {}
    BY <1>1 DEF detectNewCrossAreaDependencies, collectCrossAreaEdges
  <2>5. report.grownCycles = {} /\ report.newGodHeaders = {}
    BY <1>1, <2>1, <2>2, ReportIs
  <2> QED
    BY <1>1, <2>3, <2>4, <2>5, ReportIs DEF gates
<1>2. IInv => RemovalNeverGates
  BY <1>1 DEF RemovalNeverGates
<1> QED
  BY <1>2, Invariance, PTL

\* A change that only adds is failed for every cycle that the baseline did not
\* have, and for no old one without a new include: what is reported are exactly
\* the components that are no components of the baseline.
THEOREM AdditionIsExact == Spec => []AdditionGatesNewCycles
<1>1. ASSUME IInv, verdict # None,
             baseline.nodes \subseteq current.nodes, baseline.edges \subseteq current.edges
      PROVE  report.grownCycles = nontrivial_sccs(current) \ nontrivial_sccs(baseline)
  <2>0. FiniteGraph(baseline) /\ FiniteGraph(current)
    BY <1>1, GraphIsFinite DEF IInv
  <2>1. renamed = {}
    <3>1. DetectableRenames = {}
      BY <1>1 DEF DetectableRenames, IInv, OriginInv
    <3> QED
      BY <1>1, <3>1, ReportIs
  <2>2. ASSUME NEW s \in nontrivial_sccs(current)
        PROVE  BaselineSize(s, nontrivial_sccs(baseline)) < Cardinality(s)
                 <=> s \notin nontrivial_sccs(baseline)
    <3>1. s # {} /\ IsFiniteSet(s) /\ Cardinality(s) \in Nat /\ Cardinality(s) >= 2
      BY <2>0, NontrivialScc
    <3>2. CASE s \in nontrivial_sccs(baseline)
      <4>1. \A c \in nontrivial_sccs(baseline) : s \cap c # {} => c = s
        BY <3>2, NontrivialDisjoint
      <4>2. BaselineSize(s, nontrivial_sccs(baseline)) = Cardinality(s)
        BY <2>0, <3>1, <3>2, <4>1, BaselineSizeOfOne
      <4> QED
        BY <3>1, <3>2, <4>2
    <3>3. CASE s \notin nontrivial_sccs(baseline)
      <4>1. CASE BaselineSize(s, nontrivial_sccs(baseline)) = 0
        BY <3>1, <3>3, <4>1
      <4>2. ASSUME NEW b \in nontrivial_sccs(baseline), s \cap b # {},
                   BaselineSize(s, nontrivial_sccs(baseline)) = Cardinality(b)
            PROVE  BaselineSize(s, nontrivial_sccs(baseline)) < Cardinality(s)
        <5>1. PICK t \in nontrivial_sccs(current) : b \subseteq t
          BY <1>1, <2>0, NontrivialInLarger
        <5>2. t = s
          BY <4>2, <5>1, NontrivialDisjoint
        <5>3. b \in SUBSET s /\ b # s
          BY <3>3, <5>1, <5>2
        <5>4. Cardinality(b) <= Cardinality(s) /\ Cardinality(b) # Cardinality(s)
          BY <3>1, <5>3, FS_Subset
        <5>5. Cardinality(b) \in Nat
          BY <2>0, NontrivialScc
        <5> QED
          BY <3>1, <4>2, <5>4, <5>5
      <4>3. \/ BaselineSize(s, nontrivial_sccs(baseline)) = 0
            \/ \E b \in nontrivial_sccs(baseline) :
                  s \cap b # {} /\ BaselineSize(s, nontrivial_sccs(baseline)) = Cardinality(b)
        BY <2>0, <3>1, BaselineSizeIs
      <4> QED
        BY <3>3, <4>1, <4>2, <4>3
    <3> QED
      BY <3>2, <3>3
  <2>3. grownSccs(baseline, current) = nontrivial_sccs(current) \ nontrivial_sccs(baseline)
    BY <2>2 DEF grownSccs
  <2>4. \A s \in nontrivial_sccs(current) : ~(s \subseteq {})
    BY <2>0, NontrivialScc
  <2>5. report.grownCycles = {s \in grownSccs(baseline, current) : ~(s \subseteq {})}
    BY <1>1, <2>1, ReportIs
  <2> QED
    BY <2>3, <2>4, <2>5
<1>2. IInv => AdditionGatesNewCycles
  <2>1. ASSUME NEW old, NEW new, NEW found, found = new \ old
        PROVE  new \ old \subseteq found /\ \A s \in found : s \notin old
    BY <2>1
  <2> QED
    BY <1>1, <2>1 DEF AdditionGatesNewCycles
<1> QED
  BY <1>2, Invariance, PTL

\* A change that passes has no cycle of size 2 or more that touches no old one,
\* but of moved files only.
THEOREM DisjointCycleIsFound == Spec => []DisjointCycleGates
<1>1. ASSUME IInv, verdict = "ok", NEW s \in nontrivial_sccs(current), ~(s \subseteq renamed)
      PROVE  \E b \in nontrivial_sccs(baseline) : s \cap b # {}
  <2>0. FiniteGraph(baseline) /\ FiniteGraph(current) /\ verdict # None
    BY <1>1, GraphIsFinite DEF IInv, None
  <2>1. report.grownCycles = {}
    BY <1>1, <2>0, ReportIs DEF gates
  <2>2. s \notin grownSccs(baseline, current)
    BY <1>1, <2>0, <2>1, ReportIs
  <2>3. ~(BaselineSize(s, nontrivial_sccs(baseline)) < Cardinality(s))
    BY <2>2 DEF grownSccs
  <2>4. IsFiniteSet(s) /\ Cardinality(s) \in Nat /\ Cardinality(s) >= 2
    BY <2>0, NontrivialScc
  <2> QED
    BY <2>0, <2>3, <2>4, BaselineSizeIs
<1>2. IInv => DisjointCycleGates
  BY <1>1 DEF DisjointCycleGates
<1> QED
  BY <1>2, Invariance, PTL

\* A change that only moves files has the cycles of the baseline, renamed: the
\* files that stayed are in the same cycle as before, and the others are in none
\* of the baseline.
LEMMA MovedCycles ==
    ASSUME IInv, OnlyMoved, NEW s \in nontrivial_sccs(current), NEW p \in s, origin[p] = p
    PROVE  BaselineSize(s, nontrivial_sccs(baseline)) = Cardinality(s)
<1> DEFINE V == current.nodes
           W == baseline.nodes
           t == {origin[v] : v \in s}
<1>0. /\ IsGraph(baseline) /\ IsGraph(current)
      /\ FiniteGraph(baseline) /\ FiniteGraph(current)
  BY GraphIsFinite DEF IInv
<1>1. /\ s \in Sccs(V, current.edges) /\ s \subseteq V /\ IsFiniteSet(s)
      /\ Cardinality(s) \in Nat /\ Cardinality(s) >= 2
  BY <1>0, NontrivialScc
<1>2. /\ DOMAIN origin = V /\ W = {origin[v] : v \in V}
      /\ baseline.edges = {<<origin[e[1]], origin[e[2]]>> : e \in current.edges}
      /\ \A q \in V : origin[q] # q => q \notin W
  BY DEF OnlyMoved, DetectableRenames
<1>3. \A v, w \in V : origin[v] = origin[w] => v = w
  BY <1>2 DEF IInv, OriginInv
<1> DEFINE f == [v \in V |-> origin[v]]
<1>4. f \in [V -> W] /\ \A v \in V : f[v] = origin[v]
  BY <1>2
<1> HIDE DEF f
<1>5. current.edges \subseteq V \X V
  BY <1>0 DEF IsGraph
<1>6. baseline.edges = {<<f[e[1]], f[e[2]]>> : e \in current.edges}
  <2>1. \A e \in current.edges : f[e[1]] = origin[e[1]] /\ f[e[2]] = origin[e[2]]
    BY <1>4, <1>5
  <2> QED
    BY <1>2, <2>1
<1>7. W = {f[v] : v \in V} /\ \A v, w \in V : f[v] = f[w] => v = w
  BY <1>2, <1>3, <1>4
<1>8. t = {f[v] : v \in s}
  BY <1>1, <1>4
<1> HIDE DEF t
<1> HIDE DEF V, W
<1>9. t \in Sccs(W, baseline.edges) /\ Cardinality(t) = Cardinality(s)
  <2>1. f \in [V -> W] /\ s \in Sccs(V, current.edges) /\ IsFiniteSet(s)
    BY <1>1, <1>4
  <2>2. IsRenaming(f, V, current.edges, W, baseline.edges)
    BY <1>5, <1>6, <1>7, <2>1 DEF IsRenaming
  <2>3. /\ {f[v] : v \in s} \in Sccs(W, baseline.edges)
        /\ Cardinality({f[v] : v \in s}) = Cardinality(s)
    BY <2>1, <2>2, SccsRenamed
  <2> QED
    BY <1>8, <2>3
<1>10. t \in nontrivial_sccs(baseline)
  BY <1>1, <1>9 DEF nontrivial_sccs, W
<1>11. p \in t
  BY DEF t
<1>12. ASSUME NEW c \in nontrivial_sccs(baseline), NEW q \in s \cap c PROVE c = t
  <2>1. q \in V /\ q \in W
    BY <1>0, <1>1, NontrivialScc DEF W
  <2>2. origin[q] = q
    BY <1>2, <2>1
  <2>3. q \in t
    BY <2>2 DEF t
  <2> QED
    BY <1>10, <2>3, NontrivialDisjoint
<1>13. BaselineSize(s, nontrivial_sccs(baseline)) = Cardinality(t)
  BY <1>0, <1>1, <1>10, <1>11, <1>12, BaselineSizeOfOne
<1> QED
  BY <1>9, <1>13

\* A change that only moves files is not failed for a cycle, if git found all
\* the renames.
THEOREM PureMovePasses == Spec => []PureMoveIsNotACycle
<1>1. ASSUME IInv, verdict # None, OnlyMoved, AllFound
      PROVE  report.grownCycles = {}
  <2>1. ASSUME NEW s \in nontrivial_sccs(current), s \in grownSccs(baseline, current)
        PROVE  s \subseteq renamed
    <3>1. s \subseteq current.nodes /\ Cardinality(s) \in Nat
      BY <1>1, GraphIsFinite, NontrivialScc DEF IInv
    <3>2. ASSUME NEW p \in s PROVE origin[p] # p
      <4> SUFFICES ASSUME origin[p] = p PROVE FALSE
        OBVIOUS
      <4>1. BaselineSize(s, nontrivial_sccs(baseline)) = Cardinality(s)
        BY <1>1, MovedCycles
      <4>2. BaselineSize(s, nontrivial_sccs(baseline)) < Cardinality(s)
        BY <2>1 DEF grownSccs
      <4> QED
        BY <3>1, <4>1, <4>2
    <3> QED
      BY <1>1, <3>1, <3>2 DEF AllFound
  <2>2. grownSccs(baseline, current) \subseteq nontrivial_sccs(current)
    BY DEF grownSccs
  <2> QED
    BY <1>1, <2>1, <2>2, ReportIs
<1>2. IInv => PureMoveIsNotACycle
  BY <1>1 DEF PureMoveIsNotACycle
<1> QED
  BY <1>2, Invariance, PTL

\* The size of the largest cycle is that of a cycle, or 0.
LEMMA LargestIs ==
    ASSUME NEW g, FiniteGraph(g)
    PROVE  /\ Largest(g) \in Nat
           /\ \A s \in nontrivial_sccs(g) : Cardinality(s) <= Largest(g)
           /\ Largest(g) = 0 \/ \E s \in nontrivial_sccs(g) : Largest(g) = Cardinality(s)
<1> DEFINE sizes == {Cardinality(s) : s \in nontrivial_sccs(g)} \cup {0}
<1>1. sizes \subseteq Nat /\ \E n \in sizes : \A m \in sizes : m <= n
  BY LargestSize
<1>2. Largest(g) \in sizes /\ \A k \in sizes : k <= Largest(g)
  BY <1>1 DEF Largest
<1> QED
  BY <1>1, <1>2

\* Over any series of changes that pass, the largest cycle does not grow and no
\* file becomes a god-header, as long as no rename was found.
THEOREM GateIsARatchet == Spec => Ratchet
<1>1. ASSUME IInv, [Next]_vars, baseline' # baseline, renamed = {}
      PROVE  /\ Largest(baseline') <= Largest(baseline)
             /\ GodHeaders(baseline') \subseteq GodHeaders(baseline)
  <2>1. verdict = "ok" /\ baseline' = current
    BY <1>1 DEF Next, vars, AddFile, DeleteFile, AddInclude, RemoveInclude, MoveFile, Edit, Diff,
                Merge, Abandon
  <2>2. FiniteGraph(baseline) /\ FiniteGraph(current) /\ verdict # None
    BY <1>1, GraphIsFinite, <2>1 DEF IInv, None
  <2>3. report.grownCycles = {} /\ report.newGodHeaders = {}
    BY <1>1, <2>1, <2>2, ReportIs DEF gates
  <2>4. GodHeaders(current) \subseteq GodHeaders(baseline)
    BY <1>1, <2>2, <2>3, ReportIs DEF detectNewGodHeaders
  <2>5. \A s \in nontrivial_sccs(current) : Cardinality(s) <= Largest(baseline)
    <3> SUFFICES ASSUME NEW s \in nontrivial_sccs(current)
                 PROVE  Cardinality(s) <= Largest(baseline)
      OBVIOUS
    <3>1. IsFiniteSet(s) /\ Cardinality(s) \in Nat /\ Cardinality(s) >= 2 /\ ~(s \subseteq renamed)
      BY <1>1, <2>2, NontrivialScc
    <3>2. s \notin grownSccs(baseline, current)
      BY <1>1, <2>2, <2>3, <3>1, ReportIs
    <3>3. PICK b \in nontrivial_sccs(baseline) : Cardinality(s) <= Cardinality(b)
      BY <2>2, <3>2, NotGrown
    <3>4. Cardinality(b) \in Nat /\ Cardinality(b) <= Largest(baseline) /\ Largest(baseline) \in Nat
      BY <2>2, NontrivialScc, LargestIs
    <3> QED
      BY <3>1, <3>3, <3>4
  <2>6. Largest(current) <= Largest(baseline)
    <3>1. Largest(current) \in Nat /\ Largest(baseline) \in Nat
      BY <2>2, LargestIs
    <3>2. CASE Largest(current) = 0
      BY <3>1, <3>2
    <3>3. ASSUME NEW s \in nontrivial_sccs(current), Largest(current) = Cardinality(s)
          PROVE  Largest(current) <= Largest(baseline)
      BY <2>5, <3>3
    <3> QED
      BY <2>2, <3>2, <3>3, LargestIs
  <2> QED
    BY <2>1, <2>4, <2>6
<1>2. IInv /\ [Next]_vars
        => [baseline' # baseline /\ renamed = {}
              => /\ Largest(baseline') <= Largest(baseline)
                 /\ GodHeaders(baseline') \subseteq GodHeaders(baseline)]_vars
  BY <1>1
<1> QED
  BY <1>2, Invariance, PTL DEF Spec, Ratchet
-----------------------------------------------------------------------------
(* The run around the two graphs: DiffCommand.                             *)

\* What a run is asked to compare, and the types of what it works with.
Snapshot == {Null, Empty, Tree}
RefsTypeOK ==
    /\ mode \in {"memory", "disk"}
    /\ baseRef \in Refs /\ currentRef \in Refs
    /\ facts \in Facts
CommandTypeOK ==
    /\ RefsTypeOK
    /\ bulk \in BOOLEAN /\ godHeaders \in BOOLEAN
    /\ baseSnapshot \in Snapshot /\ currentSnapshot \in Snapshot
    /\ baseGraph \in Snapshot /\ currentGraph \in Snapshot
    /\ grown \in {"none", "renames", "genuine"}
    /\ worktrees \subseteq {"baseline", "current"}

\* A run is at one of its steps, or it has ended with an exit code and with
\* what was printed along with it.
EndInv ==
    /\ pc # "done" => exitCode = Running /\ printed = "nothing"
    /\ pc = "done" => \/ exitCode = 2 /\ printed = "nothing"
                      \/ exitCode = 0 /\ printed = "no changes"
                      \/ exitCode = (IF gateFails THEN 1 ELSE 0) /\ printed = "report"
    /\ printed = "no changes" => DiffRuns /\ (BothKnown => facts.change # "listed")

\* Judged: what a run found is final, and was printed or is about to be.
\* Compared: it then has two graphs, unless the change is a bulk import.
MemorySteps == {"memory graphs"}
DiskSteps == {"baseline worktree", "baseline graph", "current worktree", "current graph"}
Later == {"snapshots", "report", "renames"} \cup MemorySteps \cup DiskSteps
Judged == pc = "emit" \/ printed = "report"
Compared == pc \in {"report", "renames"} \/ (Judged /\ ~bulk)

\* No step after the one that resolves the baseline is reached without one.
KnownInv == baseRef \in {"unknown", "path"} => pc # "lines" /\ pc \notin Later /\ ~Judged

\* A worktree is there between the step that adds it and the step that scans it.
WorktreeInv ==
    /\ "baseline" \in worktrees => pc = "baseline graph"
    /\ "current" \in worktrees => pc = "current graph"

\* The added lines were counted unless git numstat failed.
BulkInv ==
    /\ bulk => Judged /\ (BothKnown => facts.bulk)
    /\ Judged /\ ~bulk /\ facts.bulk => ~BothKnown \/ "numstat" \in failed
    /\ pc \in Later /\ facts.bulk => ~BothKnown \/ "numstat" \in failed

\* What stands for a revision is its tree, unless git ls-tree failed, or the
\* revision does not exist.  Only memory mode makes a graph of that.
ReadInv ==
    /\ Empty \in {baseSnapshot, baseGraph} => baseRef # "revision" \/ "ls-tree" \in failed
    /\ Empty \in {currentSnapshot, currentGraph} => currentRef \in {"unknown", "path"} \/ "ls-tree" \in failed
    /\ Empty \in {baseGraph, currentGraph} => mode = "memory"
    /\ Compared => Null \notin {baseGraph, currentGraph}
    /\ pc \in MemorySteps => mode = "memory"
    /\ pc \in DiskSteps => mode = "disk"

\* The findings are those of the two trees once both were read; a cycle of
\* renames is taken back unless git could not name the renames.
FindingsInv ==
    /\ bulk => grown = "none" /\ ~godHeaders
    /\ pc = "renames" /\ baseGraph = Tree /\ currentGraph = Tree =>
         grown = facts.grown /\ (godHeaders <=> facts.godHeaders)
    /\ Judged /\ ~bulk /\ baseGraph = Tree /\ currentGraph = Tree =>
         /\ godHeaders <=> facts.godHeaders
         /\ \/ grown = IF facts.grown = "renames" THEN "none" ELSE facts.grown
            \/ grown = facts.grown /\ (~BothKnown \/ "renames" \in failed)
    /\ ~Judged /\ pc # "renames" => grown = "none" /\ ~godHeaders

CommandIInv == /\ CommandTypeOK /\ EndInv /\ KnownInv /\ WorktreeInv
               /\ BulkInv /\ ReadInv /\ FindingsInv

\* What a run is about does not change while it runs.
LEMMA RefsStay ==
    ASSUME RefsTypeOK, mode' = mode, baseRef' = baseRef, currentRef' = currentRef, facts' = facts
    PROVE  RefsTypeOK'
BY DEF RefsTypeOK

\* A revspec or repository that is not found ends the run with an error; otherwise
\* nothing was read yet.
LEMMA ParseAndLocateStep == ASSUME CommandIInv, ParseAndLocate PROVE CommandIInv'
<1> USE DEF ParseAndLocate, Git, Stop, Goto, refs, sides, findings
<1>1. CommandTypeOK'
  BY RefsStay DEF CommandIInv, CommandTypeOK, Snapshot
<1>2. EndInv'
  BY DEF CommandIInv, EndInv, BothKnown, DiffRuns, Running, gateFails
<1>3. KnownInv'
  BY DEF CommandIInv, KnownInv, EndInv, Later, MemorySteps, DiskSteps, Judged
<1>4. WorktreeInv'
  BY DEF CommandIInv, WorktreeInv
<1>5. BulkInv'
  BY DEF CommandIInv, BulkInv, KnownInv, EndInv, Later, MemorySteps, DiskSteps, Judged,
         BothKnown, DiffRuns, CommandTypeOK, RefsTypeOK, Refs
<1>6. ReadInv'
  BY DEF CommandIInv, ReadInv, EndInv, Compared, Judged, MemorySteps, DiskSteps, Null, Empty,
         Tree, CommandTypeOK, RefsTypeOK, Refs
<1>7. FindingsInv'
  BY DEF CommandIInv, FindingsInv, BulkInv, ReadInv, EndInv, Compared, Judged, BothKnown, DiffRuns,
         CommandTypeOK, RefsTypeOK, Refs, Facts, Snapshot, Null, Empty, Tree
<1> QED
  BY <1>1, <1>2, <1>3, <1>4, <1>5, <1>6, <1>7 DEF CommandIInv

\* A run that ends early has no changed C++ file on git's list.
LEMMA FastPathStep == ASSUME CommandIInv, FastPath PROVE CommandIInv'
<1> USE DEF FastPath, Git, Stop, Goto, refs, sides, findings
<1>1. CommandTypeOK'
  BY RefsStay DEF CommandIInv, CommandTypeOK, Snapshot
<1>2. EndInv'
  <2>1. CASE pc' = "done"
    <3>1. DiffRuns /\ (BothKnown => facts.change # "listed")
      BY <2>1 DEF NoneListed
    <3> QED
      BY <2>1, <3>1 DEF CommandIInv, EndInv, BothKnown, DiffRuns, Running, gateFails
  <2>2. CASE pc' # "done"
    BY <2>2 DEF CommandIInv, EndInv, Running
  <2> QED
    BY <2>1, <2>2
<1>3. KnownInv'
  BY DEF CommandIInv, KnownInv, EndInv, Later, MemorySteps, DiskSteps, Judged
<1>4. WorktreeInv'
  BY DEF CommandIInv, WorktreeInv
<1>5. BulkInv'
  BY DEF CommandIInv, BulkInv, KnownInv, EndInv, Later, MemorySteps, DiskSteps, Judged,
         BothKnown, DiffRuns, CommandTypeOK, RefsTypeOK, Refs
<1>6. ReadInv'
  BY DEF CommandIInv, ReadInv, EndInv, Compared, Judged, MemorySteps, DiskSteps, Null, Empty,
         Tree, CommandTypeOK, RefsTypeOK, Refs
<1>7. FindingsInv'
  BY DEF CommandIInv, FindingsInv, BulkInv, ReadInv, EndInv, Compared, Judged, BothKnown, DiffRuns,
         CommandTypeOK, RefsTypeOK, Refs, Facts, Snapshot, Null, Empty, Tree
<1> QED
  BY <1>1, <1>2, <1>3, <1>4, <1>5, <1>6, <1>7 DEF CommandIInv

\* Loading the thresholds keeps the invariant.
LEMMA LoadThresholdsStep == ASSUME CommandIInv, LoadThresholds PROVE CommandIInv'
<1> USE DEF LoadThresholds, Stop, Goto, refs, sides, findings
<1>1. CommandTypeOK'
  BY RefsStay DEF CommandIInv, CommandTypeOK, Snapshot
<1>2. EndInv'
  BY DEF CommandIInv, EndInv, BothKnown, DiffRuns, Running, gateFails
<1>3. KnownInv'
  BY DEF CommandIInv, KnownInv, EndInv, Later, MemorySteps, DiskSteps, Judged
<1>4. WorktreeInv'
  BY DEF CommandIInv, WorktreeInv
<1>5. BulkInv'
  BY DEF CommandIInv, BulkInv, KnownInv, EndInv, Later, MemorySteps, DiskSteps, Judged,
         BothKnown, DiffRuns, CommandTypeOK, RefsTypeOK, Refs
<1>6. ReadInv'
  BY DEF CommandIInv, ReadInv, EndInv, Compared, Judged, MemorySteps, DiskSteps, Null, Empty,
         Tree, CommandTypeOK, RefsTypeOK, Refs
<1>7. FindingsInv'
  BY DEF CommandIInv, FindingsInv, BulkInv, ReadInv, EndInv, Compared, Judged, BothKnown, DiffRuns,
         CommandTypeOK, RefsTypeOK, Refs, Facts, Snapshot, Null, Empty, Tree
<1> QED
  BY <1>1, <1>2, <1>3, <1>4, <1>5, <1>6, <1>7 DEF CommandIInv

\* A baseline that is unknown goes no further than here.
LEMMA ResolveBaselineStep == ASSUME CommandIInv, ResolveBaseline PROVE CommandIInv'
<1> USE DEF ResolveBaseline, Git, Stop, Goto, refs, sides, findings
<1>1. CommandTypeOK'
  BY RefsStay DEF CommandIInv, CommandTypeOK, Snapshot
<1>2. EndInv'
  BY DEF CommandIInv, EndInv, BothKnown, DiffRuns, Running, gateFails
<1>3. KnownInv'
  BY DEF CommandIInv, KnownInv, EndInv, Later, MemorySteps, DiskSteps, Judged
<1>4. WorktreeInv'
  BY DEF CommandIInv, WorktreeInv
<1>5. BulkInv'
  BY DEF CommandIInv, BulkInv, KnownInv, EndInv, Later, MemorySteps, DiskSteps, Judged,
         BothKnown, DiffRuns, CommandTypeOK, RefsTypeOK, Refs
<1>6. ReadInv'
  BY DEF CommandIInv, ReadInv, EndInv, Compared, Judged, MemorySteps, DiskSteps, Null, Empty,
         Tree, CommandTypeOK, RefsTypeOK, Refs
<1>7. FindingsInv'
  BY DEF CommandIInv, FindingsInv, BulkInv, ReadInv, EndInv, Compared, Judged, BothKnown, DiffRuns,
         CommandTypeOK, RefsTypeOK, Refs, Facts, Snapshot, Null, Empty, Tree
<1> QED
  BY <1>1, <1>2, <1>3, <1>4, <1>5, <1>6, <1>7 DEF CommandIInv

\* A bulk import that is not noticed is one for which git numstat failed.
LEMMA CountAddedLinesStep == ASSUME CommandIInv, CountAddedLines PROVE CommandIInv'
<1> USE DEF CountAddedLines, Git, Goto, refs, sides, findings
<1>1. CommandTypeOK'
  BY RefsStay DEF CommandIInv, CommandTypeOK, Snapshot
<1>2. EndInv'
  BY DEF CommandIInv, EndInv, BothKnown, DiffRuns, Running, gateFails
<1>3. KnownInv'
  BY DEF CommandIInv, KnownInv, EndInv, Later, MemorySteps, DiskSteps, Judged
<1>4. WorktreeInv'
  BY DEF CommandIInv, WorktreeInv
<1>5. BulkInv'
  <2>1. PICK ok \in BOOLEAN, counted \in BulkCounted :
          Git("numstat", DiffRuns, ok) /\ bulk' = (ok /\ counted)
    OBVIOUS
  <2>2. BothKnown => DiffRuns /\ (counted <=> facts.bulk)
    BY <2>1 DEF BulkCounted, BothKnown, DiffRuns
  <2>3. bulk' => ok /\ counted
    BY <2>1
  <2>4. ~bulk' /\ facts.bulk => ~BothKnown \/ "numstat" \in failed'
    BY <2>1, <2>2
  <2>5. bulk' => pc' = "emit"
    OBVIOUS
  <2> QED
    BY <2>2, <2>3, <2>4, <2>5 DEF CommandIInv, BulkInv, EndInv, Later, MemorySteps, DiskSteps,
                                  Judged, BothKnown
<1>6. ReadInv'
  BY DEF CommandIInv, ReadInv, EndInv, Compared, Judged, MemorySteps, DiskSteps, Null, Empty,
         Tree, CommandTypeOK, RefsTypeOK, Refs
<1>7. FindingsInv'
  BY DEF CommandIInv, FindingsInv, BulkInv, ReadInv, EndInv, Compared, Judged, BothKnown, DiffRuns,
         CommandTypeOK, RefsTypeOK, Refs, Facts, Snapshot, Null, Empty, Tree
<1> QED
  BY <1>1, <1>2, <1>3, <1>4, <1>5, <1>6, <1>7 DEF CommandIInv

\* Both snapshots are kept or neither, and an empty one has its reason.
LEMMA ReadSnapshotsStep == ASSUME CommandIInv, ReadSnapshots PROVE CommandIInv'
<1> USE DEF ReadSnapshots, Snapshots, Lost, Goto, refs, sides, findings
<1>1. CommandTypeOK'
  <2>1. Snapshots(baseRef) \subseteq Snapshot /\ Snapshots(currentRef) \subseteq Snapshot
    BY DEF Snapshot, Null, Empty, Tree
  <2> HIDE DEF Snapshots, Lost
  <2>2. baseSnapshot' \in Snapshot /\ currentSnapshot' \in Snapshot
    BY <2>1 DEF CommandIInv, CommandTypeOK
  <2> QED
    BY <2>2, RefsStay DEF CommandIInv, CommandTypeOK
<1>2. EndInv'
  BY DEF CommandIInv, EndInv, BothKnown, DiffRuns, Running, gateFails
<1>3. KnownInv'
  BY DEF CommandIInv, KnownInv, EndInv, Later, MemorySteps, DiskSteps, Judged
<1>4. WorktreeInv'
  BY DEF CommandIInv, WorktreeInv
<1>5. BulkInv'
  BY DEF CommandIInv, BulkInv, KnownInv, EndInv, Later, MemorySteps, DiskSteps, Judged,
         BothKnown, DiffRuns, CommandTypeOK, RefsTypeOK, Refs
<1>6. ReadInv'
  <2> HIDE DEF Snapshots, Lost
  <2>1. PICK baseTree \in Snapshots(baseRef), currentTree \in Snapshots(currentRef) :
          /\ failed' = failed \cup Lost(baseRef, baseTree) \cup Lost(currentRef, currentTree)
          /\ \/ baseSnapshot' = baseSnapshot /\ currentSnapshot' = currentSnapshot
             \/ baseSnapshot' = baseTree /\ currentSnapshot' = currentTree
    OBVIOUS
  <2>2. baseTree = Empty => baseRef # "revision" \/ "ls-tree" \in failed'
    BY <2>1 DEF Snapshots, Lost, Null, Empty, Tree
  <2>3. currentTree = Empty => currentRef \in {"unknown", "path"} \/ "ls-tree" \in failed'
    BY <2>1 DEF Snapshots, Lost, Null, Empty, Tree, CommandIInv, CommandTypeOK, RefsTypeOK, Refs
  <2>4. baseSnapshot' = Empty => baseRef # "revision" \/ "ls-tree" \in failed'
    BY <2>1, <2>2 DEF CommandIInv, ReadInv
  <2>5. currentSnapshot' = Empty => currentRef \in {"unknown", "path"} \/ "ls-tree" \in failed'
    BY <2>1, <2>3 DEF CommandIInv, ReadInv
  <2>6. failed \subseteq failed'
    BY <2>1
  <2>7. pc' \in MemorySteps => mode = "memory"
    BY DEF MemorySteps
  <2>8. pc' \in DiskSteps => mode = "disk"
    BY DEF DiskSteps, CommandIInv, CommandTypeOK, RefsTypeOK, Refs
  <2>9. ~Compared'
    BY DEF CommandIInv, EndInv, Compared, Judged
  <2> QED
    BY <2>4, <2>5, <2>6, <2>7, <2>8, <2>9 DEF CommandIInv, ReadInv
<1>7. FindingsInv'
  BY DEF CommandIInv, FindingsInv, BulkInv, ReadInv, EndInv, Compared, Judged, BothKnown, DiffRuns,
         CommandTypeOK, RefsTypeOK, Refs, Facts, Snapshot, Null, Empty, Tree
<1> QED
  BY <1>1, <1>2, <1>3, <1>4, <1>5, <1>6, <1>7 DEF CommandIInv

\* In memory mode the graphs are those of the snapshots, for the same reasons.
LEMMA BuildFromSnapshotsStep == ASSUME CommandIInv, BuildFromSnapshots PROVE CommandIInv'
<1> USE DEF BuildFromSnapshots, Stop, Goto, refs, sides, findings
<1>1. CommandTypeOK'
  BY RefsStay DEF CommandIInv, CommandTypeOK, Snapshot, Null, Empty, Tree
<1>2. EndInv'
  BY DEF CommandIInv, EndInv, BothKnown, DiffRuns, Running, gateFails
<1>3. KnownInv'
  BY DEF CommandIInv, KnownInv, EndInv, Later, MemorySteps, DiskSteps, Judged
<1>4. WorktreeInv'
  BY DEF CommandIInv, WorktreeInv
<1>5. BulkInv'
  BY DEF CommandIInv, BulkInv, KnownInv, EndInv, Later, MemorySteps, DiskSteps, Judged,
         BothKnown, DiffRuns, CommandTypeOK, RefsTypeOK, Refs
<1>6. ReadInv'
  BY DEF CommandIInv, ReadInv, EndInv, Compared, Judged, MemorySteps, DiskSteps, Null, Empty,
         Tree, CommandTypeOK, RefsTypeOK, Refs
<1>7. FindingsInv'
  BY DEF CommandIInv, FindingsInv, BulkInv, ReadInv, EndInv, Compared, Judged, BothKnown, DiffRuns,
         CommandTypeOK, RefsTypeOK, Refs, Facts, Snapshot, Null, Empty, Tree
<1> QED
  BY <1>1, <1>2, <1>3, <1>4, <1>5, <1>6, <1>7 DEF CommandIInv

\* Disk mode adds the worktree of the baseline and no other.
LEMMA AddBaselineWorktreeStep == ASSUME CommandIInv, AddBaselineWorktree PROVE CommandIInv'
<1> USE DEF AddBaselineWorktree, AddWorktree, Git, Goto, refs, sides, findings
<1>1. CommandTypeOK'
  <2>1. worktrees' \in {worktrees, worktrees \cup {"baseline"}}
    OBVIOUS
  <2>2. RefsTypeOK' /\ worktrees' \subseteq {"baseline", "current"}
    BY <2>1, RefsStay DEF CommandIInv, CommandTypeOK
  <2> QED
    BY <2>2 DEF CommandIInv, CommandTypeOK
<1>2. EndInv'
  BY DEF CommandIInv, EndInv, BothKnown, DiffRuns, Running, gateFails
<1>3. KnownInv'
  BY DEF CommandIInv, KnownInv, EndInv, Later, MemorySteps, DiskSteps, Judged
<1>4. WorktreeInv'
  BY DEF CommandIInv, WorktreeInv
<1>5. BulkInv'
  BY DEF CommandIInv, BulkInv, KnownInv, EndInv, Later, MemorySteps, DiskSteps, Judged,
         BothKnown, DiffRuns, CommandTypeOK, RefsTypeOK, Refs
<1>6. ReadInv'
  BY DEF CommandIInv, ReadInv, EndInv, Compared, Judged, MemorySteps, DiskSteps, Null, Empty,
         Tree, CommandTypeOK, RefsTypeOK, Refs
<1>7. FindingsInv'
  BY DEF CommandIInv, FindingsInv, BulkInv, ReadInv, EndInv, Compared, Judged, BothKnown, DiffRuns,
         CommandTypeOK, RefsTypeOK, Refs, Facts, Snapshot, Null, Empty, Tree
<1> QED
  BY <1>1, <1>2, <1>3, <1>4, <1>5, <1>6, <1>7 DEF CommandIInv

\* It is removed once scanned, and what was scanned is the revision.
LEMMA BuildBaselineGraphStep == ASSUME CommandIInv, BuildBaselineGraph PROVE CommandIInv'
<1> USE DEF BuildBaselineGraph, Scan, Goto, refs, sides, findings
<1>1. CommandTypeOK'
  BY RefsStay DEF CommandIInv, CommandTypeOK, Snapshot, Null, Empty, Tree
<1>2. EndInv'
  BY DEF CommandIInv, EndInv, BothKnown, DiffRuns, Running, gateFails
<1>3. KnownInv'
  BY DEF CommandIInv, KnownInv, EndInv, Later, MemorySteps, DiskSteps, Judged
<1>4. WorktreeInv'
  BY DEF CommandIInv, WorktreeInv
<1>5. BulkInv'
  BY DEF CommandIInv, BulkInv, KnownInv, EndInv, Later, MemorySteps, DiskSteps, Judged,
         BothKnown, DiffRuns, CommandTypeOK, RefsTypeOK, Refs
<1>6. ReadInv'
  BY DEF CommandIInv, ReadInv, EndInv, Compared, Judged, MemorySteps, DiskSteps, Null, Empty,
         Tree, CommandTypeOK, RefsTypeOK, Refs
<1>7. FindingsInv'
  BY DEF CommandIInv, FindingsInv, BulkInv, ReadInv, EndInv, Compared, Judged, BothKnown, DiffRuns,
         CommandTypeOK, RefsTypeOK, Refs, Facts, Snapshot, Null, Empty, Tree
<1> QED
  BY <1>1, <1>2, <1>3, <1>4, <1>5, <1>6, <1>7 DEF CommandIInv

\* The worktree of the current side is the only one then.
LEMMA AddCurrentWorktreeStep == ASSUME CommandIInv, AddCurrentWorktree PROVE CommandIInv'
<1> USE DEF AddCurrentWorktree, AddWorktree, Git, Goto, refs, sides, findings
<1>1. CommandTypeOK'
  <2>1. worktrees' \in {worktrees, worktrees \cup {"current"}}
    OBVIOUS
  <2>2. RefsTypeOK' /\ worktrees' \subseteq {"baseline", "current"}
    BY <2>1, RefsStay DEF CommandIInv, CommandTypeOK
  <2> QED
    BY <2>2 DEF CommandIInv, CommandTypeOK
<1>2. EndInv'
  BY DEF CommandIInv, EndInv, BothKnown, DiffRuns, Running, gateFails
<1>3. KnownInv'
  BY DEF CommandIInv, KnownInv, EndInv, Later, MemorySteps, DiskSteps, Judged
<1>4. WorktreeInv'
  BY DEF CommandIInv, WorktreeInv
<1>5. BulkInv'
  BY DEF CommandIInv, BulkInv, KnownInv, EndInv, Later, MemorySteps, DiskSteps, Judged,
         BothKnown, DiffRuns, CommandTypeOK, RefsTypeOK, Refs
<1>6. ReadInv'
  BY DEF CommandIInv, ReadInv, EndInv, Compared, Judged, MemorySteps, DiskSteps, Null, Empty,
         Tree, CommandTypeOK, RefsTypeOK, Refs
<1>7. FindingsInv'
  BY DEF CommandIInv, FindingsInv, BulkInv, ReadInv, EndInv, Compared, Judged, BothKnown, DiffRuns,
         CommandTypeOK, RefsTypeOK, Refs, Facts, Snapshot, Null, Empty, Tree
<1> QED
  BY <1>1, <1>2, <1>3, <1>4, <1>5, <1>6, <1>7 DEF CommandIInv

\* A run goes on with two graphs only.
LEMMA BuildCurrentGraphStep == ASSUME CommandIInv, BuildCurrentGraph PROVE CommandIInv'
<1> USE DEF BuildCurrentGraph, Scan, Stop, Goto, refs, sides, findings
<1>1. CommandTypeOK'
  BY RefsStay DEF CommandIInv, CommandTypeOK, Snapshot, Null, Empty, Tree
<1>2. EndInv'
  BY DEF CommandIInv, EndInv, BothKnown, DiffRuns, Running, gateFails
<1>3. KnownInv'
  BY DEF CommandIInv, KnownInv, EndInv, Later, MemorySteps, DiskSteps, Judged
<1>4. WorktreeInv'
  BY DEF CommandIInv, WorktreeInv
<1>5. BulkInv'
  BY DEF CommandIInv, BulkInv, KnownInv, EndInv, Later, MemorySteps, DiskSteps, Judged,
         BothKnown, DiffRuns, CommandTypeOK, RefsTypeOK, Refs
<1>6. ReadInv'
  BY DEF CommandIInv, ReadInv, EndInv, Compared, Judged, MemorySteps, DiskSteps, Null, Empty,
         Tree, CommandTypeOK, RefsTypeOK, Refs
<1>7. FindingsInv'
  BY DEF CommandIInv, FindingsInv, BulkInv, ReadInv, EndInv, Compared, Judged, BothKnown, DiffRuns,
         CommandTypeOK, RefsTypeOK, Refs, Facts, Snapshot, Null, Empty, Tree
<1> QED
  BY <1>1, <1>2, <1>3, <1>4, <1>5, <1>6, <1>7 DEF CommandIInv

\* The findings of two trees are those that the facts say.
LEMMA BuildReportStep == ASSUME CommandIInv, BuildReport PROVE CommandIInv'
<1> USE DEF BuildReport, Goto, refs, sides, findings
<1>1. CommandTypeOK'
  <2>1. baseGraph \in {Empty, Tree} /\ currentGraph \in {Empty, Tree}
    BY DEF CommandIInv, CommandTypeOK, Snapshot, ReadInv, Compared
  <2>2. facts.grown \in {"none", "renames", "genuine"} /\ facts.godHeaders \in BOOLEAN
    BY DEF CommandIInv, CommandTypeOK, RefsTypeOK, Refs, Facts
  <2>3. grown' \in {"none", "renames", "genuine"} /\ godHeaders' \in BOOLEAN
    BY <2>1, <2>2 DEF Empty, Tree
  <2> QED
    BY <2>3, RefsStay DEF CommandIInv, CommandTypeOK
<1>2. EndInv'
  BY DEF CommandIInv, EndInv, BothKnown, DiffRuns, Running, gateFails
<1>3. KnownInv'
  BY DEF CommandIInv, KnownInv, EndInv, Later, MemorySteps, DiskSteps, Judged
<1>4. WorktreeInv'
  BY DEF CommandIInv, WorktreeInv
<1>5. BulkInv'
  BY DEF CommandIInv, BulkInv, KnownInv, EndInv, Later, MemorySteps, DiskSteps, Judged,
         BothKnown, DiffRuns, CommandTypeOK, RefsTypeOK, Refs
<1>6. ReadInv'
  BY DEF CommandIInv, ReadInv, EndInv, Compared, Judged, MemorySteps, DiskSteps, Null, Empty,
         Tree, CommandTypeOK, RefsTypeOK, Refs
<1>7. FindingsInv'
  BY DEF CommandIInv, FindingsInv, BulkInv, ReadInv, EndInv, Compared, Judged, BothKnown, DiffRuns,
         CommandTypeOK, RefsTypeOK, Refs, Facts, Snapshot, Null, Empty, Tree
<1> QED
  BY <1>1, <1>2, <1>3, <1>4, <1>5, <1>6, <1>7 DEF CommandIInv

\* A cycle of renames stays only if git could not name them.
LEMMA GuardRenamesStep == ASSUME CommandIInv, GuardRenames PROVE CommandIInv'
<1> USE DEF GuardRenames, Git, Goto, refs, sides, findings
<1>1. CommandTypeOK'
  BY RefsStay DEF CommandIInv, CommandTypeOK, Snapshot
<1>2. EndInv'
  BY DEF CommandIInv, EndInv, BothKnown, DiffRuns, Running, gateFails
<1>3. KnownInv'
  BY DEF CommandIInv, KnownInv, EndInv, Later, MemorySteps, DiskSteps, Judged
<1>4. WorktreeInv'
  BY DEF CommandIInv, WorktreeInv
<1>5. BulkInv'
  BY DEF CommandIInv, BulkInv, KnownInv, EndInv, Later, MemorySteps, DiskSteps, Judged,
         BothKnown, DiffRuns, CommandTypeOK, RefsTypeOK, Refs
<1>6. ReadInv'
  BY DEF CommandIInv, ReadInv, EndInv, Compared, Judged, MemorySteps, DiskSteps, Null, Empty,
         Tree, CommandTypeOK, RefsTypeOK, Refs
<1>7. FindingsInv'
  BY DEF CommandIInv, FindingsInv, BulkInv, ReadInv, EndInv, Compared, Judged, BothKnown, DiffRuns,
         CommandTypeOK, RefsTypeOK, Refs, Facts, Snapshot, Null, Empty, Tree
<1> QED
  BY <1>1, <1>2, <1>3, <1>4, <1>5, <1>6, <1>7 DEF CommandIInv

\* The exit code follows from the findings.
LEMMA EmitStep == ASSUME CommandIInv, Emit PROVE CommandIInv'
<1> USE DEF Emit, Stop, refs, sides, findings
<1>1. CommandTypeOK'
  BY RefsStay DEF CommandIInv, CommandTypeOK, Snapshot
<1>2. EndInv'
  BY DEF CommandIInv, EndInv, BothKnown, DiffRuns, Running, gateFails
<1>3. KnownInv'
  BY DEF CommandIInv, KnownInv, EndInv, Later, MemorySteps, DiskSteps, Judged
<1>4. WorktreeInv'
  BY DEF CommandIInv, WorktreeInv
<1>5. BulkInv'
  BY DEF CommandIInv, BulkInv, KnownInv, EndInv, Later, MemorySteps, DiskSteps, Judged,
         BothKnown, DiffRuns, CommandTypeOK, RefsTypeOK, Refs
<1>6. ReadInv'
  BY DEF CommandIInv, ReadInv, EndInv, Compared, Judged, MemorySteps, DiskSteps, Null, Empty,
         Tree, CommandTypeOK, RefsTypeOK, Refs
<1>7. FindingsInv'
  BY DEF CommandIInv, FindingsInv, BulkInv, ReadInv, EndInv, Compared, Judged, BothKnown, DiffRuns,
         CommandTypeOK, RefsTypeOK, Refs, Facts, Snapshot, Null, Empty, Tree
<1> QED
  BY <1>1, <1>2, <1>3, <1>4, <1>5, <1>6, <1>7 DEF CommandIInv

\* Before its first step a run has read and found nothing.
LEMMA CommandInitIInv == CommandInit => CommandIInv
<1> SUFFICES ASSUME CommandInit PROVE CommandIInv
  OBVIOUS
<1> USE DEF CommandInit
<1>1. CommandTypeOK
  BY DEF CommandTypeOK, RefsTypeOK, Refs, Snapshot
<1>2. EndInv
  BY DEF EndInv
<1>3. KnownInv
  BY DEF KnownInv, Later, MemorySteps, DiskSteps, Judged
<1>4. WorktreeInv
  BY DEF WorktreeInv
<1>5. BulkInv
  BY DEF BulkInv, Later, MemorySteps, DiskSteps, Judged
<1>6. ReadInv
  BY DEF ReadInv, Compared, Judged, MemorySteps, DiskSteps, Null, Empty
<1>7. FindingsInv
  BY DEF FindingsInv, Judged
<1> QED
  BY <1>1, <1>2, <1>3, <1>4, <1>5, <1>6, <1>7 DEF CommandIInv

\* The invariant holds along every run, in either mode, whichever git commands
\* fail.
THEOREM CommandInvariance == CommandSpec => []CommandIInv
<1>1. CommandInit => CommandIInv
  BY CommandInitIInv
<1>2. CommandIInv /\ [CommandNext]_commandVars => CommandIInv'
  <2> SUFFICES ASSUME CommandIInv, [CommandNext]_commandVars PROVE CommandIInv'
    OBVIOUS
  <2>1. CASE CommandNext
    BY <2>1, ParseAndLocateStep, FastPathStep, LoadThresholdsStep, ResolveBaselineStep,
       CountAddedLinesStep, ReadSnapshotsStep, BuildFromSnapshotsStep, AddBaselineWorktreeStep,
       BuildBaselineGraphStep, AddCurrentWorktreeStep, BuildCurrentGraphStep, BuildReportStep,
       GuardRenamesStep, EmitStep DEF CommandNext
  <2>2. CASE UNCHANGED commandVars
    <3> USE <2>2 DEF commandVars, refs, sides, findings, CommandIInv
    <3>1. CommandTypeOK' /\ WorktreeInv'
      BY RefsStay DEF CommandTypeOK, WorktreeInv
    <3>2. EndInv'
      BY DEF EndInv, BothKnown, DiffRuns, gateFails
    <3>3. KnownInv' /\ BulkInv'
      BY DEF KnownInv, BulkInv, BothKnown, DiffRuns, Judged
    <3>4. ReadInv' /\ FindingsInv'
      BY DEF ReadInv, FindingsInv, Compared, Judged, BothKnown, DiffRuns
    <3> QED
      BY <3>1, <3>2, <3>3, <3>4
  <2> QED
    BY <2>1, <2>2
<1> QED
  BY <1>1, <1>2, PTL DEF CommandSpec

\* Where both revisions are known and no git command failed whose failure is
\* tolerated, the exit code is that of the two trees: what was printed says how
\* far the run came, and each way of ending agrees with the facts, but for an
\* early end over a change that git's list leaves out.
THEOREM ExitCodeCorrect == CommandSpec => []ExitCodeIsTrue
<1>1. CommandIInv => ExitCodeIsTrue
  <2> SUFFICES ASSUME CommandIInv, exitCode \in {0, 1}, Reliable
               PROVE  \/ exitCode = IF RealGate /\ ~facts.bulk THEN 1 ELSE 0
                      \/ printed = "no changes" /\ facts.change = "hidden"
    BY DEF ExitCodeIsTrue
  <2>1. /\ BothKnown
        /\ "numstat" \notin failed /\ "ls-tree" \notin failed /\ "renames" \notin failed
    BY DEF Reliable, Tolerated
  <2>2. CASE printed = "no changes"
    <3>1. exitCode = 0 /\ facts.change # "listed"
      BY <2>1, <2>2 DEF CommandIInv, EndInv, Running
    <3>2. ~RealGate \/ facts.change = "hidden"
      BY <3>1 DEF CommandIInv, CommandTypeOK, RefsTypeOK, Refs, Facts, RealGate
    <3> QED
      BY <2>2, <3>1, <3>2
  <2>3. CASE printed = "report"
    <3>1. exitCode = (IF gateFails THEN 1 ELSE 0) /\ Judged
      BY <2>3 DEF CommandIInv, EndInv, Running, Judged
    <3>2. CASE bulk
      BY <2>1, <3>1, <3>2 DEF CommandIInv, BulkInv, FindingsInv, gateFails
    <3>3. CASE ~bulk
      <4>1. ~facts.bulk
        BY <2>1, <3>1, <3>3 DEF CommandIInv, BulkInv
      <4>2. baseGraph = Tree /\ currentGraph = Tree
        BY <2>1, <3>1, <3>3 DEF CommandIInv, CommandTypeOK, Snapshot, ReadInv, Compared,
                                BothKnown
      <4>3. gateFails <=> RealGate
        BY <2>1, <3>1, <3>3, <4>2 DEF CommandIInv, CommandTypeOK, RefsTypeOK, Refs, Facts,
                                      FindingsInv, gateFails, RealGate
      <4> QED
        BY <3>1, <4>1, <4>3
    <3> QED
      BY <3>2, <3>3
  <2>4. printed = "no changes" \/ printed = "report"
    <3>1. exitCode # 2 /\ exitCode # Running
      BY DEF Running
    <3>2. pc = "done"
      BY <3>1 DEF CommandIInv, EndInv
    <3> QED
      BY <3>1, <3>2 DEF CommandIInv, EndInv
  <2> QED
    BY <2>2, <2>3, <2>4
<1> QED
  BY <1>1, CommandInvariance, PTL

\* A baseline that is no revision is never reported on: no step after the one
\* that resolves it is ever reached, so that the run ends in an error there or,
\* if the name is a path, before it with "no changes".
THEOREM UnknownBaseline == CommandSpec => []UnknownBaselineIsAnError
<1>1. CommandIInv => UnknownBaselineIsAnError
  BY DEF CommandIInv, EndInv, KnownInv, Judged, BothKnown, DiffRuns, UnknownBaselineIsAnError
<1> QED
  BY <1>1, CommandInvariance, PTL

\* Disk mode compares the trees of the two revisions or nothing.
THEOREM DiskCompares == CommandSpec => []DiskComparesTheRevisions
<1>1. CommandIInv => DiskComparesTheRevisions
  BY DEF CommandIInv, CommandTypeOK, RefsTypeOK, Refs, Snapshot, ReadInv, Compared, Judged,
         DiskComparesTheRevisions
<1> QED
  BY <1>1, CommandInvariance, PTL

\* Worktrees are there one at a time and none is left behind.
THEOREM WorktreesGone == CommandSpec => []WorktreesAreTemporary
<1>1. CommandIInv => WorktreesAreTemporary
  <2> SUFFICES ASSUME CommandIInv PROVE WorktreesAreTemporary
    OBVIOUS
  <2>1. worktrees = {} \/ worktrees = {"baseline"} \/ worktrees = {"current"}
    BY DEF CommandIInv, CommandTypeOK, WorktreeInv
  <2>2. Cardinality({}) = 0 /\ Cardinality({"baseline"}) = 1 /\ Cardinality({"current"}) = 1
    BY FS_EmptySet, FS_Singleton
  <2>3. pc = "done" => worktrees = {}
    BY <2>1 DEF CommandIInv, WorktreeInv
  <2> QED
    BY <2>1, <2>2, <2>3 DEF WorktreesAreTemporary
<1> QED
  BY <1>1, CommandInvariance, PTL
=============================================================================
