---------------------------- MODULE PullRequest ----------------------------
(***************************************************************************)
(* The life of a repository behind the gate of `archcheck --diff`: a change *)
(* to the include graph grows by edits and file moves, the gate compares it *)
(* with the baseline, and a change the gate passes becomes the baseline of  *)
(* the next one.                                                            *)
(*                                                                         *)
(* The edits stand for the developer and git (not part of the program); the *)
(* action Diff is the graph half of runDiffFullPath, buildDiffGraph and     *)
(* applyRenameArtifactGuard (src/src/cli/diff_command.cpp).                 *)
(***************************************************************************)
EXTENDS RegressionReport

CONSTANTS
    Baselines,          \* the graphs a repository may start from
    MaxEdges,           \* no graph has more edges
    MaxEdits            \* no change has more edits

ASSUME BaselinesAssumption == \A g \in Baselines : IsGraph(g)

None == "none"

VARIABLES
    baseline,           \* the graph of the baseline revision
    current,            \* the graph of the current revision
    origin,             \* current path -> baseline path it was moved from
    edits,              \* the number of edits of this change
    report,             \* the report of the last Diff of this change
    renamed,            \* the new paths of the renames git found then
    verdict             \* None, "ok" or "fail": what that Diff said

vars == <<baseline, current, origin, edits, report, renamed, verdict>>

EmptyReport ==
    [addedEdges |-> {}, removedEdges |-> {}, grownCycles |-> {},
     newCrossAreaDependencies |-> {}, newGodHeaders |-> {}]

Init ==
    /\ baseline \in Baselines
    /\ current = baseline
    /\ origin = [p \in baseline.nodes |-> p]
    /\ edits = 0
    /\ report = EmptyReport /\ renamed = {} /\ verdict = None

\* Every edit makes the last verdict void.
Edit ==
    /\ edits < MaxEdits
    /\ edits' = edits + 1
    /\ report' = EmptyReport /\ renamed' = {} /\ verdict' = None
    /\ UNCHANGED baseline

AddFile(p) ==
    /\ p \in Path \ current.nodes
    /\ Edit
    /\ current' = [current EXCEPT !.nodes = @ \cup {p}]
    /\ UNCHANGED origin

Touches(e, p) == e[1] = p \/ e[2] = p
DeleteFile(p) ==
    /\ p \in current.nodes
    /\ Edit
    /\ current' = [nodes |-> current.nodes \ {p},
                   edges |-> {e \in current.edges : ~Touches(e, p)}]
    /\ origin' = [q \in DOMAIN origin \ {p} |-> origin[q]]

AddInclude(a, b) ==
    /\ a # b /\ <<a, b>> \notin current.edges
    /\ Cardinality(current.edges) < MaxEdges
    /\ Edit
    /\ current' = [current EXCEPT !.edges = @ \cup {<<a, b>>}]
    /\ UNCHANGED origin

RemoveInclude(e) ==
    /\ Edit
    /\ current' = [current EXCEPT !.edges = @ \ {e}]
    /\ UNCHANGED origin

\* git mv p q, with every #include of p rewritten.
MoveFile(p, q) ==
    /\ p \in current.nodes /\ q \in Path \ current.nodes
    /\ Edit
    /\ LET moved(x) == IF x = p THEN q ELSE x
       IN  current' = [nodes |-> {moved(x) : x \in current.nodes},
                       edges |-> {<<moved(e[1]), moved(e[2])>> : e \in current.edges}]
    /\ origin' = IF p \in DOMAIN origin
                 THEN [x \in (DOMAIN origin \ {p}) \cup {q} |->
                          IF x = q THEN origin[p] ELSE origin[x]]
                 ELSE origin

\* git reports a rename only of a path that is gone, to a path that is new;
\* it pairs them by content, so it may miss one.
DetectableRenames ==
    {q \in DOMAIN origin : q \notin baseline.nodes /\ origin[q] \notin current.nodes}

\* buildDiffGraph, then applyRenameArtifactGuard when a cycle has grown.
Diff ==
    /\ verdict = None
    /\ \E found \in SUBSET DetectableRenames :
         LET full == buildRegressionReport(baseline, current)
             guarded == IF full.grownCycles = {}
                        THEN full ELSE dropRenameArtifactCycles(full, found)
         IN  /\ renamed' = found
             /\ report' = guarded
             /\ verdict' = IF gates(guarded) THEN "fail" ELSE "ok"
    /\ UNCHANGED <<baseline, current, origin, edits>>

\* A change that passed becomes the baseline of the next one.
Merge ==
    /\ verdict = "ok"
    /\ baseline' = current
    /\ origin' = [p \in current.nodes |-> p]
    /\ edits' = 0
    /\ report' = EmptyReport /\ renamed' = {} /\ verdict' = None
    /\ UNCHANGED current

\* A change that failed is given up.
Abandon ==
    /\ verdict = "fail"
    /\ current' = baseline
    /\ origin' = [p \in baseline.nodes |-> p]
    /\ edits' = 0
    /\ report' = EmptyReport /\ renamed' = {} /\ verdict' = None
    /\ UNCHANGED baseline

Next ==
    \/ \E p \in Path : AddFile(p)
    \/ \E p \in Path : DeleteFile(p)
    \/ \E a, b \in current.nodes : AddInclude(a, b)
    \/ \E e \in current.edges : RemoveInclude(e)
    \/ \E p, q \in Path : MoveFile(p, q)
    \/ Diff
    \/ Merge
    \/ Abandon

Spec == Init /\ [][Next]_vars
-----------------------------------------------------------------------------
(* Properties *)

Largest(g) == LET sizes == {Cardinality(s) : s \in nontrivial_sccs(g)} \cup {0}
              IN  CHOOSE n \in sizes : \A m \in sizes : m <= n

\* "Removing edges is not counted as a regression" (docs/ci_integration.md):
\* a change that only deletes files and includes passes, however cyclic the
\* legacy is, and nothing in its report is called new.
RemovalNeverGates ==
    verdict # None /\ current.nodes \subseteq baseline.nodes
                   /\ current.edges \subseteq baseline.edges
        => /\ verdict = "ok"
           /\ report.addedEdges = {} /\ report.newCrossAreaDependencies = {}

\* When a change only adds, it is failed for every cycle whose files the
\* baseline did not have as a cycle: two old cycles that join, an old one that
\* gains a file, and one closed by a chain of old includes, are all found.  And
\* it is failed for no old cycle between whose files no include was added.  Those
\* between which one was added need not fail, although docs/architecture-spec.md:402
\* lets DRIFT.2 fire when a component "grew by the number of nodes / edges": grownSccs
\* counts files.
Inside(g, s) == {e \in g.edges : {e[1], e[2]} \subseteq s}
AdditionGatesNewCycles ==
    verdict # None /\ baseline.nodes \subseteq current.nodes
                   /\ baseline.edges \subseteq current.edges
        => /\ nontrivial_sccs(current) \ nontrivial_sccs(baseline) \subseteq report.grownCycles
           /\ \A s \in report.grownCycles :
                s \in nontrivial_sccs(baseline) => Inside(current, s) # Inside(baseline, s)

\* However includes are added and removed, and whatever is moved, a cycle
\* that touches no file of an old cycle fails the change, unless it consists
\* of moved files only.
DisjointCycleGates ==
    verdict = "ok" =>
        \A s \in nontrivial_sccs(current) :
            \/ s \subseteq renamed
            \/ \E b \in nontrivial_sccs(baseline) : s \cap b # {}

\* A change that moves files and does nothing else is not failed for a cycle
\* if git found the renames: neither for one moved as a whole, which the
\* guard drops, nor for one moved in part, which still overlaps its old self.
OnlyMoved ==
    /\ DOMAIN origin = current.nodes
    /\ {origin[p] : p \in current.nodes} = baseline.nodes
    /\ {<<origin[e[1]], origin[e[2]]>> : e \in current.edges} = baseline.edges
    /\ \A p \in current.nodes : origin[p] # p => p \in DetectableRenames
AllFound == \A p \in current.nodes : origin[p] # p => p \in renamed
PureMoveIsNotACycle ==
    verdict # None /\ OnlyMoved /\ AllFound => report.grownCycles = {}

\* The gate is a ratchet: over any series of changes it passes, the largest
\* cycle never grows and no file becomes a god-header, as long as the rename
\* guard does not intervene.
Ratchet ==
    [][baseline' # baseline /\ renamed = {}
        => /\ Largest(baseline') <= Largest(baseline)
           /\ GodHeaders(baseline') \subseteq GodHeaders(baseline)]_vars
-----------------------------------------------------------------------------
(* What the documentation says and the code does not do. *)

\* docs/architecture-spec.md, DRIFT.2: the gate fires "if a new SCC of size
\* > 1 appeared".  A change to the includes of files that stay where they are
\* must not pass if it closes a circle of files that were in none together.
NothingMoved ==
    /\ current.nodes = baseline.nodes
    /\ origin = [p \in current.nodes |-> p]
NewCycleGates ==
    verdict = "ok" /\ NothingMoved =>
        \A s \in nontrivial_sccs(current) :
            \E b \in nontrivial_sccs(baseline) : s \subseteq b
=============================================================================
