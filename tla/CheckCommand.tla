---------------------------- MODULE CheckCommand ----------------------------
(***************************************************************************)
(* cli::runCheck and runSaveGraphBaseline (src/src/cli/check_command.cpp):  *)
(* a project that changes, and the runs of archcheck on it, without a       *)
(* baseline, with the violations that were saved earlier, and with the      *)
(* include graph that was saved earlier (--drift-baseline).                 *)
(*                                                                         *)
(* The two files persist between runs.  They are written without a check of *)
(* the stream: when the disk is full a run says "saved", and the file holds *)
(* a prefix.  A prefix that breaks off inside an entry, or too early to be  *)
(* recognised, cannot be loaded.                                            *)
(***************************************************************************)
EXTENDS GraphRules

CONSTANTS
    Projects,           \* the projects there are at first
    Issue,              \* findings of the text rules: [rule, file, line]
    MaxEdits,           \* edits after a save
    MaxNewIncludes      \* #includes that come with a new file

\* An #include that a file repeats is one edge, see DependencyGraph.tla.
IsProject(p) ==
    /\ p = [nodes |-> p.nodes, successors |-> p.successors, conditional |-> p.conditional]
    /\ p.nodes \subseteq Path
    /\ p.successors \in [p.nodes -> Seq(p.nodes)]
    /\ \A a \in p.nodes : IsInjective(p.successors[a])
ASSUME ProjectsAssumption == \A p \in Projects : IsProject(p)
ASSUME IssueAssumption == IsFiniteSet(Issue)

\* The numbers and the pairs in S in their order; SetToSortSeq tries all the
\* sequences.
Sorted(S) ==
    [i \in 1 .. Cardinality(S) |-> CHOOSE x \in S : Cardinality({y \in S : y < x}) = i - 1]
Precedes(a, b) == a[1] < b[1] \/ (a[1] = b[1] /\ a[2] < b[2])
SortedPairs(S) ==
    [i \in 1 .. Cardinality(S) |->
        CHOOSE x \in S : Cardinality({y \in S : Precedes(y, x)}) = i - 1]

NoRun == [mode |-> "none", exitCode |-> 0, findings |-> {}, drift |-> {}]

VARIABLES
    project,            \* its include graph
    issues,             \* what the text rules find in it
    edits,              \* edits since the last save
    violationFile,      \* the file of --save-baseline and --baseline
    graphFile,          \* the file of --save-graph-baseline and --drift-baseline
    run                 \* the last run on this project and these files

sources == <<project, issues>>
vars == <<sources, edits, violationFile, graphFile, run>>

\* `whole` is what was to be written, of the sources `of`; the file holds `content`.
NoFile == [status |-> "absent", content |-> <<>>, whole |-> <<>>, of |-> <<>>]

Init ==
    /\ project \in Projects
    /\ issues = {}
    /\ edits = 0
    /\ violationFile = NoFile /\ graphFile = NoFile
    /\ run = NoRun
-----------------------------------------------------------------------------
(* The developer. *)

Edit ==
    /\ edits < MaxEdits /\ edits' = edits + 1
    /\ run' = NoRun
    /\ UNCHANGED <<violationFile, graphFile>>

\* A new file with an #include of each of out; each of users includes it.
AddFile(f, out, users) ==
    /\ f \in Path \ project.nodes /\ out \cup users \subseteq project.nodes
    /\ Cardinality(out) + Cardinality(users) <= MaxNewIncludes
    /\ Edit
    /\ project' = [nodes |-> project.nodes \cup {f},
                   successors |-> [v \in project.nodes \cup {f} |->
                       IF v = f THEN Sorted(out)
                       ELSE IF v \in users THEN Append(project.successors[v], f)
                       ELSE project.successors[v]],
                   conditional |-> project.conditional]
    /\ UNCHANGED issues

AddInclude(a, b) ==
    /\ b \notin ToSet(project.successors[a])
    /\ Edit
    /\ project' = [project EXCEPT !.successors[a] = Append(@, b)]
    /\ UNCHANGED issues

RemoveInclude(e) ==
    /\ Edit
    /\ project' = [project EXCEPT !.successors[e[1]] = RemoveAt(@, Position(project, e[1], e[2])),
                                  !.conditional = @ \ {e}]
    /\ UNCHANGED issues

ToggleIssue(i) ==
    /\ Edit
    /\ issues' = IF i \in issues THEN issues \ {i} ELSE {i}
    /\ UNCHANGED project
-----------------------------------------------------------------------------
(* archcheck *)

AtFile(rule, files) ==
    [i \in 1 .. Cardinality(files) |->
        [rule |-> rule, file |-> Sorted(files)[i], line |-> 0]]
\* checkViolations, in the order of the rules; the text rules come last here.
violationsIn(p, found) ==
    AtFile("SF.9", {FrontOf(s) : s \in Sf9NoCycles(p)})
        \o AtFile("Lakos.GodHeader", LakosGodHeaders(p))
        \o AtFile("Lakos.ChainLength", LakosChainLength(p))
        \o SetToSeq(found)
checkViolations == violationsIn(project, issues)

GatingIn(findings, failOnUnresolvedLocal) ==
    {f \in findings : GatesCheck(f.rule, failOnUnresolvedLocal)}

\* reportCheckGate
CheckExit(findings, failOnUnresolvedLocal) ==
    IF GatingIn(findings, failOnUnresolvedLocal) = {} THEN 0 ELSE 1

Report(mode, exitCode, findings, drift) ==
    run' = [mode |-> mode, exitCode |-> exitCode, findings |-> findings, drift |-> drift]

\* config::discover throws, whatever was asked for.
ConfigError ==
    /\ Report("config error", 2, {}, {})
    /\ UNCHANGED <<sources, edits, violationFile, graphFile>>

Check(failOnUnresolvedLocal) ==
    /\ LET all == ToSet(checkViolations) IN
       Report("check", CheckExit(all, failOnUnresolvedLocal), all, {})
    /\ UNCHANGED <<sources, edits, violationFile, graphFile>>

\* The file that a save leaves behind: all of it, the first entries, or one
\* that cannot be loaded.
Written(whole, prefixes) ==
    {[status |-> "readable", content |-> content, whole |-> whole, of |-> sources] :
        content \in prefixes \cup {whole}}
    \cup {[status |-> "broken", content |-> <<>>, whole |-> whole, of |-> sources]}

\* trySaveBaseline.  If the file cannot be opened it stays as it was.
SaveBaseline ==
    /\ \/ /\ LET all == checkViolations IN
             /\ Report("save", 0, ToSet(all), {})
             /\ violationFile' \in Written(all, {SubSeq(all, 1, n) : n \in 0 .. Len(all)})
          /\ edits' = 0
       \/ /\ Report("save", 2, {}, {})
          /\ UNCHANGED <<violationFile, edits>>
    /\ UNCHANGED <<sources, graphFile>>

\* The key of a violation is its rule, its file and its line.
filterNew(all, known) == all \ known

CheckAgainstBaseline ==
    /\ IF violationFile.status # "readable"
       THEN Report("baseline", 2, {}, {})
       ELSE LET new == filterNew(ToSet(checkViolations), ToSet(violationFile.content)) IN
            Report("baseline", CheckExit(new, FALSE), new, {})
    /\ UNCHANGED <<sources, edits, violationFile, graphFile>>

\* graph::saveBaseline: the paths in their order, then the edges as pairs of
\* positions in that list, in their order.
sorted_node_paths(g) == Sorted(g.nodes)
IndexOf(nodes, p) == CHOOSE i \in DOMAIN nodes : nodes[i] = p
remapped_sorted_edges(g, nodes) ==
    SortedPairs({<<IndexOf(nodes, e[1]) - 1, IndexOf(nodes, e[2]) - 1>> : e \in g.edges})

\* runSaveGraphBaseline.  The list of nodes alone is no baseline, and a list
\* of edges that is announced and empty is not one either.
SaveGraphBaseline ==
    /\ \/ /\ Report("save graph", 0, {}, {})
          /\ LET nodes == sorted_node_paths(graphOf(project))
                 edges == remapped_sorted_edges(graphOf(project), nodes)
             IN  graphFile' \in Written(<<nodes, edges>>,
                                       {<<nodes, SubSeq(edges, 1, n)>> : n \in 1 .. Len(edges)})
          /\ edits' = 0
       \/ /\ Report("save graph", 2, {}, {})
          /\ UNCHANGED <<graphFile, edits>>
    /\ UNCHANGED <<sources, violationFile>>

\* Mutant: the positions are read as if they began with 1.
assemble_graphShifted(file) ==
    LET nodes == file[1]
        at(i) == nodes[IF i = 0 THEN 1 ELSE i]
    IN  [nodes |-> ToSet(nodes), edges |-> {<<at(e[1]), at(e[2])>> : e \in ToSet(file[2])}]

assemble_graph(file) ==
    LET nodes == file[1] IN
    [nodes |-> ToSet(nodes),
     edges |-> {<<nodes[e[1] + 1], nodes[e[2] + 1]>> : e \in ToSet(file[2])}]

\* The findings of makeDriftRuleSet: [rule, at], at what the rule names.
DriftFindings(baseline, current) ==
    {[rule |-> "DRIFT.1", at |-> {e[1], e[2]}] : e \in DriftNoShortcutEdge(baseline, current)}
    \cup {[rule |-> "DRIFT.3", at |-> a] : a \in DriftBidirectionalCoupling(baseline, current)}
    \cup {[rule |-> d.grade, at |-> {d.pair[1], d.pair[2]}] :
             d \in DriftLateralModuleDependency(baseline, current)}
    \cup {[rule |-> "DRIFT.2", at |-> s] : s \in DriftNoCycleGrowth(baseline, current)}

\* reportDriftGate
DriftExit(drift) == IF \E d \in drift : GatesDrift(d.rule) THEN 1 ELSE 0

CheckDrift ==
    /\ IF graphFile.status # "readable"
       THEN Report("drift", 2, {}, {})
       ELSE LET drift == DriftFindings(assemble_graph(graphFile.content), graphOf(project)) IN
            Report("drift", DriftExit(drift), ToSet(checkViolations), drift)
    /\ UNCHANGED <<sources, edits, violationFile, graphFile>>

\* What a run reports depends on the project and the files alone: one that
\* writes no file is not followed by another before something has changed.
Fresh == run.mode \in {"none", "save", "save graph"}

archcheck ==
    \/ ConfigError
    \/ \E failOnUnresolvedLocal \in BOOLEAN : Check(failOnUnresolvedLocal)
    \/ SaveBaseline
    \/ CheckAgainstBaseline
    \/ SaveGraphBaseline
    \/ CheckDrift

Next ==
    \/ \E f \in Path, out, users \in SUBSET project.nodes : AddFile(f, out, users)
    \/ \E a, b \in project.nodes : AddInclude(a, b)
    \/ \E e \in EdgesOf(project) : RemoveInclude(e)
    \/ \E i \in Issue : ToggleIssue(i)
    \/ Fresh /\ archcheck

Spec == Init /\ [][Next]_vars
-----------------------------------------------------------------------------
(* Properties *)

\* A run without a baseline fails for include cycles exactly when there are
\* some, whatever else it finds.  It may be lenient only where the least file of
\* the component is on a cycle of conditional #includes, or the component is a
\* header and its inline half.
WhollyConditional(s) ==
    \E c \in nontrivial_sccs([nodes |-> s, edges |-> project.conditional \cap s \X s]) :
        FrontOf(s) \in c
CycleGateIsTrue ==
    run.mode = "check" /\ issues = {} =>
        LET cycles == nontrivial_sccs(graphOf(project)) \ InlineSplits IN
        /\ run.exitCode = 0 => \A s \in cycles : WhollyConditional(s)
        /\ run.exitCode = 1 => cycles # {}

\* A baseline that was saved whole, of either kind, accepts the project that
\* it was saved from, whatever happened to the project in between.
AcceptsItself ==
    /\ run.mode = "baseline" /\ violationFile.of = sources /\ violationFile.status = "readable"
           /\ violationFile.content = violationFile.whole
       => run.exitCode = 0 /\ run.findings = {}
    /\ run.mode = "drift" /\ graphFile.of = sources /\ graphFile.status = "readable"
           /\ graphFile.content = graphFile.whole
       => run.exitCode = 0 /\ run.drift = {}

\* A file of which only a part was written errs on the safe side: a run that
\* passes with it also passes with the whole file.  For the graph this is so
\* unless the change both adds a file and removes an include: an include that
\* the file lost, and the project too, is then not there to make a circle of
\* modules with one of the new file, and a cycle that needed it is not there to
\* be compared with a new one.
PartialFileHidesNothing ==
    /\ run.mode = "baseline" /\ run.exitCode = 0
       => CheckExit(filterNew(ToSet(checkViolations), ToSet(violationFile.whole)), FALSE) = 0
    /\ run.mode = "drift" /\ run.exitCode = 0 =>
         LET whole == assemble_graph(graphFile.whole)
             current == graphOf(project)
         IN  current.nodes \subseteq whole.nodes \/ whole.edges \subseteq current.edges
               => DriftExit(DriftFindings(whole, current)) = 0

\* What --drift-baseline lets pass closes no cycle: files that all were in the
\* baseline form no cycle that they did not form there, and the largest cycle
\* has not grown.
LargestCycle(g) == Max({Cardinality(s) : s \in nontrivial_sccs(g)} \cup {0})
DriftGateClosesNoCycle ==
    run.mode = "drift" /\ run.exitCode = 0 =>
        LET baseline == assemble_graph(graphFile.content)
            current == graphOf(project)
        IN  /\ LargestCycle(current) <= LargestCycle(baseline)
            /\ \A s \in nontrivial_sccs(current) :
                   s \subseteq baseline.nodes =>
                       \E b \in nontrivial_sccs(baseline) : s \subseteq b

\* Two modules that have come to depend on each other are always reported, by a
\* finding about the two: by DRIFT.3 with their names, or, where DRIFT.3 leaves a
\* file of the one and a file of the other that include each other to SF.9, by
\* SF.9 at the first file of the component that these two are in.  As everywhere
\* SF.9 may forgive a component whose first file is on a conditional cycle.
MutualAcross(a, s, edges) ==
    \E e \in edges : /\ {areaOf[e[1]], areaOf[e[2]]} = {a[1], a[2]}
                     /\ {e[1], e[2]} \subseteq s /\ Reversed(e) \in edges
CouplingIsReported ==
    run.mode = "drift" /\ run.exitCode # 2 =>
        LET current == graphOf(project)
            old == areaDeps(assemble_graph(graphFile.content))
            now == areaDeps(current)
        IN  \A a \in now : Reversed(a) \in now /\ ~({a, Reversed(a)} \subseteq old) =>
                \/ [rule |-> "DRIFT.3", at |-> {a[1], a[2]}] \in run.drift
                \/ \E s \in nontrivial_sccs(current) :
                      /\ MutualAcross(a, s, current.edges)
                      /\ \/ [rule |-> "SF.9", file |-> FrontOf(s), line |-> 0] \in run.findings
                         \/ WhollyConditional(s)
-----------------------------------------------------------------------------
(* What the documentation says and the code does not do. *)

\* docs/openwiki/index.md: SF.9 "skips ... all-conditional cycles".  A cycle of
\* unconditional includes must fail the run.
HardCycleGates ==
    run.mode = "check" /\ run.exitCode = 0 =>
        \A s \in nontrivial_sccs([nodes |-> project.nodes,
                                  edges |-> EdgesOf(project) \ project.conditional]) :
            s \in InlineSplits
=============================================================================
