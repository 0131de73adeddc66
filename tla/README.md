# Verification of archcheck

archcheck reads the `#include` graph of a C++ repository, compares it with an earlier state of
the same repository, and passes a change or fails it. What a user relies on is the exit code.
These TLA+ modules model the parts of the program that decide it. TLC checks each module on
small instances, and TLAPS proves the central properties of some of them for every size.

`PROJECT.json` lists the runs, the source lines each definition was translated from, the hazards
the properties are aimed at, the findings, and for every property a mutant: a plausible bug of the
code that makes TLC find the property violated. A mutant is an operator next to the definition it
replaces; no specification uses it.

## 1. Inventory of the system

Paths are relative to the repository. "State" is what lives longer than a call.

| component | source | state | operations | used by |
|---|---|---|---|---|
| include graph | `src/graph/dependency_graph.cpp` | `paths_`, `pathToId_`, `forward_`, `reverse_`, `conditionalEdges_` | `addNode`, `addEdge`, queries | everything below |
| graph builder | `src/graph/graph_builder.cpp` | none | snapshot to graph | both commands |
| graph algorithms | `src/graph/algorithms.cpp` | the explicit stacks of two walks | `computeScc`, `computeIncludeDepths`, `computeFanIn`, metrics | rules, diff |
| graph diff, regression report | `src/graph/diff.cpp`, `src/diff/regression_report.cpp` | none | `addedEdges`, `grownSccs`, report, rename guard, gate | diff command, DRIFT rules |
| git processes | `src/git/git_exec.cpp` | a child and two pipes | `runGit` | every git query |
| git object source | `src/git/git_object_file_source.cpp` | the `cat-file --batch` child and its pipes | `list`, `read`, destructor | snapshots of a revision |
| git state, worktrees | `src/git/git_state.cpp` | temporary worktrees on disk | revspec, changed files, `materializeRef` | diff command |
| diff queries | `src/git/diff_query.cpp` | none | numstat, renames, unified diff | diff command, advisories |
| diff command | `src/cli/diff_command.cpp` | the course of one run | `runDiff`, memory and disk mode | command line |
| SF, Lakos and DRIFT rules | `src/rules/*.cpp`, `include/.../area_of.h` | none (DRIFT: the baseline graph) | `check` | check command |
| gate policy | `src/rules/gate_policy.cpp` | none | `classifyForGate` | check command |
| check command | `src/cli/check_command.cpp` | two files that outlive the run | `runCheck`, `runSaveGraphBaseline` | command line |
| violation and graph baselines | `src/report/violation_baseline.cpp`, `src/graph/baseline.cpp` | those files | save, load, filter | check command |
| file sources, snapshot, classification | `src/scan/disk_file_source.cpp`, `project_files.cpp`, `include/.../scan/*.h` | process-wide classification registries | list, read, classify | graph builder, rules, clones |
| include scanner and resolver | `src/scan/include_*.cpp`, `local_include_scan.cpp` | the state of one text | scan, index, resolve, report | graph builder, check command |
| clone detection | `src/scan/duplication/*.cpp`, `new_clone_drift.cpp` | none | lex, fragment, index, score, filter, report | diff command (advisory) |
| other advisories | complexity, body scans, history | none | text heuristics that never gate | both commands |
| configuration, command line, reports | `src/config`, `src/main.cpp`, `src/report` | none | parse, dispatch, print | |

How they interact: the commands read a snapshot (from the disk, from a worktree or through the
`cat-file` child), the builder turns it into a graph, the algorithms and the diff read the graph,
the rules or the regression report produce findings, and the gate turns these into the exit code.
There are no threads. The concurrency is between archcheck and the git processes it forks; the
long histories are series of runs on a repository that changes between them, with what earlier
runs have saved.

What is hard, and what makes each component correct:

* **Graph.** Two adjacency maps, a table and a set of marks are kept consistent by hand, for paths
  in several spellings and includes in any order. Correct: it is the set of includes, and an include
  is conditional exactly when it was never seen unconditional.
* **Algorithms.** Recursions were replaced by explicit stacks. Correct: the result is the textbook
  one, whatever the order of lists and hash sets; the walks end; the stacks stay bounded.
* **Graph diff.** Components have no identity across revisions and are matched by overlap. Correct:
  what the gate passes makes no cycle grow and no new one, over series of changes and moves too.
* **Git processes.** Two pipes are read one after the other; the child may block, die or fail to
  start. Correct: no partial answer is taken for a whole one, and nobody waits forever.
* **Object source.** One stream carries all answers. Correct: it never loses step, and a file is
  whole or absent.
* **Diff command.** A dozen git commands may fail, and are tolerated, or not, one by one. Correct:
  the exit code is true, errors are errors, no worktree stays behind.
* **Sources, scanner, resolver.** Text is read by three scanners, each with its own idea of a
  comment; files are classified by tables, by their content and by a vote, with process-wide state.
  Correct: what is no file of the project's own has no influence, and the two sides of a diff treat
  a file that nobody touched alike.
* **Unified diff and clones.** Two parsers guess what a line is from its first characters; the clone
  report of a diff joins their line numbers with fragments of two scans, of which one looks at some
  pairs only. Correct: no line is made up or shifted, a change of place is no copy, and looking at
  fewer pairs finds what looking at all could.
* **Check command and rules.** Rules exempt cases from each other; baselines are written and read by
  different runs and may be cut off. Correct: nothing falls between the exemptions, a baseline
  accepts what it was saved from, and a damaged one hides nothing.

## 2. Modules

```
Reachability  (closed sets, components, chains: the reference definitions)
  |-- Tarjan --- IncludeDepth --- MCIncludeDepth
  |-- GraphDiff --- RegressionReport --- PullRequest --- MCPullRequest
                           |-- GraphRules --- CheckCommand --- MCCheckCommand
IncludeGraph (abstract)  <== DependencyGraph --- MCDependencyGraph
FileSource   (abstract)  <== CatFileBatch --- MCCatFileBatch
GitExec --- MCGitExec.cfg
DiffCommand --- MCDiffCommand
SourceText, FileClassification, IncludeResolver --- SourceTree --- MCSourceTree
TokenNormalizer --- Fragmenter --- CloneIndex --- DuplicationScanner --+
                                                 UnifiedDiff ----------+-- NewClones --- MCNewClones

GraphDiff_proofs  (components, what adding or removing edges does to them, sorted lists)
  |-- IncludeDepth_proofs  (Tarjan too)
  |-- PullRequest_proofs  (DiffCommand too)
  |-- CheckCommand_proofs
DependencyGraph_proofs, CatFileBatch_proofs, SourceTree_proofs
GitOutput_proofs  (GitExec and UnifiedDiff)
```

`<==` is a refinement, `---` is EXTENDS. `GraphDiff`, `RegressionReport`, `GraphRules`, the three modules below
`SourceTree`, and `TokenNormalizer` to `CloneIndex` are pure operators; the state machines are built
on them.

| module | models | how state and actions correspond |
|---|---|---|
| `IncludeGraph` | what the graph promises | files, includes and which are unconditional, as sets |
| `DependencyGraph` | `DependencyGraph` | one variable per member; `addNode` and `addEdge` with their branches (`FindNode`/`AddNewNode`, `RepeatEdge`/`NewEdge`); `request` is the argument, so that no call can be lost |
| `Tarjan` | `computeScc` | the fields of `TarjanState`; one action per function of the loop (`open_node`, `step_into_successor`, `close_node`, `emit_component`, `sort_components`) |
| `IncludeDepth` | `computeIncludeDepths` | runs `Tarjan`, then `buildCondensation` and the stack of `resolveDepthFrom`; hash sets are visited in any order |
| `GraphDiff` | `graph/diff.cpp` | an operator per function, by path |
| `RegressionReport` | `diff/regression_report.cpp` | the report, the rename guard and the gate, an operator per function |
| `PullRequest` | series of changes under `--diff` | a developer edits and moves files, `Diff` is the gate, a passed change may be merged and becomes the baseline |
| `GitExec` | `runGit` with its child | program counter of the parent; bytes are counted; the child writes to both pipes, exits or is killed at any time |
| `FileSource` | what `FileSource::read` promises | an answer is whole, and after a failure always empty |
| `CatFileBatch` | `GitObjectFileSource` with `git cat-file --batch` | requests and answers as tokens on two pipes; header, body and trailer are read as the code reads them; the child may die |
| `DiffCommand` | `runDiff` | program counter through the steps of both modes; each git command may fail; what the revisions hold is reduced to the facts that decide the result |
| `GraphRules` | SF.9, Lakos and DRIFT rules, gate policy | an operator per rule. The search of `CycleFinder` is the first simple cycle in the order of the includes |
| `CheckCommand` | `runCheck`, `runSaveGraphBaseline` and both baseline files | the project changes, runs of every mode follow; `violationFile` and `graphFile` persist, whole, cut off or broken |
| `SourceText` | include scanner, SF.7, SF.8 | a text is a sequence of lines of lexemes, those that one of the three readers tells apart; an operator per function |
| `FileClassification` | `file_classification.h`, `authored_scope.h` | a path is a sequence of names, a file a record of what the tests look at; `registry` is the two process-wide variables |
| `IncludeResolver` | index, `resolveInclude`, `local_include_scan.cpp` | an operator per function, with the sets of candidates; ids are left out |
| `SourceTree` | both file sources, snapshot, `graph_builder.cpp`, the two sides of `--diff` | a developer writes, deletes and commits files or types a text; a run reads the baseline and then the working tree, each read sets `registry` |
| `UnifiedDiff` | both parsers of `diff_query.cpp`, and the git they listen to | an action per kind of line that git prints, which both parsers read; `place`, `oldLine`, `delsLeft`... are git's |
| `TokenNormalizer` | `lex` | a fold over the lexemes of a text |
| `Fragmenter` | `extractFragments` | bodies, runs at the ends of bodies, runs of statements |
| `CloneIndex` | `buildIndex`, the similarity measures, the clone type | document frequencies, rare symbols, winnowed fingerprints; ratios are compared as fractions |
| `DuplicationScanner` | `scanForDuplication` | `Tokenize`, `Index`, `Score`; one operator per phase, in the order of `applyCandidateFilters` |
| `NewClones` | `detectNewClones` and its caller | a developer pastes, moves, cuts, rewrites, renames; git prints the difference; parent scan, new scan, report |

Left out on purpose, in the modules above: texts of messages, output formats, the growth numbers of
the report (they inform and do not gate), the sums of `computeGraphMetrics`, and what a path is
called (the module of a path, its top directory, whether it is a header with an inline half or a
precompiled header are constants, chosen so that each case occurs).

## 3. Runs

All runs use the specifications as they are; no definition is replaced.

| run | checks | distinct states | bounds, and why they are enough |
|---|---|---|---|
| `DependencyGraph` | types, node table, mirrored adjacency, refinement of `IncludeGraph` | 17 929 | three files in four spellings each (with and without `./`, both separators), graphs of at most three edges (`FewEdges`). A fault of the tables needs two nodes and one repeated edge; files are symmetric |
| `IncludeDepth` | components, their order, depths, bounded stack, termination | 169 483 | every graph of three files with self-includes and every order of every list, and every graph of four without. Four files hold two components that are joined by two paths |
| `PullRequest` | the gate over series of changes | 434 392 | four paths in two areas, starting graphs of at most four includes, changes of two edits, any number of merges. Four files hold two cycles, or one of three and a file that joins it |
| `GitExec` | whole output, the one mutual wait, return | 1 770 | pipes and buffer of two bytes, outputs of five and three: more than a pipe, and not a multiple of the buffer |
| `CatFileBatch` | stream in step, refinement of `FileSource`, every call ends | 1 103 | three reads of an empty, a largest, an oversized and a missing blob: an error in one answer shows in the next |
| `DiffCommand` | truth of the exit code, errors, worktrees | 48 482 | none: every combination of refs, modes, facts and failures (7 680 initial states) |
| `CheckCommand` | cycle gate, both baselines, the DRIFT gate | 98 153 | three files with four includes, conditional or not, in every order, are checked, and compared with a saved graph; projects of three files with at most two includes are saved, edited once (an include added or removed, a fourth file with two includes, a text finding) and run again. After a save that was cut off a second edit may follow the removal of an include, because only two edits tell a prefix of the edges from the whole. Chains longer than two and fan-in above two count, and DRIFT.4 stops above one new edge, so that each limit is crossed |
| `SourceTree` | conditional includes, the text rules, classification, resolution, equal treatment of the two sides | 194 959 | one file of up to four lines of twelve kinds, or of nine others on which the text rules go wrong (a guard, a block, a comment that spans lines, and an include take four); trees of up to six files, most with two or three contents, that hold every class (vendored, test, generated, mirror, links, a file that is called like a build directory), edited once after a commit and compared in both modes |
| `NewClones` | line numbers of the parsers, focus, moves | 50 524 | eight pieces of code in five files, one with a blank and one with a byte outside ASCII in its name, from five trees, one or two edits; thresholds scaled so that a function of three lines is a fragment and one of six is not, and `kInsertionSort` so that a scan has more pairs as well as fewer |

Three more runs show where the code does not do what a document or comment says (section 6).

`MCCheckCommand` explores less than it could, by an action constraint: projects with conditional
includes are only checked and compared with a saved graph, and a project is edited
only after it was saved, because before that it is just another initial project. A second edit is
explored only where it can matter, after an include was removed from a project whose graph was saved
and cut off. `CheckCommand`
itself lets a run follow another only after a change or a save (`Fresh`), since a run that writes
nothing depends on the project and the files alone. Deadlock is checked, except where the modelled
program stops: `GitExec` and `CatFileBatch` end, and a `CheckCommand` history stops at its last
edit. `SourceTree` and `NewClones` end when the edits are used up.
`MCDiffCommand` and `MCIncludeDepth` say so with a stuttering step at the end.

**What the properties say.** The comment before each states it in full; the ones to read first:

* `ImplementsIncludeGraph`: the order of the files cannot change what the graph says, including the
  conditional marks. `ReverseMirrorsForward` is what makes fan-in and fan-out agree.
* `EmittedAreComponents`, `ReturnsTheComponents`, `DepthIsLongestChain`: the iterative algorithms
  compute the definitions of `Reachability`, which do not share a line with them.
* `AdditionGatesNewCycles`, `RemovalNeverGates`, `DisjointCycleGates`, `PureMoveIsNotACycle`
  and `Ratchet`: what the overlap heuristic of `grownSccs` does guarantee. It does not guarantee
  what DRIFT.2 is documented to do, neither for cycles of other files nor for includes inside an
  old cycle, see section 6.
* `ExitCodeMeansWholeOutput`, `BlockedOnlyByLongStderr`: `runGit` reads stdout to its end before it
  reads stderr. The only way this can hang is a stderr longer than a pipe, and then it does.
* `InSync`, `ImplementsFileSource`: no answer of `cat-file` is ever taken for another's.
* `ExitCodeIsTrue`: with both refs known and none of the tolerated commands failing, exit code 1 is
  a regression and 0 is none. The property names the commands whose failure can make it wrong
  (`numstat`, `ls-tree`, the rename query), which is the honest form of the promise. It also names the
  change that the list of changed files leaves out: `facts.change` is "none", "listed" or "hidden",
  and over a hidden one the fast path ends with 0 (section 6).
* `UnknownBaselineIsAnError`: a baseline that is no revision never gives a report. A ref can also be
  the name of a path, which `git diff`, called without a closing `--`, takes for one; what it then
  compares is not what `facts` describes, and `NoneListed` and `BulkCounted` leave it open.
* `PartialFileHidesNothing`: neither baseline file is checked after writing. A prefix of the violations
  only shows more. A prefix of the graph fails a run for every edge between old files that it lost and
  the project still has; it can hide something only from a change that removes such an include and adds
  a file (section 6), which is the condition of the property.
* `AcceptsItself`: a file records the sources it was saved from (`of`, a history variable), so that
  the property also covers edits that were undone.
* `CouplingIsReported`: the exemptions of DRIFT.3 and SF.9 leave no gap for two modules that begin to
  depend on each other: there is a finding about these two, DRIFT.3 with their names, or SF.9 at the
  component in which a file of the one and a file of the other include each other. SF.9 forgives
  a component for a conditional cycle through its first file here as elsewhere.
* `ConditionalIsConditional`, `Sf7ReportsGlobalUsing`, `GuardSeenByBoth`: counting and stripping line
  by line agree with what the text means. Each names the texts it excludes, and these exclusions are
  known weaknesses: a text with more `#endif` than `#if`; for SF.7 a line with two comment markers,
  continued lines, a brace that closes before the directive on its line or opens behind it, another
  `using` before it, and a name that begins with "namespace"; for SF.8 a guard with a blank behind the
  `#`. Where a directive stands is judged by the braces before it, lexeme by lexeme, and not line by line
  as the code does it. The texts have no comment markers inside ordinary string literals.
* `UnauthoredFilesHaveNoSay`: the graph is that of the tree without vendored, test and generated
  files, although they are read, and licence texts are voted on.
* `UnchangedFilesAgree`: a file that the two revisions agree about is in both graphs of a diff or in
  neither. Its exceptions are the places where this is not so: the vote turns, a disk diff reads the
  baseline of a curated library in a directory of another name, links, and a file that is called like
  a build directory (section 6).
* `FixedCaseIsSilent`: the spelling that the report of a wrong case proposes is accepted.
* `AddedLinesRead`, `DeletedLinesRead`: what each parser collects is what was added and deleted. They
  hold as long as no name is printed quoted or with a tab, and no line begins with `++` or `--`; a
  line that begins with `++` may hide others, and makes one up only if it looks like a header.
* `FocusIsExact`: what scoring only pairs in changed files finds, scoring all could find. The word is
  "could" because the order of equal scores is open (below); as long as all pairs are few there is
  only one outcome, and it is the same.
* `MoveIsNotACopy`: moved code is not reported as a new clone.

**Abstractions of the clone pipeline.** `std::hash` is a constant function, injective on the symbols
that matter in the instance; logarithms are a table of thousandths; scores are compared as
fractions, without rounding. `std::sort` compares scores alone. Up to `kInsertionSort` pairs (16 in
libstdc++, 3 in the instance) it sorts by insertion and keeps the order of the index among equals; beyond that
`phase4Sort` gives ranks of equal pairs, and `phaseOverlapDedup`, the one filter whose outcome depends on
the order, gives the set of what may be kept, from which `Score` takes one: of a rank, as many pairs as
overlap nothing that is kept, which is what going through it in any order leaves.

**Fairness.** `GitExec` and `CatFileBatch` assume weak fairness of the parent's steps and of the
child's: both are processes the operating system schedules, and a step that stays possible is
taken. Writing is not possible while a pipe is full, so the mutual wait is not hidden. That the
child ends is an assumption about git, which is external. `IncludeDepth` assumes that the one
thread of the program continues. The other specifications state safety only.

## 4. Proofs

| theorem | for every | says |
|---|---|---|
| `DependencyGraph_proofs!TypeCorrect` | set of files, number of spellings | `TypeOK` |
| `DependencyGraph_proofs!NodeTableCorrect` | same | `NodesMatchPaths` |
| `DependencyGraph_proofs!InvCorrect` | same | node table, mirrored adjacency, marks only on edges |
| `DependencyGraph_proofs!Permanence` | same | ids keep their path, an unconditional edge stays so |
| `DependencyGraph_proofs!Refinement` | same | `DependencyGraph` implements `IncludeGraph` |
| `IncludeDepth_proofs!EmittedCorrect` | graph, order of the lists | `EmittedAreComponents` |
| `IncludeDepth_proofs!ReturnsCorrect` | graph, order of the lists | `ReturnsTheComponents` |
| `IncludeDepth_proofs!StackBounded` | same, and order of the hash sets | `StackIsBounded` |
| `IncludeDepth_proofs!DepthCorrect` | same, and order of the hash sets | `DepthIsLongestChain` |
| `PullRequest_proofs!RemovalPasses` | paths, thresholds, baselines, length of the series | `RemovalNeverGates` |
| `PullRequest_proofs!AdditionIsExact` | same | `AdditionGatesNewCycles` |
| `PullRequest_proofs!DisjointCycleIsFound` | same | `DisjointCycleGates` |
| `PullRequest_proofs!PureMovePasses` | same | `PureMoveIsNotACycle` |
| `PullRequest_proofs!GateIsARatchet` | same | `Ratchet` |
| `PullRequest_proofs!ExitCodeCorrect` | revisions, modes, git commands that fail | `ExitCodeIsTrue` |
| `PullRequest_proofs!UnknownBaseline` | same | `UnknownBaselineIsAnError` |
| `PullRequest_proofs!DiskCompares` | same | `DiskComparesTheRevisions` |
| `PullRequest_proofs!WorktreesGone` | same | `WorktreesAreTemporary` |
| `CheckCommand_proofs!CycleGateHolds` | projects, issues, modules, thresholds, length of the history | `CycleGateIsTrue` |
| `CheckCommand_proofs!SavedIsAccepted` | same | `AcceptsItself` |
| `CheckCommand_proofs!PartialIsSafe` | same | `PartialFileHidesNothing` |
| `CheckCommand_proofs!DriftClosesNoCycle` | same | `DriftGateClosesNoCycle` |
| `CheckCommand_proofs!CouplingReported` | same | `CouplingIsReported` |
| `CatFileBatch_proofs!StaysInSync` | blobs, limit, pipe, number of reads | `InSync` |
| `CatFileBatch_proofs!SourceRefinement` | same | `CatFileBatch` implements `FileSource` |
| `GitOutput_proofs!TypeCorrect` | pipe, buffer, output size | `TypeOK` |
| `GitOutput_proofs!WholeOutput` | same | an exit code comes with the whole output |
| `GitOutput_proofs!Reaped` | same | no zombie, nothing left in a pipe |
| `GitOutput_proofs!MutualWait` | same | the one mutual wait |
| `SourceTree_proofs!UnauthoredHaveNoSay` | tree, configuration, tables of names | `UnauthoredFilesHaveNoSay` |
| `SourceTree_proofs!UnchangedAgree` | same, and history of edits and runs | `UnchangedFilesAgree` |
| `SourceTree_proofs!FixIsSilent` | same, and scanned directory | `FixedCaseIsSilent` |
| `SourceTree_proofs!ConditionalCorrect` | text, table of includes | `ConditionalIsConditional` |
| `GitOutput_proofs!AddedCorrect` | diff, names and texts | `AddedLinesRead` |
| `GitOutput_proofs!DeletedCorrect` | diff, names and texts | `DeletedLinesRead` |

The modules also name the invariants they rest on as theorems (`Invariance`, `DepthInvariance`, `CommandInvariance`, `TextInvariance`).

*DependencyGraph.* The invariant is `Inv`, the conjunction of the type invariant and the three
parts of `InvCorrect`; none is inductive alone: a new edge keeps the maps mirrored only if each had
no entry for it, which the test of one map shows for both only because they mirror each other.
The step is by cases on what `addNode` and `addEdge` do (`StepCases`), with one lemma for what each
changes (`AddNewNodeEffect`, `NewEdgeEffect`). The refinement maps ids to paths; `EdgeIsInclude`
and `NodeIsFile` say that a path has one id, so that the image of the new edges is the image of the
old ones and one more. Assumptions: the numbers of leading `./` are natural numbers.

*GraphDiff.* Components are defined with closed sets, without recursion: `w` is reached from `v`
when every closed set with `v` contains it. The lemmas say that this is an order (`ReachesSelf`,
`ReachesTransitive`...), that the components of a graph are disjoint, that a component is one of the
graph of its own files (`ReachesInsideScc`), how components change when edges are added, removed or
renamed, and what `grownSccs` makes of that (`BestMatch`, `NothingGrows`, `NotGrown`). `Ranks` and
`SortedIsOnto` are about sorted lists: in a finite strict order every rank is taken once. The modules
below cite them and not the definitions.

*Tarjan* (in `IncludeDepth_proofs`, as the component it is part of). `IInv` says what the recursion that the code replaced would have in its call frames.
`StackInv`, `VisitInv`, `CallInv`: both stacks lie in the order of discovery, a visited node is on the
stack or was emitted. `ReachInv`: a frame reaches all that was discovered after it and is reached
from all that was discovered before the next frame; without the second half a closed frame
could hand its lowlink to a node that is in another component. `LowInv`: a lowlink is the index of a
node on the stack that the frame reaches, and no successor passed by a node between this frame and the
next is below it. `ResultInv`: what was emitted is closed under includes. When a frame closes whose
lowlink is its own index, nothing leads from above it to the stack below it, so that the nodes above
are a component. Assumptions: `N` is a natural number, the adjacency lists are sequences of nodes.

*IncludeDepth.* `RunsTarjan` shows that every behaviour is one of `Tarjan` with stutters, so that
`ReturnsCorrect` holds here too. The condensed graph is then a strict order (`UnderIsAnOrder`).
`SettledInv` says that a settled component is one above the highest it includes. It gives the longest
chain in both directions: a chain that is longer than a depth, and a depth without a chain of its length,
have a least counterexample, which the next link contradicts. For the stack, `PushedInv` says that
there is a way to name the entry that pushed each entry, that everything above an entry that pushed is under
it, and that no component pushed another twice; so the entries map one to one to links. The invariant
has to quantify over that way since the code does not keep it. Assumptions: those of `Tarjan`.

*PullRequest.* `IInv` is small: both sides are graphs, renames lead from a file of the baseline to
one of the current side, and a verdict is that of the two graphs at hand. The weight is in lemmas
about `grownSccs`. Fewer edges give smaller components, so that removing reports nothing; the
overlap of a component with the old ones is its best old match, which exists because there are finitely
many (`BestMatch`). A component that contains all of an old one is larger unless it is the same;
one that touches none is measured against zero. Moving maps components to components of the same
size, and one that was moved in part still overlaps its old self. Assumptions: paths are finitely many
natural numbers, thresholds are natural, the baselines the series start from are graphs (`IsGraph`,
which gives the fields their types and every edge its end points among the nodes).

*DiffCommand* (in `PullRequest_proofs`, the same command around its two graphs). The four
properties speak of the end of a run; `CommandIInv` says what each step on the way owes them.
`EndInv`: a run that is over has one of the pairs of exit code and output that belong together, and one
that ended on the fast path had a `git diff` that could run and, over two revisions, listed nothing.
`KnownInv`: no step after the one that resolves the baseline is reached without one. `WorktreeInv`: a
worktree is there only between the step that adds it and the step that scans it. `BulkInv` and
`ReadInv`: what was taken for something else than it is (a bulk import for a small change, a revision for an empty
tree) was taken so because a command failed, and only in memory mode does an empty tree become a graph.
`FindingsInv`: once both trees were read the findings are those of the trees, before and after the
query for renames. There is one lemma per step of the program counter, and no assumption: the module
has no constants, and TLC visits all of its states as well. What the two exceptions (a hidden
change, a path as baseline) need is that both lie on the fast path: past it `ResolveBaseline` knows no paths, and
the findings are those of the trees, however the list of changed files came about.

*CheckCommand.* `IInv` relates what persists to what it was made from. `IsProject` holds of the project
after every edit. `ViolationFileInv` and `GraphFileInv`: a file that can be read holds the first entries
of the list that its sources give, and those are a project. `RunInv`: what the last run reported is what
the project, the issues and the files say now; this is why an edit, and a save, forget the last run.
With it every property is a statement about operators. For `AcceptsItself` the sorted lists of paths
and edges must be read back as the graph they came from (`LoadedGraph`, from `SortedNumbers`,
`SortedPairsOfNumbers` and `PositionOfNode`), and a graph must not drift from itself
(`NothingDrifts`). For `PartialFileHidesNothing` and `DriftGateClosesNoCycle`, a passed run has no new
edge between old files and no grown component (`PassedDrift`), so that the current graph, cut down to
the old files, lies inside the baseline. `CouplingIsReported` is by cases on why DRIFT.3 is silent about a new pair: only because two files
include each other across the two modules, which are then in one component, no inline split since
its halves are in one module; so SF.9 looks at that component. `CycleGateIsTrue` and
`CouplingIsReported` ask what SF.9 does with its one cycle. It is a `CHOOSE`, and that there is such a cycle has to be shown: every file of a
component is on a simple cycle in it (`CycleExists`, by walks without repetition), there are
finitely many (`CyclesFinite`), and the order in which the search comes to them is strict and total
(`FoundBeforeTotal`...), so that one is the first (`CycleFinderFinds`). Assumptions: those of
`RegressionReport`; the initial projects are well-formed (`ProjectsAssumption`: successors are
files of the project, each once, as `DependencyGraph` guarantees); there are finitely many issues; the
two halves of an inline split are in one directory, so not in two modules
(`InlineSplitsAssumption`; `isInlineSplitScc` compares the directory names).

*CatFileBatch.* `ReadInv` is the protocol: while a read is under way the request is not accepted yet,
or what was taken, what is in the pipe and what git has still to write make up the answer to `want`,
in order (`OnItsWay`), all of it as long as the child lives. With a child that died only a prefix is
left, and the reader notices. `QuietInv` says that nothing is on its way between two reads; it is
inductive only together with `ReadInv`, since it holds after a read because the read took the whole answer.
The refinement maps each step to one of `FileSource` or a stutter, with `InSync` and `ReadInv` for what
an answer contains. Assumptions: sizes, limit, capacity and number of reads are natural numbers, and
a pipe holds a token.

*SourceTree.* The three properties of a project rest on the classification, the listings and the index;
what the scanner reads in a text (`scanIncludes`, `applyResolved`) is left unexpanded in their proofs, so
that they hold whatever it reads. `RunInv` says with which registry each side of a diff was read: the name of the
directory is set by each source that is opened, and `OpenedAgain` shows that nothing of the one before
is left. A vote among the files that are the project's own is the vote among all (`VoteOfOwn`), and a
graph is a function of the authored files (`GraphOfAuthored`). In the disk mode the two registries differ
in one name; whatever is vendored in the repository is so in the worktree (`VendoredInWorktree`), the
converse is the exception that the property names. The proof showed one more exception, a
file that is called like a build directory: the step that both sources list a file (`ListedByBoth`)
fails for it, which the instance could not show as it had no such file; now it has one.
Assumptions: paths are non-empty sequences of names (`PathsAssumption`, `SortedPathsAssumption`), and a
temporary worktree is not called like a curated library (`WorktreeAssumption`, from the template
`archcheck-worktree-XXXXXX`).

The property of a text, `ConditionalIsConditional`, is about the loop of `scanIncludes`, which counts
`#if` and `#endif` in one integer. The counts are those of a stack (`LinesAreAStack`), from which the guard
is missing: its `#ifndef` is skipped, but its `#endif` is not recognised and closes whatever the integer
stands for, or nothing at 0. `DepthIsHeight` is the invariant of the loop: the depth is the height of the
stack, less one as long as the guard has not been closed. That rests on the guard being the
first construct of all (`GuardIsFirst`). An include of positive depth then stands in the construct of the line
at which the stack last rose to that height (`LastRise`), and that line is not the guard. How the readers
blank out comments is not used: the theorem is about the lines that are left. Assumption: what is written
and typed is text (`TextAssumption`).

*GitExec* (in `GitOutput_proofs`). `RunIInv` adds to the type invariant that bytes are conserved (what the child wrote is in
the pipe or was collected), where the child can be at each step of the parent, and that a pipe once
read to its end stays empty. Without conservation an exit code says nothing about the output.
Assumptions: the sizes are natural numbers, pipes and buffers hold a byte, exit codes are natural.

*UnifiedDiff* (in `GitOutput_proofs`). `DiffIInv` says where each parser is while git prints: in the file git prints if its name
is plain (for deleted lines only after the line `---`), and at git's next line while lines of the
hunk are left on its side; or, after a line that begins with `++` and is no header, at no line until
the next hunk. `HunkInv` is needed because lines are left only of a side that there is. One lemma
per parser says what a line of each kind does to it (`AddedReads`, `DeletedReads`), one per
invariant has a case for each kind. The theorems are about `DiffSpec`, in which git prints any
sequence of lines it could; `NewClones` runs the same actions on the diff of two trees. Assumption:
the empty string and `/dev/null` are no files (`NamesAssumption`).

Only model-checked:

* Liveness, which this prover does not reach: `Terminates` of the depths, `ReturnsUnlessStderrIsLong`
  of `runGit`, `CallsEnd` of the reads. `SourceRefinement` needs no fairness.
* `Sf7ReportsGlobalUsing` and `GuardSeenByBoth` of `SourceTree`, and both properties of `NewClones`.
  They compare what two readers of one text make of it, or what two scans make of one list of pairs, each
  with folds, and what a fold computes for every text is an induction over data, whose theorems in the
  library take an operator and cannot be used here. Where an induction over numbers was needed, the
  proofs take a least counterexample.

## 5. Not modelled

* **Paths outside ASCII in `ls-tree`**, and what a string literal does to the three text scanners.
* **Parts of clone detection**: the other metrics and filters, which only the evaluation on a corpus
  turns on, counters and timing.
* **A repository that moves during a run.** Each git command resolves its ref again and the
  working tree is read several times; `DiffCommand` fixes both. Planned.
* **The other advisories** (complexity, bodies, history, flags, debt markers): text heuristics and
  statistics without state, which never change an exit code. They read what `NewClones` models: the
  snapshot and the added lines.
* **The YAML library.** A graph baseline that breaks off inside an entry is taken to be refused by
  it; so is one that ends before its first edge, which the code itself refuses.
* **Configuration, command line, reports, previews**: parsing and printing without state.

## 6. Where code and documents disagree

* `CheckCommandHardCycle`: SF.9 decides on the first cycle through the least file of a component
  whether the whole component is exempt as conditional (`sf9_no_cycles.cpp:137`). A cycle of
  unconditional includes in the same component passes; `docs/openwiki/index.md:81` exempts
  "all-conditional cycles" only. Three files are enough: 1 and 2 include each other conditionally,
  2 and 3 unconditionally.
* `DiffCommandUnknownCurrent`: in memory mode a current ref that does not exist gives exit code 0
  and an empty report (`diff_command.cpp:113`), against the comment at 404-405 and the roadmap.
* `PullRequestNewCycle`: a change that opens a cycle and closes a new one of the same size with one
  of its files passes (`graph/diff.cpp:159`), against `docs/architecture-spec.md:402`.

Without a run of their own; the property named has the case as an exception, and fails on the
instance without it:

* `AdditionGatesNewCycles`: an include added between the files of an old cycle passes, since only
  numbers of files are compared (`graph/diff.cpp:159`); `docs/architecture-spec.md:402-403` has the
  rule fire also when "an existing SCC grew by the number of nodes / edges". The self-loop the same
  sentence names does not occur: an include of the file itself is not resolved
  (`include_resolver.cpp:157-167`).
* `UnknownBaselineIsAnError`: a baseline ref that is no revision but the name of a file or directory
  (`--diff src`) is a path to `git diff`, which is called without `--` (`git_state.cpp:148`). With
  no changed C++ file under it the run ends with 0, against `docs/ci_integration.md:182`.
* `ExitCodeIsTrue`: the list of changed files lacks files that became or were symbolic links
  (`git_state.cpp:148`, `:164`: no T in the filter), new files that git ignores but the disk source
  reads (`:153`) and names that git prints in quotes (`:187`). If nothing else changed, the fast path says
  "no C/C++ files changed" and ends with 0, whatever the gate would say; `diff_command.cpp:51-52` says
  that the "graph cannot have changed".
* `Sf7ReportsGlobalUsing`: SF.7 counts the braces of a line as a whole
  (`sf7_using_namespace.cpp:63-71`) and looks at its first `using` only (`:21-28`). It misses
  `} using namespace x;`, `using namespace x; struct S {` and `using a::b; using namespace x;` at global
  scope, which `docs/openwiki/index.md:82` is about, and reports `using namespacex::y;`.
* `GuardSeenByBoth`: SF.8 looks for the text `#ifndef` (`sf8_include_guard.cpp:34`, `:128-135`), so a
  guard written `# ifndef G`, `# define G` is reported as missing, while the include scanner knows
  it (`include_scanner.cpp:145-155`); `docs/openwiki/index.md:83` and `README.md:40` promise otherwise.
* `FocusIsExact`: with many pairs, leaving out those out of focus can change which of two equally
  similar pairs that overlap is kept, and so the lines that are reported
  (`duplication_scanner.cpp:94`), against "without changing the result" (`duplication_scanner.h:70`):
  the property asks only for one of the outcomes, and the instance has scans with several. Two
  copies of a function with 72 calls beside two of another show it in the compiled scanner.
* `UnchangedFilesAgree`: `file_classification.h:65-67` says that the exclusion set "cannot drift between
  the two backends". It does for a file whose own name begins like that of a build directory, such as
  `cmake-build-info.h`: a git tree is listed without it, since every name in a path is tested
  (`git_object_file_source.cpp:147`), and on disk only directories are (`project_files.cpp:47`). In a
  memory diff of the working tree such a file is new whenever the graphs are built.

Behaviour that no document contradicts, and that a reader may not expect: a graph baseline that was
cut off by a full disk can pass a change that the whole one fails, when the change removes an
include that the file lost and adds a file (the lost include is then not there to make a circle of
modules with an include of the new file, for DRIFT.4, and an old cycle that needed it is not there to be
compared with a new one, for DRIFT.2); the rename guard forgives
any cycle among moved files, even one that they did not form before (`regression_report.cpp:276`);
a god-header that is merely moved is new; a mere reformat can lift an old pair of clones over the
threshold that counts lines, and it is reported as new; code that is pasted while its original is
edited counts as moved; an include that two files match under a common suffix is no edge at all; an
indented `#endif` does not close a block under `#if 0` for the clone lexer.

## 7. Plan

Written, in this order: graph, algorithms, graph diff and `PullRequest`, git processes and object
source, `DiffCommand`, rules and `CheckCommand`, the text layer up to `SourceTree`, the unified diff
and clones up to `NewClones`, the proofs of section 4.

Next modules:

1. `MovingRepository`: refs and a working tree that change between the commands of one run.
2. Function bodies, debt markers and test co-evolution, on the tokens of `TokenNormalizer` and the
   added lines of `UnifiedDiff`.

Next proofs:

1. `DuplicationScanner`: `FocusIsExact`. Each filter compares a pair only with pairs of the same two files,
   which are in focus together; missing is that the ranks are in a strict order, for which the sums and the
   table of logarithms in `CloneIndex` need a type, and a last filter that is written without a fold.
2. `MovingRepository`, with its module.
