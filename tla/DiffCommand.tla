---------------------------- MODULE DiffCommand ----------------------------
(***************************************************************************)
(* cli::runDiff (src/src/cli/diff_command.cpp): one run of                  *)
(* `archcheck --diff base..current`, from the revspec to the exit code.     *)
(*                                                                         *)
(* Every git command is a process of its own that succeeds only if it can:  *)
(* a ref it is given must mean something to it, and even then it may fail   *)
(* (a lock, a missing object, no more processes); what the callers make of  *)
(* a failure differs from call to call.  What the two revisions contain is  *)
(* reduced to the facts that decide the outcome (`facts`, fixed at first); *)
(* PullRequest.tla models how a report follows from two graphs.             *)
(***************************************************************************)
EXTENDS Naturals, FiniteSets

VARIABLES
    mode,               \* "memory" or "disk"
    baseRef, currentRef,\* "revision", "path", "unknown" or "WORKTREE"
    facts,              \* what the revisions hold, see Facts
    pc,                 \* the next step
    bulk,               \* complexitySkippedAddedLines > 0
    baseSnapshot,       \* Null, or the tree the memory snapshot was read from
    currentSnapshot,
    baseGraph,          \* the tree the graph was built from: Null, Empty, Tree
    currentGraph,
    grown,              \* report.grownCycles: "none", "renames" or "genuine"
    godHeaders,         \* report.newGodHeaders is not empty
    worktrees,          \* the temporary worktrees on disk
    failed,             \* the kinds of git command that failed though they could run
    printed,            \* what went to stdout: "nothing", "no changes", "report"
    exitCode            \* 0, 1, 2, or Running

refs == <<mode, baseRef, currentRef, facts>>
sides == <<baseSnapshot, currentSnapshot, baseGraph, currentGraph>>
findings == <<grown, godHeaders>>
commandVars == <<refs, pc, bulk, sides, findings, worktrees, failed, printed, exitCode>>

Null == "null"          \* nothing was read
Empty == "empty"        \* a tree without files was read in place of the revision
Tree == "tree"          \* the tree of the revision was read
Running == 3

\* What a ref names: a commit, only a file or directory of the tree, nothing,
\* or the working tree.
Refs == {"revision", "path", "unknown", "WORKTREE"}

\* change: whether C++ files differ, and whether changedCppFiles lists one that
\* does.  A change is "hidden" from it if the file is now a symbolic link or
\* was one (--diff-filter has no T), is new and ignored by git (the disk source
\* reads it), or has a name that git prints in quotes.
\* grown: the cycles that grew from the one revision to the other, "renames"
\* if they consist of renamed files only.  legacy: the current revision on
\* its own, compared with nothing, has a cycle or a god-header.
Facts ==
    {f \in [revspec : BOOLEAN, repository : BOOLEAN, config : BOOLEAN,
            change : {"none", "listed", "hidden"}, bulk : BOOLEAN,
            grown : {"none", "renames", "genuine"}, godHeaders : BOOLEAN,
            legacy : BOOLEAN] :
        /\ f.grown # "none" \/ f.godHeaders => f.legacy /\ f.change # "none"
        /\ f.bulk => f.change # "none"}

CommandInit ==
    /\ mode \in {"memory", "disk"}
    /\ baseRef \in Refs /\ currentRef \in Refs
    /\ facts \in Facts
    /\ pc = "parse"
    /\ bulk = FALSE
    /\ baseSnapshot = Null /\ currentSnapshot = Null
    /\ baseGraph = Null /\ currentGraph = Null
    /\ grown = "none" /\ godHeaders = FALSE
    /\ worktrees = {} /\ failed = {}
    /\ printed = "nothing" /\ exitCode = Running

\* A git command that can succeed may fail; one that cannot succeed fails.
Git(kind, possible, ok) ==
    /\ ok => possible
    /\ failed' = IF possible /\ ~ok THEN failed \cup {kind} ELSE failed

\* "WORKTREE" is archcheck's name for the working tree, which git commands are
\* not given for the current side and do not know on the baseline side.
BothKnown == baseRef = "revision" /\ currentRef \in {"revision", "WORKTREE"}

\* Every `git diff` is given the refs without a closing "--", and takes one that
\* names a path as a path to compare; a revision must not follow a path.
DiffRuns ==
    \/ baseRef = "revision" /\ currentRef # "unknown"
    \/ baseRef = "path" /\ currentRef \in {"path", "WORKTREE"}

\* What it then compares is the index or the baseline with the working tree, of
\* which the facts say nothing.
NoneListed == IF BothKnown THEN {facts.change # "listed"} ELSE BOOLEAN
BulkCounted == IF BothKnown THEN {facts.bulk} ELSE BOOLEAN

Stop(code, text) == pc' = "done" /\ exitCode' = code /\ printed' = text
Goto(next) == pc' = next /\ UNCHANGED <<exitCode, printed>>

\* parseRevspec and findRepoRoot.
ParseAndLocate ==
    /\ pc = "parse"
    /\ \E ok \in BOOLEAN :
         /\ Git("rev-parse", facts.revspec /\ facts.repository, ok)
         /\ IF ok THEN Goto("fast path") ELSE Stop(2, "nothing")
    /\ UNCHANGED <<refs, bulk, sides, findings, worktrees>>

\* Mutant: a git that failed is taken for one that found no changed files.
FastPathTrusting ==
    /\ pc = "fast path"
    /\ \E ok \in BOOLEAN :
         /\ Git("changed files", DiffRuns, ok)
         /\ IF ~ok \/ facts.change # "listed" THEN Stop(0, "no changes") ELSE Goto("config")
    /\ UNCHANGED <<refs, bulk, sides, findings, worktrees>>

\* tryFastPathNoCppChanges.  If git cannot tell, the full path is taken.
FastPath ==
    /\ pc = "fast path"
    /\ \E ok \in BOOLEAN, empty \in NoneListed :
         /\ Git("changed files", DiffRuns, ok)
         /\ IF ok /\ empty THEN Stop(0, "no changes") ELSE Goto("config")
    /\ UNCHANGED <<refs, bulk, sides, findings, worktrees>>

\* loadDiffThresholds
LoadThresholds ==
    /\ pc = "config"
    /\ IF facts.config THEN Goto("baseline") ELSE Stop(2, "nothing")
    /\ UNCHANGED <<refs, bulk, sides, findings, worktrees, failed>>

\* Mutant: the baseline is not checked.
ResolveBaselineNot ==
    /\ pc = "baseline"
    /\ Goto("lines")
    /\ UNCHANGED <<refs, bulk, sides, findings, worktrees, failed>>

\* baselineResolves
ResolveBaseline ==
    /\ pc = "baseline"
    /\ IF baseRef = "WORKTREE"
       THEN Goto("lines") /\ UNCHANGED failed
       ELSE \E ok \in BOOLEAN :
              /\ Git("rev-parse", baseRef = "revision", ok)
              /\ IF ok THEN Goto("lines") ELSE Stop(2, "nothing")
    /\ UNCHANGED <<refs, bulk, sides, findings, worktrees>>

\* collectDiffAdvisories up to the gate for bulk imports: the added lines are
\* counted from git diff --numstat, which counts none if it fails.
CountAddedLines ==
    /\ pc = "lines"
    /\ \E ok \in BOOLEAN, counted \in BulkCounted :
         /\ Git("numstat", DiffRuns, ok)
         /\ bulk' = (ok /\ counted)
    /\ Goto(IF bulk' THEN "emit" ELSE "snapshots")
    /\ UNCHANGED <<refs, sides, findings, worktrees>>

\* readRefSnapshotMemory: Null only if the cat-file child could not be made.
\* Its list() is empty if git ls-tree fails, and then so is the snapshot.
Snapshots(ref) ==
    IF ref = "WORKTREE" THEN {Tree}
    ELSE IF ref = "revision" THEN {Null, Empty, Tree} ELSE {Null, Empty}
Lost(ref, snapshot) ==
    CASE snapshot = Null -> {"cat-file"}
      [] snapshot = Empty /\ ref = "revision" -> {"ls-tree"}
      [] OTHER -> {}

\* collectSnapshotAdvisories: without both snapshots it keeps neither.
ReadSnapshots ==
    /\ pc = "snapshots"
    /\ \E base \in Snapshots(baseRef), current \in Snapshots(currentRef) :
         /\ failed' = failed \cup Lost(baseRef, base) \cup Lost(currentRef, current)
         /\ IF Null \in {base, current}
            THEN UNCHANGED <<baseSnapshot, currentSnapshot>>
            ELSE baseSnapshot' = base /\ currentSnapshot' = current
    /\ Goto(IF mode = "memory" THEN "memory graphs" ELSE "baseline worktree")
    /\ UNCHANGED <<refs, bulk, baseGraph, currentGraph, findings, worktrees>>

\* buildDiffGraph in memory mode
BuildFromSnapshots ==
    /\ pc = "memory graphs"
    /\ IF Null \in {baseSnapshot, currentSnapshot}
       THEN Stop(2, "nothing") /\ UNCHANGED <<baseGraph, currentGraph>>
       ELSE Goto("report") /\ baseGraph' = baseSnapshot /\ currentGraph' = currentSnapshot
    /\ UNCHANGED <<refs, bulk, baseSnapshot, currentSnapshot, findings, worktrees, failed>>

\* buildDiffGraph in disk mode: buildSideDisk for the one side, then for the
\* other, and only then the check of both.  The working tree is used where it
\* is; a revision gets a worktree.
AddWorktree(role, ref, next) ==
    \/ /\ ref = "WORKTREE"
       /\ Goto(next)
       /\ UNCHANGED <<worktrees, failed>>
    \/ /\ ref # "WORKTREE"
       /\ \E ok \in BOOLEAN :
            /\ Git("worktree add", ref = "revision", ok)
            /\ worktrees' = IF ok THEN worktrees \cup {role} ELSE worktrees
       /\ Goto(next)

AddBaselineWorktree ==
    /\ pc = "baseline worktree"
    /\ AddWorktree("baseline", baseRef, "baseline graph")
    /\ UNCHANGED <<refs, bulk, sides, findings>>

AddCurrentWorktree ==
    /\ pc = "current worktree"
    /\ AddWorktree("current", currentRef, "current graph")
    /\ UNCHANGED <<refs, bulk, sides, findings>>

\* Mutant: a worktree that was not made is scanned as an empty directory.
ScanAnyway(role, ref) == IF ref = "WORKTREE" \/ role \in worktrees THEN Tree ELSE Empty

\* buildGraphForPath, and the destructor of the Worktree: whether or not git
\* worktree remove succeeds, the directory is removed.
Scan(role, ref) == IF ref = "WORKTREE" \/ role \in worktrees THEN Tree ELSE Null

BuildBaselineGraph ==
    /\ pc = "baseline graph"
    /\ baseGraph' = Scan("baseline", baseRef)
    /\ worktrees' = worktrees \ {"baseline"}
    /\ Goto("current worktree")
    /\ UNCHANGED <<refs, bulk, baseSnapshot, currentSnapshot, currentGraph, findings, failed>>

\* Mutant: the error path keeps the worktree.
BuildCurrentGraphLeaking ==
    /\ pc = "current graph"
    /\ currentGraph' = Scan("current", currentRef)
    /\ IF Null \in {baseGraph, currentGraph'}
       THEN Stop(2, "nothing") /\ UNCHANGED worktrees
       ELSE Goto("report") /\ worktrees' = worktrees \ {"current"}
    /\ UNCHANGED <<refs, bulk, baseSnapshot, currentSnapshot, baseGraph, findings, failed>>

BuildCurrentGraph ==
    /\ pc = "current graph"
    /\ currentGraph' = Scan("current", currentRef)
    /\ worktrees' = worktrees \ {"current"}
    /\ IF Null \in {baseGraph, currentGraph'} THEN Stop(2, "nothing") ELSE Goto("report")
    /\ UNCHANGED <<refs, bulk, baseSnapshot, currentSnapshot, baseGraph, findings, failed>>

\* buildRegressionReport of the trees that were read: an empty current tree has
\* nothing to report; against an empty baseline all that is there is new.
BuildReport ==
    /\ pc = "report"
    /\ CASE currentGraph = Empty -> grown' = "none" /\ godHeaders' = FALSE
         [] currentGraph = Tree /\ baseGraph = Tree ->
                grown' = facts.grown /\ godHeaders' = facts.godHeaders
         [] currentGraph = Tree /\ baseGraph = Empty ->
                IF facts.legacy
                THEN \/ grown' = "genuine" /\ godHeaders' \in BOOLEAN
                     \/ grown' = "none" /\ godHeaders' = TRUE
                ELSE grown' = "none" /\ godHeaders' = FALSE
    /\ Goto("renames")
    /\ UNCHANGED <<refs, bulk, sides, worktrees, failed>>

\* applyRenameArtifactGuard: git is only asked if a cycle has grown, and then
\* the current ref is no path.
GuardRenames ==
    /\ pc = "renames"
    /\ IF grown = "none"
       THEN UNCHANGED <<grown, failed>>
       ELSE \E ok \in BOOLEAN :
              /\ Git("renames", DiffRuns, ok)
              /\ grown' = IF ok /\ grown = "renames" THEN "none" ELSE grown
    /\ Goto("emit")
    /\ UNCHANGED <<refs, bulk, sides, godHeaders, worktrees>>

gateFails == grown # "none" \/ godHeaders
Emit ==
    /\ pc = "emit"
    /\ Stop(IF gateFails THEN 1 ELSE 0, "report")
    /\ UNCHANGED <<refs, bulk, sides, findings, worktrees, failed>>

CommandNext ==
    \/ ParseAndLocate \/ FastPath \/ LoadThresholds \/ ResolveBaseline
    \/ CountAddedLines \/ ReadSnapshots \/ BuildFromSnapshots
    \/ AddBaselineWorktree \/ BuildBaselineGraph
    \/ AddCurrentWorktree \/ BuildCurrentGraph
    \/ BuildReport \/ GuardRenames \/ Emit

CommandSpec == CommandInit /\ [][CommandNext]_commandVars
-----------------------------------------------------------------------------
(* Properties *)

\* What the gate is to say of the two revisions.
RealGate == facts.grown = "genuine" \/ facts.godHeaders

\* The exit code tells the truth about the two revisions: where both are
\* known, the change is not a bulk import and no git command whose failure is
\* tolerated has failed, 1 means that the gate fails, and 0 that it does not.
\* Failures of "changed files" and "cat-file" cannot make the answer wrong.
\* The one exception is a run that ends with "no C/C++ files changed" over a
\* change that git's list leaves out, whatever the gate would say of it; the
\* comment on tryFastPathNoCppChanges, "graph cannot have changed", overlooks it.
Tolerated == {"numstat", "ls-tree", "renames"}
Reliable == BothKnown /\ failed \cap Tolerated = {}
ExitCodeIsTrue ==
    exitCode \in {0, 1} /\ Reliable
        => \/ exitCode = IF RealGate /\ ~facts.bulk THEN 1 ELSE 0
           \/ printed = "no changes" /\ facts.change = "hidden"

\* docs/ci_integration.md: an unknown baseline is "never a silent empty-tree
\* compare or phantom 'everything added' gate": there is no report of one, in
\* either mode and whatever fails on the way, and the exit code is 2.  The one
\* exception, which the document does not make, is a name that is a path: it may
\* end the run before the baseline is resolved, but with no report either.
UnknownBaselineIsAnError ==
    baseRef \in {"unknown", "path"} /\ pc = "done" =>
        \/ exitCode = 2
        \/ baseRef = "path" /\ printed = "no changes"

\* In disk mode both graphs are of the revisions that were asked for whenever
\* there is a report that is not of a bulk import.
DiskComparesTheRevisions ==
    mode = "disk" /\ printed = "report" /\ ~bulk => baseGraph = Tree /\ currentGraph = Tree

\* There is never more than one temporary worktree, and none is left when the
\* run ends, on error paths too.
WorktreesAreTemporary ==
    /\ Cardinality(worktrees) <= 1
    /\ pc = "done" => worktrees = {}

-----------------------------------------------------------------------------
(* What the comments say and the code does not do. *)

\* diff_command.cpp on buildDiffGraph: in memory mode "a null snapshot means an
\* unresolvable ref => ok=false => exit 2".  An unknown current ref must not end
\* with a verdict, at least when no git command fails that could succeed.
UnknownCurrentIsAnError ==
    currentRef = "unknown" /\ failed = {} /\ pc = "done" => exitCode = 2
=============================================================================
