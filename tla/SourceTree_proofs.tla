-------------------------- MODULE SourceTree_proofs --------------------------
(***************************************************************************)
(* Proofs about SourceTree: what the classification, the two file sources   *)
(* and the resolver promise for every repository, every registry and every  *)
(* table of names, and which includes of a text the scanner calls           *)
(* conditional, for every text.                                             *)
(***************************************************************************)
EXTENDS SourceTree, SequenceTheorems, FiniteSetTheorems, WellFoundedInduction, TLAPS

-----------------------------------------------------------------------------
(* The vote on the licence text.                                            *)

Own(reg, read) == {p \in DOMAIN read : ~notOwn(reg, p, read[p])}
OwnRead(reg, read) == [p \in Own(reg, read) |-> read[p]]

\* The files that are not the project's own have no vote ...
LEMMA VoteOfOwn ==
    ASSUME NEW reg, NEW read
    PROVE  fromFiles(reg, OwnRead(reg, read)) = fromFiles(reg, read)
<1> DEFINE own == Own(reg, read)
           ownRead == OwnRead(reg, read)
<1>1. DOMAIN ownRead = own /\ \A p \in own : ownRead[p] = read[p]
  BY DEF OwnRead
<1>2. {p \in DOMAIN ownRead : ~notOwn(reg, p, ownRead[p])} = own
  BY <1>1 DEF Own
<1>3. {p \in own : hasVendorLicenseHeader(ownRead[p])} = {p \in own : hasVendorLicenseHeader(read[p])}
  BY <1>1
<1> QED
  BY <1>2, <1>3 DEF fromFiles, Own

\* ... and are not authored, so that the snapshot without them has the same
\* authored files.
LEMMA AuthoredOfOwn ==
    ASSUME NEW reg, NEW read
    PROVE  /\ authoredPaths(reg, OwnRead(reg, read)) = authoredPaths(reg, read)
           /\ authoredPaths(reg, read) \subseteq Own(reg, read)
<1>1. \A p \in Own(reg, read) : OwnRead(reg, read)[p] = read[p]
  BY DEF OwnRead
<1>2. DOMAIN OwnRead(reg, read) = Own(reg, read)
  BY DEF OwnRead
<1>3. authoredPaths(reg, read) \subseteq Own(reg, read)
  BY DEF authoredPaths, excluded, Own
<1> QED
  BY <1>1, <1>2, <1>3, VoteOfOwn DEF authoredPaths, excluded, Own

\* The graph is a function of the authored files and their texts.
LEMMA GraphOfAuthored ==
    ASSUME NEW reg1, NEW read1, NEW reg2, NEW read2,
           authoredPaths(reg1, read1) = authoredPaths(reg2, read2),
           \A p \in authoredPaths(reg1, read1) : read1[p] = read2[p]
    PROVE  buildGraphForSnapshot(reg1, read1) = buildGraphForSnapshot(reg2, read2)
<1> DEFINE authored == authoredPaths(reg1, read1)
           Edges(read) == {applyResolved(p, authored, read[p]) : p \in authored}
<1>1. Edges(read1) = Edges(read2)
  OBVIOUS
<1> HIDE DEF Edges
<1>2. buildGraphForSnapshot(reg1, read1)
        = [nodes |-> authored,
           included |-> {e.edge : e \in UNION Edges(read1)},
           unconditional |-> {e.edge : e \in {x \in UNION Edges(read1) : ~x.conditional}}]
  BY DEF buildGraphForSnapshot, Edges
<1>3. buildGraphForSnapshot(reg2, read2)
        = [nodes |-> authored,
           included |-> {e.edge : e \in UNION Edges(read2)},
           unconditional |-> {e.edge : e \in {x \in UNION Edges(read2) : ~x.conditional}}]
  BY DEF buildGraphForSnapshot, Edges
<1> QED
  BY <1>1, <1>2, <1>3

\* The graph of a snapshot is the one of its own files alone, whatever else is
\* read, votes or could be meant by an include.
LEMMA GraphOfOwn ==
    ASSUME NEW reg, NEW read
    PROVE  buildGraphForSnapshot(reg, OwnRead(reg, read)) = buildGraphForSnapshot(reg, read)
<1>1. authoredPaths(reg, OwnRead(reg, read)) = authoredPaths(reg, read)
  BY AuthoredOfOwn
<1>2. authoredPaths(reg, read) \subseteq Own(reg, read)
  BY AuthoredOfOwn
<1>3. \A p \in authoredPaths(reg, read) : OwnRead(reg, read)[p] = read[p]
  BY <1>2 DEF OwnRead
<1> QED
  BY <1>1, <1>3, GraphOfAuthored

\* Vendored files, tests and generated files have no say in the graph, for
\* every tree, every table of names and every registry.
THEOREM UnauthoredHaveNoSay == Spec => []UnauthoredFilesHaveNoSay
<1>1. UnauthoredFilesHaveNoSay
  BY GraphOfOwn DEF UnauthoredFilesHaveNoSay, OwnRead, Own
<1> QED
  BY <1>1, PTL

-----------------------------------------------------------------------------
(* The registry.                                                            *)

BaselineDir == IF mode = "memory" THEN RepoName ELSE WorktreeName

\* What a run has read, and with which registry it did: the name of the
\* directory is set anew by each source, so that none is left over from the
\* source before.
RunInv ==
    /\ pc \in {"edit", "baseline", "current", "report"}
    /\ mode \in {"memory", "disk"}
    /\ pc \in {"edit", "baseline"} => registry = applyClassificationConfig
    /\ pc \in {"current", "report"} =>
          base = buildGraphForSnapshot(openedAt(applyClassificationConfig, BaselineDir), BaselineRead)
    /\ pc = "current" => registry = openedAt(applyClassificationConfig, BaselineDir)
    /\ pc = "report" => /\ registry = OwnRegistry
                        /\ current = buildGraphForSnapshot(OwnRegistry, DiskRead(tree))

\* Files have the paths they may be written under.
PathsInv == DOMAIN tree \subseteq DOMAIN Contents /\ DOMAIN commit \subseteq DOMAIN Contents

IInv == PathsInv /\ RunInv

\* The last source that was opened decides.
LEMMA OpenedAgain ==
    ASSUME NEW name1, NEW name2
    PROVE  openedAt(openedAt(applyClassificationConfig, name1), name2)
             = openedAt(applyClassificationConfig, name2)
BY DEF openedAt, applyClassificationConfig

LEMMA InitIInv == Init => IInv
<1> SUFFICES ASSUME Init PROVE IInv
  OBVIOUS
<1>1. DOMAIN tree \subseteq DOMAIN Contents
  BY PathsAssumption DEF Init, NoFiles
<1>2. DOMAIN commit \subseteq DOMAIN Contents
  BY DEF Init, NoFiles
<1> QED
  BY <1>1, <1>2 DEF Init, IInv, PathsInv, RunInv

\* The developer works between the runs, a run touches no file.
LEMMA PathsStep == IInv /\ [Next]_vars => PathsInv'
<1> SUFFICES ASSUME IInv, [Next]_vars PROVE PathsInv'
  OBVIOUS
<1> USE DEF IInv, PathsInv
<1>1. ASSUME NEW p \in DOMAIN Contents, NEW file \in Contents[p], Write(p, file) PROVE PathsInv'
  BY <1>1 DEF Write
<1>2. ASSUME NEW p \in DOMAIN tree, Delete(p) PROVE PathsInv'
  BY <1>2 DEF Delete
<1>3. CASE Commit
  BY <1>3 DEF Commit
<1>4. ASSUME NEW lines \in Lines, NEW line \in lines, Type(lines, line) PROVE PathsInv'
  <2>1. DOMAIN tree' = DOMAIN tree /\ commit' = commit
    BY <1>4 DEF Type
  <2> QED
    BY <2>1
<1>5. CASE UNCHANGED files
  BY <1>5 DEF files
<1> QED
  BY <1>1, <1>2, <1>3, <1>4, <1>5 DEF Next, Start, ReadBaseline, ReadCurrent, End, vars, files

LEMMA RunStep == IInv /\ [Next]_vars => RunInv'
<1> SUFFICES ASSUME IInv, [Next]_vars PROVE RunInv'
  OBVIOUS
<1> USE DEF IInv, RunInv
<1>1. ASSUME pc = "edit", pc' = "edit", mode' = mode, registry' = registry PROVE RunInv'
  BY <1>1
<1>2. ASSUME NEW p, NEW file, Write(p, file) PROVE RunInv'
  BY <1>1, <1>2 DEF Write, Editing, run
<1>3. ASSUME NEW p, Delete(p) PROVE RunInv'
  BY <1>1, <1>3 DEF Delete, Editing, run
<1>4. CASE Commit
  BY <1>1, <1>4 DEF Commit, run
<1>5. ASSUME NEW lines, NEW line, Type(lines, line) PROVE RunInv'
  BY <1>1, <1>5 DEF Type, run
<1>6. ASSUME NEW m \in {"memory", "disk"}, Start(m) PROVE RunInv'
  BY <1>6 DEF Start
<1>7. CASE ReadBaseline
  <2>1. BaselineRead' = BaselineRead /\ BaselineDir' = BaselineDir
    BY <1>7 DEF ReadBaseline, files, BaselineRead, BaselineDir
  <2>2. registry' = openedAt(applyClassificationConfig, BaselineDir)
    BY <1>7 DEF ReadBaseline, BaselineDir
  <2>3. base' = buildGraphForSnapshot(registry', BaselineRead)
    BY <1>7 DEF ReadBaseline
  <2>4. pc' = "current" /\ mode' = mode
    BY <1>7 DEF ReadBaseline
  <2> QED
    BY <2>1, <2>2, <2>3, <2>4
<1>8. CASE ReadCurrent
  <2>1. BaselineRead' = BaselineRead /\ BaselineDir' = BaselineDir /\ tree' = tree
    BY <1>8 DEF ReadCurrent, files, BaselineRead, BaselineDir
  <2>2. registry' = OwnRegistry
    BY <1>8, OpenedAgain DEF ReadCurrent, OwnRegistry
  <2>3. current' = buildGraphForSnapshot(registry', DiskRead(tree))
    BY <1>8 DEF ReadCurrent
  <2>4. pc = "current" /\ pc' = "report" /\ mode' = mode /\ base' = base
    BY <1>8 DEF ReadCurrent
  <2>5. OwnRegistry' = OwnRegistry /\ DiskRead(tree)' = DiskRead(tree)
    BY <2>1 DEF OwnRegistry
  <2> QED
    BY <2>1, <2>2, <2>3, <2>4, <2>5
<1>9. CASE End
  BY <1>9 DEF End
<1>10. CASE UNCHANGED vars
  <2>1. BaselineRead' = BaselineRead /\ BaselineDir' = BaselineDir
    BY <1>10 DEF vars, files, run, BaselineRead, BaselineDir
  <2> QED
    BY <1>10, <2>1 DEF vars, files, run
<1> QED
  BY <1>2, <1>3, <1>4, <1>5, <1>6, <1>7, <1>8, <1>9, <1>10 DEF Next

\* What a run reports was read with the registry of the repository or, for
\* the baseline of a disk diff, with that of its worktree.
THEOREM Invariance == Spec => []IInv
<1>1. IInv /\ [Next]_vars => IInv'
  BY PathsStep, RunStep DEF IInv
<1> QED
  BY <1>1, InitIInv, PTL DEF Spec

-----------------------------------------------------------------------------
(* The two sides of a diff.                                                 *)

\* Both sources list a file, or neither, unless its own name is one that the
\* one tests and the other does not.
LEMMA ListedByBoth ==
    ASSUME NEW t, NEW p \in DOMAIN t, p \in Seq(STRING) \ {<< >>},
           t[p].link = "none", ~isExcludedDirName(baseName(p))
    PROVE  p \in GitList(t) <=> p \in DiskList(t)
<1>1. DOMAIN p = 1 .. Len(p) /\ Len(p) \in Nat \ {0}
  OBVIOUS
<1>2. DOMAIN p = 1 .. (Len(p) - 1) \cup {Len(p)}
  BY <1>1
<1>3. pathHasExcludedSegment(p) <=> pathAnyDirSegment(p, isExcludedDirName)
  BY <1>2 DEF pathHasExcludedSegment, pathAnyDirSegment, baseName
<1> QED
  BY <1>3 DEF GitList, DiskList

\* A library that is vendored in the repository is vendored in its worktree,
\* whose name is that of no library.
LEMMA VendoredInWorktree ==
    ASSUME NEW name, isVendoredDirName(OwnRegistry, name)
    PROVE  isVendoredDirName(openedAt(applyClassificationConfig, WorktreeName), name)
<1> DEFINE wt == openedAt(applyClassificationConfig, WorktreeName)
<1>1. wt.selfProjectDir = normalizeDirSegment(WorktreeName) /\ wt.vendoredDirs = OwnRegistry.vendoredDirs
  BY DEF openedAt, applyClassificationConfig, OwnRegistry
<1>2. \A norm : isVendoredLibDirName(OwnRegistry, norm) => isVendoredLibDirName(wt, norm)
  BY <1>1, WorktreeAssumption DEF isVendoredLibDirName
<1> HIDE DEF wt
<1>3. isVendoredDirName(wt, name)
  BY <1>1, <1>2 DEF isVendoredDirName
<1> QED
  BY <1>3 DEF wt

LEMMA ExcludedInWorktree ==
    ASSUME NEW path, pathExcluded(OwnRegistry, path)
    PROVE  pathExcluded(openedAt(applyClassificationConfig, WorktreeName), path)
<1> DEFINE wt == openedAt(applyClassificationConfig, WorktreeName)
<1>1. wt.testDirs = OwnRegistry.testDirs /\ wt.generatedMarkers = OwnRegistry.generatedMarkers
  BY DEF openedAt, applyClassificationConfig, OwnRegistry
<1>2. \A name : isVendoredDirName(OwnRegistry, name) => isVendoredDirName(wt, name)
  BY VendoredInWorktree
<1> HIDE DEF wt
<1>3. \A name : isTestDirName(OwnRegistry, name) = isTestDirName(wt, name)
  BY <1>1 DEF isTestDirName
<1>4. isGeneratedPath(OwnRegistry, path) = isGeneratedPath(wt, path)
  BY <1>1 DEF isGeneratedPath
<1>5. pathExcluded(wt, path)
  BY <1>2, <1>3, <1>4 DEF pathExcluded, pathAnyDirSegment
<1> QED
  BY <1>5 DEF wt

\* Registries that exclude the same of the files read make the same of them.
LEMMA SameAuthored ==
    ASSUME NEW reg1, NEW reg2, NEW read,
           \A p \in DOMAIN read : pathExcluded(reg1, p) <=> pathExcluded(reg2, p)
    PROVE  /\ fromFiles(reg1, read) = fromFiles(reg2, read)
           /\ authoredPaths(reg1, read) = authoredPaths(reg2, read)
<1>1. \A p \in DOMAIN read : notOwn(reg1, p, read[p]) <=> notOwn(reg2, p, read[p])
  BY DEF notOwn
<1>2. {p \in DOMAIN read : ~notOwn(reg1, p, read[p])} = {p \in DOMAIN read : ~notOwn(reg2, p, read[p])}
  BY <1>1
<1>3. fromFiles(reg1, read) = fromFiles(reg2, read)
  BY <1>2 DEF fromFiles
<1> QED
  BY <1>1, <1>3 DEF authoredPaths, excluded

\* A file that is read with the same content on both sides, and with the same
\* vote on the licence text, is authored on both sides or on neither.
LEMMA SameFileAuthored ==
    ASSUME NEW reg, NEW read1, NEW read2, NEW p,
           p \in DOMAIN read1 <=> p \in DOMAIN read2,
           p \in DOMAIN read1 => read1[p] = read2[p],
           fromFiles(reg, read1) = fromFiles(reg, read2)
    PROVE  p \in authoredPaths(reg, read1) <=> p \in authoredPaths(reg, read2)
BY DEF authoredPaths

\* What the two revisions agree about is in both graphs of a diff or in
\* neither, in both modes, for every repository and every configuration.
THEOREM UnchangedAgree == Spec => []UnchangedFilesAgree
<1>1. IInv => UnchangedFilesAgree
  <2> SUFFICES ASSUME IInv, pc = "report",
                      NEW p \in DOMAIN commit, p \in DOMAIN tree, commit[p] = tree[p],
                      fromFiles(OwnRegistry, BaselineRead) = fromFiles(OwnRegistry, DiskRead(tree)),
                      mode = "disk" =>
                        \A q \in DOMAIN commit : pathExcluded(openedAt(registry, WorktreeName), q)
                                                   => pathExcluded(OwnRegistry, q),
                      commit[p].link = "none",
                      mode = "memory" => ~isExcludedDirName(baseName(p))
               PROVE  p \in base.nodes <=> p \in current.nodes
    BY DEF UnchangedFilesAgree
  <2> DEFINE dirReg == openedAt(applyClassificationConfig, BaselineDir)
             wt == openedAt(applyClassificationConfig, WorktreeName)
  <2>1. mode \in {"memory", "disk"} /\ registry = OwnRegistry /\ p \in Seq(STRING) \ {<< >>}
    BY PathsAssumption DEF IInv, RunInv, PathsInv
  <2>2. /\ base.nodes = authoredPaths(dirReg, BaselineRead)
        /\ current.nodes = authoredPaths(OwnRegistry, DiskRead(tree))
    BY DEF IInv, RunInv, buildGraphForSnapshot
  <2>3. p \in DiskList(commit) <=> p \in DiskList(tree)
    BY DEF DiskList
  <2>4. p \in DOMAIN BaselineRead <=> p \in DOMAIN DiskRead(tree)
    BY <2>1, <2>3, ListedByBoth DEF BaselineRead, GitRevision, DiskRead
  <2>5. p \in DOMAIN BaselineRead => BaselineRead[p] = DiskRead(tree)[p]
    BY <2>1, <2>4 DEF BaselineRead, GitRevision, DiskRead, GitRead
  <2>6. p \in authoredPaths(OwnRegistry, BaselineRead) <=> p \in authoredPaths(OwnRegistry, DiskRead(tree))
    BY <2>4, <2>5, SameFileAuthored
  <2>7. CASE mode = "memory"
    BY <2>2, <2>6, <2>7 DEF BaselineDir, OwnRegistry
  <2>8. CASE mode = "disk"
    <3>1. DOMAIN BaselineRead \subseteq DOMAIN commit
      BY <2>8 DEF BaselineRead, DiskRead, DiskList
    <3>2. openedAt(registry, WorktreeName) = wt
      BY <2>1, OpenedAgain DEF OwnRegistry
    <3>3. \A q \in DOMAIN BaselineRead : pathExcluded(wt, q) <=> pathExcluded(OwnRegistry, q)
      BY <2>8, <3>1, <3>2, ExcludedInWorktree
    <3>4. authoredPaths(wt, BaselineRead) = authoredPaths(OwnRegistry, BaselineRead)
      BY <3>3, SameAuthored
    <3> QED
      BY <2>2, <2>6, <2>8, <3>4 DEF BaselineDir
  <2> QED
    BY <2>1, <2>7, <2>8
<1> QED
  BY <1>1, Invariance, PTL

-----------------------------------------------------------------------------
(* The report of a wrong spelling.                                          *)

\* A set of numbers that is not empty has a least one.
LEMMA LeastNatural ==
    ASSUME NEW S \in SUBSET Nat, S # {}
    PROVE  \E m \in S : \A k \in S : m <= k
<1>1. PICK m \in S : \A k \in S : <<k, m>> \notin OpToRel(<, Nat)
  BY WFMin, NatLessThanWellFounded, Zenon
<1>2. \A k \in S : ~(k < m)
  BY <1>1, Zenon DEF OpToRel
<1>3. \A k \in S : k \in Nat
  OBVIOUS
<1> QED
  BY <1>2, <1>3

LEMMA MinIsMember ==
    ASSUME NEW S \in SUBSET Nat, S # {}
    PROVE  Min(S) \in S
BY LeastNatural DEF Min

\* The match that is reported, if there is one, is a file that is indexed.
LEMMA MatchIsAFile ==
    ASSUME NEW indexed, NEW token, ci_match(indexed, token) # << >>
    PROVE  ci_match(indexed, token) \in indexed /\ ci_match(indexed, token) \in Seq(STRING)
<1> DEFINE at == {i \in DOMAIN SortedPaths :
                    /\ SortedPaths[i] \in indexed
                    /\ LowerPath(token) \in PathSuffixes(LowerPath(SortedPaths[i]))}
<1>1. at # {} /\ ci_match(indexed, token) = SortedPaths[Min(at)]
  BY DEF ci_match
<1>2. DOMAIN SortedPaths \subseteq Nat
  BY SortedPathsAssumption
<1>3. Min(at) \in at
  BY <1>1, <1>2, MinIsMember
<1> QED
  BY <1>1, <1>3, SortedPathsAssumption

\* A path is a suffix of itself, so that the index finds it.
LEMMA FoundAsItself ==
    ASSUME NEW indexed, NEW path \in indexed, path \in Seq(STRING) \ {<< >>}
    PROVE  find_suffix(indexed, path) # {}
<1>1. 1 \in DOMAIN path /\ SubSeq(path, 1, Len(path)) = path
  OBVIOUS
<1>2. path \in PathSuffixes(path)
  BY <1>1 DEF PathSuffixes
<1> QED
  BY <1>2 DEF find_suffix

\* With the spelling that is reported, an include is not reported any more.
LEMMA FixedIsSilent ==
    ASSUME NEW d, NEW source, NEW indexed, NEW universe,
           classify(d, source, indexed, universe).kind = "CaseMismatch"
    PROVE  classify([kind |-> d.kind, token |-> classify(d, source, indexed, universe).match],
                    source, indexed, universe) = Silent
<1> DEFINE here == ci_match(indexed, d.token)
           there == ci_match(universe.files, d.token)
           match == IF here # << >> THEN here ELSE there
           fixed == [kind |-> d.kind, token |-> match]
<1>1. /\ classify(d, source, indexed, universe).match = match
      /\ match # << >>
  BY DEF classify, Silent
<1>2. match \in Seq(STRING) \ {<< >>} /\ (match \in indexed \/ match \in universe.files)
  BY <1>1, MatchIsAFile
<1>3. find_suffix(indexed, match) # {} \/ find_suffix(universe.files, match) # {}
  BY <1>2, FoundAsItself
<1> HIDE DEF match
<1>4. exact_case_exists(fixed, source, indexed, universe)
  BY <1>3 DEF exact_case_exists
<1>5. classify(fixed, source, indexed, universe) = Silent
  BY <1>4 DEF classify
<1> QED
  BY <1>1, <1>5

\* What is reported as a wrong spelling can be put right with the spelling that
\* the report gives, in a scan of the whole repository and of a part of it.
THEOREM FixIsSilent == Spec => []FixedCaseIsSilent
<1>1. FixedCaseIsSilent
  BY FixedIsSilent DEF FixedCaseIsSilent
<1> QED
  BY <1>1, PTL

-----------------------------------------------------------------------------
(* Conditional includes: the scanner counts #if and #endif without a stack. *)
(* The invariant of the count: the depth is the height of the stack, less    *)
(* one as long as the guard has not been closed.                            *)

\* b counts the constructs that are open behind each line: those of opens begin
\* there, those of closes end one.
Stack(n, opens, closes, b) ==
    /\ n \in Nat /\ opens \subseteq 1..n /\ closes \subseteq 1..n /\ opens \cap closes = {}
    /\ b \in [0..n -> Nat] /\ b[0] = 0
    /\ \A k \in 1..n : b[k] = IF k \in opens THEN b[k - 1] + 1
                              ELSE IF k \in closes THEN b[k - 1] - 1 ELSE b[k - 1]

\* d counts without the one that begins at guard, the first of all.
WithoutGuard(n, opens, closes, guard, d) ==
    /\ guard \in 0..n
    /\ guard # 0 => guard \in opens /\ \A k \in 1..(guard - 1) : k \notin opens \cup closes
    /\ d \in [0..n -> Nat] /\ d[0] = 0
    /\ \A k \in 1..n : d[k] = IF k \in opens /\ k # guard THEN d[k - 1] + 1
                              ELSE IF k \in closes /\ d[k - 1] > 0 THEN d[k - 1] - 1 ELSE d[k - 1]

GuardOpen(b, guard, i) == guard # 0 /\ guard <= i /\ \A m \in guard..i : b[m] >= 1

\* Above a height that it has not always had, the stack got at some line, and
\* stayed there since.
LEMMA LastRise ==
    ASSUME NEW n, NEW opens, NEW closes, NEW b, Stack(n, opens, closes, b),
           NEW i \in 1..n, NEW c \in Nat, b[i] > c
    PROVE  \E j \in 1..i : j \in opens /\ b[j - 1] = c /\ \A k \in j..i : b[k] > c
<1> DEFINE S == {j \in 1..i : \A k \in j..i : b[k] > c}
<1>1. S \in SUBSET Nat /\ i \in S
  BY DEF Stack
<1>2. PICK j \in S : \A k \in S : j <= k
  BY <1>1, LeastNatural
<1>3. j \in 1..i /\ j - 1 \in 0..n /\ j \in 1..n /\ n \in Nat /\ i \in Nat
  BY <1>2 DEF Stack
<1>4. \A k \in j..i : b[k] > c
  BY <1>2
<1>5. b[j - 1] <= c
  <2>1. CASE j = 1
    BY <2>1 DEF Stack
  <2>2. CASE j # 1
    <3>1. j - 1 \in 1..i /\ j - 1 \notin S
      BY <1>2, <1>3, <2>2
    <3>2. PICK k \in (j - 1)..i : ~(b[k] > c)
      BY <3>1
    <3>3. k = j - 1
      BY <1>3, <1>4, <3>2
    <3>4. b[j - 1] \in Nat
      BY <1>3 DEF Stack
    <3> QED
      BY <3>2, <3>3, <3>4
  <2> QED
    BY <2>1, <2>2
<1>6. b[j] > c
  BY <1>3, <1>4
<1>7. b[j] \in Nat /\ b[j - 1] \in Nat
  BY <1>3 DEF Stack
<1>8. b[j] = IF j \in opens THEN b[j - 1] + 1 ELSE IF j \in closes THEN b[j - 1] - 1 ELSE b[j - 1]
  BY <1>3 DEF Stack
<1>9. j \in opens /\ b[j - 1] = c
  BY <1>5, <1>6, <1>7, <1>8
<1> QED
  BY <1>3, <1>4, <1>9

\* Nothing is open before the guard.
LEMMA ZeroBeforeGuard ==
    ASSUME NEW n, NEW opens, NEW closes, NEW b, Stack(n, opens, closes, b),
           NEW guard, NEW d, WithoutGuard(n, opens, closes, guard, d),
           guard # 0, NEW m \in 0..(guard - 1)
    PROVE  b[m] = 0
<1> DEFINE S == {k \in 0..(guard - 1) : b[k] # 0}
<1>1. guard \in 1..n /\ n \in Nat
  BY DEF Stack, WithoutGuard
<1>2. SUFFICES ASSUME S # {} PROVE FALSE
  OBVIOUS
<1>3. PICK k \in S : \A x \in S : k <= x
  <2>1. S \in SUBSET Nat
    BY <1>1
  <2> QED
    BY <1>2, <2>1, LeastNatural
<1>4. k \in 0..(guard - 1) /\ b[k] # 0
  BY <1>3
<1>5. k # 0
  BY <1>4 DEF Stack
<1>6. k \in 1..n /\ k \in 1..(guard - 1) /\ k - 1 \in 0..(guard - 1)
  BY <1>1, <1>4, <1>5
<1>7. b[k - 1] = 0
  <2>1. k - 1 \notin S
    BY <1>3, <1>6
  <2> QED
    BY <1>6, <2>1
<1>8. k \notin opens /\ k \notin closes
  BY <1>6 DEF WithoutGuard
<1>9. b[k] = b[k - 1]
  BY <1>6, <1>8 DEF Stack
<1> QED
  BY <1>4, <1>7, <1>9

\* The depth is the height of the stack, less the guard as long as it is open.
LEMMA DepthIsHeight ==
    ASSUME NEW n, NEW opens, NEW closes, NEW b, Stack(n, opens, closes, b),
           NEW guard, NEW d, WithoutGuard(n, opens, closes, guard, d),
           NEW i \in 0..n
    PROVE  d[i] = IF GuardOpen(b, guard, i) THEN b[i] - 1 ELSE b[i]
<1> DEFINE Holds(k) == d[k] = IF GuardOpen(b, guard, k) THEN b[k] - 1 ELSE b[k]
           S == {k \in 0..n : ~Holds(k)}
<1>1. guard \in 0..n /\ n \in Nat
  BY DEF Stack, WithoutGuard
<1>2. SUFFICES ASSUME S # {} PROVE FALSE
  OBVIOUS
<1>3. PICK k \in S : \A x \in S : k <= x
  <2>1. S \in SUBSET Nat
    BY <1>1
  <2> QED
    BY <1>2, <2>1, LeastNatural
<1>4. k \in 0..n /\ ~Holds(k)
  BY <1>3
<1>5. k # 0
  <2> SUFFICES ASSUME k = 0 PROVE FALSE
    OBVIOUS
  <2>1. ~GuardOpen(b, guard, 0)
    BY <1>1 DEF GuardOpen
  <2>2. d[0] = 0 /\ b[0] = 0
    BY DEF Stack, WithoutGuard
  <2> QED
    BY <1>4, <2>1, <2>2
<1>6. k \in 1..n /\ k - 1 \in 0..n /\ k \in 0..n
  BY <1>1, <1>4, <1>5
<1>7. Holds(k - 1)
  <2>1. k - 1 \notin S
    BY <1>3, <1>6
  <2> QED
    BY <1>6, <2>1
<1> HIDE DEF Holds, S
<1>8. b[k] \in Nat /\ b[k - 1] \in Nat /\ d[k - 1] \in Nat
  BY <1>6 DEF Stack, WithoutGuard
<1>9. b[k] = IF k \in opens THEN b[k - 1] + 1 ELSE IF k \in closes THEN b[k - 1] - 1 ELSE b[k - 1]
  BY <1>6 DEF Stack
<1>10. d[k] = IF k \in opens /\ k # guard THEN d[k - 1] + 1
              ELSE IF k \in closes /\ d[k - 1] > 0 THEN d[k - 1] - 1 ELSE d[k - 1]
  BY <1>6 DEF WithoutGuard
<1>11. k \in opens => k \notin closes
  BY DEF Stack
<1>12. Holds(k)
  <2>1. CASE guard = k
    <3>1. k \in opens
      BY <1>5, <2>1 DEF WithoutGuard
    <3>2. b[k - 1] = 0
      BY <1>5, <1>6, <2>1, ZeroBeforeGuard
    <3>3. ~GuardOpen(b, guard, k - 1)
      BY <1>6, <2>1 DEF GuardOpen
    <3>4. d[k - 1] = 0
      BY <1>7, <3>2, <3>3 DEF Holds
    <3>5. b[k] = 1 /\ d[k] = 0
      BY <1>8, <1>9, <1>10, <1>11, <2>1, <3>1, <3>2, <3>4
    <3>6. GuardOpen(b, guard, k)
      BY <1>5, <1>6, <2>1, <3>5 DEF GuardOpen
    <3> QED
      BY <3>5, <3>6 DEF Holds
  <2>2. CASE guard # k /\ GuardOpen(b, guard, k - 1)
    <3>1. guard <= k - 1 /\ b[k - 1] >= 1 /\ guard # 0
      BY <1>1, <1>6, <2>2 DEF GuardOpen
    <3>2. d[k - 1] = b[k - 1] - 1
      BY <1>7, <2>2 DEF Holds
    <3>3. GuardOpen(b, guard, k) <=> b[k] >= 1
      <4>1. guard..k = guard..(k - 1) \cup {k}
        BY <1>1, <1>6, <3>1
      <4>2. \A m \in guard..(k - 1) : b[m] >= 1
        BY <2>2 DEF GuardOpen
      <4>3. guard <= k
        BY <1>1, <1>6, <3>1
      <4> QED
        BY <3>1, <4>1, <4>2, <4>3 DEF GuardOpen
    <3>4. d[k] = IF b[k] >= 1 THEN b[k] - 1 ELSE b[k]
      BY <1>8, <1>9, <1>10, <1>11, <2>2, <3>1, <3>2
    <3> QED
      BY <3>3, <3>4 DEF Holds
  <2>3. CASE guard # k /\ ~GuardOpen(b, guard, k - 1)
    <3>1. ~GuardOpen(b, guard, k)
      <4>1. guard <= k /\ guard # 0 => guard <= k - 1 /\ guard..(k - 1) \subseteq guard..k
        BY <1>1, <1>6, <2>3
      <4> QED
        BY <2>3, <4>1 DEF GuardOpen
    <3>2. d[k - 1] = b[k - 1]
      BY <1>7, <2>3 DEF Holds
    <3>3. d[k] = b[k]
      BY <1>8, <1>9, <1>10, <1>11, <2>3, <3>2
    <3> QED
      BY <3>1, <3>3 DEF Holds
  <2> QED
    BY <2>1, <2>2, <2>3
<1> QED
  BY <1>4, <1>12

\* Without a stack the count tells whether another construct than the guard is
\* open.
LEMMA CountingSuffices ==
    ASSUME NEW n, NEW opens, NEW closes, NEW b, Stack(n, opens, closes, b),
           NEW guard, NEW d, WithoutGuard(n, opens, closes, guard, d),
           NEW i \in 1..n
    PROVE  d[i] > 0 <=> \E j \in 1..i : j \in opens /\ j # guard /\ \A k \in j..i : b[k] > b[j - 1]
<1> DEFINE Inside(j) == j \in opens /\ j # guard /\ \A k \in j..i : b[k] > b[j - 1]
<1>1. d[i] = IF GuardOpen(b, guard, i) THEN b[i] - 1 ELSE b[i]
  <2>1. i \in 0..n
    OBVIOUS
  <2> QED
    BY <2>1, DepthIsHeight
<1>2. guard \in 0..n /\ n \in Nat /\ b[i] \in Nat /\ \A m \in 0..n : b[m] \in Nat
  BY DEF Stack, WithoutGuard
<1>3. ASSUME GuardOpen(b, guard, i), b[i] > 1 PROVE \E j \in 1..i : Inside(j)
  <2>1. PICK j \in 1..i : j \in opens /\ b[j - 1] = 1 /\ \A k \in j..i : b[k] > 1
    BY <1>3, LastRise
  <2>2. guard # 0
    BY <1>3 DEF GuardOpen
  <2>3. b[guard - 1] = 0
    BY <1>2, <2>2, ZeroBeforeGuard
  <2> QED
    BY <2>1, <2>3
<1>4. ASSUME ~GuardOpen(b, guard, i), b[i] > 0 PROVE \E j \in 1..i : Inside(j)
  <2>1. PICK j \in 1..i : j \in opens /\ b[j - 1] = 0 /\ \A k \in j..i : b[k] > 0
    BY <1>4, LastRise
  <2>2. j # guard
    <3> SUFFICES ASSUME j = guard PROVE GuardOpen(b, guard, i)
      BY <1>4
    <3>1. guard # 0 /\ guard <= i
      OBVIOUS
    <3>2. \A m \in guard..i : b[m] >= 1
      BY <1>2, <2>1
    <3> QED
      BY <3>1, <3>2 DEF GuardOpen
  <2> QED
    BY <2>1, <2>2
<1>5. ASSUME NEW j \in 1..i, Inside(j) PROVE d[i] > 0
  <2>1. j - 1 \in 0..n /\ b[j - 1] \in Nat /\ b[i] > b[j - 1]
    BY <1>2, <1>5
  <2>2. CASE ~GuardOpen(b, guard, i)
    BY <1>1, <1>2, <2>1, <2>2
  <2>3. CASE GuardOpen(b, guard, i)
    <3>1. guard # 0 /\ guard \in 1..n
      BY <1>2, <2>3 DEF GuardOpen
    <3>2. ~(j < guard)
      <4> SUFFICES ASSUME j < guard PROVE FALSE
        OBVIOUS
      <4>1. j \in 1..(guard - 1)
        BY <1>2
      <4>2. j \notin opens
        BY <3>1, <4>1 DEF WithoutGuard
      <4> QED
        BY <1>5, <4>2
    <3>3. j - 1 \in guard..i
      BY <1>2, <1>5, <3>1, <3>2
    <3>4. b[j - 1] >= 1
      BY <2>3, <3>3 DEF GuardOpen
    <3> QED
      BY <1>1, <1>2, <2>1, <2>3, <3>4
  <2> QED
    BY <2>2, <2>3
<1> QED
  BY <1>1, <1>2, <1>3, <1>4, <1>5

\* There is one logical line more than there are newlines left.
LEMMA ViewLines ==
    ASSUME NEW T, NEW text \in Seq(T)
    PROVE  Len(View(text)) \in Nat /\ DOMAIN View(text) = 1..Len(View(text))
<1> DEFINE newlines == Cardinality({n \in 1..Len(text) : Broken(text, n)})
           lines == View(text)
           X == {lines[i] : i \in 1..(newlines + 1)}
<1>1. newlines \in Nat
  <2>1. IsFiniteSet(1..Len(text))
    BY FS_Interval
  <2>2. IsFiniteSet({n \in 1..Len(text) : Broken(text, n)})
    BY <2>1, FS_Subset
  <2> QED
    BY <2>2, FS_CardinalityType
<1>2. lines \in [1..(newlines + 1) -> X]
  <2>1. /\ lines = [i \in DOMAIN lines |-> lines[i]]
        /\ DOMAIN lines = 1..(newlines + 1)
    BY DEF View, LogicalLines
  <2> QED
    BY <2>1
<1> HIDE DEF newlines, lines, X
<1>3. lines \in Seq(X)
  BY <1>1, <1>2, SeqDef
<1>4. Len(lines) \in Nat /\ DOMAIN lines = 1..Len(lines)
  BY <1>3, LenProperties
<1> QED
  BY <1>4 DEF lines

\* One line more is one more to count, or none.
LEMMA CountOneMore ==
    ASSUME NEW lines, NEW S, NEW k \in Nat
    PROVE  /\ CountLines(lines, 1, 0, S) = 0
           /\ CountLines(lines, 1, k, S) \in Nat
           /\ First(lines[k + 1]) \in S
                => CountLines(lines, 1, k + 1, S) = CountLines(lines, 1, k, S) + 1
           /\ First(lines[k + 1]) \notin S
                => CountLines(lines, 1, k + 1, S) = CountLines(lines, 1, k, S)
<1> DEFINE C(m) == {x \in 1..m : First(lines[x]) \in S}
<1>1. C(0) = {}
  OBVIOUS
<1>2. CountLines(lines, 1, 0, S) = 0
  BY <1>1, FS_EmptySet DEF CountLines
<1>3. IsFiniteSet(C(k))
  <2>1. IsFiniteSet(1..k)
    BY FS_Interval
  <2> QED
    BY <2>1, FS_Subset
<1>4. Cardinality(C(k)) \in Nat
  BY <1>3, FS_CardinalityType
<1>5. k + 1 \notin C(k)
  OBVIOUS
<1>6. Cardinality(C(k) \cup {k + 1}) = Cardinality(C(k)) + 1
  BY <1>3, <1>5, FS_AddElement
<1>7. 1..(k + 1) = 1..k \cup {k + 1}
  OBVIOUS
<1>8. C(k + 1) = IF First(lines[k + 1]) \in S THEN C(k) \cup {k + 1} ELSE C(k)
  BY <1>7
<1>9. Cardinality(C(k + 1)) = IF First(lines[k + 1]) \in S THEN Cardinality(C(k)) + 1 ELSE Cardinality(C(k))
  BY <1>6, <1>8
<1>10. /\ CountLines(lines, 1, k, S) = Cardinality(C(k))
       /\ CountLines(lines, 1, k + 1, S) = Cardinality(C(k + 1))
  BY DEF CountLines
<1> QED
  BY <1>2, <1>4, <1>9, <1>10

\* The lines from j on are the others than those before it.
LEMMA CountFrom ==
    ASSUME NEW lines, NEW S, NEW j \in Nat \ {0}, NEW k \in Nat, j - 1 <= k
    PROVE  CountLines(lines, j, k, S) = CountLines(lines, 1, k, S) - CountLines(lines, 1, j - 1, S)
<1> DEFINE C(x, y) == {m \in x..y : First(lines[m]) \in S}
<1>1. IsFiniteSet(C(1, j - 1)) /\ IsFiniteSet(C(j, k))
  <2>1. IsFiniteSet(1..(j - 1)) /\ IsFiniteSet(j..k)
    BY FS_Interval
  <2> QED
    BY <2>1, FS_Subset
<1>2. C(1, j - 1) \cup C(j, k) = C(1, k)
  <2>1. 1..k = 1..(j - 1) \cup j..k
    OBVIOUS
  <2> QED
    BY <2>1
<1>3. C(1, j - 1) \cap C(j, k) = {}
  OBVIOUS
<1>4. Cardinality({}) = 0
  BY FS_EmptySet
<1>5. Cardinality(C(1, k)) = Cardinality(C(1, j - 1)) + Cardinality(C(j, k)) - Cardinality({})
  BY <1>1, <1>2, <1>3, FS_Union
<1>6. Cardinality(C(1, j - 1)) \in Nat /\ Cardinality(C(j, k)) \in Nat
  BY <1>1, FS_CardinalityType
<1>7. Cardinality(C(j, k)) = Cardinality(C(1, k)) - Cardinality(C(1, j - 1))
  BY <1>4, <1>5, <1>6
<1> QED
  BY <1>7 DEF CountLines

\* The guard, if there is one, is the first line that opens or closes anything.
LEMMA GuardIsFirst ==
    ASSUME NEW lines, DOMAIN lines = 1..Len(lines), Len(lines) \in Nat
    PROVE  LET guard == detect_include_guard_offset(lines)
           IN /\ guard \in 0..Len(lines)
              /\ guard # 0 => /\ First(lines[guard]) \in Opens
                              /\ \A k \in 1..(guard - 1) : First(lines[k]) \notin Opens \cup {"#endif"}
<1> DEFINE guard == detect_include_guard_offset(lines)
<1>1. guard = 0 \/ (guard \in DOMAIN lines /\ OpensGuard(lines, guard))
  <2>1. CASE \E i \in DOMAIN lines : OpensGuard(lines, i)
    <3>1. guard = CHOOSE i \in DOMAIN lines : OpensGuard(lines, i)
      BY <2>1 DEF detect_include_guard_offset
    <3> HIDE DEF guard
    <3> QED
      BY <2>1, <3>1
  <2>2. CASE ~ \E i \in DOMAIN lines : OpensGuard(lines, i)
    BY <2>2 DEF detect_include_guard_offset
  <2> QED
    BY <2>1, <2>2
<1> HIDE DEF guard
<1>2. ASSUME guard # 0
      PROVE  /\ First(lines[guard]) \in Opens
             /\ \A k \in 1..(guard - 1) : First(lines[k]) \notin Opens \cup {"#endif"}
  <2>1. First(lines[guard]) \in Opens
    BY <1>1, <1>2 DEF OpensGuard, Opens
  <2>2. ASSUME NEW k \in 1..(guard - 1) PROVE First(lines[k]) = " "
    <3>1. guard \in 1..Len(lines)
      BY <1>1, <1>2
    <3>2. k \in DOMAIN lines /\ ~(guard <= k)
      BY <3>1
    <3>3. lines[k].lex = << >>
      BY <1>1, <1>2, <3>2 DEF OpensGuard, IsLeast
    <3> QED
      BY <3>3 DEF First, Blank
  <2>3. " " \notin Opens \cup {"#endif"}
    BY DEF Opens, IfndefName
  <2> QED
    BY <2>1, <2>2, <2>3
<1>3. guard \in 0..Len(lines)
  BY <1>1
<1> QED
  BY <1>2, <1>3 DEF guard

\* The recursion of the depth has a solution over the first m lines.
DepthUpTo(lines, guard, m, f) ==
    /\ f \in [0..m -> Nat] /\ f[0] = 0
    /\ \A k \in 1..m : f[k] = DepthAfter(lines[k], k = guard, f[k - 1])

LEMMA DepthExists ==
    ASSUME NEW lines, NEW guard, NEW n \in Nat
    PROVE  \E f : DepthUpTo(lines, guard, n, f)
<1> DEFINE S == {m \in Nat : ~ \E f : DepthUpTo(lines, guard, m, f)}
<1>1. SUFFICES ASSUME S # {} PROVE FALSE
  OBVIOUS
<1>2. PICK m \in S : \A x \in S : m <= x
  <2>1. S \in SUBSET Nat
    OBVIOUS
  <2> QED
    BY <1>1, <2>1, LeastNatural
<1>3. m # 0
  <2>1. [k \in 0..0 |-> 0] \in [0..0 -> Nat]
    OBVIOUS
  <2>2. DepthUpTo(lines, guard, 0, [k \in 0..0 |-> 0])
    BY <2>1 DEF DepthUpTo
  <2> QED
    BY <1>2, <2>2
<1>4. m - 1 \in Nat /\ m - 1 \notin S
  BY <1>2, <1>3
<1>5. PICK f : DepthUpTo(lines, guard, m - 1, f)
  BY <1>4
<1> DEFINE next == DepthAfter(lines[m], m = guard, f[m - 1])
           g == [k \in 0..m |-> IF k = m THEN next ELSE f[k]]
<1>6. next \in Nat
  <2>1. f[m - 1] \in Nat
    BY <1>4, <1>5 DEF DepthUpTo
  <2> QED
    BY <2>1 DEF DepthAfter
<1> HIDE DEF next
<1>7. \A k \in 0..m : k # m => k \in 0..(m - 1)
  BY <1>2
<1>8. g \in [0..m -> Nat]
  BY <1>5, <1>6, <1>7 DEF DepthUpTo
<1>9. g[0] = 0
  BY <1>2, <1>3, <1>5 DEF DepthUpTo
<1>10. ASSUME NEW k \in 1..m PROVE g[k] = DepthAfter(lines[k], k = guard, g[k - 1])
  <2>1. g[k - 1] = f[k - 1]
    BY <1>2
  <2>2. CASE k = m
    <3>1. g[k] = next
      BY <1>2, <2>2
    <3> QED
      BY <2>1, <2>2, <3>1 DEF next
  <2>3. CASE k # m
    <3>1. g[k] = f[k] /\ k \in 1..(m - 1)
      BY <1>2, <2>3
    <3>2. f[k] = DepthAfter(lines[k], k = guard, f[k - 1])
      BY <1>5, <3>1 DEF DepthUpTo
    <3> QED
      BY <2>1, <3>1, <3>2
  <2> QED
    BY <2>2, <2>3
<1>11. DepthUpTo(lines, guard, m, g)
  BY <1>8, <1>9, <1>10 DEF DepthUpTo
<1> QED
  BY <1>2, <1>11

LEMMA DepthsAreDepths ==
    ASSUME NEW lines, Len(lines) \in Nat
    PROVE  DepthUpTo(lines, detect_include_guard_offset(lines), Len(lines), Depths(lines))
<1> DEFINE n == Len(lines)
           guard == detect_include_guard_offset(lines)
           Eq(f) == f = [i \in 0..n |-> IF i = 0 THEN 0 ELSE DepthAfter(lines[i], i = guard, f[i - 1])]
           d == Depths(lines)
<1>1. d = CHOOSE f : Eq(f)
  BY DEF Depths
<1> HIDE DEF d, guard
<1>2. PICK f : DepthUpTo(lines, guard, n, f)
  BY DepthExists
<1>3. Eq(f)
  <2>1. f = [i \in 0..n |-> f[i]]
    BY <1>2 DEF DepthUpTo
  <2>2. ASSUME NEW i \in 0..n
        PROVE  f[i] = IF i = 0 THEN 0 ELSE DepthAfter(lines[i], i = guard, f[i - 1])
    <3>1. i # 0 => i \in 1..n
      OBVIOUS
    <3> QED
      BY <1>2, <3>1 DEF DepthUpTo
  <2> QED
    BY <2>1, <2>2
<1>4. Eq(d)
  BY <1>1, <1>3
<1>5. d[0] = 0 /\ DOMAIN d = 0..n
  BY <1>4
<1>6. ASSUME NEW k \in 1..n PROVE d[k] = DepthAfter(lines[k], k = guard, d[k - 1])
  BY <1>4
<1> HIDE DEF Eq
<1>7. ASSUME NEW i \in 0..n PROVE d[i] \in Nat
  <2> DEFINE S == {k \in 0..n : d[k] \notin Nat}
  <2>1. SUFFICES ASSUME S # {} PROVE FALSE
    BY <1>7
  <2>2. PICK k \in S : \A x \in S : k <= x
    <3>1. S \in SUBSET Nat
      OBVIOUS
    <3> QED
      BY <2>1, <3>1, LeastNatural
  <2>3. k \in 1..n /\ k - 1 \in 0..n
    BY <1>5, <2>2
  <2>4. d[k - 1] \in Nat
    <3>1. k - 1 \notin S
      BY <2>2, <2>3
    <3> QED
      BY <2>3, <3>1
  <2>5. d[k] \in Nat
    BY <1>6, <2>3, <2>4 DEF DepthAfter
  <2> QED
    BY <2>2, <2>5
<1>8. d = [i \in 0..n |-> d[i]]
  BY <1>4, <1>5 DEF Eq
<1>9. d \in [0..n -> Nat]
  BY <1>7, <1>8
<1> QED
  BY <1>5, <1>6, <1>9 DEF DepthUpTo, d, guard

Endings == {"#endif"}
Balanced(lines) == \A k \in DOMAIN lines : CountLines(lines, 1, k, Endings) <= CountLines(lines, 1, k, Opens)
LinesOf(lines, S) == {k \in DOMAIN lines : First(lines[k]) \in S}
Height(lines, k) == CountLines(lines, 1, k, Opens) - CountLines(lines, 1, k, Endings)
Heights(lines) == [k \in 0..Len(lines) |-> Height(lines, k)]

\* Where no #endif is too many, the counts are those of a stack.
LEMMA LinesAreAStack ==
    ASSUME NEW lines, Len(lines) \in Nat, DOMAIN lines = 1..Len(lines), Balanced(lines)
    PROVE  Stack(Len(lines), LinesOf(lines, Opens), LinesOf(lines, Endings), Heights(lines))
<1> DEFINE n == Len(lines)
           b == Heights(lines)
<1>1. LinesOf(lines, Opens) \cap LinesOf(lines, Endings) = {}
  <2>1. Opens \cap Endings = {}
    BY DEF Opens, IfndefName, Endings
  <2> QED
    BY <2>1 DEF LinesOf
<1>2. LinesOf(lines, Opens) \subseteq 1..n /\ LinesOf(lines, Endings) \subseteq 1..n
  BY DEF LinesOf
<1>3. \A k \in 0..n : b[k] = Height(lines, k)
  BY DEF Heights
<1>4. b[0] = 0
  <2>1. CountLines(lines, 1, 0, Opens) = 0 /\ CountLines(lines, 1, 0, Endings) = 0
    BY CountOneMore
  <2> QED
    BY <1>3, <2>1 DEF Height
<1>5. ASSUME NEW k \in 0..n PROVE b[k] \in Nat
  <2>1. CountLines(lines, 1, k, Opens) \in Nat /\ CountLines(lines, 1, k, Endings) \in Nat
    BY CountOneMore
  <2>2. CASE k = 0
    BY <1>4, <2>2
  <2>3. CASE k # 0
    <3>1. CountLines(lines, 1, k, Endings) <= CountLines(lines, 1, k, Opens)
      BY <2>3 DEF Balanced
    <3> QED
      BY <1>3, <2>1, <3>1 DEF Height
  <2> QED
    BY <2>2, <2>3
<1>6. b \in [0..n -> Nat]
  <2>1. b = [k \in 0..n |-> b[k]]
    BY DEF Heights
  <2> QED
    BY <1>5, <2>1
<1>7. ASSUME NEW k \in 1..n
      PROVE  b[k] = IF k \in LinesOf(lines, Opens) THEN b[k - 1] + 1
                    ELSE IF k \in LinesOf(lines, Endings) THEN b[k - 1] - 1 ELSE b[k - 1]
  <2> DEFINE opened(m) == CountLines(lines, 1, m, Opens)
             ended(m) == CountLines(lines, 1, m, Endings)
  <2>1. k - 1 \in 0..n /\ k \in 0..n
    OBVIOUS
  <2>2. PICK m \in Nat : m = k - 1 /\ m + 1 = k
    OBVIOUS
  <2>3. /\ opened(m) \in Nat
        /\ First(lines[m + 1]) \in Opens => opened(m + 1) = opened(m) + 1
        /\ First(lines[m + 1]) \notin Opens => opened(m + 1) = opened(m)
    BY <2>2, CountOneMore
  <2>4. /\ ended(m) \in Nat
        /\ First(lines[m + 1]) \in Endings => ended(m + 1) = ended(m) + 1
        /\ First(lines[m + 1]) \notin Endings => ended(m + 1) = ended(m)
    BY <2>2, CountOneMore
  <2>5. b[k] = opened(k) - ended(k) /\ b[k - 1] = opened(k - 1) - ended(k - 1)
    BY <1>3, <2>1 DEF Height
  <2>6. /\ k \in LinesOf(lines, Opens) <=> First(lines[k]) \in Opens
        /\ k \in LinesOf(lines, Endings) <=> First(lines[k]) \in Endings
    BY DEF LinesOf
  <2>7. ~(k \in LinesOf(lines, Opens) /\ k \in LinesOf(lines, Endings))
    BY <1>1
  <2> HIDE DEF opened, ended
  <2>8. /\ opened(k - 1) \in Nat
        /\ opened(k) = IF First(lines[k]) \in Opens THEN opened(k - 1) + 1 ELSE opened(k - 1)
        /\ ended(k - 1) \in Nat
        /\ ended(k) = IF First(lines[k]) \in Endings THEN ended(k - 1) + 1 ELSE ended(k - 1)
    BY <2>2, <2>3, <2>4
  <2> QED
    BY <2>5, <2>6, <2>7, <2>8
<1> HIDE DEF b
<1>8. Stack(n, LinesOf(lines, Opens), LinesOf(lines, Endings), b)
  BY <1>1, <1>2, <1>4, <1>6, <1>7 DEF Stack
<1> QED
  BY <1>8 DEF b

\* The depth is such a count, without the guard.
LEMMA DepthsSkipTheGuard ==
    ASSUME NEW lines, Len(lines) \in Nat, DOMAIN lines = 1..Len(lines)
    PROVE  WithoutGuard(Len(lines), LinesOf(lines, Opens), LinesOf(lines, Endings),
                        detect_include_guard_offset(lines), Depths(lines))
<1> DEFINE n == Len(lines)
           guard == detect_include_guard_offset(lines)
           d == Depths(lines)
<1>1. DepthUpTo(lines, guard, n, d)
  BY DepthsAreDepths
<1>2. /\ guard \in 0..n
      /\ guard # 0 => /\ First(lines[guard]) \in Opens
                      /\ \A k \in 1..(guard - 1) : First(lines[k]) \notin Opens \cup {"#endif"}
  BY GuardIsFirst
<1> HIDE DEF guard, d
<1>3. ASSUME guard # 0
      PROVE  /\ guard \in LinesOf(lines, Opens)
             /\ \A k \in 1..(guard - 1) : k \notin LinesOf(lines, Opens) \cup LinesOf(lines, Endings)
  BY <1>2, <1>3 DEF LinesOf, Endings
<1>4. ASSUME NEW k \in 1..n
      PROVE  d[k] = IF k \in LinesOf(lines, Opens) /\ k # guard THEN d[k - 1] + 1
                    ELSE IF k \in LinesOf(lines, Endings) /\ d[k - 1] > 0 THEN d[k - 1] - 1 ELSE d[k - 1]
  <2>1. d[k] = DepthAfter(lines[k], k = guard, d[k - 1])
    BY <1>1 DEF DepthUpTo
  <2>2. /\ k \in LinesOf(lines, Opens) <=> First(lines[k]) \in Opens
        /\ k \in LinesOf(lines, Endings) <=> First(lines[k]) = "#endif"
    BY DEF LinesOf, Endings
  <2> QED
    BY <2>1, <2>2 DEF DepthAfter
<1>5. d \in [0..n -> Nat] /\ d[0] = 0
  BY <1>1 DEF DepthUpTo
<1>6. WithoutGuard(n, LinesOf(lines, Opens), LinesOf(lines, Endings), guard, d)
  BY <1>2, <1>3, <1>4, <1>5 DEF WithoutGuard
<1> QED
  BY <1>6 DEF guard, d

\* An include is marked exactly if it stands in another construct than the guard.
LEMMA DepthTellsConditional ==
    ASSUME NEW lines, Len(lines) \in Nat, DOMAIN lines = 1..Len(lines), Balanced(lines),
           NEW i \in 1..Len(lines)
    PROVE  Depths(lines)[i] > 0 <=>
             \E j \in 1..i :
                /\ First(lines[j]) \in Opens
                /\ j # detect_include_guard_offset(lines)
                /\ \A k \in j..i : CountLines(lines, j, k, Opens) > CountLines(lines, j, k, Endings)
<1> DEFINE n == Len(lines)
           guard == detect_include_guard_offset(lines)
           d == Depths(lines)
           b == Heights(lines)
           opens == LinesOf(lines, Opens)
           closes == LinesOf(lines, Endings)
<1>1. Stack(n, opens, closes, b)
  BY LinesAreAStack
<1>2. WithoutGuard(n, opens, closes, guard, d)
  BY DepthsSkipTheGuard
<1> HIDE DEF guard, d, b, opens, closes
<1>3. d[i] > 0 <=> \E j \in 1..i : j \in opens /\ j # guard /\ \A k \in j..i : b[k] > b[j - 1]
  BY <1>1, <1>2, CountingSuffices
<1>4. ASSUME NEW j \in 1..i, NEW k \in j..i
      PROVE  b[k] > b[j - 1] <=> CountLines(lines, j, k, Opens) > CountLines(lines, j, k, Endings)
  <2>1. j \in Nat \ {0} /\ k \in Nat /\ j - 1 \in Nat /\ j - 1 <= k /\ k \in 0..n /\ j - 1 \in 0..n
    OBVIOUS
  <2>2. /\ CountLines(lines, j, k, Opens) = CountLines(lines, 1, k, Opens) - CountLines(lines, 1, j - 1, Opens)
        /\ CountLines(lines, j, k, Endings) = CountLines(lines, 1, k, Endings) - CountLines(lines, 1, j - 1, Endings)
    BY <2>1, CountFrom
  <2>3. /\ CountLines(lines, 1, k, Opens) \in Nat /\ CountLines(lines, 1, k, Endings) \in Nat
        /\ CountLines(lines, 1, j - 1, Opens) \in Nat /\ CountLines(lines, 1, j - 1, Endings) \in Nat
    BY <2>1, CountOneMore
  <2>4. /\ b[k] = CountLines(lines, 1, k, Opens) - CountLines(lines, 1, k, Endings)
        /\ b[j - 1] = CountLines(lines, 1, j - 1, Opens) - CountLines(lines, 1, j - 1, Endings)
    BY <2>1 DEF b, Heights, Height
  <2> QED
    BY <2>2, <2>3, <2>4
<1>5. ASSUME NEW j \in 1..i PROVE j \in opens <=> First(lines[j]) \in Opens
  BY DEF opens, LinesOf
<1>6. d[i] > 0 <=>
        \E j \in 1..i : /\ First(lines[j]) \in Opens /\ j # guard
                        /\ \A k \in j..i : CountLines(lines, j, k, Opens) > CountLines(lines, j, k, Endings)
  BY <1>3, <1>4, <1>5
<1> QED
  BY <1>6 DEF d, guard

IsText(file) == "text" \in DOMAIN file /\ file.text \in Seq(Seq(STRING))
TextInv == Typed \in DOMAIN tree => IsText(tree[Typed])

\* The file that is typed holds text, whatever was written, typed or deleted.
THEOREM TextInvariance == Spec => []TextInv
<1>1. Init => TextInv
  <2> SUFFICES ASSUME Init PROVE TextInv
    OBVIOUS
  <2>1. CASE tree = NoFiles
    BY <2>1 DEF NoFiles, TextInv
  <2>2. ASSUME NEW file \in Contents[Typed], tree = [p \in {Typed} |-> file] PROVE TextInv
    BY <2>2, TextAssumption DEF TextInv, IsText
  <2> QED
    BY <2>1, <2>2 DEF Init
<1>2. TextInv /\ [Next]_vars => TextInv'
  <2> SUFFICES ASSUME TextInv, [Next]_vars PROVE TextInv'
    OBVIOUS
  <2>1. ASSUME NEW p \in DOMAIN Contents, NEW file \in Contents[p], Write(p, file) PROVE TextInv'
    <3>1. tree' = [q \in DOMAIN tree \cup {p} |-> IF q = p THEN file ELSE tree[q]]
      BY <2>1 DEF Write
    <3>2. CASE p = Typed
      <4>1. tree'[Typed] = file
        BY <3>1, <3>2
      <4> QED
        BY <3>2, <4>1, TextAssumption DEF TextInv, IsText
    <3>3. CASE p # Typed
      BY <3>1, <3>3 DEF TextInv, IsText
    <3> QED
      BY <3>2, <3>3
  <2>2. ASSUME NEW p \in DOMAIN tree, Delete(p) PROVE TextInv'
    <3>1. tree' = [q \in DOMAIN tree \ {p} |-> tree[q]]
      BY <2>2 DEF Delete
    <3> QED
      BY <3>1 DEF TextInv, IsText
  <2>3. ASSUME NEW lines \in Lines, NEW line \in lines, Type(lines, line) PROVE TextInv'
    <3>1. DOMAIN tree = {Typed} /\ tree' = [tree EXCEPT ![Typed].text = Append(@, line)]
      BY <2>3 DEF Type
    <3>2. "text" \in DOMAIN tree[Typed] /\ tree[Typed].text \in Seq(Seq(STRING))
      BY <3>1 DEF TextInv, IsText
    <3>3. /\ DOMAIN tree'[Typed] = DOMAIN tree[Typed]
          /\ tree'[Typed].text = Append(tree[Typed].text, line)
      BY <3>1, <3>2
    <3>4. line \in Seq(STRING)
      BY TextAssumption
    <3>5. Append(tree[Typed].text, line) \in Seq(Seq(STRING))
      BY <3>2, <3>4
    <3> QED
      BY <3>2, <3>3, <3>5 DEF TextInv, IsText
  <2>4. ASSUME UNCHANGED tree PROVE TextInv'
    BY <2>4 DEF TextInv, IsText
  <2>5. Commit => UNCHANGED tree
    BY DEF Commit
  <2>6. ASSUME NEW m \in {"memory", "disk"} PROVE Start(m) => UNCHANGED tree
    BY DEF Start, files
  <2>7. (ReadBaseline \/ ReadCurrent \/ End \/ UNCHANGED vars) => UNCHANGED tree
    BY DEF ReadBaseline, ReadCurrent, End, files, vars
  <2> QED
    BY <2>1, <2>2, <2>3, <2>4, <2>5, <2>6, <2>7 DEF Next
<1> QED
  BY <1>1, <1>2, PTL DEF Spec

\* For every text the scanner marks an include as conditional exactly if it
\* stands in a conditional construct other than the include guard.
THEOREM ConditionalCorrect == Spec => []ConditionalIsConditional
<1>1. TextInv => ConditionalIsConditional
  <2> SUFFICES ASSUME TextInv, Typed \in DOMAIN tree PROVE ConditionalIsConditional
    BY DEF ConditionalIsConditional
  <2> DEFINE text == TypedText
             lines == View(text)
             guard == detect_include_guard_offset(lines)
             directives == scanIncludes(text).directives
             Inside(i) ==
                 \E j \in 1..i :
                    /\ First(lines[j]) \in Opens /\ j # guard
                    /\ \A k \in j..i : CountLines(lines, j, k, Opens) > CountLines(lines, j, k, {"#endif"})
  <2>1. text \in Seq(Seq(STRING))
    BY DEF TextInv, IsText, TypedText
  <2> HIDE DEF text
  <2>2. Len(lines) \in Nat /\ DOMAIN lines = 1..Len(lines)
    BY <2>1, ViewLines
  <2>3. ASSUME NEW i \in DOMAIN directives
        PROVE  i \in DOMAIN lines /\ (directives[i].conditional <=> Depths(lines)[i] > 0)
    BY DEF scanIncludes, try_extract
  <2> HIDE DEF lines, directives
  <2>4. ASSUME \A k \in DOMAIN lines : CountLines(lines, 1, k, {"#endif"}) <= CountLines(lines, 1, k, Opens),
               NEW i \in DOMAIN directives
        PROVE  directives[i].conditional <=> Inside(i)
    <3>1. Balanced(lines)
      BY <2>4 DEF Balanced, Endings
    <3>2. Depths(lines)[i] > 0 <=> Inside(i)
      BY <2>2, <2>3, <3>1, DepthTellsConditional DEF Endings
    <3> QED
      BY <2>3, <3>2
  <2> HIDE DEF Inside
  <2> QED
    BY <2>4 DEF ConditionalIsConditional, Inside, lines, directives, text
<1> QED
  BY <1>1, TextInvariance, PTL
=============================================================================
