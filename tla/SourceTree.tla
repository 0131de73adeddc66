----------------------------- MODULE SourceTree -----------------------------
(***************************************************************************)
(* From the files of a repository to its graph: what the two file sources   *)
(* list and read (src/src/scan/disk_file_source.cpp, project_files.cpp,     *)
(* src/src/git/git_object_file_source.cpp), the snapshot that classifies    *)
(* them, and graph_builder.cpp, composed of SourceText, FileClassification  *)
(* and IncludeResolver.                                                     *)
(*                                                                         *)
(* A developer edits the working tree, commits it, and runs                 *)
(* `archcheck --diff HEAD`, which builds the graph of the last commit and   *)
(* then that of the working tree.  The classification reads the registry,   *)
(* process-wide variables that every source sets anew when it is opened.    *)
(* The working tree may also be edited line by line, as long as it holds    *)
(* one file: those states are for the properties about a text.              *)
(***************************************************************************)
EXTENDS SourceText, FileClassification, IncludeResolver

CONSTANTS
    RepoName,           \* the name of the repository's directory
    WorktreeName,       \* the name of a temporary worktree's directory
    Classification,     \* the classification section of .archcheck.yml
    SourceNames,        \* the file names with an extension of kProjectExtensions
    Contents,           \* path -> the files that may be written there
    Typed,              \* the path of the file that is typed, and
    Lines,              \*   the sets of lines of one of which it is made
    MaxEdits,           \* bound: files edited since the last commit
    MaxTyped            \* bound: lines typed

ASSUME PathsAssumption == DOMAIN Contents \subseteq Seq(STRING) \ {<< >>} /\ Typed \in DOMAIN Contents

\* What is typed is text: lines of lexemes.
ASSUME TextAssumption ==
    /\ \A lines \in Lines : lines \subseteq Seq(STRING)
    /\ \A file \in Contents[Typed] : "text" \in DOMAIN file /\ file.text \in Seq(Seq(STRING))

\* mkTempWorktreeDir names it archcheck-worktree-XXXXXX: no curated library.
ASSUME WorktreeAssumption == normalizeDirSegment(WorktreeName) \notin kVendoredLibDirs

VARIABLES
    commit,             \* path -> file, as of the last commit
    tree,               \* path -> file, the working tree
    edits,              \* files edited since the last commit
    typed,              \* lines typed
    pc,                 \* "edit", or the next step of a run
    mode,               \* "memory" or "disk"
    registry,           \* the process-wide variables of the run
    base, current       \* the graphs of the run

vars == <<commit, tree, edits, typed, pc, mode, registry, base, current>>

files == <<commit, tree, edits, typed>>
run == <<pc, mode, registry, base, current>>

NoFiles == [p \in {} |-> {}]
NoGraph == [nodes |-> {}, included |-> {}, unconditional |-> {}]

-----------------------------------------------------------------------------
(* The file sources.                                                        *)

\* discoverFiles: excluded directories are not entered, nor links out of the
\* repository followed.
DiskList(t) ==
    {p \in DOMAIN t :
        /\ ~pathAnyDirSegment(p, isExcludedDirName)
        /\ t[p].link # "outside"
        /\ baseName(p) \in SourceNames}

\* GitObjectFileSource::list: a link is an object like any other, and a file
\* with the name of an excluded directory is left out as well.
GitList(t) == {p \in DOMAIN t : baseName(p) \in SourceNames /\ ~pathHasExcludedSegment(p)}

\* The blob of a link is the path that it leads to.
GitRead(file) == IF file.link = "none" THEN file ELSE [file EXCEPT !.text = <<<<"path">>>>, !.head = {}]

DiskRead(t) == [p \in DiskList(t) |-> t[p]]
GitRevision(t) == [p \in GitList(t) |-> GitRead(t[p])]

\* setSelfProjectDir, called when a source is opened.
openedAt(reg, dirName) == [reg EXCEPT !.selfProjectDir = normalizeDirSegment(dirName)]

\* toClassificationExtras and setClassificationExtras, once in a run.
applyClassificationConfig ==
    [selfProjectDir |-> "",
     vendoredDirs |-> {normalizeDirSegment(name) : name \in Classification.extraVendoredDirs},
     testDirs |-> {normalizeDirSegment(name) : name \in Classification.extraTestDirs},
     generatedMarkers |-> {ToLower[name] : name \in Classification.extraGeneratedMarkers}]

-----------------------------------------------------------------------------
(* buildGraphForSnapshot                                                    *)

Directives(file) == Range(scanIncludes(file.text).directives)

\* The edge of one include, if it is resolved.
applyResolved(p, authored, file) ==
    {[edge |-> <<p, resolveInclude(Includes[d.lex], p, authored).target>>,
      conditional |-> d.conditional] :
        d \in {x \in Directives(file) :
                  resolveInclude(Includes[x.lex], p, authored).resolution = "Project"}}

buildGraphForSnapshot(reg, read) ==
    LET authored == authoredPaths(reg, read)
        edges == UNION {applyResolved(p, authored, read[p]) : p \in authored}
    IN [nodes |-> authored,
        included |-> {e.edge : e \in edges},
        unconditional |-> {e.edge : e \in {x \in edges : ~x.conditional}}]

-----------------------------------------------------------------------------
(* The developer.                                                           *)

Init ==
    /\ commit = NoFiles /\ edits = 0 /\ typed = 0
    /\ tree \in {NoFiles} \cup {[p \in {Typed} |-> file] : file \in Contents[Typed]}
    /\ pc = "edit" /\ mode = "memory"
    /\ registry = applyClassificationConfig
    /\ base = NoGraph /\ current = NoGraph

Editing(p) == pc = "edit" /\ typed = 0 /\ edits < MaxEdits /\ edits' = edits + 1

Write(p, file) ==
    /\ Editing(p)
    /\ tree' = [q \in DOMAIN tree \cup {p} |-> IF q = p THEN file ELSE tree[q]]
    /\ tree' # tree
    /\ UNCHANGED <<commit, typed, run>>

Delete(p) ==
    /\ p \in DOMAIN tree
    /\ Editing(p)
    /\ tree' = [q \in DOMAIN tree \ {p} |-> tree[q]]
    /\ UNCHANGED <<commit, typed, run>>

Commit ==
    /\ pc = "edit" /\ typed = 0 /\ edits > 0
    /\ commit' = tree
    /\ edits' = 0
    /\ UNCHANGED <<tree, typed, run>>

Type(lines, line) ==
    /\ pc = "edit" /\ typed < MaxTyped
    /\ commit = NoFiles /\ DOMAIN tree = {Typed}
    /\ Range(tree[Typed].text) \subseteq lines
    /\ tree' = [tree EXCEPT ![Typed].text = Append(@, line)]
    /\ typed' = typed + 1
    /\ UNCHANGED <<commit, edits, run>>

-----------------------------------------------------------------------------
(* archcheck --diff HEAD.  A run is a process of its own.                   *)

Start(m) ==
    /\ pc = "edit" /\ typed = 0
    /\ pc' = "baseline" /\ mode' = m
    /\ registry' = applyClassificationConfig
    /\ UNCHANGED <<files, base, current>>

BaselineRead == IF mode = "memory" THEN GitRevision(commit) ELSE DiskRead(commit)

\* Mutant: only the disk source registers the name of its directory.
ReadBaselineUnregistered ==
    /\ pc = "baseline"
    /\ registry' = IF mode = "memory" THEN registry ELSE openedAt(registry, WorktreeName)
    /\ base' = buildGraphForSnapshot(registry', BaselineRead)
    /\ pc' = "current"
    /\ UNCHANGED <<files, mode, current>>

\* readRefSnapshotMemory, or buildSideDisk on a worktree of the revision.
ReadBaseline ==
    /\ pc = "baseline"
    /\ registry' = openedAt(registry, IF mode = "memory" THEN RepoName ELSE WorktreeName)
    /\ base' = buildGraphForSnapshot(registry', BaselineRead)
    /\ pc' = "current"
    /\ UNCHANGED <<files, mode, current>>

\* The working tree is read where it is, in both modes.
ReadCurrent ==
    /\ pc = "current"
    /\ registry' = openedAt(registry, RepoName)
    /\ current' = buildGraphForSnapshot(registry', DiskRead(tree))
    /\ pc' = "report"
    /\ UNCHANGED <<files, mode, base>>

End ==
    /\ pc = "report"
    /\ pc' = "edit" /\ mode' = "memory" /\ registry' = applyClassificationConfig
    /\ base' = NoGraph /\ current' = NoGraph
    /\ UNCHANGED files

Next ==
    \/ \E p \in DOMAIN Contents : \E file \in Contents[p] : Write(p, file)
    \/ \E p \in DOMAIN tree : Delete(p)
    \/ Commit
    \/ \E lines \in Lines : \E line \in lines : Type(lines, line)
    \/ \E m \in {"memory", "disk"} : Start(m)
    \/ ReadBaseline
    \/ ReadCurrent
    \/ End

Spec == Init /\ [][Next]_vars

-----------------------------------------------------------------------------
(* Properties of a text.                                                    *)

TypedText == tree[Typed].text
LexemesOf(text) == UNION {Range(text[n]) : n \in DOMAIN text}

\* How many of the logical lines from..to begin with a lexeme of S.
CountLines(lines, from, to, S) == Cardinality({k \in from..to : First(lines[k]) \in S})

\* An include is conditional exactly if it stands between an #if, #ifdef or
\* #ifndef other than that of the include guard, and the #endif that belongs
\* to it: counting without a stack must not let the #endif of the guard, or
\* one that closes nothing, decide for a later include.  SF.9 forgives cycles
\* of conditional includes.  (A text whose #endifs outnumber its #ifs is not
\* C++.)
ConditionalIsConditional ==
    Typed \in DOMAIN tree =>
        LET lines == View(TypedText)
            guard == detect_include_guard_offset(lines)
            Unclosed(j, i) == \A k \in j..i : CountLines(lines, j, k, Opens) > CountLines(lines, j, k, {"#endif"})
            directives == scanIncludes(TypedText).directives
        IN (\A k \in DOMAIN lines : CountLines(lines, 1, k, {"#endif"}) <= CountLines(lines, 1, k, Opens))
           => \A i \in DOMAIN directives :
                directives[i].conditional <=>
                  \E j \in 1..i : First(lines[j]) \in Opens /\ j # guard /\ Unclosed(j, i)

\* The texts that SF.7 reads as the include scanner does: no line holds two
\* comment markers (behind the first comment of a line SF.7 sees nothing), no
\* line is continued, there are no raw strings, and no brace closes too many.
Braces(lines, x, to) ==
    Len(FlattenSeq([n \in 1..to |-> SelectSeq(lines[n].lex, LAMBDA y : y = x)]))
SimplyCommented(text, lines) ==
    /\ LexemesOf(text) \cap {"R(", "\\"} = {}
    /\ \A n \in DOMAIN text : Len(SelectSeq(text[n], LAMBDA x : x \in {"//", "/*", "*/"})) <= 1
    /\ \A n \in DOMAIN text : "*/" \notin Range(lines[n].lex)
    /\ \A n \in DOMAIN text : Braces(lines, "{", n) >= Braces(lines, "}", n)

\* Does line n say `using namespace` at a place that is outside all braces?
\* The braces before it on its line count, those behind it do not.
SaysGlobalUsing(lines, n) ==
    LET code == lines[n].lex
        Until(x, i) == Braces(lines, x, n - 1) + Count(SubSeq(code, 1, i), x)
    IN  \E i \in DOMAIN code : code[i] = "using namespace" /\ Until("{", i) = Until("}", i)

\* SF.7 reports a line of such a text exactly if it says `using namespace`
\* outside all comments and braces.  It is wrong about four kinds of lines, which
\* are excepted: those with a closing brace before the directive or an opening
\* one behind it, with another `using` before it, and with
\* a `using` of a name that begins with "namespace".
ReadRight(code) ==
    \A i \in DOMAIN code :
        /\ code[i] # "using namespacex"
        /\ code[i] = "using namespace" =>
             /\ Range(SubSeq(code, 1, i - 1)) \cap {"}", "using x"} = {}
             /\ "{" \notin Range(SubSeq(code, i + 1, Len(code)))
Sf7ReportsGlobalUsing ==
    Typed \in DOMAIN tree =>
        LET lines == View(TypedText) IN
        SimplyCommented(TypedText, lines) =>
            \A n \in DOMAIN TypedText :
                ReadRight(lines[n].lex) =>
                    (n \in Sf7Lines(TypedText) <=> SaysGlobalUsing(lines, n))

\* A header whose include guard the scanner discounts is not reported by SF.8
\* as one without a guard, however many comments stand before it: the two look
\* for the guard, and strip comments, each in its own way.  Only the scanner
\* knows a guard with a blank behind the #, and SF.8 reports it.
Guarded(text) ==
    /\ LexemesOf(text) \cap {"R(", "\\", "#import"} = {}
    /\ detect_include_guard_offset(View(text)) # 0
GuardSeenByBoth ==
    Typed \in DOMAIN tree /\ Guarded(TypedText) /\ LexemesOf(TypedText) \cap WithBlank = {}
        => ~Sf8Reports(TypedText)

-----------------------------------------------------------------------------
(* Properties of a project.                                                 *)

OwnRegistry == openedAt(applyClassificationConfig, RepoName)

\* Files that are vendored, tests or generated have no say: the graph is the
\* one of the tree without them.  They could have a say through the vote on the
\* licence text, or as a further file that an include could mean.
UnauthoredFilesHaveNoSay ==
    LET read == DiskRead(tree)
        own == {p \in DOMAIN read : ~notOwn(OwnRegistry, p, read[p])}
    IN buildGraphForSnapshot(OwnRegistry, read)
         = buildGraphForSnapshot(OwnRegistry, [p \in own |-> read[p]])

\* The issues of `archcheck <prefix>`: sources are scanned relative to the
\* directory, and above it lies the rest of the repository.
ScanOf(prefix) ==
    [p \in {SubSeq(q, Len(prefix) + 1, Len(q)) : q \in {x \in DOMAIN DiskRead(tree) : IsPrefix(prefix, x)}}
        |-> tree[prefix \o p]]
UniverseOf(prefix) ==
    IF prefix = << >> THEN NoUniverse ELSE [prefix |-> prefix, files |-> DiskList(tree)]
ScanRegistry(prefix) ==
    openedAt(applyClassificationConfig, IF prefix = << >> THEN RepoName ELSE Last(prefix))

\* What is reported as a wrong spelling can be put right: with the spelling
\* that the report gives, the include is not reported any more.  This holds
\* for a scan of the whole repository and for one of a part of it, where the
\* file may lie outside the part.
FixedCaseIsSilent ==
    \A prefix \in {<< >>} \cup {SubSeq(p, 1, 1) : p \in {q \in DOMAIN tree : Len(q) > 1}} :
        LET read == ScanOf(prefix)
            authored == authoredPaths(ScanRegistry(prefix), read)
        IN \A p \in authored : \A x \in Directives(read[p]) :
             LET issue == classify(Includes[x.lex], p, authored, UniverseOf(prefix))
             IN issue.kind = "CaseMismatch" =>
                  classify([kind |-> Includes[x.lex].kind, token |-> issue.match], p, authored,
                           UniverseOf(prefix)) = Silent

\* A file that the revisions agree about is in both graphs of a diff or in
\* neither, so that nothing in it can look new, in whatever order the sources
\* set the registry.  Four exceptions: the change turns the majority on the
\* licence text; a disk diff reads the baseline in a directory of another
\* name, where the curated library that the repository is counts as vendored;
\* a link has another content for git than on disk, and git does not list a
\* file that is called like a directory of build results.
UnchangedFilesAgree ==
    pc = "report" =>
        \A p \in DOMAIN commit :
            \/ p \notin DOMAIN tree \/ commit[p] # tree[p]
            \/ fromFiles(OwnRegistry, BaselineRead) # fromFiles(OwnRegistry, DiskRead(tree))
            \/ /\ mode = "disk"
               /\ \E q \in DOMAIN commit : pathExcluded(openedAt(registry, WorktreeName), q)
                                             /\ ~pathExcluded(OwnRegistry, q)
            \/ commit[p].link # "none"
            \/ mode = "memory" /\ isExcludedDirName(baseName(p))
            \/ (p \in base.nodes <=> p \in current.nodes)
=============================================================================
