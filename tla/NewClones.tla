------------------------------ MODULE NewClones ------------------------------
(***************************************************************************)
(* src/src/scan/new_clone_drift.cpp and its caller in                       *)
(* src/src/cli/diff_command.cpp: the clones that a change introduces.       *)
(*                                                                         *)
(* A developer edits the functions of a few files; git prints the           *)
(* difference, line by line, to the parsers of UnifiedDiff; the parent tree *)
(* is scanned for clones, then the new one, and what is left of the new     *)
(* pairs is reported.                                                       *)
(***************************************************************************)
EXTENDS UnifiedDiff, DuplicationScanner

CONSTANTS
    Order,              \* the paths, in the order of a listing
    Chunks,             \* name -> the lines of a function or of another piece of code
    Rewrites,           \* name -> the names of what it can be rewritten to
    NoNewline,          \* the files whose last line does not end
    Baselines,          \* the trees there are at first, each with a number of edits
    maxAddedLines, maxCloneScanBytes

VARIABLES
    parent, tree,       \* the two revisions: path -> the names of its chunks
    edits,              \* the edits that are left
    script,             \* what git has still to print
    stage,              \* "edit", "diff", "parent", "new", "done"
    parentKeys,         \* the clones of the parent tree
    deletedKeys,        \* the contents of its fragments that lost a line
    reported

cloneVars == <<parent, tree, edits, script, stage, parentKeys, deletedKeys, reported, scan, diffVars>>
driftVars == <<parentKeys, deletedKeys, reported, scan>>

TextOf(revision, p) ==
    FlattenSeq([k \in DOMAIN revision[p] |-> Chunks[revision[p][k]]])

\* Whatever the snapshot does not take for authored is not scanned.
authoredSources(revision) ==
    LET present == SelectSeq(Order, LAMBDA p : p \in DOMAIN revision \ generatedPaths)
    IN [k \in DOMAIN present |-> [path |-> present[k], text |-> TextOf(revision, present[k])]]

authoredBytes(revision) ==
    LET sources == authoredSources(revision)
    IN Fold(LAMBDA bytes, s : bytes + Size(s.text), 0, sources)

CloneInit ==
    /\ DiffInit
    /\ \E b \in Baselines : parent = b.tree /\ tree = b.tree /\ edits = b.edits
    /\ script = << >> /\ stage = "edit"
    /\ parentKeys = {} /\ deletedKeys = {} /\ reported = {}
    /\ scan = NoScan

-----------------------------------------------------------------------------
(* The developer.                                                           *)

Edit(revision) ==
    /\ stage = "edit" /\ edits > 0
    /\ tree' = revision /\ edits' = edits - 1
    /\ UNCHANGED <<parent, script, stage, driftVars, diffVars>>

With(revision, p, chunks) == [q \in DOMAIN revision \cup {p} |-> IF q = p THEN chunks ELSE revision[q]]

\* A chunk goes to the beginning or the end of a file, or of a new one.
Inserted(revision, p, c) ==
    {With(revision, p, s) :
        s \in LET old == IF p \in DOMAIN revision THEN revision[p] ELSE << >> IN {<<c>> \o old, Append(old, c)}}

\* A file that loses its last chunk is deleted.
Removed(revision, p, k) ==
    IF Len(revision[p]) > 1 THEN With(revision, p, RemoveAt(revision[p], k))
    ELSE [q \in DOMAIN revision \ {p} |-> revision[q]]

Paste == \E p \in DOMAIN tree, q \in Paths : \E k \in DOMAIN tree[p] :
            \E revision \in Inserted(tree, q, tree[p][k]) : Edit(revision)

Move == \E p \in DOMAIN tree, q \in Paths : \E k \in DOMAIN tree[p] :
            \E revision \in Inserted(Removed(tree, p, k), q, tree[p][k]) : Edit(revision)

Cut == \E p \in DOMAIN tree : \E k \in DOMAIN tree[p] : Edit(Removed(tree, p, k))

Rewrite == \E p \in DOMAIN tree : \E k \in DOMAIN tree[p] : \E c \in Rewrites[tree[p][k]] :
            Edit([tree EXCEPT ![p][k] = c])

RenameFile == \E p \in DOMAIN tree, q \in Paths \ DOMAIN tree :
            Edit([r \in (DOMAIN tree \ {p}) \cup {q} |-> IF r = q THEN tree[p] ELSE tree[r]])

-----------------------------------------------------------------------------
(* What git prints.                                                         *)

\* The lines as git compares them: the last one may lack its end.
LinesOf(revision, p) ==
    IF p \notin DOMAIN revision THEN << >>
    ELSE LET text == TextOf(revision, p)
         IN [n \in DOMAIN text |-> [text |-> text[n], ends |-> n < Len(text) \/ p \notin NoNewline]]

\* A longest common subsequence: the pairs of positions it joins.
Kept(a, b) ==
    LET Longer(s, t) == IF Len(s) > Len(t) THEN s ELSE t
        Cell(prev, i, cur, j) == IF a[i] = b[j] THEN Append(prev[j], <<i, j>>) ELSE Longer(prev[j + 1], Last(cur))
        Row(prev, i) ==
            Fold(LAMBDA cur, j : Append(cur, Cell(prev, i, cur, j)), << << >> >>, [j \in 1..Len(prev) - 1 |-> j])
    IN Last(Fold(Row, [j \in 1..Len(b) + 1 |-> << >>], [i \in DOMAIN a |-> i]))

ContentLines(kind, lines) ==
    FlattenSeq([k \in DOMAIN lines |->
        <<[kind |-> kind, text |-> lines[k].text]>> \o IF lines[k].ends THEN << >> ELSE <<[kind |-> "\\"]>>])

\* The hunks between the lines that are kept.  A hunk starts, on a side without
\* lines, at the line before it.
Hunks(a, b) ==
    LET kept == Append(Kept(a, b), <<Len(a) + 1, Len(b) + 1>>)
        Step(acc, k) ==
            LET dels == SubSeq(a, acc.at[1] + 1, k[1] - 1)
                adds == SubSeq(b, acc.at[2] + 1, k[2] - 1)
                start == [old |-> acc.at[1] + IF dels = << >> THEN 0 ELSE 1,
                          new |-> acc.at[2] + IF adds = << >> THEN 0 ELSE 1]
            IN IF dels = << >> /\ adds = << >> THEN [acc EXCEPT !.at = k, !.skip = @ + 1]
               ELSE [at |-> k, skip |-> 1,
                     out |-> acc.out
                             \o <<[kind |-> "@@", skip |-> acc.skip, dels |-> Len(dels), adds |-> Len(adds),
                                   oldStart |-> start.old, newStart |-> start.new]>>
                             \o ContentLines("-", dels) \o ContentLines("+", adds)]
    IN Fold(Step, [at |-> <<0, 0>>, skip |-> 0, out |-> << >>], kept).out

\* The file of the parent tree that a new file is an exact copy of, if that
\* file is gone.
RenamedFrom(p) ==
    {q \in DOMAIN parent \ DOMAIN tree : p \in DOMAIN tree \ DOMAIN parent /\ LinesOf(parent, q) = LinesOf(tree, p)}

DiffOfFile(p) ==
    LET a == LinesOf(parent, p)
        b == LinesOf(tree, p)
        Side(revision) == IF p \in DOMAIN revision THEN p ELSE DevNull
    IN IF RenamedFrom(p) # {}
       THEN <<[kind |-> "diff", old |-> CHOOSE q \in RenamedFrom(p) : TRUE, new |-> p], [kind |-> "metadata"]>>
       ELSE IF a = b \/ \E q \in Paths : p \in RenamedFrom(q) THEN << >>
       ELSE <<[kind |-> "diff", old |-> p, new |-> p], [kind |-> "metadata"],
              [kind |-> "---", path |-> Side(parent)], [kind |-> "+++", path |-> Side(tree)]>> \o Hunks(a, b)

GitDiff ==
    /\ stage = "edit" /\ stage' = "diff"
    /\ script' = FlattenSeq([k \in DOMAIN Order |-> DiffOfFile(Order[k])])
    /\ UNCHANGED <<parent, tree, edits, driftVars, diffVars>>

PrintLine ==
    /\ stage = "diff" /\ script # << >>
    /\ Prints(Head(script))
    /\ script' = Tail(script)
    /\ UNCHANGED <<parent, tree, edits, stage, driftVars>>

-----------------------------------------------------------------------------
(* The detector.                                                            *)

addedLines == {<<x[1], x[2]>> : x \in addedParser.result}
deletedLines == {<<x[1], x[2]>> : x \in deletedParser.result}
focus == {x[1] : x \in addedLines \cup deletedLines}

fragKey(f) == <<f.file, f.seq>>

\* Mutant: the place belongs to the contents.
contentKeyInFile(f) == <<f.file, f.seq>>

contentKey(f) == <<f.seq>>
pairKey(a, b) == {fragKey(a), fragKey(b)}

touches(f, lines) == \E ln \in f.startLine..f.endLine : <<f.file, ln>> \in lines

deletedFragmentKeys(s) ==
    {contentKey(s.fragments[i]) : i \in {j \in DOMAIN s.fragments : touches(s.fragments[j], deletedLines)}}

parentPairKeys(s) ==
    {pairKey(s.fragments[p.a], s.fragments[p.b]) : p \in s.pairs}

\* Nothing was added, or too much, or the tree is too large.
NothingToScan == addedLines = {} \/ Cardinality(added) > maxAddedLines \/ authoredBytes(tree) > maxCloneScanBytes

Skip ==
    /\ stage = "diff" /\ script = << >> /\ NothingToScan
    /\ stage' = "done"
    /\ UNCHANGED <<parent, tree, edits, script, driftVars, diffVars>>

ScanParent ==
    /\ stage = "diff" /\ script = << >> /\ ~NothingToScan
    /\ stage' = "parent"
    /\ Tokenize(authoredSources(parent))
    /\ UNCHANGED <<parent, tree, edits, script, parentKeys, deletedKeys, reported, diffVars>>

\* The guard for whole files is on for the new tree only.
ContinueScan ==
    /\ stage \in {"parent", "new"}
    /\ Index \/ Score(stage = "new", focus)
    /\ UNCHANGED <<parent, tree, edits, script, stage, parentKeys, deletedKeys, reported, diffVars>>

ScanNew ==
    /\ stage = "parent" /\ scan.step = "pairs"
    /\ stage' = "new"
    /\ parentKeys' = parentPairKeys(scan)
    /\ deletedKeys' = deletedFragmentKeys(scan)
    /\ Tokenize(authoredSources(tree))
    /\ UNCHANGED <<parent, tree, edits, script, reported, diffVars>>

\* The pairs of which a side was touched, unless that side was moved there or
\* the pair was there before.
emitNewClones(s) ==
    LET Span(f) == [file |-> f.file, startLine |-> f.startLine, endLine |-> f.endLine]
        Moved(f) == touches(f, addedLines) /\ contentKey(f) \in deletedKeys
        IsNew(p) ==
            LET fa == s.fragments[p.a]
                fb == s.fragments[p.b]
            IN /\ touches(fa, addedLines) \/ touches(fb, addedLines)
               /\ ~Moved(fa) /\ ~Moved(fb)
               /\ pairKey(fa, fb) \notin parentKeys
        Violation(p) ==
            LET fa == s.fragments[p.a]
                fb == s.fragments[p.b]
            IN IF touches(fa, addedLines)
               THEN [introduced |-> Span(fa), source |-> Span(fb), type |-> cloneType(fa, fb)]
               ELSE [introduced |-> Span(fb), source |-> Span(fa), type |-> cloneType(fa, fb)]
    IN {Violation(p) : p \in {q \in s.pairs : IsNew(q)}}

Emit ==
    /\ stage = "new" /\ scan.step = "pairs"
    /\ stage' = "done"
    /\ reported' = emitNewClones(scan)
    /\ scan' = NoScan
    /\ UNCHANGED <<parent, tree, edits, script, parentKeys, deletedKeys, diffVars>>

CloneNext ==
    \/ Paste \/ Move \/ Cut \/ Rewrite \/ RenameFile
    \/ GitDiff \/ PrintLine
    \/ Skip \/ ScanParent \/ ContinueScan \/ ScanNew \/ Emit

CloneSpec == CloneInit /\ [][CloneNext]_cloneVars

-----------------------------------------------------------------------------
(* Properties.                                                              *)

\* What the scan under way could find if all pairs were in focus, in focus.
FoundOfAll ==
    LET InFocus(p) == {scan.fragments[p.a].file, scan.fragments[p.b].file} \cap focus # {}
    IN {{p \in pairs : InFocus(p)} : pairs \in Clones(scan.fragments, scan.index, stage = "new", {})}

Found == stage \in {"parent", "new"} /\ scan.step = "pairs"

\* What the scan of the pairs in focus finds, a scan of all pairs could find
\* there: no filter that looks at other pairs needs one that is out of focus.
\* With few pairs, this is all that a scan of all pairs could find; with many,
\* std::sort leaves open which of two equal pairs that overlap is kept, so that
\* the two may differ, against the "without changing the result" of
\* duplication_scanner.h:70.
FocusIsExact == Found => scan.pairs \in FoundOfAll

Copies(revision, c) == Cardinality({x \in UNION {{p} \X DOMAIN revision[p] : p \in DOMAIN revision} :
                                        revision[x[1]][x[2]] = c})

\* A change that only moves code, within a file, between files or with its file,
\* is not reported as a copy, whatever lines git takes for added and deleted.
\* They must have been read as they are: with a name outside ASCII the lines
\* added to it count for the file before it, and the move is reported there.
MoveIsNotACopy ==
    /\ stage = "done"
    /\ \A c \in DOMAIN Chunks : Copies(parent, c) = Copies(tree, c)
    /\ deletedParser.result = deleted /\ addedParser.result \subseteq added
    => reported = {}
=============================================================================
