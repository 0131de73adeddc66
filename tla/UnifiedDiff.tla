----------------------------- MODULE UnifiedDiff -----------------------------
(***************************************************************************)
(* The two parsers of `git diff --unified=0` in src/src/git/diff_query.cpp: *)
(* parseUnifiedDiff collects the added lines, parseUnifiedDeletedDiff the   *)
(* deleted ones, each from the output of its own git.  The output is the    *)
(* same, so they are modelled side by side.                                 *)
(*                                                                         *)
(* Git prints a diff line by line; a line of the diff is a record.  Neither *)
(* parser counts the lines of a hunk: what a line is they decide from its   *)
(* first characters, so that an added line "++ ..." looks like the header   *)
(* "+++ ..." to the one, and a deleted "-- ..." like "--- ..." to the other.*)
(* Of the text of a line, only what it looks like is kept.                  *)
(***************************************************************************)
EXTENDS Integers

CONSTANTS
    Paths,              \* the files
    Quoted,             \* those with a byte outside ASCII: printed as "b/\303..."
    Tabbed,             \* path with a space -> the path and a tab, as "+++ b/..." has it
    Texts,              \* the texts of lines
    PlusPlus,           \* texts that begin with "++"
    MinusMinus,         \* texts that begin with "--"
    Posed               \* text -> the path p if it is "++ b/p" or "-- a/p"

DevNull == "/dev/null"
NoFile == ""

ASSUME NamesAssumption == {NoFile, DevNull} \cap Paths = {}

\* The end of a name in the lines "--- a/name" and "+++ b/name".
WithTab(p) == IF p \in DOMAIN Tabbed THEN Tabbed[p] ELSE p

VARIABLES
    place,              \* where git is: "start", in a "header", after "minus", among "hunks"
    oldPath, newPath,   \* the file, DevNull once "---" or "+++" say so
    oldLine, newLine,   \* its next line on either side
    delsLeft, addsLeft, \* the lines left of the hunk
    added, deleted,     \* the lines that were printed: <<path, number, text>>
    addedParser,        \* the parser of the added lines, and
    deletedParser       \*   that of the deleted ones

file == <<place, oldPath, newPath>>
hunk == <<oldLine, newLine, delsLeft, addsLeft>>
diffVars == <<file, hunk, added, deleted, addedParser, deletedParser>>

At(path, number, result) == [currentFile |-> path, currentLineNo |-> number, result |-> result]
NewParser == At(NoFile, 0, {})

DiffInit ==
    /\ place = "start" /\ oldPath = NoFile /\ newPath = NoFile
    /\ oldLine = 1 /\ newLine = 1 /\ delsLeft = 0 /\ addsLeft = 0
    /\ added = {} /\ deleted = {}
    /\ addedParser = NewParser /\ deletedParser = NewParser

-----------------------------------------------------------------------------
(* The parser of added lines.                                               *)

\* A name in "+++ b/name" or "--- a/name"; one that is not understood changes nothing.
Named(p, path) == IF path \in Quoted \cup {DevNull} THEN p.currentFile ELSE WithTab(path)
PosedAs(p, text) == IF text \in DOMAIN Posed THEN Posed[text] ELSE p.currentFile

\* The number goes up; a collected line is added to the result.
Count(p) == At(p.currentFile, p.currentLineNo + 1, p.result)
Collect(p, text) ==
    At(p.currentFile, p.currentLineNo + 1, p.result \cup {<<p.currentFile, p.currentLineNo, text>>})

\* processHeaderOrHunk: what a line does before it is looked at as content.
\* newStart is what "@@ ... +start" says.
processHeaderOrHunk(p, line) ==
    IF line.kind = "diff" THEN At(IF line.new \in Quoted THEN p.currentFile ELSE line.new, 0, p.result)
    ELSE IF line.kind = "+++" THEN At(Named(p, line.path), 0, p.result)
    ELSE IF line.kind = "+" /\ line.text \in PlusPlus THEN At(PosedAs(p, line.text), 0, p.result)
    ELSE IF line.kind = "@@" THEN At(p.currentFile, line.newStart, p.result)
    ELSE p

\* Mutant: the header of a hunk is counted as a line of context as well.
processContentLineCounting(p, line) ==
    IF line.kind = "+" /\ p.currentLineNo > 0 /\ p.currentFile # NoFile THEN Collect(p, line.text)
    ELSE IF line.kind \in {"diff", "metadata", "@@"} /\ p.currentLineNo > 0 THEN Count(p)
    ELSE p

\* Lines of context would be counted, but there are none: what is left are the
\* lines of a file's header, where the number is 0.
processContentLine(p, line) ==
    IF line.kind = "+" /\ p.currentLineNo > 0 /\ p.currentFile # NoFile THEN Collect(p, line.text)
    ELSE IF line.kind \in {"diff", "metadata"} /\ p.currentLineNo > 0 THEN Count(p)
    ELSE p

-----------------------------------------------------------------------------
(* The parser of deleted lines.                                             *)

processDeletedHeaderOrHunk(p, line) ==
    IF line.kind = "diff"
    THEN At(IF {line.old, line.new} \cap Quoted # {} THEN p.currentFile ELSE line.old, 0, p.result)
    ELSE IF line.kind = "---" THEN At(Named(p, line.path), 0, p.result)
    ELSE IF line.kind = "-" /\ line.text \in MinusMinus THEN At(PosedAs(p, line.text), 0, p.result)
    ELSE IF line.kind = "@@" THEN At(p.currentFile, line.oldStart, p.result)
    ELSE p

\* Mutant: the number stays.
processDeletedContentLineUncounted(p, line) ==
    IF line.kind = "-" /\ p.currentLineNo > 0 /\ p.currentFile # NoFile
    THEN At(p.currentFile, p.currentLineNo, Collect(p, line.text).result)
    ELSE p

\* The number goes up even where it was 0.
processDeletedContentLine(p, line) ==
    IF line.kind = "-" /\ p.currentLineNo > 0 /\ p.currentFile # NoFile THEN Collect(p, line.text)
    ELSE IF line.kind \in {"-", "---"} THEN Count(p)
    ELSE IF line.kind \in {"diff", "metadata"} /\ p.currentLineNo > 0 THEN Count(p)
    ELSE p

\* Both parsers read a line.
Read(line) ==
    /\ addedParser' = processContentLine(processHeaderOrHunk(addedParser, line), line)
    /\ deletedParser' = processDeletedContentLine(processDeletedHeaderOrHunk(deletedParser, line), line)

-----------------------------------------------------------------------------
(* Git.                                                                     *)

InHunk == delsLeft > 0 \/ addsLeft > 0

\* "diff --git a/old b/new"
PrintDiff(line) ==
    /\ line.kind = "diff" /\ ~InHunk /\ line.old \in Paths /\ line.new \in Paths
    /\ place' = "header" /\ oldPath' = line.old /\ newPath' = line.new
    /\ oldLine' = 1 /\ newLine' = 1
    /\ Read(line)
    /\ UNCHANGED <<delsLeft, addsLeft, added, deleted>>

\* The mode, the similarity, the names of a renamed file, the ids of the blobs.
PrintMetadata(line) ==
    /\ line.kind = "metadata" /\ place = "header"
    /\ Read(line)
    /\ UNCHANGED <<file, hunk, added, deleted>>

PrintMinus(line) ==
    /\ line.kind = "---" /\ place = "header" /\ line.path \in {oldPath, DevNull}
    /\ place' = "minus" /\ oldPath' = line.path
    /\ Read(line)
    /\ UNCHANGED <<newPath, hunk, added, deleted>>

PrintPlus(line) ==
    /\ line.kind = "+++" /\ place = "minus" /\ line.path \in {newPath, DevNull}
    /\ place' = "hunks" /\ newPath' = line.path
    /\ Read(line)
    /\ UNCHANGED <<oldPath, hunk, added, deleted>>

\* A hunk: what it deletes and adds after the lines that are skipped.  Git
\* prints the line before it for a side without lines.
PrintHunk(line) ==
    /\ line.kind = "@@" /\ place = "hunks" /\ ~InHunk
    /\ line.skip \in Nat /\ line.dels \in Nat /\ line.adds \in Nat /\ line.dels + line.adds > 0
    /\ oldPath = DevNull => line.dels = 0
    /\ newPath = DevNull => line.adds = 0
    /\ line.oldStart = oldLine + line.skip - IF line.dels = 0 THEN 1 ELSE 0
    /\ line.newStart = newLine + line.skip - IF line.adds = 0 THEN 1 ELSE 0
    /\ oldLine' = oldLine + line.skip /\ newLine' = newLine + line.skip
    /\ delsLeft' = line.dels /\ addsLeft' = line.adds
    /\ Read(line)
    /\ UNCHANGED <<file, added, deleted>>

PrintDeleted(line) ==
    /\ line.kind = "-" /\ delsLeft > 0 /\ line.text \in Texts
    /\ delsLeft' = delsLeft - 1 /\ oldLine' = oldLine + 1
    /\ deleted' = deleted \cup {<<oldPath, oldLine, line.text>>}
    /\ Read(line)
    /\ UNCHANGED <<file, newLine, addsLeft, added>>

PrintAdded(line) ==
    /\ line.kind = "+" /\ delsLeft = 0 /\ addsLeft > 0 /\ line.text \in Texts
    /\ addsLeft' = addsLeft - 1 /\ newLine' = newLine + 1
    /\ added' = added \cup {<<newPath, newLine, line.text>>}
    /\ Read(line)
    /\ UNCHANGED <<file, oldLine, delsLeft, deleted>>

\* "\ No newline at end of file"
PrintNoNewline(line) ==
    /\ line.kind = "\\" /\ place = "hunks"
    /\ Read(line)
    /\ UNCHANGED <<file, hunk, added, deleted>>

Prints(line) ==
    \/ PrintDiff(line) \/ PrintMetadata(line) \/ PrintMinus(line) \/ PrintPlus(line)
    \/ PrintHunk(line) \/ PrintDeleted(line) \/ PrintAdded(line) \/ PrintNoNewline(line)

\* Every line that a diff may have.
DiffLines ==
    [kind : {"diff"}, old : Paths, new : Paths]
    \cup [kind : {"metadata", "\\"}]
    \cup [kind : {"---", "+++"}, path : Paths \cup {DevNull}]
    \cup [kind : {"@@"}, skip : Nat, dels : Nat, adds : Nat, oldStart : Int, newStart : Int]
    \cup [kind : {"-", "+"}, text : Texts]

DiffSpec == DiffInit /\ [][\E line \in DiffLines : Prints(line)]_diffVars

-----------------------------------------------------------------------------
PlainPaths == Paths \ (Quoted \cup DOMAIN Tabbed)

\* No line printed so far is in a file with an odd name.
PlainNames == \A x \in added \cup deleted : x[1] \in PlainPaths

\* The added lines are read with the numbers they have in the new file, all of
\* them, as long as no name is odd and none begins with "++"; and if one begins
\* with "++" but does not pose as the header of a file, lines may be missed but
\* none is made up.  New clones, debt markers and flag arguments are reported
\* where a line was added.
AddedLinesRead ==
    PlainNames =>
        /\ (\A x \in added : x[3] \notin PlusPlus) => addedParser.result = added
        /\ (\A x \in added : x[3] \notin PlusPlus \cap DOMAIN Posed) => addedParser.result \subseteq added

\* The deleted lines are read with the numbers they have in the old file, all
\* of them, as long as no name is odd and none begins with "--": a fragment
\* that touches one of them is taken for moved.
DeletedLinesRead ==
    PlainNames /\ (\A x \in deleted : x[3] \notin MinusMinus) => deletedParser.result = deleted
=============================================================================
