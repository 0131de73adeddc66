-------------------------- MODULE GitOutput_proofs --------------------------
(***************************************************************************)
(* Proofs about the output of git commands: that runGit hands over the      *)
(* whole of it or reports a failure (GitExec), for pipes, buffers and       *)
(* outputs of every size; and that the two parsers of a diff collect from   *)
(* it the lines that were added and deleted, in the files and at the        *)
(* numbers that they have there (UnifiedDiff), for every diff that git      *)
(* prints, of any number of files, hunks and lines.                         *)
(***************************************************************************)
EXTENDS GitExec, UnifiedDiff, TLAPS

-----------------------------------------------------------------------------
(* GitExec.                                                                 *)

\* No byte is lost or made up on its way: what the child wrote is in the pipe
\* or was collected.
BytesConserved ==
    /\ out + outPipe = outWritten
    /\ err + errPipe = errWritten

\* Where the child can be while the parent is at each of its steps.
Phases ==
    /\ pc = "fork" => child = "absent"
    /\ pc \in {"out", "err", "wait"} => child \in {"running", "exited", "signalled"}
    /\ pc = "done" => child \in {"absent", "reaped"}
    /\ child = "absent" => exitCode = -1
    /\ child \in {"absent", "running", "exited", "signalled"} /\ pc # "done" => exitCode = -1
    /\ child = "absent" => outWritten = 0 /\ errWritten = 0
    /\ child = "exited" => outWritten = outSize /\ errWritten = errSize

\* A pipe that was read to its end stays empty: its writer is gone.
Drained ==
    /\ pc \in {"err", "wait"} => outPipe = 0 /\ child # "running"
    /\ pc = "wait" => errPipe = 0
    /\ pc = "done" => outPipe = 0 /\ errPipe = 0

RunIInv == TypeOK /\ BytesConserved /\ Phases /\ Drained /\ ExitCodeMeansWholeOutput

\* Before the fork nothing was written and nothing read.
LEMMA InitRunIInv == Init => RunIInv
BY SizesAssumption
   DEF Init, RunIInv, TypeOK, BytesConserved, Phases, Drained, ExitCodeMeansWholeOutput

\* One read takes no more than there is in the pipe.
LEMMA LeastIs ==
    ASSUME NEW a \in Nat, NEW b \in Nat
    PROVE  Least(a, b) \in Nat /\ Least(a, b) <= a
BY DEF Least

\* Every step of the parent, of the child and of who kills it keeps the
\* invariant.
LEMMA RunIInvStep == RunIInv /\ [Next]_vars => RunIInv'
<1> SUFFICES ASSUME RunIInv, [Next]_vars PROVE RunIInv'
  OBVIOUS
<1> USE SizesAssumption, ExitCodesAssumption
    DEF RunIInv, TypeOK, BytesConserved, Phases, Drained, ExitCodeMeansWholeOutput,
        plan, childVars, parentVars, WritersGone
<1>1. CASE WriteOut
  BY <1>1 DEF WriteOut
<1>2. CASE WriteErr
  BY <1>2 DEF WriteErr
<1>3. CASE Exit
  BY <1>3 DEF Exit
<1>4. CASE Signal
  BY <1>4 DEF Signal
<1>5. CASE Fork
  BY <1>5 DEF Fork
<1>6. CASE ForkFails
  BY <1>6 DEF ForkFails
<1>7. CASE DrainOut
  <2>1. Least(outPipe, BufferSize) \in Nat /\ Least(outPipe, BufferSize) <= outPipe
    BY LeastIs
  <2> QED
    BY <1>7, <2>1 DEF DrainOut
<1>8. CASE EndOfOut
  BY <1>8 DEF EndOfOut
<1>9. CASE DrainErr
  <2>1. Least(errPipe, BufferSize) \in Nat /\ Least(errPipe, BufferSize) <= errPipe
    BY LeastIs
  <2> QED
    BY <1>9, <2>1 DEF DrainErr
<1>10. CASE EndOfErr
  BY <1>10 DEF EndOfErr
<1>11. CASE Wait
  BY <1>11 DEF Wait
<1>12. CASE UNCHANGED vars
  BY <1>12 DEF vars
<1> QED
  BY <1>1, <1>2, <1>3, <1>4, <1>5, <1>6, <1>7, <1>8, <1>9, <1>10, <1>11, <1>12
     DEF Next, Child, Parent

\* The types of runGit's state and of the two pipes.
THEOREM TypeCorrect == Spec => []TypeOK
<1>1. RunIInv => TypeOK
  BY DEF RunIInv
<1> QED
  BY <1>1, InitRunIInv, RunIInvStep, PTL DEF Spec

\* An exit code is reported only together with the whole output of git.
THEOREM WholeOutput == Spec => []ExitCodeMeansWholeOutput
<1>1. RunIInv => ExitCodeMeansWholeOutput
  BY DEF RunIInv
<1> QED
  BY <1>1, InitRunIInv, RunIInvStep, PTL DEF Spec

\* When runGit returns, the child has been waited for and its pipes are empty.
THEOREM Reaped == Spec => []NoZombieNoRest
<1>1. RunIInv => NoZombieNoRest
  BY DEF RunIInv, Phases, Drained, NoZombieNoRest
<1> QED
  BY <1>1, InitRunIInv, RunIInvStep, PTL DEF Spec

\* The only mutual wait is on a stderr longer than a pipe.
THEOREM MutualWait == Spec => []BlockedOnlyByLongStderr
<1>1. RunIInv => BlockedOnlyByLongStderr
  <2> SUFFICES ASSUME RunIInv, ParentBlocked, ChildBlocked
               PROVE  pc = "out" /\ errSize > PipeCapacity
    BY DEF BlockedOnlyByLongStderr
  <2>1. pc = "out" /\ outPipe = 0
    BY DEF RunIInv, Drained, ParentBlocked, ChildBlocked, WritersGone
  <2>2. outWritten = outSize /\ errWritten < errSize /\ errPipe = PipeCapacity
    BY <2>1, SizesAssumption DEF RunIInv, TypeOK, ChildBlocked
  <2>3. errPipe <= errWritten
    BY SizesAssumption DEF RunIInv, TypeOK, BytesConserved
  <2> QED
    BY <2>1, <2>2, <2>3, SizesAssumption DEF RunIInv, TypeOK
<1> QED
  BY <1>1, InitRunIInv, RunIInvStep, PTL DEF Spec

-----------------------------------------------------------------------------
(* UnifiedDiff.                                                             *)

Names == Paths \cup {NoFile, DevNull}
         \cup {Tabbed[p] : p \in DOMAIN Tabbed} \cup {Posed[t] : t \in DOMAIN Posed}
Collected == SUBSET (Names \X Int \X Texts)
Parser == [currentFile : Names, currentLineNo : Int, result : Collected]

DiffTypeOK ==
    /\ place \in {"start", "header", "minus", "hunks"}
    /\ oldPath \in Paths \cup {NoFile, DevNull} /\ newPath \in Paths \cup {NoFile, DevNull}
    /\ oldLine \in Nat \ {0} /\ newLine \in Nat \ {0} /\ delsLeft \in Nat /\ addsLeft \in Nat
    /\ added \in Collected /\ deleted \in Collected
    /\ addedParser \in Parser /\ deletedParser \in Parser

\* Lines are left only of a hunk, and only on a side that there is.
HunkInv ==
    /\ place = "start" => oldPath = NoFile /\ newPath = NoFile
    /\ place # "start" => oldPath # NoFile /\ newPath # NoFile
    /\ place # "hunks" => delsLeft = 0 /\ addsLeft = 0
    /\ delsLeft > 0 => oldPath \in Paths
    /\ addsLeft > 0 => newPath \in Paths

NoPlusPlus == \A x \in added : x[3] \notin PlusPlus
NoPosed == \A x \in added : x[3] \notin PlusPlus \cap DOMAIN Posed
NoMinusMinus == \A x \in deleted : x[3] \notin MinusMinus

\* In a file with a plain name the parser of added lines is in that file, and
\* in a hunk it is at git's next line; it may have lost the number, and the
\* rest of the hunk with it, to a line that begins with "++".
AddedInv ==
    PlainNames /\ NoPosed =>
        /\ newPath \in PlainPaths => addedParser.currentFile = newPath
        /\ addsLeft > 0 => addedParser.currentLineNo \in {0, newLine}
        /\ addedParser.result \subseteq added
        /\ NoPlusPlus => /\ addsLeft > 0 => addedParser.currentLineNo = newLine
                         /\ addedParser.result = added

\* The parser of deleted lines is sure of its file only after "---".
DeletedInv ==
    PlainNames /\ NoMinusMinus =>
        /\ place \in {"minus", "hunks"} /\ oldPath \in PlainPaths
               => deletedParser.currentFile = oldPath
        /\ delsLeft > 0 => deletedParser.currentLineNo = oldLine
        /\ deletedParser.result = deleted

DiffIInv == DiffTypeOK /\ HunkInv /\ AddedInv /\ DeletedInv

-----------------------------------------------------------------------------
\* Before the first line no parser has collected anything.
LEMMA InitDiffIInv == DiffInit => DiffIInv
BY NamesAssumption
   DEF DiffInit, NewParser, At, DiffIInv, DiffTypeOK, HunkInv, AddedInv, DeletedInv, PlainPaths,
       Names, Collected, Parser

\* A parser that was told /dev/null has been told a file.
LEMMA NoFileIsNotDevNull == NoFile # DevNull
BY DEF NoFile, DevNull

\* What there is in a line.
LEMMA LineFields ==
    ASSUME NEW line \in DiffLines
    PROVE  /\ line.kind = "diff" => line.old \in Paths /\ line.new \in Paths
           /\ line.kind \in {"diff", "metadata", "\\", "---", "+++", "@@", "-", "+"}
           /\ line.kind \in {"---", "+++"} => line.path \in Paths \cup {DevNull}
           /\ line.kind \in {"-", "+"} => line.text \in Texts
           /\ line.kind = "@@" => line.oldStart \in Int /\ line.newStart \in Int
<1>1. CASE line \in [kind : {"diff"}, old : Paths, new : Paths]
  BY <1>1
<1>2. CASE line \in [kind : {"metadata", "\\"}]
  BY <1>2
<1>3. CASE line \in [kind : {"---", "+++"}, path : Paths \cup {DevNull}]
  BY <1>3
<1>4. CASE line \in [kind : {"@@"}, skip : Nat, dels : Nat, adds : Nat, oldStart : Int, newStart : Int]
  BY <1>4
<1>5. CASE line \in [kind : {"-", "+"}, text : Texts]
  BY <1>5
<1> QED
  BY <1>1, <1>2, <1>3, <1>4, <1>5 DEF DiffLines

(* What the steps of the parsers do to a parser.                            *)

\* At, Named, PosedAs, Count and Collect give what a parser may hold.
LEMMA AtType ==
    ASSUME NEW path \in Names, NEW number \in Int, NEW result \in Collected
    PROVE  At(path, number, result) \in Parser
BY DEF At, Parser

LEMMA NamedType ==
    ASSUME NEW p \in Parser, NEW path \in Paths \cup {DevNull}
    PROVE  Named(p, path) \in Names
BY DEF Parser, Named, WithTab, Names

LEMMA PosedType ==
    ASSUME NEW p \in Parser, NEW text \in Texts
    PROVE  PosedAs(p, text) \in Names
BY DEF Parser, PosedAs, Names

LEMMA CountType == ASSUME NEW p \in Parser PROVE Count(p) \in Parser
BY AtType DEF Parser, Count

LEMMA CollectType ==
    ASSUME NEW p \in Parser, NEW text \in Texts
    PROVE  Collect(p, text) \in Parser
BY AtType DEF Parser, Collect, Collected

\* Both parsers keep their types, whatever line they read.
LEMMA ReadType ==
    ASSUME DiffTypeOK, NEW line \in DiffLines, Read(line)
    PROVE  addedParser' \in Parser /\ deletedParser' \in Parser
<1> DEFINE p == processHeaderOrHunk(addedParser, line)
           q == processDeletedHeaderOrHunk(deletedParser, line)
<1>1. p \in Parser
  <2>0. addedParser \in Parser /\ Paths \subseteq Names /\ addedParser.currentFile \in Names /\ addedParser.result \in Collected
    BY DEF DiffTypeOK, Parser, Names
  <2>1. CASE line.kind = "diff"
    BY <2>0, <2>1, LineFields, AtType DEF processHeaderOrHunk
  <2>2. CASE line.kind # "diff"
    BY <2>0, <2>2, LineFields, AtType, NamedType, PosedType DEF processHeaderOrHunk
  <2> QED
    BY <2>1, <2>2
<1>2. q \in Parser
  <2>0. deletedParser \in Parser /\ Paths \subseteq Names /\ deletedParser.currentFile \in Names /\ deletedParser.result \in Collected
    BY DEF DiffTypeOK, Parser, Names
  <2>1. CASE line.kind = "diff"
    BY <2>0, <2>1, LineFields, AtType DEF processDeletedHeaderOrHunk
  <2>2. CASE line.kind # "diff"
    BY <2>0, <2>2, LineFields, AtType, NamedType, PosedType DEF processDeletedHeaderOrHunk
  <2> QED
    BY <2>1, <2>2
<1> HIDE DEF p, q
<1>3. processContentLine(p, line) \in Parser
  BY LineFields, <1>1, CountType, CollectType DEF processContentLine
<1>4. processDeletedContentLine(q, line) \in Parser
  BY LineFields, <1>2, CountType, CollectType DEF processDeletedContentLine
<1> QED
  BY <1>3, <1>4 DEF Read, p, q

\* Every line that git prints keeps the types and what is known of the hunk.
LEMMA TypeStep == ASSUME DiffTypeOK, HunkInv, NEW line \in DiffLines, Prints(line) PROVE DiffTypeOK' /\ HunkInv'
<1>0. Read(line)
  BY DEF Prints, PrintDiff, PrintMetadata, PrintMinus, PrintPlus, PrintHunk, PrintDeleted, PrintAdded, PrintNoNewline
<1>1. addedParser' \in Parser /\ deletedParser' \in Parser
  BY <1>0, ReadType
<1>2. CASE PrintDiff(line)
  BY <1>1, <1>2, NamesAssumption DEF PrintDiff, InHunk, DiffTypeOK, HunkInv
<1>3. CASE PrintMetadata(line)
  BY <1>1, <1>3 DEF PrintMetadata, file, hunk, DiffTypeOK, HunkInv
<1>4. CASE PrintMinus(line)
  <2>1. DiffTypeOK'
    BY <1>1, <1>4 DEF PrintMinus, hunk, DiffTypeOK
  <2>2. HunkInv'
    BY <1>4, NoFileIsNotDevNull DEF PrintMinus, hunk, DiffTypeOK, HunkInv
  <2> QED
    BY <2>1, <2>2
<1>5. CASE PrintPlus(line)
  <2>1. DiffTypeOK'
    BY <1>1, <1>5 DEF PrintPlus, hunk, DiffTypeOK
  <2>2. HunkInv'
    BY <1>5, NoFileIsNotDevNull DEF PrintPlus, hunk, DiffTypeOK, HunkInv
  <2> QED
    BY <2>1, <2>2
<1>6. CASE PrintHunk(line)
  <2>1. /\ line.skip \in Nat /\ line.dels \in Nat /\ line.adds \in Nat
        /\ place = "hunks" /\ UNCHANGED <<place, oldPath, newPath, added, deleted>>
        /\ oldPath = DevNull => line.dels = 0
        /\ newPath = DevNull => line.adds = 0
        /\ oldLine' = oldLine + line.skip /\ newLine' = newLine + line.skip
        /\ delsLeft' = line.dels /\ addsLeft' = line.adds
    BY <1>6 DEF PrintHunk, file
  <2>2. DiffTypeOK'
    BY <1>1, <2>1 DEF DiffTypeOK
  <2>3. HunkInv'
    BY <2>1 DEF DiffTypeOK, HunkInv
  <2> QED
    BY <2>2, <2>3
<1>7. CASE PrintDeleted(line)
  <2>1. <<oldPath, oldLine, line.text>> \in Names \X Int \X Texts
    BY <1>7 DEF PrintDeleted, DiffTypeOK, HunkInv, Names
  <2>2. deleted' \in Collected
    BY <1>7, <2>1 DEF PrintDeleted, DiffTypeOK, Collected
  <2>3. DiffTypeOK'
    BY <1>1, <1>7, <2>2 DEF PrintDeleted, file, DiffTypeOK
  <2>4. HunkInv'
    BY <1>7 DEF PrintDeleted, file, DiffTypeOK, HunkInv
  <2> QED
    BY <2>3, <2>4
<1>8. CASE PrintAdded(line)
  <2>1. <<newPath, newLine, line.text>> \in Names \X Int \X Texts
    BY <1>8 DEF PrintAdded, DiffTypeOK, HunkInv, Names
  <2>2. added' \in Collected
    BY <1>8, <2>1 DEF PrintAdded, DiffTypeOK, Collected
  <2>3. DiffTypeOK'
    BY <1>1, <1>8, <2>2 DEF PrintAdded, file, DiffTypeOK
  <2>4. HunkInv'
    BY <1>8 DEF PrintAdded, file, DiffTypeOK, HunkInv
  <2> QED
    BY <2>3, <2>4
<1>9. CASE PrintNoNewline(line)
  BY <1>1, <1>9 DEF PrintNoNewline, file, hunk, DiffTypeOK, HunkInv
<1> QED
  BY <1>2, <1>3, <1>4, <1>5, <1>6, <1>7, <1>8, <1>9 DEF Prints

-----------------------------------------------------------------------------
(* The parser of added lines.                                               *)

\* What a line of each kind but an added one does to the parser of added lines.
LEMMA AddedReads ==
    ASSUME DiffTypeOK, NEW line \in DiffLines, Read(line)
    PROVE  /\ line.kind = "diff" /\ line.new \notin Quoted => addedParser'.currentFile = line.new
           /\ line.kind = "metadata" => addedParser'.currentFile = addedParser.currentFile
           /\ line.kind \in {"-", "---", "\\"} => addedParser' = addedParser
           /\ line.kind = "+++" => addedParser'.currentFile = Named(addedParser, line.path)
           /\ line.kind = "@@" => /\ addedParser'.currentFile = addedParser.currentFile
                                  /\ addedParser'.currentLineNo = line.newStart
           /\ line.kind # "+" => addedParser'.result = addedParser.result
<1>0. addedParser' = processContentLine(processHeaderOrHunk(addedParser, line), line)
  BY DEF Read
<1>1. CASE line.kind = "diff"
  BY <1>0, <1>1 DEF processHeaderOrHunk, processContentLine, At, Count
<1>2. CASE line.kind = "+++"
  BY <1>0, <1>2 DEF processHeaderOrHunk, processContentLine, At
<1>3. CASE line.kind = "@@"
  BY <1>0, <1>3 DEF processHeaderOrHunk, processContentLine, At
<1>4. CASE line.kind = "metadata"
  BY <1>0, <1>4 DEF processHeaderOrHunk, processContentLine, At, Count
<1>5. CASE line.kind \in {"-", "---", "\\"}
  BY <1>0, <1>5 DEF processHeaderOrHunk, processContentLine
<1>6. CASE line.kind = "+"
  BY <1>6
<1>7. line.kind \in {"diff", "metadata", "\\", "---", "+++", "@@", "-", "+"}
  BY LineFields
<1> QED
  BY <1>1, <1>2, <1>3, <1>4, <1>5, <1>6, <1>7

\* What an added line does to it: it is collected, skipped outside a hunk, or
\* taken for a header when it begins with ++.
LEMMA AddedReadsContent ==
    ASSUME DiffTypeOK, NEW line \in DiffLines, Read(line), line.kind = "+"
    PROVE  /\ line.text \notin PlusPlus /\ addedParser.currentLineNo > 0 /\ addedParser.currentFile # NoFile
                 => addedParser' = Collect(addedParser, line.text)
           /\ line.text \notin PlusPlus /\ addedParser.currentLineNo = 0 => addedParser' = addedParser
           /\ line.text \in PlusPlus \ DOMAIN Posed =>
                 addedParser' = At(addedParser.currentFile, 0, addedParser.result)
<1>0. addedParser' = processContentLine(processHeaderOrHunk(addedParser, line), line)
  BY DEF Read
<1>1. CASE line.text \notin PlusPlus
  BY <1>0, <1>1 DEF processHeaderOrHunk, processContentLine
<1>2. CASE line.text \in PlusPlus \ DOMAIN Posed
  BY <1>0, <1>2 DEF processHeaderOrHunk, processContentLine, PosedAs, At
<1> QED
  BY <1>1, <1>2

\* What was added and deleted so far only grows, so the exceptions do not come
\* back once they are excluded.
LEMMA Monotone ==
    ASSUME added \subseteq added', deleted \subseteq deleted'
    PROVE  /\ PlainNames' => PlainNames
           /\ NoPosed' => NoPosed
           /\ NoPlusPlus' => NoPlusPlus
           /\ NoMinusMinus' => NoMinusMinus
BY DEF PlainNames, NoPosed, NoPlusPlus, NoMinusMinus

\* Every line that git prints keeps the parser of added lines at git's place.
LEMMA AddedStep ==
    ASSUME DiffTypeOK, HunkInv, AddedInv, NEW line \in DiffLines, Prints(line)
    PROVE  AddedInv'
<1>0. Read(line)
  BY DEF Prints, PrintDiff, PrintMetadata, PrintMinus, PrintPlus, PrintHunk, PrintDeleted, PrintAdded, PrintNoNewline
<1>1. added \subseteq added' /\ deleted \subseteq deleted'
  BY DEF Prints, PrintDiff, PrintMetadata, PrintMinus, PrintPlus, PrintHunk, PrintDeleted, PrintAdded, PrintNoNewline
<1> SUFFICES ASSUME PlainNames', NoPosed'
             PROVE  /\ newPath' \in PlainPaths => addedParser'.currentFile = newPath'
                    /\ addsLeft' > 0 => addedParser'.currentLineNo \in {0, newLine'}
                    /\ addedParser'.result \subseteq added'
                    /\ NoPlusPlus' => /\ addsLeft' > 0 => addedParser'.currentLineNo = newLine'
                                      /\ addedParser'.result = added'
  BY DEF AddedInv, PlainPaths
<1>2. PlainNames /\ NoPosed /\ (NoPlusPlus' => NoPlusPlus)
  BY <1>1, Monotone
<1>3. /\ newPath \in PlainPaths => addedParser.currentFile = newPath
      /\ addsLeft > 0 => addedParser.currentLineNo \in {0, newLine}
      /\ addedParser.result \subseteq added
      /\ NoPlusPlus => /\ addsLeft > 0 => addedParser.currentLineNo = newLine
                       /\ addedParser.result = added
  BY <1>2 DEF AddedInv
<1>4. CASE PrintDiff(line)
  <2>1. line.kind = "diff" /\ newPath' = line.new /\ added' = added /\ addsLeft = 0 /\ addsLeft' = 0
    BY <1>4 DEF PrintDiff, InHunk, DiffTypeOK
  <2> QED
    BY <1>0, <1>2, <1>3, <2>1, AddedReads DEF PlainPaths
<1>5. CASE PrintMetadata(line)
  <2>1. line.kind = "metadata" /\ newPath' = newPath /\ added' = added /\ addsLeft' = 0
    BY <1>5 DEF PrintMetadata, file, hunk, HunkInv
  <2> QED
    BY <1>0, <1>2, <1>3, <2>1, AddedReads
<1>6. CASE PrintMinus(line)
  <2>1. line.kind = "---" /\ newPath' = newPath /\ added' = added /\ addsLeft' = 0
    BY <1>6 DEF PrintMinus, hunk, HunkInv
  <2> QED
    BY <1>0, <1>2, <1>3, <2>1, AddedReads
<1>7. CASE PrintPlus(line)
  <2>1. line.kind = "+++" /\ newPath' = line.path /\ added' = added /\ addsLeft' = 0
    BY <1>7 DEF PrintPlus, hunk, HunkInv
  <2>2. newPath' \in PlainPaths => Named(addedParser, line.path) = newPath'
    BY <2>1, NamesAssumption DEF Named, WithTab, PlainPaths
  <2> QED
    BY <1>0, <1>2, <1>3, <2>1, <2>2, AddedReads
<1>8. CASE PrintHunk(line)
  <2>1. line.kind = "@@" /\ newPath' = newPath /\ added' = added
    BY <1>8 DEF PrintHunk, file
  <2>2. addsLeft' > 0 => line.newStart = newLine'
    BY <1>8 DEF PrintHunk, DiffTypeOK
  <2> QED
    BY <1>0, <1>2, <1>3, <2>1, <2>2, AddedReads
<1>9. CASE PrintDeleted(line)
  <2>1. line.kind = "-" /\ newPath' = newPath /\ added' = added /\ addsLeft' = addsLeft /\ newLine' = newLine
    BY <1>9 DEF PrintDeleted, file
  <2> QED
    BY <1>0, <1>2, <1>3, <2>1, AddedReads
<1>10. CASE PrintAdded(line)
  <2>0. /\ line.kind = "+" /\ newPath' = newPath /\ newLine' = newLine + 1 /\ addsLeft > 0
        /\ added' = added \cup {<<newPath, newLine, line.text>>}
    BY <1>10 DEF PrintAdded, file
  <2> DEFINE x == <<newPath, newLine, line.text>>
  <2>x. x \in added' /\ x[1] = newPath /\ x[3] = line.text
    BY <2>0
  <2> HIDE DEF x
  <2>1. newPath \in PlainPaths
    BY <2>x DEF PlainNames, PlainPaths
  <2>2. addedParser.currentFile = newPath /\ newPath # NoFile
    BY <1>3, <2>1, NamesAssumption DEF PlainPaths
  <2>3. addedParser.currentLineNo \in {0, newLine} /\ newLine > 0
    BY <1>3, <2>0 DEF DiffTypeOK
  <2>4. line.text \notin PlusPlus \cap DOMAIN Posed
    BY <2>x DEF NoPosed
  <2>5. CASE line.text \in PlusPlus
    <3>1. addedParser' = At(addedParser.currentFile, 0, addedParser.result)
      BY <1>0, <2>0, <2>4, <2>5, AddedReadsContent
    <3>2. ~ NoPlusPlus'
      BY <2>x, <2>5 DEF NoPlusPlus
    <3> QED
      BY <1>3, <2>0, <2>2, <3>1, <3>2 DEF At
  <2>6. CASE line.text \notin PlusPlus /\ addedParser.currentLineNo = 0
    <3>1. addedParser' = addedParser
      BY <1>0, <2>0, <2>6, AddedReadsContent
    <3>2. ~ NoPlusPlus'
      BY <1>2, <1>3, <2>0, <2>3, <2>6
    <3> QED
      BY <1>3, <2>0, <2>2, <2>6, <3>1, <3>2
  <2>7. CASE line.text \notin PlusPlus /\ addedParser.currentLineNo = newLine
    <3>1. addedParser' = Collect(addedParser, line.text)
      BY <1>0, <2>0, <2>2, <2>3, <2>7, AddedReadsContent
    <3>2. /\ addedParser'.currentFile = newPath /\ addedParser'.currentLineNo = newLine + 1
          /\ addedParser'.result = addedParser.result \cup {<<newPath, newLine, line.text>>}
      BY <2>2, <2>7, <3>1 DEF Collect, At
    <3> QED
      BY <1>2, <1>3, <2>0, <3>2
  <2> QED
    BY <2>3, <2>5, <2>6, <2>7
<1>11. CASE PrintNoNewline(line)
  <2>1. /\ line.kind = "\\" /\ newPath' = newPath /\ added' = added
        /\ addsLeft' = addsLeft /\ newLine' = newLine
    BY <1>11 DEF PrintNoNewline, file, hunk
  <2> QED
    BY <1>0, <1>2, <1>3, <2>1, AddedReads
<1> QED
  BY <1>4, <1>5, <1>6, <1>7, <1>8, <1>9, <1>10, <1>11 DEF Prints

-----------------------------------------------------------------------------
(* The parser of deleted lines.                                             *)

\* What a line of each kind does to the parser of deleted lines.
LEMMA DeletedReads ==
    ASSUME DiffTypeOK, NEW line \in DiffLines, Read(line)
    PROVE  /\ line.kind = "---" => deletedParser'.currentFile = Named(deletedParser, line.path)
           /\ line.kind \in {"+", "+++", "\\"} => deletedParser' = deletedParser
           /\ line.kind = "@@" => /\ deletedParser'.currentFile = deletedParser.currentFile
                                  /\ deletedParser'.currentLineNo = line.oldStart
           /\ line.kind # "-" => deletedParser'.result = deletedParser.result
           /\ line.kind = "-" /\ line.text \notin MinusMinus
                 /\ deletedParser.currentLineNo > 0 /\ deletedParser.currentFile # NoFile
                 => deletedParser' = Collect(deletedParser, line.text)
<1>0. deletedParser' = processDeletedContentLine(processDeletedHeaderOrHunk(deletedParser, line), line)
  BY DEF Read
<1>1. CASE line.kind = "diff"
  BY <1>0, <1>1 DEF processDeletedHeaderOrHunk, processDeletedContentLine, At, Count
<1>2. CASE line.kind = "---"
  BY <1>0, <1>2 DEF processDeletedHeaderOrHunk, processDeletedContentLine, At, Count
<1>3. CASE line.kind = "@@"
  BY <1>0, <1>3 DEF processDeletedHeaderOrHunk, processDeletedContentLine, At
<1>4. CASE line.kind = "metadata"
  BY <1>0, <1>4 DEF processDeletedHeaderOrHunk, processDeletedContentLine, At, Count
<1>5. CASE line.kind \in {"+", "+++", "\\"}
  BY <1>0, <1>5 DEF processDeletedHeaderOrHunk, processDeletedContentLine
<1>6. CASE line.kind = "-"
  BY <1>0, <1>6 DEF processDeletedHeaderOrHunk, processDeletedContentLine
<1> QED
  BY <1>1, <1>2, <1>3, <1>4, <1>5, <1>6, LineFields

\* Every line that git prints keeps the parser of deleted lines at git's place.
LEMMA DeletedStep ==
    ASSUME DiffTypeOK, HunkInv, DeletedInv, NEW line \in DiffLines, Prints(line)
    PROVE  DeletedInv'
<1>0. Read(line)
  BY DEF Prints, PrintDiff, PrintMetadata, PrintMinus, PrintPlus, PrintHunk, PrintDeleted, PrintAdded, PrintNoNewline
<1>1. added \subseteq added' /\ deleted \subseteq deleted'
  BY DEF Prints, PrintDiff, PrintMetadata, PrintMinus, PrintPlus, PrintHunk, PrintDeleted, PrintAdded, PrintNoNewline
<1> SUFFICES ASSUME PlainNames', NoMinusMinus'
             PROVE  /\ place' \in {"minus", "hunks"} /\ oldPath' \in PlainPaths
                           => deletedParser'.currentFile = oldPath'
                    /\ delsLeft' > 0 => deletedParser'.currentLineNo = oldLine'
                    /\ deletedParser'.result = deleted'
  BY DEF DeletedInv, PlainPaths
<1>2. /\ place \in {"minus", "hunks"} /\ oldPath \in PlainPaths => deletedParser.currentFile = oldPath
      /\ delsLeft > 0 => deletedParser.currentLineNo = oldLine
      /\ deletedParser.result = deleted
  BY <1>1, Monotone DEF DeletedInv
<1>3. CASE PrintDiff(line)
  <2>1. line.kind = "diff" /\ place' = "header" /\ deleted' = deleted /\ delsLeft = 0 /\ delsLeft' = 0
    BY <1>3 DEF PrintDiff, InHunk, DiffTypeOK
  <2> QED
    BY <1>0, <1>2, <2>1, DeletedReads
<1>4. CASE PrintMetadata(line)
  <2>1. line.kind = "metadata" /\ place' = "header" /\ deleted' = deleted /\ delsLeft' = 0
    BY <1>4 DEF PrintMetadata, file, hunk, HunkInv
  <2> QED
    BY <1>0, <1>2, <2>1, DeletedReads
<1>5. CASE PrintMinus(line)
  <2>1. line.kind = "---" /\ oldPath' = line.path /\ deleted' = deleted /\ delsLeft' = 0
    BY <1>5 DEF PrintMinus, hunk, HunkInv
  <2>2. oldPath' \in PlainPaths => Named(deletedParser, line.path) = oldPath'
    BY <2>1, NamesAssumption DEF Named, WithTab, PlainPaths
  <2> QED
    BY <1>0, <1>2, <2>1, <2>2, DeletedReads
<1>6. CASE PrintPlus(line)
  <2>1. line.kind = "+++" /\ place = "minus" /\ oldPath' = oldPath /\ deleted' = deleted /\ delsLeft' = 0
    BY <1>6 DEF PrintPlus, hunk, HunkInv
  <2> QED
    BY <1>0, <1>2, <2>1, DeletedReads
<1>7. CASE PrintHunk(line)
  <2>1. line.kind = "@@" /\ place = "hunks" /\ oldPath' = oldPath /\ deleted' = deleted
    BY <1>7 DEF PrintHunk, file
  <2>2. delsLeft' > 0 => line.oldStart = oldLine'
    BY <1>7 DEF PrintHunk, DiffTypeOK
  <2> QED
    BY <1>0, <1>2, <2>1, <2>2, DeletedReads
<1>8. CASE PrintDeleted(line)
  <2>0. /\ line.kind = "-" /\ oldPath' = oldPath /\ place' = place /\ oldLine' = oldLine + 1 /\ delsLeft > 0
        /\ deleted' = deleted \cup {<<oldPath, oldLine, line.text>>}
    BY <1>8 DEF PrintDeleted, file
  <2> DEFINE x == <<oldPath, oldLine, line.text>>
  <2>x. x \in deleted' /\ x[1] = oldPath /\ x[3] = line.text
    BY <2>0
  <2> HIDE DEF x
  <2>1. oldPath \in PlainPaths /\ line.text \notin MinusMinus
    BY <2>x DEF PlainNames, PlainPaths, NoMinusMinus
  <2>2. place = "hunks"
    BY <2>0 DEF HunkInv, DiffTypeOK
  <2>3. deletedParser.currentFile = oldPath /\ oldPath # NoFile
    BY <1>2, <2>1, <2>2, NamesAssumption DEF PlainPaths
  <2>4. deletedParser.currentLineNo = oldLine /\ oldLine > 0
    BY <1>2, <2>0 DEF DiffTypeOK
  <2>5. deletedParser' = Collect(deletedParser, line.text)
    BY <1>0, <2>0, <2>1, <2>3, <2>4, DeletedReads
  <2>6. /\ deletedParser'.currentFile = oldPath /\ deletedParser'.currentLineNo = oldLine + 1
        /\ deletedParser'.result = deletedParser.result \cup {<<oldPath, oldLine, line.text>>}
    BY <2>3, <2>4, <2>5 DEF Collect, At
  <2> QED
    BY <1>2, <2>0, <2>6
<1>9. CASE PrintAdded(line)
  <2>1. /\ line.kind = "+" /\ place' = place /\ oldPath' = oldPath /\ deleted' = deleted
        /\ delsLeft' = delsLeft /\ oldLine' = oldLine
    BY <1>9 DEF PrintAdded, file
  <2> QED
    BY <1>0, <1>2, <2>1, DeletedReads
<1>10. CASE PrintNoNewline(line)
  <2>1. /\ line.kind = "\\" /\ place' = place /\ oldPath' = oldPath /\ deleted' = deleted
        /\ delsLeft' = delsLeft /\ oldLine' = oldLine
    BY <1>10 DEF PrintNoNewline, file, hunk
  <2> QED
    BY <1>0, <1>2, <2>1, DeletedReads
<1> QED
  BY <1>3, <1>4, <1>5, <1>6, <1>7, <1>8, <1>9, <1>10 DEF Prints

-----------------------------------------------------------------------------

\* Every step keeps the invariant.
LEMMA DiffIInvStep == DiffIInv /\ [\E line \in DiffLines : Prints(line)]_diffVars => DiffIInv'
<1> SUFFICES ASSUME DiffIInv, [\E line \in DiffLines : Prints(line)]_diffVars PROVE DiffIInv'
  OBVIOUS
<1>1. ASSUME NEW line \in DiffLines, Prints(line) PROVE DiffIInv'
  BY <1>1, TypeStep, AddedStep, DeletedStep DEF DiffIInv
<1>2. CASE UNCHANGED diffVars
  BY <1>2 DEF diffVars, file, hunk, DiffIInv, DiffTypeOK, HunkInv, AddedInv, DeletedInv,
              PlainNames, PlainPaths, NoPosed, NoPlusPlus, NoMinusMinus
<1> QED
  BY <1>1, <1>2

\* The invariant holds in every state.
LEMMA DiffIInvCorrect == DiffSpec => []DiffIInv
BY InitDiffIInv, DiffIInvStep, PTL DEF DiffSpec

\* Whatever git prints, the parser of added lines collects exactly those that
\* were added, with their numbers, if no name is odd and no line begins with
\* "++", and makes none up if none of these poses as the header of a file.
THEOREM AddedCorrect == DiffSpec => []AddedLinesRead
<1>1. DiffIInv => AddedLinesRead
  BY DEF DiffIInv, AddedInv, AddedLinesRead, NoPosed, NoPlusPlus
<1> QED
  BY <1>1, DiffIInvCorrect, PTL

\* And the parser of deleted lines exactly those that were deleted.
THEOREM DeletedCorrect == DiffSpec => []DeletedLinesRead
<1>1. DiffIInv => DeletedLinesRead
  BY DEF DiffIInv, DeletedInv, DeletedLinesRead, NoMinusMinus
<1> QED
  BY <1>1, DiffIInvCorrect, PTL
=============================================================================
