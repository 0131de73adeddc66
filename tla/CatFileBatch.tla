---------------------------- MODULE CatFileBatch ----------------------------
(***************************************************************************)
(* git::GitObjectFileSource (src/src/git/git_object_file_source.cpp): the   *)
(* reads of one revision over two pipes to a long-lived child process,      *)
(* `git cat-file --batch`.  For each request the child writes a header      *)
(* line; for a blob, also the bytes of the blob and a newline.  The reader  *)
(* must take exactly that much, or every later answer is shifted.           *)
(*                                                                         *)
(* The unit of the output pipe is a token: a header line, a byte that       *)
(* carries the path it belongs to, or the newline after a blob.  The child  *)
(* is not part of the program; it may die at any moment.                    *)
(***************************************************************************)
EXTENDS Integers, Sequences

CONSTANTS
    Path,               \* the paths that are asked for
    NoPath,             \* none of them
    Size,               \* path -> the size of its blob, or Missing
    Missing,
    kMaxBlobSizeBytes,  \* larger blobs are passed over
    PipeCapacity,       \* tokens the output pipe holds
    MaxReads            \* the reads of one source

ASSUME PathAssumption == NoPath \notin Path
ASSUME SizeAssumption == \A p \in Path : Size[p] = Missing \/ Size[p] \in Nat
ASSUME LimitsAssumption ==
    kMaxBlobSizeBytes \in Nat /\ PipeCapacity \in Nat \ {0} /\ MaxReads \in Nat

VARIABLES
    child,              \* "absent", "alive", "dead", "reaped"
    requests,           \* the requests in the child's stdin
    todo,               \* tokens of its present answer not written yet
    output,             \* the tokens in its stdout
    pc,                 \* where the reader is
    want,               \* the path of the present read
    size,               \* the blob size its header gave
    content,            \* the tokens read as its content
    answer,             \* the path of the last read and what it returned
    reads               \* how many reads were begun

childVars == <<child, todo>>
readerVars == <<pc, want, size, content, answer, reads>>
vars == <<childVars, requests, output, readerVars>>

Header(p) == [token |-> "header", path |-> p]
Byte(p) == [token |-> "byte", path |-> p]
Newline(p) == [token |-> "newline", path |-> p]
IsBlob(p) == Size[p] # Missing

Bytes(p) == [i \in 1 .. Size[p] |-> Byte(p)]
Response(p) == IF IsBlob(p) THEN <<Header(p)>> \o Bytes(p) \o <<Newline(p)>>
                            ELSE <<Header(p)>>

NoAnswer == [path |-> NoPath, content |-> <<>>]
Init ==
    /\ child = "absent"
    /\ requests = <<>> /\ todo = <<>> /\ output = <<>>
    /\ pc = "spawn" /\ want = NoPath /\ size = 0 /\ content = <<>>
    /\ answer = NoAnswer /\ reads = 0

spawnCatFileBatch ==
    /\ pc = "spawn"
    /\ pc' = "idle"
    /\ child' \in {"alive", "absent"}
    /\ UNCHANGED <<requests, todo, output, want, size, content, answer, reads>>
-----------------------------------------------------------------------------
(* The child. *)

Accept ==
    /\ child = "alive" /\ todo = <<>> /\ requests # <<>>
    /\ requests' = Tail(requests)
    /\ todo' = Response(Head(requests))
    /\ UNCHANGED <<child, output, readerVars>>

WriteToken ==
    /\ child = "alive" /\ todo # <<>> /\ Len(output) < PipeCapacity
    /\ output' = Append(output, Head(todo))
    /\ todo' = Tail(todo)
    /\ UNCHANGED <<child, requests, readerVars>>

\* Its stdin is closed and it has answered everything.
Leave ==
    /\ child = "alive" /\ pc = "closing" /\ todo = <<>> /\ requests = <<>>
    /\ child' = "dead"
    /\ UNCHANGED <<todo, requests, output, readerVars>>

\* It is killed, or writes to a stdout that is closed.
Die ==
    /\ child = "alive"
    /\ child' = "dead" /\ todo' = <<>>
    /\ UNCHANGED <<requests, output, readerVars>>
-----------------------------------------------------------------------------
(* The reader: read() and what it calls. *)

Return(tokens) ==
    /\ answer' = [path |-> want, content |-> tokens]
    /\ pc' = "idle"
    /\ content' = <<>>

\* Without a child read() returns at once.
ReadNothing(p) ==
    /\ pc = "idle" /\ child = "absent" /\ reads < MaxReads
    /\ reads' = reads + 1
    /\ want' = p
    /\ answer' = [path |-> p, content |-> <<>>]
    /\ UNCHANGED <<childVars, requests, output, pc, size, content>>

\* write() of the request, which is smaller than a pipe.
SendRequest(p) ==
    /\ pc = "idle" /\ child = "alive" /\ reads < MaxReads
    /\ reads' = reads + 1
    /\ want' = p
    /\ requests' = Append(requests, p)
    /\ pc' = "header"
    /\ UNCHANGED <<childVars, output, size, content, answer>>

\* write() to a pipe nobody reads: archcheck does not handle SIGPIPE.
SendToDead(p) ==
    /\ pc = "idle" /\ child = "dead" /\ reads < MaxReads
    /\ reads' = reads + 1
    /\ want' = p
    /\ pc' = "killed"
    /\ UNCHANGED <<childVars, requests, output, size, content, answer>>

EndOfOutput == output = <<>> /\ child = "dead"

\* Mutant: an empty blob is taken for a missing one.
parseBlobSizePositive(p) == IF Size[p] = 0 THEN Missing ELSE Size[p]

\* Missing, or the size of the blob.
parseBlobSize(p) == Size[p]

\* readLine, one token at a time.  Only a line that is a header and no more
\* names a blob; had an earlier answer left bytes or its newline behind, they
\* would be taken for the line, and read() would return without the rest.
ReadLine ==
    /\ pc = "header" /\ output # <<>>
    /\ output' = Tail(output)
    /\ LET next == Head(output)
           isHeader == next.token = "header" /\ content = <<>>
       IN  CASE next.token = "byte" ->
                    content' = Append(content, next) /\ UNCHANGED <<pc, size, answer>>
             [] isHeader /\ parseBlobSize(next.path) # Missing ->
                    /\ size' = parseBlobSize(next.path)
                    /\ pc' = IF size' > kMaxBlobSizeBytes THEN "discard" ELSE "body"
                    /\ UNCHANGED <<content, answer>>
             [] OTHER -> Return(<<>>) /\ UNCHANGED size
    /\ UNCHANGED <<childVars, requests, want, reads>>

\* Mutant: the end of the output is not noticed.
NoHeaderWait ==
    pc = "header" /\ EndOfOutput /\ UNCHANGED vars

NoHeader ==
    /\ pc = "header" /\ EndOfOutput
    /\ Return(<<>>)
    /\ UNCHANGED <<childVars, requests, output, want, size, reads>>

\* readExact, of a blob that is returned or of one that is too large.
ReadByte ==
    /\ pc \in {"body", "discard"} /\ Len(content) < size /\ output # <<>>
    /\ output' = Tail(output)
    /\ content' = Append(content, Head(output))
    /\ UNCHANGED <<childVars, requests, pc, want, size, answer, reads>>

\* Mutant: what came before the end of the output is returned.
ShortBodyReturned ==
    /\ pc \in {"body", "discard"} /\ Len(content) < size /\ EndOfOutput
    /\ Return(content)
    /\ UNCHANGED <<childVars, requests, output, want, size, reads>>

ShortBody ==
    /\ pc \in {"body", "discard"} /\ Len(content) < size /\ EndOfOutput
    /\ Return(<<>>)
    /\ UNCHANGED <<childVars, requests, output, want, size, reads>>

\* The newline after the blob; its absence is not noticed.
Trailer ==
    /\ pc \in {"body", "discard"} /\ Len(content) = size
    /\ output # <<>> \/ EndOfOutput
    /\ output' = IF output = <<>> THEN <<>> ELSE Tail(output)
    /\ Return(IF pc = "body" THEN content ELSE <<>>)
    /\ UNCHANGED <<childVars, requests, want, size, reads>>

\* The destructor: closeChild closes both pipes and waits for the child.
CloseChild ==
    /\ pc = "idle"
    /\ pc' = IF child = "absent" THEN "closed" ELSE "closing"
    /\ UNCHANGED <<childVars, requests, output, want, size, content, answer, reads>>

WaitChild ==
    /\ pc = "closing" /\ child = "dead"
    /\ child' = "reaped" /\ pc' = "closed"
    /\ UNCHANGED <<todo, requests, output, want, size, content, answer, reads>>

ReaderSteps ==
    \/ ReadLine \/ NoHeader
    \/ ReadByte \/ ShortBody \/ Trailer
    \/ WaitChild
ChildSteps == Accept \/ WriteToken \/ Leave

Next ==
    \/ spawnCatFileBatch
    \/ \E p \in Path : ReadNothing(p) \/ SendRequest(p) \/ SendToDead(p)
    \/ ReaderSteps
    \/ CloseChild
    \/ ChildSteps
    \/ Die

\* Both processes go on when they can; nobody has to ask for a file, and the
\* child does not have to die.
Spec == Init /\ [][Next]_vars /\ WF_vars(ReaderSteps) /\ WF_vars(ChildSteps)
-----------------------------------------------------------------------------
(* Properties *)

\* Between two reads nothing of an earlier answer is left anywhere on its way
\* to the reader: an empty blob, a missing one and one that is too large take
\* exactly as much from the pipe as git puts there.
InSync ==
    pc = "idle" /\ child = "alive" => requests = <<>> /\ todo = <<>> /\ output = <<>>

\* What a read is to answer: the bytes of the blob, or nothing for one that is
\* missing or too large.
Expected(p) == IF IsBlob(p) /\ Size[p] <= kMaxBlobSizeBytes THEN Bytes(p) ELSE <<>>

\* The source implements FileSource: a read answers with the whole content of
\* its path, or with nothing once the child is gone; never with a part of the
\* content, never with a part of another file's, and never again with content
\* after a read that failed.
Abstract == INSTANCE FileSource WITH
    Content <- [p \in Path |-> Expected(p)],
    broken <- /\ answer # NoAnswer
              /\ child = "absent" \/ answer.content # Expected(answer.path)
ImplementsFileSource == Abstract!Spec

\* Every read that was begun comes to an end, whatever happens to the child,
\* and so does the destructor, with and without a child.
CallsEnd ==
    /\ (pc \in {"header", "body", "discard"}) ~> (pc \in {"idle", "killed"})
    /\ (pc = "closing") ~> (pc = "closed")
=============================================================================
