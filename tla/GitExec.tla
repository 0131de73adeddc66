------------------------------ MODULE GitExec ------------------------------
(***************************************************************************)
(* git::runGit (src/src/git/git_exec.cpp): archcheck forks a git command    *)
(* whose stdout and stderr are pipes, reads stdout to its end, then stderr  *)
(* to its end, then waits for the child.                                    *)
(*                                                                         *)
(* A pipe is the number of bytes in it.  The child (not part of the         *)
(* program) writes all it has to say to the two pipes in any order, blocks  *)
(* on a full pipe, and then exits; a signal may end it before.              *)
(***************************************************************************)
EXTENDS Integers

CONSTANTS
    PipeCapacity,       \* the bytes a pipe holds before a writer blocks
    BufferSize,         \* the bytes one read() of drainFd takes at most
    MaxOut,             \* the most a child has to say on stdout ...
    MaxErr,             \* ... and on stderr
    ExitCodes           \* the codes a child may exit with

ASSUME SizesAssumption ==
    /\ PipeCapacity \in Nat \ {0} /\ BufferSize \in Nat \ {0}
    /\ MaxOut \in Nat /\ MaxErr \in Nat
ASSUME ExitCodesAssumption == ExitCodes \subseteq 0 .. 255

VARIABLES
    outSize, errSize,   \* what this child has to say on either pipe
    outWritten,         \* what it has written to stdout ...
    errWritten,         \* ... and to stderr
    outPipe, errPipe,   \* the bytes in the pipes
    child,              \* "absent", "running", "exited", "signalled", "reaped"
    status,             \* what waitpid will report; -1: not an exit code
    out, err,           \* the bytes collected in r.out and r.err
    exitCode,           \* r.exitCode
    pc                  \* "fork", "out", "err", "wait", "done"

plan == <<outSize, errSize>>
childVars == <<outWritten, errWritten, child, status>>
parentVars == <<out, err, exitCode, pc>>
vars == <<plan, childVars, outPipe, errPipe, parentVars>>

Least(a, b) == IF a < b THEN a ELSE b

Init ==
    /\ outSize \in 0 .. MaxOut /\ errSize \in 0 .. MaxErr
    /\ outWritten = 0 /\ errWritten = 0
    /\ outPipe = 0 /\ errPipe = 0
    /\ child = "absent" /\ status = -1
    /\ out = 0 /\ err = 0
    /\ exitCode = -1
    /\ pc = "fork"
-----------------------------------------------------------------------------
(* The child. *)

WriteOut ==
    /\ child = "running" /\ outWritten < outSize /\ outPipe < PipeCapacity
    /\ outPipe' = outPipe + 1 /\ outWritten' = outWritten + 1
    /\ UNCHANGED <<plan, errWritten, errPipe, child, status, parentVars>>

WriteErr ==
    /\ child = "running" /\ errWritten < errSize /\ errPipe < PipeCapacity
    /\ errPipe' = errPipe + 1 /\ errWritten' = errWritten + 1
    /\ UNCHANGED <<plan, outWritten, outPipe, child, status, parentVars>>

Exit ==
    /\ child = "running" /\ outWritten = outSize /\ errWritten = errSize
    /\ child' = "exited" /\ status' \in ExitCodes
    /\ UNCHANGED <<plan, outWritten, errWritten, outPipe, errPipe, parentVars>>

Signal ==
    /\ child = "running"
    /\ child' = "signalled"
    /\ UNCHANGED <<plan, outWritten, errWritten, status, outPipe, errPipe, parentVars>>
-----------------------------------------------------------------------------
(* The parent. *)

\* tryForkWithPipes; the parent closes its copies of the write ends at once,
\* so that the child's end is the end of the pipe.
Fork ==
    /\ pc = "fork"
    /\ child' = "running" /\ pc' = "out"
    /\ UNCHANGED <<plan, outWritten, errWritten, status, outPipe, errPipe, out, err, exitCode>>

\* pipe() or fork() fails, and runGit returns with exitCode -1.
ForkFails ==
    /\ pc = "fork"
    /\ pc' = "done"
    /\ UNCHANGED <<plan, childVars, outPipe, errPipe, out, err, exitCode>>

\* Mutant: the parent keeps its copies of the write ends open.
WritersGoneNever == child = "reaped"

WritersGone == child \in {"exited", "signalled"}

\* Mutants: the size of the buffer is taken for the bytes read; stdout is read
\* once and not to its end.
DrainOutWhole ==
    /\ pc = "out" /\ outPipe > 0
    /\ outPipe' = outPipe - Least(outPipe, BufferSize)
    /\ out' = out + BufferSize
    /\ UNCHANGED <<plan, childVars, errPipe, err, exitCode, pc>>
DrainOutOnce ==
    /\ pc = "out" /\ outPipe > 0
    /\ outPipe' = outPipe - Least(outPipe, BufferSize)
    /\ out' = out + Least(outPipe, BufferSize)
    /\ pc' = "err"
    /\ UNCHANGED <<plan, childVars, errPipe, err, exitCode>>

\* drainFd(outRead): read() blocks on an empty pipe that has a writer.
DrainOut ==
    /\ pc = "out" /\ outPipe > 0
    /\ outPipe' = outPipe - Least(outPipe, BufferSize)
    /\ out' = out + Least(outPipe, BufferSize)
    /\ UNCHANGED <<plan, childVars, errPipe, err, exitCode, pc>>

EndOfOut ==
    /\ pc = "out" /\ outPipe = 0 /\ WritersGone
    /\ pc' = "err"
    /\ UNCHANGED <<plan, childVars, outPipe, errPipe, out, err, exitCode>>

DrainErr ==
    /\ pc = "err" /\ errPipe > 0
    /\ errPipe' = errPipe - Least(errPipe, BufferSize)
    /\ err' = err + Least(errPipe, BufferSize)
    /\ UNCHANGED <<plan, childVars, outPipe, out, exitCode, pc>>

EndOfErr ==
    /\ pc = "err" /\ errPipe = 0 /\ WritersGone
    /\ pc' = "wait"
    /\ UNCHANGED <<plan, childVars, outPipe, errPipe, out, err, exitCode>>

\* Mutant: WEXITSTATUS without WIFEXITED is 0 for a child that was killed.
WaitAnyStatus ==
    /\ pc = "wait" /\ WritersGone
    /\ exitCode' = IF child = "exited" THEN status ELSE 0
    /\ child' = "reaped" /\ pc' = "done"
    /\ UNCHANGED <<plan, outWritten, errWritten, status, outPipe, errPipe, out, err>>

\* waitpid, and the exit code if the child exited.
Wait ==
    /\ pc = "wait" /\ WritersGone
    /\ exitCode' = IF child = "exited" THEN status ELSE -1
    /\ child' = "reaped" /\ pc' = "done"
    /\ UNCHANGED <<plan, outWritten, errWritten, status, outPipe, errPipe, out, err>>

Child == WriteOut \/ WriteErr \/ Exit
Parent == Fork \/ ForkFails \/ DrainOut \/ EndOfOut \/ DrainErr \/ EndOfErr \/ Wait
Next == Child \/ Signal \/ Parent

\* The operating system schedules both processes; nobody has to send a signal.
Fairness == WF_vars(Child) /\ WF_vars(Parent)
Spec == Init /\ [][Next]_vars /\ Fairness
-----------------------------------------------------------------------------
(* Properties *)

TypeOK ==
    /\ outSize \in 0 .. MaxOut /\ errSize \in 0 .. MaxErr
    /\ outWritten \in 0 .. outSize /\ errWritten \in 0 .. errSize
    /\ outPipe \in 0 .. PipeCapacity /\ errPipe \in 0 .. PipeCapacity
    /\ child \in {"absent", "running", "exited", "signalled", "reaped"}
    /\ status \in ExitCodes \cup {-1}
    /\ out \in 0 .. outSize /\ err \in 0 .. errSize
    /\ exitCode \in ExitCodes \cup {-1}
    /\ pc \in {"fork", "out", "err", "wait", "done"}

\* An exit code is never reported for output that is not whole: the callers
\* take the output of exit code 0 for the complete list of files or lines, and
\* a git that is killed half way must not look like a shorter answer.
ExitCodeMeansWholeOutput ==
    pc = "done" /\ exitCode # -1 => out = outSize /\ err = errSize

\* Every git that was forked is waited for before runGit returns, and nothing
\* it wrote is left in a pipe.
NoZombieNoRest ==
    pc = "done" => child \in {"absent", "reaped"} /\ outPipe = 0 /\ errPipe = 0

\* The two processes wait for each other in one situation only: the parent
\* still reads stdout, and the child has more to say on stderr than a pipe
\* holds.  runGit has no way out of it.
ParentBlocked ==
    \/ pc = "out" /\ outPipe = 0 /\ ~WritersGone
    \/ pc = "err" /\ errPipe = 0 /\ ~WritersGone
    \/ pc = "wait" /\ ~WritersGone
ChildBlocked ==
    /\ child = "running"
    /\ outWritten = outSize \/ outPipe = PipeCapacity
    /\ errWritten = errSize \/ errPipe = PipeCapacity
    /\ outWritten < outSize \/ errWritten < errSize
BlockedOnlyByLongStderr ==
    ParentBlocked /\ ChildBlocked => pc = "out" /\ errSize > PipeCapacity

\* If the child has no more to say on stderr than a pipe holds, runGit
\* returns, however much the child writes to stdout.
ReturnsUnlessStderrIsLong == errSize <= PipeCapacity => <>(pc = "done")
=============================================================================
