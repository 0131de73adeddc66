----------------------------- MODULE FileSource -----------------------------
(***************************************************************************)
(* What scan::FileSource promises to the snapshot: read(path) answers with  *)
(* the content of that path, never with another file's.  A source that      *)
(* breaks answers every later read with the empty string.                   *)
(***************************************************************************)
EXTENDS Sequences

CONSTANTS
    Path,               \* the paths that may be asked for
    NoPath,             \* none of them
    Content             \* path -> the content a read is to answer with

VARIABLES
    broken,             \* has the source failed?
    answer              \* the path of the last read and what it answered

vars == <<broken, answer>>

None == [path |-> NoPath, content |-> <<>>]

Init == broken = FALSE /\ answer = None

Answer(p) == /\ ~broken
             /\ answer' = [path |-> p, content |-> Content[p]]
             /\ UNCHANGED broken

Fail(p) == broken' = TRUE /\ answer' = [path |-> p, content |-> <<>>]

Next == \E p \in Path : Answer(p) \/ Fail(p)

Spec == Init /\ [][Next]_vars
=============================================================================
