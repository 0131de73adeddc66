---------------------------- MODULE IncludeGraph ----------------------------
(***************************************************************************)
(* What the include graph promises to the analyses built on it: a set of   *)
(* files, the set of ordered pairs <<a, b>> such that a includes b, and    *)
(* the pairs for which at least one such #include is unconditional.        *)
(* Nothing depends on how a path was spelled, on the order in which files  *)
(* and includes arrive, or on how often an include is repeated.            *)
(*                                                                         *)
(* DependencyGraph.tla (vectors of ids, two adjacency maps, a set of       *)
(* conditional edge keys) is shown to implement this specification.        *)
(***************************************************************************)
CONSTANT File           \* the files a graph may hold, one name for each

VARIABLES
    files,              \* the files that are nodes
    included,           \* <<a, b>>: some #include of b in a was seen
    unconditional,      \* <<a, b>>: some such #include was outside every #if
    request             \* what was asked for last: no request may be ignored

vars == <<files, included, unconditional, request>>

Init ==
    /\ files = {}
    /\ included = {}
    /\ unconditional = {}
    /\ request = <<>>

AddFile(f) ==
    /\ files' = files \cup {f}
    /\ request' = <<f>>
    /\ UNCHANGED <<included, unconditional>>

Include(a, b, conditional) ==
    /\ {a, b} \subseteq files
    /\ included' = included \cup {<<a, b>>}
    /\ unconditional' = IF conditional THEN unconditional
                                       ELSE unconditional \cup {<<a, b>>}
    /\ request' = <<a, b, conditional>>
    /\ UNCHANGED files

Next ==
    \/ \E f \in File : AddFile(f)
    \/ \E a, b \in files, conditional \in BOOLEAN : Include(a, b, conditional)

Spec == Init /\ [][Next]_vars
=============================================================================
