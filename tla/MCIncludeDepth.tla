--------------------------- MODULE MCIncludeDepth ---------------------------
(***************************************************************************)
(* Model checking of IncludeDepth and the Tarjan it runs, on two sets of    *)
(* graphs of four files: every graph of three files (and one that is alone) *)
(* with every order of every successor list and self-includes, and every    *)
(* graph of four files without self-includes, lists in ascending order.     *)
(***************************************************************************)
EXTENDS IncludeDepth, SequencesExt

Lists(S) == {s \in SeqOf(S, Cardinality(S)) : IsInjective(s)}
EveryOrder == {[v \in Node |-> IF v = N - 1 THEN <<>> ELSE lists[v]] :
                  lists \in [0 .. N - 2 -> Lists(0 .. N - 2)]}

Ascending(S) == SetToSortSeq(S, <)
AscendingOrder == {[v \in Node |-> Ascending(out[v])] :
                      out \in {f \in [Node -> SUBSET Node] : \A v \in Node : v \notin f[v]}}

MCGraphs == EveryOrder \cup AscendingOrder

\* Nothing is left to do once the value is returned.
Stopped == step = "done" /\ UNCHANGED allVars
MCSpec == DepthInit /\ [][DepthNext \/ Stopped]_allVars /\ WF_allVars(DepthNext)
=============================================================================
