------------------------------- MODULE Tarjan -------------------------------
(***************************************************************************)
(* graph::computeScc (src/src/graph/algorithms.cpp): Tarjan's algorithm     *)
(* with an explicit call stack.  One action is one turn of the loop of      *)
(* run_tarjan_from or one turn of the loop of step_into_successor.          *)
(*                                                                         *)
(* The graph is read through successors(), whose order is the order in     *)
(* which the #includes were found; the module is checked for every order.   *)
(* A component is kept as the set of its nodes: the code sorts its members  *)
(* before anything reads them.                                              *)
(***************************************************************************)
EXTENDS Naturals, Sequences, FiniteSets, Reachability

CONSTANTS
    N,                  \* nodeCount() of the graph
    Graphs              \* the adjacency lists computeScc may be given

Node == 0 .. N - 1

ASSUME NAssumption == N \in Nat
ASSUME GraphsAssumption == Graphs \subseteq [Node -> Seq(Node)]

VARIABLES
    successors,         \* the graph: node -> its successors, in order
    index_of,           \* discovery index, or kUnvisited
    lowlink_of,         \* least discovery index known to be reachable
    on_stack,           \* is the node on component_stack?
    component_stack,    \* nodes discovered and not yet in a component
    call_stack,         \* frames [node, succ_index] of the simulated recursion
    next_index,         \* the next discovery index
    result,             \* the components emitted so far, in that order
    sccs,               \* the value returned
    pc                  \* "running" until the value is returned

vars == <<successors, index_of, lowlink_of, on_stack, component_stack,
          call_stack, next_index, result, sccs, pc>>

\* No node has this index; the code's value is 2^32 - 1.
kUnvisited == N
Unvisited(v) == index_of[v] = kUnvisited

Least(a, b) == IF a < b THEN a ELSE b
Pop(s) == SubSeq(s, 1, Len(s) - 1)
Top(s) == s[Len(s)]

Init ==
    /\ successors \in Graphs
    /\ index_of = [v \in Node |-> kUnvisited]
    /\ lowlink_of = [v \in Node |-> 0]
    /\ on_stack = [v \in Node |-> FALSE]
    /\ component_stack = <<>>
    /\ call_stack = <<>>
    /\ next_index = 0
    /\ result = <<>>
    /\ sccs = <<>>
    /\ pc = "running"

open_node(v) ==
    /\ index_of' = [index_of EXCEPT ![v] = next_index]
    /\ lowlink_of' = [lowlink_of EXCEPT ![v] = next_index]
    /\ next_index' = next_index + 1
    /\ component_stack' = Append(component_stack, v)
    /\ on_stack' = [on_stack EXCEPT ![v] = TRUE]

frame == Top(call_stack)
Exhausted == frame.succ_index = Len(successors[frame.node])
NextSuccessor == successors[frame.node][frame.succ_index + 1]
advanced == [call_stack EXCEPT ![Len(call_stack)].succ_index = @ + 1]

\* The outer loop: the least node not visited yet becomes a root.
StartRoot(root) ==
    /\ pc = "running" /\ call_stack = <<>>
    /\ Unvisited(root)
    /\ \A v \in Node : Unvisited(v) => root <= v
    /\ call_stack' = <<[node |-> root, succ_index |-> 0]>>
    /\ open_node(root)
    /\ UNCHANGED <<successors, result, sccs, pc>>

\* step_into_successor finds a node not visited yet and descends into it.
Descend ==
    /\ call_stack # <<>> /\ ~Exhausted
    /\ Unvisited(NextSuccessor)
    /\ call_stack' = Append(advanced, [node |-> NextSuccessor, succ_index |-> 0])
    /\ open_node(NextSuccessor)
    /\ UNCHANGED <<successors, result, sccs, pc>>

\* Mutant: successors in an emitted component count too.
PassVisitedAny ==
    /\ call_stack # <<>> /\ ~Exhausted
    /\ ~Unvisited(NextSuccessor)
    /\ call_stack' = advanced
    /\ lowlink_of' = [lowlink_of EXCEPT ![frame.node] = Least(@, index_of[NextSuccessor])]
    /\ UNCHANGED <<successors, index_of, on_stack, component_stack, next_index,
                   result, sccs, pc>>

\* step_into_successor passes a visited node; one that is still on the
\* component stack lowers the lowlink.
PassVisited ==
    /\ call_stack # <<>> /\ ~Exhausted
    /\ ~Unvisited(NextSuccessor)
    /\ call_stack' = advanced
    /\ lowlink_of' = IF on_stack[NextSuccessor]
                     THEN [lowlink_of EXCEPT ![frame.node] =
                               Least(@, index_of[NextSuccessor])]
                     ELSE lowlink_of
    /\ UNCHANGED <<successors, index_of, on_stack, component_stack, next_index,
                   result, sccs, pc>>

\* The part of the component stack from v to the top.
PositionOf(v) == CHOOSE i \in DOMAIN component_stack : component_stack[i] = v
ComponentOf(v) == {component_stack[i] : i \in PositionOf(v) .. Len(component_stack)}

emit_component(v) ==
    /\ result' = Append(result, ComponentOf(v))
    /\ component_stack' = SubSeq(component_stack, 1, PositionOf(v) - 1)
    /\ on_stack' = [w \in Node |-> on_stack[w] /\ w \notin ComponentOf(v)]

IsRoot(v) == lowlink_of[v] = index_of[v]

\* close_node: the frame on top has no successor left.
CloseNode ==
    /\ call_stack # <<>> /\ Exhausted
    /\ IF IsRoot(frame.node) THEN emit_component(frame.node)
                             ELSE UNCHANGED <<result, component_stack, on_stack>>
    /\ call_stack' = Pop(call_stack)
    /\ lowlink_of' = IF Len(call_stack) = 1
                     THEN lowlink_of
                     ELSE [lowlink_of EXCEPT ![Top(Pop(call_stack)).node] =
                               Least(@, lowlink_of[frame.node])]
    /\ UNCHANGED <<successors, index_of, next_index, sccs, pc>>

\* Mutant: the components stay in the order they were emitted.
sort_componentsNot == result

\* sort_components: by the least node of each component.
LeastOf(c) == CHOOSE v \in c : \A w \in c : v <= w
Emitted == {result[i] : i \in DOMAIN result}
sort_components ==
    CHOOSE s \in [1 .. Len(result) -> Emitted] :
        \A i, j \in DOMAIN s : i < j => LeastOf(s[i]) < LeastOf(s[j])

Return ==
    /\ pc = "running" /\ call_stack = <<>>
    /\ \A v \in Node : ~Unvisited(v)
    /\ sccs' = sort_components
    /\ pc' = "done"
    /\ UNCHANGED <<successors, index_of, lowlink_of, on_stack, component_stack,
                   call_stack, next_index, result>>

Next ==
    \/ \E root \in Node : StartRoot(root)
    \/ Descend
    \/ PassVisited
    \/ CloseNode
    \/ Return

\* One thread runs computeScc to its end.
Spec == Init /\ [][Next]_vars
-----------------------------------------------------------------------------
(* The graph as a relation, for the reference definitions of Reachability. *)

edges == {e \in Node \X Node : \E i \in DOMAIN successors[e[1]] : successors[e[1]][i] = e[2]}
ReachesFrom(v) == {w \in Node : Reaches(Node, edges, v, w)}
-----------------------------------------------------------------------------
(* Properties *)

\* A component is never emitted too early or too late: each is a whole
\* strongly connected component, and all it reaches was emitted before.
EmittedAreComponents ==
    \A i \in DOMAIN result : \A v \in result[i] :
        /\ result[i] = SccOf(Node, edges, v)
        /\ \A w \in ReachesFrom(v) : \E j \in 1 .. i : w \in result[j]

\* computeScc returns every strongly connected component exactly once, in the
\* order of their least node, whatever the order of the successors was: SF.9,
\* DRIFT.2 and the diff compare graphs built from differently ordered files.
ReturnsTheComponents ==
    pc = "done" =>
        /\ {sccs[i] : i \in DOMAIN sccs} = Sccs(Node, edges)
        /\ \A i, j \in DOMAIN sccs : i < j => LeastOf(sccs[i]) < LeastOf(sccs[j])

=============================================================================
