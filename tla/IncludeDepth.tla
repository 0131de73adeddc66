---------------------------- MODULE IncludeDepth ----------------------------
(***************************************************************************)
(* graph::computeIncludeDepths (src/src/graph/algorithms.cpp), which the    *)
(* Lakos.ChainLength rule and the graph metrics read: computeScc           *)
(* (Tarjan.tla) finds the components, the graph is condensed to them, and   *)
(* the longest chain from each is found by a post-order walk with an        *)
(* explicit stack.                                                          *)
(*                                                                         *)
(* A component is its index in the list computeScc returned.  The sets of   *)
(* successors are unordered_sets: they are walked in every order.           *)
(***************************************************************************)
EXTENDS Tarjan

VARIABLES
    condEdges,          \* component -> the components it includes
    depth,              \* component -> longest chain found so far
    done,               \* the components whose depth is final
    stack,              \* components to resolve; one may occur repeatedly
    depths,             \* the value returned: node -> depth
    step                \* "scc", "resolve", "done"

depthVars == <<condEdges, depth, done, stack, depths, step>>
allVars == <<vars, depthVars>>

MaxOf(S) == CHOOSE m \in S : \A k \in S : k <= m
Orders(S) == {s \in [1 .. Cardinality(S) -> S] :
                 \A i, j \in DOMAIN s : s[i] = s[j] => i = j}

Component == 1 .. Len(sccs)
nodeToScc(v) == CHOOSE c \in Component : v \in sccs[c]

DepthInit ==
    /\ Init
    /\ condEdges = <<>> /\ depth = <<>> /\ done = {} /\ stack = <<>>
    /\ depths = <<>>
    /\ step = "scc"

computeScc == Next /\ UNCHANGED depthVars

\* Mutant: edges within a component are kept.
CondensedFromAll(c) == {nodeToScc(e[2]) : e \in {x \in edges : nodeToScc(x[1]) = c}}

\* The successors of a component, without the component itself.
CondensedFrom(c) == {nodeToScc(e[2]) : e \in {x \in edges : nodeToScc(x[1]) = c}} \ {c}

buildCondensation ==
    /\ step = "scc" /\ pc = "done"
    /\ condEdges' = [c \in Component |-> CondensedFrom(c)]
    /\ depth' = [c \in Component |-> 0]
    /\ step' = "resolve"
    /\ UNCHANGED <<vars, done, stack, depths>>

\* computeSccDepths: the next component that is not done becomes a root.
StartComponent(c) ==
    /\ step = "resolve" /\ stack = <<>>
    /\ c \notin done
    /\ \A d \in Component \ done : c <= d
    /\ stack' = <<c>>
    /\ UNCHANGED <<vars, condEdges, depth, done, depths, step>>

\* Mutant: what is on the stack already is not pushed again.
PendingOnce(c) == condEdges[c] \ (done \cup {stack[i] : i \in DOMAIN stack})

Pending(c) == condEdges[c] \ done

\* Mutant: a resolved entry is not popped.
DropResolvedNot ==
    stack # <<>> /\ Top(stack) \in done /\ UNCHANGED allVars

\* resolveDepthFrom, one turn of its loop each.
DropResolved ==
    /\ stack # <<>> /\ Top(stack) \in done
    /\ stack' = Pop(stack)
    /\ UNCHANGED <<vars, condEdges, depth, done, depths, step>>

PushPending ==
    /\ stack # <<>> /\ Top(stack) \notin done
    /\ Pending(Top(stack)) # {}
    /\ \E order \in Orders(Pending(Top(stack))) : stack' = stack \o order
    /\ UNCHANGED <<vars, condEdges, depth, done, depths, step>>

Settle ==
    /\ stack # <<>> /\ Top(stack) \notin done
    /\ Pending(Top(stack)) = {}
    /\ depth' = [depth EXCEPT ![Top(stack)] =
                    MaxOf({@} \cup {depth[d] + 1 : d \in condEdges[Top(stack)]})]
    /\ done' = done \cup {Top(stack)}
    /\ stack' = Pop(stack)
    /\ UNCHANGED <<vars, condEdges, depths, step>>

ReturnDepths ==
    /\ step = "resolve" /\ stack = <<>> /\ done = Component
    /\ depths' = [v \in Node |-> depth[nodeToScc(v)]]
    /\ step' = "done"
    /\ UNCHANGED <<vars, condEdges, depth, done, stack>>

DepthNext ==
    \/ computeScc
    \/ buildCondensation
    \/ \E c \in Component : StartComponent(c)
    \/ DropResolved
    \/ PushPending
    \/ Settle
    \/ ReturnDepths

\* One thread runs the computation to its end.
DepthSpec == DepthInit /\ [][DepthNext]_allVars /\ WF_allVars(DepthNext)
-----------------------------------------------------------------------------
(* Properties *)

\* The depth of a file is the length of the longest include chain from it,
\* cycles counting as one link: the value Lakos.ChainLength compares with its
\* threshold does not depend on the order of the includes or of the hash sets.
DepthIsLongestChain ==
    step = "done" =>
        LET chains == Chains(Node, edges)
        IN  \A v \in Node : depths[v] = MaxOf({Len(s) - 1 : s \in {c \in chains : v \in c[1]}})

\* The explicit stack replaces a recursion that overflowed on deep chains; it
\* never holds more than one entry for each condensed edge and the root, so
\* repeated entries cannot make it grow without bound.
StackIsBounded ==
    step # "scc" =>
        Len(stack) <= 1 + Cardinality({e \in Component \X Component : e[2] \in condEdges[e[1]]})

\* Both walks end, on cyclic graphs too.
Terminates == <>(step = "done")
=============================================================================
