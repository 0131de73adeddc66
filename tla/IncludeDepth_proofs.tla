------------------------ MODULE IncludeDepth_proofs ------------------------
(***************************************************************************)
(* Proofs about Tarjan and IncludeDepth, for graphs of every size and every *)
(* order in which the successors and the hash sets are walked: computeScc   *)
(* emits whole strongly connected components, each after all that it        *)
(* reaches, and returns them in order; computeIncludeDepths runs it, its    *)
(* stack stays bounded, and the depths are those of the longest chains.     *)
(***************************************************************************)
EXTENDS IncludeDepth, GraphDiff_proofs

\* The way from v to w, along any number of includes.
Reach(v, w) == Reaches(Node, edges, v, w)

IsEmitted(v) == \E i \in DOMAIN result : v \in result[i]

\* The nodes that were discovered; the node of the frame at position i; whether
\* v is on the stack and was discovered with or after it, or before the next.
visited == {v \in Node : ~Unvisited(v)}
NodeAt(i) == call_stack[i].node
Above(i, v) == on_stack[v] /\ index_of[NodeAt(i)] <= index_of[v]
Below(i, v) == on_stack[v] /\ (i = Len(call_stack) \/ index_of[v] < index_of[NodeAt(i + 1)])

\* The positions of the successors of v that were passed: all of them once v
\* has no frame any more.
Passed(v) ==
    {m \in DOMAIN successors[v] :
        \A i \in DOMAIN call_stack : NodeAt(i) = v => m <= call_stack[i].succ_index}

Frame == [node : Node, succ_index : Nat]

TypeOK ==
    /\ successors \in Graphs
    /\ index_of \in [Node -> 0 .. N]
    /\ lowlink_of \in [Node -> 0 .. N]
    /\ on_stack \in [Node -> BOOLEAN]
    /\ component_stack \in Seq(Node)
    /\ call_stack \in Seq(Frame)
    /\ next_index \in 0 .. N
    /\ result \in Seq(SUBSET Node)
    /\ pc \in {"running", "done"}

\* on_stack marks the nodes of the component stack, which lie there in the
\* order of their discovery.
StackInv ==
    /\ \A v \in Node : on_stack[v] <=> \E i \in DOMAIN component_stack : component_stack[i] = v
    /\ \A i, j \in DOMAIN component_stack :
         i < j => index_of[component_stack[i]] < index_of[component_stack[j]]

\* A visited node is on the stack or in a component, never both, and there are
\* as many of them as indices were given.
VisitInv ==
    /\ \A v \in Node : ~Unvisited(v) <=> on_stack[v] \/ IsEmitted(v)
    /\ \A v \in Node : on_stack[v] => ~IsEmitted(v)
    /\ \A v \in Node : ~Unvisited(v) => index_of[v] < next_index
    /\ next_index = Cardinality(visited)

\* The frames are nodes of the stack in the order of their discovery; the first
\* is the oldest node there.
CallInv ==
    /\ \A i \in DOMAIN call_stack :
         on_stack[NodeAt(i)] /\ call_stack[i].succ_index <= Len(successors[NodeAt(i)])
    /\ \A i, j \in DOMAIN call_stack : i < j => index_of[NodeAt(i)] < index_of[NodeAt(j)]
    /\ \A v \in Node : on_stack[v] => call_stack # <<>> /\ index_of[NodeAt(1)] <= index_of[v]

\* A frame reaches what was discovered after it, and is reached from what was
\* discovered before the next frame.
ReachInv ==
    /\ \A i \in DOMAIN call_stack, v \in Node : Above(i, v) => Reach(NodeAt(i), v)
    /\ \A i \in DOMAIN call_stack, v \in Node : Below(i, v) => Reach(v, NodeAt(i))

\* The lowlink of a frame is the index of a node of the stack that it reaches,
\* and no greater than that of any node of the stack that is a successor of a
\* node discovered between it and the next frame.
LowInv ==
    /\ \A i \in DOMAIN call_stack :
         /\ lowlink_of[NodeAt(i)] <= index_of[NodeAt(i)]
         /\ \E u \in Node : on_stack[u] /\ index_of[u] = lowlink_of[NodeAt(i)] /\ Reach(NodeAt(i), u)
    /\ \A i \in DOMAIN call_stack, v \in Node :
         Above(i, v) /\ Below(i, v) =>
            \A m \in Passed(v) : on_stack[successors[v][m]]
                                    => lowlink_of[NodeAt(i)] <= index_of[successors[v][m]]

\* Every successor that was passed was visited.
PassedInv == \A v \in Node : ~Unvisited(v) => \A m \in Passed(v) : ~Unvisited(successors[v][m])

\* The components emitted are not empty, disjoint, each of nodes that reach
\* each other, and nothing leads from them to what is not emitted yet.
ResultInv ==
    /\ \A i \in DOMAIN result : result[i] # {}
    /\ \A i, j \in DOMAIN result : \A v \in result[i] \cap result[j] : i = j
    /\ \A i \in DOMAIN result : \A v, w \in result[i] : Reach(v, w)
    /\ \A i \in DOMAIN result : \A v \in result[i] : \A m \in DOMAIN successors[v] :
         \E j \in 1 .. i : successors[v][m] \in result[j]

DoneInv ==
    pc = "done" => /\ \A v \in Node : ~Unvisited(v)
                   /\ call_stack = <<>>
                   /\ sccs = sort_components

IInv ==
    /\ TypeOK /\ StackInv /\ VisitInv /\ CallInv /\ ReachInv /\ LowInv /\ PassedInv /\ ResultInv
    /\ DoneInv
-----------------------------------------------------------------------------
(* The graph and the sequences. *)

\* The nodes are finitely many; N is no index of a visited node.
LEMMA NodeFinite == N \in Nat /\ IsFiniteSet(Node) /\ Cardinality(Node) = N
BY NAssumption, FS_Interval DEF Node

\* A graph of the set given is one adjacency list for each node.
LEMMA SuccessorsType == TypeOK => /\ successors \in [Node -> Seq(Node)]
                                 /\ \A v \in Node : \A m \in DOMAIN successors[v] :
                                      successors[v][m] \in Node
<1> SUFFICES ASSUME TypeOK
             PROVE  /\ successors \in [Node -> Seq(Node)]
                    /\ \A v \in Node : \A m \in DOMAIN successors[v] : successors[v][m] \in Node
  OBVIOUS
<1>1. successors \in [Node -> Seq(Node)]
  BY GraphsAssumption DEF TypeOK
<1>2. \A v \in Node : successors[v] \in Seq(Node)
  BY <1>1
<1> QED
  BY <1>1, <1>2

\* The graph does not change, so neither does what reaches what.
LEMMA SameWays == successors' = successors => edges' = edges
BY DEF edges

\* A successor is one edge away.
LEMMA ReachSuccessor ==
    ASSUME TypeOK, NEW v \in Node, NEW m \in DOMAIN successors[v]
    PROVE  Reach(v, successors[v][m])
<1>1. successors[v][m] \in Node
  BY SuccessorsType
<1>2. <<v, successors[v][m]>> \in edges
  BY <1>1 DEF edges
<1> QED
  BY <1>2, ReachesByEdge DEF Reach

\* Every node reaches itself.
LEMMA ReachSelf == \A v : Reach(v, v)
BY ReachesSelf DEF Reach

\* Two ways make one.
LEMMA ReachTransitive == \A a, b, c : Reach(a, b) /\ Reach(b, c) => Reach(a, c)
BY ReachesTransitive DEF Reach

\* The fields of the frames.
LEMMA FrameType ==
    ASSUME TypeOK
    PROVE  /\ Len(call_stack) \in Nat /\ DOMAIN call_stack = 1 .. Len(call_stack)
           /\ \A i \in DOMAIN call_stack : /\ call_stack[i] \in Frame
                                            /\ NodeAt(i) \in Node
                                            /\ call_stack[i].succ_index \in Nat
<1>1. call_stack \in Seq(Frame)
  BY DEF TypeOK
<1>2. \A i \in DOMAIN call_stack : call_stack[i] \in Frame
  BY <1>1
<1> QED
  BY <1>1, <1>2 DEF Frame, NodeAt

\* Before the first root nothing was visited.
LEMMA InitIInv == Init => IInv
<1> SUFFICES ASSUME Init PROVE IInv
  OBVIOUS
<1>1. visited = {}
  BY DEF Init, visited, Unvisited
<1>2. next_index = Cardinality(visited)
  BY <1>1, FS_EmptySet DEF Init
<1>3. TypeOK
  BY NAssumption DEF Init, TypeOK, kUnvisited
<1>4. VisitInv
  BY <1>1, <1>2 DEF Init, VisitInv, IsEmitted, Unvisited
<1> QED
  BY <1>3, <1>4
     DEF Init, IInv, StackInv, CallInv, ReachInv, LowInv, PassedInv, ResultInv, DoneInv, Unvisited,
         Above, Below
-----------------------------------------------------------------------------
(* A node is discovered: a frame for v comes on top of the frames in base,   *)
(* which are those of the call stack, the last one perhaps advanced to v.    *)

Opens(v, base) ==
    /\ Unvisited(v) /\ open_node(v)
    /\ call_stack' = Append(base, [node |-> v, succ_index |-> 0])
    /\ UNCHANGED <<successors, result, sccs, pc>>

Leads(v, base) ==
    /\ base \in Seq(Frame) /\ Len(base) = Len(call_stack)
    /\ \A i \in DOMAIN call_stack :
         /\ base[i].node = NodeAt(i)
         /\ base[i].succ_index <= Len(successors[NodeAt(i)])
         /\ \/ base[i].succ_index = call_stack[i].succ_index
            \/ /\ i = Len(call_stack)
               /\ base[i].succ_index = call_stack[i].succ_index + 1
               /\ successors[NodeAt(i)][call_stack[i].succ_index + 1] = v
    /\ call_stack # <<>> => Reach(NodeAt(Len(call_stack)), v)

\* There is an index left for a node that was not visited.
LEMMA IndexLeft ==
    ASSUME IInv, NEW v \in Node, Unvisited(v)
    PROVE  /\ next_index < N
           /\ Cardinality(visited \cup {v}) = next_index + 1
<1>1. visited \cup {v} \in SUBSET Node /\ v \notin visited
  BY DEF visited
<1>2. IsFiniteSet(visited) /\ IsFiniteSet(visited \cup {v})
  BY <1>1, NodeFinite, FS_Subset
<1>3. Cardinality(visited \cup {v}) = Cardinality(visited) + 1
  BY <1>1, <1>2, FS_AddElement
<1>4. Cardinality(visited \cup {v}) <= N
  BY <1>1, NodeFinite, FS_Subset
<1>5. next_index = Cardinality(visited) /\ next_index \in Nat /\ N \in Nat
  BY NodeFinite DEF IInv, VisitInv, TypeOK
<1> QED
  BY <1>3, <1>4, <1>5

\* What the discovery of v does to the state.
Opened(v, base) ==
    /\ ~on_stack[v] /\ ~IsEmitted(v)
    /\ \A w \in Node : index_of'[w] = IF w = v THEN next_index ELSE index_of[w]
    /\ \A w \in Node : lowlink_of'[w] = IF w = v THEN next_index ELSE lowlink_of[w]
    /\ \A w \in Node : on_stack'[w] <=> w = v \/ on_stack[w]
    /\ \A w \in Node : on_stack[w] => index_of[w] < next_index
    /\ Len(call_stack') = Len(call_stack) + 1
    /\ DOMAIN call_stack = 1 .. Len(call_stack)
    /\ DOMAIN call_stack' = 1 .. Len(call_stack) + 1
    /\ \A i \in DOMAIN call_stack : /\ call_stack'[i] = base[i]
                                     /\ call_stack'[i].node = NodeAt(i)
                                     /\ NodeAt(i) # v /\ NodeAt(i) \in Node
    /\ call_stack'[Len(call_stack) + 1].node = v
    /\ call_stack'[Len(call_stack) + 1].succ_index = 0
    /\ next_index \in Nat /\ Len(call_stack) \in Nat
    /\ \A w \in Node : index_of[w] \in Nat /\ lowlink_of[w] \in Nat

\* open_node changes the marks of v alone, and v is now on top of both stacks.
LEMMA OpensEffect ==
    ASSUME IInv, NEW v \in Node, NEW base, Opens(v, base), Leads(v, base)
    PROVE  Opened(v, base)
<1>1. ~on_stack[v] /\ ~IsEmitted(v)
  BY DEF IInv, VisitInv, Opens
<1>2. /\ index_of \in [Node -> 0 .. N] /\ lowlink_of \in [Node -> 0 .. N]
      /\ on_stack \in [Node -> BOOLEAN] /\ next_index \in 0 .. N /\ N \in Nat
  BY NAssumption DEF IInv, TypeOK
<1>3. /\ \A w \in Node : index_of'[w] = IF w = v THEN next_index ELSE index_of[w]
      /\ \A w \in Node : lowlink_of'[w] = IF w = v THEN next_index ELSE lowlink_of[w]
      /\ \A w \in Node : on_stack'[w] <=> w = v \/ on_stack[w]
  BY <1>2 DEF Opens, open_node
<1>4. \A w \in Node : on_stack[w] => index_of[w] < next_index
  BY DEF IInv, VisitInv
<1>5. /\ base \in Seq(Frame) /\ Len(base) = Len(call_stack) /\ Len(call_stack) \in Nat
      /\ DOMAIN base = DOMAIN call_stack /\ DOMAIN call_stack = 1 .. Len(call_stack)
  BY FrameType DEF Leads, IInv
<1>6. /\ Len(call_stack') = Len(call_stack) + 1
      /\ DOMAIN call_stack' = 1 .. Len(call_stack) + 1
      /\ \A i \in DOMAIN call_stack : call_stack'[i] = base[i]
      /\ call_stack'[Len(call_stack) + 1].node = v
      /\ call_stack'[Len(call_stack) + 1].succ_index = 0
  BY <1>5 DEF Opens
<1>7. \A i \in DOMAIN call_stack : NodeAt(i) # v /\ NodeAt(i) \in Node
  BY <1>1, FrameType DEF IInv, CallInv
<1>8. \A w \in Node : index_of[w] \in Nat /\ lowlink_of[w] \in Nat
  BY <1>2
<1>9. \A i \in DOMAIN call_stack : call_stack'[i].node = NodeAt(i)
  BY <1>6 DEF Leads
<1> QED
  BY <1>1, <1>2, <1>3, <1>4, <1>5, <1>6, <1>7, <1>8, <1>9 DEF Opened

\* Of a visited node nothing more is passed than before, or the step to v.
LEMMA OpensPassed ==
    ASSUME IInv, NEW v \in Node, NEW base, Opens(v, base), Leads(v, base),
           NEW w \in Node, NEW m \in Passed(w)'
    PROVE  /\ w # v
           /\ m \in DOMAIN successors[w]
           /\ m \in Passed(w) \/ successors[w][m] = v
<1> USE DEF Opened
<1>0. Opened(v, base)
  BY OpensEffect
<1>1. successors' = successors
  BY DEF Opens
<1>2. m \in DOMAIN successors[w] /\ DOMAIN successors[w] = 1 .. Len(successors[w])
      /\ Len(successors[w]) \in Nat
  BY <1>1, SuccessorsType DEF Passed, IInv
<1>3. \A i \in DOMAIN call_stack' : call_stack'[i].node = w => m <= call_stack'[i].succ_index
  BY DEF Passed, NodeAt
<1>4. w # v
  <2> SUFFICES ASSUME w = v PROVE FALSE
    OBVIOUS
  <2>1. Len(call_stack) + 1 \in DOMAIN call_stack'
    BY <1>0
  <2>2. m <= 0
    BY <1>3, <2>1, <1>0
  <2> QED
    BY <1>2, <2>2
<1>5. ASSUME m \notin Passed(w) PROVE successors[w][m] = v
  <2>1. PICK i \in DOMAIN call_stack : NodeAt(i) = w /\ ~(m <= call_stack[i].succ_index)
    BY <1>2, <1>5 DEF Passed
  <2>2. i \in DOMAIN call_stack' /\ call_stack'[i] = base[i] /\ base[i].node = w
    BY <2>1, <1>0 DEF Leads
  <2>3. m <= base[i].succ_index
    BY <1>3, <2>2
  <2>4. call_stack[i].succ_index \in Nat
    BY FrameType DEF IInv
  <2>5. /\ base[i].succ_index = call_stack[i].succ_index + 1
        /\ successors[w][call_stack[i].succ_index + 1] = v
    BY <2>1, <2>3 DEF Leads
  <2>6. m = call_stack[i].succ_index + 1
    BY <1>2, <2>1, <2>3, <2>4, <2>5
  <2> QED
    BY <2>5, <2>6
<1> QED
  BY <1>2, <1>4, <1>5

\* Opening a node, as a root or as a successor of the frame on top, keeps the
\* invariant: v is reached from every frame, and has passed nothing yet.
LEMMA OpensStep ==
    ASSUME IInv, NEW v \in Node, NEW base, Opens(v, base), Leads(v, base)
    PROVE  IInv'
<1> DEFINE D == Len(call_stack)
<1> USE DEF Opened
<1>0. Opened(v, base)
  BY OpensEffect
<1>1. next_index < N /\ N \in Nat
  BY IndexLeft, NodeFinite DEF Opens
<1>2. edges' = edges /\ successors' = successors /\ result' = result
  BY SameWays DEF Opens
<1>3. D \in Nat /\ DOMAIN call_stack = 1 .. D
  BY FrameType DEF IInv
<1>4. TypeOK'
  <2>1. /\ index_of' \in [Node -> 0 .. N] /\ lowlink_of' \in [Node -> 0 .. N]
        /\ on_stack' \in [Node -> BOOLEAN] /\ component_stack' \in Seq(Node)
        /\ next_index' \in 0 .. N
    BY <1>1 DEF IInv, TypeOK, Opens, open_node
  <2>2. [node |-> v, succ_index |-> 0] \in Frame
    BY DEF Frame
  <2>3. call_stack' \in Seq(Frame)
    BY <2>2 DEF Opens, Leads
  <2> QED
    BY <2>1, <2>3 DEF IInv, TypeOK, Opens
<1>5. StackInv'
  <2>1. component_stack \in Seq(Node) /\ component_stack' = Append(component_stack, v)
    BY DEF IInv, TypeOK, Opens, open_node
  <2>2. /\ DOMAIN component_stack' = DOMAIN component_stack \cup {Len(component_stack) + 1}
        /\ component_stack'[Len(component_stack) + 1] = v
        /\ DOMAIN component_stack = 1 .. Len(component_stack) /\ Len(component_stack) \in Nat
        /\ \A i \in DOMAIN component_stack : /\ component_stack'[i] = component_stack[i]
                                              /\ component_stack[i] \in Node
    BY <2>1
  <2>3. \A i \in DOMAIN component_stack : on_stack[component_stack[i]]
    BY <2>2 DEF IInv, StackInv
  <2>4. \A w \in Node : on_stack'[w] <=> \E i \in DOMAIN component_stack' : component_stack'[i] = w
    BY <2>2, <1>0 DEF IInv, StackInv
  <2>5. \A i, j \in DOMAIN component_stack' :
          i < j => index_of'[component_stack'[i]] < index_of'[component_stack'[j]]
    BY <2>2, <2>3, <1>0 DEF IInv, StackInv
  <2> QED
    BY <2>4, <2>5 DEF StackInv
<1>6. VisitInv'
  <2>1. \A w \in Node : IsEmitted(w)' <=> IsEmitted(w)
    BY <1>2 DEF IsEmitted
  <2>2. \A w \in Node : Unvisited(w)' <=> Unvisited(w) /\ w # v
    BY <1>1, <1>0 DEF Unvisited, kUnvisited
  <2>3. visited' = visited \cup {v}
    BY <2>2 DEF visited
  <2>4. next_index' = next_index + 1
    BY DEF Opens, open_node
  <2>5. next_index' = Cardinality(visited')
    BY <2>3, <2>4, IndexLeft DEF Opens
  <2>6. \A w \in Node : ~Unvisited(w)' => index_of'[w] < next_index'
    BY <2>2, <2>4, <1>0 DEF IInv, VisitInv
  <2> QED
    BY <2>1, <2>2, <2>5, <2>6, <1>0 DEF IInv, VisitInv
<1>7. CallInv'
  <2>1. \A i \in DOMAIN call_stack' :
          on_stack'[call_stack'[i].node]
            /\ call_stack'[i].succ_index <= Len(successors[call_stack'[i].node])
    <3> SUFFICES ASSUME NEW i \in DOMAIN call_stack'
                 PROVE  /\ on_stack'[call_stack'[i].node]
                        /\ call_stack'[i].succ_index <= Len(successors[call_stack'[i].node])
      OBVIOUS
    <3>1. CASE i \in DOMAIN call_stack
      BY <3>1, <1>0 DEF IInv, CallInv, Leads
    <3>2. CASE i = D + 1
      BY <3>2, <1>0, SuccessorsType DEF IInv
    <3> QED
      BY <1>3, <3>1, <3>2, <1>0
  <2>2. \A i, j \in DOMAIN call_stack' :
          i < j => index_of'[call_stack'[i].node] < index_of'[call_stack'[j].node]
    <3> SUFFICES ASSUME NEW i \in DOMAIN call_stack', NEW j \in DOMAIN call_stack', i < j
                 PROVE  index_of'[call_stack'[i].node] < index_of'[call_stack'[j].node]
      OBVIOUS
    <3>1. i \in DOMAIN call_stack
      BY <1>3, <1>0
    <3>2. CASE j \in DOMAIN call_stack
      BY <1>0, <3>1, <3>2 DEF IInv, CallInv
    <3>3. CASE j = D + 1
      <4>1. on_stack[NodeAt(i)]
        BY <3>1 DEF IInv, CallInv
      <4> QED
        BY <1>0, <3>1, <3>3, <4>1
    <3> QED
      BY <1>3, <1>0, <3>2, <3>3
  <2>3. \A w \in Node : on_stack'[w] => index_of'[call_stack'[1].node] <= index_of'[w]
    <3>1. CASE call_stack = <<>>
      BY <3>1, <1>0 DEF IInv, CallInv
    <3>2. CASE call_stack # <<>>
      <4>1. 1 \in DOMAIN call_stack
        BY <1>3, <3>2, FrameType DEF IInv, TypeOK
      <4> QED
        BY <4>1, <1>0 DEF IInv, CallInv
    <3> QED
      BY <3>1, <3>2
  <2>4. call_stack' # <<>>
    BY <1>3, <1>0
  <2> QED
    BY <1>2, <2>1, <2>2, <2>3, <2>4 DEF CallInv, NodeAt
<1> DEFINE above(i, w) == on_stack'[w] /\ index_of'[call_stack'[i].node] <= index_of'[w]
           below(i, w) == on_stack'[w] /\ (i = D + 1 \/ index_of'[w] < index_of'[call_stack'[i + 1].node])
<1>8. ASSUME NEW i \in 1 .. D, NEW w \in Node
      PROVE  /\ below(i, w) => w # v /\ Below(i, w)
             /\ above(i, w) => w = v \/ Above(i, w)
  <2>1. i \in DOMAIN call_stack /\ (i # D => i + 1 \in DOMAIN call_stack)
    <3> HIDE DEF Opened, above, below
    <3>1. i \in 1 .. D /\ D \in Nat
      BY <1>3
    <3>2. i # D => i + 1 \in 1 .. D
      BY <3>1
    <3> QED
      BY <1>3, <3>1, <3>2
  <2>0. /\ call_stack'[i].node = NodeAt(i) /\ index_of'[NodeAt(i)] = index_of[NodeAt(i)]
        /\ NodeAt(i) \in Node
    BY <1>0, <2>1
  <2>2. above(i, w) => w = v \/ Above(i, w)
    BY <1>0, <2>0 DEF Above
  <2>3. CASE i = D
    <3>1. call_stack'[i + 1].node = v /\ index_of'[v] = next_index
      BY <1>0, <2>3
    <3>2. below(i, w) => on_stack'[w] /\ index_of'[w] < next_index
      BY <1>0, <2>3, <3>1
    <3>3. below(i, w) => w # v
      BY <1>0, <3>2
    <3> QED
      BY <1>0, <2>2, <2>3, <3>3 DEF Below
  <2>4. CASE i # D
    <3>1. on_stack[NodeAt(i + 1)] /\ NodeAt(i + 1) \in Node /\ NodeAt(i + 1) # v
      BY <1>0, <2>1, <2>4 DEF IInv, CallInv
    <3> QED
      BY <1>0, <1>3, <2>1, <2>2, <2>4, <3>1 DEF Below
  <2> QED
    BY <2>2, <2>3, <2>4
<1>9. ASSUME NEW w \in Node
      PROVE  /\ above(D + 1, w) => w = v
             /\ below(D + 1, w) => w = v \/ (D \in DOMAIN call_stack /\ Below(D, w))
  <2>1. above(D + 1, w) => w = v
    BY <1>0
  <2>2. on_stack[w] => D \in DOMAIN call_stack
    BY <1>3, FrameType DEF IInv, CallInv, TypeOK
  <2> QED
    BY <1>0, <2>1, <2>2 DEF Below
<1>10. ReachInv'
  <2>1. ASSUME NEW i \in DOMAIN call_stack', NEW w \in Node, above(i, w)
        PROVE  Reach(call_stack'[i].node, w)
    <3>1. CASE i = D + 1
      BY <1>0, <1>9, <2>1, <3>1, ReachSelf
    <3>2. CASE i \in 1 .. D /\ Above(i, w)
      BY <1>0, <3>2 DEF IInv, ReachInv
    <3>3. CASE i \in 1 .. D /\ w = v
      <4>1. D \in DOMAIN call_stack /\ call_stack # <<>>
        BY <1>3, <3>3, FrameType DEF IInv, TypeOK
      <4>2. Above(i, NodeAt(D))
        <5>1. i \in DOMAIN call_stack /\ NodeAt(i) \in Node /\ index_of[NodeAt(i)] \in Nat
          BY <1>0, <3>3
        <5>2. on_stack[NodeAt(D)]
          BY <4>1 DEF IInv, CallInv
        <5>3. i < D => index_of[NodeAt(i)] < index_of[NodeAt(D)]
          BY <4>1, <5>1 DEF IInv, CallInv
        <5>4. NodeAt(D) \in Node /\ index_of[NodeAt(D)] \in Nat /\ (i = D \/ i < D)
          BY <1>0, <3>3, <4>1
        <5>5. index_of[NodeAt(i)] <= index_of[NodeAt(D)]
          BY <5>1, <5>3, <5>4
        <5> QED
          BY <5>2, <5>5 DEF Above
      <4>3. Reach(NodeAt(i), NodeAt(D)) /\ Reach(NodeAt(D), v)
        BY <1>0, <3>3, <4>1, <4>2 DEF IInv, ReachInv, Leads
      <4> QED
        BY <1>0, <3>3, <4>3, ReachTransitive
    <3> QED
      BY <1>0, <1>8, <2>1, <3>1, <3>2, <3>3
  <2>2. ASSUME NEW i \in DOMAIN call_stack', NEW w \in Node, below(i, w)
        PROVE  Reach(w, call_stack'[i].node)
    <3>1. CASE i \in 1 .. D
      BY <1>0, <1>8, <2>2, <3>1 DEF IInv, ReachInv
    <3>2. CASE i = D + 1 /\ w = v
      BY <1>0, <3>2, ReachSelf
    <3>3. CASE i = D + 1 /\ D \in DOMAIN call_stack /\ Below(D, w)
      <4>1. Reach(w, NodeAt(D))
        BY <3>3 DEF IInv, ReachInv
      <4>2. call_stack # <<>>
        BY <3>3
      <4> QED
        BY <1>0, <3>3, <4>1, <4>2, ReachTransitive DEF Leads
    <3> QED
      BY <1>0, <1>9, <2>2, <3>1, <3>2, <3>3
  <2>3. Len(call_stack)' = D + 1
    BY <1>0
  <2> QED
    BY <1>2, <2>1, <2>2, <2>3 DEF ReachInv, Above, Below, NodeAt, Reach
<1>11. LowInv'
  <2>1. ASSUME NEW i \in DOMAIN call_stack'
        PROVE  /\ lowlink_of'[call_stack'[i].node] <= index_of'[call_stack'[i].node]
               /\ \E u \in Node : /\ on_stack'[u]
                                   /\ index_of'[u] = lowlink_of'[call_stack'[i].node]
                                   /\ Reach(call_stack'[i].node, u)
    <3>1. CASE i = D + 1
      BY <1>0, <3>1, ReachSelf
    <3>2. CASE i \in DOMAIN call_stack
      <4>1. PICK u \in Node : /\ on_stack[u] /\ index_of[u] = lowlink_of[NodeAt(i)]
                              /\ Reach(NodeAt(i), u)
        BY <3>2 DEF IInv, LowInv
      <4>2. lowlink_of[NodeAt(i)] <= index_of[NodeAt(i)]
        BY <3>2 DEF IInv, LowInv
      <4> QED
        BY <1>0, <3>2, <4>1, <4>2
    <3> QED
      BY <1>0, <3>1, <3>2
  <2>2. ASSUME NEW i \in DOMAIN call_stack', NEW w \in Node, above(i, w), below(i, w),
               NEW m \in Passed(w)', on_stack'[successors[w][m]]
        PROVE  lowlink_of'[call_stack'[i].node] <= index_of'[successors[w][m]]
    <3>1. w # v /\ m \in DOMAIN successors[w] /\ (m \in Passed(w) \/ successors[w][m] = v)
      BY OpensPassed
    <3>2. i \in 1 .. D /\ i \in DOMAIN call_stack /\ Above(i, w) /\ Below(i, w)
      BY <1>0, <1>8, <1>9, <2>2, <3>1
    <3>3. successors[w][m] \in Node
      BY <3>1, SuccessorsType DEF IInv
    <3>4. CASE successors[w][m] = v
      <4>1. lowlink_of[NodeAt(i)] <= index_of[NodeAt(i)] /\ on_stack[NodeAt(i)]
        BY <3>2 DEF IInv, LowInv, CallInv
      <4> QED
        BY <1>0, <3>2, <3>4, <4>1
    <3>5. CASE successors[w][m] # v
      <4>1. lowlink_of[NodeAt(i)] <= index_of[successors[w][m]]
        BY <1>0, <2>2, <3>1, <3>2, <3>3, <3>5 DEF IInv, LowInv
      <4> QED
        BY <1>0, <3>2, <3>3, <3>5, <4>1
    <3> QED
      BY <3>4, <3>5
  <2>3. Len(call_stack)' = D + 1
    BY <1>0
  <2> QED
    BY <1>2, <2>1, <2>2, <2>3 DEF LowInv, Above, Below, NodeAt, Reach
<1>12. PassedInv'
  <2> SUFFICES ASSUME NEW w \in Node, ~Unvisited(w)', NEW m \in Passed(w)'
               PROVE  ~Unvisited(successors[w][m])'
    BY <1>2 DEF PassedInv
  <2>1. w # v /\ m \in DOMAIN successors[w] /\ (m \in Passed(w) \/ successors[w][m] = v)
    BY OpensPassed
  <2>2. successors[w][m] \in Node
    BY <2>1, SuccessorsType DEF IInv
  <2>3. ~Unvisited(w)
    BY <1>0, <2>1 DEF Unvisited, kUnvisited
  <2>4. successors[w][m] = v \/ ~Unvisited(successors[w][m])
    BY <2>1, <2>3 DEF IInv, PassedInv
  <2> QED
    BY <1>0, <1>1, <1>2, <2>2, <2>4 DEF Unvisited, kUnvisited
<1>13. ResultInv'
  BY <1>2 DEF IInv, ResultInv, Reach
<1>14. DoneInv'
  BY DEF IInv, DoneInv, Opens
<1> QED
  BY <1>4, <1>5, <1>6, <1>7, <1>10, <1>11, <1>12, <1>13, <1>14 DEF IInv

\* A root opens when no frame is left, so nothing has to reach it.
LEMMA StartRootStep == ASSUME IInv, NEW root \in Node, StartRoot(root) PROVE IInv'
<1>1. Opens(root, <<>>)
  BY DEF StartRoot, Opens
<1>2. Leads(root, <<>>)
  BY DEF StartRoot, Leads
<1> QED
  BY <1>1, <1>2, OpensStep

\* The last frame has a next successor, and advancing it changes no other field.
LEMMA AdvancedFrames ==
    ASSUME IInv, call_stack # <<>>, ~Exhausted
    PROVE  LET D == Len(call_stack)
               k == call_stack[D].succ_index
           IN  /\ D \in DOMAIN call_stack /\ frame = call_stack[D] /\ frame.node = NodeAt(D)
               /\ k \in Nat /\ k + 1 \in DOMAIN successors[NodeAt(D)]
               /\ NextSuccessor = successors[NodeAt(D)][k + 1]
               /\ NextSuccessor \in Node
               /\ Reach(NodeAt(D), NextSuccessor)
               /\ advanced \in Seq(Frame) /\ Len(advanced) = D
               /\ DOMAIN advanced = DOMAIN call_stack
               /\ \A i \in DOMAIN call_stack :
                    /\ advanced[i].node = NodeAt(i)
                    /\ advanced[i].succ_index = IF i = D THEN k + 1 ELSE call_stack[i].succ_index
<1> DEFINE D == Len(call_stack)
           k == call_stack[D].succ_index
<1>1. call_stack \in Seq(Frame) /\ D \in DOMAIN call_stack /\ call_stack[D] \in Frame
  BY DEF IInv, TypeOK
<1>2. frame = call_stack[D] /\ frame.node = NodeAt(D) /\ NodeAt(D) \in Node /\ k \in Nat
  BY <1>1, FrameType DEF frame, Top, NodeAt, IInv
<1>3. successors[NodeAt(D)] \in Seq(Node) /\ k <= Len(successors[NodeAt(D)])
  BY <1>1, <1>2, SuccessorsType DEF IInv, CallInv
<1>4. k # Len(successors[NodeAt(D)])
  BY <1>2 DEF Exhausted
<1>5. k + 1 \in DOMAIN successors[NodeAt(D)]
  BY <1>2, <1>3, <1>4
<1>6. /\ NextSuccessor = successors[NodeAt(D)][k + 1] /\ NextSuccessor \in Node
      /\ Reach(NodeAt(D), NextSuccessor)
  BY <1>2, <1>5, SuccessorsType, ReachSuccessor DEF NextSuccessor, IInv
<1>7. call_stack[D] = [node |-> NodeAt(D), succ_index |-> k]
  BY <1>1, <1>2 DEF Frame, NodeAt
<1>8. advanced = [call_stack EXCEPT ![D] = [call_stack[D] EXCEPT !.succ_index = k + 1]]
  BY <1>1 DEF advanced
<1>9. [call_stack[D] EXCEPT !.succ_index = k + 1] = [node |-> NodeAt(D), succ_index |-> k + 1]
  BY <1>7
<1>10. [node |-> NodeAt(D), succ_index |-> k + 1] \in Frame
  BY <1>2 DEF Frame
<1>11. advanced = [call_stack EXCEPT ![D] = [node |-> NodeAt(D), succ_index |-> k + 1]]
  BY <1>8, <1>9
<1>12. /\ advanced \in Seq(Frame) /\ Len(advanced) = D
       /\ DOMAIN advanced = DOMAIN call_stack
       /\ \A i \in DOMAIN call_stack : advanced[i] = IF i = D THEN [node |-> NodeAt(D), succ_index |-> k + 1]
                                                              ELSE call_stack[i]
  BY <1>1, <1>10, <1>11
<1>13. \A i \in DOMAIN call_stack :
         /\ advanced[i].node = NodeAt(i)
         /\ advanced[i].succ_index = IF i = D THEN k + 1 ELSE call_stack[i].succ_index
  BY <1>12 DEF NodeAt
<1> QED
  BY <1>1, <1>2, <1>5, <1>6, <1>12, <1>13

\* A successor that was not visited is opened above the frame it belongs to.
LEMMA DescendStep == ASSUME IInv, Descend PROVE IInv'
<1>1. call_stack # <<>> /\ ~Exhausted
  BY DEF Descend
<1>2. Opens(NextSuccessor, advanced)
  BY DEF Descend, Opens
<1>3. Leads(NextSuccessor, advanced) /\ NextSuccessor \in Node
  <2>1. \A i \in DOMAIN call_stack : call_stack[i].succ_index <= Len(successors[NodeAt(i)])
    BY DEF IInv, CallInv
  <2>2. \A i \in DOMAIN call_stack : successors[NodeAt(i)] \in Seq(Node)
    BY FrameType, SuccessorsType DEF IInv
  <2>3. \A i \in DOMAIN call_stack : advanced[i].succ_index <= Len(successors[NodeAt(i)])
    BY <1>1, <2>1, <2>2, AdvancedFrames
  <2> QED
    BY <1>1, <2>3, AdvancedFrames DEF Leads
<1> QED
  BY <1>2, <1>3, OpensStep
-----------------------------------------------------------------------------
(* A successor that was visited is passed: only the frame on top moves on, and *)
(* its lowlink falls to the index of the successor if that is on the stack.    *)

\* What passing the next successor does to the state.
PassedOver(D, x) ==
    /\ D = Len(call_stack) /\ D \in DOMAIN call_stack
    /\ x \in Node /\ ~Unvisited(x) /\ Reach(NodeAt(D), x)
    /\ call_stack' \in Seq(Frame) /\ Len(call_stack') = D
    /\ DOMAIN call_stack' = DOMAIN call_stack
    /\ \A i \in DOMAIN call_stack :
         /\ call_stack'[i].node = NodeAt(i)
         /\ call_stack'[i].succ_index <= Len(successors[NodeAt(i)])
         /\ NodeAt(i) = NodeAt(D) => i = D
    /\ \A w \in Node : \A m \in Passed(w)' :
         /\ m \in DOMAIN successors[w]
         /\ m \in Passed(w) \/ (w = NodeAt(D) /\ successors[w][m] = x)
    /\ \A w \in Node : index_of[w] \in Nat /\ lowlink_of[w] \in Nat
    /\ \A w \in Node : lowlink_of'[w] \in 0 .. N /\ lowlink_of'[w] <= lowlink_of[w]
    /\ \A w \in Node : w # NodeAt(D) => lowlink_of'[w] = lowlink_of[w]
    /\ on_stack[x] => lowlink_of'[NodeAt(D)] <= index_of[x]
    /\ \/ lowlink_of'[NodeAt(D)] = lowlink_of[NodeAt(D)]
       \/ on_stack[x] /\ lowlink_of'[NodeAt(D)] = index_of[x]

\* PassVisited has that effect.
LEMMA PassedOverEffect ==
    ASSUME IInv, PassVisited
    PROVE  PassedOver(Len(call_stack), NextSuccessor)
<1> DEFINE D == Len(call_stack)
           t == NodeAt(D)
           k == call_stack[D].succ_index
           x == NextSuccessor
<1>1. call_stack # <<>> /\ ~Exhausted /\ ~Unvisited(x) /\ call_stack' = advanced
      /\ successors' = successors /\ index_of' = index_of
  BY DEF PassVisited
<1>2. /\ D \in DOMAIN call_stack /\ k \in Nat /\ k + 1 \in DOMAIN successors[t]
      /\ x = successors[t][k + 1] /\ x \in Node /\ Reach(t, x)
      /\ advanced \in Seq(Frame) /\ Len(advanced) = D /\ DOMAIN advanced = DOMAIN call_stack
  BY <1>1, AdvancedFrames
<1>3. \A i \in DOMAIN call_stack :
         /\ call_stack'[i].node = NodeAt(i)
         /\ call_stack'[i].succ_index = IF i = D THEN k + 1 ELSE call_stack[i].succ_index
  BY <1>1, AdvancedFrames
<1>4. /\ DOMAIN call_stack = 1 .. D /\ D \in Nat
      /\ \A i \in DOMAIN call_stack : NodeAt(i) \in Node /\ call_stack[i].succ_index \in Nat
  BY FrameType DEF IInv
<1>5. \A w \in Node : /\ successors[w] \in Seq(Node) /\ Len(successors[w]) \in Nat
                       /\ DOMAIN successors[w] = 1 .. Len(successors[w])
  BY SuccessorsType DEF IInv
<1>6. /\ index_of \in [Node -> 0 .. N] /\ lowlink_of \in [Node -> 0 .. N]
      /\ on_stack \in [Node -> BOOLEAN] /\ N \in Nat
  BY NAssumption DEF IInv, TypeOK
<1>7. \A i \in DOMAIN call_stack : call_stack'[i].succ_index <= Len(successors[NodeAt(i)])
  BY <1>2, <1>3, <1>4, <1>5 DEF IInv, CallInv
<1>8. \A i \in DOMAIN call_stack : NodeAt(i) = t => i = D
  <2> SUFFICES ASSUME NEW i \in DOMAIN call_stack, NodeAt(i) = t, i # D PROVE FALSE
    OBVIOUS
  <2>1. i < D
    BY <1>4
  <2>2. index_of[NodeAt(i)] < index_of[t] /\ index_of[t] \in Nat
    BY <2>1, <1>2, <1>4, <1>6 DEF IInv, CallInv
  <2> QED
    BY <2>2
<1>9. \A w \in Node : \A m \in Passed(w)' :
         /\ m \in DOMAIN successors[w]
         /\ m \in Passed(w) \/ (w = t /\ successors[w][m] = x)
  <2> SUFFICES ASSUME NEW w \in Node, NEW m \in Passed(w)'
               PROVE  /\ m \in DOMAIN successors[w]
                      /\ m \in Passed(w) \/ (w = t /\ successors[w][m] = x)
    OBVIOUS
  <2>1. m \in DOMAIN successors[w] /\ m \in Nat
    BY <1>1, <1>5 DEF Passed
  <2>2. \A i \in DOMAIN call_stack' : call_stack'[i].node = w => m <= call_stack'[i].succ_index
    BY DEF Passed, NodeAt
  <2>3. ASSUME m \notin Passed(w) PROVE w = t /\ successors[w][m] = x
    <3>1. PICK i \in DOMAIN call_stack : NodeAt(i) = w /\ ~(m <= call_stack[i].succ_index)
      BY <2>1, <2>3 DEF Passed
    <3>2. m <= call_stack'[i].succ_index
      BY <1>1, <1>2, <1>3, <2>2, <3>1
    <3>3. i = D
      BY <1>3, <3>1, <3>2
    <3>4. m = k + 1
      BY <1>2, <1>3, <2>1, <3>1, <3>2, <3>3
    <3> QED
      BY <1>2, <3>1, <3>3, <3>4
  <2> QED
    BY <2>1, <2>3
<1>10. \A w \in Node : lowlink_of'[w] = IF w = t /\ on_stack[x] THEN Least(lowlink_of[w], index_of[x])
                                                               ELSE lowlink_of[w]
  <2>1. frame.node = t
    BY <1>1, AdvancedFrames
  <2> QED
    BY <1>6, <2>1 DEF PassVisited
<1>11. \A w \in Node : index_of[w] \in Nat /\ lowlink_of[w] \in Nat /\ lowlink_of[w] \in 0 .. N
                       /\ index_of[w] \in 0 .. N
  BY <1>6
<1>12. \A w \in Node : lowlink_of'[w] \in 0 .. N /\ lowlink_of'[w] <= lowlink_of[w]
  BY <1>2, <1>10, <1>11 DEF Least
<1>13. /\ on_stack[x] => lowlink_of'[t] <= index_of[x]
       /\ \/ lowlink_of'[t] = lowlink_of[t]
          \/ on_stack[x] /\ lowlink_of'[t] = index_of[x]
  <2>1. /\ t \in Node /\ x \in Node
        /\ lowlink_of[t] \in Nat /\ index_of[x] \in Nat
    BY <1>2, <1>4, <1>11
  <2>2. lowlink_of'[t] = IF on_stack[x] THEN Least(lowlink_of[t], index_of[x]) ELSE lowlink_of[t]
    BY <1>10, <2>1
  <2> QED
    BY <2>1, <2>2 DEF Least
<1> QED
  BY <1>1, <1>2, <1>3, <1>7, <1>8, <1>9, <1>10, <1>11, <1>12, <1>13 DEF PassedOver

\* Passing a visited successor keeps the invariant.
LEMMA PassVisitedStep == ASSUME IInv, PassVisited PROVE IInv'
<1> DEFINE D == Len(call_stack)
           t == NodeAt(D)
           x == NextSuccessor
<1>0. PassedOver(D, x)
  BY PassedOverEffect
<1>1. UNCHANGED <<successors, index_of, on_stack, component_stack, next_index, result, sccs, pc>>
  BY DEF PassVisited
<1>2. edges' = edges
  BY <1>1, SameWays
<1>3. \A w \in Node : (Unvisited(w)' <=> Unvisited(w)) /\ (IsEmitted(w)' <=> IsEmitted(w))
  BY <1>1 DEF Unvisited, kUnvisited, IsEmitted
<1>4. visited' = visited
  BY <1>3 DEF visited
<1>5. TypeOK'
  <2>1. lowlink_of' \in [Node -> 0 .. N]
    <3>1. DOMAIN lowlink_of' = Node /\ lowlink_of' = [w \in Node |-> lowlink_of'[w]]
      BY DEF PassVisited, IInv, TypeOK
    <3> QED
      BY <1>0, <3>1 DEF PassedOver
  <2> QED
    BY <1>0, <1>1, <2>1 DEF IInv, TypeOK, PassedOver
<1>6. StackInv'
  BY <1>1 DEF IInv, StackInv
<1>7. VisitInv'
  BY <1>1, <1>3, <1>4 DEF IInv, VisitInv
<1>8. CallInv'
  <2>1. /\ DOMAIN call_stack' = DOMAIN call_stack
        /\ \A i \in DOMAIN call_stack : /\ call_stack'[i].node = NodeAt(i)
                                         /\ call_stack'[i].succ_index <= Len(successors[NodeAt(i)])
    BY <1>0 DEF PassedOver
  <2>2. call_stack # <<>> => 1 \in DOMAIN call_stack /\ call_stack' # <<>>
    BY <1>0 DEF IInv, TypeOK, PassedOver
  <2>3. \A i \in DOMAIN call_stack' :
          on_stack'[call_stack'[i].node]
            /\ call_stack'[i].succ_index <= Len(successors'[call_stack'[i].node])
    BY <1>1, <2>1 DEF IInv, CallInv
  <2>4. \A i, j \in DOMAIN call_stack' :
          i < j => index_of'[call_stack'[i].node] < index_of'[call_stack'[j].node]
    BY <1>1, <2>1 DEF IInv, CallInv
  <2>5. \A w \in Node :
          on_stack'[w] => call_stack' # <<>> /\ index_of'[call_stack'[1].node] <= index_of'[w]
    BY <1>1, <2>1, <2>2 DEF IInv, CallInv
  <2> QED
    BY <2>3, <2>4, <2>5 DEF CallInv, NodeAt
<1>9. ASSUME NEW i \in DOMAIN call_stack, NEW w \in Node
      PROVE  (Above(i, w)' <=> Above(i, w)) /\ (Below(i, w)' <=> Below(i, w))
  <2>1. Above(i, w)' <=> Above(i, w)
    BY <1>0, <1>1 DEF Above, NodeAt, PassedOver
  <2>2. i # D => i + 1 \in DOMAIN call_stack
    <3>1. D \in Nat /\ DOMAIN call_stack = 1 .. D
      BY FrameType DEF IInv
    <3> QED
      BY <3>1
  <2>3. Below(i, w)' <=> Below(i, w)
    BY <1>0, <1>1, <2>2 DEF Below, NodeAt, PassedOver
  <2> QED
    BY <2>1, <2>3
<1>10. ReachInv'
  BY <1>0, <1>2, <1>9 DEF IInv, ReachInv, NodeAt, Reach, PassedOver
<1>11. LowInv'
  <2>1. ASSUME NEW i \in DOMAIN call_stack
        PROVE  /\ lowlink_of'[NodeAt(i)] <= index_of[NodeAt(i)]
               /\ \E u \in Node : on_stack[u] /\ index_of[u] = lowlink_of'[NodeAt(i)] /\ Reach(NodeAt(i), u)
    <3>1. NodeAt(i) \in Node
      BY FrameType DEF IInv
    <3>2. lowlink_of[NodeAt(i)] <= index_of[NodeAt(i)] /\ lowlink_of'[NodeAt(i)] <= lowlink_of[NodeAt(i)]
      BY <1>0, <3>1 DEF IInv, LowInv, PassedOver
    <3>3. lowlink_of'[NodeAt(i)] \in Nat /\ lowlink_of[NodeAt(i)] \in Nat /\ index_of[NodeAt(i)] \in Nat
      BY <1>0, <3>1 DEF PassedOver
    <3>4. lowlink_of'[NodeAt(i)] <= index_of[NodeAt(i)]
      BY <3>2, <3>3
    <3>5. CASE lowlink_of'[NodeAt(i)] = lowlink_of[NodeAt(i)]
      BY <3>4, <3>5 DEF IInv, LowInv
    <3>6. CASE lowlink_of'[NodeAt(i)] # lowlink_of[NodeAt(i)]
      BY <1>0, <3>1, <3>4, <3>6 DEF PassedOver
    <3> QED
      BY <3>5, <3>6
  <2>2. ASSUME NEW i \in DOMAIN call_stack, NEW w \in Node, Above(i, w), Below(i, w),
               NEW m \in Passed(w)', on_stack[successors[w][m]]
        PROVE  lowlink_of'[NodeAt(i)] <= index_of[successors[w][m]]
    <3>1. /\ NodeAt(i) \in Node /\ m \in DOMAIN successors[w]
          /\ m \in Passed(w) \/ (w = t /\ successors[w][m] = x)
      BY <1>0, FrameType DEF IInv, PassedOver
    <3>2. /\ lowlink_of'[NodeAt(i)] \in Nat /\ lowlink_of[NodeAt(i)] \in Nat
          /\ successors[w][m] \in Node /\ index_of[successors[w][m]] \in Nat
          /\ lowlink_of'[NodeAt(i)] <= lowlink_of[NodeAt(i)]
      BY <1>0, <3>1, SuccessorsType DEF IInv, PassedOver
    <3>3. CASE m \in Passed(w)
      <4>1. lowlink_of[NodeAt(i)] <= index_of[successors[w][m]]
        BY <2>2, <3>3 DEF IInv, LowInv
      <4> QED
        BY <3>2, <4>1
    <3>4. CASE w = t /\ successors[w][m] = x
      <4>1. i = D
        <5> SUFFICES ASSUME i # D PROVE FALSE
          OBVIOUS
        <5>1. D \in Nat /\ DOMAIN call_stack = 1 .. D
          BY FrameType DEF IInv
        <5>2. i + 1 \in DOMAIN call_stack /\ D \in DOMAIN call_stack /\ (i + 1 = D \/ i + 1 < D)
          BY <5>1
        <5>3. index_of[t] < index_of[NodeAt(i + 1)] /\ index_of[t] \in Nat /\ NodeAt(i + 1) \in Node
          BY <1>0, <2>2, <3>4, <5>2, FrameType DEF Below, PassedOver, IInv
        <5>4. index_of[NodeAt(i + 1)] \in Nat
          BY <1>0, <5>3 DEF PassedOver
        <5>5. i + 1 = D \/ index_of[NodeAt(i + 1)] < index_of[t]
          BY <5>2 DEF IInv, CallInv
        <5> QED
          BY <5>3, <5>4, <5>5
      <4> QED
        BY <1>0, <2>2, <3>4, <4>1 DEF PassedOver
    <3> QED
      BY <3>1, <3>3, <3>4
  <2>3. DOMAIN call_stack' = DOMAIN call_stack /\ \A i \in DOMAIN call_stack : NodeAt(i)' = NodeAt(i)
    BY <1>0 DEF PassedOver, NodeAt
  <2> QED
    BY <1>1, <1>2, <1>9, <2>1, <2>2, <2>3 DEF LowInv, Reach
<1>12. PassedInv'
  BY <1>0, <1>1, <1>3 DEF IInv, PassedInv, PassedOver, Unvisited, kUnvisited
<1>13. ResultInv'
  BY <1>1, <1>2 DEF IInv, ResultInv, Reach
<1>14. DoneInv'
  <2>1. pc # "done"
    BY DEF IInv, DoneInv, PassVisited
  <2> QED
    BY <1>1, <2>1 DEF DoneInv
<1> QED
  BY <1>5, <1>6, <1>7, <1>8, <1>10, <1>11, <1>12, <1>13, <1>14 DEF IInv
-----------------------------------------------------------------------------
(* The frame on top is closed.                                             *)

\* What closing the frame of t, at position D, does to the call stack.
Popped(D, t) ==
    /\ D = Len(call_stack) /\ D \in Nat /\ D >= 1 /\ DOMAIN call_stack = 1 .. D
    /\ t = NodeAt(D) /\ t \in Node /\ frame.node = t
    /\ call_stack' \in Seq(Frame) /\ Len(call_stack') = D - 1 /\ DOMAIN call_stack' = 1 .. D - 1
    /\ \A i \in 1 .. D : NodeAt(i) \in Node /\ on_stack[NodeAt(i)]
    /\ \A i \in 1 .. D - 1 : call_stack'[i] = call_stack[i] /\ index_of[NodeAt(i)] < index_of[t]
    /\ \A w \in Node : Passed(w)' \subseteq Passed(w)
    /\ \A w \in Node : index_of[w] \in Nat /\ lowlink_of[w] \in Nat
    /\ lowlink_of' \in [Node -> 0 .. N]
    /\ \A w \in Node : (D >= 2 => w # NodeAt(D - 1)) => lowlink_of'[w] = lowlink_of[w]
    /\ D >= 2 => lowlink_of'[NodeAt(D - 1)] = Least(lowlink_of[NodeAt(D - 1)], lowlink_of[t])
    /\ \A m \in DOMAIN successors[t] : m \in Passed(t)
    /\ UNCHANGED <<successors, index_of, next_index, sccs, pc>>

\* CloseNode has that effect.
LEMMA CloseEffect ==
    ASSUME IInv, CloseNode
    PROVE  Popped(Len(call_stack), NodeAt(Len(call_stack)))
<1> DEFINE D == Len(call_stack)
           t == NodeAt(D)
<1>1. /\ call_stack \in Seq(Frame) /\ D \in Nat /\ DOMAIN call_stack = 1 .. D
      /\ \A i \in DOMAIN call_stack : /\ NodeAt(i) \in Node /\ call_stack[i].succ_index \in Nat
  BY FrameType DEF IInv, TypeOK
<1>2. D >= 1 /\ D \in DOMAIN call_stack /\ D - 1 \in Nat
  BY <1>1 DEF CloseNode
<1>3. t \in Node /\ frame.node = t /\ call_stack[D].succ_index = Len(successors[t])
  BY <1>1, <1>2 DEF CloseNode, Exhausted, frame, Top, NodeAt
<1>4. /\ call_stack' = SubSeq(call_stack, 1, D - 1)
      /\ UNCHANGED <<successors, index_of, next_index, sccs, pc>>
  BY DEF CloseNode, Pop
<1>5. /\ call_stack' \in Seq(Frame) /\ Len(call_stack') = D - 1 /\ DOMAIN call_stack' = 1 .. D - 1
      /\ \A i \in 1 .. D - 1 : call_stack'[i] = call_stack[i]
  BY <1>1, <1>2, <1>4
<1>6. \A i \in 1 .. D : NodeAt(i) \in Node /\ on_stack[NodeAt(i)]
  BY <1>1 DEF IInv, CallInv
<1>7. \A i \in 1 .. D - 1 : index_of[NodeAt(i)] < index_of[t]
  <2> SUFFICES ASSUME NEW i \in 1 .. D - 1 PROVE index_of[NodeAt(i)] < index_of[t]
    OBVIOUS
  <2>1. i \in DOMAIN call_stack /\ i < D
    BY <1>1, <1>2
  <2> QED
    BY <1>2, <2>1 DEF IInv, CallInv
<1>8. \A w \in Node : /\ successors[w] \in Seq(Node) /\ Len(successors[w]) \in Nat
                       /\ DOMAIN successors[w] = 1 .. Len(successors[w])
  BY SuccessorsType DEF IInv
<1>9. \A w \in Node : Passed(w)' \subseteq Passed(w)
  <2> SUFFICES ASSUME NEW w \in Node, NEW m \in Passed(w)' PROVE m \in Passed(w)
    OBVIOUS
  <2>1. m \in DOMAIN successors[w]
    BY <1>4 DEF Passed
  <2>2. \A i \in DOMAIN call_stack' : call_stack'[i].node = w => m <= call_stack'[i].succ_index
    BY DEF Passed, NodeAt
  <2>3. ASSUME NEW i \in DOMAIN call_stack, NodeAt(i) = w PROVE m <= call_stack[i].succ_index
    <3>1. CASE i \in 1 .. D - 1
      BY <1>5, <2>2, <2>3, <3>1 DEF NodeAt
    <3>2. CASE i = D
      BY <1>3, <1>8, <2>1, <2>3, <3>2
    <3> QED
      BY <1>1, <1>2, <3>1, <3>2
  <2> QED
    BY <2>1, <2>3 DEF Passed
<1>10. /\ index_of \in [Node -> 0 .. N] /\ lowlink_of \in [Node -> 0 .. N] /\ N \in Nat
  BY NAssumption DEF IInv, TypeOK
<1>11. D >= 2 => Top(Pop(call_stack)).node = NodeAt(D - 1) /\ D - 1 \in 1 .. D
  BY <1>1, <1>4, <1>5 DEF Top, Pop, NodeAt
<1>12. lowlink_of' = IF D = 1 THEN lowlink_of
                     ELSE [lowlink_of EXCEPT ![NodeAt(D - 1)] = Least(@, lowlink_of[t])]
  <2>1. CASE D = 1
    BY <2>1 DEF CloseNode
  <2>2. CASE D # 1
    <3>1. lowlink_of' = [lowlink_of EXCEPT ![Top(Pop(call_stack)).node] =
                             Least(@, lowlink_of[frame.node])]
      BY <2>2 DEF CloseNode
    <3>2. Top(Pop(call_stack)).node = NodeAt(D - 1)
      BY <1>1, <1>2, <1>11, <2>2
    <3> QED
      BY <1>3, <2>2, <3>1, <3>2
  <2> QED
    BY <2>1, <2>2
<1>13. \A a, b \in 0 .. N : Least(a, b) \in 0 .. N
  BY DEF Least
<1>14. /\ lowlink_of' \in [Node -> 0 .. N]
       /\ \A w \in Node : (D >= 2 => w # NodeAt(D - 1)) => lowlink_of'[w] = lowlink_of[w]
       /\ D >= 2 => lowlink_of'[NodeAt(D - 1)] = Least(lowlink_of[NodeAt(D - 1)], lowlink_of[t])
  <2>1. CASE D = 1
    BY <1>10, <1>12, <2>1
  <2>2. CASE D >= 2
    <3>1. NodeAt(D - 1) \in Node
      BY <1>6, <1>11, <2>2
    <3>2. Least(lowlink_of[NodeAt(D - 1)], lowlink_of[t]) \in 0 .. N
      BY <1>3, <1>10, <1>13, <3>1
    <3>3. lowlink_of' = [lowlink_of EXCEPT ![NodeAt(D - 1)] = Least(lowlink_of[NodeAt(D - 1)], lowlink_of[t])]
      BY <1>12, <2>2
    <3> QED
      BY <1>10, <2>2, <3>1, <3>2, <3>3
  <2> QED
    BY <1>1, <1>2, <2>1, <2>2
<1>15. \A m \in DOMAIN successors[t] : m \in Passed(t)
  <2> SUFFICES ASSUME NEW m \in DOMAIN successors[t], NEW i \in DOMAIN call_stack, NodeAt(i) = t
               PROVE  m <= call_stack[i].succ_index
    BY DEF Passed
  <2>1. i = D
    <3>1. i \in 1 .. D - 1 => index_of[NodeAt(i)] < index_of[NodeAt(i)]
      BY <1>7
    <3>2. NodeAt(i) \in Node /\ index_of[NodeAt(i)] \in Nat
      BY <1>1, <1>10
    <3> QED
      BY <1>1, <1>2, <3>1, <3>2
  <2> QED
    BY <1>3, <1>8, <2>1
<1>16. \A w \in Node : index_of[w] \in Nat /\ lowlink_of[w] \in Nat
  BY <1>10
<1> QED
  BY <1>1, <1>2, <1>3, <1>4, <1>5, <1>6, <1>7, <1>9, <1>14, <1>15, <1>16 DEF Popped

\* A node below the root of its component is closed: the frame under it takes
\* over what it reaches.
LEMMA CloseBelowRoot == ASSUME IInv, CloseNode, ~IsRoot(frame.node) PROVE IInv'
<1> DEFINE D == Len(call_stack)
           t == NodeAt(D)
           p == NodeAt(D - 1)
<1>0. Popped(D, t)
  BY CloseEffect
<1>1. UNCHANGED <<result, component_stack, on_stack>> /\ UNCHANGED <<successors, index_of, next_index, sccs, pc>>
  BY DEF CloseNode
<1>2. edges' = edges
  BY <1>1, SameWays
<1>3. \A w \in Node : (Unvisited(w)' <=> Unvisited(w)) /\ (IsEmitted(w)' <=> IsEmitted(w))
  BY <1>1 DEF Unvisited, kUnvisited, IsEmitted
<1>4. visited' = visited
  BY <1>3 DEF visited
<1>5. lowlink_of[t] < index_of[t]
  <2>1. /\ D \in DOMAIN call_stack /\ frame.node = t
        /\ lowlink_of[t] \in Nat /\ index_of[t] \in Nat
    BY <1>0 DEF Popped
  <2>2. lowlink_of[t] <= index_of[t]
    BY <2>1 DEF IInv, LowInv
  <2>3. lowlink_of[t] # index_of[t]
    BY <2>1 DEF IsRoot
  <2> QED
    BY <2>1, <2>2, <2>3
<1>6. PICK u \in Node : on_stack[u] /\ index_of[u] = lowlink_of[t] /\ Reach(t, u)
  <2>1. D \in DOMAIN call_stack
    BY <1>0 DEF Popped
  <2> QED
    BY <2>1 DEF IInv, LowInv
<1>7. D \in Nat /\ D >= 2 /\ D - 1 \in 1 .. D - 1 /\ D - 1 \in 1 .. D /\ 1 \in 1 .. D /\ 1 \in 1 .. D - 1
  <2>1. D # 1
    <3> SUFFICES ASSUME D = 1 PROVE FALSE
      OBVIOUS
    <3>1. index_of[NodeAt(1)] <= index_of[u] /\ NodeAt(1) = t
      BY <1>6 DEF IInv, CallInv
    <3> QED
      BY <1>0, <1>5, <1>6, <3>1 DEF Popped
  <2> QED
    BY <1>0, <2>1 DEF Popped
<1>8. \A i \in 1 .. D - 1 : i \in DOMAIN call_stack /\ (i # D - 1 => i + 1 \in 1 .. D - 1)
  <2>1. D \in Nat /\ DOMAIN call_stack = 1 .. D
    BY <1>0 DEF Popped
  <2> HIDE DEF D
  <2> SUFFICES ASSUME NEW i \in 1 .. D - 1
               PROVE  i \in DOMAIN call_stack /\ (i # D - 1 => i + 1 \in 1 .. D - 1)
    OBVIOUS
  <2>2. i \in 1 .. D /\ (i # D - 1 => i + 1 \in 1 .. D - 1)
    BY <2>1
  <2> QED
    BY <2>1, <2>2
<1>9. \A i \in 1 .. D - 1 : NodeAt(i)' = NodeAt(i) /\ NodeAt(i) \in Node
  BY <1>0, <1>8 DEF Popped, NodeAt
<1>10. \A i \in 1 .. D - 1, w \in Node : Above(i, w)' <=> Above(i, w)
  BY <1>1, <1>9 DEF Above
<1>11. ASSUME NEW i \in 1 .. D - 1, NEW w \in Node, Below(i, w)'
       PROVE  Below(i, w) \/ (i = D - 1 /\ Above(D, w) /\ Below(D, w))
  <2>1. on_stack[w] /\ index_of[w] \in Nat /\ index_of[t] \in Nat
    BY <1>0, <1>1, <1>11 DEF Below, Popped
  <2>2. CASE i = D - 1
    <3>1. i + 1 = D /\ i # D
      BY <1>7, <2>2
    <3> QED
      BY <2>1, <2>2, <3>1 DEF Below, Above
  <2>3. CASE i # D - 1
    <3>1. i + 1 \in 1 .. D - 1
      BY <1>8, <2>3
    <3>2. Len(call_stack)' = D - 1
      BY <1>0 DEF Popped
    <3>3. index_of'[w] < index_of'[call_stack'[i + 1].node]
      BY <1>11, <2>3, <3>2 DEF Below, NodeAt
    <3>4. call_stack'[i + 1].node = NodeAt(i + 1)
      BY <1>0, <3>1 DEF Popped, NodeAt
    <3> QED
      BY <1>1, <2>1, <3>3, <3>4 DEF Below
  <2> QED
    BY <2>2, <2>3
<1>12. Reach(p, t)
  <2>1. Above(D - 1, t)
    <3>1. index_of[p] < index_of[t] /\ p \in Node /\ on_stack[t]
      BY <1>0, <1>7 DEF Popped
    <3> QED
      BY <1>0, <3>1 DEF Above, Popped
  <2> QED
    BY <1>0, <1>7, <1>8, <2>1 DEF IInv, ReachInv, Popped
<1>13. Reach(u, p)
  <2>1. Below(D - 1, u)
    <3>1. D - 1 + 1 = D
      BY <1>7
    <3> QED
      BY <1>5, <1>6, <3>1 DEF Below
  <2> QED
    BY <1>7, <1>8, <2>1 DEF IInv, ReachInv
<1>14. TypeOK'
  BY <1>0, <1>1 DEF IInv, TypeOK, Popped
<1>15. StackInv'
  BY <1>1 DEF IInv, StackInv
<1>16. VisitInv'
  BY <1>1, <1>3, <1>4 DEF IInv, VisitInv
<1>17. CallInv'
  <2>1. DOMAIN call_stack' = 1 .. D - 1 /\ call_stack' # <<>>
    BY <1>0, <1>7 DEF Popped
  <2>2. \A i \in 1 .. D - 1 : call_stack'[i] = call_stack[i]
    BY <1>0 DEF Popped
  <2>3. \A i \in 1 .. D - 1 : on_stack'[NodeAt(i)'] /\ call_stack'[i].succ_index <= Len(successors'[NodeAt(i)'])
    BY <1>1, <1>8, <1>9, <2>2 DEF IInv, CallInv
  <2>4. \A i, j \in 1 .. D - 1 : i < j => index_of'[NodeAt(i)'] < index_of'[NodeAt(j)']
    BY <1>1, <1>8, <1>9 DEF IInv, CallInv
  <2>5. \A w \in Node : on_stack'[w] => index_of'[call_stack'[1].node] <= index_of'[w]
    BY <1>1, <1>7, <2>2 DEF IInv, CallInv, NodeAt
  <2> QED
    BY <2>1, <2>3, <2>4, <2>5 DEF CallInv, NodeAt
<1>18. ReachInv'
  <2>1. \A i \in 1 .. D - 1, w \in Node : Above(i, w)' => Reach(NodeAt(i), w)
    BY <1>8, <1>10 DEF IInv, ReachInv
  <2>2. ASSUME NEW i \in 1 .. D - 1, NEW w \in Node, Below(i, w)'
        PROVE  Reach(w, NodeAt(i))
    <3>1. CASE Below(i, w)
      BY <1>8, <3>1 DEF IInv, ReachInv
    <3>2. CASE i = D - 1 /\ Below(D, w)
      <4>1. D \in DOMAIN call_stack
        BY <1>0 DEF Popped
      <4>2. Reach(w, t)
        BY <3>2, <4>1 DEF IInv, ReachInv
      <4> QED
        BY <1>6, <1>13, <3>2, <4>2, ReachTransitive
    <3> QED
      BY <1>11, <2>2, <3>1, <3>2
  <2>3. DOMAIN call_stack' = 1 .. D - 1
    BY <1>0 DEF Popped
  <2> QED
    BY <1>2, <1>9, <2>1, <2>2, <2>3 DEF ReachInv, Reach
<1>19. \A i \in 1 .. D - 1 : lowlink_of'[NodeAt(i)] <= lowlink_of[NodeAt(i)]
  <2> SUFFICES ASSUME NEW i \in 1 .. D - 1 PROVE lowlink_of'[NodeAt(i)] <= lowlink_of[NodeAt(i)]
    OBVIOUS
  <2>1. NodeAt(i) \in Node /\ lowlink_of[NodeAt(i)] \in Nat /\ lowlink_of[t] \in Nat
    BY <1>0, <1>9 DEF Popped
  <2>2. CASE NodeAt(i) = p
    <3>1. lowlink_of'[p] = Least(lowlink_of[p], lowlink_of[t])
      BY <1>0, <1>7 DEF Popped
    <3> QED
      BY <2>1, <2>2, <3>1 DEF Least
  <2>3. CASE NodeAt(i) # p
    <3>1. lowlink_of'[NodeAt(i)] = lowlink_of[NodeAt(i)]
      BY <1>0, <2>1, <2>3 DEF Popped
    <3> QED
      BY <2>1, <3>1
  <2> QED
    BY <2>2, <2>3
<1>20. lowlink_of'[p] <= lowlink_of[t]
  BY <1>0, <1>7, <1>9 DEF Popped, Least
<1>21. LowInv'
  <2>1. ASSUME NEW i \in 1 .. D - 1
        PROVE  /\ lowlink_of'[NodeAt(i)] <= index_of[NodeAt(i)]
               /\ \E v \in Node : on_stack[v] /\ index_of[v] = lowlink_of'[NodeAt(i)] /\ Reach(NodeAt(i), v)
    <3>0. lowlink_of'[NodeAt(i)] \in Nat /\ lowlink_of[NodeAt(i)] \in Nat /\ index_of[NodeAt(i)] \in Nat
      <4>1. /\ lowlink_of' \in [Node -> 0 .. N]
            /\ \A w \in Node : index_of[w] \in Nat /\ lowlink_of[w] \in Nat
        BY <1>0 DEF Popped
      <4>2. NodeAt(i) \in Node
        BY <1>9
      <4> QED
        BY <4>1, <4>2
    <3>1. lowlink_of[NodeAt(i)] <= index_of[NodeAt(i)]
      BY <1>8 DEF IInv, LowInv
    <3>2. lowlink_of'[NodeAt(i)] <= index_of[NodeAt(i)]
      BY <1>19, <3>0, <3>1
    <3>3. CASE lowlink_of'[NodeAt(i)] = lowlink_of[NodeAt(i)]
      BY <1>8, <3>2, <3>3 DEF IInv, LowInv
    <3>4. CASE lowlink_of'[NodeAt(i)] # lowlink_of[NodeAt(i)]
      <4>1. NodeAt(i) = p /\ lowlink_of'[p] = lowlink_of[t]
        BY <1>0, <1>7, <1>9, <3>4 DEF Popped, Least
      <4>2. Reach(p, u)
        BY <1>6, <1>12, ReachTransitive
      <4> QED
        BY <1>6, <3>2, <4>1, <4>2
    <3> QED
      BY <3>3, <3>4
  <2>2. ASSUME NEW i \in 1 .. D - 1, NEW w \in Node, Above(i, w)', Below(i, w)',
               NEW m \in Passed(w)', on_stack[successors[w][m]]
        PROVE  lowlink_of'[NodeAt(i)] <= index_of[successors[w][m]]
    <3>0. m \in Passed(w) /\ successors[w][m] \in Node /\ D \in DOMAIN call_stack
      <4>1. m \in Passed(w)
        BY <1>0, <2>2 DEF Popped
      <4>2. successors[w][m] \in Node
        BY <4>1, SuccessorsType DEF Passed, IInv
      <4>3. D \in DOMAIN call_stack
        BY <1>0 DEF Popped
      <4> QED
        BY <4>1, <4>2, <4>3
    <3>1. /\ lowlink_of'[NodeAt(i)] \in Nat /\ lowlink_of[NodeAt(i)] \in Nat
          /\ index_of[successors[w][m]] \in Nat /\ lowlink_of[t] \in Nat
      <4>1. \A x \in Node : lowlink_of[x] \in Nat /\ index_of[x] \in Nat
        BY <1>0 DEF Popped
      <4>2. lowlink_of' \in [Node -> 0 .. N] /\ t \in Node
        BY <1>0 DEF Popped
      <4>3. NodeAt(i) \in Node
        BY <1>9
      <4>4. lowlink_of'[NodeAt(i)] \in Nat
        BY <4>2, <4>3, NAssumption
      <4> QED
        BY <3>0, <4>1, <4>2, <4>3, <4>4
    <3>2. CASE Below(i, w)
      <4>1. lowlink_of[NodeAt(i)] <= index_of[successors[w][m]]
        BY <1>8, <1>10, <2>2, <3>0, <3>2 DEF IInv, LowInv
      <4> QED
        BY <1>19, <3>1, <4>1
    <3>3. CASE i = D - 1 /\ Above(D, w) /\ Below(D, w)
      <4>1. lowlink_of[t] <= index_of[successors[w][m]]
        BY <2>2, <3>0, <3>3 DEF IInv, LowInv
      <4> QED
        BY <1>20, <3>1, <3>3, <4>1
    <3> QED
      BY <1>11, <2>2, <3>2, <3>3
  <2>3. DOMAIN call_stack' = 1 .. D - 1
    BY <1>0 DEF Popped
  <2> QED
    BY <1>1, <1>2, <1>9, <2>1, <2>2, <2>3 DEF LowInv, Reach
<1>22. PassedInv'
  BY <1>0, <1>1, <1>3 DEF IInv, PassedInv, Popped, Unvisited, kUnvisited
<1>23. ResultInv'
  BY <1>1, <1>2 DEF IInv, ResultInv, Reach
<1>24. DoneInv'
  <2>1. pc # "done"
    BY DEF IInv, DoneInv, CloseNode
  <2> QED
    BY <1>1, <2>1 DEF DoneInv
<1> QED
  BY <1>14, <1>15, <1>16, <1>17, <1>18, <1>21, <1>22, <1>23, <1>24 DEF IInv

\* The part of the component stack from the root of a component is what was
\* discovered with or after it.
LEMMA StackAbove ==
    ASSUME IInv, NEW t \in Node, on_stack[t]
    PROVE  /\ PositionOf(t) \in DOMAIN component_stack
           /\ \A i \in DOMAIN component_stack :
                i < PositionOf(t) <=> index_of[component_stack[i]] < index_of[t]
           /\ \A w \in Node : w \in ComponentOf(t) <=> on_stack[w] /\ index_of[t] <= index_of[w]
           /\ ComponentOf(t) \subseteq Node
<1> DEFINE P == PositionOf(t)
<1>1. /\ component_stack \in Seq(Node) /\ Len(component_stack) \in Nat
      /\ DOMAIN component_stack = 1 .. Len(component_stack)
      /\ \A i \in DOMAIN component_stack : component_stack[i] \in Node
  BY DEF IInv, TypeOK
<1>2. P \in DOMAIN component_stack /\ component_stack[P] = t
  BY DEF PositionOf, IInv, StackInv
<1>3. \A w \in Node : index_of[w] \in Nat
  BY NAssumption DEF IInv, TypeOK
<1>4. \A i \in DOMAIN component_stack : i < P <=> index_of[component_stack[i]] < index_of[t]
  <2> SUFFICES ASSUME NEW i \in DOMAIN component_stack
               PROVE  i < P <=> index_of[component_stack[i]] < index_of[t]
    OBVIOUS
  <2>1. i < P => index_of[component_stack[i]] < index_of[t]
    BY <1>2 DEF IInv, StackInv
  <2>2. P < i => index_of[t] < index_of[component_stack[i]]
    BY <1>2 DEF IInv, StackInv
  <2>3. i \in Nat /\ P \in Nat /\ index_of[component_stack[i]] \in Nat /\ index_of[t] \in Nat
    BY <1>1, <1>2, <1>3
  <2>4. i = P => index_of[component_stack[i]] = index_of[t]
    BY <1>2
  <2> HIDE DEF P
  <2> QED
    BY <2>1, <2>2, <2>3, <2>4
<1>5. \A i : i \in P .. Len(component_stack) <=> i \in DOMAIN component_stack /\ ~(i < P)
  BY <1>1, <1>2
<1>6. \A w \in Node : w \in ComponentOf(t) <=> on_stack[w] /\ index_of[t] <= index_of[w]
  <2> SUFFICES ASSUME NEW w \in Node
               PROVE  w \in ComponentOf(t) <=> on_stack[w] /\ index_of[t] <= index_of[w]
    OBVIOUS
  <2>1. w \in ComponentOf(t) <=> \E i \in DOMAIN component_stack : ~(i < P) /\ component_stack[i] = w
    BY <1>5 DEF ComponentOf
  <2>2. \A i \in DOMAIN component_stack : component_stack[i] = w => (~(i < P) <=> index_of[t] <= index_of[w])
    BY <1>3, <1>4
  <2> QED
    BY <2>1, <2>2 DEF IInv, StackInv
<1>7. ComponentOf(t) \subseteq Node
  BY <1>1, <1>5 DEF ComponentOf
<1> QED
  BY <1>2, <1>4, <1>6, <1>7

\* The root of a component is closed: all that was discovered since it is the
\* component.
LEMMA CloseRoot == ASSUME IInv, CloseNode, IsRoot(frame.node) PROVE IInv'
<1> DEFINE D == Len(call_stack)
           t == NodeAt(D)
           C == ComponentOf(t)
           L == Len(result)
<1>0. Popped(D, t)
  BY CloseEffect
<1>1. UNCHANGED <<successors, index_of, next_index, sccs, pc>>
  BY DEF CloseNode
<1>2. edges' = edges
  BY <1>1, SameWays
<1>3. /\ t \in Node /\ on_stack[t] /\ lowlink_of[t] = index_of[t] /\ D \in Nat /\ D \in 1 .. D
      /\ DOMAIN call_stack = 1 .. D
  BY <1>0 DEF Popped, IsRoot
<1>4. emit_component(t)
  BY <1>0 DEF CloseNode, Popped
<1>5. \A w \in Node : index_of[w] \in Nat /\ lowlink_of[w] \in Nat
  BY <1>0 DEF Popped
<1>6. /\ \A w \in Node : w \in C <=> on_stack[w] /\ index_of[t] <= index_of[w]
      /\ C \subseteq Node
  BY <1>3, StackAbove
<1>7. \A w \in Node : on_stack'[w] <=> on_stack[w] /\ index_of[w] < index_of[t]
  <2>1. \A w \in Node : on_stack'[w] <=> on_stack[w] /\ w \notin C
    BY <1>4 DEF emit_component
  <2> QED
    BY <1>3, <1>5, <1>6, <2>1
<1>8. /\ result' = Append(result, C) /\ L \in Nat /\ DOMAIN result = 1 .. L
      /\ DOMAIN result' = 1 .. L + 1 /\ Len(result') = L + 1
      /\ result'[L + 1] = C /\ \A i \in 1 .. L : result'[i] = result[i]
      /\ result' \in Seq(SUBSET Node)
  <2>1. result \in Seq(SUBSET Node) /\ C \in SUBSET Node
    BY <1>6 DEF IInv, TypeOK
  <2>2. result' = Append(result, C)
    BY <1>4 DEF emit_component
  <2> HIDE DEF C
  <2> QED
    BY <2>1, <2>2
<1>9. \A w \in Node : IsEmitted(w)' <=> IsEmitted(w) \/ w \in C
  <2> HIDE DEF C, L
  <2> SUFFICES ASSUME NEW w \in Node PROVE IsEmitted(w)' <=> IsEmitted(w) \/ w \in C
    OBVIOUS
  <2>1. \A i : i \in 1 .. L + 1 <=> i \in 1 .. L \/ i = L + 1
    BY <1>8
  <2> QED
    BY <1>8, <2>1 DEF IsEmitted
<1>10. \A w \in Node : Unvisited(w)' <=> Unvisited(w)
  BY <1>1 DEF Unvisited, kUnvisited
<1>11. visited' = visited
  BY <1>10 DEF visited
<1>12. \A i \in 1 .. D - 1 : /\ i \in DOMAIN call_stack /\ NodeAt(i) \in Node /\ NodeAt(i)' = NodeAt(i)
                              /\ index_of[NodeAt(i)] < index_of[t] /\ on_stack[NodeAt(i)]
  <2>1. \A i \in 1 .. D - 1 : i \in DOMAIN call_stack
    BY <1>3
  <2> QED
    BY <1>0, <2>1 DEF Popped, NodeAt
<1>13. \A i \in 1 .. D - 1 : lowlink_of'[NodeAt(i)] = lowlink_of[NodeAt(i)]
  <2> SUFFICES ASSUME NEW i \in 1 .. D - 1 PROVE lowlink_of'[NodeAt(i)] = lowlink_of[NodeAt(i)]
    OBVIOUS
  <2>1. D >= 2 /\ D - 1 \in 1 .. D - 1
    BY <1>3
  <2>2. CASE NodeAt(i) = NodeAt(D - 1)
    <3>1. lowlink_of[NodeAt(D - 1)] <= index_of[NodeAt(D - 1)]
      BY <1>12, <2>1 DEF IInv, LowInv
    <3>2. index_of[NodeAt(D - 1)] < index_of[t] /\ NodeAt(D - 1) \in Node
      BY <1>12, <2>1
    <3>3. lowlink_of[NodeAt(D - 1)] < lowlink_of[t]
      BY <1>3, <1>5, <3>1, <3>2
    <3> QED
      BY <1>0, <2>1, <2>2, <3>3 DEF Popped, Least
  <2>3. CASE NodeAt(i) # NodeAt(D - 1)
    BY <1>0, <1>12, <2>3 DEF Popped
  <2> QED
    BY <2>2, <2>3
<1>14. \A i \in 1 .. D - 1, w \in Node : Above(i, w)' => Above(i, w)
  BY <1>1, <1>7, <1>12 DEF Above
<1>15. ASSUME NEW i \in 1 .. D - 1, NEW w \in Node, Below(i, w)'
       PROVE  Below(i, w)
  <2>1. on_stack[w] /\ index_of[w] < index_of[t]
    BY <1>7, <1>15 DEF Below
  <2>2. CASE i = D - 1
    <3>1. i + 1 = D
      BY <1>3, <2>2
    <3> QED
      BY <2>1, <3>1 DEF Below
  <2>3. CASE i # D - 1
    <3>0. D \in Nat
      BY <1>3
    <3>1. i + 1 \in 1 .. D - 1
      <4> HIDE DEF D
      <4> QED
        BY <2>3, <3>0
    <3>2. Len(call_stack)' = D - 1
      BY <1>0 DEF Popped
    <3>3. index_of'[w] < index_of'[call_stack'[i + 1].node]
      BY <1>15, <2>3, <3>2 DEF Below, NodeAt
    <3>4. call_stack'[i + 1].node = NodeAt(i + 1)
      BY <1>12, <3>1 DEF NodeAt
    <3> QED
      BY <1>1, <2>1, <3>3, <3>4 DEF Below
  <2> QED
    BY <2>2, <2>3
<1>16. TypeOK'
  <2>1. component_stack' \in Seq(Node)
    <3>1. component_stack \in Seq(Node) /\ PositionOf(t) \in DOMAIN component_stack
      BY <1>3, StackAbove DEF IInv, TypeOK
    <3>2. component_stack' = SubSeq(component_stack, 1, PositionOf(t) - 1)
      BY <1>4 DEF emit_component
    <3>3. PositionOf(t) - 1 \in 0 .. Len(component_stack) /\ Len(component_stack) \in Nat
      BY <3>1
    <3> QED
      BY <3>1, <3>2, <3>3
  <2>2. on_stack' \in [Node -> BOOLEAN]
    BY <1>4 DEF emit_component, IInv, TypeOK
  <2> QED
    BY <1>0, <1>1, <1>8, <2>1, <2>2 DEF IInv, TypeOK, Popped
<1>17. StackInv'
  <2> DEFINE P == PositionOf(t)
             nodes == component_stack
  <2>1. /\ nodes \in Seq(Node) /\ Len(nodes) \in Nat /\ DOMAIN nodes = 1 .. Len(nodes)
        /\ P \in DOMAIN nodes /\ component_stack' = SubSeq(nodes, 1, P - 1)
        /\ \A i \in DOMAIN nodes : nodes[i] \in Node
    <3>1. nodes \in Seq(Node)
      BY DEF IInv, TypeOK
    <3>2. P \in DOMAIN nodes
      BY <1>3, StackAbove
    <3> QED
      BY <1>4, <3>1, <3>2 DEF emit_component
  <2>2. \A i \in DOMAIN nodes : i < P <=> index_of[nodes[i]] < index_of[t]
    BY <1>3, StackAbove
  <2> HIDE DEF P
  <2>3. /\ DOMAIN component_stack' = 1 .. P - 1
        /\ \A i \in 1 .. P - 1 : component_stack'[i] = nodes[i]
    BY <2>1
  <2>4. \A i : i \in 1 .. P - 1 <=> i \in DOMAIN nodes /\ i < P
    BY <2>1
  <2>5. \A w \in Node : on_stack'[w] <=> \E i \in 1 .. P - 1 : nodes[i] = w
    BY <1>7, <2>2, <2>4 DEF IInv, StackInv
  <2>6. \A i, j \in 1 .. P - 1 : i < j => index_of[nodes[i]] < index_of[nodes[j]]
    BY <2>4 DEF IInv, StackInv
  <2> QED
    BY <1>1, <2>3, <2>5, <2>6 DEF StackInv
<1>18. VisitInv'
  <2>1. \A w \in Node : on_stack[w] <=> on_stack'[w] \/ w \in C
    BY <1>3, <1>5, <1>6, <1>7
  <2>2. \A w \in Node : on_stack'[w] => w \notin C
    BY <1>3, <1>5, <1>6, <1>7
  <2> HIDE DEF C
  <2> QED
    BY <1>1, <1>7, <1>9, <1>10, <1>11, <2>1, <2>2 DEF IInv, VisitInv
<1>19. CallInv'
  <2>1. DOMAIN call_stack' = 1 .. D - 1
    BY <1>0 DEF Popped
  <2>2. \A i \in 1 .. D - 1 : call_stack'[i] = call_stack[i]
    BY <1>0 DEF Popped
  <2>3. \A i \in 1 .. D - 1 : on_stack'[NodeAt(i)'] /\ call_stack'[i].succ_index <= Len(successors'[NodeAt(i)'])
    BY <1>1, <1>7, <1>12, <2>2 DEF IInv, CallInv
  <2>4. \A i, j \in 1 .. D - 1 : i < j => index_of'[NodeAt(i)'] < index_of'[NodeAt(j)']
    BY <1>1, <1>12 DEF IInv, CallInv
  <2>5. ASSUME NEW w \in Node, on_stack'[w]
        PROVE  call_stack' # <<>> /\ index_of'[NodeAt(1)'] <= index_of'[w]
    <3>1. on_stack[w] /\ index_of[w] < index_of[t] /\ index_of[NodeAt(1)] <= index_of[w]
      BY <1>7, <2>5 DEF IInv, CallInv
    <3>2. D # 1
      BY <1>3, <1>5, <3>1
    <3>3. 1 \in 1 .. D - 1
      BY <1>3, <3>2
    <3> QED
      BY <1>1, <1>12, <2>1, <3>1, <3>3
  <2> QED
    BY <2>1, <2>3, <2>4, <2>5 DEF CallInv
<1>20. ReachInv'
  <2>1. \A i \in 1 .. D - 1, w \in Node : Above(i, w)' => Reach(NodeAt(i), w)
    BY <1>12, <1>14 DEF IInv, ReachInv
  <2>2. \A i \in 1 .. D - 1, w \in Node : Below(i, w)' => Reach(w, NodeAt(i))
    BY <1>12, <1>15 DEF IInv, ReachInv
  <2>3. DOMAIN call_stack' = 1 .. D - 1
    BY <1>0 DEF Popped
  <2> QED
    BY <1>2, <1>12, <2>1, <2>2, <2>3 DEF ReachInv, Reach
<1>21. LowInv'
  <2>1. ASSUME NEW i \in 1 .. D - 1
        PROVE  /\ lowlink_of[NodeAt(i)] <= index_of[NodeAt(i)]
               /\ \E v \in Node : on_stack'[v] /\ index_of[v] = lowlink_of[NodeAt(i)] /\ Reach(NodeAt(i), v)
    <3>1. PICK v \in Node : on_stack[v] /\ index_of[v] = lowlink_of[NodeAt(i)] /\ Reach(NodeAt(i), v)
      BY <1>12 DEF IInv, LowInv
    <3>2. lowlink_of[NodeAt(i)] <= index_of[NodeAt(i)]
      BY <1>12 DEF IInv, LowInv
    <3>3. index_of[v] < index_of[t]
      BY <1>3, <1>5, <1>12, <3>1, <3>2
    <3> QED
      BY <1>7, <3>1, <3>2, <3>3
  <2>2. ASSUME NEW i \in 1 .. D - 1, NEW w \in Node, Above(i, w)', Below(i, w)',
               NEW m \in Passed(w)', on_stack'[successors[w][m]]
        PROVE  lowlink_of[NodeAt(i)] <= index_of[successors[w][m]]
    <3>1. m \in Passed(w)
      BY <1>0 DEF Popped
    <3>2. successors[w][m] \in Node
      BY <3>1, SuccessorsType DEF Passed, IInv
    <3>3. on_stack[successors[w][m]]
      BY <1>7, <2>2, <3>2
    <3> QED
      BY <1>12, <1>14, <1>15, <2>2, <3>1, <3>3 DEF IInv, LowInv
  <2>3. DOMAIN call_stack' = 1 .. D - 1
    BY <1>0 DEF Popped
  <2> QED
    BY <1>1, <1>2, <1>12, <1>13, <2>1, <2>2, <2>3 DEF LowInv, Reach
<1>22. PassedInv'
  BY <1>0, <1>1, <1>10 DEF IInv, PassedInv, Popped, Unvisited, kUnvisited
<1>23. ASSUME NEW v \in C
       PROVE  v \in Node /\ Above(D, v) /\ Below(D, v) /\ Reach(v, t) /\ Reach(t, v)
  <2>1. v \in Node /\ on_stack[v] /\ index_of[t] <= index_of[v]
    BY <1>6
  <2>2. Above(D, v) /\ Below(D, v)
    BY <2>1 DEF Above, Below
  <2> QED
    BY <1>3, <2>1, <2>2 DEF IInv, ReachInv
<1>24. ASSUME NEW v \in C, NEW m \in DOMAIN successors[v]
       PROVE  successors[v][m] \in C \/ \E j \in 1 .. L : successors[v][m] \in result[j]
  <2>1. v \in Node /\ on_stack[v] /\ index_of[t] <= index_of[v]
    BY <1>6
  <2>2. m \in Passed(v)
    <3>1. CASE v = t
      BY <1>0, <3>1 DEF Popped
    <3>2. CASE v # t
      <4>1. \A i \in DOMAIN call_stack : NodeAt(i) # v
        <5>1. \A i \in 1 .. D - 1 : NodeAt(i) # v
          BY <1>3, <1>5, <1>12, <2>1
        <5>2. \A i \in 1 .. D : i \in 1 .. D - 1 \/ i = D
          <6>1. D \in Nat
            BY <1>3
          <6> HIDE DEF D
          <6> QED
            BY <6>1
        <5> QED
          BY <1>3, <3>2, <5>1, <5>2
      <4> QED
        BY <4>1 DEF Passed
    <3> QED
      BY <3>1, <3>2
  <2>3. successors[v][m] \in Node
    BY <2>1, SuccessorsType DEF IInv
  <2>4. ~Unvisited(v)
    BY <2>1 DEF IInv, VisitInv
  <2>5. ~Unvisited(successors[v][m])
    BY <2>1, <2>2, <2>4 DEF IInv, PassedInv
  <2>6. CASE on_stack[successors[v][m]]
    <3>1. lowlink_of[t] <= index_of[successors[v][m]]
      BY <1>3, <1>23, <2>1, <2>2, <2>6 DEF IInv, LowInv
    <3> QED
      BY <1>3, <1>6, <2>3, <2>6, <3>1
  <2>7. CASE ~on_stack[successors[v][m]]
    BY <1>8, <2>3, <2>5, <2>7 DEF IInv, VisitInv, IsEmitted
  <2> QED
    BY <2>6, <2>7
<1>25. ResultInv'
  <2>1. t \in C
    BY <1>3, <1>5, <1>6
  <2>2. \A i \in 1 .. L : C \cap result[i] = {}
    BY <1>6, <1>8 DEF IInv, VisitInv, IsEmitted
  <2>3. \A v, w \in C : Reach(v, w)
    BY <1>23, ReachTransitive
  <2> HIDE DEF C, L
  <2>4. \A i : i \in 1 .. L + 1 <=> i \in 1 .. L \/ i = L + 1
    BY <1>8
  <2>5. \A i \in 1 .. L + 1 : result'[i] # {}
    BY <1>8, <2>1, <2>4 DEF IInv, ResultInv
  <2>6. \A i, j \in 1 .. L + 1 : \A v \in result'[i] \cap result'[j] : i = j
    BY <1>8, <2>2, <2>4 DEF IInv, ResultInv
  <2>7. \A i \in 1 .. L + 1 : \A v, w \in result'[i] : Reach(v, w)
    BY <1>8, <2>3, <2>4 DEF IInv, ResultInv
  <2>8. ASSUME NEW i \in 1 .. L + 1, NEW v \in result'[i], NEW m \in DOMAIN successors[v]
        PROVE  \E j \in 1 .. i : successors[v][m] \in result'[j]
    <3>1. CASE i \in 1 .. L
      <4>1. PICK j \in 1 .. i : successors[v][m] \in result[j]
        BY <1>8, <2>8, <3>1 DEF IInv, ResultInv
      <4>2. j \in 1 .. L
        BY <1>8, <3>1
      <4> QED
        BY <1>8, <4>1, <4>2
    <3>2. CASE i = L + 1
      <4>1. v \in C
        BY <1>8, <3>2
      <4>2. CASE successors[v][m] \in C
        BY <1>8, <3>2, <4>2
      <4>3. ASSUME NEW j \in 1 .. L, successors[v][m] \in result[j]
            PROVE  \E k \in 1 .. i : successors[v][m] \in result'[k]
        <5>1. j \in 1 .. i /\ result'[j] = result[j]
          BY <1>8, <3>2
        <5> QED
          BY <4>3, <5>1
      <4> QED
        BY <1>24, <4>1, <4>2, <4>3
    <3> QED
      BY <2>4, <3>1, <3>2
  <2> QED
    BY <1>1, <1>2, <1>8, <2>5, <2>6, <2>7, <2>8 DEF ResultInv, Reach
<1>26. DoneInv'
  <2>1. pc # "done"
    BY DEF IInv, DoneInv, CloseNode
  <2> QED
    BY <1>1, <2>1 DEF DoneInv
<1> QED
  BY <1>16, <1>17, <1>18, <1>19, <1>20, <1>21, <1>22, <1>25, <1>26 DEF IInv
-----------------------------------------------------------------------------
\* Every state of a run satisfies the invariant.
THEOREM Invariance == Spec => []IInv
<1>1. ASSUME IInv, [Next]_vars PROVE IInv'
  <2>1. CASE \E root \in Node : StartRoot(root)
    BY <1>1, <2>1, StartRootStep
  <2>2. CASE Descend
    BY <1>1, <2>2, DescendStep
  <2>3. CASE PassVisited
    BY <1>1, <2>3, PassVisitedStep
  <2>4. CASE CloseNode
    BY <1>1, <2>4, CloseBelowRoot, CloseRoot
  <2>5. CASE Return
    <3>1. UNCHANGED <<successors, index_of, lowlink_of, on_stack, component_stack,
                      call_stack, next_index, result>>
      BY <2>5 DEF Return
    <3>2. /\ \A v \in Node : ~Unvisited(v)
          /\ call_stack = <<>> /\ sccs' = sort_components /\ pc' = "done"
      BY <2>5 DEF Return
    <3>3. sort_components' = sort_components
      BY <3>1 DEF sort_components, Emitted
    <3>4. edges' = edges /\ visited' = visited
      BY <3>1 DEF edges, visited, Unvisited, kUnvisited
    <3>5. TypeOK' /\ StackInv' /\ CallInv' /\ PassedInv'
      BY <1>1, <3>1, <3>2 DEF IInv, TypeOK, StackInv, CallInv, NodeAt, PassedInv, Passed, Unvisited, kUnvisited
    <3>6. VisitInv'
      BY <1>1, <3>1, <3>4 DEF IInv, VisitInv, IsEmitted, Unvisited, kUnvisited
    <3>7. ReachInv' /\ LowInv'
      BY <1>1, <3>1, <3>2, <3>4 DEF IInv, ReachInv, LowInv
    <3>8. ResultInv'
      BY <1>1, <3>1, <3>4 DEF IInv, ResultInv, Reach
    <3>9. DoneInv'
      BY <3>1, <3>2, <3>3 DEF DoneInv, Unvisited, kUnvisited
    <3> QED
      BY <3>5, <3>6, <3>7, <3>8, <3>9 DEF IInv
  <2>6. CASE UNCHANGED vars
    <3>1. edges' = edges /\ visited' = visited /\ sort_components' = sort_components
      BY <2>6 DEF vars, edges, visited, Unvisited, kUnvisited, sort_components, Emitted
    <3>2. TypeOK' /\ StackInv' /\ CallInv' /\ PassedInv'
      BY <1>1, <2>6 DEF IInv, vars, TypeOK, StackInv, CallInv, NodeAt, PassedInv, Passed, Unvisited, kUnvisited
    <3>3. VisitInv'
      BY <1>1, <2>6, <3>1 DEF IInv, vars, VisitInv, IsEmitted, Unvisited, kUnvisited
    <3>4. ReachInv' /\ LowInv'
      BY <1>1, <2>6, <3>1 DEF IInv, vars, ReachInv, LowInv, Reach, Above, Below, NodeAt, Passed
    <3>5. ResultInv' /\ DoneInv'
      BY <1>1, <2>6, <3>1 DEF IInv, vars, ResultInv, DoneInv, Reach, Unvisited, kUnvisited
    <3> QED
      BY <3>2, <3>3, <3>4, <3>5 DEF IInv
  <2> QED
    BY <1>1, <2>1, <2>2, <2>3, <2>4, <2>5, <2>6 DEF Next
<1> QED
  BY InitIInv, <1>1, PTL DEF Spec
-----------------------------------------------------------------------------
(* What follows from the invariant.                                        *)

\* A component emitted is a whole strongly connected component, and all that it
\* reaches was emitted with it or before it.
LEMMA EmittedIsWhole ==
    ASSUME IInv, NEW i \in DOMAIN result, NEW v \in result[i]
    PROVE  /\ v \in Node
           /\ \A w \in Node : Reach(v, w) => \E j \in 1 .. i : w \in result[j]
           /\ result[i] = SccOf(Node, edges, v)
<1>1. /\ result \in Seq(SUBSET Node) /\ DOMAIN result = 1 .. Len(result) /\ Len(result) \in Nat
      /\ \A j \in DOMAIN result : result[j] \subseteq Node
  BY DEF IInv, TypeOK
<1>2. ASSUME NEW k \in DOMAIN result, NEW a \in result[k], NEW w \in Node, Reach(a, w)
      PROVE  \E j \in 1 .. k : w \in result[j]
  <2> DEFINE S == {b \in Node : \E j \in 1 .. k : b \in result[j]}
  <2>1. a \in S /\ S \in SUBSET Node
    BY <1>1
  <2>2. ASSUME NEW e \in edges, e[1] \in S PROVE e[2] \in S
    <3>1. PICK m \in DOMAIN successors[e[1]] : successors[e[1]][m] = e[2]
      BY DEF edges
    <3>2. PICK j \in 1 .. k : e[1] \in result[j]
      BY <2>2
    <3>3. j \in DOMAIN result
      BY <1>1
    <3>4. PICK l \in 1 .. j : e[2] \in result[l]
      BY <3>1, <3>2, <3>3 DEF IInv, ResultInv
    <3>5. e[2] \in Node
      BY DEF edges
    <3>6. k \in Nat
      BY <1>1
    <3>7. l \in 1 .. k
      BY <3>6
    <3> QED
      BY <3>4, <3>5, <3>7
  <2>3. Closed(edges, S)
    BY <2>2 DEF Closed
  <2> HIDE DEF S
  <2>4. w \in S
    BY <1>2, <2>1, <2>3, ReachesStaysInside DEF Reach
  <2> QED
    BY <2>4 DEF S
<1>3. v \in Node
  BY <1>1
<1>4. ASSUME NEW w \in Node, Reach(v, w), Reach(w, v) PROVE w \in result[i]
  <2>1. PICK j \in 1 .. i : w \in result[j]
    BY <1>2, <1>4
  <2>2. j \in DOMAIN result
    BY <1>1
  <2>3. PICK k \in 1 .. j : v \in result[k]
    BY <1>2, <1>3, <1>4, <2>1, <2>2
  <2>4. k \in DOMAIN result
    BY <1>1, <2>2
  <2>5. k = i
    BY <2>3, <2>4 DEF IInv, ResultInv
  <2>6. i \in Nat /\ j \in Nat /\ j <= i /\ k <= j
    BY <1>1, <2>2
  <2> QED
    BY <2>1, <2>5, <2>6
<1>5. \A w \in result[i] : Reach(v, w) /\ Reach(w, v) /\ w \in Node
  BY <1>1 DEF IInv, ResultInv
<1>6. result[i] = SccOf(Node, edges, v)
  BY <1>4, <1>5 DEF SccOf, Reach
<1> QED
  BY <1>2, <1>3, <1>6

\* computeScc never emits a component too early or too late: what it emits is a
\* whole strongly connected component, after all that it reaches.
THEOREM EmittedCorrect == Spec => []EmittedAreComponents
<1>1. IInv => EmittedAreComponents
  BY EmittedIsWhole DEF EmittedAreComponents, ReachesFrom, Reach
<1> QED
  BY <1>1, Invariance, PTL

\* The least node of a component that is not empty is its only least node.
LEMMA LeastOfType ==
    ASSUME NEW c \in SUBSET Node, c # {}
    PROVE  LeastOf(c) \in c /\ LeastOf(c) \in Nat
<1>1. c \in SUBSET Nat
  BY NAssumption DEF Node
<1>2. \E v \in c : \A w \in c : v <= w
  BY <1>1, LeastNatural
<1> QED
  BY <1>1, <1>2 DEF LeastOf

\* There are as many components as were emitted, told apart by their least node.
LEMMA EmittedSet ==
    ASSUME IInv
    PROVE  /\ Len(result) \in Nat /\ IsFiniteSet(Emitted) /\ Cardinality(Emitted) = Len(result)
           /\ \A c \in Emitted : c \in SUBSET Node /\ c # {}
           /\ \A c, d \in Emitted : LeastOf(c) = LeastOf(d) => c = d
<1> DEFINE L == Len(result)
<1>1. /\ result \in Seq(SUBSET Node) /\ DOMAIN result = 1 .. L /\ L \in Nat
      /\ \A j \in DOMAIN result : result[j] \in SUBSET Node /\ result[j] # {}
  BY DEF IInv, TypeOK, ResultInv
<1>2. \A c \in Emitted : c \in SUBSET Node /\ c # {}
  BY <1>1 DEF Emitted
<1>3. ASSUME NEW c \in Emitted, NEW d \in Emitted, LeastOf(c) = LeastOf(d) PROVE c = d
  <2>1. LeastOf(c) \in c \cap d
    BY <1>2, <1>3, LeastOfType
  <2> QED
    BY <2>1 DEF Emitted, IInv, ResultInv
<1>4. \A i, j \in 1 .. L : result[i] = result[j] => i = j
  <2> SUFFICES ASSUME NEW i \in 1 .. L, NEW j \in 1 .. L, result[i] = result[j] PROVE i = j
    OBVIOUS
  <2>1. PICK v : v \in result[i]
    BY <1>1
  <2> QED
    BY <1>1, <2>1 DEF IInv, ResultInv
<1>5. IsFiniteSet(1 .. L) /\ Cardinality(1 .. L) = L
  <2>1. L \in Nat
    BY <1>1
  <2> HIDE DEF L
  <2>2. L - 1 + 1 = L /\ 1 \in Int /\ L \in Int
    BY <2>1
  <2> QED
    BY <2>1, <2>2, FS_Interval
<1>6. [i \in 1 .. L |-> result[i]] \in Bijection(1 .. L, Emitted)
  BY <1>1, <1>4 DEF Bijection, Injection, Surjection, IsInjective, Emitted
<1>7. IsFiniteSet(Emitted) /\ Cardinality(Emitted) = L
  BY <1>5, <1>6, FS_Bijection DEF ExistsBijection
<1> QED
  BY <1>1, <1>2, <1>3, <1>7

\* sort_components returns every component emitted, in the order of their least
\* nodes.
LEMMA SortComponents ==
    ASSUME IInv
    PROVE  /\ sort_components \in [1 .. Len(result) -> Emitted]
           /\ DOMAIN sort_components = 1 .. Len(result)
           /\ {sort_components[i] : i \in 1 .. Len(result)} = Emitted
           /\ \A i, j \in 1 .. Len(result) :
                i < j => LeastOf(sort_components[i]) < LeastOf(sort_components[j])
<1> DEFINE L == Len(result)
           key == [c \in Emitted |-> LeastOf(c)]
<1>1. L \in Nat /\ IsFiniteSet(Emitted) /\ Cardinality(Emitted) = L
  BY EmittedSet
<1>2. \A c \in Emitted : LeastOf(c) \in Nat
  BY EmittedSet, LeastOfType
<1>3. key \in [Emitted -> Nat] /\ \A c, d \in Emitted : key[c] = key[d] => c = d
  BY <1>2, EmittedSet
<1>4. \A c \in Emitted : key[c] = LeastOf(c)
  OBVIOUS
<1> HIDE DEF key
<1>5. PICK s \in [1 .. L -> Emitted] : \A i, j \in 1 .. L : i < j => key[s[i]] < key[s[j]]
  BY <1>1, <1>3, SortedExists
<1>6. \A i, j \in DOMAIN s : i < j => LeastOf(s[i]) < LeastOf(s[j])
  BY <1>4, <1>5
<1>7. /\ sort_components \in [1 .. L -> Emitted]
      /\ \A i, j \in DOMAIN sort_components :
           i < j => LeastOf(sort_components[i]) < LeastOf(sort_components[j])
  BY <1>6 DEF sort_components
<1>8. \A i, j \in 1 .. L : i < j => sort_components[i] # sort_components[j]
  <2> SUFFICES ASSUME NEW i \in 1 .. L, NEW j \in 1 .. L, i < j,
                      sort_components[i] = sort_components[j]
               PROVE  FALSE
    OBVIOUS
  <2>1. LeastOf(sort_components[i]) < LeastOf(sort_components[i])
    BY <1>7
  <2>2. LeastOf(sort_components[i]) \in Nat
    BY <1>2, <1>7
  <2> QED
    BY <2>1, <2>2
<1>9. {sort_components[i] : i \in 1 .. L} = Emitted
  BY <1>1, <1>7, <1>8, SortedIsOnto
<1> QED
  BY <1>7, <1>9

\* computeScc returns every strongly connected component exactly once, in the
\* order of their least nodes, for every graph and every order of its successors.
THEOREM ReturnsCorrect == Spec => []ReturnsTheComponents
<1>1. ASSUME IInv, pc = "done"
      PROVE  /\ {sccs[i] : i \in DOMAIN sccs} = Sccs(Node, edges)
             /\ \A i, j \in DOMAIN sccs : i < j => LeastOf(sccs[i]) < LeastOf(sccs[j])
  <2>1. (\A v \in Node : ~Unvisited(v)) /\ call_stack = <<>> /\ sccs = sort_components
    BY <1>1 DEF IInv, DoneInv
  <2>2. /\ DOMAIN sccs = 1 .. Len(result)
        /\ {sccs[i] : i \in DOMAIN sccs} = Emitted
        /\ \A i, j \in DOMAIN sccs : i < j => LeastOf(sccs[i]) < LeastOf(sccs[j])
    BY <1>1, <2>1, SortComponents
  <2>3. ASSUME NEW c \in Emitted PROVE c \in Sccs(Node, edges)
    <3>1. PICK i \in DOMAIN result : c = result[i]
      BY DEF Emitted
    <3>2. PICK v : v \in c
      BY <1>1, <3>1 DEF IInv, ResultInv
    <3>3. v \in Node /\ c = SccOf(Node, edges, v)
      BY <1>1, <3>1, <3>2, EmittedIsWhole
    <3> QED
      BY <3>3 DEF Sccs
  <2>4. ASSUME NEW c \in Sccs(Node, edges) PROVE c \in Emitted
    <3>1. PICK a \in Node : c = SccOf(Node, edges, a)
      BY DEF Sccs
    <3>2. ~on_stack[a]
      BY <1>1, <2>1 DEF IInv, CallInv
    <3>3. IsEmitted(a)
      BY <1>1, <2>1, <3>2 DEF IInv, VisitInv
    <3>4. PICK i \in DOMAIN result : a \in result[i]
      BY <3>3 DEF IsEmitted
    <3>5. c = result[i]
      BY <1>1, <3>1, <3>4, EmittedIsWhole
    <3> QED
      BY <3>5 DEF Emitted
  <2> QED
    BY <2>2, <2>3, <2>4
<1>2. IInv => ReturnsTheComponents
  BY <1>1 DEF ReturnsTheComponents
<1> QED
  BY <1>2, Invariance, PTL
-----------------------------------------------------------------------------
(* computeIncludeDepths *)

\* d is another component, and c reaches it.
Under(c, d) == c # d /\ \E a \in sccs[c], b \in sccs[d] : Reach(a, b)
under == {p \in Component \X Component : Under(p[1], p[2])}

DepthTypeOK ==
    /\ step \in {"scc", "resolve", "done"}
    /\ stack # <<>> => step = "resolve"
    /\ step = "scc" => done = {}
    /\ step # "scc" => /\ pc = "done"
                       /\ condEdges = [c \in Component |-> CondensedFrom(c)]
                       /\ depth \in [Component -> Nat]
                       /\ done \subseteq Component
                       /\ stack \in Seq(Component)

\* A component is settled after all it includes, one above the highest of them.
SettledInv ==
    \A c \in done :
        /\ condEdges[c] \subseteq done
        /\ depth[c] = MaxOf({0} \cup {depth[d] + 1 : d \in condEdges[c]})

\* par[i] is the entry that pushed the entry i.  All that lies above an entry
\* that pushed is under it, and no entry pushed the same component twice.
IsPushedBy(par) ==
    \A i \in 2 .. Len(stack) :
        /\ par[i] < i
        /\ stack[i] \in condEdges[stack[par[i]]]
        /\ \A k \in 2 .. Len(stack) : par[i] < k => <<stack[par[i]], stack[k]>> \in under
        /\ \A j \in 2 .. Len(stack) :
             stack[par[i]] = stack[par[j]] /\ stack[i] = stack[j] => i = j
PushedInv == \E par \in [2 .. Len(stack) -> 1 .. Len(stack)] : IsPushedBy(par)

UnsettledInv == step # "scc" => \A c \in Component \ done : depth[c] = 0

ReturnedInv ==
    step = "done" => done = Component /\ depths = [v \in Node |-> depth[nodeToScc(v)]]

DepthIInv ==
    /\ DepthTypeOK /\ SettledInv /\ PushedInv /\ UnsettledInv /\ ReturnedInv
-----------------------------------------------------------------------------
\* computeIncludeDepths runs computeScc and leaves its result alone.
THEOREM RunsTarjan == DepthSpec => Spec
<1>1. DepthInit => Init
  BY DEF DepthInit
<1>2. [DepthNext]_allVars => [Next]_vars
  BY DEF DepthNext, allVars, computeScc, buildCondensation, StartComponent, DropResolved, PushPending, Settle, ReturnDepths
<1> QED
  BY <1>1, <1>2, PTL DEF DepthSpec, Spec
-----------------------------------------------------------------------------
(* The condensed graph.                                                    *)

\* A component has an index of its own, and every node is in one.
IsCondensed ==
    /\ Len(sccs) \in Nat /\ IsFiniteSet(Component) /\ Cardinality(Component) = Len(sccs)
    /\ sccs \in [Component -> Sccs(Node, edges)]
    /\ \A c, d \in Component : sccs[c] = sccs[d] => c = d
    /\ \A s \in Sccs(Node, edges) : \E c \in Component : sccs[c] = s
    /\ \A v \in Node : nodeToScc(v) \in Component
    /\ \A v \in Node, c \in Component : v \in sccs[c] <=> nodeToScc(v) = c

\* So it is once computeScc has returned.
LEMMA ComponentsAre ==
    ASSUME IInv, ReturnsTheComponents, pc = "done"
    PROVE  IsCondensed
<1>1. sccs = sort_components
  BY DEF IInv, DoneInv
<1>2. Len(result) \in Nat /\ sccs \in [1 .. Len(result) -> Emitted]
  BY <1>1, SortComponents, EmittedSet
<1>3. sccs \in Seq(Emitted) /\ Len(sccs) = Len(result) /\ DOMAIN sccs = Component
  <2>1. sccs \in Seq(Emitted)
    BY <1>2, SeqDef
  <2>2. Len(sccs) \in Nat /\ DOMAIN sccs = 1 .. Len(sccs) /\ DOMAIN sccs = 1 .. Len(result)
    BY <1>2, <2>1
  <2> QED
    BY <1>2, <2>1, <2>2 DEF Component
<1>4. IsFiniteSet(Component) /\ Cardinality(Component) = Len(sccs)
  <2> DEFINE L == Len(sccs)
  <2>1. L \in Nat /\ Component = 1 .. L
    BY <1>2, <1>3 DEF Component
  <2> HIDE DEF L
  <2>2. L - 1 + 1 = L /\ 1 \in Int /\ L \in Int
    BY <2>1
  <2>3. IsFiniteSet(1 .. L) /\ Cardinality(1 .. L) = L
    BY <2>1, <2>2, FS_Interval
  <2> QED
    BY <2>1, <2>3 DEF L
<1>5. {sccs[i] : i \in Component} = Sccs(Node, edges)
  BY <1>3 DEF ReturnsTheComponents
<1>6. sccs \in [Component -> Sccs(Node, edges)]
  BY <1>2, <1>3, <1>5 DEF Component
<1>7. ASSUME NEW c \in Component, NEW d \in Component, c < d PROVE sccs[c] # sccs[d]
  <2>1. LeastOf(sccs[c]) < LeastOf(sccs[d])
    BY <1>3, <1>7 DEF ReturnsTheComponents
  <2>2. sccs[c] \in SUBSET Node /\ sccs[c] # {}
    BY <1>6, SccsPartition
  <2>3. LeastOf(sccs[c]) \in Nat
    BY <2>2, LeastOfType
  <2> QED
    BY <2>1, <2>3
<1>8. \A c, d \in Component : sccs[c] = sccs[d] => c = d
  <2> SUFFICES ASSUME NEW c \in Component, NEW d \in Component, sccs[c] = sccs[d] PROVE c = d
    OBVIOUS
  <2>1. ~(c < d) /\ ~(d < c)
    BY <1>7
  <2> QED
    BY <1>2, <1>3, <2>1 DEF Component
<1>9. ASSUME NEW v \in Node
      PROVE  /\ nodeToScc(v) \in Component /\ v \in sccs[nodeToScc(v)]
             /\ \A c \in Component : v \in sccs[c] => nodeToScc(v) = c
  <2>1. PICK c \in Component : v \in sccs[c]
    BY <1>5, SccsPartition, SccOfSelf
  <2>2. nodeToScc(v) \in Component /\ v \in sccs[nodeToScc(v)]
    BY <2>1 DEF nodeToScc
  <2>3. ASSUME NEW d \in Component, v \in sccs[d] PROVE nodeToScc(v) = d
    <3>1. sccs[d] = sccs[nodeToScc(v)]
      BY <1>6, <2>2, <2>3, SccsPartition
    <3> QED
      BY <1>8, <2>2, <3>1
  <2> QED
    BY <2>2, <2>3
<1> QED
  BY <1>2, <1>3, <1>4, <1>5, <1>6, <1>8, <1>9 DEF IsCondensed

\* What lies under a component does not lead back to it, and what lies under
\* that lies under it too.
LEMMA UnderIsAnOrder ==
    ASSUME IsCondensed, NEW c \in Component, NEW d \in Component, NEW e \in Component,
           <<c, d>> \in under, <<d, e>> \in under
    PROVE  <<c, e>> \in under
<1>1. PICK a \in sccs[c], b \in sccs[d] : Reach(a, b)
  BY DEF under, Under
<1>2. PICK x \in sccs[d], y \in sccs[e] : Reach(x, y)
  BY DEF under, Under
<1>3. /\ sccs[c] \in Sccs(Node, edges) /\ sccs[d] \in Sccs(Node, edges)
      /\ sccs[e] \in Sccs(Node, edges)
  BY DEF IsCondensed
<1>4. Reach(b, x)
  BY <1>1, <1>2, <1>3, SccOfMember DEF Reach
<1>5. Reach(a, y)
  BY <1>1, <1>2, <1>4, ReachTransitive
<1>6. c # e
  <2> SUFFICES ASSUME c = e PROVE FALSE
    OBVIOUS
  <2>1. Reach(y, a)
    BY <1>1, <1>2, <1>3, SccOfMember DEF Reach
  <2>2. Reach(b, a)
    BY <1>2, <1>4, <2>1, ReachTransitive
  <2>3. a \in Node /\ sccs[c] = SccOf(Node, edges, a)
    BY <1>1, <1>3, SccOfMember
  <2>4. b \in Node
    BY <1>1, <1>3, SccOfMember
  <2>5. b \in sccs[c]
    BY <1>1, <2>2, <2>3, <2>4 DEF SccOf, Reach
  <2>6. sccs[c] = sccs[d]
    BY <1>1, <1>3, <2>5, SccsPartition
  <2> QED
    BY <2>6 DEF IsCondensed, under, Under
<1> QED
  BY <1>1, <1>2, <1>5, <1>6 DEF under, Under

\* The links of the condensed graph are the includes between two components;
\* they lead to what lies under.
LEMMA CondensedLinks ==
    ASSUME IsCondensed, NEW c \in Component
    PROVE  /\ CondensedFrom(c) \subseteq Component
           /\ \A d \in CondensedFrom(c) : <<c, d>> \in under
           /\ \A d \in Component :
                d \in CondensedFrom(c) <=> c # d /\ sccs[c] \X sccs[d] \cap edges # {}
<1>1. \A e \in edges : e \in Node \X Node
  BY DEF edges
<1>2. CondensedFrom(c) \subseteq Component
  BY <1>1 DEF CondensedFrom, IsCondensed
<1>3. ASSUME NEW d \in CondensedFrom(c)
      PROVE  c # d /\ \E e \in edges : e[1] \in sccs[c] /\ e[2] \in sccs[d]
  BY <1>1, <1>2 DEF CondensedFrom, IsCondensed
<1>4. ASSUME NEW d \in CondensedFrom(c)
      PROVE  c # d /\ sccs[c] \X sccs[d] \cap edges # {} /\ <<c, d>> \in under
  <2>1. PICK e \in edges : e[1] \in sccs[c] /\ e[2] \in sccs[d]
    BY <1>3
  <2>2. e = <<e[1], e[2]>>
    BY <1>1
  <2>3. Reach(e[1], e[2])
    BY <2>2, ReachesByEdge DEF Reach
  <2> QED
    BY <1>2, <1>3, <2>1, <2>2, <2>3 DEF under, Under
<1>5. ASSUME NEW d \in Component, c # d, NEW e \in sccs[c] \X sccs[d] \cap edges
      PROVE  d \in CondensedFrom(c)
  <2>1. e[1] \in Node /\ e[2] \in Node /\ e[1] \in sccs[c] /\ e[2] \in sccs[d]
    BY <1>1
  <2>2. nodeToScc(e[1]) = c /\ nodeToScc(e[2]) = d
    BY <2>1 DEF IsCondensed
  <2> QED
    BY <1>5, <2>2 DEF CondensedFrom
<1> QED
  BY <1>2, <1>4, <1>5
-----------------------------------------------------------------------------
(* The greatest of finitely many numbers.                                  *)

\* There is one.
LEMMA GreatestExists ==
    ASSUME NEW S \in SUBSET Nat, IsFiniteSet(S), S # {}
    PROVE  \E m \in S : \A k \in S : k <= m
<1> DEFINE n == Cardinality(S)
           key == [k \in S |-> k]
<1>1. n \in Nat /\ n # 0
  BY FS_CardinalityType, FS_EmptySet
<1>2. key \in [S -> Nat] /\ (\A a, b \in S : key[a] = key[b] => a = b) /\ \A a \in S : key[a] = a
  OBVIOUS
<1> HIDE DEF key
<1>3. PICK s \in [1 .. n -> S] : \A i, j \in 1 .. n : i < j => key[s[i]] < key[s[j]]
  BY <1>2, SortedExists
<1> HIDE DEF n
<1>4. \A i, j \in 1 .. n : i < j => s[i] < s[j]
  BY <1>2, <1>3
<1>5. {s[i] : i \in 1 .. n} = S
  <2>1. \A i, j \in 1 .. n : i < j => s[i] # s[j]
    <3> SUFFICES ASSUME NEW i \in 1 .. n, NEW j \in 1 .. n, i < j PROVE s[i] # s[j]
      OBVIOUS
    <3>1. s[i] < s[j] /\ s[i] \in Nat
      BY <1>3, <1>4
    <3> QED
      BY <3>1
  <2>2. /\ s \in [1 .. Cardinality(S) -> S]
        /\ \A i, j \in 1 .. Cardinality(S) : i < j => s[i] # s[j]
    BY <1>3, <2>1 DEF n
  <2>3. {s[i] : i \in 1 .. Cardinality(S)} = S
    BY <2>2, SortedIsOnto
  <2> QED
    BY <2>3 DEF n
<1>6. n \in 1 .. n
  BY <1>1
<1>7. \A i \in 1 .. n : s[i] <= s[n]
  <2> SUFFICES ASSUME NEW i \in 1 .. n PROVE s[i] <= s[n]
    OBVIOUS
  <2>1. i = n \/ i < n
    BY <1>1
  <2>2. s[i] \in Nat /\ s[n] \in Nat
    BY <1>3, <1>6
  <2> QED
    BY <1>4, <1>6, <2>1, <2>2
<1> QED
  BY <1>3, <1>5, <1>6, <1>7

\* MaxOf returns it.
LEMMA MaxOfIs ==
    ASSUME NEW S \in SUBSET Nat, NEW m \in S, \A k \in S : k <= m
    PROVE  MaxOf(S) = m
<1>1. MaxOf(S) \in S /\ \A k \in S : k <= MaxOf(S)
  BY DEF MaxOf
<1>2. MaxOf(S) \in Nat /\ m \in Nat /\ m <= MaxOf(S) /\ MaxOf(S) <= m
  BY <1>1
<1> QED
  BY <1>2

\* The depth that a component is given is 0 or one more than that of a
\* component it includes, and above that of all of them.
LEMMA DepthAbove ==
    ASSUME NEW T, IsFiniteSet(T), NEW f, \A d \in T : f[d] \in Nat
    PROVE  LET m == MaxOf({0} \cup {f[d] + 1 : d \in T})
           IN  /\ m \in Nat
               /\ \A d \in T : f[d] + 1 <= m
               /\ m = 0 \/ \E d \in T : m = f[d] + 1
<1> DEFINE S == {f[d] + 1 : d \in T}
           g == [d \in T |-> f[d] + 1]
           A == {0} \cup S
<1>1. g \in Surjection(T, S)
  BY DEF Surjection
<1>2. IsFiniteSet(S)
  BY <1>1, FS_Surjection
<1>3. A \in SUBSET Nat /\ 0 \in A
  OBVIOUS
<1>4. IsFiniteSet(A)
  <2>1. A = S \cup {0}
    OBVIOUS
  <2> HIDE DEF S
  <2> QED
    BY <1>2, <2>1, FS_AddElement
<1> HIDE DEF A
<1>5. PICK m \in A : \A k \in A : k <= m
  BY <1>3, <1>4, GreatestExists
<1>6. MaxOf(A) = m
  BY <1>3, <1>5, MaxOfIs
<1> QED
  BY <1>3, <1>5, <1>6 DEF A
-----------------------------------------------------------------------------
(* Every step keeps the invariant.                                         *)

\* computeIncludeDepths leaves the graph and its components alone.
LEMMA SameGraph ==
    ASSUME UNCHANGED vars
    PROVE  /\ edges' = edges /\ sccs' = sccs /\ pc' = pc /\ Component' = Component
           /\ \A c : CondensedFrom(c)' = CondensedFrom(c)
           /\ under' = under
           /\ \A v : nodeToScc(v)' = nodeToScc(v)
<1>1. edges' = edges /\ sccs' = sccs /\ pc' = pc /\ Component' = Component
  BY DEF vars, edges, Component
<1>2. \A v : nodeToScc(v)' = nodeToScc(v)
  BY <1>1 DEF nodeToScc
<1>3. \A c : CondensedFrom(c)' = CondensedFrom(c)
  BY <1>1, <1>2 DEF CondensedFrom
<1>4. under' = under
  BY <1>1 DEF under, Under, Reach
<1> QED
  BY <1>1, <1>2, <1>3, <1>4

\* Pop drops the last entry.
LEMMA PopIs ==
    ASSUME NEW S, NEW s \in Seq(S), s # <<>>
    PROVE  /\ Len(s) \in Nat /\ Len(s) # 0 /\ Top(s) \in S
           /\ Pop(s) \in Seq(S) /\ Len(Pop(s)) = Len(s) - 1
           /\ \A i \in 1 .. Len(s) - 1 : Pop(s)[i] = s[i]
<1> DEFINE L == Len(s)
<1>1. L \in Nat /\ L # 0 /\ \A i \in 1 .. L : s[i] \in S
  BY EmptySeq
<1>2. L - 1 \in Int /\ 1 \in Int /\ (\A i \in 1 .. L - 1 : s[i] \in S)
  BY <1>1
<1>3. /\ SubSeq(s, 1, L - 1) \in Seq(S)
      /\ Len(SubSeq(s, 1, L - 1)) = IF 1 <= L - 1 THEN L - 1 - 1 + 1 ELSE 0
      /\ \A i \in 1 .. L - 1 - 1 + 1 : SubSeq(s, 1, L - 1)[i] = s[1 + i - 1]
  BY <1>2, SubSeqProperties
<1> HIDE DEF L
<1>4. Len(SubSeq(s, 1, L - 1)) = L - 1
  BY <1>1, <1>3
<1>5. \A i \in 1 .. L - 1 : SubSeq(s, 1, L - 1)[i] = s[i]
  <2> SUFFICES ASSUME NEW i \in 1 .. L - 1 PROVE SubSeq(s, 1, L - 1)[i] = s[i]
    OBVIOUS
  <2>1. i \in 1 .. L - 1 - 1 + 1 /\ 1 + i - 1 = i
    BY <1>1
  <2> QED
    BY <1>3, <2>1
<1>6. L \in 1 .. L
  BY <1>1
<1> QED
  BY <1>1, <1>3, <1>4, <1>5, <1>6 DEF L, Pop, Top

\* What an entry is pushed by stays below it when the last one is dropped.
LEMMA PopKeepsPushed ==
    ASSUME DepthIInv, step # "scc", stack # <<>>, stack' = Pop(stack), UNCHANGED <<vars, condEdges>>
    PROVE  PushedInv'
<1> DEFINE L == Len(stack)
<1>1. PICK par \in [2 .. Len(stack) -> 1 .. Len(stack)] : IsPushedBy(par)
  BY DEF DepthIInv, PushedInv
<1>2. /\ L \in Nat /\ L # 0 /\ Len(stack') = L - 1
      /\ \A i \in 1 .. L - 1 : stack'[i] = stack[i]
  BY PopIs DEF DepthIInv, DepthTypeOK
<1>3. par \in [2 .. L -> 1 .. L] /\ \A i \in 2 .. L : par[i] < i
  BY <1>1 DEF IsPushedBy
<1>4. PICK q : q = [i \in 2 .. L - 1 |-> par[i]]
  OBVIOUS
<1>5. \A i \in 2 .. L - 1 : q[i] = par[i] /\ i \in 2 .. L /\ i \in 1 .. L - 1 /\ q[i] \in 1 .. L - 1 /\ q[i] < i
  <2> HIDE DEF L
  <2> QED
    BY <1>2, <1>3, <1>4
<1>6. q \in [2 .. L - 1 -> 1 .. L - 1]
  BY <1>4, <1>5
<1>7. condEdges' = condEdges /\ under' = under
  BY SameGraph
<1>8. \A k \in 2 .. L - 1 : stack'[k] = stack[k] /\ stack'[q[k]] = stack[par[k]] /\ k \in 2 .. L
  BY <1>2, <1>5
<1>9. ASSUME NEW i \in 2 .. L - 1
      PROVE  /\ q[i] < i
             /\ stack'[i] \in condEdges[stack'[q[i]]]
             /\ \A k \in 2 .. L - 1 : q[i] < k => <<stack'[q[i]], stack'[k]>> \in under
             /\ \A j \in 2 .. L - 1 :
                  stack'[q[i]] = stack'[q[j]] /\ stack'[i] = stack'[j] => i = j
  <2>1. q[i] = par[i] /\ i \in 2 .. L /\ q[i] < i
    BY <1>5
  <2>2. /\ stack[i] \in condEdges[stack[par[i]]]
        /\ \A k \in 2 .. L : par[i] < k => <<stack[par[i]], stack[k]>> \in under
        /\ \A j \in 2 .. L : stack[par[i]] = stack[par[j]] /\ stack[i] = stack[j] => i = j
    BY <1>1, <2>1 DEF IsPushedBy
  <2> QED
    BY <1>8, <2>1, <2>2
<1>10. IsPushedBy(q)'
  BY <1>2, <1>7, <1>9 DEF IsPushedBy
<1>11. q \in [2 .. Len(stack') -> 1 .. Len(stack')]
  BY <1>2, <1>6
<1> QED
  BY <1>10, <1>11 DEF PushedInv

\* With one entry or none, none was pushed by another.
LEMMA ShortStack == Len(stack) \in {0, 1} => PushedInv
<1> SUFFICES ASSUME Len(stack) \in {0, 1} PROVE PushedInv
  OBVIOUS
<1>1. PICK q : q = [i \in 2 .. Len(stack) |-> i]
  OBVIOUS
<1>2. ASSUME NEW i \in 2 .. Len(stack) PROVE FALSE
  <2>1. CASE Len(stack) = 0
    BY <2>1, <1>2
  <2>2. CASE Len(stack) = 1
    BY <2>2, <1>2
  <2> QED
    BY <2>1, <2>2
<1>3. q \in [2 .. Len(stack) -> 1 .. Len(stack)]
  BY <1>1, <1>2
<1>4. IsPushedBy(q)
  BY <1>2 DEF IsPushedBy
<1> QED
  BY <1>3, <1>4 DEF PushedInv

\* While computeScc runs, nothing of the second walk has begun.
LEMMA SccStep ==
    ASSUME IInv, DepthIInv, computeScc
    PROVE  DepthIInv'
<1>1. Next /\ UNCHANGED depthVars
  BY DEF computeScc
<1>2. step = "scc"
  <2> SUFFICES ASSUME step # "scc" PROVE FALSE
    OBVIOUS
  <2>1. pc = "done" /\ call_stack = <<>>
    BY DEF DepthIInv, DepthTypeOK, IInv, DoneInv
  <2> QED
    BY <1>1, <2>1 DEF Next, StartRoot, Descend, PassVisited, CloseNode, Return
<1>3. stack = <<>> /\ done = {} /\ stack' = stack /\ done' = done /\ step' = step
  BY <1>1, <1>2 DEF DepthIInv, DepthTypeOK, depthVars
<1>4. DepthTypeOK' /\ SettledInv' /\ UnsettledInv' /\ ReturnedInv'
  BY <1>2, <1>3 DEF DepthTypeOK, SettledInv, UnsettledInv, ReturnedInv
<1>5. (Len(stack) \in {0, 1})'
  BY <1>3
<1>6. PushedInv'
  BY <1>5, ShortStack, PTL
<1> QED
  BY <1>4, <1>6 DEF DepthIInv

\* buildCondensation begins the second walk with nothing settled.
LEMMA BuildStep ==
    ASSUME IInv, DepthIInv, buildCondensation
    PROVE  DepthIInv'
<1>1. /\ step = "scc" /\ pc = "done" /\ step' = "resolve"
      /\ UNCHANGED <<vars, done, stack>>
      /\ condEdges' = [c \in Component |-> CondensedFrom(c)]
      /\ depth' = [c \in Component |-> 0]
  BY DEF buildCondensation
<1>2. stack = <<>> /\ done = {} /\ stack' = <<>> /\ done' = {}
  BY <1>1 DEF DepthIInv, DepthTypeOK
<1>3. pc' = "done" /\ Component' = Component /\ \A c : CondensedFrom(c)' = CondensedFrom(c)
  BY <1>1, SameGraph
<1>4. DepthTypeOK'
  BY <1>1, <1>2, <1>3, EmptySeq DEF DepthTypeOK
<1>5. SettledInv' /\ ReturnedInv'
  BY <1>1, <1>2 DEF SettledInv, ReturnedInv
<1>6. UnsettledInv'
  BY <1>1, <1>2, <1>3 DEF UnsettledInv
<1>7. (Len(stack) \in {0, 1})'
  BY <1>2
<1>8. PushedInv'
  BY <1>7, ShortStack, PTL
<1> QED
  BY <1>4, <1>5, <1>6, <1>8 DEF DepthIInv

\* What is settled stays so while the depths stay.
LEMMA SettledKept ==
    ASSUME SettledInv, UNCHANGED <<condEdges, depth, done>>
    PROVE  SettledInv'
BY DEF SettledInv

\* A root is pushed by no other.
LEMMA StartStep ==
    ASSUME IInv, DepthIInv, NEW c \in Component, StartComponent(c)
    PROVE  DepthIInv'
<1>1. /\ step = "resolve" /\ stack = <<>> /\ stack' = <<c>>
      /\ UNCHANGED <<vars, condEdges, depth, done, depths, step>>
  BY DEF StartComponent
<1>2. /\ pc' = pc /\ Component' = Component /\ \A d : CondensedFrom(d)' = CondensedFrom(d)
      /\ \A v : nodeToScc(v)' = nodeToScc(v)
  BY <1>1, SameGraph
<1>3. stack' \in Seq(Component) /\ Len(stack') = 1 /\ stack' # <<>>
  BY <1>1
<1>4. DepthTypeOK'
  BY <1>1, <1>2, <1>3 DEF DepthIInv, DepthTypeOK
<1>5. SettledInv'
  BY <1>1, SettledKept DEF DepthIInv
<1>6. UnsettledInv' /\ ReturnedInv'
  BY <1>1, <1>2 DEF DepthIInv, UnsettledInv, ReturnedInv
<1>7. (Len(stack) \in {0, 1})'
  BY <1>3
<1>8. PushedInv'
  BY <1>7, ShortStack, PTL
<1> QED
  BY <1>4, <1>5, <1>6, <1>8 DEF DepthIInv

\* Dropping a settled entry changes nothing else.
LEMMA DropStep ==
    ASSUME IInv, DepthIInv, DropResolved
    PROVE  DepthIInv'
<1>1. /\ stack # <<>> /\ stack' = Pop(stack)
      /\ UNCHANGED <<vars, condEdges, depth, done, depths, step>>
  BY DEF DropResolved
<1>2. /\ pc' = pc /\ Component' = Component /\ \A d : CondensedFrom(d)' = CondensedFrom(d)
      /\ \A v : nodeToScc(v)' = nodeToScc(v)
  BY <1>1, SameGraph
<1>3. step = "resolve"
  BY <1>1 DEF DepthIInv, DepthTypeOK
<1>4. stack' \in Seq(Component)
  BY <1>1, <1>3, PopIs DEF DepthIInv, DepthTypeOK
<1>5. DepthTypeOK'
  BY <1>1, <1>2, <1>3, <1>4 DEF DepthIInv, DepthTypeOK
<1>6. SettledInv'
  BY <1>1, SettledKept DEF DepthIInv
<1>7. UnsettledInv' /\ ReturnedInv'
  BY <1>1, <1>2 DEF DepthIInv, UnsettledInv, ReturnedInv
<1>8. PushedInv'
  BY <1>1, <1>3, PopKeepsPushed
<1> QED
  BY <1>5, <1>6, <1>7, <1>8 DEF DepthIInv

\* The depths are returned when every component is settled.
LEMMA ReturnDepthsStep ==
    ASSUME IInv, DepthIInv, ReturnDepths
    PROVE  DepthIInv'
<1>1. /\ step = "resolve" /\ stack = <<>> /\ done = Component /\ step' = "done"
      /\ depths' = [v \in Node |-> depth[nodeToScc(v)]]
      /\ UNCHANGED <<vars, condEdges, depth, done, stack>>
  BY DEF ReturnDepths
<1>2. /\ pc' = pc /\ Component' = Component /\ \A d : CondensedFrom(d)' = CondensedFrom(d)
      /\ \A v : nodeToScc(v)' = nodeToScc(v)
  BY <1>1, SameGraph
<1>3. DepthTypeOK'
  BY <1>1, <1>2 DEF DepthIInv, DepthTypeOK
<1>4. SettledInv'
  BY <1>1, SettledKept DEF DepthIInv
<1>5. UnsettledInv' /\ ReturnedInv'
  BY <1>1, <1>2 DEF DepthIInv, UnsettledInv, ReturnedInv
<1>6. (Len(stack) \in {0, 1})'
  BY <1>1
<1>7. PushedInv'
  BY <1>6, ShortStack, PTL
<1> QED
  BY <1>3, <1>4, <1>5, <1>7 DEF DepthIInv

\* Nor does a step in which nothing happens.
LEMMA DepthStutter ==
    ASSUME IInv, DepthIInv, UNCHANGED allVars
    PROVE  DepthIInv'
<1>1. UNCHANGED vars /\ UNCHANGED <<condEdges, depth, done, stack, depths, step>>
  BY DEF allVars, depthVars
<1>2. /\ pc' = pc /\ Component' = Component /\ \A d : CondensedFrom(d)' = CondensedFrom(d)
      /\ (\A v : nodeToScc(v)' = nodeToScc(v)) /\ under' = under
  BY <1>1, SameGraph
<1>3. DepthTypeOK'
  BY <1>1, <1>2 DEF DepthIInv, DepthTypeOK
<1>4. SettledInv'
  BY <1>1, SettledKept DEF DepthIInv
<1>5. UnsettledInv' /\ ReturnedInv'
  BY <1>1, <1>2 DEF DepthIInv, UnsettledInv, ReturnedInv
<1>6. PushedInv'
  BY <1>1, <1>2 DEF DepthIInv, PushedInv, IsPushedBy
<1> QED
  BY <1>3, <1>4, <1>5, <1>6 DEF DepthIInv

\* The links of a component, once the walk has begun.
LEMMA LinksAre ==
    ASSUME IsCondensed, DepthIInv, step # "scc", NEW c \in Component
    PROVE  /\ condEdges[c] = CondensedFrom(c)
           /\ condEdges[c] \subseteq Component /\ c \notin condEdges[c]
           /\ IsFiniteSet(condEdges[c])
           /\ \A d \in condEdges[c] : <<c, d>> \in under
<1>1. condEdges[c] = CondensedFrom(c)
  BY DEF DepthIInv, DepthTypeOK
<1>2. CondensedFrom(c) \subseteq Component /\ \A d \in CondensedFrom(c) : <<c, d>> \in under
  BY CondensedLinks
<1>3. IsFiniteSet(CondensedFrom(c))
  BY <1>2, FS_Subset DEF IsCondensed
<1>4. c \notin CondensedFrom(c)
  BY DEF CondensedFrom
<1> QED
  BY <1>1, <1>2, <1>3, <1>4

\* A component is settled one above the highest of those it includes.
LEMMA SettleStep ==
    ASSUME IsCondensed, DepthIInv, Settle
    PROVE  DepthIInv'
<1>1. PICK c : c = Top(stack)
  OBVIOUS
<1>2. /\ stack # <<>> /\ c \notin done /\ condEdges[c] \subseteq done
      /\ depth' = [depth EXCEPT ![c] = MaxOf({depth[c]} \cup {depth[d] + 1 : d \in condEdges[c]})]
      /\ done' = done \cup {c} /\ stack' = Pop(stack)
      /\ UNCHANGED <<vars, condEdges, depths, step>>
  BY <1>1 DEF Settle, Pending
<1>3. step = "resolve" /\ depth \in [Component -> Nat] /\ done \subseteq Component
  BY <1>2 DEF DepthIInv, DepthTypeOK
<1>4. c \in Component /\ stack' \in Seq(Component)
  BY <1>1, <1>2, <1>3, PopIs DEF DepthIInv, DepthTypeOK
<1>5. /\ pc' = pc /\ Component' = Component /\ \A d : CondensedFrom(d)' = CondensedFrom(d)
  BY <1>2, SameGraph
<1>6. condEdges[c] \subseteq Component /\ c \notin condEdges[c] /\ IsFiniteSet(condEdges[c])
  BY <1>3, <1>4, LinksAre
<1>7. PICK m : m = MaxOf({0} \cup {depth[d] + 1 : d \in condEdges[c]})
  OBVIOUS
<1>8. m \in Nat
  <2>1. \A d \in condEdges[c] : depth[d] \in Nat
    BY <1>3, <1>6
  <2> QED
    BY <1>6, <1>7, <2>1, DepthAbove
<1>9. depth' = [depth EXCEPT ![c] = m]
  <2>1. depth[c] = 0
    BY <1>2, <1>3, <1>4 DEF DepthIInv, UnsettledInv
  <2> QED
    BY <1>2, <1>7, <2>1
<1>10. depth' \in [Component -> Nat] /\ depth'[c] = m /\ \A d \in Component : d # c => depth'[d] = depth[d]
  BY <1>3, <1>4, <1>8, <1>9
<1>11. DepthTypeOK'
  BY <1>2, <1>3, <1>4, <1>5, <1>10 DEF DepthIInv, DepthTypeOK
<1>12. ASSUME NEW e \in done'
       PROVE  /\ condEdges[e] \subseteq done'
              /\ depth'[e] = MaxOf({0} \cup {depth'[d] + 1 : d \in condEdges[e]})
  <2>1. CASE e = c
    <3>1. \A d \in condEdges[c] : depth'[d] = depth[d]
      BY <1>6, <1>10
    <3>2. {depth'[d] + 1 : d \in condEdges[c]} = {depth[d] + 1 : d \in condEdges[c]}
      BY <3>1
    <3> QED
      BY <1>2, <1>7, <1>10, <2>1, <3>2
  <2>2. CASE e # c
    <3>1. e \in done /\ condEdges[e] \subseteq done
      BY <1>2, <1>12, <2>2 DEF DepthIInv, SettledInv
    <3>2. depth[e] = MaxOf({0} \cup {depth[d] + 1 : d \in condEdges[e]})
      BY <3>1 DEF DepthIInv, SettledInv
    <3>3. \A d \in condEdges[e] : depth'[d] = depth[d]
      BY <1>2, <1>3, <1>10, <3>1
    <3>4. {depth'[d] + 1 : d \in condEdges[e]} = {depth[d] + 1 : d \in condEdges[e]}
      BY <3>3
    <3>5. depth'[e] = depth[e]
      BY <1>3, <1>10, <2>2, <3>1
    <3> QED
      BY <1>2, <3>1, <3>2, <3>4, <3>5
  <2> QED
    BY <2>1, <2>2
<1>13. SettledInv'
  BY <1>2, <1>12 DEF SettledInv
<1>14. UnsettledInv' /\ ReturnedInv'
  BY <1>2, <1>3, <1>5, <1>10 DEF DepthIInv, UnsettledInv, ReturnedInv
<1>15. PushedInv'
  BY <1>2, <1>3, PopKeepsPushed
<1> QED
  BY <1>11, <1>13, <1>14, <1>15 DEF DepthIInv

\* What a component pushes lies under it, so nothing it pushed before is on the
\* stack: it would lie above an entry for the component, which is now on top.
LEMMA PushStep ==
    ASSUME IsCondensed, DepthIInv, PushPending
    PROVE  DepthIInv'
<1>1. PICK c : c = Top(stack)
  OBVIOUS
<1>2. PICK order \in Orders(Pending(c)) : stack' = stack \o order
  BY <1>1 DEF PushPending
<1>3. /\ stack # <<>> /\ UNCHANGED <<vars, condEdges, depth, done, depths, step>>
  BY DEF PushPending
<1>4. step = "resolve" /\ stack \in Seq(Component)
  BY <1>3 DEF DepthIInv, DepthTypeOK
<1>5. c \in Component /\ Len(stack) \in Nat /\ Len(stack) # 0 /\ c = stack[Len(stack)]
  BY <1>1, <1>3, <1>4, PopIs DEF Top
<1>6. /\ pc' = pc /\ Component' = Component /\ \A d : CondensedFrom(d)' = CondensedFrom(d)
      /\ (\A v : nodeToScc(v)' = nodeToScc(v)) /\ under' = under
  BY <1>3, SameGraph
<1>7. /\ condEdges[c] \subseteq Component /\ \A d \in condEdges[c] : <<c, d>> \in under
      /\ IsFiniteSet(condEdges[c])
  BY <1>4, <1>5, LinksAre
<1>8. /\ order \in Seq(Component) /\ \A i \in 1 .. Len(order) : order[i] \in condEdges[c]
      /\ \A i, j \in 1 .. Len(order) : order[i] = order[j] => i = j
  <2>1. Pending(c) \in SUBSET condEdges[c]
    BY DEF Pending
  <2>2. IsFiniteSet(Pending(c)) /\ Cardinality(Pending(c)) \in Nat
    BY <1>7, <2>1, FS_Subset, FS_CardinalityType
  <2>3. order \in [1 .. Cardinality(Pending(c)) -> Pending(c)]
    BY <1>2 DEF Orders
  <2>4. order \in Seq(Pending(c)) /\ order \in Seq(Component)
    BY <1>7, <2>1, <2>2, <2>3, SeqDef
  <2>5. DOMAIN order = 1 .. Len(order)
    BY <2>4
  <2> QED
    BY <1>2, <2>1, <2>4, <2>5 DEF Orders
<1> DEFINE L == Len(stack)
           M == Len(order)
<1>9. L \in Nat /\ M \in Nat /\ L # 0
  BY <1>5, <1>8
<1>10. /\ stack' \in Seq(Component) /\ Len(stack') = L + M
       /\ \A i \in 1 .. L + M : stack'[i] = IF i <= L THEN stack[i] ELSE order[i - L]
  BY <1>2, <1>4, <1>8, ConcatProperties, Zenon
<1>11. DepthTypeOK'
  BY <1>3, <1>4, <1>6, <1>10 DEF DepthIInv, DepthTypeOK
<1>12. SettledInv'
  BY <1>3, SettledKept DEF DepthIInv
<1>13. UnsettledInv' /\ ReturnedInv'
  BY <1>3, <1>6 DEF DepthIInv, UnsettledInv, ReturnedInv
<1>14. PICK par \in [2 .. L -> 1 .. L] : IsPushedBy(par)
  BY DEF DepthIInv, PushedInv
<1>15. PICK q : q = [i \in 2 .. L + M |-> IF i <= L THEN par[i] ELSE L]
  OBVIOUS
<1>16. PICK t : t = stack'
  OBVIOUS
<1>17. \A i \in 2 .. L : par[i] \in 1 .. L /\ par[i] < i
  BY <1>14 DEF IsPushedBy
<1>18. ASSUME NEW i \in 2 .. L
       PROVE  /\ stack[i] \in condEdges[stack[par[i]]]
              /\ \A k \in 2 .. L : par[i] < k => <<stack[par[i]], stack[k]>> \in under
              /\ \A j \in 2 .. L : stack[par[i]] = stack[par[j]] /\ stack[i] = stack[j] => i = j
  BY <1>14, <1>18 DEF IsPushedBy
<1> HIDE DEF L, M
<1>19. \A i \in 1 .. L : t[i] = stack[i] /\ i \in 1 .. L + M
  BY <1>9, <1>10, <1>16
<1>20. \A i \in 1 .. L + M : i > L => i - L \in 1 .. M /\ t[i] = order[i - L]
  BY <1>9, <1>10, <1>16
<1>21. \A i \in 2 .. L : q[i] = par[i] /\ q[i] \in 1 .. L /\ q[i] < i /\ t[q[i]] = stack[par[i]] /\ t[i] = stack[i]
  BY <1>9, <1>15, <1>17, <1>19
<1>22. \A i \in 2 .. L + M : i > L => q[i] = L /\ q[i] < i /\ t[q[i]] = c
  <2>1. L \in 1 .. L /\ t[L] = c
    BY <1>5, <1>9, <1>19 DEF L
  <2> QED
    BY <1>9, <1>15, <2>1
<1>23. q \in [2 .. L + M -> 1 .. L + M]
  BY <1>9, <1>15, <1>17
<1>24. \A i \in 1 .. L + M : t[i] \in Component
  BY <1>10, <1>16
<1>25. \A k \in 2 .. L + M : k > L => t[k] \in condEdges[c] /\ <<c, t[k]>> \in under
  BY <1>7, <1>8, <1>20 DEF M
<1>26. \A i \in 2 .. L : <<t[q[i]], c>> \in under /\ t[q[i]] \in Component
  <2> SUFFICES ASSUME NEW i \in 2 .. L PROVE <<t[q[i]], c>> \in under /\ t[q[i]] \in Component
    OBVIOUS
  <2>1. L \in 2 .. L /\ par[i] < L
    BY <1>9, <1>17
  <2>2. <<stack[par[i]], stack[L]>> \in under
    BY <1>18, <2>1
  <2> QED
    BY <1>5, <1>17, <1>19, <1>21, <1>24, <2>2 DEF L
<1>27. ASSUME NEW i \in 2 .. L + M
       PROVE  /\ q[i] < i
              /\ t[i] \in condEdges[t[q[i]]]
              /\ \A k \in 2 .. L + M : q[i] < k => <<t[q[i]], t[k]>> \in under
  <2>1. CASE i <= L
    <3>1. i \in 2 .. L
      BY <1>9, <1>27, <2>1
    <3>2. ASSUME NEW k \in 2 .. L + M, q[i] < k PROVE <<t[q[i]], t[k]>> \in under
      <4>1. CASE k <= L
        BY <1>9, <1>18, <1>21, <3>1, <3>2, <4>1
      <4>2. CASE k > L
        <5>1. <<c, t[k]>> \in under
          BY <1>25, <3>2, <4>2
        <5>2. <<t[q[i]], c>> \in under
          BY <1>26, <3>1
        <5>3. t[q[i]] \in Component /\ t[k] \in Component
          BY <5>1, <5>2 DEF under
        <5> QED
          BY <1>5, <5>1, <5>2, <5>3, UnderIsAnOrder
      <4> QED
        BY <1>9, <3>2, <4>1, <4>2
    <3> QED
      BY <1>18, <1>21, <3>1, <3>2
  <2>2. CASE i > L
    BY <1>9, <1>22, <1>25, <1>27, <2>2
  <2> QED
    BY <1>9, <1>27, <2>1, <2>2
<1>28. \A i \in 2 .. L + M : t[q[i]] = c <=> i > L
  <2> SUFFICES ASSUME NEW i \in 2 .. L + M PROVE t[q[i]] = c <=> i > L
    OBVIOUS
  <2>1. CASE i <= L
    <3>1. i \in 2 .. L
      BY <1>9, <2>1
    <3>2. <<t[q[i]], c>> \in under
      BY <1>26, <3>1
    <3>3. t[q[i]] # c
      BY <3>2 DEF under, Under
    <3> QED
      BY <1>9, <2>1, <3>3
  <2> QED
    BY <1>9, <1>22, <2>1
<1>29. ASSUME NEW i \in 2 .. L + M, NEW j \in 2 .. L + M, t[q[i]] = t[q[j]], t[i] = t[j]
       PROVE  i = j
  <2>1. CASE i > L
    <3>1. j > L
      BY <1>28, <1>29, <2>1
    <3>2. order[i - L] = order[j - L] /\ i - L \in 1 .. M /\ j - L \in 1 .. M
      BY <1>9, <1>20, <1>29, <2>1, <3>1
    <3>3. i - L = j - L
      BY <1>8, <3>2 DEF M
    <3> QED
      BY <1>9, <1>29, <3>3
  <2>2. CASE i <= L
    <3>1. j <= L
      BY <1>9, <1>28, <1>29, <2>2
    <3>2. i \in 2 .. L /\ j \in 2 .. L
      BY <1>9, <1>29, <2>2, <3>1
    <3> QED
      BY <1>18, <1>21, <1>29, <3>2
  <2> QED
    BY <1>9, <1>29, <2>1, <2>2
<1>30. IsPushedBy(q)'
  BY <1>3, <1>6, <1>10, <1>16, <1>27, <1>29 DEF IsPushedBy
<1>31. PushedInv'
  BY <1>10, <1>23, <1>30 DEF PushedInv
<1> QED
  BY <1>11, <1>12, <1>13, <1>31 DEF DepthIInv

\* Nothing is known of the second walk before it begins.
LEMMA InitDepthIInv == DepthInit => DepthIInv
<1> SUFFICES ASSUME DepthInit PROVE DepthIInv
  OBVIOUS
<1>1. stack = <<>> /\ done = {} /\ step = "scc"
  BY DEF DepthInit
<1>2. DepthTypeOK /\ SettledInv /\ UnsettledInv /\ ReturnedInv
  BY <1>1 DEF DepthTypeOK, SettledInv, UnsettledInv, ReturnedInv
<1>3. PushedInv
  BY <1>1, ShortStack
<1> QED
  BY <1>2, <1>3 DEF DepthIInv

\* Every state of a run satisfies the invariant, and that of computeScc.
THEOREM DepthInvariance == DepthSpec => [](IInv /\ ReturnsTheComponents /\ DepthIInv)
<1>1. ASSUME IInv, ReturnsTheComponents, DepthIInv, [DepthNext]_allVars PROVE DepthIInv'
  <2>1. ASSUME step # "scc" PROVE IsCondensed
    BY <1>1, <2>1, ComponentsAre DEF DepthIInv, DepthTypeOK
  <2>2. CASE computeScc
    BY <1>1, <2>2, SccStep
  <2>3. CASE buildCondensation
    BY <1>1, <2>3, BuildStep
  <2>4. CASE \E c \in Component : StartComponent(c)
    BY <1>1, <2>4, StartStep
  <2>5. CASE DropResolved
    BY <1>1, <2>5, DropStep
  <2>6. CASE PushPending
    <3>1. step # "scc"
      BY <1>1, <2>6 DEF PushPending, DepthIInv, DepthTypeOK
    <3> QED
      BY <1>1, <2>1, <2>6, <3>1, PushStep
  <2>7. CASE Settle
    <3>1. step # "scc"
      BY <1>1, <2>7 DEF Settle, DepthIInv, DepthTypeOK
    <3> QED
      BY <1>1, <2>1, <2>7, <3>1, SettleStep
  <2>8. CASE ReturnDepths
    BY <1>1, <2>8, ReturnDepthsStep
  <2>9. CASE UNCHANGED allVars
    BY <1>1, <2>9, DepthStutter
  <2> QED
    BY <1>1, <2>2, <2>3, <2>4, <2>5, <2>6, <2>7, <2>8, <2>9 DEF DepthNext
<1>2. DepthSpec => []IInv /\ []ReturnsTheComponents
  BY RunsTarjan, Invariance, ReturnsCorrect, PTL
<1> QED
  BY InitDepthIInv, <1>1, <1>2, PTL DEF DepthSpec
-----------------------------------------------------------------------------
(* What follows from the invariant.                                        *)

\* The stack of resolveDepthFrom never holds more than one entry for each link
\* of the condensed graph, and the root.
THEOREM StackBounded == DepthSpec => []StackIsBounded
<1>1. ASSUME IInv, ReturnsTheComponents, DepthIInv, step # "scc"
      PROVE  Len(stack) <= 1 + Cardinality({e \in Component \X Component : e[2] \in condEdges[e[1]]})
  <2> DEFINE L == Len(stack)
             E == {e \in Component \X Component : e[2] \in condEdges[e[1]]}
  <2>1. IsCondensed
    BY <1>1, ComponentsAre DEF DepthIInv, DepthTypeOK
  <2>2. L \in Nat /\ \A i \in 1 .. L : stack[i] \in Component
    BY <1>1 DEF DepthIInv, DepthTypeOK
  <2>3. IsFiniteSet(E) /\ Cardinality(E) \in Nat
    <3>1. IsFiniteSet(Component \X Component)
      BY <2>1, FS_Product DEF IsCondensed
    <3>2. E \in SUBSET (Component \X Component)
      OBVIOUS
    <3> HIDE DEF E
    <3> QED
      BY <3>1, <3>2, FS_Subset, FS_CardinalityType
  <2>4. PICK par \in [2 .. L -> 1 .. L] : IsPushedBy(par)
    BY <1>1 DEF DepthIInv, PushedInv
  <2>5. PICK f : f = [i \in 2 .. L |-> <<stack[par[i]], stack[i]>>]
    OBVIOUS
  <2>6. \A i \in 2 .. L : f[i] \in E
    <3> SUFFICES ASSUME NEW i \in 2 .. L PROVE f[i] \in E
      OBVIOUS
    <3>1. stack[i] \in condEdges[stack[par[i]]]
      BY <2>4 DEF IsPushedBy
    <3>2. i \in 1 .. L /\ par[i] \in 1 .. L
      BY <2>2
    <3>3. stack[par[i]] \in Component /\ stack[i] \in Component
      BY <2>2, <3>2
    <3> QED
      BY <2>5, <3>1, <3>3
  <2>7. \A i, j \in 2 .. L : f[i] = f[j] => i = j
    <3> SUFFICES ASSUME NEW i \in 2 .. L, NEW j \in 2 .. L, f[i] = f[j] PROVE i = j
      OBVIOUS
    <3>1. stack[par[i]] = stack[par[j]] /\ stack[i] = stack[j]
      BY <2>5
    <3> QED
      BY <2>4, <3>1 DEF IsPushedBy
  <2> HIDE DEF E, L
  <2>8. f \in Injection(2 .. L, E)
    BY <2>5, <2>6, <2>7 DEF Injection, IsInjective
  <2>9. Cardinality(2 .. L) <= Cardinality(E)
    BY <2>3, <2>8, FS_Injection
  <2>10. Cardinality(2 .. L) = IF 2 > L THEN 0 ELSE L - 2 + 1
    <3>1. 2 \in Int /\ L \in Int
      BY <2>2
    <3> QED
      BY <3>1, FS_Interval
  <2>11. L <= 1 + Cardinality(E)
    BY <2>2, <2>3, <2>9, <2>10
  <2> QED
    BY <2>11 DEF L, E
<1>2. IInv /\ ReturnsTheComponents /\ DepthIInv => StackIsBounded
  BY <1>1 DEF StackIsBounded
<1> QED
  BY <1>2, DepthInvariance, PTL

\* A chain of n components, each linked to the next.
IsChain(s, n) ==
    /\ n \in 1 .. Len(sccs) /\ s \in [1 .. n -> Sccs(Node, edges)] /\ Len(s) = n
    /\ \A i \in 1 .. n - 1 : s[i] # s[i + 1] /\ s[i] \X s[i + 1] \cap edges # {}

\* These are the chains of the definition.
LEMMA ChainsAre ==
    ASSUME IsCondensed
    PROVE  /\ \A s \in Chains(Node, edges) : \E n \in Nat : IsChain(s, n)
           /\ \A s, n : IsChain(s, n) => s \in Chains(Node, edges)
<1> DEFINE C == Sccs(Node, edges)
           K == Cardinality(C)
<1>1. K = Len(sccs) /\ Len(sccs) \in Nat
  <2>1. sccs \in Bijection(Component, C)
    BY DEF IsCondensed, Bijection, Injection, Surjection, IsInjective
  <2>2. IsFiniteSet(Component) /\ Cardinality(Component) = Len(sccs) /\ Len(sccs) \in Nat
    BY DEF IsCondensed
  <2> HIDE DEF C
  <2>3. ExistsBijection(Component, C)
    BY <2>1 DEF ExistsBijection
  <2>4. Cardinality(C) = Cardinality(Component)
    BY <2>2, <2>3, FS_Bijection
  <2> QED
    BY <2>2, <2>4
<1>2. \A n \in 1 .. K : \A s \in [1 .. n -> C] : Len(s) = n
  <2> SUFFICES ASSUME NEW n \in 1 .. K, NEW s \in [1 .. n -> C] PROVE Len(s) = n
    OBVIOUS
  <2>1. n \in Nat
    BY <1>1
  <2> QED
    BY <2>1, LenIs
<1>3. ASSUME NEW s \in Chains(Node, edges) PROVE \E n \in Nat : IsChain(s, n)
  <2>1. PICK n \in 1 .. K : s \in [1 .. n -> C]
    BY DEF Chains
  <2>2. Len(s) = n /\ n \in Nat
    BY <1>1, <1>2, <2>1
  <2>3. \A i \in 1 .. n - 1 : s[i] # s[i + 1] /\ s[i] \X s[i + 1] \cap edges # {}
    BY <2>2 DEF Chains
  <2> QED
    BY <1>1, <2>1, <2>2, <2>3 DEF IsChain
<1>4. ASSUME NEW s, NEW n, IsChain(s, n) PROVE s \in Chains(Node, edges)
  <2>1. n \in 1 .. K /\ s \in [1 .. n -> C] /\ Len(s) = n
    BY <1>1, <1>4 DEF IsChain
  <2>2. s \in UNION {[1 .. k -> C] : k \in 1 .. K}
    BY <2>1
  <2>3. \A i \in 1 .. Len(s) - 1 :
          /\ s[i] \in C /\ s[i + 1] \in C
          /\ s[i] # s[i + 1] /\ s[i] \X s[i + 1] \cap edges # {}
    BY <1>1, <1>4, <2>1 DEF IsChain
  <2> QED
    BY <2>2, <2>3 DEF Chains
<1> QED
  BY <1>3, <1>4

\* When all are settled, each is as deep as the equation of its depth says.
LEMMA AllSettled ==
    ASSUME IsCondensed, DepthIInv, step = "done", NEW c \in Component
    PROVE  /\ depth[c] \in Nat
           /\ \A d \in condEdges[c] : depth[d] + 1 <= depth[c]
           /\ depth[c] = 0 \/ \E d \in condEdges[c] : depth[c] = depth[d] + 1
<1>1. condEdges[c] \subseteq Component /\ IsFiniteSet(condEdges[c])
  BY LinksAre
<1>2. \A d \in condEdges[c] : depth[d] \in Nat
  BY <1>1 DEF DepthIInv, DepthTypeOK
<1>3. depth[c] = MaxOf({0} \cup {depth[d] + 1 : d \in condEdges[c]})
  BY DEF DepthIInv, ReturnedInv, SettledInv
<1>4. LET m == MaxOf({0} \cup {depth[d] + 1 : d \in condEdges[c]})
      IN  /\ m \in Nat
          /\ \A d \in condEdges[c] : depth[d] + 1 <= m
          /\ m = 0 \/ \E d \in condEdges[c] : m = depth[d] + 1
  BY <1>1, <1>2, DepthAbove
<1> QED
  BY <1>3, <1>4

\* No chain is longer than the depth of the component it begins with: of those
\* that were, take a shortest; without its first link it is one too.
LEMMA ChainsAreNoLonger ==
    ASSUME IsCondensed, DepthIInv, step = "done",
           NEW c \in Component, NEW s, NEW n, IsChain(s, n), s[1] = sccs[c]
    PROVE  n - 1 <= depth[c]
<1> DEFINE tooLong == {m \in Nat : \E d \in Component : \E t :
                            IsChain(t, m) /\ t[1] = sccs[d] /\ ~(m - 1 <= depth[d])}
<1>1. SUFFICES ASSUME tooLong # {} PROVE FALSE
  <2>1. n \in Nat
    BY DEF IsChain, IsCondensed
  <2> QED
    BY <1>1, <2>1
<1>2. PICK m \in tooLong : \A k \in tooLong : m <= k
  BY <1>1, LeastNatural
<1>3. m \in Nat /\ \E d \in Component : \E t : IsChain(t, m) /\ t[1] = sccs[d] /\ ~(m - 1 <= depth[d])
  OBVIOUS
<1>30. PICK d \in Component : \E t : IsChain(t, m) /\ t[1] = sccs[d] /\ ~(m - 1 <= depth[d])
  BY <1>3
<1>4. PICK t : IsChain(t, m) /\ t[1] = sccs[d] /\ ~(m - 1 <= depth[d])
  BY <1>30
<1>5. depth[d] \in Nat /\ \A e \in condEdges[d] : depth[e] + 1 <= depth[d]
  BY AllSettled
<1>6. m >= 2 /\ Len(sccs) \in Nat /\ m <= Len(sccs)
  BY <1>3, <1>4, <1>5 DEF IsChain, IsCondensed
<1>7. /\ t \in [1 .. m -> Sccs(Node, edges)]
      /\ \A i \in 1 .. m - 1 : t[i] # t[i + 1] /\ t[i] \X t[i + 1] \cap edges # {}
  BY <1>4 DEF IsChain
<1>8. PICK e \in Component : sccs[e] = t[2]
  BY <1>6, <1>7 DEF IsCondensed
<1>9. e \in condEdges[d]
  <2>1. t[1] # t[2] /\ t[1] \X t[2] \cap edges # {}
    <3>1. 1 \in 1 .. m - 1 /\ 1 + 1 = 2
      BY <1>3, <1>6
    <3> QED
      BY <1>7, <3>1
  <2> QED
    BY <1>4, <1>8, <2>1, CondensedLinks, LinksAre
<1>10. PICK u : u = [i \in 1 .. m - 1 |-> t[i + 1]]
  OBVIOUS
<1>11. \A i \in 1 .. m - 1 : u[i] = t[i + 1] /\ i + 1 \in 1 .. m
  BY <1>3, <1>10
<1>12. u \in [1 .. m - 1 -> Sccs(Node, edges)]
  BY <1>7, <1>10, <1>11
<1>13. m - 1 \in Nat /\ m - 1 \in 1 .. Len(sccs)
  BY <1>3, <1>6
<1>14. Len(u) = m - 1
  BY <1>12, <1>13, LenIs
<1>15. \A i \in 1 .. m - 1 - 1 : u[i] # u[i + 1] /\ u[i] \X u[i + 1] \cap edges # {}
  <2> SUFFICES ASSUME NEW i \in 1 .. m - 1 - 1
               PROVE  u[i] # u[i + 1] /\ u[i] \X u[i + 1] \cap edges # {}
    OBVIOUS
  <2>1. i \in 1 .. m - 1 /\ i + 1 \in 1 .. m - 1
    BY <1>3
  <2> QED
    BY <1>7, <1>11, <2>1
<1>16. IsChain(u, m - 1)
  BY <1>12, <1>13, <1>14, <1>15 DEF IsChain
<1>17. u[1] = sccs[e]
  <2>1. 1 \in 1 .. m - 1 /\ 1 + 1 = 2
    BY <1>3, <1>6
  <2> QED
    BY <1>8, <1>11, <2>1
<1>18. depth[e] \in Nat /\ depth[e] + 1 <= depth[d] /\ ~(m - 1 <= depth[d])
  BY <1>4, <1>5, <1>9, AllSettled
<1>19. ~(m - 1 - 1 <= depth[e])
  BY <1>3, <1>5, <1>18
<1>20. m - 1 \in tooLong
  BY <1>13, <1>16, <1>17, <1>19
<1>21. m <= m - 1
  BY <1>2, <1>20
<1> QED
  BY <1>3, <1>21

\* n components, each linked to the next and above all that follow.
IsDescent(p, n) ==
    /\ p \in [1 .. n -> Component]
    /\ \A i \in 1 .. n - 1 : p[i + 1] \in condEdges[p[i]]
    /\ \A i, j \in 1 .. n : i < j => <<p[i], p[j]>> \in under

\* A component begins a descent as long as its depth says: of those that did
\* not, one with the least depth would have one through the component that its
\* depth comes from.
LEMMA DescentOfItsDepth ==
    ASSUME IsCondensed, DepthIInv, step = "done", NEW c \in Component
    PROVE  \E p : IsDescent(p, depth[c] + 1) /\ p[1] = c
<1> DEFINE without == {m \in Nat : \E d \in Component :
                          depth[d] = m /\ ~\E p : IsDescent(p, m + 1) /\ p[1] = d}
<1>1. SUFFICES ASSUME without # {} PROVE FALSE
  <2>1. depth[c] \in Nat
    BY AllSettled
  <2> QED
    BY <1>1, <2>1
<1>2. PICK m \in without : \A k \in without : m <= k
  BY <1>1, LeastNatural
<1>3. m \in Nat /\ \E d \in Component : depth[d] = m /\ ~\E p : IsDescent(p, m + 1) /\ p[1] = d
  OBVIOUS
<1>4. PICK d \in Component : depth[d] = m /\ ~\E p : IsDescent(p, m + 1) /\ p[1] = d
  BY <1>3
<1>5. CASE m = 0
  <2>1. PICK p : p = [i \in 1 .. 1 |-> d]
    OBVIOUS
  <2>2. IsDescent(p, 1) /\ p[1] = d
    BY <2>1 DEF IsDescent
  <2> QED
    BY <1>4, <1>5, <2>2
<1>6. CASE m # 0
  <2>1. PICK e \in condEdges[d] : m = depth[e] + 1
    BY <1>4, <1>6, AllSettled
  <2>2. e \in Component /\ <<d, e>> \in under
    BY LinksAre
  <2>3. depth[e] \in Nat
    BY <2>2, AllSettled
  <2>4. depth[e] \notin without
    BY <1>2, <1>3, <2>1, <2>3
  <2>5. PICK p : IsDescent(p, depth[e] + 1) /\ p[1] = e
    BY <2>2, <2>3, <2>4
  <2>6. /\ p \in [1 .. m -> Component]
        /\ \A i \in 1 .. m - 1 : p[i + 1] \in condEdges[p[i]]
        /\ \A i, j \in 1 .. m : i < j => <<p[i], p[j]>> \in under
    BY <2>1, <2>5 DEF IsDescent
  <2>7. PICK q : q = [i \in 1 .. m + 1 |-> IF i = 1 THEN d ELSE p[i - 1]]
    OBVIOUS
  <2>8. 1 \in 1 .. m + 1 /\ 1 \in 1 .. m
    BY <1>3, <1>6
  <2>9. q[1] = d
    BY <2>7, <2>8
  <2>10. \A i \in 1 .. m + 1 : i # 1 => i - 1 \in 1 .. m /\ q[i] = p[i - 1]
    BY <1>3, <2>7
  <2>11. q \in [1 .. m + 1 -> Component]
    BY <2>6, <2>7, <2>10
  <2>12. \A k \in 1 .. m : <<d, p[k]>> \in under
    <3> SUFFICES ASSUME NEW k \in 1 .. m PROVE <<d, p[k]>> \in under
      OBVIOUS
    <3>1. CASE k = 1
      BY <2>2, <2>5, <3>1
    <3>2. CASE k # 1
      <4>1. 1 < k
        BY <1>3, <3>2
      <4>2. <<e, p[k]>> \in under /\ p[k] \in Component
        BY <2>5, <2>6, <2>8, <4>1
      <4> QED
        BY <2>2, <4>2, UnderIsAnOrder
    <3> QED
      BY <3>1, <3>2
  <2>13. ASSUME NEW i \in 1 .. m + 1 - 1 PROVE q[i + 1] \in condEdges[q[i]]
    <3>1. i + 1 \in 1 .. m + 1 /\ i + 1 # 1 /\ i + 1 - 1 = i /\ i \in 1 .. m + 1
      BY <1>3, <2>13
    <3>2. q[i + 1] = p[i]
      BY <2>10, <3>1
    <3>3. CASE i = 1
      BY <2>5, <2>9, <3>2, <3>3
    <3>4. CASE i # 1
      <4>1. i - 1 \in 1 .. m - 1 /\ i - 1 + 1 = i
        BY <1>3, <2>13, <3>4
      <4>2. p[i] \in condEdges[p[i - 1]]
        BY <2>6, <4>1
      <4>3. q[i] = p[i - 1]
        BY <2>10, <3>1, <3>4
      <4> QED
        BY <3>2, <4>2, <4>3
    <3> QED
      BY <3>3, <3>4
  <2>14. ASSUME NEW i \in 1 .. m + 1, NEW j \in 1 .. m + 1, i < j PROVE <<q[i], q[j]>> \in under
    <3>1. j # 1 /\ j - 1 \in 1 .. m /\ q[j] = p[j - 1]
      BY <1>3, <2>10, <2>14
    <3>2. CASE i = 1
      BY <2>9, <2>12, <3>1, <3>2
    <3>3. CASE i # 1
      <4>1. i - 1 \in 1 .. m /\ q[i] = p[i - 1] /\ i - 1 < j - 1
        BY <1>3, <2>10, <2>14, <3>3
      <4> QED
        BY <2>6, <3>1, <4>1
    <3> QED
      BY <3>2, <3>3
  <2>15. IsDescent(q, m + 1)
    BY <2>11, <2>13, <2>14 DEF IsDescent
  <2> QED
    BY <1>4, <2>9, <2>15
<1> QED
  BY <1>5, <1>6

\* Its components are distinct, so they are not too many for a chain.
LEMMA DescentIsChain ==
    ASSUME IsCondensed, DepthIInv, step = "done", NEW n \in Nat, n # 0, NEW p, IsDescent(p, n)
    PROVE  \E s : IsChain(s, n) /\ s[1] = sccs[p[1]]
<1>1. /\ p \in [1 .. n -> Component]
      /\ \A i \in 1 .. n - 1 : p[i + 1] \in condEdges[p[i]]
      /\ \A i, j \in 1 .. n : i < j => p[i] # p[j]
  BY DEF IsDescent, under, Under
<1>2. \A i, j \in 1 .. n : p[i] = p[j] => i = j
  <2> SUFFICES ASSUME NEW i \in 1 .. n, NEW j \in 1 .. n, p[i] = p[j] PROVE i = j
    OBVIOUS
  <2>1. ~(i < j) /\ ~(j < i)
    BY <1>1
  <2> QED
    BY <2>1
<1>3. n <= Len(sccs) /\ Len(sccs) \in Nat
  <2>1. p \in Injection(1 .. n, Component)
    BY <1>1, <1>2 DEF Injection, IsInjective
  <2>2. Cardinality(1 .. n) <= Cardinality(Component)
    BY <2>1, FS_Injection DEF IsCondensed
  <2>3. Cardinality(1 .. n) = n
    <3>1. n - 1 + 1 = n /\ 1 \in Int /\ n \in Int
      OBVIOUS
    <3> QED
      BY <3>1, FS_Interval
  <2> QED
    BY <2>2, <2>3 DEF IsCondensed
<1>4. PICK s : s = [i \in 1 .. n |-> sccs[p[i]]]
  OBVIOUS
<1>5. s \in [1 .. n -> Sccs(Node, edges)]
  BY <1>1, <1>4 DEF IsCondensed
<1>6. Len(s) = n
  BY <1>5, LenIs
<1>7. ASSUME NEW i \in 1 .. n - 1 PROVE s[i] # s[i + 1] /\ s[i] \X s[i + 1] \cap edges # {}
  <2>1. i \in 1 .. n /\ i + 1 \in 1 .. n
    BY <1>7
  <2>2. p[i] \in Component /\ p[i + 1] \in Component /\ p[i + 1] \in condEdges[p[i]]
    BY <1>1, <1>7, <2>1
  <2>3. p[i + 1] \in CondensedFrom(p[i])
    BY <2>2, LinksAre
  <2>4. p[i] # p[i + 1] /\ sccs[p[i]] \X sccs[p[i + 1]] \cap edges # {}
    BY <2>2, <2>3, CondensedLinks
  <2>5. sccs[p[i]] # sccs[p[i + 1]]
    BY <2>2, <2>4 DEF IsCondensed
  <2> QED
    BY <1>4, <2>1, <2>4, <2>5
<1>8. IsChain(s, n)
  BY <1>3, <1>5, <1>6, <1>7 DEF IsChain
<1>9. 1 \in 1 .. n
  OBVIOUS
<1> QED
  BY <1>4, <1>8, <1>9

\* computeIncludeDepths returns, for each file, the length of the longest chain
\* of includes that begins with it, a cycle counting as one link, whatever the
\* order of the includes and of the hash sets.
THEOREM DepthCorrect == DepthSpec => []DepthIsLongestChain
<1>1. ASSUME IInv, ReturnsTheComponents, DepthIInv, step = "done", NEW v \in Node
      PROVE  depths[v] = MaxOf({Len(s) - 1 : s \in {t \in Chains(Node, edges) : v \in t[1]}})
  <2> DEFINE begin == {t \in Chains(Node, edges) : v \in t[1]}
             lengths == {Len(s) - 1 : s \in begin}
  <2>1. IsCondensed
    BY <1>1, ComponentsAre DEF DepthIInv, DepthTypeOK
  <2>2. PICK c \in Component : c = nodeToScc(v) /\ v \in sccs[c]
    BY <2>1 DEF IsCondensed
  <2>3. depths[v] = depth[c]
    BY <1>1, <2>2 DEF DepthIInv, ReturnedInv
  <2>4. depth[c] \in Nat
    BY <1>1, <2>1, AllSettled
  <2>5. ASSUME NEW s \in begin PROVE Len(s) - 1 \in Nat /\ Len(s) - 1 <= depth[c]
    <3>1. PICK n \in Nat : IsChain(s, n)
      BY <2>1, ChainsAre
    <3>2. n # 0 /\ Len(s) = n /\ s[1] \in Sccs(Node, edges)
      BY <2>1, <3>1 DEF IsChain, IsCondensed
    <3>3. s[1] = sccs[c]
      BY <2>1, <2>2, <3>2, SccsPartition DEF IsCondensed
    <3>4. n - 1 <= depth[c]
      BY <1>1, <2>1, <3>1, <3>3, ChainsAreNoLonger
    <3> QED
      BY <3>2, <3>4
  <2>6. depth[c] \in lengths
    <3>1. PICK p : IsDescent(p, depth[c] + 1) /\ p[1] = c
      BY <1>1, <2>1, DescentOfItsDepth
    <3>2. depth[c] + 1 \in Nat /\ depth[c] + 1 # 0
      BY <2>4
    <3>3. PICK s : IsChain(s, depth[c] + 1) /\ s[1] = sccs[c]
      BY <1>1, <2>1, <3>1, <3>2, DescentIsChain
    <3>4. s \in begin
      BY <2>1, <2>2, <3>3, ChainsAre
    <3>5. Len(s) - 1 = depth[c]
      BY <2>4, <3>3 DEF IsChain
    <3> QED
      BY <3>4, <3>5
  <2>7. lengths \in SUBSET Nat /\ \A k \in lengths : k <= depth[c]
    BY <2>5
  <2> HIDE DEF lengths
  <2>8. MaxOf(lengths) = depth[c]
    BY <2>4, <2>6, <2>7, MaxOfIs
  <2> QED
    BY <2>3, <2>8 DEF lengths
<1>2. IInv /\ ReturnsTheComponents /\ DepthIInv => DepthIsLongestChain
  BY <1>1 DEF DepthIsLongestChain
<1> QED
  BY <1>2, DepthInvariance, PTL
=============================================================================
