----------------------- MODULE DependencyGraph_proofs -----------------------
(***************************************************************************)
(* Proofs about DependencyGraph: its invariants, for any set of files, and  *)
(* that it implements IncludeGraph.                                         *)
(***************************************************************************)
EXTENDS DependencyGraph, TLAPS

\* Normalising any spelling of a path gives the path of the file it names.
LEMMA NormalizedIsPath ==
    ASSUME NEW s \in Spelling
    PROVE  normalize_path(s) = PathOf(s.file) /\ PathOf(s.file) \in Path
<1>1. s.file \in File /\ PathOf(s.file) \in Path
  BY DEF Spelling, Path
<1>2. s = [dots |-> s.dots, separator |-> s.separator, file |-> s.file]
  BY DEF Spelling
<1>3. [s EXCEPT !.dots = 0] = [dots |-> 0, separator |-> s.separator, file |-> s.file]
  BY <1>2
<1>4. normalize_path(s) = [[s EXCEPT !.dots = 0] EXCEPT !.separator = "/"]
  BY <1>2 DEF normalize_path
<1>5. \A c, f : [[dots |-> 0, separator |-> c, file |-> f] EXCEPT !.separator = "/"]
                  = [dots |-> 0, separator |-> "/", file |-> f]
  OBVIOUS
<1>6. normalize_path(s) = PathOf(s.file)
  BY <1>3, <1>4, <1>5 DEF PathOf
<1> QED
  BY <1>1, <1>6

\* Every step adds a node or finds it, repeats an edge or adds one, and records
\* the request, or changes nothing.
LEMMA StepCases ==
    ASSUME [Next]_vars
    PROVE  \/ \E p \in Path : (AddNewNode(p) \/ FindNode(p)) /\ request' = <<p>>
           \/ \E from, to \in NodeId, conditional \in BOOLEAN : addEdge(from, to, conditional)
           \/ UNCHANGED vars
<1>1. CASE \E s \in Spelling : addNode(s)
  <2>1. PICK s \in Spelling : addNode(s)
    BY <1>1
  <2> DEFINE p == PathOf(s.file)
  <2>2. p \in Path /\ (AddNewNode(p) \/ FindNode(p)) /\ request' = <<p>>
    BY <2>1, NormalizedIsPath DEF addNode
  <2> QED
    BY <2>2
<1> QED
  BY <1>1 DEF Next

\* A sequence over a set is one over any larger set.
LEMMA SeqMonotone ==
    ASSUME NEW S, NEW T, S \subseteq T, NEW s \in Seq(S)
    PROVE  s \in Seq(T)
OBVIOUS

\* An adjacency map over the ids N stays one when the id k is added with no
\* neighbours.
LEMMA LonelyNode ==
    ASSUME NEW N, NEW k, k \notin N, NEW m \in [N -> Seq(N)]
    PROVE  With(m, k, <<>>) \in [N \cup {k} -> Seq(N \cup {k})]
<1>1. With(m, k, <<>>) = [x \in N \cup {k} |-> IF x = k THEN <<>> ELSE m[x]]
  BY DEF With
<1>2. \A x \in N : m[x] \in Seq(N \cup {k})
  <2> TAKE x \in N
  <2>1. m[x] \in Seq(N)
    OBVIOUS
  <2> QED
    BY <2>1, SeqMonotone
<1>3. <<>> \in Seq(N \cup {k})
  OBVIOUS
<1> QED
  BY <1>1, <1>2, <1>3

\* What a node's neighbours are after one more is appended.
LEMMA AppendContains ==
    ASSUME NEW S, NEW s \in Seq(S), NEW e \in S
    PROVE  /\ \A x : contains(Append(s, e), x) <=> contains(s, x) \/ x = e
           /\ Distinct(s) /\ ~contains(s, e) => Distinct(Append(s, e))
<1>1. /\ DOMAIN Append(s, e) = DOMAIN s \cup {Len(s) + 1}
      /\ Len(s) + 1 \notin DOMAIN s
      /\ Append(s, e)[Len(s) + 1] = e
      /\ \A i \in DOMAIN s : Append(s, e)[i] = s[i]
  OBVIOUS
<1>2. \A x : contains(Append(s, e), x) <=> contains(s, x) \/ x = e
  BY <1>1 DEF contains
<1>3. Distinct(s) /\ ~contains(s, e) => Distinct(Append(s, e))
  BY <1>1 DEF contains, Distinct
<1> QED
  BY <1>2, <1>3
-----------------------------------------------------------------------------
(* The types of the state. *)

\* Every step preserves the types.
LEMMA TypeStep == TypeOK /\ [Next]_vars => TypeOK'
<1> SUFFICES ASSUME TypeOK, [Next]_vars PROVE TypeOK'
  OBVIOUS
<1> USE DEF TypeOK, NodeId, nodeCount
<1>1. ASSUME NEW p \in Path, AddNewNode(p), request' = <<p>>
      PROVE  TypeOK'
  <2>1. paths' \in Seq(Path) /\ Len(paths') = Len(paths) + 1
    BY <1>1 DEF AddNewNode
  <2>2. NodeId' = NodeId \cup {Len(paths)} /\ Len(paths) \in Nat
    BY <2>1
  <2>3. DOMAIN pathToId' \subseteq Path /\ \A q \in DOMAIN pathToId' : pathToId'[q] \in NodeId'
    BY <1>1, <2>2 DEF AddNewNode, With
  <2>4. forward' \in [NodeId' -> Seq(NodeId')] /\ reverse' \in [NodeId' -> Seq(NodeId')]
    <3>1. /\ forward' = With(forward, Len(paths), <<>>)
          /\ reverse' = With(reverse, Len(paths), <<>>)
      BY <1>1 DEF AddNewNode
    <3>2. Len(paths) \notin NodeId
      OBVIOUS
    <3>3. /\ With(forward, Len(paths), <<>>) \in [NodeId \cup {Len(paths)} -> Seq(NodeId \cup {Len(paths)})]
          /\ With(reverse, Len(paths), <<>>) \in [NodeId \cup {Len(paths)} -> Seq(NodeId \cup {Len(paths)})]
      <4> HIDE DEF NodeId
      <4> QED
        BY <3>2, LonelyNode DEF TypeOK
    <3> QED
      BY <3>1, <3>3, <2>2
  <2>6. conditionalEdges' \subseteq NodeId' \X NodeId'
    BY <1>1, <2>2 DEF AddNewNode
  <2>7. request' \in {<<q>> : q \in Path}
    BY <1>1
  <2> QED
    BY <2>1, <2>3, <2>4, <2>6, <2>7
<1>2. ASSUME NEW p \in Path, FindNode(p), request' = <<p>> PROVE TypeOK'
  BY <1>2 DEF FindNode, graph
<1>3. ASSUME NEW from \in NodeId, NEW to \in NodeId, NEW conditional \in BOOLEAN,
             addEdge(from, to, conditional)
      PROVE  TypeOK'
  <2>1. pathOf(from) \in Path /\ pathOf(to) \in Path
    BY DEF pathOf
  <2>2. request' = <<pathOf(from), pathOf(to), conditional>>
    BY <1>3 DEF addEdge
  <2>3. request' \in Path \X Path \X BOOLEAN
    BY <2>1, <2>2
  <2>4. CASE RepeatEdge(from, to, conditional)
    BY <2>3, <2>4 DEF RepeatEdge
  <2>5. CASE NewEdge(from, to, conditional)
    BY <2>3, <2>5 DEF NewEdge, edge_key
  <2> QED
    BY <1>3, <2>4, <2>5 DEF addEdge
<1>4. CASE UNCHANGED vars
  BY <1>4 DEF vars, graph
<1> QED
  BY <1>1, <1>2, <1>3, <1>4, StepCases

\* The type invariant of the node table and the adjacency maps.
THEOREM TypeCorrect == Spec => []TypeOK
<1>1. Init => TypeOK
  BY DEF Init, TypeOK, NodeId, nodeCount
<1> QED
  BY <1>1, TypeStep, PTL DEF Spec
-----------------------------------------------------------------------------
(* The invariants: the node table is a bijection, the two adjacency maps    *)
(* mirror each other, conditional keys are edges.  None is inductive alone. *)

Inv == TypeOK /\ NodesMatchPaths /\ ReverseMirrorsForward /\ ConditionalEdgesExist

\* A new node gets the next id; nothing else changes.
LEMMA AddNewNodeEffect ==
    ASSUME TypeOK, NEW p \in Path, AddNewNode(p)
    PROVE  /\ NodeId' = NodeId \cup {nodeCount} /\ nodeCount \notin NodeId
           /\ DOMAIN paths' = DOMAIN paths \cup {nodeCount + 1}
           /\ \A id \in NodeId : id + 1 \in DOMAIN paths /\ paths'[id + 1] = paths[id + 1]
           /\ paths'[nodeCount + 1] = p
           /\ \A id \in NodeId : forward'[id] = forward[id] /\ reverse'[id] = reverse[id]
           /\ forward'[nodeCount] = <<>> /\ reverse'[nodeCount] = <<>>
           /\ conditionalEdges' = conditionalEdges
<1>1. nodeCount \in Nat /\ paths \in Seq(Path) /\ paths' = Append(paths, p)
  BY DEF TypeOK, nodeCount, AddNewNode
<1>2. /\ NodeId' = NodeId \cup {nodeCount} /\ nodeCount \notin NodeId
      /\ DOMAIN paths' = DOMAIN paths \cup {nodeCount + 1}
      /\ \A id \in NodeId : id + 1 \in DOMAIN paths /\ paths'[id + 1] = paths[id + 1]
      /\ paths'[nodeCount + 1] = p
  BY <1>1 DEF NodeId, nodeCount
<1>3. /\ \A id \in NodeId : forward'[id] = forward[id] /\ reverse'[id] = reverse[id]
      /\ forward'[nodeCount] = <<>> /\ reverse'[nodeCount] = <<>>
      /\ conditionalEdges' = conditionalEdges
  BY <1>2 DEF TypeOK, AddNewNode, With
<1> QED
  BY <1>2, <1>3

\* A new edge appears in both maps, at the end of the two lists it belongs to.
LEMMA NewEdgeEffect ==
    ASSUME TypeOK, NEW from \in NodeId, NEW to \in NodeId, NEW conditional \in BOOLEAN,
           NewEdge(from, to, conditional)
    PROVE  /\ NodeId' = NodeId
           /\ forward' = [forward EXCEPT ![from] = Append(forward[from], to)]
           /\ reverse' = [reverse EXCEPT ![to] = Append(reverse[to], from)]
           /\ \A a, b \in NodeId :
                contains(forward'[a], b) <=> contains(forward[a], b) \/ (a = from /\ b = to)
           /\ \A a, b \in NodeId :
                contains(reverse'[b], a) <=> contains(reverse[b], a) \/ (a = from /\ b = to)
<1>1. /\ NodeId' = NodeId
      /\ forward' = [forward EXCEPT ![from] = Append(forward[from], to)]
      /\ reverse' = [reverse EXCEPT ![to] = Append(reverse[to], from)]
  BY DEF NewEdge, NodeId, nodeCount
<1>2. forward[from] \in Seq(NodeId) /\ reverse[to] \in Seq(NodeId)
  BY DEF TypeOK
<1>3. /\ \A x : contains(Append(forward[from], to), x) <=> contains(forward[from], x) \/ x = to
      /\ \A x : contains(Append(reverse[to], from), x) <=> contains(reverse[to], x) \/ x = from
  BY <1>2, AppendContains
<1> QED
  BY <1>1, <1>3 DEF TypeOK

\* Every step preserves the four of them together.
LEMMA InvStep == Inv /\ [Next]_vars => Inv'
<1> SUFFICES ASSUME Inv, [Next]_vars PROVE Inv'
  OBVIOUS
<1> USE DEF Inv
<1>1. TypeOK'
  BY TypeStep
<1>2. ASSUME NEW p \in Path, AddNewNode(p)
      PROVE  (NodesMatchPaths /\ ReverseMirrorsForward /\ ConditionalEdgesExist)'
  <2>2. NodesMatchPaths'
    <3>1. /\ p \notin DOMAIN pathToId
          /\ DOMAIN pathToId' = DOMAIN pathToId \cup {p} /\ pathToId'[p] = nodeCount
          /\ \A q \in DOMAIN pathToId : pathToId'[q] = pathToId[q]
      BY <1>2 DEF AddNewNode, With
    <3>2. \A q \in DOMAIN pathToId : pathToId[q] \in NodeId
      BY DEF TypeOK
    <3> QED
      BY <1>2, <3>1, <3>2, AddNewNodeEffect DEF NodesMatchPaths, pathOf
  <2>3. \A x : ~contains(<<>>, x)
    BY DEF contains
  <2>4. Distinct(<<>>)
    BY DEF Distinct
  <2>5. \A a \in NodeId : ~contains(forward[a], nodeCount) /\ ~contains(reverse[a], nodeCount)
    <3>1. forward \in [NodeId -> Seq(NodeId)] /\ reverse \in [NodeId -> Seq(NodeId)]
      BY DEF TypeOK
    <3>2. nodeCount \notin NodeId
      BY <1>2, AddNewNodeEffect
    <3> QED
      BY <3>1, <3>2 DEF contains
  <2>6. ReverseMirrorsForward'
    BY <1>2, <2>3, <2>4, <2>5, AddNewNodeEffect DEF ReverseMirrorsForward
  <2>7. ConditionalEdgesExist'
    BY <1>2, AddNewNodeEffect DEF ConditionalEdgesExist, hasEdge, TypeOK
  <2> QED
    BY <2>2, <2>6, <2>7
<1>3. ASSUME NEW from \in NodeId, NEW to \in NodeId, NEW conditional \in BOOLEAN,
             RepeatEdge(from, to, conditional)
      PROVE  (NodesMatchPaths /\ ReverseMirrorsForward /\ ConditionalEdgesExist)'
  <2>1. conditionalEdges' \subseteq conditionalEdges
    BY <1>3 DEF RepeatEdge
  <2> QED
    BY <1>3, <2>1 DEF RepeatEdge, NodesMatchPaths, ReverseMirrorsForward, ConditionalEdgesExist,
                      NodeId, nodeCount, pathOf, hasEdge
<1>4. ASSUME NEW from \in NodeId, NEW to \in NodeId, NEW conditional \in BOOLEAN,
             NewEdge(from, to, conditional)
      PROVE  (NodesMatchPaths /\ ReverseMirrorsForward /\ ConditionalEdgesExist)'
  <2>1. NodesMatchPaths'
    BY <1>4 DEF NewEdge, NodesMatchPaths, NodeId, nodeCount, pathOf
  <2>2. ~contains(forward[from], to) /\ ~contains(reverse[to], from)
    BY <1>4 DEF NewEdge, hasEdge, ReverseMirrorsForward
  <2>3. Distinct(Append(forward[from], to)) /\ Distinct(Append(reverse[to], from))
    BY <2>2, AppendContains DEF TypeOK, ReverseMirrorsForward
  <2>4. \A a \in NodeId : Distinct(forward'[a]) /\ Distinct(reverse'[a])
    <3>1. /\ forward \in [NodeId -> Seq(NodeId)] /\ reverse \in [NodeId -> Seq(NodeId)]
          /\ forward' = [forward EXCEPT ![from] = Append(forward[from], to)]
          /\ reverse' = [reverse EXCEPT ![to] = Append(reverse[to], from)]
      BY <1>4 DEF NewEdge, TypeOK
    <3>2. \A a \in NodeId : Distinct(forward[a]) /\ Distinct(reverse[a])
      BY DEF ReverseMirrorsForward
    <3>3. \A a \in NodeId : /\ forward'[a] = IF a = from THEN Append(forward[from], to) ELSE forward[a]
                           /\ reverse'[a] = IF a = to THEN Append(reverse[to], from) ELSE reverse[a]
      BY <3>1
    <3> QED
      BY <2>3, <3>2, <3>3
  <2>5. ReverseMirrorsForward'
    BY <1>4, <2>4, NewEdgeEffect DEF ReverseMirrorsForward
  <2>6. conditionalEdges' \subseteq conditionalEdges \cup {<<from, to>>}
    BY <1>4 DEF NewEdge, edge_key
  <2>7. ConditionalEdgesExist'
    <3> SUFFICES ASSUME NEW e \in conditionalEdges' PROVE contains(forward'[e[1]], e[2])
      BY DEF ConditionalEdgesExist, hasEdge
    <3>1. e[1] \in NodeId /\ e[2] \in NodeId
      BY <2>6 DEF TypeOK
    <3>2. contains(forward[e[1]], e[2]) \/ (e[1] = from /\ e[2] = to)
      BY <2>6 DEF ConditionalEdgesExist, hasEdge
    <3> QED
      BY <1>4, <3>1, <3>2, NewEdgeEffect
  <2> QED
    BY <2>1, <2>5, <2>7
<1>5. ASSUME UNCHANGED graph
      PROVE  (NodesMatchPaths /\ ReverseMirrorsForward /\ ConditionalEdgesExist)'
  BY <1>5 DEF graph, NodesMatchPaths, ReverseMirrorsForward, ConditionalEdgesExist,
              NodeId, nodeCount, pathOf, hasEdge
<1> QED
  <2>1. CASE \E p \in Path : (AddNewNode(p) \/ FindNode(p)) /\ request' = <<p>>
    BY <1>1, <1>2, <1>5, <2>1 DEF FindNode
  <2>2. CASE \E from, to \in NodeId, conditional \in BOOLEAN : addEdge(from, to, conditional)
    BY <1>1, <1>3, <1>4, <2>2 DEF addEdge
  <2>3. CASE UNCHANGED vars
    BY <1>1, <1>5, <2>3 DEF vars
  <2> QED
    BY <2>1, <2>2, <2>3, StepCases

\* pathToId_ and paths_ stay inverse to each other, forward_ and reverse_ hold
\* the same edges, and only edges are marked conditional.
THEOREM InvCorrect == Spec => [](NodesMatchPaths /\ ReverseMirrorsForward /\ ConditionalEdgesExist)
<1>1. Init => Inv
  BY DEF Init, Inv, TypeOK, NodesMatchPaths, ReverseMirrorsForward, ConditionalEdgesExist,
         NodeId, nodeCount
<1>2. Inv => NodesMatchPaths /\ ReverseMirrorsForward /\ ConditionalEdgesExist
  BY DEF Inv
<1> QED
  BY <1>1, <1>2, InvStep, PTL DEF Spec

\* In particular a path has one id and an id one path, in whatever spellings
\* the files were named.
THEOREM NodeTableCorrect == Spec => []NodesMatchPaths
BY InvCorrect, PTL
-----------------------------------------------------------------------------
(* What no step undoes. *)

\* An id keeps its path, and an edge once unconditional stays so.
THEOREM Permanence == Spec => NodesAndHardEdgesArePermanent
<1>1. Init => Inv
  BY DEF Init, Inv, TypeOK, NodesMatchPaths, ReverseMirrorsForward, ConditionalEdgesExist,
         NodeId, nodeCount
<1> DEFINE Keeps ==
      /\ \A id \in NodeId : id + 1 \in DOMAIN paths' /\ paths'[id + 1] = pathOf(id)
      /\ \A a, b \in NodeId :
           hasEdge(a, b) /\ ~isConditionalEdge(a, b)
              => contains(forward'[a], b) /\ edge_key(a, b) \notin conditionalEdges'
<1>2. Inv /\ [Next]_vars => [Keeps]_vars
  <2> SUFFICES ASSUME Inv, [Next]_vars, vars' # vars PROVE Keeps
    OBVIOUS
  <2> USE DEF Inv
  <2>0. \A id \in NodeId : id + 1 \in DOMAIN paths
    BY DEF TypeOK, NodeId, nodeCount
  <2>1. CASE \E p \in Path : AddNewNode(p)
    BY <2>1, AddNewNodeEffect DEF pathOf, hasEdge, isConditionalEdge
  <2>2. CASE UNCHANGED graph
    BY <2>0, <2>2 DEF graph, pathOf, hasEdge, isConditionalEdge
  <2>3. CASE \E from, to \in NodeId, conditional \in BOOLEAN : RepeatEdge(from, to, conditional)
    BY <2>0, <2>3 DEF RepeatEdge, pathOf, hasEdge, isConditionalEdge
  <2>4. CASE \E from, to \in NodeId, conditional \in BOOLEAN : NewEdge(from, to, conditional)
    <3>1. PICK from \in NodeId, to \in NodeId, conditional \in BOOLEAN : NewEdge(from, to, conditional)
      BY <2>4
    <3>2. \A a, b \in NodeId : contains(forward[a], b) => contains(forward'[a], b)
      BY <3>1, NewEdgeEffect
    <3>3. ~hasEdge(from, to) /\ conditionalEdges' \subseteq conditionalEdges \cup {<<from, to>>}
      BY <3>1 DEF NewEdge, edge_key
    <3>4. paths' = paths
      BY <3>1 DEF NewEdge
    <3> QED
      BY <2>0, <3>2, <3>3, <3>4 DEF pathOf, hasEdge, isConditionalEdge, edge_key
  <2> QED
    BY <2>1, <2>2, <2>3, <2>4, StepCases DEF addEdge, FindNode, vars
<1> QED
  BY <1>1, <1>2, InvStep, PTL DEF Spec, NodesAndHardEdgesArePermanent
-----------------------------------------------------------------------------
(* The refinement of IncludeGraph. *)

\* Adding an edge, new or repeated, is one Include of the abstract graph.
LEMMA EdgeIsInclude ==
    ASSUME Inv, NEW from \in NodeId, NEW to \in NodeId, NEW conditional \in BOOLEAN,
           addEdge(from, to, conditional)
    PROVE  Abstract!Include(pathOf(from), pathOf(to), conditional)
<1> USE DEF Inv
<1> DEFINE e == <<from, to>>
           image == <<pathOf(from), pathOf(to)>>
           Image(f) == <<pathOf(f[1]), pathOf(f[2])>>
<1>0. \A es : ByPath(es \cup {e}) = ByPath(es) \cup {image}
  <2> TAKE es
  <2>1. {Image(f) : f \in es \cup {e}} = {Image(f) : f \in es} \cup {Image(e)}
    <3> HIDE DEF e, Image
    <3> QED OBVIOUS
  <2>2. Image(e) = image
    OBVIOUS
  <2> QED
    BY <2>1, <2>2 DEF ByPath
<1>1. {pathOf(from), pathOf(to)} \subseteq DOMAIN pathToId
  BY DEF NodesMatchPaths
<1>2. NodeId' = NodeId /\ paths' = paths /\ pathToId' = pathToId
  BY DEF addEdge, RepeatEdge, NewEdge, NodeId, nodeCount
<1>3. ByPath(edges \ conditionalEdges)' = ByPath(edges' \ conditionalEdges')
  BY <1>2 DEF ByPath, pathOf
<1>4. edges' = edges \cup {e}
  <2>1. CASE RepeatEdge(from, to, conditional)
    BY <1>2, <2>1 DEF RepeatEdge, edges, hasEdge
  <2>2. CASE NewEdge(from, to, conditional)
    BY <1>2, <2>2, NewEdgeEffect DEF edges, hasEdge
  <2> QED
    BY <2>1, <2>2 DEF addEdge
<1>5. edges' \ conditionalEdges' = IF conditional THEN edges \ conditionalEdges
                                                  ELSE (edges \ conditionalEdges) \cup {e}
  <2>1. CASE RepeatEdge(from, to, conditional)
    BY <1>4, <2>1 DEF RepeatEdge, edges, edge_key
  <2>2. CASE NewEdge(from, to, conditional)
    <3>1. e \notin edges /\ e \notin conditionalEdges
      BY <2>2 DEF NewEdge, edges, ConditionalEdgesExist, hasEdge
    <3> QED
      BY <1>4, <2>2, <3>1 DEF NewEdge, edge_key
  <2> QED
    BY <2>1, <2>2 DEF addEdge
<1>6. ByPath(edges)' = ByPath(edges) \cup {image}
  BY <1>0, <1>2, <1>4 DEF ByPath, pathOf
<1>7. ByPath(edges \ conditionalEdges)' =
        IF conditional THEN ByPath(edges \ conditionalEdges)
                       ELSE ByPath(edges \ conditionalEdges) \cup {image}
  BY <1>0, <1>3, <1>5
<1> QED
  BY <1>1, <1>2, <1>6, <1>7 DEF addEdge, Abstract!Include

\* A new node is one AddFile of the abstract graph.
LEMMA NodeIsFile ==
    ASSUME Inv, NEW p \in Path, AddNewNode(p), request' = <<p>>
    PROVE  Abstract!AddFile(p)
<1> USE DEF Inv
<1>1. DOMAIN pathToId' = DOMAIN pathToId \cup {p}
  BY DEF AddNewNode, With
<1>2. \A x : ~contains(<<>>, x)
  BY DEF contains
<1>3. \A a \in NodeId : ~contains(forward[a], nodeCount)
  <2>1. nodeCount \notin NodeId
    BY AddNewNodeEffect
  <2>2. \A a \in NodeId : forward[a] \in Seq(NodeId)
    BY DEF TypeOK
  <2> QED
    BY <2>1, <2>2 DEF contains
<1>4. edges' = edges /\ conditionalEdges' = conditionalEdges
  BY <1>2, <1>3, AddNewNodeEffect DEF edges, hasEdge
<1>5. \A e \in edges : paths'[e[1] + 1] = paths[e[1] + 1] /\ paths'[e[2] + 1] = paths[e[2] + 1]
  BY AddNewNodeEffect DEF edges
<1>6. ByPath(edges)' = ByPath(edges)
  BY <1>4, <1>5 DEF ByPath, pathOf
<1>7. ByPath(edges \ conditionalEdges)' = ByPath(edges \ conditionalEdges)
  BY <1>4, <1>5 DEF ByPath, pathOf
<1> QED
  BY <1>1, <1>6, <1>7 DEF Abstract!AddFile

\* Finding a node is an AddFile that adds nothing.
LEMMA FoundIsFile ==
    ASSUME NEW p \in Path, FindNode(p), request' = <<p>>
    PROVE  Abstract!AddFile(p)
<1>1. DOMAIN pathToId' = DOMAIN pathToId \cup {p}
  BY DEF FindNode, graph
<1>2. ByPath(edges)' = ByPath(edges)
  BY DEF FindNode, graph, edges, ByPath, pathOf, NodeId, nodeCount, hasEdge
<1>3. ByPath(edges \ conditionalEdges)' = ByPath(edges \ conditionalEdges)
  BY DEF FindNode, graph, edges, ByPath, pathOf, NodeId, nodeCount, hasEdge
<1> QED
  BY <1>1, <1>2, <1>3 DEF Abstract!AddFile

\* The graph of ids, vectors and two maps implements the abstract include graph.
THEOREM Refinement == Spec => ImplementsIncludeGraph
<1>1. Init => Abstract!Init
  BY DEF Init, Abstract!Init, edges, ByPath, NodeId, nodeCount, hasEdge
<1>2. Init => Inv
  BY DEF Init, Inv, TypeOK, NodesMatchPaths, ReverseMirrorsForward, ConditionalEdgesExist,
         NodeId, nodeCount
<1>3. Inv /\ [Next]_vars => [Abstract!Next]_Abstract!vars
  <2> SUFFICES ASSUME Inv, [Next]_vars PROVE [Abstract!Next]_Abstract!vars
    OBVIOUS
  <2>1. CASE \E p \in Path : (AddNewNode(p) \/ FindNode(p)) /\ request' = <<p>>
    BY <2>1, NodeIsFile, FoundIsFile DEF Abstract!Next
  <2>2. ASSUME NEW from \in NodeId, NEW to \in NodeId, NEW conditional \in BOOLEAN,
               addEdge(from, to, conditional)
        PROVE  Abstract!Next
    <3>1. pathOf(from) \in DOMAIN pathToId /\ pathOf(to) \in DOMAIN pathToId
      BY DEF Inv, NodesMatchPaths
    <3> QED
      BY <2>2, <3>1, EdgeIsInclude DEF Abstract!Next
  <2>3. CASE UNCHANGED vars
    BY <2>3 DEF vars, graph, Abstract!vars, edges, ByPath, pathOf, NodeId, nodeCount, hasEdge
  <2> QED
    BY <2>1, <2>2, <2>3, StepCases
<1> QED
  BY <1>1, <1>2, <1>3, InvStep, PTL DEF Spec, ImplementsIncludeGraph, Abstract!Spec
=============================================================================
