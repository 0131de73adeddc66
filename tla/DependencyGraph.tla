-------------------------- MODULE DependencyGraph --------------------------
(***************************************************************************)
(* graph::DependencyGraph (src/src/graph/dependency_graph.cpp): the include *)
(* graph that every analysis reads.  Nodes are ids 0, 1, 2, ... handed out  *)
(* in the order of addNode; a path is normalised before it is looked up.    *)
(* Edges live in two adjacency maps, forward_ and reverse_, and a set of    *)
(* keys marks the edges all of whose #includes are conditional.  An id that *)
(* has no entry in a map has no neighbours; here it has an empty list.      *)
(*                                                                         *)
(* A spelling of a path is a record: how many "./" it begins with, which    *)
(* separator it uses, and the file it names after normalisation.            *)
(***************************************************************************)
EXTENDS Naturals, Sequences

CONSTANTS
    File,               \* the files the spellings may name
    DotSlashes          \* how many leading "./" a spelling may have

ASSUME DotSlashesAssumption == DotSlashes \subseteq Nat /\ 0 \in DotSlashes

VARIABLES
    paths,              \* paths_: node id (0-based) -> normalised path
    pathToId,           \* pathToId_: normalised path -> node id
    forward,            \* forward_: node id -> its successors, oldest first
    reverse,            \* reverse_: node id -> its predecessors, oldest first
    conditionalEdges,   \* conditionalEdges_: the keys of conditional edges
    request             \* history: the last call, by path

graph == <<paths, pathToId, forward, reverse, conditionalEdges>>
vars == <<graph, request>>

Spelling == [dots : DotSlashes, separator : {"/", "\\"}, file : File]
PathOf(f) == [dots |-> 0, separator |-> "/", file |-> f]
Path == {PathOf(f) : f \in File}

\* Mutant: "./" is stripped before '\' is replaced, so ".\" stays.
normalize_pathLate(s) ==
    [s EXCEPT !.dots = IF s.separator = "/" THEN 0 ELSE @, !.separator = "/"]

\* Every '\' becomes '/', then every leading "./" goes.
normalize_path(s) == [s EXCEPT !.dots = 0, !.separator = "/"]

nodeCount == Len(paths)
NodeId == 0 .. nodeCount - 1
pathOf(id) == paths[id + 1]
edge_key(from, to) == <<from, to>>
contains(neighbors, id) == \E i \in DOMAIN neighbors : neighbors[i] = id
hasEdge(from, to) == contains(forward[from], to)
isConditionalEdge(from, to) == edge_key(from, to) \in conditionalEdges

Init ==
    /\ paths = <<>>
    /\ pathToId = <<>>
    /\ forward = <<>>
    /\ reverse = <<>>
    /\ conditionalEdges = {}
    /\ request = <<>>

\* A map that also sends the new key k to v.
With(map, k, v) == [x \in DOMAIN map \cup {k} |-> IF x = k THEN v ELSE map[x]]

\* Mutant: the path is not looked up first.
AddNewNodeAlways(p) ==
    /\ paths' = Append(paths, p)
    /\ pathToId' = With(pathToId, p, nodeCount)
    /\ forward' = With(forward, nodeCount, <<>>)
    /\ reverse' = With(reverse, nodeCount, <<>>)
    /\ UNCHANGED conditionalEdges

AddNewNode(p) ==
    /\ p \notin DOMAIN pathToId
    /\ paths' = Append(paths, p)
    /\ pathToId' = With(pathToId, p, nodeCount)
    /\ forward' = With(forward, nodeCount, <<>>)
    /\ reverse' = With(reverse, nodeCount, <<>>)
    /\ UNCHANGED conditionalEdges

\* addNode of a path that is already there returns its id and changes nothing.
FindNode(p) == p \in DOMAIN pathToId /\ UNCHANGED graph

addNode(s) ==
    /\ LET p == normalize_path(s) IN FindNode(p) \/ AddNewNode(p)
    /\ request' = <<PathOf(s.file)>>

\* Mutant: a repeated edge is ignored, unconditional or not.
RepeatEdgeIgnored(from, to, conditional) ==
    hasEdge(from, to) /\ UNCHANGED graph

RepeatEdge(from, to, conditional) ==
    /\ hasEdge(from, to)
    /\ conditionalEdges' = IF conditional
                           THEN conditionalEdges
                           ELSE conditionalEdges \ {edge_key(from, to)}
    /\ UNCHANGED <<paths, pathToId, forward, reverse>>

\* Mutant: reverse_ of the wrong end.
NewEdgeWrongEnd(from, to, conditional) ==
    /\ ~hasEdge(from, to)
    /\ forward' = [forward EXCEPT ![from] = Append(@, to)]
    /\ reverse' = [reverse EXCEPT ![from] = Append(@, to)]
    /\ conditionalEdges' = IF conditional
                           THEN conditionalEdges \cup {edge_key(from, to)}
                           ELSE conditionalEdges
    /\ UNCHANGED <<paths, pathToId>>
NewEdge(from, to, conditional) ==
    /\ ~hasEdge(from, to)
    /\ forward' = [forward EXCEPT ![from] = Append(@, to)]
    /\ reverse' = [reverse EXCEPT ![to] = Append(@, from)]
    /\ conditionalEdges' = IF conditional
                           THEN conditionalEdges \cup {edge_key(from, to)}
                           ELSE conditionalEdges
    /\ UNCHANGED <<paths, pathToId>>

addEdge(from, to, conditional) ==
    /\ RepeatEdge(from, to, conditional) \/ NewEdge(from, to, conditional)
    /\ request' = <<pathOf(from), pathOf(to), conditional>>

\* Callers pass addEdge only ids that addNode returned.
Next ==
    \/ \E s \in Spelling : addNode(s)
    \/ \E from, to \in NodeId, conditional \in BOOLEAN :
            addEdge(from, to, conditional)

Spec == Init /\ [][Next]_vars
-----------------------------------------------------------------------------
(* Properties *)

TypeOK ==
    /\ paths \in Seq(Path)
    /\ DOMAIN pathToId \subseteq Path
    /\ \A p \in DOMAIN pathToId : pathToId[p] \in NodeId
    /\ forward \in [NodeId -> Seq(NodeId)]
    /\ reverse \in [NodeId -> Seq(NodeId)]
    /\ conditionalEdges \subseteq NodeId \X NodeId
    /\ request \in {<<>>} \cup {<<p>> : p \in Path} \cup (Path \X Path \X BOOLEAN)

\* pathToId_ and paths_ are inverse to each other: addNode never makes a
\* second node of a file that is spelled differently, and never loses one.
NodesMatchPaths ==
    /\ \A id \in NodeId : pathOf(id) \in DOMAIN pathToId /\ pathToId[pathOf(id)] = id
    /\ \A p \in DOMAIN pathToId : pathOf(pathToId[p]) = p

\* forward_ and reverse_ describe the same edges, each edge once in either:
\* computeFanIn, which counts successors, agrees with predecessors(), which
\* is what dependents are listed from.
Distinct(s) == \A i, j \in DOMAIN s : s[i] = s[j] => i = j
ReverseMirrorsForward ==
    \A a, b \in NodeId :
        /\ contains(forward[a], b) <=> contains(reverse[b], a)
        /\ Distinct(forward[a]) /\ Distinct(reverse[a])

\* Only an edge of the graph is ever marked conditional.
ConditionalEdgesExist ==
    \A e \in conditionalEdges : hasEdge(e[1], e[2])

\* An id keeps naming its path, and an edge once found unconditional is never
\* marked conditional again, whatever is added later and in whatever order.
\* The id maps of graph_builder.cpp and baseline.cpp rely on the first part.
NodesAndHardEdgesArePermanent ==
    [][ /\ \A id \in NodeId : id + 1 \in DOMAIN paths' /\ paths'[id + 1] = pathOf(id)
        /\ \A a, b \in NodeId :
             hasEdge(a, b) /\ ~isConditionalEdge(a, b)
                => contains(forward'[a], b) /\ edge_key(a, b) \notin conditionalEdges' ]_vars

\* The graph implements the abstract include graph: an edge exists exactly
\* when an #include was seen, and it is conditional exactly when no #include
\* of it was unconditional, in whatever order the #includes were added.  No
\* call is lost: each is a step of the abstract graph for the same request.
edges == {e \in NodeId \X NodeId : hasEdge(e[1], e[2])}
ByPath(es) == {<<pathOf(e[1]), pathOf(e[2])>> : e \in es}
Abstract == INSTANCE IncludeGraph WITH
                File <- Path,
                files <- DOMAIN pathToId,
                included <- ByPath(edges),
                unconditional <- ByPath(edges \ conditionalEdges)
ImplementsIncludeGraph == Abstract!Spec
=============================================================================
