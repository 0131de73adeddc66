------------------------ MODULE CheckCommand_proofs ------------------------
(***************************************************************************)
(* Proofs about CheckCommand: what the gates of `archcheck <path>` and the  *)
(* two saved baselines promise, for projects of every size.                 *)
(***************************************************************************)
EXTENDS CheckCommand, GraphDiff_proofs

\* What a save of the violations leaves in a file that can be read.
ViolationFileInv ==
    violationFile.status = "readable" =>
        LET p == violationFile.of[1]
            found == violationFile.of[2]
        IN  /\ IsProject(p) /\ found \subseteq Issue
            /\ violationFile.of = <<p, found>>
            /\ violationFile.whole = violationsIn(p, found)
            /\ \E n \in 0 .. Len(violationFile.whole) :
                   violationFile.content = SubSeq(violationFile.whole, 1, n)

\* What a save of the graph leaves in a file that can be read.
GraphFileInv ==
    graphFile.status = "readable" =>
        LET p == graphFile.of[1]
            nodes == sorted_node_paths(graphOf(p))
            edges == remapped_sorted_edges(graphOf(p), nodes)
        IN  /\ IsProject(p) /\ graphFile.of = <<p, graphFile.of[2]>>
            /\ graphFile.whole = <<nodes, edges>>
            /\ \E n \in 0 .. Len(edges) : graphFile.content = <<nodes, SubSeq(edges, 1, n)>>

\* What a run reported is what the project and the files say.
RunInv ==
    /\ run.mode = "check" =>
         /\ run.findings = ToSet(checkViolations)
         /\ \E failOnUnresolvedLocal \in BOOLEAN :
                run.exitCode = CheckExit(run.findings, failOnUnresolvedLocal)
    /\ run.mode = "baseline" /\ violationFile.status = "readable" =>
         /\ run.findings = filterNew(ToSet(checkViolations), ToSet(violationFile.content))
         /\ run.exitCode = CheckExit(run.findings, FALSE)
    /\ run.mode = "drift" /\ graphFile.status = "readable" =>
         /\ run.findings = ToSet(checkViolations)
         /\ run.drift = DriftFindings(assemble_graph(graphFile.content), graphOf(project))
         /\ run.exitCode = DriftExit(run.drift)
    /\ run.mode = "baseline" /\ violationFile.status # "readable" => run.exitCode = 2
    /\ run.mode = "drift" /\ graphFile.status # "readable" => run.exitCode = 2

IInv ==
    /\ IsProject(project) /\ issues \subseteq Issue
    /\ ViolationFileInv /\ GraphFileInv /\ RunInv
-----------------------------------------------------------------------------
(* Sorted lists.                                                           *)

\* A list with an element of every rank in a strict total order holds all the
\* elements, each of them once.
LEMMA RankedList ==
    ASSUME NEW T, IsFiniteSet(T), NEW below \in [T -> SUBSET T],
           \A a, b, c \in T : a \in below[b] /\ b \in below[c] => a \in below[c],
           \A a \in T : a \notin below[a],
           \A a, b \in T : a = b \/ a \in below[b] \/ b \in below[a],
           NEW s,
           (\A i \in 1 .. Cardinality(T) : \E a \in T : Cardinality(below[a]) = i - 1)
              => /\ s \in [1 .. Cardinality(T) -> T]
                 /\ \A i \in 1 .. Cardinality(T) : Cardinality(below[s[i]]) = i - 1
    PROVE  s \in Seq(T) /\ IsInjective(s) /\ ToSet(s) = T
<1> DEFINE n == Cardinality(T)
           rank == [a \in T |-> Cardinality(below[a])]
<1>1. \A a \in T : rank[a] = Cardinality(below[a])
  OBVIOUS
<1> HIDE DEF rank
<1>2. n \in Nat /\ \A i \in 1 .. n : \E a \in T : rank[a] = i - 1
  BY <1>1, Ranks
<1>3. s \in [1 .. n -> T]
  BY <1>1, <1>2
<1>4. \A i \in 1 .. n : s[i] \in T /\ rank[s[i]] = i - 1
  BY <1>1, <1>2, <1>3
<1>5. \A i, j \in 1 .. n : s[i] = s[j] => i = j
  <2> SUFFICES ASSUME NEW i \in 1 .. n, NEW j \in 1 .. n, s[i] = s[j] PROVE i = j
    OBVIOUS
  <2>1. i \in Int /\ j \in Int /\ i - 1 = j - 1
    BY <1>2, <1>4
  <2> QED
    BY <2>1
<1>6. \A i, j \in 1 .. n : i < j => s[i] # s[j]
  <2> SUFFICES ASSUME NEW i \in 1 .. n, NEW j \in 1 .. n, i < j, s[i] = s[j] PROVE FALSE
    OBVIOUS
  <2>1. i \in Int /\ i = j
    BY <1>2, <1>5
  <2> QED
    BY <2>1
<1>7. \A a \in T : \E i \in 1 .. n : s[i] = a
  <2>1. IsFiniteSet(T) /\ s \in [1 .. Cardinality(T) -> T]
    BY <1>3
  <2>2. \A i, j \in 1 .. Cardinality(T) : i < j => s[i] # s[j]
    BY <1>6
  <2>3. \A a \in T : \E i \in 1 .. Cardinality(T) : s[i] = a
    BY ONLY <2>1, <2>2, SortedIsOnto
  <2> QED
    BY <2>3
<1> HIDE DEF n
<1>8. DOMAIN s = 1 .. n
  BY <1>3
<1>9. s \in Seq(T)
  BY <1>2, <1>3
<1>10. ToSet(s) = T
  BY <1>4, <1>7, <1>8 DEF ToSet
<1> QED
  BY <1>5, <1>8, <1>9, <1>10 DEF IsInjective

\* sorted_node_paths, and the names in the order of a list of findings.
LEMMA SortedNumbers ==
    ASSUME NEW T \in SUBSET Nat, IsFiniteSet(T)
    PROVE  Sorted(T) \in Seq(T) /\ IsInjective(Sorted(T)) /\ ToSet(Sorted(T)) = T
<1> DEFINE below == [a \in T |-> {d \in T : d < a}]
           s == Sorted(T)
<1>1. below \in [T -> SUBSET T]
  OBVIOUS
<1>2. \A a, b \in T : a \in below[b] <=> a < b
  OBVIOUS
<1>3. ASSUME \A i \in 1 .. Cardinality(T) : \E a \in T : Cardinality(below[a]) = i - 1
      PROVE  /\ s \in [1 .. Cardinality(T) -> T]
             /\ \A i \in 1 .. Cardinality(T) : Cardinality(below[s[i]]) = i - 1
  <2>1. ASSUME NEW i \in 1 .. Cardinality(T)
        PROVE  s[i] \in T /\ Cardinality(below[s[i]]) = i - 1
    <3>1. PICK a \in T : Cardinality(below[a]) = i - 1
      BY <1>3
    <3>2. \A x \in T : below[x] = {y \in T : y < x}
      OBVIOUS
    <3> HIDE DEF below, s
    <3>3. Cardinality({y \in T : y < a}) = i - 1
      BY <3>1, <3>2
    <3>4. s[i] = CHOOSE x \in T : Cardinality({y \in T : y < x}) = i - 1
      BY DEF s, Sorted
    <3>5. s[i] \in T /\ Cardinality({y \in T : y < s[i]}) = i - 1
      BY <3>3, <3>4
    <3> QED
      BY <3>2, <3>5
  <2> QED
    BY <2>1 DEF Sorted
<1> HIDE DEF below, s
<1>4. \A a, b, c \in T : a \in below[b] /\ b \in below[c] => a \in below[c]
  BY <1>2
<1>5. \A a \in T : a \notin below[a]
  BY <1>2
<1>6. \A a, b \in T : a = b \/ a \in below[b] \/ b \in below[a]
  BY <1>2
<1>7. s \in Seq(T) /\ IsInjective(s) /\ ToSet(s) = T
  BY <1>1, <1>3, <1>4, <1>5, <1>6, RankedList
<1> QED
  BY <1>7 DEF s

\* remapped_sorted_edges: pairs in lexicographic order.
LEMMA SortedPairsOfNumbers ==
    ASSUME NEW T \in SUBSET (Nat \X Nat), IsFiniteSet(T)
    PROVE  SortedPairs(T) \in Seq(T) /\ ToSet(SortedPairs(T)) = T
<1> DEFINE below == [a \in T |-> {d \in T : Precedes(d, a)}]
           s == SortedPairs(T)
<1>1. below \in [T -> SUBSET T]
  OBVIOUS
<1>2. \A a, b \in T : a \in below[b] <=> Precedes(a, b)
  OBVIOUS
<1>3. ASSUME \A i \in 1 .. Cardinality(T) : \E a \in T : Cardinality(below[a]) = i - 1
      PROVE  /\ s \in [1 .. Cardinality(T) -> T]
             /\ \A i \in 1 .. Cardinality(T) : Cardinality(below[s[i]]) = i - 1
  <2>1. ASSUME NEW i \in 1 .. Cardinality(T)
        PROVE  s[i] \in T /\ Cardinality(below[s[i]]) = i - 1
    <3>1. PICK a \in T : Cardinality(below[a]) = i - 1
      BY <1>3
    <3>2. \A x \in T : below[x] = {y \in T : Precedes(y, x)}
      OBVIOUS
    <3> HIDE DEF below, s
    <3>3. Cardinality({y \in T : Precedes(y, a)}) = i - 1
      BY <3>1, <3>2
    <3>4. s[i] = CHOOSE x \in T : Cardinality({y \in T : Precedes(y, x)}) = i - 1
      BY DEF s, SortedPairs
    <3>5. s[i] \in T /\ Cardinality({y \in T : Precedes(y, s[i])}) = i - 1
      BY <3>3, <3>4
    <3> QED
      BY <3>2, <3>5
  <2> QED
    BY <2>1 DEF SortedPairs
<1> HIDE DEF below, s
<1>4. \A a \in T : a = <<a[1], a[2]>> /\ a[1] \in Nat /\ a[2] \in Nat
  OBVIOUS
<1>5. \A a, b, c \in T : a \in below[b] /\ b \in below[c] => a \in below[c]
  <2> SUFFICES ASSUME NEW a \in T, NEW b \in T, NEW c \in T, Precedes(a, b), Precedes(b, c)
               PROVE  Precedes(a, c)
    BY <1>2
  <2>1. \A x \in {a, b, c} : x[1] \in Nat /\ x[2] \in Nat
    BY <1>4
  <2> QED
    BY <2>1 DEF Precedes
<1>6. \A a \in T : a \notin below[a]
  BY <1>2, <1>4 DEF Precedes
<1>7. \A a, b \in T : a = b \/ a \in below[b] \/ b \in below[a]
  <2> SUFFICES ASSUME NEW a \in T, NEW b \in T, a # b PROVE Precedes(a, b) \/ Precedes(b, a)
    BY <1>2
  <2>1. \A x \in {a, b} : x = <<x[1], x[2]>> /\ x[1] \in Nat /\ x[2] \in Nat
    BY <1>4
  <2>2. a[1] # b[1] \/ a[2] # b[2]
    BY <2>1
  <2> QED
    BY <2>1, <2>2 DEF Precedes
<1>8. s \in Seq(T) /\ ToSet(s) = T
  BY <1>1, <1>3, <1>5, <1>6, <1>7, RankedList
<1> QED
  BY <1>8 DEF s
-----------------------------------------------------------------------------
(* The graph baseline file.                                                *)

\* The include graph of a project is a finite graph over the paths.
LEMMA ProjectGraph ==
    ASSUME NEW p, IsProject(p)
    PROVE  /\ graphOf(p).nodes = p.nodes /\ graphOf(p).edges = EdgesOf(p)
           /\ EdgesOf(p) \subseteq p.nodes \X p.nodes
           /\ graphOf(p) = [nodes |-> p.nodes, edges |-> EdgesOf(p)]
           /\ FiniteGraph(graphOf(p))
<1>1. p.nodes \in SUBSET Path
  BY DEF IsProject
<1>2. IsFiniteSet(p.nodes) /\ p.nodes \subseteq Nat
  BY <1>1, PathAssumption, FS_Subset
<1> QED
  BY <1>2 DEF graphOf, EdgesOf, FiniteGraph

\* A path has a position in the list of nodes.
LEMMA PositionOfNode ==
    ASSUME NEW nodes, NEW T, nodes \in Seq(T), NEW x \in ToSet(nodes)
    PROVE  IndexOf(nodes, x) \in 1 .. Len(nodes) /\ nodes[IndexOf(nodes, x)] = x
<1>1. DOMAIN nodes = 1 .. Len(nodes)
  OBVIOUS
<1>2. \E i \in DOMAIN nodes : nodes[i] = x
  BY DEF ToSet
<1> QED
  BY <1>1, <1>2 DEF IndexOf

\* What a file with the first n edges is loaded as.
LEMMA LoadedGraph ==
    ASSUME NEW p, IsProject(p),
           NEW nodes, nodes = sorted_node_paths(graphOf(p)),
           NEW edges, edges = remapped_sorted_edges(graphOf(p), nodes)
    PROVE  /\ edges \in Seq(Nat \X Nat)
           /\ assemble_graph(<<nodes, edges>>) = graphOf(p)
           /\ \A n \in 0 .. Len(edges) :
                LET part == assemble_graph(<<nodes, SubSeq(edges, 1, n)>>)
                IN  /\ part.nodes = p.nodes /\ part.edges \subseteq EdgesOf(p)
                    /\ FiniteGraph(part)
<1> DEFINE E == EdgesOf(p)
           N == p.nodes
           S == {<<IndexOf(nodes, e[1]) - 1, IndexOf(nodes, e[2]) - 1>> : e \in E}
           at(x) == <<nodes[x[1] + 1], nodes[x[2] + 1]>>
<1>1. /\ graphOf(p) = [nodes |-> N, edges |-> E] /\ FiniteGraph(graphOf(p))
      /\ N \in SUBSET Nat /\ IsFiniteSet(N) /\ E \subseteq N \X N
  BY ProjectGraph DEF FiniteGraph
<1>2. nodes \in Seq(N) /\ ToSet(nodes) = N
  BY <1>1, SortedNumbers DEF sorted_node_paths
<1>3. edges = SortedPairs(S)
  BY <1>1 DEF remapped_sorted_edges
<1> HIDE DEF E, N
<1>4. Len(nodes) \in Nat
  BY <1>2
<1>5. ASSUME NEW e \in E
      PROVE  LET x == <<IndexOf(nodes, e[1]) - 1, IndexOf(nodes, e[2]) - 1>>
             IN  x \in (0 .. Len(nodes)) \X (0 .. Len(nodes)) /\ at(x) = e
  <2>1. e = <<e[1], e[2]>> /\ e[1] \in N /\ e[2] \in N
    BY <1>1
  <2> DEFINE i == IndexOf(nodes, e[1])
             j == IndexOf(nodes, e[2])
  <2>2. i \in 1 .. Len(nodes) /\ j \in 1 .. Len(nodes) /\ nodes[i] = e[1] /\ nodes[j] = e[2]
    BY <1>2, <2>1, PositionOfNode
  <2> HIDE DEF i, j
  <2>3. i - 1 + 1 = i /\ j - 1 + 1 = j /\ i - 1 \in 0 .. Len(nodes) /\ j - 1 \in 0 .. Len(nodes)
    BY <1>4, <2>2
  <2>4. at(<<i - 1, j - 1>>) = e
    BY <2>1, <2>2, <2>3
  <2> QED
    BY <2>3, <2>4 DEF i, j
<1> HIDE DEF at
<1>6. S \in SUBSET ((0 .. Len(nodes)) \X (0 .. Len(nodes)))
  BY <1>5
<1>7. IsFiniteSet(0 .. Len(nodes))
  BY <1>4, FS_Interval
<1>8. IsFiniteSet(S)
  <2>1. IsFiniteSet((0 .. Len(nodes)) \X (0 .. Len(nodes)))
    BY <1>7, FS_Product
  <2> QED
    BY <1>6, <2>1, FS_Subset
<1>9. S \in SUBSET (Nat \X Nat)
  BY <1>4, <1>6
<1>10. edges \in Seq(S) /\ ToSet(edges) = S
  BY <1>3, <1>8, <1>9, SortedPairsOfNumbers
<1>11. \A x \in S : at(x) \in E
  BY <1>5
<1>12. \A e \in E : \E x \in S : at(x) = e
  BY <1>5
<1> HIDE DEF S
<1>13. assemble_graph(<<nodes, edges>>) = graphOf(p)
  <2>1. {at(x) : x \in S} = E
    BY <1>11, <1>12
  <2> QED
    BY <1>1, <1>2, <1>10, <2>1 DEF assemble_graph, at
<1>14. ASSUME NEW n \in 0 .. Len(edges)
       PROVE  LET part == assemble_graph(<<nodes, SubSeq(edges, 1, n)>>)
              IN  part.nodes = N /\ part.edges \subseteq E /\ FiniteGraph(part)
  <2> DEFINE part == assemble_graph(<<nodes, SubSeq(edges, 1, n)>>)
  <2>1. \A k \in DOMAIN SubSeq(edges, 1, n) : SubSeq(edges, 1, n)[k] \in S
    BY <1>10
  <2>2. ToSet(SubSeq(edges, 1, n)) \subseteq S
    BY <2>1 DEF ToSet
  <2>3. part.nodes = N /\ part.edges = {at(x) : x \in ToSet(SubSeq(edges, 1, n))}
    BY <1>2 DEF assemble_graph, at
  <2> HIDE DEF part
  <2>4. part.edges \subseteq E
    BY <1>11, <2>2, <2>3
  <2>5. FiniteGraph(part)
    BY <1>1, <2>3, <2>4 DEF FiniteGraph
  <2> QED
    BY <2>3, <2>4, <2>5 DEF part
<1>15. edges \in Seq(Nat \X Nat)
  BY <1>9, <1>10
<1> QED
  BY <1>13, <1>14, <1>15 DEF E, N
-----------------------------------------------------------------------------
(* The list of the violations.                                             *)

\* A prefix of a list holds no other elements.
LEMMA PrefixInside ==
    ASSUME NEW T, NEW s \in Seq(T), NEW n \in 0 .. Len(s)
    PROVE  ToSet(SubSeq(s, 1, n)) \subseteq ToSet(s)
<1>1. \A i \in DOMAIN SubSeq(s, 1, n) : i \in DOMAIN s /\ SubSeq(s, 1, n)[i] = s[i]
  OBVIOUS
<1> QED
  BY <1>1 DEF ToSet

\* Two lists one after the other hold what each of them holds.
LEMMA ConcatHolds ==
    ASSUME NEW T, NEW s \in Seq(T), NEW t \in Seq(T)
    PROVE  s \o t \in Seq(T) /\ ToSet(s \o t) = ToSet(s) \cup ToSet(t)
<1>1. /\ s \o t \in Seq(T) /\ Len(s \o t) = Len(s) + Len(t)
      /\ \A i \in 1 .. Len(s) + Len(t) :
             (s \o t)[i] = IF i <= Len(s) THEN s[i] ELSE t[i - Len(s)]
  BY ConcatProperties
<1>2. /\ DOMAIN s = 1 .. Len(s) /\ DOMAIN t = 1 .. Len(t)
      /\ DOMAIN (s \o t) = 1 .. Len(s) + Len(t)
      /\ Len(s) \in Nat /\ Len(t) \in Nat
  BY <1>1
<1>3. ASSUME NEW i \in DOMAIN (s \o t)
      PROVE  \/ \E j \in DOMAIN s : s[j] = (s \o t)[i]
             \/ \E j \in DOMAIN t : t[j] = (s \o t)[i]
  <2>1. CASE i <= Len(s)
    BY <1>1, <1>2, <2>1
  <2>2. CASE i > Len(s)
    <3>1. i - Len(s) \in DOMAIN t /\ (s \o t)[i] = t[i - Len(s)]
      BY <1>1, <1>2, <2>2
    <3> QED
      BY <3>1
  <2> QED
    BY <1>2, <2>1, <2>2
<1>4. \A j \in DOMAIN s : j \in DOMAIN (s \o t) /\ (s \o t)[j] = s[j]
  BY <1>1, <1>2
<1>5. ASSUME NEW j \in DOMAIN t PROVE \E i \in DOMAIN (s \o t) : (s \o t)[i] = t[j]
  <2>1. /\ j + Len(s) \in 1 .. Len(s) + Len(t) /\ ~(j + Len(s) <= Len(s))
        /\ j + Len(s) - Len(s) = j
    BY <1>2
  <2> QED
    BY <1>1, <1>2, <2>1
<1>6. ToSet(s \o t) \subseteq ToSet(s) \cup ToSet(t)
  BY <1>3 DEF ToSet
<1>7. ToSet(s) \subseteq ToSet(s \o t)
  BY <1>4 DEF ToSet
<1>8. ToSet(t) \subseteq ToSet(s \o t)
  BY <1>5 DEF ToSet
<1>9. s \o t \in Seq(T)
  BY <1>1
<1> QED
  BY <1>6, <1>7, <1>8, <1>9

\* The findings of one rule, at the files that it names.
At(rule, files) == {[rule |-> rule, file |-> f, line |-> 0] : f \in files}

LEMMA AtFileHolds ==
    ASSUME NEW rule, NEW files \in SUBSET Path
    PROVE  /\ AtFile(rule, files) \in Seq(At(rule, files))
           /\ ToSet(AtFile(rule, files)) = At(rule, files)
<1>1. files \in SUBSET Nat /\ IsFiniteSet(files)
  BY PathAssumption, FS_Subset
<1>2. Cardinality(files) \in Nat
  BY <1>1, FS_CardinalityType
<1> DEFINE s == Sorted(files)
           n == Cardinality(files)
<1>3. s \in Seq(files) /\ ToSet(s) = files
  BY <1>1, SortedNumbers
<1>4. DOMAIN s = 1 .. n
  BY DEF Sorted
<1>5. AtFile(rule, files) = [i \in 1 .. n |-> [rule |-> rule, file |-> s[i], line |-> 0]]
  BY DEF AtFile
<1> HIDE DEF s, n
<1>6. \A i \in 1 .. n : s[i] \in files
  BY <1>3, <1>4 DEF ToSet
<1>7. \A f \in files : \E i \in 1 .. n : s[i] = f
  BY <1>3, <1>4 DEF ToSet
<1>8. AtFile(rule, files) \in [1 .. n -> At(rule, files)]
  BY <1>5, <1>6 DEF At
<1>9. AtFile(rule, files) \in Seq(At(rule, files))
  BY <1>2, <1>8 DEF n
<1>10. ToSet(AtFile(rule, files)) \subseteq At(rule, files)
  BY <1>8 DEF ToSet
<1>11. ASSUME NEW v \in At(rule, files) PROVE v \in ToSet(AtFile(rule, files))
  <2>1. PICK f \in files : v = [rule |-> rule, file |-> f, line |-> 0]
    BY DEF At
  <2>2. PICK i \in 1 .. n : s[i] = f
    BY <1>7
  <2>3. AtFile(rule, files)[i] = v /\ i \in DOMAIN AtFile(rule, files)
    BY <1>5, <2>1, <2>2
  <2> QED
    BY <2>3 DEF ToSet
<1> QED
  BY <1>9, <1>10, <1>11

\* A list of a finite set.
LEMMA SetToSeqHolds ==
    ASSUME NEW T, IsFiniteSet(T)
    PROVE  SetToSeq(T) \in Seq(T) /\ ToSet(SetToSeq(T)) = T
<1> DEFINE n == Cardinality(T)
           s == SetToSeq(T)
<1>1. n \in Nat /\ ExistsBijection(1 .. n, T)
  BY FS_CardinalityType
<1>2. \E f \in [1 .. n -> T] : IsInjective(f)
  BY <1>1 DEF ExistsBijection, Bijection, Injection
<1>3. s \in [1 .. n -> T] /\ IsInjective(s)
  BY <1>2 DEF SetToSeq
<1> HIDE DEF s
<1>4. \A i, j \in 1 .. n : i < j => s[i] # s[j]
  <2> SUFFICES ASSUME NEW i \in 1 .. n, NEW j \in 1 .. n, i < j, s[i] = s[j] PROVE FALSE
    OBVIOUS
  <2>1. i = j /\ i \in Int
    BY <1>1, <1>3 DEF IsInjective
  <2> QED
    BY <2>1
<1>5. \A a \in T : \E i \in 1 .. n : s[i] = a
  BY <1>3, <1>4, SortedIsOnto
<1> HIDE DEF n
<1>6. s \in Seq(T) /\ ToSet(s) = T
  BY <1>1, <1>3, <1>5 DEF ToSet
<1> QED
  BY <1>6 DEF s

\* What Sf9NoCycles and the Lakos rules name are files of the project.
LEMMA RulesNameFiles ==
    ASSUME NEW p, IsProject(p)
    PROVE  /\ {FrontOf(s) : s \in Sf9NoCycles(p)} \in SUBSET Path
           /\ LakosGodHeaders(p) \in SUBSET Path
           /\ LakosChainLength(p) \in SUBSET Path
<1>1. p.nodes \in SUBSET Path /\ Path \in SUBSET Nat
  BY PathAssumption DEF IsProject
<1>2. ASSUME NEW s \in Sf9NoCycles(p) PROVE FrontOf(s) \in Path
  <2>1. s \in nontrivial_sccs(graphOf(p)) /\ FiniteGraph(graphOf(p)) /\ graphOf(p).nodes = p.nodes
    BY ProjectGraph DEF Sf9NoCycles
  <2>2. s \subseteq p.nodes /\ s # {}
    BY <2>1, NontrivialScc
  <2>3. \E q \in s : \A r \in s : q <= r
    BY <1>1, <2>2, LeastNatural
  <2> QED
    BY <1>1, <2>2, <2>3 DEF FrontOf
<1>3. LakosGodHeaders(p) \in SUBSET Path
  BY <1>1, ProjectGraph DEF LakosGodHeaders, GodHeaders
<1>4. LakosChainLength(p) \in SUBSET Path
  <2> SUFFICES ASSUME NEW c \in Chains(p.nodes, EdgesOf(p)) PROVE c[1] \subseteq p.nodes
    BY <1>1 DEF LakosChainLength
  <2> DEFINE components == Sccs(p.nodes, EdgesOf(p))
  <2>1. PICK n \in 1 .. Cardinality(components) : c \in [1 .. n -> components]
    BY DEF Chains
  <2>2. 1 \in 1 .. n
    BY <2>1
  <2>3. c[1] \in components
    BY <2>1, <2>2
  <2> QED
    BY <2>3, SccsPartition
<1> QED
  BY <1>2, <1>3, <1>4

\* checkViolations is a list of the findings of the three graph rules and of
\* the text rules.
Sf9Findings(p) == At("SF.9", {FrontOf(s) : s \in Sf9NoCycles(p)})
LakosFindings(p) ==
    At("Lakos.GodHeader", LakosGodHeaders(p)) \cup At("Lakos.ChainLength", LakosChainLength(p))
AllFindings(p, found) == Sf9Findings(p) \cup LakosFindings(p) \cup found

LEMMA ViolationsHold ==
    ASSUME NEW p, IsProject(p), NEW found \in SUBSET Issue
    PROVE  /\ violationsIn(p, found) \in Seq(AllFindings(p, found))
           /\ ToSet(violationsIn(p, found)) = AllFindings(p, found)
<1> DEFINE A == At("SF.9", {FrontOf(s) : s \in Sf9NoCycles(p)})
           B == At("Lakos.GodHeader", LakosGodHeaders(p))
           C == At("Lakos.ChainLength", LakosChainLength(p))
           U == A \cup B \cup C \cup found
           a == AtFile("SF.9", {FrontOf(s) : s \in Sf9NoCycles(p)})
           b == AtFile("Lakos.GodHeader", LakosGodHeaders(p))
           c == AtFile("Lakos.ChainLength", LakosChainLength(p))
           d == SetToSeq(found)
<1>1. a \in Seq(A) /\ b \in Seq(B) /\ c \in Seq(C)
  BY RulesNameFiles, AtFileHolds
<1>2. ToSet(a) = A /\ ToSet(b) = B /\ ToSet(c) = C
  BY RulesNameFiles, AtFileHolds
<1>3. d \in Seq(found) /\ ToSet(d) = found
  BY IssueAssumption, FS_Subset, SetToSeqHolds
<1>4. violationsIn(p, found) = ((a \o b) \o c) \o d
  BY DEF violationsIn
<1> HIDE DEF A, B, C, a, b, c, d
<1>5. a \in Seq(U) /\ b \in Seq(U) /\ c \in Seq(U) /\ d \in Seq(U)
  BY <1>1, <1>3
<1> HIDE DEF U
<1>6. a \o b \in Seq(U) /\ ToSet(a \o b) = A \cup B
  BY <1>2, <1>5, ConcatHolds
<1> DEFINE ab == a \o b
<1>7. ab \in Seq(U) /\ ToSet(ab) = A \cup B
  BY <1>6
<1> HIDE DEF ab
<1>8. ab \o c \in Seq(U) /\ ToSet(ab \o c) = A \cup B \cup C
  BY <1>2, <1>5, <1>7, ConcatHolds
<1> DEFINE abc == ab \o c
<1>9. abc \in Seq(U) /\ ToSet(abc) = A \cup B \cup C
  BY <1>8
<1> HIDE DEF abc
<1>10. abc \o d \in Seq(U) /\ ToSet(abc \o d) = A \cup B \cup C \cup found
  BY <1>3, <1>5, <1>9, ConcatHolds
<1>11. violationsIn(p, found) \in Seq(U) /\ ToSet(violationsIn(p, found)) = U
  BY <1>4, <1>10 DEF U, ab, abc
<1>12. U = AllFindings(p, found)
  BY DEF A, B, C, U, AllFindings, Sf9Findings, LakosFindings
<1> QED
  BY <1>11, <1>12
-----------------------------------------------------------------------------
(* The invariant holds in every state.                                     *)

\* A file that was written for whole holds all of it or a beginning.
LEMMA WrittenHolds ==
    ASSUME NEW whole, NEW prefixes, NEW file \in Written(whole, prefixes)
    PROVE  /\ file.whole = whole /\ file.of = sources
           /\ file.status = "readable" => file.content \in prefixes \cup {whole}
BY DEF Written

\* After an edit no run has been made, and the files are as they were.
LEMMA EditStep ==
    ASSUME IInv, Edit, IsProject(project'), issues' \subseteq Issue
    PROVE  IInv'
<1>1. run' = NoRun /\ violationFile' = violationFile /\ graphFile' = graphFile
  BY DEF Edit
<1>2. ViolationFileInv'
  BY <1>1 DEF IInv, ViolationFileInv
<1>3. GraphFileInv'
  BY <1>1 DEF IInv, GraphFileInv
<1>4. RunInv'
  BY <1>1 DEF RunInv, NoRun
<1> QED
  BY <1>2, <1>3, <1>4 DEF IInv

\* A list without repetitions has none when an element is added that it lacks.
LEMMA AppendNoRepeat ==
    ASSUME NEW T, NEW s \in Seq(T), IsInjective(s), NEW f \in T, f \notin ToSet(s)
    PROVE  Append(s, f) \in Seq(T) /\ IsInjective(Append(s, f))
<1> DEFINE r == Append(s, f)
           n == Len(s)
<1>1. /\ r \in Seq(T) /\ DOMAIN r = 1 .. n + 1 /\ n \in Nat /\ DOMAIN s = 1 .. n
      /\ \A i \in 1 .. n : r[i] = s[i]
      /\ r[n + 1] = f
  BY AppendProperties
<1>2. \A i \in 1 .. n : s[i] # f
  BY <1>1 DEF ToSet
<1> HIDE DEF r, n
<1>3. ASSUME NEW i \in 1 .. n + 1, NEW j \in 1 .. n + 1, r[i] = r[j] PROVE i = j
  <2>1. CASE i \in 1 .. n /\ j \in 1 .. n
    BY <1>1, <1>3, <2>1 DEF IsInjective
  <2>2. CASE i = n + 1 \/ j = n + 1
    BY <1>1, <1>2, <1>3, <2>2
  <2> QED
    BY <1>1, <2>1, <2>2
<1>4. IsInjective(r)
  BY <1>1, <1>3 DEF IsInjective
<1> QED
  BY <1>1, <1>4 DEF r

\* A new file takes its place in the project.
LEMMA AddFileStep ==
    ASSUME IInv, NEW f \in Path, NEW out \in SUBSET project.nodes,
           NEW users \in SUBSET project.nodes, AddFile(f, out, users)
    PROVE  IInv'
<1> DEFINE N == project.nodes \cup {f}
           succ == [v \in N |-> IF v = f THEN Sorted(out)
                                ELSE IF v \in users THEN Append(project.successors[v], f)
                                ELSE project.successors[v]]
<1>1. /\ project' = [nodes |-> N, successors |-> succ, conditional |-> project.conditional]
      /\ issues' = issues /\ Edit /\ f \notin project.nodes
  BY DEF AddFile
<1>2. /\ project.nodes \in SUBSET Path
      /\ project.successors \in [project.nodes -> Seq(project.nodes)]
      /\ \A a \in project.nodes : IsInjective(project.successors[a])
      /\ issues \subseteq Issue
  BY DEF IInv, IsProject
<1>3. Sorted(out) \in Seq(N) /\ IsInjective(Sorted(out))
  <2>1. out \in SUBSET Nat /\ IsFiniteSet(out)
    BY <1>2, PathAssumption, FS_Subset
  <2>2. Sorted(out) \in Seq(out) /\ IsInjective(Sorted(out))
    BY <2>1, SortedNumbers
  <2> QED
    BY <2>2
<1>4. ASSUME NEW v \in project.nodes
      PROVE  /\ project.successors[v] \in Seq(N) /\ IsInjective(project.successors[v])
             /\ Append(project.successors[v], f) \in Seq(N)
             /\ IsInjective(Append(project.successors[v], f))
  <2>1. project.successors[v] \in Seq(project.nodes) /\ IsInjective(project.successors[v])
    BY <1>2
  <2>2. project.successors[v] \in Seq(N) /\ f \in N /\ f \notin ToSet(project.successors[v])
    BY <1>1, <2>1 DEF ToSet
  <2> QED
    BY <2>1, <2>2, AppendNoRepeat
<1>5. \A v \in N : succ[v] \in Seq(N) /\ IsInjective(succ[v])
  BY <1>3, <1>4
<1>6. succ \in [N -> Seq(N)]
  BY <1>5
<1>7. N \subseteq Path
  BY <1>2
<1> HIDE DEF N, succ
<1>8. IsProject(project')
  BY <1>1, <1>5, <1>6, <1>7 DEF IsProject
<1> QED
  BY <1>1, <1>2, <1>8, EditStep

\* Nor when an element is taken out.
LEMMA RemoveAtNoRepeat ==
    ASSUME NEW T, NEW s \in Seq(T), IsInjective(s), NEW k \in 1 .. Len(s)
    PROVE  RemoveAt(s, k) \in Seq(T) /\ IsInjective(RemoveAt(s, k))
<1> DEFINE a == SubSeq(s, 1, k - 1)
           b == SubSeq(s, k + 1, Len(s))
           r == RemoveAt(s, k)
<1>1. Len(s) \in Nat /\ k \in Nat /\ k >= 1 /\ k <= Len(s) /\ DOMAIN s = 1 .. Len(s)
  OBVIOUS
<1>2. a \in Seq(T) /\ Len(a) = k - 1 /\ \A i \in 1 .. k - 1 : a[i] = s[i]
  BY <1>1, SubSeqProperties
<1>3. b \in Seq(T) /\ Len(b) = Len(s) - k /\ \A i \in 1 .. Len(s) - k : b[i] = s[i + k]
  <2> DEFINE n == Len(s)
             m == k + 1
  <2>1. n \in Int /\ m \in Int /\ m <= n + 1 /\ n - m + 1 = n - k
    BY <1>1
  <2>2. \A i \in m .. n : s[i] \in T
    BY <1>1
  <2>3. \A i \in 1 .. n - k : m + i - 1 = i + k
    BY <1>1
  <2>4. n \in Int /\ k \in Int /\ k <= n /\ m = k + 1
    BY <1>1
  <2> HIDE DEF n, m
  <2>5. (IF m <= n THEN n - m + 1 ELSE 0) = n - k
    BY <2>4
  <2>6. /\ SubSeq(s, m, n) \in Seq(T) /\ Len(SubSeq(s, m, n)) = n - k
        /\ \A i \in 1 .. n - k : SubSeq(s, m, n)[i] = s[m + i - 1]
    BY <2>1, <2>2, <2>5, SubSeqProperties
  <2> QED
    BY <2>3, <2>6 DEF n, m
<1>4. r = a \o b
  BY DEF RemoveAt
<1> HIDE DEF a, b, r
<1>5. /\ r \in Seq(T) /\ Len(r) = Len(s) - 1
      /\ \A i \in 1 .. Len(s) - 1 : r[i] = IF i <= k - 1 THEN s[i] ELSE s[i + 1]
  <2>1. /\ r \in Seq(T) /\ Len(r) = Len(a) + Len(b)
        /\ \A i \in 1 .. Len(a) + Len(b) : r[i] = IF i <= Len(a) THEN a[i] ELSE b[i - Len(a)]
    BY <1>2, <1>3, <1>4, ConcatProperties
  <2>2. Len(a) + Len(b) = Len(s) - 1
    BY <1>1, <1>2, <1>3
  <2>3. ASSUME NEW i \in 1 .. Len(s) - 1
        PROVE  r[i] = IF i <= k - 1 THEN s[i] ELSE s[i + 1]
    <3>1. CASE i <= k - 1
      <4>1. i \in 1 .. k - 1 /\ i \in 1 .. Len(a) + Len(b) /\ i <= Len(a)
        BY <1>1, <1>2, <2>2, <3>1
      <4>2. r[i] = a[i]
        BY <2>1, <4>1
      <4>3. a[i] = s[i]
        BY <1>2, <4>1
      <4> QED
        BY <3>1, <4>2, <4>3
    <3>2. CASE ~(i <= k - 1)
      <4>1. i - (k - 1) \in 1 .. Len(s) - k /\ i - (k - 1) + k = i + 1
        BY <1>1, <3>2
      <4>2. r[i] = b[i - (k - 1)]
        BY <1>1, <1>2, <2>1, <2>2, <3>2
      <4> QED
        BY <1>3, <3>2, <4>1, <4>2
    <3> QED
      BY <3>1, <3>2
  <2> QED
    BY <2>1, <2>2, <2>3
<1>6. IsInjective(r)
  <2> SUFFICES ASSUME NEW i \in 1 .. Len(s) - 1, NEW j \in 1 .. Len(s) - 1, r[i] = r[j]
               PROVE  i = j
    BY <1>5 DEF IsInjective
  <2> DEFINE at(x) == IF x <= k - 1 THEN x ELSE x + 1
  <2>1. /\ at(i) \in DOMAIN s /\ at(j) \in DOMAIN s /\ r[i] = s[at(i)] /\ r[j] = s[at(j)]
    BY <1>1, <1>5
  <2>2. at(i) = at(j)
    BY <2>1 DEF IsInjective
  <2> QED
    BY <1>1, <2>2
<1> QED
  BY <1>5, <1>6 DEF r

\* What makes a record a project, from its three fields.
LEMMA ProjectRecord ==
    ASSUME NEW nodes, nodes \subseteq Path, NEW succ \in [nodes -> Seq(nodes)], NEW conditional,
           \A v \in nodes : IsInjective(succ[v])
    PROVE  IsProject([nodes |-> nodes, successors |-> succ, conditional |-> conditional])
<1> DEFINE q == [nodes |-> nodes, successors |-> succ, conditional |-> conditional]
<1>1. q.nodes = nodes /\ q.successors = succ /\ q.conditional = conditional
  OBVIOUS
<1>2. q = [nodes |-> q.nodes, successors |-> q.successors, conditional |-> q.conditional]
  BY <1>1
<1> HIDE DEF q
<1>3. IsProject(q)
  BY <1>1, <1>2 DEF IsProject
<1> QED
  BY <1>3 DEF q

\* A file has a list of #includes again after one has been added or removed.
LEMMA SuccessorsStep ==
    ASSUME IInv, NEW a \in project.nodes, NEW s \in Seq(project.nodes), IsInjective(s),
           NEW conditional,
           project' = [project EXCEPT !.successors[a] = s, !.conditional = conditional],
           issues' = issues, Edit
    PROVE  IInv'
<1>1. /\ project = [nodes |-> project.nodes, successors |-> project.successors,
                    conditional |-> project.conditional]
      /\ project.nodes \subseteq Path
      /\ project.successors \in [project.nodes -> Seq(project.nodes)]
      /\ \A v \in project.nodes : IsInjective(project.successors[v])
      /\ issues \subseteq Issue
  BY DEF IInv, IsProject
<1> DEFINE succ == [project.successors EXCEPT ![a] = s]
<1>2. project' = [nodes |-> project.nodes, successors |-> succ, conditional |-> conditional]
  BY <1>1
<1>3. succ \in [project.nodes -> Seq(project.nodes)]
  BY <1>1
<1>4. \A v \in project.nodes : IsInjective(succ[v])
  BY <1>1
<1>5. IsProject(project')
  <2> HIDE DEF succ
  <2>1. IsProject([nodes |-> project.nodes, successors |-> succ, conditional |-> conditional])
    BY <1>1, <1>3, <1>4, ProjectRecord, Zenon
  <2> QED
    BY <1>2, <2>1
<1> QED
  BY <1>1, <1>5, EditStep

LEMMA AddIncludeStep ==
    ASSUME IInv, NEW a \in project.nodes, NEW b \in project.nodes, AddInclude(a, b)
    PROVE  IInv'
<1> DEFINE s == Append(project.successors[a], b)
<1>1. /\ project.successors[a] \in Seq(project.nodes) /\ IsInjective(project.successors[a])
      /\ project = [nodes |-> project.nodes, successors |-> project.successors,
                    conditional |-> project.conditional]
      /\ project.successors \in [project.nodes -> Seq(project.nodes)]
  BY DEF IInv, IsProject
<1>2. b \notin ToSet(project.successors[a])
  BY DEF AddInclude
<1>3. s \in Seq(project.nodes) /\ IsInjective(s)
  BY <1>1, <1>2, AppendNoRepeat
<1>4. /\ project' = [project EXCEPT !.successors[a] = s, !.conditional = project.conditional]
      /\ issues' = issues /\ Edit
  BY <1>1 DEF AddInclude
<1> HIDE DEF s
<1> QED
  BY <1>3, <1>4, SuccessorsStep

LEMMA RemoveIncludeStep == ASSUME IInv, NEW e \in EdgesOf(project), RemoveInclude(e) PROVE IInv'
<1> DEFINE a == e[1]
           k == Position(project, e[1], e[2])
           s == RemoveAt(project.successors[a], k)
<1>1. a \in project.nodes /\ e[2] \in ToSet(project.successors[a])
  BY DEF EdgesOf
<1>2. project.successors[a] \in Seq(project.nodes) /\ IsInjective(project.successors[a])
  BY <1>1 DEF IInv, IsProject
<1>3. k \in 1 .. Len(project.successors[a])
  BY <1>1, <1>2 DEF ToSet, Position
<1>4. s \in Seq(project.nodes) /\ IsInjective(s)
  BY <1>2, <1>3, RemoveAtNoRepeat
<1>5. /\ project' = [project EXCEPT !.successors[a] = s,
                                    !.conditional = project.conditional \ {e}]
      /\ issues' = issues /\ Edit
  <2>1. project = [nodes |-> project.nodes, successors |-> project.successors,
                   conditional |-> project.conditional]
    BY DEF IInv, IsProject
  <2> QED
    BY <2>1 DEF RemoveInclude
<1> HIDE DEF a, s
<1> QED
  BY <1>1, <1>4, <1>5, SuccessorsStep

LEMMA ToggleIssueStep == ASSUME IInv, NEW i \in Issue, ToggleIssue(i) PROVE IInv'
<1>1. IsProject(project') /\ issues' \subseteq Issue /\ Edit
  BY DEF ToggleIssue, IInv
<1> QED
  BY <1>1, EditStep

\* A run that writes no file reports what there is.
LEMMA ReportStep ==
    ASSUME IInv, UNCHANGED <<sources, violationFile, graphFile>>, RunInv'
    PROVE  IInv'
<1>1. project' = project /\ issues' = issues
  BY DEF sources
<1>2. ViolationFileInv'
  BY DEF IInv, ViolationFileInv
<1>3. GraphFileInv'
  BY DEF IInv, GraphFileInv
<1> QED
  BY <1>1, <1>2, <1>3 DEF IInv

LEMMA ConfigErrorStep == ASSUME IInv, ConfigError PROVE IInv'
<1>1. RunInv'
  BY DEF ConfigError, Report, RunInv
<1> QED
  BY <1>1, ReportStep DEF ConfigError

LEMMA CheckStep ==
    ASSUME IInv, NEW failOnUnresolvedLocal \in BOOLEAN, Check(failOnUnresolvedLocal)
    PROVE  IInv'
<1>1. /\ run' = [mode |-> "check",
                 exitCode |-> CheckExit(ToSet(checkViolations), failOnUnresolvedLocal),
                 findings |-> ToSet(checkViolations), drift |-> {}]
      /\ UNCHANGED <<sources, violationFile, graphFile>>
  BY DEF Check, Report
<1>2. project' = project /\ issues' = issues
  BY <1>1 DEF sources
<1>3. checkViolations' = checkViolations
  BY <1>2 DEF checkViolations
<1>4. RunInv'
  <2>1. run'.mode = "check" /\ run'.findings = ToSet(checkViolations')
    BY <1>1, <1>3
  <2>2. run'.exitCode = CheckExit(run'.findings, failOnUnresolvedLocal)
    BY <1>1
  <2> QED
    BY <2>1, <2>2 DEF RunInv
<1> QED
  BY <1>1, <1>4, ReportStep

LEMMA CheckAgainstBaselineStep == ASSUME IInv, CheckAgainstBaseline PROVE IInv'
<1>1. UNCHANGED <<sources, violationFile, graphFile>>
  BY DEF CheckAgainstBaseline
<1>2. project' = project /\ issues' = issues /\ violationFile' = violationFile
  BY <1>1 DEF sources
<1>3. checkViolations' = checkViolations
  BY <1>2 DEF checkViolations
<1> DEFINE new == filterNew(ToSet(checkViolations), ToSet(violationFile.content))
<1>4. IF violationFile.status # "readable"
      THEN run' = [mode |-> "baseline", exitCode |-> 2, findings |-> {}, drift |-> {}]
      ELSE run' = [mode |-> "baseline", exitCode |-> CheckExit(new, FALSE),
                   findings |-> new, drift |-> {}]
  BY Zenon DEF CheckAgainstBaseline, Report
<1>5. CASE violationFile.status # "readable"
  <2>1. run' = [mode |-> "baseline", exitCode |-> 2, findings |-> {}, drift |-> {}]
    BY <1>4, <1>5, Zenon
  <2>2. run'.mode = "baseline" /\ run'.exitCode = 2
    BY <2>1
  <2>3. RunInv'
    BY <1>2, <1>5, <2>2 DEF RunInv
  <2> QED
    BY <1>1, <2>3, ReportStep
<1>6. CASE violationFile.status = "readable"
  <2>1. run' = [mode |-> "baseline", exitCode |-> CheckExit(new, FALSE),
                findings |-> new, drift |-> {}]
    BY <1>4, <1>6, Zenon
  <2> DEFINE code == CheckExit(new, FALSE)
  <2>2. code = CheckExit(new, FALSE)
    OBVIOUS
  <2> HIDE DEF code
  <2>3. run' = [mode |-> "baseline", exitCode |-> code, findings |-> new, drift |-> {}]
    BY <2>1, <2>2, Zenon
  <2>4. run'.mode = "baseline" /\ run'.findings = new /\ run'.exitCode = code
    BY <2>3
  <2>5. run'.exitCode = CheckExit(run'.findings, FALSE)
    BY <2>2, <2>4, Zenon
  <2>6. RunInv'
    BY <1>2, <1>3, <1>6, <2>4, <2>5 DEF RunInv
  <2> QED
    BY <1>1, <2>6, ReportStep
<1> QED
  BY <1>5, <1>6

LEMMA CheckDriftStep == ASSUME IInv, CheckDrift PROVE IInv'
<1>1. UNCHANGED <<sources, violationFile, graphFile>>
  BY DEF CheckDrift
<1>2. project' = project /\ issues' = issues /\ graphFile' = graphFile
  BY <1>1 DEF sources
<1>3. checkViolations' = checkViolations
  BY <1>2 DEF checkViolations
<1>4. run'.mode = "drift"
  BY DEF CheckDrift, Report
<1>5. graphFile.status # "readable" => run'.exitCode = 2
  BY DEF CheckDrift, Report
<1>6. graphFile.status = "readable" =>
        /\ run'.findings = ToSet(checkViolations)
        /\ run'.drift = DriftFindings(assemble_graph(graphFile.content), graphOf(project))
        /\ run'.exitCode = DriftExit(run'.drift)
  BY DEF CheckDrift, Report
<1>7. RunInv'
  BY <1>2, <1>3, <1>4, <1>5, <1>6 DEF RunInv
<1> QED
  BY <1>1, <1>7, ReportStep

\* A save of the violations writes those there are, or as many as fit.
LEMMA SaveBaselineStep == ASSUME IInv, SaveBaseline PROVE IInv'
<1>1. UNCHANGED <<sources, graphFile>> /\ run'.mode = "save"
  BY DEF SaveBaseline, Report
<1>2. project' = project /\ issues' = issues
  BY <1>1 DEF sources
<1>3. IsProject(project) /\ issues \in SUBSET Issue
  BY DEF IInv
<1>4. GraphFileInv'
  BY <1>1 DEF IInv, GraphFileInv
<1>5. RunInv'
  BY <1>1 DEF RunInv
<1>6. ViolationFileInv'
  <2>1. CASE violationFile' = violationFile
    BY <2>1 DEF IInv, ViolationFileInv
  <2> DEFINE all == violationsIn(project, issues)
             parts == {SubSeq(all, 1, n) : n \in 0 .. Len(all)}
  <2>2. CASE violationFile' \in Written(all, parts)
    <3>1. all \in Seq(ToSet(all))
      BY <1>3, ViolationsHold
    <3> HIDE DEF all
    <3>2. Len(all) \in 0 .. Len(all) /\ SubSeq(all, 1, Len(all)) = all
      BY <3>1
    <3>3. violationFile'.whole = all /\ violationFile'.of = sources
      BY <2>2, WrittenHolds
    <3>4. violationFile'.status = "readable" =>
            \E n \in 0 .. Len(all) : violationFile'.content = SubSeq(all, 1, n)
      BY <2>2, <3>2, WrittenHolds
    <3> QED
      BY <1>3, <3>3, <3>4 DEF ViolationFileInv, all, sources
  <2> QED
    BY <2>1, <2>2 DEF SaveBaseline, checkViolations
<1> QED
  BY <1>2, <1>3, <1>4, <1>5, <1>6 DEF IInv

\* A save of the graph writes its nodes and its edges, or as many as fit.
LEMMA SaveGraphBaselineStep == ASSUME IInv, SaveGraphBaseline PROVE IInv'
<1>1. UNCHANGED <<sources, violationFile>>
  BY DEF SaveGraphBaseline
<1>2. project' = project /\ issues' = issues
  BY <1>1 DEF sources
<1>3. IsProject(project) /\ issues \subseteq Issue
  BY DEF IInv
<1>4. ViolationFileInv'
  BY <1>1 DEF IInv, ViolationFileInv
<1> DEFINE nodes == sorted_node_paths(graphOf(project))
           edges == remapped_sorted_edges(graphOf(project), nodes)
           parts == {<<nodes, SubSeq(edges, 1, n)>> : n \in 1 .. Len(edges)}
<1>5. edges \in Seq(Nat \X Nat)
  BY <1>3, LoadedGraph
<1>6. /\ \E exitCode \in {0, 2} : run' = [mode |-> "save graph", exitCode |-> exitCode,
                                          findings |-> {}, drift |-> {}]
      /\ graphFile' = graphFile \/ graphFile' \in Written(<<nodes, edges>>, parts)
  BY Zenon DEF SaveGraphBaseline, Report
<1> HIDE DEF nodes, edges
<1>7. RunInv'
  <2>1. PICK exitCode \in {0, 2} :
            run' = [mode |-> "save graph", exitCode |-> exitCode, findings |-> {}, drift |-> {}]
    BY <1>6, Zenon
  <2>2. run'.mode = "save graph"
    BY <2>1
  <2> QED
    BY <2>2 DEF RunInv
<1>8. GraphFileInv'
  <2>1. CASE graphFile' = graphFile
    BY <2>1 DEF IInv, GraphFileInv
  <2>2. CASE graphFile' \in Written(<<nodes, edges>>, parts)
    <3>1. graphFile'.whole = <<nodes, edges>> /\ graphFile'.of = sources
      BY <2>2, WrittenHolds
    <3>2. Len(edges) \in Nat /\ SubSeq(edges, 1, Len(edges)) = edges
      BY <1>5
    <3>3. graphFile'.status = "readable" =>
            \E n \in 0 .. Len(edges) : graphFile'.content = <<nodes, SubSeq(edges, 1, n)>>
      <4> SUFFICES ASSUME graphFile'.status = "readable"
                   PROVE  \E n \in 0 .. Len(edges) :
                              graphFile'.content = <<nodes, SubSeq(edges, 1, n)>>
        OBVIOUS
      <4>1. graphFile'.content \in parts \cup {<<nodes, edges>>}
        BY <2>2, WrittenHolds
      <4>2. CASE graphFile'.content \in parts
        BY <3>2, <4>2
      <4>3. CASE graphFile'.content = <<nodes, edges>>
        <5>1. /\ Len(edges) \in 0 .. Len(edges)
              /\ graphFile'.content = <<nodes, SubSeq(edges, 1, Len(edges))>>
          BY <3>2, <4>3
        <5> QED
          BY <5>1
      <4> QED
        BY <4>1, <4>2, <4>3
    <3> QED
      BY <1>3, <3>1, <3>3 DEF GraphFileInv, nodes, edges, sources
  <2> QED
    BY <1>6, <2>1, <2>2
<1> QED
  BY <1>2, <1>3, <1>4, <1>7, <1>8 DEF IInv

\* The project stays one, the files hold a beginning of what was saved, and the
\* last run reported what they say.
THEOREM Invariance == Spec => []IInv
<1>1. Init => IInv
  <2> SUFFICES ASSUME Init PROVE IInv
    OBVIOUS
  <2>1. IsProject(project) /\ issues \subseteq Issue
    BY ProjectsAssumption DEF Init
  <2>2. ViolationFileInv /\ GraphFileInv
    BY DEF Init, ViolationFileInv, GraphFileInv, NoFile
  <2>3. RunInv
    BY DEF Init, RunInv, NoRun
  <2> QED
    BY <2>1, <2>2, <2>3 DEF IInv
<1>2. IInv /\ [Next]_vars => IInv'
  <2> SUFFICES ASSUME IInv, [Next]_vars PROVE IInv'
    OBVIOUS
  <2>1. ASSUME NEW f \in Path, NEW out \in SUBSET project.nodes,
               NEW users \in SUBSET project.nodes, AddFile(f, out, users)
        PROVE  IInv'
    BY <2>1, AddFileStep
  <2>2. ASSUME NEW a \in project.nodes, NEW b \in project.nodes, AddInclude(a, b)
        PROVE  IInv'
    BY <2>2, AddIncludeStep
  <2>3. ASSUME NEW e \in EdgesOf(project), RemoveInclude(e) PROVE IInv'
    BY <2>3, RemoveIncludeStep
  <2>4. ASSUME NEW i \in Issue, ToggleIssue(i) PROVE IInv'
    BY <2>4, ToggleIssueStep
  <2>5. ASSUME archcheck PROVE IInv'
    BY <2>5, ConfigErrorStep, CheckStep, SaveBaselineStep, CheckAgainstBaselineStep,
       SaveGraphBaselineStep, CheckDriftStep DEF archcheck
  <2>6. CASE UNCHANGED vars
    <3>1. /\ UNCHANGED <<project, issues, violationFile, graphFile, run>>
      BY <2>6 DEF vars, sources
    <3>2. checkViolations' = checkViolations
      BY <3>1 DEF checkViolations
    <3>3. RunInv'
      BY <3>1, <3>2 DEF IInv, RunInv
    <3> QED
      BY <3>1, <3>3, ReportStep DEF sources
  <2> QED
    BY <2>1, <2>2, <2>3, <2>4, <2>5, <2>6 DEF Next
<1> QED
  BY <1>1, <1>2, PTL DEF Spec
-----------------------------------------------------------------------------
(* What the DRIFT rules let pass.                                          *)

\* A graph that has lost nodes and edges only has not drifted.
LEMMA NothingDrifts ==
    ASSUME NEW g, FiniteGraph(g), g = [nodes |-> g.nodes, edges |-> g.edges],
           NEW h, FiniteGraph(h), g.nodes \subseteq h.nodes, g.edges \subseteq h.edges
    PROVE  DriftFindings(h, g) = {}
<1>1. addedEdges(h, g) = {}
  BY DEF addedEdges
<1>2. DriftNoShortcutEdge(h, g) = {} /\ DriftBidirectionalCoupling(h, g) = {}
  BY <1>1 DEF DriftNoShortcutEdge, DriftBidirectionalCoupling
<1>3. DriftNoCycleGrowth(h, g) = {}
  BY NothingGrows DEF DriftNoCycleGrowth
<1>4. DriftLateralModuleDependency(h, g) = {}
  <2>1. [g EXCEPT !.edges = {}] = [nodes |-> g.nodes, edges |-> {}]
    OBVIOUS
  <2>2. areaDeps([nodes |-> g.nodes, edges |-> {}]) = {}
    BY DEF areaDeps
  <2>3. areaDeps([g EXCEPT !.edges = addedEdges(h, g)]) = {}
    BY <1>1, <2>1, <2>2
  <2> QED
    BY <2>3 DEF DriftLateralModuleDependency
<1> QED
  BY <1>2, <1>3, <1>4 DEF DriftFindings

\* A run that passes has found no new edge between old files and no grown cycle.
LEMMA PassedDrift ==
    ASSUME NEW baseline, NEW current, DriftExit(DriftFindings(baseline, current)) = 0
    PROVE  /\ \A e \in current.edges : {e[1], e[2]} \subseteq baseline.nodes => e \in baseline.edges
           /\ grownSccs(baseline, current) = {}
<1>1. \A d \in DriftFindings(baseline, current) : ~GatesDrift(d.rule)
  BY DEF DriftExit
<1>2. DriftNoShortcutEdge(baseline, current) = {}
  <2> SUFFICES ASSUME NEW e \in DriftNoShortcutEdge(baseline, current) PROVE FALSE
    OBVIOUS
  <2>1. [rule |-> "DRIFT.1", at |-> {e[1], e[2]}] \in DriftFindings(baseline, current)
    BY DEF DriftFindings
  <2> QED
    BY <1>1, <2>1 DEF GatesDrift
<1>3. grownSccs(baseline, current) = {}
  <2> SUFFICES ASSUME NEW s \in grownSccs(baseline, current) PROVE FALSE
    OBVIOUS
  <2>1. [rule |-> "DRIFT.2", at |-> s] \in DriftFindings(baseline, current)
    BY DEF DriftFindings, DriftNoCycleGrowth
  <2> QED
    BY <1>1, <2>1 DEF GatesDrift
<1> QED
  BY <1>2, <1>3 DEF DriftNoShortcutEdge, addedEdges

\* The graph that a file is loaded as, and the one that was saved.
LEMMA LoadedGraphFile ==
    ASSUME IInv, graphFile.status = "readable"
    PROVE  LET saved == graphOf(graphFile.of[1])
               part == assemble_graph(graphFile.content)
           IN  /\ IsProject(graphFile.of[1]) /\ FiniteGraph(saved)
               /\ assemble_graph(graphFile.whole) = saved
               /\ part.nodes = saved.nodes /\ part.edges \subseteq saved.edges
               /\ FiniteGraph(part) /\ part = [nodes |-> part.nodes, edges |-> part.edges]
<1> DEFINE p == graphFile.of[1]
           nodes == sorted_node_paths(graphOf(p))
           edges == remapped_sorted_edges(graphOf(p), nodes)
<1>1. /\ IsProject(p) /\ graphFile.whole = <<nodes, edges>>
      /\ \E n \in 0 .. Len(edges) : graphFile.content = <<nodes, SubSeq(edges, 1, n)>>
  BY DEF IInv, GraphFileInv
<1> HIDE DEF p
<1>2. /\ graphOf(p).nodes = p.nodes /\ graphOf(p).edges = EdgesOf(p) /\ FiniteGraph(graphOf(p))
  BY <1>1, ProjectGraph
<1>3. /\ assemble_graph(<<nodes, edges>>) = graphOf(p)
      /\ \A n \in 0 .. Len(edges) :
           LET part == assemble_graph(<<nodes, SubSeq(edges, 1, n)>>)
           IN  part.nodes = p.nodes /\ part.edges \subseteq EdgesOf(p) /\ FiniteGraph(part)
  BY <1>1, LoadedGraph
<1> HIDE DEF nodes, edges
<1>4. LET part == assemble_graph(graphFile.content)
      IN  part.nodes = p.nodes /\ part.edges \subseteq EdgesOf(p) /\ FiniteGraph(part)
  BY <1>1, <1>3
<1>5. LET part == assemble_graph(graphFile.content)
      IN  part = [nodes |-> part.nodes, edges |-> part.edges]
  BY DEF assemble_graph
<1> QED
  BY <1>1, <1>2, <1>3, <1>4, <1>5 DEF p
-----------------------------------------------------------------------------
(* The cycle that SF.9 finds.                                              *)

\* CyclesThrough, told without the prefixes: n nodes other than start, and start.
IsCycle(p, s, start, w, n) ==
    /\ w \in [1 .. n + 1 -> s] /\ w[n + 1] = start
    /\ \A k \in 1 .. n : w[k] # start
    /\ \A k \in 1 .. n + 1 : <<IF k = 1 THEN start ELSE w[k - 1], w[k]>> \in EdgesOf(p)

LEMMA CycleShape ==
    ASSUME NEW p, NEW s, IsFiniteSet(s), NEW start \in s, NEW w \in CyclesThrough(p, s, start)
    PROVE  \E n \in 0 .. Cardinality(s) - 1 : Len(w) = n + 1 /\ IsCycle(p, s, start, w, n)
<1>1. PICK v \in SeqOf(s \ {start}, Cardinality(s) - 1) :
          /\ w = Append(v, start)
          /\ \A k \in DOMAIN w : <<IF k = 1 THEN start ELSE w[k - 1], w[k]>> \in EdgesOf(p)
  BY DEF CyclesThrough
<1>2. PICK n \in 0 .. Cardinality(s) - 1 : v \in [1 .. n -> s \ {start}]
  BY <1>1 DEF SeqOf
<1>3. n \in Nat
  OBVIOUS
<1>4. v \in Seq(s) /\ Len(v) = n /\ \A k \in 1 .. n : v[k] \in s \ {start}
  BY <1>2, <1>3, LenIs
<1>5. /\ w \in Seq(s) /\ Len(w) = n + 1 /\ w[n + 1] = start
      /\ \A k \in 1 .. n : w[k] = v[k]
  BY <1>1, <1>4, AppendProperties
<1>6. DOMAIN w = 1 .. n + 1 /\ w \in [1 .. n + 1 -> s]
  BY <1>5
<1> QED
  BY <1>1, <1>4, <1>5, <1>6 DEF IsCycle

\* There are finitely many of them.
LEMMA CyclesFinite ==
    ASSUME NEW p, NEW s, IsFiniteSet(s), NEW start \in s
    PROVE  IsFiniteSet(CyclesThrough(p, s, start))
<1> DEFINE C == CyclesThrough(p, s, start)
           N == Cardinality(s)
           T == SUBSET ((1 .. N) \X s)
           f == [w \in C |-> {x \in (1 .. N) \X s : x[1] \in 1 .. Len(w) /\ w[x[1]] = x[2]}]
<1>1. N \in Nat /\ IsFiniteSet(1 .. N)
  BY FS_CardinalityType, FS_Interval
<1>2. IsFiniteSet(T)
  BY <1>1, FS_Product, FS_SUBSET
<1>3. ASSUME NEW v \in C, NEW w \in C, f[v] = f[w] PROVE v = w
  <2>1. PICK m \in 0 .. N - 1 : Len(v) = m + 1 /\ v \in [1 .. m + 1 -> s]
    BY CycleShape DEF IsCycle
  <2>2. PICK n \in 0 .. N - 1 : Len(w) = n + 1 /\ w \in [1 .. n + 1 -> s]
    BY CycleShape DEF IsCycle
  <2> HIDE DEF C, N
  <2>3. \A k \in 1 .. m + 1 : k \in 1 .. n + 1 /\ w[k] = v[k]
    <3> SUFFICES ASSUME NEW k \in 1 .. m + 1 PROVE k \in 1 .. n + 1 /\ w[k] = v[k]
      OBVIOUS
    <3>1. <<k, v[k]>> \in f[v]
      BY <1>1, <2>1
    <3>2. <<k, v[k]>> \in f[w]
      BY <1>3, <3>1
    <3> QED
      BY <2>2, <3>2
  <2>4. \A k \in 1 .. n + 1 : k \in 1 .. m + 1
    <3> SUFFICES ASSUME NEW k \in 1 .. n + 1 PROVE k \in 1 .. m + 1
      OBVIOUS
    <3>1. <<k, w[k]>> \in f[w]
      BY <1>1, <2>2
    <3>2. <<k, w[k]>> \in f[v]
      BY <1>3, <3>1
    <3> QED
      BY <2>1, <3>2
  <2>5. 1 .. m + 1 = 1 .. n + 1
    BY <2>3, <2>4
  <2> QED
    BY <2>1, <2>2, <2>3, <2>5
<1>4. f \in [C -> T]
  OBVIOUS
<1> HIDE DEF f, T, C
<1>5. f \in Injection(C, T)
  BY <1>3, <1>4 DEF Injection, IsInjective
<1> QED
  BY <1>2, <1>5, FS_Injection DEF C

\* An #include has a place among those of its file.
LEMMA PositionIs ==
    ASSUME NEW p, IsProject(p), NEW a, NEW b, <<a, b>> \in EdgesOf(p)
    PROVE  /\ Position(p, a, b) \in Nat
           /\ p.successors[a][Position(p, a, b)] = b
<1>1. a \in p.nodes /\ b \in ToSet(p.successors[a])
  BY DEF EdgesOf
<1>2. p.successors[a] \in Seq(p.nodes)
  BY <1>1 DEF IsProject
<1>3. DOMAIN p.successors[a] \subseteq Nat
  BY <1>2
<1> QED
  BY <1>1, <1>3 DEF ToSet, Position

\* The least of two numbers' positions decides: what the relation of FoundBefore
\* says at the first position where two cycles differ.
LEMMA FoundBeforeIs ==
    ASSUME NEW p, NEW s, NEW start \in s, NEW m \in Nat, NEW n \in Nat, NEW v, NEW w,
           Len(v) = m + 1, IsCycle(p, s, start, v, m),
           Len(w) = n + 1, IsCycle(p, s, start, w, n)
    PROVE  FoundBefore(p, start, v, w) <=>
             \E k \in Nat \ {0} :
                 LET last == IF k = 1 THEN start ELSE v[k - 1] IN
                 /\ k <= m + 1 /\ k <= n + 1
                 /\ \A j \in 1 .. k - 1 : v[j] = w[j]
                 /\ Position(p, last, v[k]) < Position(p, last, w[k])
<1>1. DOMAIN v = 1 .. m + 1 /\ DOMAIN w = 1 .. n + 1
  BY DEF IsCycle
<1>2. \A k : k \in DOMAIN v \cap DOMAIN w <=> k \in Nat \ {0} /\ k <= m + 1 /\ k <= n + 1
  BY <1>1
<1> QED
  BY <1>2 DEF FoundBefore

\* No cycle is found before itself.
LEMMA FoundBeforeIrreflexive ==
    ASSUME NEW p, IsProject(p), NEW s, NEW start \in s, NEW m \in Nat, NEW v,
           Len(v) = m + 1, IsCycle(p, s, start, v, m)
    PROVE  ~FoundBefore(p, start, v, v)
<1> SUFFICES ASSUME NEW k \in 1 .. m + 1,
                    LET last == IF k = 1 THEN start ELSE v[k - 1]
                    IN  Position(p, last, v[k]) < Position(p, last, v[k])
             PROVE  FALSE
  <2>1. DOMAIN v = 1 .. m + 1
    BY DEF IsCycle
  <2> QED
    BY <2>1 DEF FoundBefore
<1> DEFINE last == IF k = 1 THEN start ELSE v[k - 1]
<1>1. <<last, v[k]>> \in EdgesOf(p)
  BY DEF IsCycle
<1> HIDE DEF last
<1>2. Position(p, last, v[k]) \in Nat
  BY <1>1, PositionIs
<1>3. Position(p, last, v[k]) < Position(p, last, v[k])
  BY DEF last
<1> QED
  BY <1>2, <1>3

\* What is found before what is found before a cycle is found before it.
LEMMA FoundBeforeTransitive ==
    ASSUME NEW p, IsProject(p), NEW s, NEW start \in s,
           NEW l \in Nat, NEW m \in Nat, NEW n \in Nat, NEW u, NEW v, NEW w,
           Len(u) = l + 1, IsCycle(p, s, start, u, l),
           Len(v) = m + 1, IsCycle(p, s, start, v, m),
           Len(w) = n + 1, IsCycle(p, s, start, w, n),
           FoundBefore(p, start, u, v), FoundBefore(p, start, v, w)
    PROVE  FoundBefore(p, start, u, w)
<1> DEFINE last(x, k) == IF k = 1 THEN start ELSE x[k - 1]
<1>0. DOMAIN u = 1 .. l + 1 /\ DOMAIN v = 1 .. m + 1 /\ DOMAIN w = 1 .. n + 1
  BY DEF IsCycle
<1>1. PICK i \in Nat \ {0} :
          /\ i <= l + 1 /\ i <= m + 1
          /\ \A j \in 1 .. i - 1 : u[j] = v[j]
          /\ Position(p, last(u, i), u[i]) < Position(p, last(u, i), v[i])
  <2>1. PICK i \in DOMAIN u \cap DOMAIN v :
            /\ \A j \in 1 .. i - 1 : u[j] = v[j]
            /\ Position(p, last(u, i), u[i]) < Position(p, last(u, i), v[i])
    BY DEF FoundBefore
  <2>2. i \in Nat \ {0} /\ i <= l + 1 /\ i <= m + 1
    BY <1>0
  <2> QED
    BY <2>1, <2>2
<1>2. PICK k \in Nat \ {0} :
          /\ k <= m + 1 /\ k <= n + 1
          /\ \A j \in 1 .. k - 1 : v[j] = w[j]
          /\ Position(p, last(v, k), v[k]) < Position(p, last(v, k), w[k])
  <2>1. PICK k \in DOMAIN v \cap DOMAIN w :
            /\ \A j \in 1 .. k - 1 : v[j] = w[j]
            /\ Position(p, last(v, k), v[k]) < Position(p, last(v, k), w[k])
    BY DEF FoundBefore
  <2>2. k \in Nat \ {0} /\ k <= m + 1 /\ k <= n + 1
    BY <1>0
  <2> QED
    BY <2>1, <2>2
\* How the order is shown: by the first place at which u and w differ.
<1>3. ASSUME NEW g \in Nat \ {0}, g <= l + 1, g <= n + 1,
             \A j \in 1 .. g - 1 : u[j] = w[j],
             Position(p, last(u, g), u[g]) < Position(p, last(u, g), w[g])
      PROVE  FoundBefore(p, start, u, w)
  <2>1. g \in DOMAIN u \cap DOMAIN w
    BY <1>0, <1>3
  <2> QED
    BY <1>3, <2>1 DEF FoundBefore
<1>4. CASE i < k
  <2>1. \A j \in 1 .. i - 1 : u[j] = w[j]
    BY <1>1, <1>2, <1>4
  <2>2. w[i] = v[i] /\ i <= n + 1
    BY <1>2, <1>4
  <2>3. Position(p, last(u, i), u[i]) < Position(p, last(u, i), w[i])
    BY <1>1, <2>2
  <2> QED
    BY <1>1, <1>3, <2>1, <2>2, <2>3
<1>5. CASE i = k
  <2>1. \A j \in 1 .. i - 1 : u[j] = w[j]
    BY <1>1, <1>2, <1>5
  <2>2. last(u, i) = last(v, i) /\ last(v, i) = last(w, i)
    <3>1. CASE i = 1
      BY <3>1
    <3>2. CASE i # 1
      <4>1. i - 1 \in 1 .. i - 1
        BY <3>2
      <4> QED
        BY <1>1, <1>2, <1>5, <3>2, <4>1
    <3> QED
      BY <3>1, <3>2
  <2>3. /\ <<last(u, i), u[i]>> \in EdgesOf(p) /\ <<last(v, i), v[i]>> \in EdgesOf(p)
        /\ <<last(w, i), w[i]>> \in EdgesOf(p)
    BY <1>1, <1>2, <1>5 DEF IsCycle
  <2> DEFINE x == last(u, i)
  <2>4. <<x, u[i]>> \in EdgesOf(p) /\ <<x, v[i]>> \in EdgesOf(p) /\ <<x, w[i]>> \in EdgesOf(p)
    BY <2>2, <2>3
  <2>5. /\ Position(p, x, u[i]) < Position(p, x, v[i])
        /\ Position(p, x, v[i]) < Position(p, x, w[i])
    BY <1>1, <1>2, <1>5, <2>2
  <2> HIDE DEF last
  <2>6. Position(p, x, u[i]) \in Nat /\ Position(p, x, v[i]) \in Nat /\ Position(p, x, w[i]) \in Nat
    BY <2>4, PositionIs
  <2>7. Position(p, x, u[i]) < Position(p, x, w[i])
    BY <2>5, <2>6
  <2> QED
    BY <1>1, <1>2, <1>5, <1>3, <2>1, <2>7
<1>6. CASE i > k
  <2>1. \A j \in 1 .. k - 1 : u[j] = w[j]
    BY <1>1, <1>2, <1>6
  <2>2. u[k] = v[k] /\ k <= l + 1
    BY <1>1, <1>6
  <2>3. last(u, k) = last(v, k)
    <3>1. CASE k = 1
      BY <3>1
    <3>2. CASE k # 1
      <4>1. k - 1 \in 1 .. i - 1
        BY <1>6, <3>2
      <4> QED
        BY <1>1, <3>2, <4>1
    <3> QED
      BY <3>1, <3>2
  <2>4. Position(p, last(u, k), u[k]) < Position(p, last(u, k), w[k])
    BY <1>2, <2>2, <2>3
  <2> QED
    BY <1>2, <1>3, <2>1, <2>2, <2>4
<1> QED
  BY <1>4, <1>5, <1>6

\* Of two cycles one is found before the other.
LEMMA FoundBeforeTotal ==
    ASSUME NEW p, IsProject(p), NEW s, NEW start \in s,
           NEW m \in Nat, NEW n \in Nat, NEW v, NEW w,
           Len(v) = m + 1, IsCycle(p, s, start, v, m),
           Len(w) = n + 1, IsCycle(p, s, start, w, n), v # w
    PROVE  FoundBefore(p, start, v, w) \/ FoundBefore(p, start, w, v)
<1> DEFINE D == {k \in Nat \ {0} : k <= m + 1 /\ k <= n + 1 /\ v[k] # w[k]}
<1>1. D # {}
  <2> SUFFICES ASSUME D = {} PROVE FALSE
    OBVIOUS
  <2>1. /\ v \in [1 .. m + 1 -> s] /\ v[m + 1] = start /\ \A k \in 1 .. m : v[k] # start
        /\ w \in [1 .. n + 1 -> s] /\ w[n + 1] = start /\ \A k \in 1 .. n : w[k] # start
    BY DEF IsCycle
  <2>2. \A k \in 1 .. m + 1 : k <= n + 1 => v[k] = w[k]
    OBVIOUS
  <2>3. CASE m < n
    <3>1. v[m + 1] = w[m + 1] /\ m + 1 \in 1 .. n
      BY <2>2, <2>3
    <3> QED
      BY <2>1, <3>1
  <2>4. CASE n < m
    <3>1. v[n + 1] = w[n + 1] /\ n + 1 \in 1 .. m
      BY <2>2, <2>4
    <3> QED
      BY <2>1, <3>1
  <2>5. CASE m = n
    <3>1. \A k \in 1 .. m + 1 : v[k] = w[k]
      BY <2>2, <2>5
    <3>2. v = w
      BY <2>1, <2>5, <3>1
    <3> QED
      BY <3>2
  <2> QED
    BY <2>3, <2>4, <2>5
<1>2. PICK k \in D : \A j \in D : k <= j
  BY <1>1, LeastNatural
<1>3. k \in Nat \ {0} /\ k <= m + 1 /\ k <= n + 1 /\ v[k] # w[k]
  OBVIOUS
<1>4. \A j \in 1 .. k - 1 : v[j] = w[j]
  BY <1>2, <1>3
<1> DEFINE last(x) == IF k = 1 THEN start ELSE x[k - 1]
<1>5. last(v) = last(w)
  <2>1. k # 1 => k - 1 \in 1 .. k - 1
    BY <1>3
  <2> QED
    BY <1>4, <2>1
<1>6. <<last(v), v[k]>> \in EdgesOf(p) /\ <<last(w), w[k]>> \in EdgesOf(p)
  BY <1>3 DEF IsCycle
<1> DEFINE a == Position(p, last(v), v[k])
           b == Position(p, last(v), w[k])
<1>7. a \in Nat /\ b \in Nat /\ a # b
  BY <1>3, <1>5, <1>6, PositionIs
<1>8. a < b => FoundBefore(p, start, v, w)
  BY <1>3, <1>4, FoundBeforeIs
<1>9. b < a => FoundBefore(p, start, w, v)
  <2>1. \A j \in 1 .. k - 1 : w[j] = v[j]
    BY <1>4
  <2>2. b < a => Position(p, last(w), w[k]) < Position(p, last(w), v[k])
    BY <1>5
  <2> QED
    BY <1>3, <2>1, <2>2, FoundBeforeIs
<1> HIDE DEF a, b
<1> QED
  BY <1>7, <1>8, <1>9

\* n files of s other than start, all different, each included by the one before,
\* the first by start.
IsWalk(p, s, start, v, n) ==
    /\ v \in [1 .. n -> s \ {start}] /\ IsInjective(v)
    /\ \A k \in 1 .. n : <<IF k = 1 THEN start ELSE v[k - 1], v[k]>> \in EdgesOf(p)

\* A walk whose last file includes start is a cycle.
LEMMA WalkCloses ==
    ASSUME NEW p, NEW s, IsFiniteSet(s), NEW start \in s, NEW n \in Nat, NEW v,
           IsWalk(p, s, start, v, n),
           <<IF n = 0 THEN start ELSE v[n], start>> \in EdgesOf(p)
    PROVE  Append(v, start) \in CyclesThrough(p, s, start)
<1> DEFINE N == Cardinality(s)
           w == Append(v, start)
<1>1. v \in [1 .. n -> s \ {start}] /\ IsInjective(v)
  BY DEF IsWalk
<1>2. n \in 0 .. N - 1
  <2>1. IsFiniteSet(s \ {start}) /\ Cardinality(s \ {start}) = N - 1 /\ N \in Nat
    BY FS_RemoveElement, FS_CardinalityType
  <2>2. Cardinality(1 .. n) = n
    <3>1. 1 \in Int /\ n \in Int /\ (IF 1 > n THEN 0 ELSE n - 1 + 1) = n
      OBVIOUS
    <3> QED
      BY <3>1, FS_Interval
  <2>3. v \in Injection(1 .. n, s \ {start})
    BY <1>1 DEF Injection
  <2>4. n <= N - 1
    BY <2>1, <2>2, <2>3, FS_Injection
  <2> HIDE DEF N
  <2> QED
    BY <2>1, <2>4
<1> HIDE DEF N
<1>3. v \in SeqOf(s \ {start}, N - 1)
  BY <1>1, <1>2 DEF SeqOf
<1>4. v \in Seq(s) /\ Len(v) = n /\ \A k \in 1 .. n : v[k] \in s
  BY <1>1, LenIs
<1>5. w \in Seq(s) /\ Len(w) = n + 1 /\ w[n + 1] = start /\ \A k \in 1 .. n : w[k] = v[k]
  BY <1>4, AppendProperties
<1>6. DOMAIN w = 1 .. n + 1
  BY <1>5
<1> HIDE DEF w
<1>7. ASSUME NEW k \in 1 .. n + 1
      PROVE  <<IF k = 1 THEN start ELSE w[k - 1], w[k]>> \in EdgesOf(p)
  <2>1. CASE k \in 1 .. n
    <3>1. w[k] = v[k] /\ (k # 1 => w[k - 1] = v[k - 1])
      BY <1>5, <2>1
    <3> QED
      BY <2>1, <3>1 DEF IsWalk
  <2>2. CASE k = n + 1
    <3>1. w[k] = start /\ (k # 1 => w[k - 1] = v[n]) /\ (k = 1 <=> n = 0)
      BY <1>5, <2>2
    <3> QED
      BY <3>1
  <2> QED
    BY <2>1, <2>2
<1> QED
  BY <1>1, <1>3, <1>6, <1>7 DEF CyclesThrough, N, w

\* A walk goes on to any file that its last one includes, or has been there.
LEMMA WalkGoesOn ==
    ASSUME NEW p, NEW s, NEW start, NEW n \in Nat \ {0}, NEW v, IsWalk(p, s, start, v, n),
           NEW y \in s \ {start}, <<v[n], y>> \in EdgesOf(p)
    PROVE  \E m \in Nat \ {0} : \E u : IsWalk(p, s, start, u, m) /\ u[m] = y
<1>1. /\ v \in [1 .. n -> s \ {start}] /\ IsInjective(v)
      /\ \A k \in 1 .. n : <<IF k = 1 THEN start ELSE v[k - 1], v[k]>> \in EdgesOf(p)
  BY DEF IsWalk
<1>2. CASE \E m \in 1 .. n : v[m] = y
  <2>1. PICK m \in 1 .. n : v[m] = y
    BY <1>2
  <2> DEFINE u == [k \in 1 .. m |-> v[k]]
  <2>2. u \in [1 .. m -> s \ {start}]
    BY <1>1
  <2>3. IsInjective(u)
    BY <1>1 DEF IsInjective
  <2>4. ASSUME NEW k \in 1 .. m
        PROVE  <<IF k = 1 THEN start ELSE u[k - 1], u[k]>> \in EdgesOf(p)
    <3>1. u[k] = v[k] /\ k \in 1 .. n /\ (k # 1 => u[k - 1] = v[k - 1])
      OBVIOUS
    <3> HIDE DEF u
    <3> QED
      BY <1>1, <3>1
  <2>5. u[m] = y /\ m \in Nat \ {0}
    BY <2>1
  <2> HIDE DEF u
  <2>6. IsWalk(p, s, start, u, m)
    BY <2>2, <2>3, <2>4 DEF IsWalk
  <2> QED
    BY <2>5, <2>6
<1>3. CASE \A m \in 1 .. n : v[m] # y
  <2> DEFINE u == [k \in 1 .. n + 1 |-> IF k = n + 1 THEN y ELSE v[k]]
  <2>1. u \in [1 .. n + 1 -> s \ {start}]
    BY <1>1
  <2>2. u[n + 1] = y /\ \A k \in 1 .. n : u[k] = v[k]
    OBVIOUS
  <2>3. DOMAIN u = 1 .. n + 1
    OBVIOUS
  <2> HIDE DEF u
  <2>4. ASSUME NEW i \in 1 .. n + 1, NEW j \in 1 .. n + 1, u[i] = u[j] PROVE i = j
    <3>1. CASE i \in 1 .. n /\ j \in 1 .. n
      BY <1>1, <2>2, <2>4, <3>1 DEF IsInjective
    <3>2. CASE i = n + 1 \/ j = n + 1
      BY <1>3, <2>2, <2>4, <3>2
    <3> QED
      BY <3>1, <3>2
  <2>5. IsInjective(u)
    BY <2>3, <2>4 DEF IsInjective
  <2>6. ASSUME NEW k \in 1 .. n + 1
        PROVE  <<IF k = 1 THEN start ELSE u[k - 1], u[k]>> \in EdgesOf(p)
    <3>1. CASE k \in 1 .. n
      <4>1. u[k] = v[k] /\ (k # 1 => u[k - 1] = v[k - 1])
        BY <2>2, <3>1
      <4> QED
        BY <1>1, <3>1, <4>1
    <3>2. CASE k = n + 1
      <4>1. u[k] = y /\ k # 1 /\ u[k - 1] = v[n]
        BY <2>2, <3>2
      <4> QED
        BY <4>1
    <3> QED
      BY <3>1, <3>2
  <2>7. IsWalk(p, s, start, u, n + 1)
    BY <2>1, <2>5, <2>6 DEF IsWalk
  <2> QED
    BY <2>2, <2>7
<1> QED
  BY <1>2, <1>3

\* A file of a component is on a cycle within it.
LEMMA CycleExists ==
    ASSUME NEW p, IsProject(p), NEW s \in nontrivial_sccs(graphOf(p)), NEW start \in s
    PROVE  CyclesThrough(p, s, start) # {}
<1> SUFFICES ASSUME CyclesThrough(p, s, start) = {} PROVE FALSE
  OBVIOUS
<1> DEFINE E == EdgesOf(p)
           F == E \cap s \X s
           R == s \ {start}
           T == {x \in R : \E n \in Nat \ {0} : \E v : IsWalk(p, s, start, v, n) /\ v[n] = x}
<1>1. /\ s \in Sccs(p.nodes, E) /\ E \subseteq p.nodes \X p.nodes
      /\ IsFiniteSet(s) /\ Cardinality(s) >= 2
  BY ProjectGraph, NontrivialScc
<1>2. \A a, b \in s : Reaches(s, F, a, b)
  BY <1>1, ReachesInsideScc
<1>3. PICK t \in s : t # start
  <2> SUFFICES ASSUME \A t \in s : t = start PROVE FALSE
    OBVIOUS
  <2>1. s = {start}
    OBVIOUS
  <2>2. Cardinality(s) = 1
    BY <2>1, FS_Singleton
  <2> QED
    BY <1>1, <2>2
<1>4. <<start, start>> \notin E
  <2> DEFINE v == [k \in 1 .. 0 |-> start]
  <2>1. IsWalk(p, s, start, v, 0)
    BY DEF IsWalk, IsInjective
  <2> QED
    BY <1>1, <2>1, WalkCloses
<1>5. \A x \in T : <<x, start>> \notin E
  BY <1>1, WalkCloses
<1>6. ASSUME NEW y \in s, <<start, y>> \in E PROVE y \in T
  <2> DEFINE v == [k \in 1 .. 1 |-> y]
  <2>1. y \in R
    BY <1>4, <1>6
  <2>2. v \in [1 .. 1 -> R] /\ IsInjective(v) /\ v[1] = y
    BY <2>1 DEF IsInjective
  <2> HIDE DEF v
  <2>3. IsWalk(p, s, start, v, 1)
    BY <1>6, <2>2 DEF IsWalk
  <2> QED
    BY <2>1, <2>2, <2>3
<1>7. ASSUME NEW x \in T, NEW y \in s, <<x, y>> \in E PROVE y \in T
  <2>1. y \in R
    BY <1>5, <1>7
  <2>2. PICK n \in Nat \ {0} : \E v : IsWalk(p, s, start, v, n) /\ v[n] = x
    OBVIOUS
  <2>3. \E m \in Nat \ {0} : \E u : IsWalk(p, s, start, u, m) /\ u[m] = y
    BY <1>7, <2>1, <2>2, WalkGoesOn
  <2> QED
    BY <2>1, <2>3
<1>8. T \in SUBSET s /\ start \notin T
  OBVIOUS
<1> HIDE DEF T, E
<1>9. Closed(F, T)
  BY <1>7 DEF Closed
<1>10. PICK x \in T : TRUE
  <2> SUFFICES ASSUME T = {} PROVE FALSE
    OBVIOUS
  <2>1. Closed(F, {start})
    BY <1>6 DEF Closed
  <2>2. {start} \in SUBSET s
    OBVIOUS
  <2>3. t \in {start}
    BY <1>2, <1>3, <2>1, <2>2, ReachesStaysInside
  <2> QED
    BY <1>3, <2>3
<1>11. start \in T
  <2>1. Reaches(s, F, x, start)
    BY <1>2, <1>8
  <2> QED
    BY <1>8, <1>9, <2>1, ReachesStaysInside
<1> QED
  BY <1>8, <1>11

\* CycleFinder finds a cycle through the least file of every component.
LEMMA CycleFinderFinds ==
    ASSUME NEW p, IsProject(p), NEW s \in nontrivial_sccs(graphOf(p))
    PROVE  FrontOf(s) \in s /\ CycleFinder(p, s) \in CyclesThrough(p, s, FrontOf(s))
<1> DEFINE start == FrontOf(s)
           C == CyclesThrough(p, s, start)
           below == [w \in C |-> {v \in C : FoundBefore(p, start, v, w)}]
           rank == [w \in C |-> Cardinality(below[w])]
<1>1. IsFiniteSet(s) /\ s \in SUBSET Nat /\ s # {}
  <2>1. FiniteGraph(graphOf(p))
    BY ProjectGraph
  <2> QED
    BY <2>1, NontrivialScc, GraphFinite
<1>2. start \in s
  <2>1. \E m \in s : \A k \in s : m <= k
    BY <1>1, LeastNatural
  <2> QED
    BY <2>1 DEF FrontOf
<1>3. IsFiniteSet(C) /\ C # {}
  BY <1>1, <1>2, CyclesFinite, CycleExists
<1>4. \A w \in C : \E n \in Nat : Len(w) = n + 1 /\ IsCycle(p, s, start, w, n)
  <2> SUFFICES ASSUME NEW w \in C
               PROVE  \E n \in Nat : Len(w) = n + 1 /\ IsCycle(p, s, start, w, n)
    OBVIOUS
  <2>1. \E n \in 0 .. Cardinality(s) - 1 : Len(w) = n + 1 /\ IsCycle(p, s, start, w, n)
    BY <1>1, <1>2, CycleShape
  <2> QED
    BY <2>1
<1> DEFINE Before(v, w) == FoundBefore(p, start, v, w)
<1> HIDE DEF start, C
<1>5. \A w \in C : ~Before(w, w)
  BY <1>2, <1>4, FoundBeforeIrreflexive
<1>6. \A u, v, w \in C : Before(u, v) /\ Before(v, w) => Before(u, w)
  <2> SUFFICES ASSUME NEW u \in C, NEW v \in C, NEW w \in C, Before(u, v), Before(v, w)
               PROVE  Before(u, w)
    OBVIOUS
  <2>1. PICK l \in Nat : Len(u) = l + 1 /\ IsCycle(p, s, start, u, l)
    BY <1>4
  <2>2. PICK m \in Nat : Len(v) = m + 1 /\ IsCycle(p, s, start, v, m)
    BY <1>4
  <2>3. PICK n \in Nat : Len(w) = n + 1 /\ IsCycle(p, s, start, w, n)
    BY <1>4
  <2> QED
    BY <1>2, <2>1, <2>2, <2>3, FoundBeforeTransitive
<1>7. \A v, w \in C : v = w \/ Before(v, w) \/ Before(w, v)
  <2> SUFFICES ASSUME NEW v \in C, NEW w \in C, v # w PROVE Before(v, w) \/ Before(w, v)
    OBVIOUS
  <2>1. PICK m \in Nat : Len(v) = m + 1 /\ IsCycle(p, s, start, v, m)
    BY <1>4
  <2>2. PICK n \in Nat : Len(w) = n + 1 /\ IsCycle(p, s, start, w, n)
    BY <1>4
  <2> QED
    BY <1>2, <2>1, <2>2, FoundBeforeTotal
<1> HIDE DEF Before
<1>8. below \in [C -> SUBSET C] /\ \A v, w \in C : v \in below[w] <=> Before(v, w)
  BY DEF Before
<1>9. \A w \in C : rank[w] = Cardinality(below[w])
  OBVIOUS
<1> HIDE DEF below, rank
<1>10. /\ \A u, v, w \in C : u \in below[v] /\ v \in below[w] => u \in below[w]
       /\ \A w \in C : w \notin below[w]
       /\ \A v, w \in C : v = w \/ v \in below[w] \/ w \in below[v]
  BY <1>5, <1>6, <1>7, <1>8
<1>11. /\ Cardinality(C) \in Nat
       /\ \A i \in 1 .. Cardinality(C) : \E w \in C : rank[w] = i - 1
  BY <1>3, <1>8, <1>9, <1>10, Ranks
<1>12. PICK v \in C : rank[v] = 0
  <2>1. Cardinality(C) # 0
    BY <1>3, FS_EmptySet
  <2>2. 1 \in 1 .. Cardinality(C) /\ 1 - 1 = 0
    BY <1>11, <2>1
  <2> QED
    BY <1>11, <2>2
<1>13. below[v] = {}
  <2>1. IsFiniteSet(below[v])
    BY <1>3, <1>8, FS_Subset
  <2> QED
    BY <1>9, <1>12, <2>1, FS_EmptySet
<1>14. \A w \in C : w = v \/ FoundBefore(p, start, v, w)
  BY <1>7, <1>8, <1>13 DEF Before
<1>15. CycleFinder(p, s) = CHOOSE x \in C : \A w \in C : w = x \/ FoundBefore(p, start, x, w)
  BY DEF CycleFinder, start, C
<1>16. CycleFinder(p, s) \in C
  BY <1>14, <1>15
<1> QED
  BY <1>2, <1>16 DEF start, C

\* What lies on a cycle is in one component of the graph of the cycle's edges.
LEMMA CycleIsComponent ==
    ASSUME NEW p, NEW s, IsFiniteSet(s), NEW start \in s, NEW n \in Nat \ {0},
           NEW w, IsCycle(p, s, start, w, n), NEW E,
           \A k \in 1 .. n + 1 : <<IF k = 1 THEN start ELSE w[k - 1], w[k]>> \in E
    PROVE  \E c \in nontrivial_sccs([nodes |-> s, edges |-> E \cap s \X s]) : start \in c
<1> DEFINE F == E \cap s \X s
           c == SccOf(s, F, start)
<1>1. /\ w \in [1 .. n + 1 -> s] /\ w[n + 1] = start
      /\ w[1] \in s /\ w[1] # start
  BY DEF IsCycle
<1>2. \A k \in 1 .. n + 1 : <<IF k = 1 THEN start ELSE w[k - 1], w[k]>> \in F
  <2> SUFFICES ASSUME NEW k \in 1 .. n + 1
               PROVE  <<IF k = 1 THEN start ELSE w[k - 1], w[k]>> \in F
    OBVIOUS
  <2>1. w[k] \in s /\ (k # 1 => w[k - 1] \in s)
    BY <1>1
  <2> QED
    BY <2>1
<1> HIDE DEF F
<1>3. Reaches(s, F, start, w[1])
  <2>1. 1 \in 1 .. n + 1
    OBVIOUS
  <2>2. <<start, w[1]>> \in F
    BY <1>2, <2>1
  <2> QED
    BY <2>2, ReachesByEdge
<1>4. Reaches(s, F, w[1], start)
  <2> SUFFICES ASSUME NEW S \in SUBSET s, w[1] \in S, Closed(F, S), start \notin S PROVE FALSE
    BY DEF Reaches
  <2> DEFINE out == {k \in 1 .. n + 1 : w[k] \notin S}
  <2>1. n + 1 \in out /\ out \in SUBSET Nat
    BY <1>1
  <2>2. PICK k \in out : \A j \in out : k <= j
    BY <2>1, LeastNatural
  <2>3. k \in 1 .. n + 1 /\ w[k] \notin S /\ k # 1
    OBVIOUS
  <2>4. k - 1 \in 1 .. n + 1 /\ k - 1 \notin out
    BY <2>2, <2>3
  <2>5. w[k - 1] \in S
    BY <2>4
  <2>6. <<w[k - 1], w[k]>> \in F
    BY <1>2, <2>3
  <2> QED
    BY <2>3, <2>5, <2>6 DEF Closed
<1>5. c \in Sccs(s, F) /\ start \in c /\ w[1] \in c /\ c \in SUBSET s
  BY <1>1, <1>3, <1>4, SccOfSelf DEF Sccs, SccOf
<1> HIDE DEF c
<1>6. Cardinality(c) >= 2
  <2>1. IsFiniteSet(c) /\ Cardinality(c) \in Nat
    BY <1>5, FS_Subset, FS_CardinalityType
  <2>2. Cardinality(c) # 0
    BY <1>5, <2>1, FS_EmptySet
  <2>3. Cardinality(c) # 1
    <3> SUFFICES ASSUME Cardinality(c) = 1 PROVE FALSE
      OBVIOUS
    <3>1. \E x : c = {x}
      BY <2>1, FS_Singleton
    <3> QED
      BY <1>1, <1>5, <3>1
  <2> QED
    BY <2>1, <2>2, <2>3
<1> QED
  BY <1>5, <1>6 DEF nontrivial_sccs, F

\* SF.9 is lenient only with a component that has a cycle of conditional
\* includes through its least file.
LEMMA LenientOnlyIfConditional ==
    ASSUME NEW p, IsProject(p), NEW s \in nontrivial_sccs(graphOf(p)),
           s \notin Sf9NoCycles(p), s \notin InlineSplits
    PROVE  /\ p.conditional # {}
           /\ \E c \in nontrivial_sccs([nodes |-> s, edges |-> p.conditional \cap s \X s]) :
                  FrontOf(s) \in c
<1> DEFINE start == FrontOf(s)
           w == CycleFinder(p, s)
<1>1. start \in s /\ w \in CyclesThrough(p, s, start)
  BY CycleFinderFinds
<1>2. IsFiniteSet(s)
  BY ProjectGraph, NontrivialScc
<1>3. allEdgesConditional(p, start, w)
  BY DEF Sf9NoCycles, isInlineSplitScc
<1> HIDE DEF start, w
<1>4. PICK n \in 0 .. Cardinality(s) - 1 : Len(w) = n + 1 /\ IsCycle(p, s, start, w, n)
  BY <1>1, <1>2, CycleShape
<1>5. DOMAIN w = 1 .. n + 1
  BY <1>4 DEF IsCycle
<1>6. /\ n \in Nat \ {0}
      /\ \A k \in 1 .. n + 1 : <<IF k = 1 THEN start ELSE w[k - 1], w[k]>> \in p.conditional
  <2>1. Len(w) > 1
    BY <1>3 DEF allEdgesConditional
  <2>2. n \in Nat \ {0}
    BY <1>4, <2>1
  <2>3. \A k \in DOMAIN w : <<IF k = 1 THEN start ELSE w[k - 1], w[k]>> \in p.conditional
    BY <1>3 DEF allEdgesConditional
  <2> QED
    BY <1>5, <2>2, <2>3
<1>7. \E c \in nontrivial_sccs([nodes |-> s, edges |-> p.conditional \cap s \X s]) : start \in c
  BY <1>1, <1>2, <1>4, <1>6, CycleIsComponent
<1>8. p.conditional # {}
  <2>1. 1 \in 1 .. n + 1
    BY <1>6
  <2> QED
    BY <1>6, <2>1
<1> QED
  BY <1>7, <1>8 DEF start
-----------------------------------------------------------------------------
(* Theorems                                                                *)

\* A baseline of either kind that was saved whole accepts the sources that it
\* was saved from, whatever happened in between.
THEOREM SavedIsAccepted == Spec => []AcceptsItself
<1>1. ASSUME IInv PROVE AcceptsItself
  <2>1. ASSUME run.mode = "baseline", violationFile.of = sources,
               violationFile.status = "readable", violationFile.content = violationFile.whole
        PROVE  run.exitCode = 0 /\ run.findings = {}
    <3>1. violationFile.whole = checkViolations
      BY <1>1, <2>1 DEF IInv, ViolationFileInv, sources, checkViolations
    <3>2. run.findings = {} /\ run.exitCode = CheckExit(run.findings, FALSE)
      <4>1. filterNew(ToSet(checkViolations), ToSet(violationFile.content)) = {}
        BY <2>1, <3>1 DEF filterNew
      <4> QED
        BY <1>1, <2>1, <4>1 DEF IInv, RunInv
    <3> QED
      BY <3>2 DEF CheckExit, GatingIn
  <2>2. ASSUME run.mode = "drift", graphFile.of = sources, graphFile.status = "readable",
               graphFile.content = graphFile.whole
        PROVE  run.exitCode = 0 /\ run.drift = {}
    <3>1. assemble_graph(graphFile.content) = graphOf(project)
      BY <1>1, <2>2, LoadedGraphFile DEF sources
    <3>2. /\ FiniteGraph(graphOf(project))
          /\ graphOf(project) = [nodes |-> graphOf(project).nodes, edges |-> graphOf(project).edges]
      BY <1>1, ProjectGraph DEF IInv, graphOf
    <3>3. run.drift = {} /\ run.exitCode = DriftExit(run.drift)
      BY <1>1, <2>2, <3>1, <3>2, NothingDrifts DEF IInv, RunInv
    <3> QED
      BY <3>3 DEF DriftExit
  <2> QED
    BY <2>1, <2>2 DEF AcceptsItself
<1> QED
  BY <1>1, Invariance, PTL

\* A baseline that was cut off hides nothing that the whole one would show,
\* unless the change both adds a file and removes an include.
THEOREM PartialIsSafe == Spec => []PartialFileHidesNothing
<1>1. ASSUME IInv PROVE PartialFileHidesNothing
  <2>1. ASSUME run.mode = "baseline", run.exitCode = 0
        PROVE  CheckExit(filterNew(ToSet(checkViolations), ToSet(violationFile.whole)), FALSE) = 0
    <3> DEFINE whole == violationFile.whole
               all == ToSet(checkViolations)
    <3>1. violationFile.status = "readable"
      BY <1>1, <2>1 DEF IInv, RunInv
    <3> DEFINE p == violationFile.of[1]
               found == violationFile.of[2]
    <3>2. /\ IsProject(p) /\ found \in SUBSET Issue /\ whole = violationsIn(p, found)
          /\ \E n \in 0 .. Len(whole) : violationFile.content = SubSeq(whole, 1, n)
      BY <1>1, <3>1 DEF IInv, ViolationFileInv
    <3> HIDE DEF whole, p, found
    <3>3. whole \in Seq(ToSet(whole))
      <4>1. violationsIn(p, found) \in Seq(ToSet(violationsIn(p, found)))
        BY <3>2, ViolationsHold
      <4> QED
        BY <3>2, <4>1
    <3>4. ToSet(violationFile.content) \subseteq ToSet(whole)
      BY <3>2, <3>3, PrefixInside
    <3>5. CheckExit(all \ ToSet(violationFile.content), FALSE) = 0
      BY <1>1, <2>1, <3>1 DEF IInv, RunInv, filterNew
    <3>6. \A f \in all \ ToSet(whole) : f \in all \ ToSet(violationFile.content)
      BY <3>4
    <3> HIDE DEF all
    <3>7. CheckExit(all \ ToSet(whole), FALSE) = 0
      BY <3>5, <3>6 DEF CheckExit, GatingIn
    <3> QED
      BY <3>7 DEF all, whole, filterNew
  <2>2. ASSUME run.mode = "drift", run.exitCode = 0
        PROVE  LET whole == assemble_graph(graphFile.whole)
                   current == graphOf(project)
               IN  current.nodes \subseteq whole.nodes \/ whole.edges \subseteq current.edges
                     => DriftExit(DriftFindings(whole, current)) = 0
    <3> DEFINE whole == assemble_graph(graphFile.whole)
               part == assemble_graph(graphFile.content)
               current == graphOf(project)
    <3>1. graphFile.status = "readable"
      BY <1>1, <2>2 DEF IInv, RunInv
    <3>2. DriftExit(DriftFindings(part, current)) = 0
      BY <1>1, <2>2, <3>1 DEF IInv, RunInv
    <3>3. /\ FiniteGraph(whole) /\ whole = [nodes |-> whole.nodes, edges |-> whole.edges]
          /\ part.nodes = whole.nodes /\ part.edges \subseteq whole.edges
          /\ part = [nodes |-> part.nodes, edges |-> part.edges]
      BY <1>1, <3>1, LoadedGraphFile DEF graphOf
    <3>4. FiniteGraph(current) /\ current = [nodes |-> current.nodes, edges |-> current.edges]
      BY <1>1, ProjectGraph DEF IInv, graphOf
    <3>5. \A e \in current.edges : {e[1], e[2]} \subseteq part.nodes => e \in part.edges
      BY <3>2, PassedDrift
    <3> HIDE DEF whole, part, current
    <3>6. ASSUME current.nodes \subseteq whole.nodes
          PROVE  DriftExit(DriftFindings(whole, current)) = 0
      <4>1. current.edges \subseteq part.edges
        BY <3>3, <3>4, <3>5, <3>6 DEF FiniteGraph
      <4>2. DriftFindings(whole, current) = {}
        BY <3>3, <3>4, <3>6, <4>1, NothingDrifts
      <4> QED
        BY <4>2 DEF DriftExit
    <3>7. ASSUME whole.edges \subseteq current.edges
          PROVE  DriftExit(DriftFindings(whole, current)) = 0
      <4>1. whole.edges \subseteq part.edges
        BY <3>3, <3>5, <3>7 DEF FiniteGraph
      <4>2. whole = part
        BY <3>3, <4>1
      <4> QED
        BY <3>2, <4>2
    <3> QED
      BY <3>6, <3>7 DEF whole, part, current
  <2> QED
    BY <2>1, <2>2 DEF PartialFileHidesNothing
<1> QED
  BY <1>1, Invariance, PTL

\* Files that all were in the baseline form no cycle that they did not form
\* there, and the largest cycle has not grown, if --drift-baseline passes.
THEOREM DriftClosesNoCycle == Spec => []DriftGateClosesNoCycle
<1>1. ASSUME IInv PROVE DriftGateClosesNoCycle
  <2> SUFFICES ASSUME run.mode = "drift", run.exitCode = 0 PROVE DriftGateClosesNoCycle
    BY DEF DriftGateClosesNoCycle
  <2> DEFINE baseline == assemble_graph(graphFile.content)
             current == graphOf(project)
  <2>1. graphFile.status = "readable"
    BY <1>1 DEF IInv, RunInv
  <2>2. DriftExit(DriftFindings(baseline, current)) = 0
    BY <1>1, <2>1 DEF IInv, RunInv
  <2>3. FiniteGraph(baseline) /\ FiniteGraph(current)
    BY <1>1, <2>1, LoadedGraphFile, ProjectGraph DEF IInv
  <2>4. /\ \A e \in current.edges : {e[1], e[2]} \subseteq baseline.nodes => e \in baseline.edges
        /\ grownSccs(baseline, current) = {}
    BY <2>2, PassedDrift
  <2> HIDE DEF baseline, current
  <2>5. LargestCycle(current) <= LargestCycle(baseline)
    <3> DEFINE Sizes(g) == {Cardinality(s) : s \in nontrivial_sccs(g)} \cup {0}
    <3>1. ASSUME NEW g, FiniteGraph(g)
          PROVE  /\ LargestCycle(g) \in Sizes(g) /\ LargestCycle(g) \in Nat
                 /\ \A n \in Sizes(g) : n <= LargestCycle(g)
      <4>1. Sizes(g) \subseteq Nat /\ \E n \in Sizes(g) : \A m \in Sizes(g) : m <= n
        BY <3>1, LargestSize
      <4>2. LargestCycle(g) = Max(Sizes(g))
        BY DEF LargestCycle
      <4> HIDE DEF Sizes
      <4> QED
        BY <4>1, <4>2 DEF Max
    <3>2. \A g : 0 \in Sizes(g) /\ \A s \in nontrivial_sccs(g) : Cardinality(s) \in Sizes(g)
      OBVIOUS
    <3>3. /\ LargestCycle(baseline) \in Nat
          /\ \A n \in Sizes(baseline) : n <= LargestCycle(baseline)
          /\ LargestCycle(current) \in Sizes(current)
      BY <2>3, <3>1
    <3>4. CASE LargestCycle(current) = 0
      BY <3>3, <3>4
    <3>5. CASE \E s \in nontrivial_sccs(current) : LargestCycle(current) = Cardinality(s)
      <4>1. PICK s \in nontrivial_sccs(current) : LargestCycle(current) = Cardinality(s)
        BY <3>5
      <4>2. PICK b \in nontrivial_sccs(baseline) : Cardinality(s) <= Cardinality(b)
        BY <2>3, <2>4, NotGrown
      <4>3. Cardinality(b) <= LargestCycle(baseline)
        BY <3>2, <3>3
      <4>4. Cardinality(s) \in Nat /\ Cardinality(b) \in Nat
        BY <2>3, NontrivialScc
      <4> QED
        BY <3>3, <4>1, <4>2, <4>3, <4>4
    <3> QED
      BY <3>3, <3>4, <3>5
  <2>6. ASSUME NEW s \in nontrivial_sccs(current), s \subseteq baseline.nodes
        PROVE  \E b \in nontrivial_sccs(baseline) : s \subseteq b
    <3> DEFINE inner == [nodes |-> s, edges |-> current.edges \cap s \X s]
    <3>1. FiniteGraph(inner) /\ s \in nontrivial_sccs(inner)
      BY <2>3, NontrivialInside
    <3>2. inner.nodes \subseteq baseline.nodes /\ inner.edges \subseteq baseline.edges
      BY <2>4, <2>6
    <3> HIDE DEF inner
    <3> QED
      BY <2>3, <3>1, <3>2, NontrivialInLarger
  <2> QED
    BY <2>5, <2>6 DEF DriftGateClosesNoCycle, baseline, current
<1> QED
  BY <1>1, Invariance, PTL

\* A run without a baseline fails for include cycles exactly when there are
\* some that may not be treated with leniency.
THEOREM CycleGateHolds == Spec => []CycleGateIsTrue
<1>1. ASSUME IInv PROVE CycleGateIsTrue
  <2> SUFFICES ASSUME run.mode = "check", issues = {} PROVE CycleGateIsTrue
    BY DEF CycleGateIsTrue
  <2> DEFINE found == Sf9NoCycles(project)
             all == nontrivial_sccs(graphOf(project))
             cycles == Sf9Findings(project)
             lakos == LakosFindings(project)
  <2>1. IsProject(project) /\ run.findings = ToSet(checkViolations)
    BY <1>1 DEF IInv, RunInv
  <2>2. PICK lenient \in BOOLEAN : run.exitCode = CheckExit(run.findings, lenient)
    BY <1>1 DEF IInv, RunInv
  <2>3. run.findings = cycles \cup lakos
    <3>1. {} \in SUBSET Issue /\ checkViolations = violationsIn(project, {})
      BY DEF checkViolations
    <3>2. ToSet(violationsIn(project, {})) = AllFindings(project, {})
      BY <2>1, <3>1, ViolationsHold
    <3> QED
      BY <2>1, <3>1, <3>2 DEF AllFindings
  <2>4. \A f \in lakos : ~GatesCheck(f.rule, lenient)
    <3>1. \A f \in lakos : f.rule \in {"Lakos.GodHeader", "Lakos.ChainLength"}
      BY DEF LakosFindings, At
    <3> HIDE DEF lakos
    <3> QED
      BY <3>1 DEF GatesCheck
  <2>5. \A f \in cycles : GatesCheck(f.rule, lenient)
    <3>1. \A f \in cycles : f.rule = "SF.9"
      BY DEF Sf9Findings, At
    <3> HIDE DEF cycles
    <3> QED
      BY <3>1 DEF GatesCheck
  <2>6. cycles # {} <=> found # {}
    BY DEF Sf9Findings, At
  <2> HIDE DEF cycles, lakos
  <2>7. GatingIn(run.findings, lenient) = cycles
    BY <2>3, <2>4, <2>5 DEF GatingIn
  <2>8. (run.exitCode = 1 <=> found # {}) /\ (run.exitCode = 0 <=> found = {})
    BY <2>2, <2>6, <2>7 DEF CheckExit
  <2>9. \A s \in found : s \in all \ InlineSplits
    BY DEF Sf9NoCycles, isInlineSplitScc
  <2>10. ASSUME run.exitCode = 0, NEW s \in all \ InlineSplits PROVE WhollyConditional(s)
    <3>1. s \notin found
      BY <2>8, <2>10
    <3> QED
      BY <2>1, <3>1, LenientOnlyIfConditional DEF WhollyConditional
  <2> QED
    BY <2>8, <2>9, <2>10 DEF CycleGateIsTrue
<1> QED
  BY <1>1, Invariance, PTL

\* Two modules that come to depend on each other are reported as such: by DRIFT.3
\* with their names, or, where the edge is half of a cycle of two files, by SF.9
\* with the component of these two, unless that is forgiven as conditional.
THEOREM CouplingReported == Spec => []CouplingIsReported
<1>1. ASSUME IInv PROVE CouplingIsReported
  <2> DEFINE baseline == assemble_graph(graphFile.content)
             current == graphOf(project)
             old == areaDeps(baseline)
             now == areaDeps(current)
             SF9(s) == [rule |-> "SF.9", file |-> FrontOf(s), line |-> 0]
  <2> SUFFICES ASSUME run.mode = "drift", run.exitCode # 2,
                      NEW a \in now, Reversed(a) \in now, ~({a, Reversed(a)} \subseteq old)
               PROVE  \/ [rule |-> "DRIFT.3", at |-> {a[1], a[2]}] \in run.drift
                      \/ \E s \in nontrivial_sccs(current) :
                            /\ MutualAcross(a, s, current.edges)
                            /\ SF9(s) \in run.findings \/ WhollyConditional(s)
    BY DEF CouplingIsReported
  <2>1. graphFile.status = "readable"
    BY <1>1 DEF IInv, RunInv
  <2>2. /\ IsProject(project) /\ issues \in SUBSET Issue
        /\ run.findings = ToSet(checkViolations)
        /\ run.drift = DriftFindings(baseline, current)
    BY <1>1, <2>1 DEF IInv, RunInv
  <2>3. /\ FiniteGraph(current) /\ current.edges = EdgesOf(project)
        /\ current.edges \subseteq current.nodes \X current.nodes
    BY <2>2, ProjectGraph
  <2> HIDE DEF baseline, current
  <2>4. \A b \in now : Reversed(Reversed(b)) = b /\ b[1] # b[2] /\ NoDir \notin {b[1], b[2]}
    <3>1. \A b \in now : b = <<b[1], b[2]>> /\ b[1] # b[2] /\ NoDir \notin {b[1], b[2]}
      BY DEF areaDeps, areaEdge
    <3> QED
      BY <3>1 DEF Reversed
  <2>5. PICK b \in {a, Reversed(a)} : b \notin old
    OBVIOUS
  <2>6. b \in now /\ {b, Reversed(b)} = {a, Reversed(a)}
    BY <2>4
  <2>7. PICK x \in current.edges : b = areaEdge(x)
    BY <2>6 DEF areaDeps
  <2>8. x \in addedEdges(baseline, current)
    BY <2>4, <2>5, <2>6, <2>7 DEF addedEdges, areaDeps
  <2>9. /\ {areaEdge(x), Reversed(areaEdge(x))} \subseteq now
        /\ ~({areaEdge(x), Reversed(areaEdge(x))} \subseteq old)
    BY <2>5, <2>6, <2>7
  <2>10. {areaOf[x[1]], areaOf[x[2]]} = {a[1], a[2]}
    <3>1. areaOf[x[1]] = b[1] /\ areaOf[x[2]] = b[2]
      BY <2>7 DEF areaEdge
    <3>2. {b[1], b[2]} = {a[1], a[2]}
      BY <2>5 DEF Reversed
    <3> QED
      BY <3>1, <3>2
  <2> HIDE DEF now, old
  <2>11. CASE Reversed(x) \notin current.edges
    <3>1. {areaOf[x[1]], areaOf[x[2]]} \in DriftBidirectionalCoupling(baseline, current)
      BY <2>8, <2>9, <2>11 DEF DriftBidirectionalCoupling, now, old
    <3>2. [rule |-> "DRIFT.3", at |-> {areaOf[x[1]], areaOf[x[2]]}]
              \in DriftFindings(baseline, current)
      BY <3>1 DEF DriftFindings
    <3> QED
      BY <2>2, <2>10, <3>2
  <2>12. CASE Reversed(x) \in current.edges
    <3> DEFINE s == SccOf(current.nodes, current.edges, x[1])
    <3>1. x[1] \in current.nodes /\ x[2] \in current.nodes /\ x = <<x[1], x[2]>>
      BY <2>3
    <3>2. x[1] # x[2] /\ areaOf[x[1]] # areaOf[x[2]] /\ NoDir \notin {areaOf[x[1]], areaOf[x[2]]}
      BY <2>4, <2>6, <2>7 DEF areaEdge
    <3>3. /\ Reaches(current.nodes, current.edges, x[1], x[2])
          /\ Reaches(current.nodes, current.edges, x[2], x[1])
      BY <2>12, <3>1, ReachesByEdge DEF Reversed
    <3>4. s \in Sccs(current.nodes, current.edges) /\ x[1] \in s /\ x[2] \in s
      BY <3>1, <3>3, SccOfSelf DEF Sccs, SccOf
    <3> HIDE DEF s
    <3>5. s \in nontrivial_sccs(current)
      <4>1. IsFiniteSet(s) /\ Cardinality(s) \in Nat
        BY <2>3, <3>4, GraphFinite
      <4>2. Cardinality(s) # 0 /\ Cardinality(s) # 1
        <5>1. s # {} /\ ~\E y : s = {y}
          BY <3>2, <3>4
        <5> QED
          BY <4>1, <5>1, FS_EmptySet, FS_Singleton
      <4>3. Cardinality(s) >= 2
        BY <4>1, <4>2
      <4> QED
        BY <3>4, <4>3 DEF nontrivial_sccs
    <3>6. s \notin InlineSplits
      BY <3>2, <3>4, InlineSplitsAssumption
    <3>7. s \in Sf9NoCycles(project) \/ WhollyConditional(s)
      BY <2>2, <3>5, <3>6, LenientOnlyIfConditional DEF current, WhollyConditional
    <3>8. s \in Sf9NoCycles(project) => SF9(s) \in run.findings
      <4>1. s \in Sf9NoCycles(project) => SF9(s) \in Sf9Findings(project)
        BY DEF At, Sf9Findings
      <4>2. ToSet(violationsIn(project, issues)) = AllFindings(project, issues)
        BY <2>2, ViolationsHold
      <4> QED
        BY <2>2, <4>1, <4>2 DEF checkViolations, AllFindings
    <3>9. MutualAcross(a, s, current.edges)
      BY <2>12, <2>10, <3>4 DEF MutualAcross
    <3> QED
      BY <3>5, <3>7, <3>8, <3>9
  <2> QED
    BY <2>11, <2>12
<1> QED
  BY <1>1, Invariance, PTL
=============================================================================
