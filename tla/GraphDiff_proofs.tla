-------------------------- MODULE GraphDiff_proofs --------------------------
(***************************************************************************)
(* Facts about Reachability and GraphDiff that the proofs about the graph   *)
(* algorithms, the gate and the rules share: components, what becomes of    *)
(* them when edges come and go, and which of them are found to have grown.  *)
(***************************************************************************)
EXTENDS GraphDiff, FiniteSetTheorems, SequenceTheorems, WellFoundedInduction, TLAPS

\* A node reaches itself.
LEMMA ReachesSelf ==
    ASSUME NEW V, NEW E, NEW a
    PROVE  Reaches(V, E, a, a)
BY DEF Reaches

\* An edge is a way from its one end to the other.
LEMMA ReachesByEdge ==
    ASSUME NEW V, NEW E, NEW a, NEW b, <<a, b>> \in E
    PROVE  Reaches(V, E, a, b)
BY DEF Reaches, Closed

\* Two ways make one.
LEMMA ReachesTransitive ==
    ASSUME NEW V, NEW E, NEW a, NEW b, NEW c,
           Reaches(V, E, a, b), Reaches(V, E, b, c)
    PROVE  Reaches(V, E, a, c)
BY DEF Reaches

\* No way leads out of a closed set.
LEMMA ReachesStaysInside ==
    ASSUME NEW V, NEW E, NEW a, NEW b, NEW S \in SUBSET V,
           a \in S, Closed(E, S), Reaches(V, E, a, b)
    PROVE  b \in S
BY DEF Reaches

\* A set of natural numbers that is not empty has a least element.
LEMMA LeastNatural ==
    ASSUME NEW S \in SUBSET Nat, S # {}
    PROVE  \E m \in S : \A k \in S : m <= k
<1>1. PICK m \in S : \A k \in S : <<k, m>> \notin OpToRel(<, Nat)
  BY WFMin, NatLessThanWellFounded, Zenon
<1>2. \A k \in S : ~(k < m)
  BY <1>1, Zenon DEF OpToRel
<1>3. \A k \in S : k \in Nat
  OBVIOUS
<1> QED
  BY <1>2, <1>3
-----------------------------------------------------------------------------
(* Strongly connected components.                                          *)

\* A component holds the node it is the component of.
LEMMA SccOfSelf == ASSUME NEW V, NEW E, NEW a \in V PROVE a \in SccOf(V, E, a)
BY ReachesSelf DEF SccOf

\* The nodes of a component reach each other, and it is the component of each.
LEMMA SccOfMember ==
    ASSUME NEW V, NEW E, NEW s \in Sccs(V, E), NEW a \in s
    PROVE  /\ a \in V
           /\ s = SccOf(V, E, a)
           /\ \A b \in s : Reaches(V, E, a, b)
<1>1. PICK r \in V : s = SccOf(V, E, r)
  BY DEF Sccs
<1>2. a \in V /\ Reaches(V, E, r, a) /\ Reaches(V, E, a, r)
  BY <1>1 DEF SccOf
<1>3. \A b \in V : Reaches(V, E, r, b) <=> Reaches(V, E, a, b)
  BY <1>2, ReachesTransitive
<1>4. \A b \in V : Reaches(V, E, b, r) <=> Reaches(V, E, b, a)
  BY <1>2, ReachesTransitive
<1>5. s = SccOf(V, E, a)
  BY <1>1, <1>3, <1>4 DEF SccOf
<1> QED
  BY <1>2, <1>5 DEF SccOf

\* The components are a partition of the nodes.
LEMMA SccsPartition ==
    ASSUME NEW V, NEW E
    PROVE  /\ \A s \in Sccs(V, E) : s \subseteq V /\ s # {}
           /\ \A s, t \in Sccs(V, E) : s \cap t # {} => s = t
           /\ \A a \in V : SccOf(V, E, a) \in Sccs(V, E)
<1>1. ASSUME NEW s \in Sccs(V, E) PROVE s \subseteq V /\ s # {}
  BY SccOfSelf DEF Sccs, SccOf
<1>2. ASSUME NEW s \in Sccs(V, E), NEW t \in Sccs(V, E), NEW a \in s \cap t PROVE s = t
  <2>1. s = SccOf(V, E, a)
    BY SccOfMember
  <2>2. t = SccOf(V, E, a)
    BY SccOfMember
  <2> QED
    BY <2>1, <2>2
<1> QED
  BY <1>1, <1>2 DEF Sccs

\* A larger graph has all the ways of a smaller one.
LEMMA ReachesInLarger ==
    ASSUME NEW V, NEW E, NEW W, NEW F, V \subseteq W, E \subseteq F, E \subseteq V \X V,
           NEW a \in V, NEW b, Reaches(V, E, a, b)
    PROVE  Reaches(W, F, a, b)
<1> SUFFICES ASSUME NEW S \in SUBSET W, a \in S, Closed(F, S) PROVE b \in S
  BY DEF Reaches
<1>1. Closed(E, S \cap V)
  <2> SUFFICES ASSUME NEW e \in E, e[1] \in S \cap V PROVE e[2] \in S \cap V
    BY DEF Closed
  <2>1. e[2] \in V
    OBVIOUS
  <2>2. e[2] \in S
    BY DEF Closed
  <2> QED
    BY <2>1, <2>2
<1>2. b \in S \cap V
  BY <1>1, ReachesStaysInside
<1> QED
  BY <1>2

\* So each of its components lies within one of the larger graph.
LEMMA SccsInLarger ==
    ASSUME NEW V, NEW E, NEW W, NEW F, V \subseteq W, E \subseteq F, E \subseteq V \X V,
           NEW s \in Sccs(V, E)
    PROVE  \E t \in Sccs(W, F) : s \subseteq t
<1>1. PICK a \in V : s = SccOf(V, E, a)
  BY DEF Sccs
<1>2. \A b \in s : b \in W /\ Reaches(W, F, a, b) /\ Reaches(W, F, b, a)
  BY <1>1, ReachesInLarger DEF SccOf
<1>3. s \subseteq SccOf(W, F, a) /\ SccOf(W, F, a) \in Sccs(W, F)
  BY <1>2 DEF SccOf, Sccs
<1> QED
  BY <1>3

\* f renames the nodes of one graph to those of another, edges and all.
IsRenaming(f, V, E, W, F) ==
    /\ f \in [V -> W]
    /\ E \subseteq V \X V
    /\ \A v, w \in V : f[v] = f[w] => v = w
    /\ W = {f[v] : v \in V}
    /\ F = {<<f[e[1]], f[e[2]]>> : e \in E}

\* Renaming the nodes renames the ways.
LEMMA ReachesRenamed ==
    ASSUME NEW V, NEW E, NEW W, NEW F, NEW f, IsRenaming(f, V, E, W, F),
           NEW a \in V, NEW b \in V
    PROVE  Reaches(V, E, a, b) <=> Reaches(W, F, f[a], f[b])
<1> USE DEF IsRenaming
<1>0. \A e \in E : e[1] \in V /\ e[2] \in V
  OBVIOUS
<1>1. ASSUME Reaches(V, E, a, b) PROVE Reaches(W, F, f[a], f[b])
  <2> SUFFICES ASSUME NEW S \in SUBSET W, f[a] \in S, Closed(F, S) PROVE f[b] \in S
    BY DEF Reaches
  <2> DEFINE P == {v \in V : f[v] \in S}
  <2>1. ASSUME NEW e \in E, e[1] \in P PROVE e[2] \in P
    <3>1. <<f[e[1]], f[e[2]]>> \in F
      OBVIOUS
    <3>2. f[e[1]] \in S => f[e[2]] \in S
      BY <3>1 DEF Closed
    <3> QED
      BY <1>0, <2>1, <3>2
  <2>2. Closed(E, P) /\ P \in SUBSET V /\ a \in P
    BY <2>1 DEF Closed
  <2>3. b \in P
    BY <1>1, <2>2, ReachesStaysInside
  <2> QED
    BY <2>3
<1>2. ASSUME Reaches(W, F, f[a], f[b]) PROVE Reaches(V, E, a, b)
  <2> SUFFICES ASSUME NEW S \in SUBSET V, a \in S, Closed(E, S) PROVE b \in S
    BY DEF Reaches
  <2> DEFINE I == {f[v] : v \in S}
  <2>1. ASSUME NEW d \in F, d[1] \in I PROVE d[2] \in I
    <3>1. PICK e \in E : d = <<f[e[1]], f[e[2]]>>
      OBVIOUS
    <3>2. PICK v \in S : d[1] = f[v]
      BY <2>1
    <3>3. f[e[1]] = f[v] /\ v \in V /\ d[2] = f[e[2]]
      BY <3>1, <3>2
    <3>4. e[1] = v
      BY <1>0, <3>3
    <3>5. e[2] \in S
      BY <3>2, <3>4 DEF Closed
    <3> QED
      BY <3>3, <3>5
  <2>2. Closed(F, I) /\ I \in SUBSET W /\ f[a] \in I
    BY <2>1 DEF Closed
  <2> HIDE DEF I
  <2>3. f[b] \in I
    BY <1>2, <2>2, ReachesStaysInside
  <2>4. PICK v \in S : f[b] = f[v]
    BY <2>3 DEF I
  <2> QED
    BY <2>4
<1> QED
  BY <1>1, <1>2

\* So it renames the components, which keep their size.
LEMMA SccsRenamed ==
    ASSUME NEW V, NEW E, NEW W, NEW F, NEW f, IsRenaming(f, V, E, W, F),
           NEW s \in Sccs(V, E), IsFiniteSet(s)
    PROVE  /\ {f[v] : v \in s} \in Sccs(W, F)
           /\ Cardinality({f[v] : v \in s}) = Cardinality(s)
<1> DEFINE t == {f[v] : v \in s}
<1>1. PICK r \in V : s = SccOf(V, E, r)
  BY DEF Sccs
<1>2. \A a, b \in V : Reaches(V, E, a, b) <=> Reaches(W, F, f[a], f[b])
  BY ReachesRenamed
<1> USE DEF IsRenaming
<1>3. ASSUME NEW w \in t PROVE w \in SccOf(W, F, f[r])
  <2>1. PICK v \in s : w = f[v]
    OBVIOUS
  <2>2. v \in V /\ Reaches(V, E, r, v) /\ Reaches(V, E, v, r)
    BY <1>1 DEF SccOf
  <2> QED
    BY <1>2, <2>1, <2>2 DEF SccOf
<1>4. ASSUME NEW w \in SccOf(W, F, f[r]) PROVE w \in t
  <2>1. PICK v \in V : w = f[v]
    BY DEF SccOf
  <2>2. Reaches(V, E, r, v) /\ Reaches(V, E, v, r)
    BY <1>2, <2>1 DEF SccOf
  <2> QED
    BY <1>1, <2>1, <2>2 DEF SccOf
<1>5. t = SccOf(W, F, f[r]) /\ f[r] \in W
  BY <1>3, <1>4
<1>6. s \subseteq V
  BY <1>1 DEF SccOf
<1>7. [v \in s |-> f[v]] \in Bijection(s, t)
  BY <1>6 DEF Bijection, Injection, Surjection, IsInjective
<1> HIDE DEF t
<1>8. Cardinality(t) = Cardinality(s)
  BY <1>7, FS_Bijection DEF ExistsBijection
<1>9. t \in Sccs(W, F)
  BY <1>5 DEF Sccs
<1> QED
  BY <1>8, <1>9 DEF t

\* The nodes of a component reach each other without leaving it.
LEMMA ReachesInsideScc ==
    ASSUME NEW V, NEW E, E \subseteq V \X V, NEW s \in Sccs(V, E), NEW a \in s, NEW b \in s
    PROVE  Reaches(s, E \cap s \X s, a, b)
<1>1. /\ s = SccOf(V, E, a) /\ a \in V /\ Reaches(V, E, a, b) /\ Reaches(V, E, b, a)
      /\ \A x \in s : Reaches(V, E, a, x)
  BY SccOfMember
<1> SUFFICES ASSUME NEW S \in SUBSET s, a \in S, Closed(E \cap s \X s, S) PROVE b \in S
  BY DEF Reaches
<1> DEFINE T == S \cup {x \in V : ~Reaches(V, E, x, a)}
<1>2. s \subseteq V
  BY SccsPartition
<1>3. ASSUME NEW e \in E, e[1] \in T PROVE e[2] \in T
  <2>1. e = <<e[1], e[2]>> /\ e[1] \in V /\ e[2] \in V
    OBVIOUS
  <2>2. Reaches(V, E, e[1], e[2])
    BY <2>1, ReachesByEdge
  <2>3. CASE ~Reaches(V, E, e[1], a)
    BY <2>1, <2>2, <2>3, ReachesTransitive
  <2>4. CASE e[1] \in S /\ e[2] \in s
    <3>1. e \in E \cap s \X s
      BY <2>1, <2>4
    <3> QED
      BY <2>4, <3>1 DEF Closed
  <2>5. CASE e[1] \in S /\ e[2] \notin s
    <3>1. Reaches(V, E, a, e[2])
      BY <1>1, <2>2, <2>5, ReachesTransitive
    <3>2. ~Reaches(V, E, e[2], a)
      BY <1>1, <2>1, <2>5, <3>1 DEF SccOf
    <3> QED
      BY <2>1, <3>2
  <2> QED
    BY <1>3, <2>3, <2>4, <2>5
<1>4. T \in SUBSET V /\ a \in T /\ Closed(E, T)
  BY <1>2, <1>3 DEF Closed
<1> HIDE DEF T
<1>5. b \in T
  BY <1>1, <1>4, ReachesStaysInside
<1> QED
  BY <1>1, <1>5 DEF T
-----------------------------------------------------------------------------
(* Sequences, and sorting a finite set.                                    *)

\* A function on 1 .. n is a sequence of n.
LEMMA LenIs ==
    ASSUME NEW S, NEW n \in Nat, NEW s \in [1 .. n -> S]
    PROVE  s \in Seq(S) /\ Len(s) = n
<1>1. s \in Seq(S)
  BY SeqDef
<1>2. PICK L \in Nat : L = Len(s)
  BY <1>1
<1>3. 1 .. L = 1 .. n
  BY <1>1, <1>2
<1>4. L \in 1 .. n \/ L = 0
  BY <1>2, <1>3
<1>5. n \in 1 .. L \/ n = 0
  BY <1>3
<1> QED
  BY <1>1, <1>2, <1>4, <1>5

\* In a strict total order every element has a rank of its own, the number of
\* elements below it, and every rank is taken.
LEMMA Ranks ==
    ASSUME NEW T, IsFiniteSet(T), NEW below \in [T -> SUBSET T],
           \A a, b, c \in T : a \in below[b] /\ b \in below[c] => a \in below[c],
           \A a \in T : a \notin below[a],
           \A a, b \in T : a = b \/ a \in below[b] \/ b \in below[a],
           NEW rank, \A a \in T : rank[a] = Cardinality(below[a])
    PROVE  /\ Cardinality(T) \in Nat
           /\ \A a \in T : rank[a] \in Nat
           /\ \A a, b \in T : a \in below[b] => rank[a] < rank[b]
           /\ \A a, b \in T : rank[a] = rank[b] => a = b
           /\ \A i \in 1 .. Cardinality(T) : \E a \in T : rank[a] = i - 1
<1> DEFINE n == Cardinality(T)
           place == [a \in T |-> rank[a] + 1]
<1>1. n \in Nat /\ IsFiniteSet(1 .. n) /\ Cardinality(1 .. n) = n
  <2>1. n \in Nat
    BY FS_CardinalityType
  <2>2. n - 1 + 1 = n /\ 1 \in Int /\ n \in Int
    BY <2>1
  <2> QED
    BY <2>1, <2>2, FS_Interval
<1>2. ASSUME NEW a \in T
      PROVE  IsFiniteSet(below[a]) /\ rank[a] \in Nat /\ rank[a] < n
  <2>1. below[a] \in SUBSET T /\ a \notin below[a]
    OBVIOUS
  <2>2. IsFiniteSet(below[a]) /\ rank[a] <= n /\ rank[a] # n
    BY <2>1, FS_Subset
  <2>3. rank[a] \in Nat
    BY <2>2, FS_CardinalityType
  <2> QED
    BY <1>1, <2>2, <2>3
<1>3. ASSUME NEW a \in T, NEW b \in T, a \in below[b]
      PROVE  rank[a] < rank[b]
  <2>1. below[a] \in SUBSET below[b]
    <3>1. below[a] \in SUBSET T
      OBVIOUS
    <3> QED
      BY <1>3, <3>1
  <2>2. a \in below[b] /\ a \notin below[a]
    BY <1>3
  <2>3. IsFiniteSet(below[b]) /\ rank[a] \in Nat /\ rank[b] \in Nat
    BY <1>2
  <2>4. rank[a] <= rank[b] /\ rank[a] # rank[b]
    BY <2>1, <2>2, <2>3, FS_Subset
  <2> QED
    BY <2>3, <2>4
<1>4. \A a, b \in T : rank[a] = rank[b] => a = b
  <2> SUFFICES ASSUME NEW a \in T, NEW b \in T, rank[a] = rank[b] PROVE a = b
    OBVIOUS
  <2>1. rank[a] \in Nat /\ rank[b] \in Nat
    BY <1>2
  <2>2. a \notin below[b] /\ b \notin below[a]
    BY <1>3, <2>1
  <2> QED
    BY <2>2
<1>5. \A a \in T : place[a] = rank[a] + 1 /\ place[a] \in 1 .. n
  <2> SUFFICES ASSUME NEW a \in T PROVE rank[a] + 1 \in 1 .. n
    OBVIOUS
  <2>1. rank[a] \in Nat /\ rank[a] < n /\ n \in Nat
    BY <1>1, <1>2
  <2> HIDE DEF n
  <2> QED
    BY <2>1
<1>6. place \in [T -> 1 .. n]
  BY <1>5
<1>7. \A a, b \in T : place[a] = place[b] => a = b
  <2> SUFFICES ASSUME NEW a \in T, NEW b \in T, place[a] = place[b] PROVE a = b
    OBVIOUS
  <2>1. rank[a] \in Nat /\ rank[b] \in Nat /\ rank[a] + 1 = rank[b] + 1
    BY <1>2, <1>5
  <2> QED
    BY <1>4, <2>1
<1> HIDE DEF place, n
<1>8. place \in Injection(T, 1 .. n)
  BY <1>6, <1>7 DEF Injection, IsInjective
<1>9. place \in Surjection(T, 1 .. n)
  BY <1>1, <1>8, FS_Injection DEF n
<1>10. ASSUME NEW i \in 1 .. n PROVE \E a \in T : rank[a] = i - 1
  <2>1. PICK a \in T : place[a] = i
    BY <1>9 DEF Surjection
  <2>2. rank[a] \in Nat /\ rank[a] + 1 = i
    BY <1>2, <1>5, <2>1
  <2> QED
    BY <2>2
<1> QED
  BY <1>1, <1>2, <1>3, <1>4, <1>10 DEF n

\* A finite set can be sorted by numbers that tell its elements apart.
LEMMA SortedExists ==
    ASSUME NEW T, IsFiniteSet(T), NEW key \in [T -> Nat],
           \A a, b \in T : key[a] = key[b] => a = b
    PROVE  \E s \in [1 .. Cardinality(T) -> T] :
               \A i, j \in 1 .. Cardinality(T) : i < j => key[s[i]] < key[s[j]]
<1> DEFINE n == Cardinality(T)
           below == [a \in T |-> {d \in T : key[d] < key[a]}]
           rank == [a \in T |-> Cardinality(below[a])]
           s == [i \in 1 .. n |-> CHOOSE a \in T : rank[a] = i - 1]
<1>1. \A a, b \in T : a \in below[b] <=> key[a] < key[b]
  OBVIOUS
<1>2. \A a \in T : key[a] \in Nat
  OBVIOUS
<1>3. /\ n \in Nat
      /\ \A a \in T : rank[a] \in Nat
      /\ \A a, b \in T : a \in below[b] => rank[a] < rank[b]
      /\ \A i \in 1 .. n : \E a \in T : rank[a] = i - 1
  <2>1. below \in [T -> SUBSET T] /\ \A a \in T : rank[a] = Cardinality(below[a])
    OBVIOUS
  <2> HIDE DEF below, rank
  <2>2. \A a, b, c \in T : a \in below[b] /\ b \in below[c] => a \in below[c]
    BY <1>1, <1>2
  <2>3. \A a \in T : a \notin below[a]
    BY <1>1, <1>2
  <2>4. \A a, b \in T : a = b \/ a \in below[b] \/ b \in below[a]
    <3> SUFFICES ASSUME NEW a \in T, NEW b \in T, a # b
                 PROVE  key[a] < key[b] \/ key[b] < key[a]
      BY <1>1
    <3>1. key[a] \in Nat /\ key[b] \in Nat /\ key[a] # key[b]
      BY <1>2
    <3> QED
      BY <3>1
  <2> QED
    BY <2>1, <2>2, <2>3, <2>4, Ranks
<1> HIDE DEF below
<1> HIDE DEF rank, n
<1>4. \A i \in 1 .. n : s[i] \in T /\ rank[s[i]] = i - 1
  BY <1>3
<1>5. ASSUME NEW i \in 1 .. n, NEW j \in 1 .. n, i < j PROVE key[s[i]] < key[s[j]]
  <2>1. s[i] \in T /\ s[j] \in T /\ rank[s[i]] = i - 1 /\ rank[s[j]] = j - 1
    BY <1>4
  <2> HIDE DEF s
  <2>2. s[i] # s[j] /\ s[j] \notin below[s[i]]
    BY <1>3, <1>5, <2>1
  <2> QED
    BY <1>1, <1>2, <2>1, <2>2
<1>6. s \in [1 .. n -> T]
  BY <1>4
<1> QED
  BY <1>5, <1>6 DEF n

\* Sorting it leaves no element out.
LEMMA SortedIsOnto ==
    ASSUME NEW T, IsFiniteSet(T), NEW s \in [1 .. Cardinality(T) -> T],
           \A i, j \in 1 .. Cardinality(T) : i < j => s[i] # s[j]
    PROVE  /\ {s[i] : i \in 1 .. Cardinality(T)} = T
           /\ \A a \in T : \E i \in 1 .. Cardinality(T) : s[i] = a
<1> DEFINE n == Cardinality(T)
<1>1. n \in Nat
  BY FS_CardinalityType
<1>2. IsFiniteSet(1 .. n) /\ Cardinality(1 .. n) = n
  <2>1. n - 1 + 1 = n /\ 1 \in Int /\ n \in Int
    BY <1>1
  <2> QED
    BY <1>1, <2>1, FS_Interval
<1> HIDE DEF n
<1>3. \A i, j \in 1 .. n : s[i] = s[j] => i = j
  BY <1>1 DEF n
<1>4. s \in Injection(1 .. n, T)
  BY <1>3 DEF Injection, IsInjective, n
<1>5. s \in Surjection(1 .. n, T)
  BY <1>2, <1>4, FS_Injection DEF n
<1> QED
  BY <1>5 DEF Surjection, n
-----------------------------------------------------------------------------
(* What the comparison of two graphs finds.                                *)

FiniteGraph(g) ==
    IsFiniteSet(g.nodes) /\ g.nodes \subseteq Nat /\ g.edges \subseteq g.nodes \X g.nodes

\* A graph and its components are finite.
LEMMA GraphFinite ==
    ASSUME NEW g, FiniteGraph(g)
    PROVE  /\ IsFiniteSet(g.nodes) /\ IsFiniteSet(g.edges) /\ g.nodes \subseteq Nat
           /\ \A s \in Sccs(g.nodes, g.edges) :
                s \subseteq g.nodes /\ IsFiniteSet(s) /\ Cardinality(s) \in Nat /\ s # {}
<1>1. g.edges \in SUBSET (g.nodes \X g.nodes)
  BY DEF FiniteGraph
<1>2. IsFiniteSet(g.nodes) /\ g.nodes \subseteq Nat
  BY DEF FiniteGraph
<1>3. IsFiniteSet(g.nodes \X g.nodes)
  BY <1>2, FS_Product
<1>4. IsFiniteSet(g.edges)
  BY <1>1, <1>3, FS_Subset
<1>5. ASSUME NEW s \in Sccs(g.nodes, g.edges)
      PROVE  s \subseteq g.nodes /\ IsFiniteSet(s) /\ Cardinality(s) \in Nat /\ s # {}
  <2>1. s \in SUBSET g.nodes /\ s # {}
    BY SccsPartition
  <2>2. IsFiniteSet(s)
    BY <1>2, <2>1, FS_Subset
  <2> QED
    BY <2>1, <2>2, FS_CardinalityType
<1> QED
  BY <1>2, <1>4, <1>5

\* Two sets overlap if they share an element, in no more than either has.
LEMMA OverlapIsShared ==
    ASSUME NEW s, IsFiniteSet(s), NEW b
    PROVE  /\ Overlap(s, b) \in Nat /\ Cardinality(s) \in Nat
           /\ Overlap(s, b) <= Cardinality(s)
           /\ Overlap(s, b) > 0 <=> s \cap b # {}
<1>1. s \cap b \in SUBSET s
  OBVIOUS
<1>2. IsFiniteSet(s \cap b) /\ Cardinality(s \cap b) <= Cardinality(s)
  BY <1>1, FS_Subset
<1>3. Cardinality(s) \in Nat /\ Cardinality(s \cap b) \in Nat
  BY <1>2, FS_CardinalityType
<1>4. Cardinality(s \cap b) = 0 <=> s \cap b = {}
  BY <1>2, FS_EmptySet
<1> QED
  BY <1>2, <1>3, <1>4 DEF Overlap

\* If a component shares a path with one of the baseline, there is a best match:
\* one with which it shares the most.
LEMMA BestMatch ==
    ASSUME NEW g, FiniteGraph(g), NEW s, IsFiniteSet(s),
           \E b \in nontrivial_sccs(g) : Overlap(s, b) > 0
    PROVE  LET x == best_baseline_match(s, nontrivial_sccs(g))
           IN  /\ x \in nontrivial_sccs(g)
               /\ Overlap(s, x) > 0
<1> DEFINE B == nontrivial_sccs(g)
           K == Cardinality(s)
           IsBest(b) == \A c \in B : \/ Overlap(s, c) < Overlap(s, b)
                                     \/ /\ Overlap(s, c) = Overlap(s, b)
                                        /\ FrontOf(b) <= FrontOf(c)
<1>1. \A c \in B : c \subseteq Nat /\ c # {} /\ c \in Sccs(g.nodes, g.edges)
  BY GraphFinite DEF nontrivial_sccs
<1>2. \A c \in B : FrontOf(c) \in Nat
  <2> SUFFICES ASSUME NEW c \in B PROVE FrontOf(c) \in Nat
    OBVIOUS
  <2>1. \E p \in c : \A q \in c : p <= q
    BY <1>1, LeastNatural
  <2> QED
    BY <1>1, <2>1 DEF FrontOf
<1>3. K \in Nat /\ \A c \in B : Overlap(s, c) \in Nat /\ Overlap(s, c) <= K
  BY OverlapIsShared
<1>4. PICK a \in B : \A c \in B : Overlap(s, c) <= Overlap(s, a)
  <2> DEFINE gaps == {K - Overlap(s, c) : c \in B}
  <2>1. gaps \in SUBSET Nat /\ gaps # {}
    BY <1>3
  <2>2. PICK m \in gaps : \A k \in gaps : m <= k
    BY <2>1, LeastNatural
  <2>3. PICK a \in B : m = K - Overlap(s, a)
    OBVIOUS
  <2>4. ASSUME NEW c \in B PROVE Overlap(s, c) <= Overlap(s, a)
    <3>1. K - Overlap(s, a) <= K - Overlap(s, c)
      BY <2>2, <2>3
    <3> QED
      BY <1>3, <3>1
  <2> QED
    BY <2>4
<1>5. PICK b \in B : /\ Overlap(s, b) = Overlap(s, a)
                     /\ \A c \in B : Overlap(s, c) = Overlap(s, a) => FrontOf(b) <= FrontOf(c)
  <2> DEFINE fronts == {FrontOf(c) : c \in {d \in B : Overlap(s, d) = Overlap(s, a)}}
  <2>1. fronts \in SUBSET Nat /\ fronts # {}
    BY <1>2
  <2>2. PICK m \in fronts : \A k \in fronts : m <= k
    BY <2>1, LeastNatural
  <2>3. PICK b \in B : m = FrontOf(b) /\ Overlap(s, b) = Overlap(s, a)
    OBVIOUS
  <2>4. \A c \in B : Overlap(s, c) = Overlap(s, a) => FrontOf(b) <= FrontOf(c)
    BY <2>2, <2>3
  <2> QED
    BY <2>3, <2>4
<1>6. IsBest(b)
  <2> SUFFICES ASSUME NEW c \in B
               PROVE  \/ Overlap(s, c) < Overlap(s, b)
                      \/ Overlap(s, c) = Overlap(s, b) /\ FrontOf(b) <= FrontOf(c)
    OBVIOUS
  <2>1. Overlap(s, c) <= Overlap(s, a) /\ Overlap(s, c) \in Nat /\ Overlap(s, a) \in Nat
    BY <1>3, <1>4
  <2> QED
    BY <1>5, <2>1
<1> DEFINE x == best_baseline_match(s, B)
<1>7. x \in B /\ IsBest(x)
  BY <1>6 DEF best_baseline_match
<1>8. PICK c \in B : Overlap(s, c) > 0
  OBVIOUS
<1>9. Overlap(s, x) > 0
  <2>1. Overlap(s, c) < Overlap(s, x) \/ Overlap(s, c) = Overlap(s, x)
    BY <1>7
  <2>2. Overlap(s, c) \in Nat /\ Overlap(s, x) \in Nat
    BY <1>3, <1>7
  <2> QED
    BY <1>8, <2>1, <2>2
<1> QED
  BY <1>7, <1>9

\* The size a component is compared with: that of a component of the baseline
\* that it shares a path with, or 0 if there is none.
LEMMA BaselineSizeIs ==
    ASSUME NEW g, FiniteGraph(g), NEW s, IsFiniteSet(s)
    PROVE  LET B == nontrivial_sccs(g)
           IN  \/ /\ \A b \in B : s \cap b = {}
                  /\ BaselineSize(s, B) = 0
               \/ \E x \in B : s \cap x # {} /\ BaselineSize(s, B) = Cardinality(x)
<1> DEFINE B == nontrivial_sccs(g)
<1>1. CASE \E b \in B : Overlap(s, b) > 0
  <2> DEFINE x == best_baseline_match(s, B)
  <2>1. x \in B /\ Overlap(s, x) > 0
    BY <1>1, BestMatch
  <2>2. s \cap x # {} /\ BaselineSize(s, B) = Cardinality(x)
    BY <1>1, <2>1, OverlapIsShared DEF BaselineSize
  <2> QED
    BY <2>1, <2>2
<1>2. CASE ~\E b \in B : Overlap(s, b) > 0
  BY <1>2, OverlapIsShared DEF BaselineSize
<1> QED
  BY <1>1, <1>2

\* If it shares paths with one component of the baseline only, that is its size.
LEMMA BaselineSizeOfOne ==
    ASSUME NEW g, FiniteGraph(g), NEW s, IsFiniteSet(s),
           NEW b \in nontrivial_sccs(g), s \cap b # {},
           \A c \in nontrivial_sccs(g) : s \cap c # {} => c = b
    PROVE  BaselineSize(s, nontrivial_sccs(g)) = Cardinality(b)
BY BaselineSizeIs

\* What all nontrivial components of a graph are like.
LEMMA NontrivialScc ==
    ASSUME NEW g, FiniteGraph(g), NEW s \in nontrivial_sccs(g)
    PROVE  /\ s \in Sccs(g.nodes, g.edges) /\ s \subseteq g.nodes /\ s # {}
           /\ IsFiniteSet(s) /\ Cardinality(s) \in Nat /\ Cardinality(s) >= 2
BY GraphFinite DEF nontrivial_sccs

\* A cycle of a graph lies within one of any larger graph.
LEMMA NontrivialInLarger ==
    ASSUME NEW g, FiniteGraph(g), NEW h, FiniteGraph(h),
           g.nodes \subseteq h.nodes, g.edges \subseteq h.edges,
           NEW s \in nontrivial_sccs(g)
    PROVE  \E t \in nontrivial_sccs(h) : s \subseteq t
<1>1. s \in Sccs(g.nodes, g.edges) /\ g.edges \subseteq g.nodes \X g.nodes
      /\ Cardinality(s) >= 2 /\ Cardinality(s) \in Nat
  BY NontrivialScc DEF FiniteGraph
<1>2. PICK t \in Sccs(h.nodes, h.edges) : s \subseteq t
  BY <1>1, SccsInLarger
<1>3. IsFiniteSet(t) /\ Cardinality(t) \in Nat
  BY GraphFinite
<1>4. Cardinality(s) <= Cardinality(t)
  BY <1>2, <1>3, FS_Subset
<1>5. Cardinality(t) >= 2
  BY <1>1, <1>3, <1>4
<1> QED
  BY <1>2, <1>5 DEF nontrivial_sccs

\* Two cycles of a graph that share a file are the same.
LEMMA NontrivialDisjoint ==
    ASSUME NEW g, NEW s \in nontrivial_sccs(g), NEW t \in nontrivial_sccs(g), s \cap t # {}
    PROVE  s = t
BY SccsPartition DEF nontrivial_sccs

\* A cycle of a graph is one of the graph of its own files and includes.
LEMMA NontrivialInside ==
    ASSUME NEW g, FiniteGraph(g), NEW s \in nontrivial_sccs(g)
    PROVE  LET inner == [nodes |-> s, edges |-> g.edges \cap s \X s]
           IN  FiniteGraph(inner) /\ s \in nontrivial_sccs(inner)
<1> DEFINE inner == [nodes |-> s, edges |-> g.edges \cap s \X s]
<1>1. /\ s \in Sccs(g.nodes, g.edges) /\ s \subseteq g.nodes /\ s # {} /\ IsFiniteSet(s)
      /\ Cardinality(s) >= 2 /\ g.nodes \subseteq Nat /\ g.edges \subseteq g.nodes \X g.nodes
  BY NontrivialScc DEF FiniteGraph
<1>2. FiniteGraph(inner)
  BY <1>1 DEF FiniteGraph
<1>3. PICK a \in s : TRUE
  BY <1>1
<1>4. \A b \in s : /\ Reaches(s, g.edges \cap s \X s, a, b)
                   /\ Reaches(s, g.edges \cap s \X s, b, a)
  BY <1>1, ReachesInsideScc
<1>5. s = SccOf(s, g.edges \cap s \X s, a)
  BY <1>4 DEF SccOf
<1>6. s \in Sccs(inner.nodes, inner.edges)
  BY <1>3, <1>5 DEF Sccs
<1> QED
  BY <1>1, <1>2, <1>6 DEF nontrivial_sccs

\* A graph that has lost nodes and edges only has no grown cycle.
LEMMA NothingGrows ==
    ASSUME NEW g, FiniteGraph(g), NEW h, FiniteGraph(h),
           g.nodes \subseteq h.nodes, g.edges \subseteq h.edges
    PROVE  grownSccs(h, g) = {}
<1> SUFFICES ASSUME NEW s \in nontrivial_sccs(g)
             PROVE  ~(BaselineSize(s, nontrivial_sccs(h)) < Cardinality(s))
  BY DEF grownSccs
<1>1. s # {} /\ IsFiniteSet(s) /\ Cardinality(s) \in Nat
  BY NontrivialScc
<1>2. PICK b \in nontrivial_sccs(h) : s \subseteq b
  BY NontrivialInLarger
<1>3. \A c \in nontrivial_sccs(h) : s \cap c # {} => c = b
  BY <1>2, NontrivialDisjoint
<1>4. s \cap b # {}
  BY <1>1, <1>2
<1>5. BaselineSize(s, nontrivial_sccs(h)) = Cardinality(b)
  BY <1>1, <1>3, <1>4, BaselineSizeOfOne
<1>6. IsFiniteSet(b) /\ Cardinality(b) \in Nat
  BY NontrivialScc
<1>7. Cardinality(s) <= Cardinality(b)
  BY <1>2, <1>6, FS_Subset
<1> QED
  BY <1>1, <1>5, <1>6, <1>7

\* A cycle that has not grown is no larger than one of the baseline.
LEMMA NotGrown ==
    ASSUME NEW g, FiniteGraph(g), NEW h, FiniteGraph(h),
           NEW s \in nontrivial_sccs(g), s \notin grownSccs(h, g)
    PROVE  \E b \in nontrivial_sccs(h) : Cardinality(s) <= Cardinality(b)
<1>1. IsFiniteSet(s) /\ Cardinality(s) \in Nat /\ Cardinality(s) >= 2
  BY NontrivialScc
<1>2. ~(BaselineSize(s, nontrivial_sccs(h)) < Cardinality(s))
  BY DEF grownSccs
<1>3. PICK b \in nontrivial_sccs(h) : BaselineSize(s, nontrivial_sccs(h)) = Cardinality(b)
  BY <1>1, <1>2, BaselineSizeIs
<1>4. Cardinality(b) \in Nat
  BY NontrivialScc
<1> QED
  BY <1>1, <1>2, <1>3, <1>4

\* One cycle is the largest, if there is any.
LEMMA LargestSize ==
    ASSUME NEW g, FiniteGraph(g)
    PROVE  LET sizes == {Cardinality(s) : s \in nontrivial_sccs(g)} \cup {0}
           IN  sizes \subseteq Nat /\ \E n \in sizes : \A m \in sizes : m <= n
<1> DEFINE sizes == {Cardinality(s) : s \in nontrivial_sccs(g)} \cup {0}
           K == Cardinality(g.nodes)
           gaps == {K - n : n \in sizes}
<1>1. K \in Nat /\ IsFiniteSet(g.nodes)
  BY GraphFinite, FS_CardinalityType
<1>2. \A n \in sizes : n \in Nat /\ n <= K
  <2> SUFFICES ASSUME NEW s \in nontrivial_sccs(g) PROVE Cardinality(s) \in Nat /\ Cardinality(s) <= K
    BY <1>1
  <2>1. s \in SUBSET g.nodes /\ Cardinality(s) \in Nat
    BY NontrivialScc
  <2> QED
    BY <1>1, <2>1, FS_Subset
<1>3. gaps \in SUBSET Nat /\ gaps # {}
  <2>1. \A n \in sizes : K - n \in Nat
    <3> HIDE DEF sizes, K
    <3> QED
      BY <1>1, <1>2
  <2>2. 0 \in sizes
    OBVIOUS
  <2> HIDE DEF sizes
  <2> QED
    BY <2>1, <2>2
<1> HIDE DEF sizes, K
<1>4. PICK m \in gaps : \A k \in gaps : m <= k
  BY <1>3, LeastNatural
<1>5. PICK n \in sizes : m = K - n
  OBVIOUS
<1>6. \A k \in sizes : k <= n
  <2> SUFFICES ASSUME NEW k \in sizes PROVE k <= n
    OBVIOUS
  <2>1. K - n <= K - k
    BY <1>4, <1>5
  <2> QED
    BY <1>1, <1>2, <2>1
<1> QED
  BY <1>2, <1>6 DEF sizes
=============================================================================
