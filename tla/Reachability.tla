---------------------------- MODULE Reachability ----------------------------
(***************************************************************************)
(* Reachability and strongly connected components of a graph with nodes V  *)
(* and edges E \subseteq V \X V, defined by closed sets: the reference that *)
(* the graph algorithms of the program are compared with.                   *)
(***************************************************************************)
EXTENDS Naturals, Sequences, FiniteSets

Closed(E, S) == \A e \in E : e[1] \in S => e[2] \in S

\* b is in every set that holds a and is closed under E.
Reaches(V, E, a, b) == \A S \in SUBSET V : a \in S /\ Closed(E, S) => b \in S

SccOf(V, E, a) == {b \in V : Reaches(V, E, a, b) /\ Reaches(V, E, b, a)}
Sccs(V, E) == {SccOf(V, E, a) : a \in V}

\* The chains of the condensed graph: sequences of components, each with a
\* node that has an edge to a node of the next.
Chains(V, E) ==
    LET components == Sccs(V, E)
        links == {l \in components \X components :
                     l[1] # l[2] /\ l[1] \X l[2] \cap E # {}}
    IN  {s \in UNION {[1 .. n -> components] : n \in 1 .. Cardinality(components)} :
            \A i \in 1 .. Len(s) - 1 : <<s[i], s[i + 1]>> \in links}
=============================================================================
