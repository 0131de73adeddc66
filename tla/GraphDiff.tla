----------------------------- MODULE GraphDiff -----------------------------
(***************************************************************************)
(* The comparison of two include graphs behind `archcheck --diff` and the   *)
(* DRIFT rules: graph::addedEdges, removedEdges and grownSccs               *)
(* (src/src/graph/diff.cpp).                                                *)
(*                                                                         *)
(* A graph is a record [nodes, edges] over paths (IncludeGraph.tla): ids    *)
(* are local to one graph, and the code compares by path.  Paths are        *)
(* numbers in the order of their names, which is the order of the snapshot  *)
(* and so of the node ids; the code prefers the first of equal matches.     *)
(***************************************************************************)
EXTENDS Naturals, FiniteSets, Reachability

addedEdges(baseline, current) == current.edges \ baseline.edges

\* An edge whose endpoint is gone as well is not listed.
removedEdges(baseline, current) ==
    {e \in baseline.edges \ current.edges : {e[1], e[2]} \subseteq current.nodes}

nontrivial_sccs(g) == {s \in Sccs(g.nodes, g.edges) : Cardinality(s) >= 2}

Overlap(s, b) == Cardinality(s \cap b)
FrontOf(s) == CHOOSE p \in s : \A q \in s : p <= q

\* The size of the baseline component that shares the most paths with s, the
\* first of these in the order of least paths; 0 if none shares any.
best_baseline_match(s, baselineSets) ==
    CHOOSE b \in baselineSets :
        \A c \in baselineSets :
            \/ Overlap(s, c) < Overlap(s, b)
            \/ Overlap(s, c) = Overlap(s, b) /\ FrontOf(b) <= FrontOf(c)
\* Mutant: all the baseline components that share a path count.
BaselineSizeOfAll(s, baselineSets) ==
    Cardinality(UNION {b \in baselineSets : Overlap(s, b) > 0})

BaselineSize(s, baselineSets) ==
    IF \E b \in baselineSets : Overlap(s, b) > 0
    THEN Cardinality(best_baseline_match(s, baselineSets))
    ELSE 0

\* Mutant: any change of size counts as growth.
grownSccsResized(baseline, current) ==
    LET baselineSets == nontrivial_sccs(baseline) IN
    {s \in nontrivial_sccs(current) : BaselineSize(s, baselineSets) # Cardinality(s)}

grownSccs(baseline, current) ==
    LET baselineSets == nontrivial_sccs(baseline) IN
    {s \in nontrivial_sccs(current) : BaselineSize(s, baselineSets) < Cardinality(s)}
=============================================================================
