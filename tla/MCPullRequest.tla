--------------------------- MODULE MCPullRequest ---------------------------
(***************************************************************************)
(* Model checking of PullRequest: four paths, two in each of two top        *)
(* directories, every starting graph with at most StartEdges includes.      *)
(***************************************************************************)
EXTENDS PullRequest

CONSTANT StartEdges

MCTopDir == [p \in Path |-> IF p <= 2 THEN "x" ELSE "y"]
MCSubDir == [p \in Path |-> IF p = 1 THEN "x/a" ELSE MCTopDir[p]]

Pairs(S) == {e \in S \X S : e[1] # e[2]}
MCBaselines ==
    {g \in [nodes : SUBSET Path, edges : SUBSET Pairs(Path)] :
        IsGraph(g) /\ Cardinality(g.edges) <= StartEdges}
=============================================================================
