------------------------- MODULE MCDependencyGraph -------------------------
(* Model checking of DependencyGraph on three files. *)
EXTENDS DependencyGraph, TLC, FiniteSets

CONSTANT MaxEdges       \* states with more edges are not explored further

FewEdges == Cardinality(edges) <= MaxEdges
FileSymmetry == Permutations(File)
=============================================================================
