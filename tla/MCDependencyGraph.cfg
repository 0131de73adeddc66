SPECIFICATION Spec
CONSTANTS
    File = {a, b, c}
    DotSlashes = {0, 1}
    MaxEdges = 3
CONSTRAINT FewEdges
SYMMETRY FileSymmetry
INVARIANTS
    TypeOK
    NodesMatchPaths
    ReverseMirrorsForward
PROPERTY ImplementsIncludeGraph
