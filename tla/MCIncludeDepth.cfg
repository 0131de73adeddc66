SPECIFICATION MCSpec
CONSTANTS
    N = 4
    Graphs <- MCGraphs
INVARIANTS
    EmittedAreComponents
    ReturnsTheComponents
    DepthIsLongestChain
    StackIsBounded
PROPERTY Terminates
