SPECIFICATION Spec
CONSTANTS
    Path = {1, 2, 3, 4}
    TopDir <- MCTopDir
    SubDir <- MCSubDir
    NoDir = NoDir
    FanInThreshold = 1
    Baselines <- MCBaselines
    StartEdges = 4
    MaxEdges = 6
    MaxEdits = 2
INVARIANTS
    RemovalNeverGates
    AdditionGatesNewCycles
    DisjointCycleGates
    PureMoveIsNotACycle
PROPERTY Ratchet
