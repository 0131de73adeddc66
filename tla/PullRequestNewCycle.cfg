SPECIFICATION Spec
CONSTANTS
    Path = {1, 2, 3, 4}
    TopDir <- MCTopDir
    SubDir <- MCSubDir
    NoDir = NoDir
    FanInThreshold = 1
    Baselines <- MCBaselines
    StartEdges = 2
    MaxEdges = 4
    MaxEdits = 3
INVARIANT NewCycleGates
