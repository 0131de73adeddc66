SPECIFICATION Spec
CONSTANTS
    Path = {1, 2, 3, 4}
    TopDir <- MCareaOf
    SubDir <- MCareaOf
    NoDir = NoDir
    FanInThreshold = 2
    areaOf <- MCareaOf
    InlineSplits <- MCInlineSplits
    PchNames = {4}
    ChainThreshold = 2
    kMassTouchEdges = 1
    Projects <- MCProjects
    Issue <- MCIssue
    MaxEdits = 1
    MaxNewIncludes = 2
    MaxConditional = 4
    MaxIncludes = 2
ACTION_CONSTRAINT Explored
CHECK_DEADLOCK FALSE
INVARIANTS
    HardCycleGates
