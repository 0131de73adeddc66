SPECIFICATION Spec
CONSTANTS
    Path <- MCPath
    NoPath = ""
    Size <- MCSize
    Missing = Missing
    kMaxBlobSizeBytes = 2
    PipeCapacity = 2
    MaxReads = 3
CHECK_DEADLOCK FALSE
INVARIANTS
    InSync
PROPERTIES
    ImplementsFileSource
    CallsEnd
