SPECIFICATION Spec
CONSTANTS
    PipeCapacity = 2
    BufferSize = 2
    MaxOut = 5
    MaxErr = 3
    ExitCodes = {0, 1}
CHECK_DEADLOCK FALSE
INVARIANTS
    TypeOK
    ExitCodeMeansWholeOutput
    BlockedOnlyByLongStderr
PROPERTY ReturnsUnlessStderrIsLong
