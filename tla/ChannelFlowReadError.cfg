\* Two messages bring the incoming queue to its high mark before the CLOSE.
CONSTANTS
    DataSize = 2
    OutLimit = 12
    OutLow = 1
    OutHigh = 3
    InLimit = 12
    InLow = 1
    InHigh = 3
    PauseResume = TRUE
    ServerChunks = 2
    ClientChunks = 1
SPECIFICATION Spec
INVARIANTS
    ReaderEndsWithClose
CHECK_DEADLOCK FALSE
