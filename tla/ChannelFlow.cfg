\* Little room in every queue: put() blocks, a PAUSE or RESUME may not fit, one
\* message fills the incoming queue, so that the next one aborts the channel
\* and close() finds no room for its None.
CONSTANTS
    DataSize = 2
    OutLimit = 3
    OutLow = 0
    OutHigh = 2
    InLimit = 2
    InLow = 0
    InHigh = 1
    PauseResume = TRUE
    ServerChunks = 2
    ClientChunks = 1
SPECIFICATION FairSpec
INVARIANTS
    TypeOK
    TableHasQueue
    NothingLost
    PauseAgreement
PROPERTIES
    ImplementsStream
    PausedSourceResumes
    ChannelIsCleanedUp
    ReaderEnds
CHECK_DEADLOCK FALSE
