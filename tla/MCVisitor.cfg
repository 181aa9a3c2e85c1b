\* Every stream at every server in pieces of 1, 4 and 6 bytes and in one, then
\* a session with messages of one and two chunks.
CONSTANTS
    V1_MAX_LEN = 27
    MAX_HEADER_SIZE = 54
    MAX_BUFFER_SIZE = 200
    IpText <- MCIpText
    Streams <- MCStreams
    Available <- MCAvailable
    Fragments = {1, 4, 6}
    MinTimeout = 2
    MaxTimeout = 4
    MaxInput = 2
    MaxChunks = 2
    SocketAddress <- MCSocketAddress
    Versions = {1, 2}
    AccessLists <- MCAccessLists
SPECIFICATION FairSpec
INVARIANTS
    ServedAsSent
    PolicyIsKept
    PauseHoldsBack
    TimerInRange
PROPERTIES
    EndReachesApp
    ChannelIsFreed
CHECK_DEADLOCK FALSE
