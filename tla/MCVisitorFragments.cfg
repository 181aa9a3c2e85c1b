\* As in MCVisitor.cfg: a fragmented hello at every server.
CONSTANTS
    V1_MAX_LEN = 27
    MAX_HEADER_SIZE = 54
    MAX_BUFFER_SIZE = 200
    IpText <- MCIpText
    Streams <- MCStreams
    Available <- MCAvailable
    Fragments = {1, 4, 6}
    MinTimeout = 2
    MaxTimeout = 4
    MaxInput = 2
    MaxChunks = 2
    SocketAddress <- MCSocketAddress
    Versions = {1, 2}
    AccessLists <- MCAccessLists
SPECIFICATION Spec
INVARIANT FragmentsHandledAlike
CHECK_DEADLOCK FALSE
