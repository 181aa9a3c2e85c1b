\* Two clients of one host, which two workers get in turn, and a visitor, with
\* the fairness of the thread and the loops.
CONSTANTS
    None = None
    home = home
    Clients = {k1, k2}
    Visitors = {v1}
    Names = {home}
    Host <- OneHost
    N = 2
    StaleMax = 1
    BufferMax = 2
SPECIFICATION FairSpec
INVARIANTS
    TypeOK
    OneOwner
    NothingAfterNone
PROPERTIES
    SteadyClaimIsServed
    WorkersKeepDirectories
    ConnectionsMoveOn
    LostClaimEnds
    StopEnds
CHECK_DEADLOCK FALSE
