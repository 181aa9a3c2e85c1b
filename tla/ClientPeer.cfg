\* Two calls of start(), one after the other or at the same time.
CONSTANTS
    MaxConns = 2
    Ids = {ch}
SPECIFICATION FairSpec
INVARIANTS
    TypeOK
    
    DoneMeansClosed
PROPERTIES
    DeadPeerIsNoticed
    StopReturns
    HangingDrainEnds
CHECK_DEADLOCK FALSE
