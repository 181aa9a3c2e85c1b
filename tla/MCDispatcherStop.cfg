\* A session keeps the first worker from exiting within the ten seconds of join.
CONSTANTS
    None = None
    home = home
    Clients = {k1}
    Visitors = {v1}
    Names = {home}
    Host <- OneHost
    N = 2
    StaleMax = 1
    BufferMax = 2
SPECIFICATION FairSpec
PROPERTIES
    EveryWorkerIsShutDown
CHECK_DEADLOCK FALSE
