\* Three connections of two clients: one reconnects once or twice while its
\* earlier sessions are in any phase.
CONSTANTS
    home = home
    www = www
    other = other
    None = None
    Sessions = {s1, s2, s3}
    Names = {home, www, other}
    Tokens <- TwoClients
SPECIFICATION FairSpec
INVARIANTS
    NoStaleEntry
    LatestIsReachable
    DirectoryInSync
PROPERTIES
    ReplacedSessionEnds
CHECK_DEADLOCK FALSE
