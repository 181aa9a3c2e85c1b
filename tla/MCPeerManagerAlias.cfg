\* A client reconnects with a token that no longer carries its alias.
CONSTANTS
    home = home
    www = www
    other = other
    None = None
    Sessions = {s1, s2, s3}
    Names = {home, www, other}
    Tokens <- AliasDropped
SPECIFICATION Spec
INVARIANTS
    NoStaleEntry
CHECK_DEADLOCK FALSE
