\* Two channels, two writers and two readers with room for one message and a
\* forced one: writers wait, are woken and are cancelled on either channel.
CONSTANTS
    Channels = {c1, c2}
    Putters = {p1, p2}
    Getters = {g1, g2}
    Sizes = {2}
    channel_size_limit = 3
    channel_low_water_mark = 0
    channel_high_water_mark = 2
    MaxQueue = 2
SPECIFICATION FairSpec
INVARIANTS
    TypeOK
    OrderMatchesQueues
    RoomIsOffered
    NoLostGetterWakeup
    WaterMarks
    NoStarvation
PROPERTIES
    DeleteDrains
    WaitingPutIsServed
CHECK_DEADLOCK FALSE
