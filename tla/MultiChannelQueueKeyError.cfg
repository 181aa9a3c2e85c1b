\* One channel, one writer and the write loop: enough for a writer that is
\* woken after its channel has left the queue.
CONSTANTS
    Channels = {c1}
    Putters = {p1}
    Getters = {g1}
    Sizes = {1, 2}
    channel_size_limit = 2
    channel_low_water_mark = 0
    channel_high_water_mark = 2
    MaxQueue = 2
SPECIFICATION Spec
INVARIANTS
    GetRaisesOnlyQueueEmpty
CHECK_DEADLOCK FALSE
