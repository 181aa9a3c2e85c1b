------------------------- MODULE MultiChannelQueue -------------------------
(***************************************************************************)
(* The outgoing queue that all channels of one multiplexer share:          *)
(* MultiplexerMultiChannelQueue of snitun/multiplexer/queue.py.            *)
(*                                                                         *)
(* The code runs on one asyncio event loop, so everything a coroutine does *)
(* between two awaits is one atomic step.  put() and get() suspend on a    *)
(* future; a task that is suspended is in one of four states:              *)
(*   waiting     its future is pending                                     *)
(*   woken       its future has a result, the task has not run yet         *)
(*   cancelled   the task was cancelled (asyncio.timeout, Task.cancel) and *)
(*               with it the pending future; it has not run yet            *)
(*   lostRace    the task was cancelled after its future got a result      *)
(* A message is represented by its effective size; None has size 0.        *)
(* Channel ids are 16 random bytes (channel.py:124): an id is not created  *)
(* twice, so the _ChannelQueue object of an id is the entry of that id in  *)
(* queue, total_bytes, ..., also after the id has left _channels.  Calls   *)
(* that only raise (unknown id, QueueFull, QueueEmpty) change nothing and  *)
(* are the disabled cases of their action.                                 *)
(***************************************************************************)
EXTENDS Integers, Sequences, FiniteSets

CONSTANTS
    Channels,                   \* channel ids
    Putters,                    \* tasks that call put()
    Getters,                    \* tasks that call get()
    Sizes,                      \* effective message sizes, 0 is None
    channel_size_limit,
    channel_low_water_mark,
    channel_high_water_mark,
    MaxQueue                    \* bound: queue length at which no put is started

ASSUME SizesAssumption ==
    /\ Sizes \subseteq 0 .. channel_size_limit
    /\ MaxQueue \in Nat
    /\ IsFiniteSet(Channels)
ASSUME MarksAssumption ==
    /\ channel_low_water_mark \in Nat
    /\ channel_high_water_mark \in Nat
    /\ channel_size_limit \in Nat \ {0}
    /\ channel_low_water_mark < channel_high_water_mark

VARIABLES
    channels,      \* the keys of _channels
    created,       \* ids that were ever created
    queue,         \* _ChannelQueue.queue of every id
    total_bytes,   \* _ChannelQueue.total_bytes
    under_water,   \* _ChannelQueue.under_water
    pending_close, \* _ChannelQueue.pending_close
    putters,       \* _ChannelQueue.putters, each future named by its task
    order,         \* the keys of _order, first to last
    getters,       \* _getters, each future named by its task
    ppc,           \* the state of every putter task
    call,          \* the channel and size of its put() call
    gpc,           \* the state of every getter task
    skipped        \* history: gets of other channels since a channel's turn

lifeVars == <<channels, created, pending_close>>
dataVars == <<queue, total_bytes, under_water, order, skipped>>
vars == <<lifeVars, dataVars, putters, getters, ppc, call, gpc>>

Suspended == {"waiting", "woken", "cancelled", "lostRace"}
TaskStates == Suspended \cup {"idle", "failed"}
NoCall == <<>>
Members(s) == {s[i] : i \in DOMAIN s}

Init ==
    /\ channels = {}
    /\ created = {}
    /\ queue = [c \in Channels |-> <<>>]
    /\ total_bytes = [c \in Channels |-> 0]
    /\ under_water = [c \in Channels |-> FALSE]
    /\ pending_close = [c \in Channels |-> FALSE]
    /\ putters = [c \in Channels |-> <<>>]
    /\ order = <<>>
    /\ getters = <<>>
    /\ ppc = [p \in Putters |-> "idle"]
    /\ call = [p \in Putters |-> NoCall]
    /\ gpc = [g \in Getters |-> "idle"]
    /\ skipped = [c \in Channels |-> 0]

-----------------------------------------------------------------------------
\* _wakeup_next on a deque of futures; pc is the state of their tasks.  A
\* future is done unless its task is waiting; done futures are popped.

Live(waiters, pc) == {i \in DOMAIN waiters : pc[waiters[i]] = "waiting"}

FirstLive(waiters, pc) ==
    CHOOSE i \in Live(waiters, pc) : \A j \in Live(waiters, pc) : i <= j

\* Mutant: the deque is cleared after one future has got a result.
WaitersLeftCleared(waiters, pc) == <<>>

WaitersLeft(waiters, pc) ==
    IF Live(waiters, pc) = {} THEN <<>>
    ELSE SubSeq(waiters, FirstLive(waiters, pc) + 1, Len(waiters))

Awakened(waiters, pc) ==
    IF Live(waiters, pc) = {} THEN pc
    ELSE [pc EXCEPT ![waiters[FirstLive(waiters, pc)]] = "woken"]

\* deque.remove with ValueError suppressed: a task is in a deque at most once.
Without(waiters, t) ==
    IF t \notin Members(waiters) THEN waiters
    ELSE LET i == CHOOSE k \in DOMAIN waiters : waiters[k] = t
         IN  [j \in 1 .. Len(waiters) - 1 |->
                 IF j < i THEN waiters[j] ELSE waiters[j + 1]]

\* full(): an id that is not in _channels is never full.
Full(c) == c \in channels /\ total_bytes[c] >= channel_size_limit
Fits(c, size) == total_bytes[c] + size <= channel_size_limit

-----------------------------------------------------------------------------
\* create_channel
CreateChannel(c) ==
    /\ c \notin created
    /\ created' = created \cup {c}
    /\ channels' = channels \cup {c}
    /\ UNCHANGED <<pending_close, dataVars, putters, getters, ppc, call, gpc>>

\* Mutants: the queue of the id is dropped at once; a close is left pending
\* on a queue that is already empty.
DeleteAtOnce(c) ==
    /\ c \in channels
    /\ channels' = channels \ {c}
    /\ UNCHANGED <<created, pending_close, dataVars, putters, getters, ppc, call, gpc>>
DeleteAlwaysPending(c) ==
    /\ c \in channels
    /\ pending_close' = [pending_close EXCEPT ![c] = TRUE]
    /\ UNCHANGED <<channels, created, dataVars, putters, getters, ppc, call, gpc>>

\* delete_channel: what is queued is still sent, nobody is woken.
DeleteChannel(c) ==
    /\ c \in channels
    /\ IF queue[c] # <<>>
       THEN /\ pending_close' = [pending_close EXCEPT ![c] = TRUE]
            /\ UNCHANGED channels
       ELSE /\ channels' = channels \ {c}
            /\ UNCHANGED pending_close
    /\ UNCHANGED <<created, dataVars, putters, getters, ppc, call, gpc>>

\* Mutants of _put: the size is not added; the mark is tested before the size
\* is added; a channel enters _order at its front.
EnqueueUncounted(c, size) ==
    /\ queue' = [queue EXCEPT ![c] = Append(@, size)]
    /\ order' = IF c \in Members(order) THEN order ELSE Append(order, c)
    /\ getters' = WaitersLeft(getters, gpc)
    /\ gpc' = Awakened(getters, gpc)
    /\ UNCHANGED <<lifeVars, total_bytes, under_water, skipped>>
EnqueueMarksLate(c, size) ==
    /\ queue' = [queue EXCEPT ![c] = Append(@, size)]
    /\ total_bytes' = [total_bytes EXCEPT ![c] = @ + size]
    /\ order' = IF c \in Members(order) THEN order ELSE Append(order, c)
    /\ under_water' = [under_water EXCEPT
                         ![c] = @ \/ total_bytes[c] >= channel_high_water_mark]
    /\ getters' = WaitersLeft(getters, gpc)
    /\ gpc' = Awakened(getters, gpc)
    /\ UNCHANGED <<lifeVars, skipped>>
EnqueueAtFront(c, size) ==
    /\ queue' = [queue EXCEPT ![c] = Append(@, size)]
    /\ total_bytes' = [total_bytes EXCEPT ![c] = @ + size]
    /\ order' = IF c \in Members(order) THEN order ELSE <<c>> \o order
    /\ under_water' = [under_water EXCEPT
                         ![c] = @ \/ total_bytes[c] + size >= channel_high_water_mark]
    /\ getters' = WaitersLeft(getters, gpc)
    /\ gpc' = Awakened(getters, gpc)
    /\ UNCHANGED <<lifeVars, skipped>>

\* _put: the under-water callback of the channel is told with the flag.
Enqueue(c, size) ==
    /\ queue' = [queue EXCEPT ![c] = Append(@, size)]
    /\ total_bytes' = [total_bytes EXCEPT ![c] = @ + size]
    /\ order' = IF c \in Members(order) THEN order ELSE Append(order, c)
    /\ under_water' = [under_water EXCEPT
                         ![c] = @ \/ total_bytes[c] + size >= channel_high_water_mark]
    /\ getters' = WaitersLeft(getters, gpc)
    /\ gpc' = Awakened(getters, gpc)
    /\ UNCHANGED <<lifeVars, skipped>>

\* put, the loop test: enqueue and return, or wait on a new future.
PutOrWait(p, c, size) ==
    \/ /\ Fits(c, size)
       /\ Enqueue(c, size)
       /\ ppc' = [ppc EXCEPT ![p] = "idle"]
       /\ call' = [call EXCEPT ![p] = NoCall]
       /\ UNCHANGED putters
    \/ /\ ~Fits(c, size)
       /\ putters' = [putters EXCEPT ![c] = Append(@, p)]
       /\ ppc' = [ppc EXCEPT ![p] = "waiting"]
       /\ call' = [call EXCEPT ![p] = <<c, size>>]
       /\ UNCHANGED <<lifeVars, dataVars, getters, gpc>>

\* put, up to its first await
Put(p, c, size) ==
    /\ ppc[p] = "idle"
    /\ c \in channels
    /\ Len(queue[c]) < MaxQueue
    /\ PutOrWait(p, c, size)

\* put, after its future got a result: _channels is not looked up again.
PutResume(p) ==
    /\ ppc[p] = "woken"
    /\ PutOrWait(p, call[p][1], call[p][2])

\* The task in put() is cancelled: its 5 s timeout, or its owner is stopped.
PutCancel(p) ==
    /\ ppc[p] \in {"waiting", "woken"}
    /\ ppc' = [ppc EXCEPT ![p] = IF @ = "waiting" THEN "cancelled" ELSE "lostRace"]
    /\ UNCHANGED <<lifeVars, dataVars, putters, getters, call, gpc>>

\* Mutant: a cancelled put() keeps the wakeup it does not use.
PutRaiseKeepsWakeup(p) ==
    /\ ppc[p] \in {"cancelled", "lostRace"}
    /\ LET c == call[p][1]
       IN  putters' = [putters EXCEPT ![c] = Without(@, p)]
    /\ ppc' = [ppc EXCEPT ![p] = "idle"]
    /\ call' = [call EXCEPT ![p] = NoCall]
    /\ UNCHANGED <<lifeVars, dataVars, getters, gpc>>

\* put, the except branch: a wakeup that is not used is handed on.
PutRaise(p) ==
    /\ ppc[p] \in {"cancelled", "lostRace"}
    /\ LET c == call[p][1]
           waiters == Without(putters[c], p)
           handOn == ppc[p] = "lostRace" /\ ~Full(c)
           pc == [ppc EXCEPT ![p] = "idle"]
       IN  /\ putters' = [putters EXCEPT
                            ![c] = IF handOn THEN WaitersLeft(waiters, pc) ELSE waiters]
           /\ ppc' = IF handOn THEN Awakened(waiters, pc) ELSE pc
    /\ call' = [call EXCEPT ![p] = NoCall]
    /\ UNCHANGED <<lifeVars, dataVars, getters, gpc>>

\* put_nowait; QueueFull is raised when the message does not fit.
PutNowait(c, size) ==
    /\ c \in channels
    /\ Len(queue[c]) < MaxQueue
    /\ Fits(c, size)
    /\ Enqueue(c, size)
    /\ UNCHANGED <<putters, ppc, call>>

\* put_nowait_force
PutNowaitForce(c, size) ==
    /\ c \in channels
    /\ Len(queue[c]) < MaxQueue
    /\ Enqueue(c, size)
    /\ UNCHANGED <<putters, ppc, call>>

\* Every get is a turn: the others in _order have been passed over once more.
CountTurn(c) ==
    skipped' = [d \in Channels |->
                   IF d \in Members(order) \ {c} THEN skipped[d] + 1 ELSE 0]

\* get_nowait on a non-empty _order by getter g
GetNowait(g) ==
    LET c == Head(order)
        rest == Tail(queue[c])
        left == total_bytes[c] - Head(queue[c])
    IN  /\ order # <<>>
        /\ CountTurn(c)
        /\ \/ /\ c \notin channels       \* KeyError at self._channels[channel_id]
              /\ order' = Tail(order)
              /\ gpc' = [gpc EXCEPT ![g] = "failed"]
              /\ UNCHANGED <<lifeVars, queue, total_bytes, under_water, putters, ppc>>
           \/ /\ c \in channels
              /\ queue' = [queue EXCEPT ![c] = rest]
              /\ total_bytes' = [total_bytes EXCEPT ![c] = left]
              /\ order' = IF rest # <<>> THEN Append(Tail(order), c) ELSE Tail(order)
              /\ channels' = IF rest = <<>> /\ pending_close[c]
                             THEN channels \ {c} ELSE channels
              /\ under_water' = [under_water EXCEPT
                                   ![c] = @ /\ left > channel_low_water_mark]
              /\ putters' = [putters EXCEPT ![c] = WaitersLeft(@, ppc)]
              /\ ppc' = Awakened(putters[c], ppc)
              /\ gpc' = [gpc EXCEPT ![g] = "idle"]
              /\ UNCHANGED <<created, pending_close>>
        /\ UNCHANGED <<getters, call>>

\* get, the loop test: take a message, or wait on a new future.
GetOrWait(g) ==
    \/ GetNowait(g)
    \/ /\ order = <<>>
       /\ getters' = Append(getters, g)
       /\ gpc' = [gpc EXCEPT ![g] = "waiting"]
       /\ UNCHANGED <<lifeVars, dataVars, putters, ppc, call>>

\* get, up to its first await
Get(g) == gpc[g] = "idle" /\ GetOrWait(g)

\* get, after its future got a result
GetResume(g) == gpc[g] = "woken" /\ GetOrWait(g)

\* The task in get() is cancelled (Multiplexer.shutdown, _on_timeout).
GetCancel(g) ==
    /\ gpc[g] \in {"waiting", "woken"}
    /\ gpc' = [gpc EXCEPT ![g] = IF @ = "waiting" THEN "cancelled" ELSE "lostRace"]
    /\ UNCHANGED <<lifeVars, dataVars, putters, getters, ppc, call>>

\* Mutant: a cancelled get() keeps the wakeup it does not use.
GetRaiseKeepsWakeup(g) ==
    /\ gpc[g] \in {"cancelled", "lostRace"}
    /\ getters' = Without(getters, g)
    /\ gpc' = [gpc EXCEPT ![g] = "idle"]
    /\ UNCHANGED <<lifeVars, dataVars, putters, ppc, call>>

\* get, the except branch
GetRaise(g) ==
    /\ gpc[g] \in {"cancelled", "lostRace"}
    /\ LET waiters == Without(getters, g)
           handOn == gpc[g] = "lostRace" /\ order # <<>>
           pc == [gpc EXCEPT ![g] = "idle"]
       IN  /\ getters' = IF handOn THEN WaitersLeft(waiters, pc) ELSE waiters
           /\ gpc' = IF handOn THEN Awakened(waiters, pc) ELSE pc
    /\ UNCHANGED <<lifeVars, dataVars, putters, ppc, call>>

-----------------------------------------------------------------------------
ChannelStep(c) ==
    \/ CreateChannel(c)
    \/ DeleteChannel(c)
    \/ \E size \in Sizes : PutNowait(c, size) \/ PutNowaitForce(c, size)

PutterStep(p) ==
    \/ \E c \in Channels, size \in Sizes : Put(p, c, size)
    \/ PutResume(p)
    \/ PutCancel(p)
    \/ PutRaise(p)

GetterStep(g) == Get(g) \/ GetResume(g) \/ GetCancel(g) \/ GetRaise(g)

Next ==
    \/ \E c \in Channels : ChannelStep(c)
    \/ \E p \in Putters : PutterStep(p)
    \/ \E g \in Getters : GetterStep(g)

\* The event loop runs every task that is ready, and the write loop of the
\* multiplexer calls get() again whenever it returns.
Fairness ==
    /\ \A p \in Putters : WF_vars(PutResume(p)) /\ WF_vars(PutRaise(p))
    /\ \A g \in Getters : WF_vars(Get(g)) /\ WF_vars(GetResume(g)) /\ WF_vars(GetRaise(g))

Spec == Init /\ [][Next]_vars
FairSpec == Spec /\ Fairness

-----------------------------------------------------------------------------
(***************************************************************************)
(* Properties                                                              *)
(***************************************************************************)

\* The type of the state.
TypeOK ==
    /\ channels \subseteq created
    /\ created \subseteq Channels
    /\ queue \in [Channels -> Seq(Sizes)]
    /\ total_bytes \in [Channels -> Nat]
    /\ under_water \in [Channels -> BOOLEAN]
    /\ pending_close \in [Channels -> BOOLEAN]
    /\ putters \in [Channels -> Seq(Putters)]
    /\ order \in Seq(Channels)
    /\ getters \in Seq(Getters)
    /\ ppc \in [Putters -> TaskStates]
    /\ call \in [Putters -> (Channels \X Sizes) \cup {NoCall}]
    /\ gpc \in [Getters -> TaskStates]
    /\ skipped \in [Channels -> Nat]

Distinct(s) == \A i, j \in DOMAIN s : s[i] = s[j] => i = j

\* _order names every registered channel that has something queued, exactly
\* once, and no registered channel that is empty: get_nowait() pops from the
\* right deque and popleft() never meets an empty one (queue.py:221, 261-270).
\* A channel that waits for its close has something left to send.
OrderMatchesQueues ==
    /\ Distinct(order)
    /\ \A c \in channels :
          /\ c \in Members(order) <=> queue[c] # <<>>
          /\ pending_close[c] => queue[c] # <<>>

WaitingOn(c) == {p \in Putters : ppc[p] = "waiting" /\ call[p][1] = c}
WokenOn(c) == {p \in Putters : ppc[p] \in {"woken", "lostRace"} /\ call[p][1] = c}

\* No wakeup of a writer is lost (queue.py:166-178, 277-278): while put()
\* waits on a registered channel, the channel has messages whose get() will
\* wake one that waits, or a writer that was woken has still to run.
NoLostPutterWakeup ==
    \A c \in channels :
        WaitingOn(c) # {} => queue[c] # <<>> \/ WokenOn(c) # {}

\* Messages of one size: no put() sleeps although its message fits, unless one
\* that was woken has still to run (queue.py:165-178, 277-278): each get() wakes
\* a writer for the room it makes, and a cancelled one hands its wakeup on.
RoomIsOffered ==
    \A c \in channels : \A p \in WaitingOn(c) :
        Fits(c, call[p][2]) => WokenOn(c) # {}

\* No wakeup of the write loop is lost (queue.py:230, 239-250): get() does not
\* stay suspended while a channel is in _order unless a woken get() is about
\* to run.
NoLostGetterWakeup ==
    (\E g \in Getters : gpc[g] = "waiting") /\ order # <<>>
        => \E g \in Getters : gpc[g] \in {"woken", "lostRace"}

\* The under-water flag told to the channel has hysteresis (queue.py:222-227,
\* 274-276): set it means above the low mark, clear it means below the high one.
WaterMarks ==
    \A c \in Channels :
        IF under_water[c] THEN total_bytes[c] > channel_low_water_mark
                          ELSE total_bytes[c] < channel_high_water_mark

\* Round robin (queue.py:98-100, 267-270): a channel with queued messages is
\* passed over by fewer gets than there are channels, whatever the others do.
NoStarvation == \A c \in Channels : skipped[c] < Cardinality(Channels)

\* delete_channel() loses nothing that was queued (queue.py:138-144, 271-274):
\* an id leaves _channels only in a step after which its deque is empty.
DeleteDrains ==
    [][\A c \in Channels : c \in channels \ channels' => queue'[c] = <<>>]_vars

\* Only put_nowait_force() lets a channel grow beyond its limit (queue.py:166,
\* 194-195, 198-211).
LimitOnlyForced ==
    [][\A c \in Channels :
          total_bytes'[c] > channel_size_limit /\ total_bytes'[c] > total_bytes[c]
              => \E size \in Sizes : PutNowaitForce(c, size)]_vars

\* A put() that waits is woken, cancelled or orphaned by the deletion of its
\* channel as long as the write loop is alive (queue.py:165-178, 277-278).
WaitingPutIsServed ==
    \A p \in Putters :
        ppc[p] = "waiting" ~> \/ ppc[p] # "waiting"
                              \/ call[p][1] \notin channels
                              \/ \A g \in Getters : gpc[g] = "failed"

\* get_nowait() raises nothing but QueueEmpty (queue.py:253-258), hence the
\* write loop is never ended by the queue itself.
GetRaisesOnlyQueueEmpty == \A g \in Getters : gpc[g] # "failed"
=============================================================================
