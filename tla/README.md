# snitun in TLA+

snitun lets a client behind a firewall serve TLS visitors. The client keeps one
TCP connection to a server; the server reads the host name (SNI) of a visitor's
TLS hello, finds the client that serves this host, and carries the visitor's
bytes over a *channel* of a *multiplexer* on the client's connection. This
directory models the parts that carry state and run concurrently, checks them
with TLC on small instances, and proves the central ones with TLAPS for all
instances. Paths below are relative to `src/`.

## 1. Inventory

| Component | State | Operations | Interacts with |
|---|---|---|---|
| Multi-channel queue, `snitun/multiplexer/queue.py` | per channel: deque of messages, byte count, under-water flag, pending-close flag, waiting putters; the turn order; waiting getters | `create_channel`, `delete_channel`, `put`, `put_nowait`, `put_nowait_force`, `get`, `get_nowait` | written by every channel, read by the write loop; calls the channel back at the water marks |
| Channel, `multiplexer/channel.py` | incoming queue, `_closing`, three under-water flags | `write`, `read`, `close`, `message_transport`, pause and resume callbacks | owns a share of the outgoing queue; called by the multiplexer's read loop and by handlers |
| Multiplexer, `multiplexer/core.py` | `_channels`, read and write task, ping event, idle timer | `create_channel`, `delete_channel`, `shutdown`, `ping`, the handlers of NEW, DATA, CLOSE, PAUSE, RESUME, PING | both ends of a client connection |
| Wire format and ciphers, `multiplexer/message.py`, `crypto.py` | nonce counters | pack, unpack, encrypt, decrypt | multiplexer |
| Channel transport, `multiplexer/transport.py`, `client/connector.py` | reader task, pause future | the asyncio transport over a channel; `EndpointConnector`, `TransportConnector` | channel, endpoint of the client |
| Peer directory, `server/peer_manager.py`, `server/peer.py`, `server/listener_peer.py` | name to peer; a multiplexer per peer | `create_peer`, challenge, `add_peer`, `remove_peer`, `close_connections` | multiplexer; events to the worker |
| SNI proxy, `server/listener_sni.py` | one handler per visitor | copy visitor to channel and back | channel, directory |
| Server with workers, `server/run.py`, `server/worker.py` | table of accepted connections, queue to each worker, published host names, load-balancing cycle | accept, read, hand over, expire, stop | thread of the parent process, worker processes |
| Client peer, `client/client_peer.py` | multiplexer and ping task | `start`, `stop`, ping loop | multiplexer, connector |
| Parsers and policies: `server/sni.py`, `server/proxy_protocol.py`, `client/access_list.py`, `utils/ipaddress.py` | none | pure functions | listeners |
| Ranged timeout, `utils/asyncio.py` | deadline and timer handle | `reschedule`, `cancel` | multiplexer, SNI proxy |
| Metrics and start-up helpers, `metrics/`, `utils/server.py`, `utils/aiohttp_client.py` | counters | reporting, glue | all |

What is hard here:

* **Suspension.** Everything runs on asyncio, so code between two awaits is
  atomic and code across an await is not. `put()` uses the channel object it
  looked up before it slept; `wait_disconnect()` returns arbitrarily late;
  a cancellation may hit a task before or after its future got its result.
* **Two queues in a loop.** Each direction of a channel can pause the other
  one; PAUSE and RESUME travel in the same bounded queue as the data they
  control and are dropped if they do not fit.
* **Closing.** A CLOSE is forced past the limit of the queue, a channel is
  deleted while messages remain, both ends may close at once, the connection
  may go down at any step.
* **Reconnects.** A client comes back before its old session has ended; the
  clean-up of the old one must not remove the new one.
* **Processes.** The accepting thread asks workers one at a time about
  dictionaries they are changing; stopping is a sequence of joins with timeouts.
* **Dead connections.** A peer may fall silent. Pings, their timeout, an idle
  timer and `stop()` all end the same two tasks, in any order, and the last
  `drain()` of the write task may hang on the very peer that is gone.
* **Fragments.** Three servers read a PROXY header and a TLS hello from a stream
  that comes in any pieces, and pass on what they have read too much.
* **A transport without a socket.** `ChannelTransport` promises asyncio's
  contract (pause, resume, close, `connection_lost`) to a TLS layer that calls it
  at any moment, from within the data it is being fed too.

`PROJECT.json` lists these as hazards with the line each one bites at and the
properties that watch it.

## 2. Modules

`MC*` modules only give constants their values; the configurations are the
`.cfg` files. `*Proofs` modules hold the theorems about a module (section 5).
Each module keeps its mutants (plausible bugs used to show that a property can
fail) as operators before the definition they replace; they are marked `Mutant`
and no specification uses them.

### MultiChannelQueue (queue.py, `MultiplexerMultiChannelQueue`)

One variable per attribute: `channels` and `pending_close` for the registered
channels, `queue`, `total_bytes`, `under_water` and `putters` for a
`_ChannelQueue`, `order` for the `OrderedDict` of turns, `getters`. A task that
is suspended in `put()` or `get()` is *waiting*, *woken*, *cancelled* or
*lostRace* (cancelled after its future had its result): those are the states in
which the code behaves differently. One action per method and, for the two
coroutines, one per stretch between awaits: `Put` and `PutResume` (the loop test
of `put()`), `PutCancel` (the cancellation is requested), `PutRaise` (the
`except` branch: the future is taken out, a wakeup passed on), and the same for
`get()`. A message is its effective size. A `_ChannelQueue` object outlives
its entry in `_channels`, because a suspended `put()` holds it; the model keeps
it, which is what exposes the finding `queue_keyerror`. `skipped` is a history
variable for fairness between channels.

### ChannelFlow (channel.py, core.py, listener_sni.py, connector.py)

One channel, both ends, and the two wires between them. At each end: the share
of the outgoing queue (`output`, `out_bytes`, `out_under`, `qstate`), the
incoming queue (`input`, `in_bytes`, `in_under`), `remote_under`, `closing`, the
table entry, the handler that copies from its source (`source`) and the task
that reads (`reader`). Actions are the handlers of `_read_message`
(`ReceiveNew`, `ReceiveData`, `ReceiveDataUnhealthy`, `ReceiveClose`,
`ReceivePauseResume`, `ReceiveUnknown`), a turn of the write loop (`Send`), loss
of the connection (`MuxDown`), the KeyError of an orphaned message
(`OrphanGet`), `write()` before and after its await (`Write`, `WriteResume`,
`WriteRaises`), `read()` (`Read`, `ReadWait`, `ReadClose`) and the end of a
handler (`HandlerEnds`; `HandlerLeaves` is the exit of the endpoint connector
that does not delete the channel, `client/connector.py:346`). The k-th DATA
message of an end is the number k, which is enough to see gaps, repetitions and
reordering. The history `untold` says that a PAUSE or RESUME of an end found no
room and was only logged.

`Stream` is the abstract specification of one direction: chunks are accepted,
handed on in order, and an end is either the writer's, after everything before
it, or a cut. `StreamTo(e)` instantiates it with a refinement mapping (`sent` of
the peer, `got`, `closedAt`, and what `read()` reported), and `ImplementsStream`
says that both directions implement it.

### Multiplexer and ClientPeer (core.py, client_peer.py)

`Multiplexer` is the life of the two tasks: `rtask`, `wtask` with the pending
cancellation `wcancel`, the transport (`eof`, `closing`), the ids in `_channels`,
the ping event `healthy`, the idle `timer`, and the state of the `peer`. A task
that was cancelled before its first step never enters its body (`dropped`).
`ClientPeer` puts on top of it `start()` up to and after its awaits, the handler
task (`HandlerStart`, `HandlerWakes`, `HandlerPings`, `HandlerPonged`,
`HandlerPingTimeout`, `HandlerCancelled`) and `stop()` in its three stretches.
The handler looks `_multiplexer` up again on every turn, and shuts down whatever
it finds there, which is what makes overlapping calls of `start()` interesting.

### RangedTimeout (utils/asyncio.py)

The timer with a clock in ticks: `armed`, `remaining` until `_when`, and the
history `idle` since the last `reschedule()`. `Reschedule` moves the timer only
when no more than the minimum remains; `_when` survives `cancel()`.

### ProxyProtocol, ClientHello, SNIListener (proxy_protocol.py, sni.py, listener_sni.py, run.py)

The first two are the parsers as operators on sequences of bytes, recursion
written as recursive functions. `SNIListener` feeds them a stream in pieces, for
three servers: SNIProxy alone, `SniTunServerSingle` and `SniTunServerWorker`. A
step is one read and all that follows it. A connection ends *served*, *peer* (a
token, for the peer listener), *closed* or *crashed*: `parse_tls_sni` looks at
the byte after a record header without asking whether there is one, and the
IndexError of a record of length 0 is caught by nobody. Streams are built in `MCVisitor` from
what they mean (header, address, host), so that `ServedAsSent` compares the
parsers with the intention and not with themselves. `StreamAssumption` states
that, read at once, a stream parses as what it means; the specification then says
what becomes of it in pieces.

### CryptoTransport and GcmSession (crypto.py, core.py, message.py)

`CryptoTransport` is the frame of a NEW message for each cipher: lengths, units,
overhead and the whole blocks of CBC, an encrypted byte being the byte.
`GcmSession` is the nonce counter of both ends under one key.

### ChannelTransport (transport.py, connector.py `ConnectorHandler`)

The client end of a channel under TLS: the channel (`table`, `closing`, `input`),
the reader task with its two awaits of the pause future, its position in a
message (`rest`), `connection_lost`, and the handler from `start_tls()` to its end.
While the reader runs nothing else does, except what the protocol does from
within `buffer_updated()`. SSLProtocol and the application may pause, resume,
write and close at any moment.

### Visitor

The composition: SNIListener until the peer is found, then `ProxyPeerHandler`
with its `RangedTimeout`, the address through `InitNew`, the frame of the cipher
and `NewAddress` to the access list, and ChannelTransport at the client.

### PeerManager (peer_manager.py, listener_peer.py, peer.py, worker.py)

Sessions (client connections) with their token, the phase of their handler, the
state of their multiplexer, the directory `peers`, the callbacks waiting in
`call_soon` (`events`) and what a worker publishes (`sync`, `peer_count`).
A shut-down multiplexer is *stopping* until its write task has ended, because
`is_connected` stays true until then.

### Dispatcher (run.py `SniTunServerWorker`, worker.py)

The accepting thread (`loop`, `ready`, `stale`, `reads`, `scan`, `lb`), `stop()`
(`closing`, `stopping`), the workers with their queue (`inbox`), and in every
worker a directory as in PeerManager. `ThreadDies` is the uncaught IndexError of
the parser: the thread ends in the middle of its loop, its connections are closed
with it, and `_running` stays true until `stop()` is called. Asking the workers is one step per worker
(`Ask`), since the dictionaries change in between. `Directory(w)` instantiates
PeerManager with a refinement mapping: the sessions of a worker are the clients
that were handed to it.

### How the modules compose

MultiChannelQueue is the whole queue, ChannelFlow uses the share of one channel
of it and implements Stream in both directions. Dispatcher contains N copies of
the state of PeerManager and is checked to implement it in each
(`WorkersKeepDirectories`). ClientPeer extends Multiplexer; Visitor extends
SNIListener (which extends both parsers), RangedTimeout, ChannelTransport and
CryptoTransport. In Visitor a message is read by the other end at once, since
what happens on the way is the subject of ChannelFlow.

## 3. Runs

| Run | States | Shows |
|---|---|---|
| `queue` | 284,232 | turn order and queues match, no wakeup is lost to a cancellation, room is offered to a `put()` that waits for it, marks are exact, no channel is skipped more often than there are others, a deleted channel drains, a `put()` that waits for room is served |
| `queue_keyerror` | violation | finding 1 |
| `channel` | 564,554 | with queues so tight that writers block, PAUSE and RESUME are dropped, the incoming queue overflows and `close()` finds no room for its None: each direction implements Stream under close, abort and loss; a table entry has its queue; nothing is missing on the way; the ends agree on who is paused until a word is dropped; a paused source resumes (unless a word was dropped), a channel is cleaned up at both ends, the reading task ends |
| `channel_read_error` | violation | finding 2 |
| `peers` | 57,876 | no stale entry, the newest session stays reachable, the published copy does not drift, a replaced session ends |
| `peers_alias` | violation | finding 3 |
| `dispatch` | 294,540 | with a stop or the death of the accepting thread at any moment: one owner per socket, nothing after the None, a steadily claimed host is served, every worker implements PeerManager, connections leave the thread, the claim of a worker ends although the client came back at the other one, `stop()` ends or fails |
| `dispatch_stop` | violation | finding 4 |
| `client` | 397,085 | a connection that the application sees has a handler, a write task that ran and ended leaves nothing open, a silent peer is noticed, `stop()` returns, a last `drain()` that hangs is ended by the idle timer |
| `visitor` | 310,608 | whatever is served is served as it was sent, by every server and in any pieces, and a visit is refused only by the worker and only if its first piece is too short; the access list judges the address that was sent; a pause holds back all but one chunk; the timer stays in its range; the application learns of the end; a closed channel is freed |
| `visitor_fragments` | violation | finding 5 |
| `visitor_pause` | violation | finding 6 |

### Bounds, and why they are enough

* `queue`: two channels, two putters and two getters, one size and a limit of
  one message, passed by a forced one. Two waiters are needed for a wakeup to be
  passed on, two channels for turns. Other sizes and limits are left to the
  proofs, which cover all of them. `MaxQueue` bounds how many messages may be put
  by calls that are not limited by size. The code has one getter, the write
  loop; two exercise the class as it is written.
* `channel`: real limits are megabytes; what matters is the order of limit, high
  and low mark and message size. One DATA message and one word fit into the
  outgoing queue, so that `put()` blocks and a PAUSE or RESUME may be dropped; one
  message fills the incoming queue, so that the next one aborts the channel and
  `close()` has no room for its None. Other proportions, those of `const.py` among
  them, are left to the proofs. One channel is enough because channels share only
  the queue, which `queue` checks with two.
* `peers`: three sessions of two clients, so that one client reconnects twice or
  two do once, one client with an alias.
* `dispatch`: two clients of one host for two workers, so that a client comes back
  at the other worker, and one visitor; `StaleMax` and `BufferMax` are counters of
  loop turns and reads and need only be reached. That a client comes back at the
  same worker is covered by `peers`, and by the theorem
  `WorkersImplementPeerManager` for any number of clients. `dispatch_stop` needs
  one client, whose session keeps its worker from exiting.
* `client`: two connections, so that two calls of `start()` overlap or follow each
  other, with one channel id; the number does not matter to the three
  invariants, which are proved for any.
* `visitor`: twenty-two streams (both header versions, both families, lengths at,
  below and above every limit, hellos with another extension or name type first
  or without a name, a record of length 0) in pieces of 1, 4 and 6 bytes and in
  one, at three servers with and without PROXY headers. `V1_MAX_LEN`, `MAX_HEADER_SIZE` and
  `MAX_BUFFER_SIZE` are 27, 54 and 200 instead of 108, 1500 and 1,024,000, so
  that streams which reach them stay short; the read sizes of the code (2048 and
  4096) are larger than any stream here. Then one channel with messages of one
  and two chunks and an incoming queue of two, since a pause is looked at before
  a message and between chunks; `RangedTimeout` has 2 and 4 ticks.

`CHECK_DEADLOCK FALSE`: these systems may stop (all connections used, all
channels closed).

### Fairness

Every fairness condition is weak and on steps that the event loop runs once they
are ready. `queue`: woken tasks run, the write loop keeps calling
`get()`. `channel`: in addition TCP delivers, the sinks take what was
read and a multiplexer notices that its peer closed the connection; no source
has to produce data or to end, and no idle timer has to fire. `peers`: a
cancelled write task ends. Its last `drain()` may hang on a dead connection; as
`HangingDrainEnds` shows in `client`, the idle timer then cancels the task again,
because it is disarmed only after the drain. A session whose idle timer has fired
before it was replaced gets its second cancel from the `shutdown()` of the
replacement; both in the same turn of the loop would be one cancel, which the
assumption leaves out. `dispatch`: the thread, the
loops of the workers and `stop()` keep running and a challenge passes or fails,
being bounded by a timeout; clients and visitors are not obliged to do anything,
and a session may stay for as long as it likes. `client`: tasks that are ready
run, and timers fall due one at a time, after the tasks that are ready have run
(they are tens of seconds apart); the 50 s of the handler and the 90 s of a ping
pass, because nothing puts them off, while the idle timer must fire only when
neither loop can put it off any more. `visitor`: tasks and callbacks run, a
CLOSE arrives, time passes; neither the visitor nor the protocol has to do
anything, and a handshake ends of itself only after `connection_lost`.

## 4. Findings

1. **`queue.py:262`, KeyError from `get_nowait`** (`queue_keyerror`). A `put()`
   that waited while its channel was deleted and drained still enters the
   message into a queue nobody owns and the id into the turn order. The next
   `get_nowait()` raises KeyError, which ends the write loop and so the
   connection with all its channels. The other queue properties say explicitly
   what holds in spite of it, and `OnlyOrphansRaise` proves that nothing else
   leads there.
2. **`channel.py:171`, RuntimeError in `read()`** (`channel_read_error`). After a
   CLOSE the reader drains its queue; when this crosses the low mark, the
   RESUME cannot be queued, because the queue entry is gone. `_get` has already
   removed the message, which is lost with all that follow.
3. **`peer_manager.py:110`, stale alias** (`peers_alias`). A client that
   reconnects with a token without its alias leaves the alias bound to the ended
   session for ever. NoStaleEntry holds, and is proved, for tokens that share no
   name (`DisjointTokens`).
4. **`run.py:401`, workers left running** (`dispatch_stop`). A worker may take
   10 s in `close_connections`, and `shutdown()` waits `join(10)`; `close()` of a
   running process raises ValueError and the loop over the workers ends.
5. **`run.py:521`, short first pieces** (`visitor_fragments`). The comment at
   `listener_sni.py:88-90` says that a fragmented hello "is handled the same on
   every server". `SniTunServerWorker` parses after every `recv()`, and of fewer
   than 5 bytes `parse_tls_sni` says that they are an error, not incomplete: a
   visitor whose hello begins with so short a piece is refused, where SNIProxy and
   `SniTunServerSingle` wait for the rest. `ServedAsSent` says what holds besides.
6. **`transport.py:255`, a chunk after `pause_reading()`** (`visitor_pause`). The
   docstring says that "No data will be passed to the protocol's data_received()
   method until resume_reading() is called". The reader looks at the pause before
   `channel.read()` and between chunks, not after `read()` has returned, and one
   chunk passes. `PauseHoldsBack`, checked and proved, says that it is one at most.

## 5. Proofs

**MultiChannelQueueProofs**, for any channels, tasks, sizes and limits. The
inductive invariant is

    TypeInv == Shape /\ CallsMatch /\ PuttersQueued /\ GettersQueued
    Inv     == TypeInv /\ OrderMatchesQueues /\ FreshIsEmpty

where `Shape` is `TypeOK` with byte counts that are any integer. That they are
naturals (`TypeCorrect`) follows from `AccountedHolds`: a count is the sum of the
sizes in the queue.

The type invariant alone is not inductive: that a wakeup reaches a task of the
right kind depends on what the deques of waiters contain (no duplicates, only
tasks that are suspended in a call for this channel, all that are waiting), and
`OrderMatchesQueues` needs that an id that was never created has left no trace.
Lemmas describe what `_wakeup_next` and `deque.remove` leave of a deque; on them
rest, one step per action:

* `TypeCorrect`, `OrderCorrect`, `InvHolds`;
* `WaterMarksHold`, `DeleteDrainsHolds`, and, not in a run, `AccountedHolds`
  (the byte count changes by exactly the size put or taken) and
  `LimitOnlyForcedHolds` (only `put_nowait_force` goes past the limit);
* `NoLostPutterWakeupHolds`, for messages of any sizes (the run, with one size, has
  the stronger `RoomIsOffered`): while a `put()` waits on a
  registered channel, a message is queued, whose get will wake a writer, or a
  woken writer has still to run. With several sizes no more is true: a woken
  writer whose message is too big waits again, and a smaller one that would fit
  sleeps on until the next get;
* `RoomIsOfferedHolds`, for messages of one size: no `put()` sleeps although its
  message fits, unless a woken one has still to run. The invariant `Claimed` counts
  the woken: while a `put()` waits, what is queued, a message for each of them and
  one more exceed the limit;
* `NoLostGetterWakeupHolds`: the same for readers, for any finite number of tasks
  in `get()`. That some reader is woken is not inductive: it takes one message,
  and the next may find nobody on the way. `EnoughRoused` counts instead: while a
  reader waits, the wakeups under way (readers that are woken, or cancelled with a
  wakeup in hand) are at least as many as the calls of `get_nowait()` that would
  return (`Due`, one for each message of a channel in its turn). `_put` adds one
  to both, a get takes one from both, and a cancelled reader hands its wakeup on;
* `OnlyOrphansRaise`: if every `put()` that is resumed still found its channel
  registered (`ResumesRegistered`), `get_nowait()` would raise nothing but
  QueueEmpty. It marks the limits of finding 1: no limit, cancellation or order of
  calls leads to the KeyError but that one;
* `NoStarvationHolds`: `TurnsLeft` adds to the invariant that what a channel was
  passed over and its place in `_order` sum to no more than the number of
  channels; the place moves by one with each turn and a channel that comes in
  goes to the end. That the order is no longer than the number of channels is
  the cardinality of an injection (`DistinctLength`).

The assumptions are those of the module: sizes do not exceed the limit, marks
are naturals with low below high, the set of channels is finite; the theorem on
readers, and the one on room, assume that there are finitely many of them.

**PeerManagerProofs**, for any sessions and names. `TypeCorrect`, which
no run repeats, needs nothing more. `NoStaleEntryHolds` and `LatestIsReachableHolds` assume `DisjointTokens`
(finding 3 shows why); the inductive invariant adds `EntriesAreWhole` (the names
of a token lead to one session together) to the two, since the clean-up decides
by the host name what to do with all the names. `DirectoryInSyncHolds`, under the
same assumption, rests on `SyncFollows`: for each name the last queued event about
it says what the directory has, and without one the copy is right. The count of
clients is that of the host names in the copy, and each token has one.

**ChannelFlowProofs**, for any sizes, limits and marks. The theorems are
`TypeCorrect`, `TableHasQueueHolds`, `NothingLostHolds`, `PauseAgreementHolds` and
the refinement `ImplementsStreamHolds`. The inductive invariant is `TypeOK`,
`Accounted` (the byte count of the outgoing queue is the sum of its messages,
without which it could not be shown to stay a natural) and

    Inv == /\ NewFirst
           /\ \A e \in Ends : /\ Unborn(e) /\ Life(e) /\ Gapless(e) /\ Within(e)
                              /\ Onward(e) /\ ClosePlace(e) /\ Complete(e)
                              /\ in_bytes[e] = DataSize * InQueue(e)

`NothingLost` is about an end that has the channel in its table; to carry it over
the moments before NEW and after CLOSE, `Unborn` and `NewFirst` say what an end
that has not read NEW looks like and where NEW is, `Life` what closing leaves
behind, `Gapless` that an end has read a prefix and its incoming queue goes on
from there, `Onward` that the messages under way to an end that has or expects
the channel go on where its queue ends, `Within` that nothing was taken that the
peer had not accepted before it closed, `ClosePlace` that a CLOSE is between what
was accepted before it and after it, and `Complete` that an end that was told of
a close has all that came before it, which is what `Stream` asks of a clean end.
The actions are first shown to have one of a few shapes (a message is queued,
sent, received, read; an end closes), and each shape to keep each part.

`PauseAgreementHolds` has no hypothesis: the code drops a PAUSE or RESUME that does
not fit and only logs it, and from then on the two ends may disagree, so the
property is about an end until it has dropped a word. That is the history
`untold`, which never goes back (`UntoldStays`). An end whose peer has protocol
version 0 is `untold` from its first word on.

**DispatcherProofs**, for any number of workers, connections and names:
`TypeCorrect`, `OwnerIsUnique`, `NoneIsLast`, `SteadyClaim` and the refinement
`WorkersImplementPeerManager`. The inductive invariant is

    Inv == /\ TypeOK /\ ThreadInv /\ OneOwner /\ StopInv
           /\ SteadyAhead /\ FreshClient /\ PeersOfWorker

`OneOwner` needs that a scan is about a connection the thread still has
(`ScanIsOfThread`) and that one which has left it has a worker. `NothingAfterNone`
needs the order of `stop()`: None is put only after the thread is done
(`StopInOrder`). `SteadyAhead` keeps a worker that claims the host throughout ahead
of the scan. For the refinement, `FreshClient` and `PeersOfWorker` say that a
client starts in one worker only and that a directory names sessions of its own
worker, so that a step of one worker is a stutter of the others.
`StopIsCleanHolds`, which no run checks, is the good side of finding 4: a `stop()`
that has joined every worker leaves none running and no accepted connection
open. Its invariant `Ended` says that workers are joined in order, that a process
that has exited holds no connection, and neither does a thread that has ended.

**SNIListenerProofs**: what the two parsers say of a part of a stream agrees with
what they say of all of it, for any bytes and any limits.
`HeaderIsFinal` says it of the PROXY header: a verdict other than "incomplete" on
what was read is the verdict on the whole stream. `HelloIsFinal` says it of the
hello: a part of a payload with a name in it is too short for the header of a
record (an error to `parse_tls_sni`, more to read for `payload_reader`), too short
for the record (incomplete to both), or gives the name. The loops over
extensions and over names are recursive functions of a position; that they exist
is shown by building them from the end of the data, where each entry looks only
further ahead, and that two of them agree by the least position where they would
not (`DownToZero`), since no induction theorem of the library can be used.

What a stream means is fixed by `StreamAssumption`: read at once, its beginning
parses as the header it was given, and the rest as the name or the token it was
given, or as nothing that can be served. TLC evaluates it for the streams of
`MCVisitor`, which are built from their meaning by other operators than those of
the parsers; the theorem is then about all streams of that kind, of any length,
and every way of cutting them. The inductive invariant `Listening` says
that the stripped header and its address are those of the whole stream, that no
more was stripped than read, and that a server that waits for the rest of a hello
has seen a handshake byte. From it, `ServedAsSentHolds` (in VisitorProofs, where
the specification is): what is served has the name, the address and the payload of
the stream, for every server and every split, and no valid stream ends the
thread or is waited for when all of it has come. SNIProxy and
`SniTunServerSingle` refuse no visit for its pieces; `SniTunServerWorker` only one
whose payload begins with a piece of less than 5 bytes (`CutShort`, finding 5), and
a token is refused only if it begins with a piece of 1 byte.

**VisitorProofs**, for any addresses, versions, access lists, streams, queue and
chunk bounds: `ServedAsSentHolds`, `PolicyIsKeptHolds`, `PauseHoldsBackHolds`,
`SessionTimerInRange`. The timer comes first, for any minimum below any maximum,
with activity, `cancel()` and time in any order: `TimerInRangeHolds`, with
`TimerTypeCorrect`, whose invariant is both together, because a timer that
`reschedule()` leaves alone is in range only if what remains does not exceed the
maximum. The inductive invariant has a part for each component that Visitor composes:

    Inv == TimerInv /\ Paused /\ Unserved /\ Judged /\ Addressed

`Paused` tells where the reader is when a chunk has slipped through a pause: at an
await of the pause future or where it looks at it next. `Unserved` says that the
transport does nothing before the visitor is served, because the pause of
`start_tls()` does not reset the count. `Judged` is the history of the access list.
`PolicyIsKept` rests on lemmas without a state: `UnitRoundTrip` (a cipher gives
back a unit of whole blocks), `FrameRoundTrip` and `NewRoundTrip` (the header tells
where the data ends), `BlockEffect` (the padding of `init_new` makes whole blocks,
the point of which is that CBC holds back the rest) and `SeenIsAttributed`; and on
`HeaderSource`: whatever bytes were read, a header gives an address of 4 or 16
bytes or none. Assumed are that the socket and `ipaddress` give addresses of
these lengths, that streams are sequences of numbers and versions are naturals
(`VisitorAssumption`, `ProxyAssumption`, `ListenerAssumption`).

**ClientPeerProofs**, for any number of connections and any channel ids. The
inductive invariant is

    Inv == MuxTypes /\ PeerTypes /\ HandlerKnown /\ Supervised /\ DoneMeansClosed

`Supervised` is not inductive alone: `start()` assigns `_multiplexer` before its
assertion, and when that fails no new handler takes over. Then the old task must
still be running, and for that `HandlerKnown` says that `_handler_task`, if set,
is a task that exists, so that one which is not done will look at
`_multiplexer` again. `DoneMeansClosed` needs the types, and that no step opens a
channel or arms a timer once the read task has been cancelled with the write
task. It is about write tasks that ran: one that was cancelled before its first
step (`dropped`) leaves all of it open (section 6). The theorems are
`TypeCorrect`, `SupervisedHolds`, `DoneMeansClosedHolds` and `InvHolds`.

**GcmSessionProofs**, for any width of the counter: `NonceIsFreshHolds`. The
invariant `UsedAreCounted` says that every used nonce of an end is below its
counter; the prefix tells the ends apart (`NonceInjective`). The module assumes
a key per session, as the docstring of the class asks. It has no run: the proof
covers what a run would show.

**Only model-checked.** Liveness under fairness is beyond the prover: that a
waiting put is served, a paused source resumes, readers end and channels are
cleaned up and freed, replaced sessions, lost claims and `stop()` end, a silent
peer is noticed and a hanging drain ended, the application learns of the end. Every invariant that a passing
run checks is a theorem, some under the hypotheses named above. What a parser
finds in a stream that is read at once is compared with what the stream was built
from for the streams of `MCVisitor` only: that a parser finds the name that an
encoder of arbitrary hellos put there would take induction over the encoder's
data.

## 6. Not modelled, and simplifications

* Protocol version 0 (no PAUSE and RESUME) is a constant of ChannelFlow with no
  run of its own.
* `MuxDown` joins `shutdown()` and the end of the write task; the window in
  between is in Multiplexer and PeerManager (*stopping*) but not in ChannelFlow.
* ChannelFlow leaves out the branch for DATA on a channel that is closing and
  still in the table: with the two handlers it has, `TableHasQueue` shows that it
  is unreachable. ChannelTransport closes channels that stay in the table, and
  has the branch. The timeout of the `put()` in `create_channel` is an outcome in
  Visitor (`StartFails`).
* Multiplexer has no clock: a timer that runs may fire at any moment after the
  ready tasks. Throttling is a pause between two turns of the write loop.
* ClientPeer has one `stop()` at a time; a second one would fail the assertion of
  `_stop_handler`.
* SNIListener: host names are ASCII.
* CryptoTransport follows one NEW at the head of a CBC stream; both ends use the
  same protocol version and cipher.
* Dispatcher gives a client one name and leaves token expiry to PeerManager. A
  worker that dies is not modelled.
* The metric `PeerManager.connections` counts names, aliases included.
* The stale limit of a connection counts turns of the loop, as in the code, not
  seconds.
* Ciphers, TLS, logging and metrics are library code, data or reporting. A
  challenge is an outcome. Metrics and the start-up helpers
  (`utils/aiohttp_client.py`, `utils/server.py`, `metrics/`) keep no state that
  another part reads; the endpoint of `EndpointConnector` and its error callback
  are an outcome of the connection.

Behaviour met while modelling that no run claims anything about, because the
models include or exclude it as stated:

* **A record of length 0.** `parse_tls_sni` reads the handshake type after checking
  only the length of the record (`sni.py:80-81`): of a record header with length 0
  that has come alone it raises IndexError. `_process` catches only the errors of
  the parser (`run.py:513-524`), so the exception ends the accepting thread of
  `SniTunServerWorker`, which then accepts nobody. SNIProxy and
  `SniTunServerSingle` do not meet it, because `payload_reader` waits for the sixth
  byte. The models have it: *crashed* in SNIListener, which `ServedAsSent` allows for streams that mean
  nothing only, and `ThreadDies` in Dispatcher, after which connections still leave
  the table and `stop()` still ends the workers. The parser also walks extensions to
  the end of the data, not of the record.
* **Other pieces.** A token whose first piece is a single byte is refused by both
  combined servers, which `ServedAsSent` excuses as `CutShort`. A PROXY header
  longer than 1500 bytes is refused by SNIProxy only.
* **A RESUME that is dropped.** The other end stays paused: the code sends no second
  RESUME before the incoming queue has been filled and drained again.
  `PausedSourceResumes` and `PauseAgreement` excuse an end that has dropped a word.
* **The idle timer first.** A session that its own idle timer ends is cancelled
  once; if its last `drain()` hangs on a silent peer, nobody cancels it a second
  time before it is replaced or stopped. `HangingDrainEnds` is about a drain while
  the timer is still to come.
* **`stop()` right after `start()`**, without a turn of the loop in between,
  cancels the write task before it ran: its `finally` never does, so the socket,
  the read task and the timer stay until the peer ends the connection
  (`dropped`; `DoneMeansClosed` is about tasks that ran). The same holds for a
  transport that is already closing when the multiplexer is created.
* **Overlapping `start()`**: `_multiplexer` is assigned before the assertion on
  the handler task, so the first connection is left without a handler;
  it is neither pinged nor shut down until its peer or its idle timer ends it, and
  `StopReturns` excuses it. A ping after `write_eof()` raises
  MultiplexerTransportClose, which the handler does not catch and `stop()` passes
  on.
* **A pause outlives a CLOSE.** The CLOSE of the server closes the channel and
  not the transport: the pause future is not released, so that an application
  that has paused reading, and then waits for `drain()`, which a closed channel
  never resumes either, gets no `connection_lost`. `EndReachesApp` excuses a
  pause.
* `close()` of the transport sends no CLOSE (`transport.py:147`); the channel goes
  when the visitor leaves or the idle timer of the server fires
  (`ChannelIsFreed`).
* **Default versions.** The comment at `client_peer.py:124-128` says that "By
  default we always assume the server can handle the latest protocol version",
  but `DEFAULT_PROTOCOL_VERSION` is 0 (`utils/server.py:16`), while
  `generate_client_token` writes version 2 into the token. With both defaults the
  two ends read NEW differently; the models assume that they agree.
* AES-GCM repeats nonces when a key is used for a second connection, as its
  docstring says; the proof is about one.

## 7. Plan

Done: the queue, one channel and its refinement of a stream, the directory, the
dispatcher and its refinement of the directory, the multiplexer's life cycle with
the client peer, the way of a visitor from its first byte to the transport of the
client, and the proofs of section 5, which cover every invariant of a passing
run. Next, in this order:

1. A worker that dies while it owns connections.
2. Protocol version 0 in a run of its own.
3. The encoders of `MCVisitor` as operators of any host name and address, with the
   parsers proved to invert them.
