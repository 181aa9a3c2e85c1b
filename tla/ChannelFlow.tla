---------------------------- MODULE ChannelFlow ----------------------------
(***************************************************************************)
(* One channel between the two multiplexers of a tunnel: the class         *)
(* MultiplexerChannel (snitun/multiplexer/channel.py) at both ends, the    *)
(* handlers of Multiplexer._read_message and delete_channel (core.py) that *)
(* drive it, its share of the outgoing queue (queue.py, in full in         *)
(* MultiChannelQueue) and the incoming queue of either end.                *)
(*                                                                         *)
(* The server end creates the channel (ProxyPeerHandler, listener_sni.py); *)
(* the client end comes to be when it reads NEW.  At both ends a handler   *)
(* copies a source to the channel and the channel to a sink; the source of *)
(* the client end is the endpoint it connects to.  A step is what runs     *)
(* between two awaits.  The k-th DATA message an end accepts is number k.  *)
(***************************************************************************)
EXTENDS Integers, Sequences

CONSTANTS
    DataSize,                  \* effective size of DATA; the others have 1
    OutLimit, OutLow, OutHigh, \* OUTGOING_QUEUE_* of const.py
    InLimit, InLow, InHigh,    \* INCOMING_QUEUE_*
    PauseResume,               \* peer_protocol_version >= 1
    ServerChunks, ClientChunks \* bounds: chunks the source of an end has

ASSUME FlowAssumption ==
    /\ DataSize \in Nat \ {0}
    /\ {OutLow, InLow} \subseteq Nat
    /\ {OutLimit, OutHigh, InLimit, InHigh, ServerChunks, ClientChunks} \subseteq Nat \ {0}
    /\ OutLow < OutHigh /\ InLow < InHigh
    /\ DataSize <= OutLimit
    /\ PauseResume \in BOOLEAN

Ends == {"server", "client"}
Peer(e) == IF e = "server" THEN "client" ELSE "server"
Chunks(e) == IF e = "server" THEN ServerChunks ELSE ClientChunks

VARIABLES
    link,         \* the multiplexer of the end: up or down
    table,        \* the id is in Multiplexer._channels
    qstate,       \* its _ChannelQueue: none, open, closing (pending_close), gone
    output,       \* _ChannelQueue.queue
    out_bytes,    \* _ChannelQueue.total_bytes
    out_under,    \* _ChannelQueue.under_water = _local_output_under_water
    remote_under, \* _remote_input_under_water
    wire,         \* what the end has written to the connection, unread
    input,        \* _input: numbers of DATA messages, Nil for None
    in_bytes,     \* _input._total_bytes
    in_under,     \* _input._under_water
    closing,      \* _closing
    source,       \* the task that writes: none, idle, chunk, blocked, done
    reader,       \* the task that reads: none, reading, waiting (in get()),
                  \* closed, failed, stopped
    sent,         \* DATA messages that the outgoing queue took
    got,          \* numbers of the DATA messages that read() returned
    cause,        \* history: why the channel was closed
    closedAt,     \* history: sent when the end queued its CLOSE, -1 before
    untold        \* history: a PAUSE or RESUME of the end was not sent

outVars == <<output, out_bytes, out_under>>
inVars == <<input, in_bytes, in_under>>
muxVars == <<link, table, qstate>>
histVars == <<cause, closedAt, untold>>
vars == <<muxVars, outVars, remote_under, wire, inVars, closing, source, reader,
          sent, got, histVars>>

Nil == 0
Control == {"NEW", "CLOSE", "PAUSE", "RESUME"}
Msg(type) == [type |-> type, n |-> 0]
Data(k) == [type |-> "DATA", n |-> k]
Size(m) == IF m.type = "DATA" THEN DataSize ELSE 1

\* A read() that is not suspended, or is suspended in get() of _input.
Alive == {"reading", "waiting"}

Init ==
    /\ link = [e \in Ends |-> "up"]
    /\ table = [e \in Ends |-> FALSE]
    /\ qstate = [e \in Ends |-> "none"]
    /\ output = [e \in Ends |-> <<>>]
    /\ out_bytes = [e \in Ends |-> 0]
    /\ out_under = [e \in Ends |-> FALSE]
    /\ remote_under = [e \in Ends |-> FALSE]
    /\ wire = [e \in Ends |-> <<>>]
    /\ input = [e \in Ends |-> <<>>]
    /\ in_bytes = [e \in Ends |-> 0]
    /\ in_under = [e \in Ends |-> FALSE]
    /\ closing = [e \in Ends |-> FALSE]
    /\ source = [e \in Ends |-> "none"]
    /\ reader = [e \in Ends |-> "none"]
    /\ sent = [e \in Ends |-> 0]
    /\ got = [e \in Ends |-> <<>>]
    /\ cause = [e \in Ends |-> "open"]
    /\ closedAt = [e \in Ends |-> -1]
    /\ untold = [e \in Ends |-> FALSE]

-----------------------------------------------------------------------------
(***************************************************************************)
(* The queues                                                              *)
(***************************************************************************)

\* What _pause_or_resume_reader tells the handler, whenever it changes.
PauseReader(e) == out_under[e] \/ remote_under[e]

\* The handler has a pause future that is not done: the callback creates and
\* resolves one on each change and ignores a repetition.
ReaderPaused(e) == PauseReader(e)

Fits(e, m) == out_bytes[e] + Size(m) <= OutLimit
InputFull(e) == in_bytes[e] >= InLimit

\* Mutant: only the header of a message is counted.
EnqueueHeaderOnly(e, m) ==
    /\ output' = [output EXCEPT ![e] = Append(@, m)]
    /\ out_bytes' = [out_bytes EXCEPT ![e] = @ + 1]
    /\ out_under' = [out_under EXCEPT ![e] = @ \/ out_bytes[e] + 1 >= OutHigh]

\* _put of the outgoing queue
Enqueue(e, m) ==
    /\ output' = [output EXCEPT ![e] = Append(@, m)]
    /\ out_bytes' = [out_bytes EXCEPT ![e] = @ + Size(m)]
    /\ out_under' = [out_under EXCEPT ![e] = @ \/ out_bytes[e] + Size(m) >= OutHigh]

\* delete_channel of the queue on what will then be queued
QueueDeleted(e, queued) ==
    IF qstate[e] = "gone" \/ queued = <<>> THEN "gone" ELSE "closing"

\* Mutants: PAUSE and RESUME only into an empty queue; no RESUME at all.
TellRemoteIfIdle(e, type) ==
    /\ \/ output[e] = <<>> /\ Enqueue(e, Msg(type))
       \/ output[e] # <<>> /\ UNCHANGED outVars
    /\ UNCHANGED untold
TellRemotePauseOnly(e, type) ==
    /\ \/ type = "PAUSE" /\ Enqueue(e, Msg(type))
       \/ type # "PAUSE" /\ UNCHANGED outVars
    /\ UNCHANGED untold

\* _on_local_input_under_water: put_nowait of PAUSE or RESUME; a full queue
\* is only logged.  The caller knows whether the queue entry is there.
TellRemote(e, type) ==
    \/ /\ PauseResume /\ Fits(e, Msg(type))
       /\ Enqueue(e, Msg(type))
       /\ UNCHANGED untold
    \/ /\ ~(PauseResume /\ Fits(e, Msg(type)))
       /\ untold' = [untold EXCEPT ![e] = TRUE]
       /\ UNCHANGED outVars

\* Mutants of close(): what was not read is dropped; no None is queued.
InputDropped(e) == <<Nil>>
InputAsItWas(e) == input[e]

\* What _input holds after close(): None, unless it is full.
InputClosed(e) == IF InputFull(e) THEN input[e] ELSE Append(input[e], Nil)

\* close, by the multiplexer
Close(e, why) ==
    /\ closing' = [closing EXCEPT ![e] = TRUE]
    /\ input' = [input EXCEPT ![e] = InputClosed(e)]
    /\ cause' = [cause EXCEPT ![e] = why]
    /\ UNCHANGED <<in_bytes, in_under>>

\* Mutant: the channel is deleted without a CLOSE for the peer.
DeleteSilently(e) ==
    /\ table' = [table EXCEPT ![e] = FALSE]
    /\ qstate' = [qstate EXCEPT ![e] = QueueDeleted(e, output[e])]
    /\ UNCHANGED <<outVars, closedAt>>

\* Multiplexer.delete_channel: CLOSE is forced into the queue, once.
DeleteChannel(e) ==
    \/ /\ table[e]
       /\ table' = [table EXCEPT ![e] = FALSE]
       /\ \/ /\ qstate[e] # "gone"
             /\ Enqueue(e, Msg("CLOSE"))
             /\ qstate' = [qstate EXCEPT ![e] = "closing"]
             /\ closedAt' = [closedAt EXCEPT ![e] = sent[e]]
          \/ /\ qstate[e] = "gone"           \* RuntimeError is suppressed
             /\ UNCHANGED <<outVars, qstate, closedAt>>
    \/ /\ ~table[e]
       /\ qstate' = [qstate EXCEPT ![e] = QueueDeleted(e, output[e])]
       /\ UNCHANGED <<table, outVars, closedAt>>

-----------------------------------------------------------------------------
(***************************************************************************)
(* The multiplexer of an end                                               *)
(***************************************************************************)

\* create_channel; put() never waits on a queue that is new.
CreateChannel ==
    /\ link["server"] = "up"
    /\ qstate["server"] = "none"
    /\ Enqueue("server", Msg("NEW"))
    /\ qstate' = [qstate EXCEPT !["server"] = "open"]
    /\ table' = [table EXCEPT !["server"] = TRUE]
    /\ source' = [source EXCEPT !["server"] = "idle"]
    /\ reader' = [reader EXCEPT !["server"] = "reading"]
    /\ UNCHANGED <<link, remote_under, wire, inVars, closing, sent, got, histVars>>

\* One turn of _write_to_peer_loop: get_nowait and _write_message.
Send(e) ==
    /\ link[e] = "up"
    /\ qstate[e] \in {"open", "closing"}
    /\ output[e] # <<>>
    /\ LET m == Head(output[e])
           rest == Tail(output[e])
           left == out_bytes[e] - Size(m)
       IN  /\ wire' = [wire EXCEPT ![e] = Append(@, m)]
           /\ output' = [output EXCEPT ![e] = rest]
           /\ out_bytes' = [out_bytes EXCEPT ![e] = left]
           /\ out_under' = [out_under EXCEPT ![e] = @ /\ left > OutLow]
           /\ qstate' = [qstate EXCEPT
                           ![e] = IF @ = "closing" /\ rest = <<>> THEN "gone" ELSE @]
    /\ UNCHANGED <<link, table, remote_under, inVars, closing, source, reader, sent, got,
                   histVars>>

\* shutdown, _on_timeout, a lost connection: _graceful_channel_shutdown.
MuxDown(e) ==
    /\ link[e] = "up"
    /\ link' = [link EXCEPT ![e] = "down"]
    /\ \/ /\ table[e]
          /\ table' = [table EXCEPT ![e] = FALSE]
          /\ qstate' = [qstate EXCEPT ![e] = QueueDeleted(e, output[e])]
          /\ Close(e, "down")
       \/ /\ ~table[e]
          /\ UNCHANGED <<table, qstate, inVars, closing, cause>>
    /\ UNCHANGED <<outVars, remote_under, wire, source, reader, sent, got, closedAt, untold>>

\* get_nowait meets an id whose queue is gone: KeyError ends the write loop.
OrphanGet(e) ==
    /\ qstate[e] = "gone"
    /\ output[e] # <<>>
    /\ MuxDown(e)

\* The next message of the peer, for _read_message.
Incoming(e, types) ==
    /\ link[e] = "up"
    /\ wire[Peer(e)] # <<>>
    /\ Head(wire[Peer(e)]).type \in types
    /\ wire' = [wire EXCEPT ![Peer(e)] = Tail(@)]

\* NEW: the channel is created and its handler started.
ReceiveNew(e) ==
    /\ Incoming(e, {"NEW"})
    /\ table' = [table EXCEPT ![e] = TRUE]
    /\ qstate' = [qstate EXCEPT ![e] = "open"]
    /\ source' = [source EXCEPT ![e] = "idle"]
    /\ reader' = [reader EXCEPT ![e] = "reading"]
    /\ UNCHANGED <<link, outVars, remote_under, inVars, closing, sent, got, histVars>>

\* _put of the incoming queue; it calls for PAUSE at the high mark.
InputPut(e, k) ==
    /\ input' = [input EXCEPT ![e] = Append(@, k)]
    /\ in_bytes' = [in_bytes EXCEPT ![e] = @ + DataSize]
    /\ \/ /\ ~in_under[e] /\ in_bytes[e] + DataSize >= InHigh
          /\ in_under' = [in_under EXCEPT ![e] = TRUE]
          /\ TellRemote(e, "PAUSE")
       \/ /\ in_under[e] \/ in_bytes[e] + DataSize < InHigh
          /\ UNCHANGED <<in_under, outVars, untold>>

\* message_transport
ReceiveData(e) ==
    /\ Incoming(e, {"DATA"})
    /\ table[e] /\ ~closing[e] /\ ~InputFull(e)
    /\ InputPut(e, Head(wire[Peer(e)]).n)
    /\ UNCHANGED <<muxVars, remote_under, closing, source, reader, sent, got, cause, closedAt>>

\* Mutant: DATA that finds the incoming queue full is dropped.
ReceiveDataDropped(e) ==
    /\ Incoming(e, {"DATA"})
    /\ table[e] /\ ~closing[e] /\ InputFull(e)
    /\ UNCHANGED <<muxVars, outVars, remote_under, inVars, closing, source, reader, sent,
                   got, histVars>>

\* DATA for a channel that is unhealthy: it is closed.
ReceiveDataUnhealthy(e) ==
    /\ Incoming(e, {"DATA"})
    /\ table[e] /\ ~closing[e] /\ InputFull(e)
    /\ Close(e, "unhealthy")
    /\ DeleteChannel(e)
    /\ UNCHANGED <<link, remote_under, source, reader, sent, got, untold>>

\* Mutant: a closed channel stays in _channels.
ReceiveCloseKeeps(e) ==
    /\ Incoming(e, {"CLOSE"})
    /\ table[e]
    /\ qstate' = [qstate EXCEPT ![e] = QueueDeleted(e, output[e])]
    /\ Close(e, "peer")
    /\ UNCHANGED <<link, table, outVars, remote_under, source, reader, sent, got, closedAt,
                   untold>>

\* CLOSE for a channel: _delete_channel_and_queue, then close.
ReceiveClose(e) ==
    /\ Incoming(e, {"CLOSE"})
    /\ table[e]
    /\ table' = [table EXCEPT ![e] = FALSE]
    /\ qstate' = [qstate EXCEPT ![e] = QueueDeleted(e, output[e])]
    /\ Close(e, "peer")
    /\ UNCHANGED <<link, outVars, remote_under, source, reader, sent, got, closedAt, untold>>

\* on_remote_input_under_water
ReceivePauseResume(e) ==
    /\ Incoming(e, {"PAUSE", "RESUME"})
    /\ table[e]
    /\ remote_under' = [remote_under EXCEPT ![e] = Head(wire[Peer(e)]).type = "PAUSE"]
    /\ UNCHANGED <<muxVars, outVars, inVars, closing, source, reader, sent, got, histVars>>

\* A message for an id that is not, or no longer, in _channels.
ReceiveUnknown(e) ==
    /\ Incoming(e, {"DATA", "CLOSE", "PAUSE", "RESUME"})
    /\ ~table[e]
    /\ UNCHANGED <<muxVars, outVars, remote_under, inVars, closing, source, reader, sent,
                   got, histVars>>

-----------------------------------------------------------------------------
(***************************************************************************)
(* The handler of an end                                                   *)
(***************************************************************************)

\* The handler reads its source unless the pause future is set.
ReadSource(e) ==
    /\ source[e] = "idle"
    /\ ~ReaderPaused(e)
    /\ ~closing[e]
    /\ sent[e] < Chunks(e)
    /\ source' = [source EXCEPT ![e] = "chunk"]
    /\ UNCHANGED <<muxVars, outVars, remote_under, wire, inVars, closing, reader, sent, got,
                   histVars>>

\* put() or put_nowait() has taken the chunk.
Accept(e) ==
    /\ Enqueue(e, Data(sent[e] + 1))
    /\ sent' = [sent EXCEPT ![e] = @ + 1]
    /\ source' = [source EXCEPT ![e] = "idle"]
    /\ UNCHANGED <<muxVars, remote_under, wire, inVars, closing, reader, got, histVars>>

\* write, up to its first await
Write(e) ==
    /\ source[e] = "chunk"
    /\ ~closing[e]
    /\ qstate[e] # "gone"
    /\ \/ Fits(e, Data(1)) /\ Accept(e)
       \/ /\ ~Fits(e, Data(1))
          /\ source' = [source EXCEPT ![e] = "blocked"]
          /\ UNCHANGED <<muxVars, outVars, remote_under, wire, inVars, closing, reader,
                         sent, got, histVars>>

\* put() after a wakeup: neither _closing nor _channels is looked at again.
WriteResume(e) ==
    /\ source[e] = "blocked"
    /\ Fits(e, Data(1))
    /\ Accept(e)

\* The handler ends: its source does, write() raises or times out, its idle
\* timer fires.  It deletes the channel and cancels the task that reads.
HandlerEnds(e) ==
    /\ source[e] \in {"idle", "chunk", "blocked"}
    /\ source' = [source EXCEPT ![e] = "done"]
    /\ reader' = [reader EXCEPT ![e] = IF @ \in Alive THEN "stopped" ELSE @]
    /\ DeleteChannel(e)
    /\ UNCHANGED <<link, remote_under, wire, inVars, closing, sent, got, cause, untold>>

\* write() raises: the channel is closing or its queue is gone.
WriteRaises(e) ==
    /\ source[e] = "chunk"
    /\ closing[e] \/ qstate[e] = "gone"
    /\ HandlerEnds(e)

\* The handler of the client end finds the transport of its endpoint closing
\* at the head of its loop: it ends and does not delete the channel.
HandlerLeaves ==
    /\ source["client"] = "idle"
    /\ source' = [source EXCEPT !["client"] = "done"]
    /\ reader' = [reader EXCEPT !["client"] = IF @ \in Alive THEN "stopped" ELSE @]
    /\ UNCHANGED <<muxVars, outVars, remote_under, wire, inVars, closing, sent, got, histVars>>

\* read() returns a message, after _get of the incoming queue.
Read(e) ==
    /\ reader[e] \in Alive
    /\ input[e] # <<>> /\ Head(input[e]) # Nil
    /\ LET left == in_bytes[e] - DataSize
           recovers == in_under[e] /\ left <= InLow
       IN  /\ input' = [input EXCEPT ![e] = Tail(@)]
           /\ in_bytes' = [in_bytes EXCEPT ![e] = left]
           /\ in_under' = [in_under EXCEPT ![e] = @ /\ ~recovers]
           /\ \/ /\ ~recovers
                 /\ got' = [got EXCEPT ![e] = Append(@, Head(input[e]))]
                 /\ reader' = [reader EXCEPT ![e] = "reading"]
                 /\ UNCHANGED <<outVars, untold>>
              \/ /\ recovers /\ (qstate[e] # "gone" \/ ~PauseResume)
                 /\ TellRemote(e, "RESUME")
                 /\ got' = [got EXCEPT ![e] = Append(@, Head(input[e]))]
                 /\ reader' = [reader EXCEPT ![e] = "reading"]
              \/ /\ recovers /\ qstate[e] = "gone" /\ PauseResume
                 /\ reader' = [reader EXCEPT ![e] = "failed"]  \* RuntimeError
                 /\ UNCHANGED <<outVars, got, untold>>
    /\ UNCHANGED <<muxVars, remote_under, wire, closing, source, sent, cause, closedAt>>

\* read() suspends in get(); only a message or the None of close() wakes it.
ReadWait(e) ==
    /\ reader[e] = "reading"
    /\ input[e] = <<>> /\ ~closing[e]
    /\ reader' = [reader EXCEPT ![e] = "waiting"]
    /\ UNCHANGED <<muxVars, outVars, remote_under, wire, inVars, closing, source, sent, got,
                   histVars>>

\* read() raises MultiplexerTransportClose.
ReadClose(e) ==
    /\ \/ reader[e] \in Alive /\ input[e] # <<>> /\ Head(input[e]) = Nil
       \/ reader[e] = "reading" /\ input[e] = <<>> /\ closing[e]
    /\ reader' = [reader EXCEPT ![e] = "closed"]
    /\ UNCHANGED <<muxVars, outVars, remote_under, wire, inVars, closing, source, sent, got,
                   histVars>>

-----------------------------------------------------------------------------
Receive(e) ==
    \/ ReceiveNew(e)
    \/ ReceiveData(e)
    \/ ReceiveDataUnhealthy(e)
    \/ ReceiveClose(e)
    \/ ReceivePauseResume(e)
    \/ ReceiveUnknown(e)

Next ==
    \/ CreateChannel
    \/ HandlerLeaves
    \/ \E e \in Ends :
          \/ Send(e)
          \/ Receive(e)
          \/ MuxDown(e)
          \/ OrphanGet(e)
          \/ ReadSource(e)
          \/ Write(e)
          \/ WriteResume(e)
          \/ WriteRaises(e)
          \/ HandlerEnds(e)
          \/ Read(e)
          \/ ReadWait(e)
          \/ ReadClose(e)

\* The event loop runs what is ready, TCP delivers, the sinks take what is
\* read.  A multiplexer whose connection the peer has closed notices it.  No
\* source is obliged to have data, to end, or to be stopped by its timer.
Fairness ==
    \A e \in Ends :
        /\ WF_vars(Send(e) \/ OrphanGet(e)) /\ WF_vars(Receive(e))
        /\ WF_vars(Write(e) \/ WriteResume(e) \/ WriteRaises(e))
        /\ WF_vars(Read(e) \/ ReadWait(e) \/ ReadClose(e))
        /\ WF_vars(link[Peer(e)] = "down" /\ MuxDown(e))

Spec == Init /\ [][Next]_vars
FairSpec == Spec /\ Fairness

-----------------------------------------------------------------------------
(***************************************************************************)
(* Properties                                                              *)
(***************************************************************************)

Messages == [type : Control \cup {"DATA"}, n : Nat]

\* The type of the state.
TypeOK ==
    /\ link \in [Ends -> {"up", "down"}]
    /\ table \in [Ends -> BOOLEAN]
    /\ qstate \in [Ends -> {"none", "open", "closing", "gone"}]
    /\ output \in [Ends -> Seq(Messages)] /\ wire \in [Ends -> Seq(Messages)]
    /\ input \in [Ends -> Seq(Nat)] /\ got \in [Ends -> Seq(Nat)]
    /\ out_bytes \in [Ends -> Nat] /\ in_bytes \in [Ends -> Nat]
    /\ out_under \in [Ends -> BOOLEAN] /\ in_under \in [Ends -> BOOLEAN]
    /\ remote_under \in [Ends -> BOOLEAN] /\ closing \in [Ends -> BOOLEAN]
    /\ source \in [Ends -> {"none", "idle", "chunk", "blocked", "done"}]
    /\ reader \in [Ends -> Alive \cup {"none", "closed", "failed", "stopped"}]
    /\ sent \in [Ends -> Nat]
    /\ cause \in [Ends -> {"open", "peer", "unhealthy", "down"}]
    /\ closedAt \in [Ends -> Int] /\ untold \in [Ends -> BOOLEAN]

\* A channel that _read_message can find has its queue entry and is not
\* closing (core.py:152-157, 349-350, 385-390, 474-480): a PAUSE that DATA
\* calls for is never put on a missing queue, whose RuntimeError nothing in
\* the read loop catches (channel.py:171).
TableHasQueue == \A e \in Ends : table[e] => qstate[e] = "open" /\ ~closing[e]

UpTo(k) == [i \in 1 .. k |-> i]

\* What e has accepted for its peer and the peer has not read from the wire.
Way(e) == wire[e] \o output[e]

\* The DATA messages of msgs are those numbered from .. to, each once, in order.
Carries(msgs, from, to) ==
    LET data == {i \in DOMAIN msgs : msgs[i].type = "DATA"}
    IN  /\ \A i \in data : msgs[i].n \in from .. to
        /\ \A k \in from .. to : \E i \in data : msgs[i].n = k
        /\ \A i, j \in data : i < j => msgs[i].n < msgs[j].n

\* While an end has the channel, everything its peer has accepted is read, in
\* its incoming queue, on the wire or in the peer's outgoing queue, in order
\* and without gaps (channel.py:250-292, 328-336, core.py:335-351).
NothingLost ==
    \A e \in Ends :
        table[e] => LET here == got[e] \o input[e]
                    IN  /\ here = UpTo(Len(here))
                        /\ Carries(Way(Peer(e)), Len(here) + 1, sent[Peer(e)])

\* How the task that reads the channel of e has ended.
Told(e) ==
    IF reader[e] \in {"none"} \cup Alive THEN "open"
    ELSE IF reader[e] = "closed" /\ cause[e] = "peer" THEN "closed" ELSE "cut"

StreamTo(e) == INSTANCE Stream WITH
                   accepted <- sent[Peer(e)],
                   handed <- got[e],
                   end <- closedAt[Peer(e)],
                   told <- Told(e)

\* Either direction of the channel implements Stream, across a close by either
\* end or both, the abort of an unhealthy channel and the loss of the
\* connection: an end reads a gapless prefix of what the other one wrote, and
\* read() reports the end of a stream that the peer closed only after all that
\* the peer had queued before its CLOSE (channel.py:232-237, 250-292, 328-336,
\* core.py:335-351, 385-390, 456-480).
ImplementsStream ==
    /\ \A e \in Ends : StreamTo(e)!Init
    /\ [][\A e \in Ends : [StreamTo(e)!Next]_(StreamTo(e)!vars)]_vars

\* The PAUSE and RESUME messages that are on their way from e.
Words(e) == {i \in DOMAIN Way(e) : Way(e)[i].type \in {"PAUSE", "RESUME"}}

\* The two ends agree on the state of the incoming queue up to messages under
\* way, the last of which counts: no PAUSE and no RESUME is lost or overtaken
\* (channel.py:151-175, core.py:404-416), until one is not sent because the
\* outgoing queue has no room or the other end is too old to be told.
PauseAgreement ==
    \A e \in Ends : table[e] /\ table[Peer(e)] /\ ~untold[e] =>
        /\ Words(e) = {} => remote_under[Peer(e)] = in_under[e]
        /\ \A i \in Words(e) : (\A j \in Words(e) : j <= i)
               => (Way(e)[i].type = "PAUSE") = in_under[e]

\* No source stays stopped by flow control, unless the channel ends, nobody
\* reads it any more at the other end, or that end had no room for a PAUSE or
\* RESUME: the two directions cannot stall each other (channel.py:151-210).
PausedSourceResumes ==
    \A e \in Ends :
        []<>(\/ ~ReaderPaused(e)
             \/ ~table[e]
             \/ link[e] = "down"
             \/ reader[Peer(e)] \in {"closed", "failed", "stopped"}
             \/ untold[Peer(e)])

\* When one end has given the channel up, in the end neither multiplexer has it
\* in its table or in its outgoing queue (core.py:456-480).
ChannelIsCleanedUp ==
    <>[]((\E e \in Ends : qstate[e] # "none" /\ ~table[e])
            => \A e \in Ends : /\ ~table[e]
                               /\ qstate[e] \in {"none", "gone"} \/ link[e] = "down")

\* No task goes on reading a channel that is closed, also when the incoming
\* queue had no room for the None of close() (channel.py:232-237, 282-283).
ReaderEnds == <>[](\A e \in Ends : closing[e] => reader[e] \notin Alive)

\* The task that reads a channel ends with MultiplexerTransportClose and no
\* other exception.
ReaderEndsWithClose == \A e \in Ends : reader[e] # "failed"
=============================================================================
