-------------------------- MODULE ChannelTransport --------------------------
(***************************************************************************)
(* The class ChannelTransport (snitun/multiplexer/transport.py) and the    *)
(* ConnectorHandler (snitun/client/connector.py) that runs it: a channel   *)
(* at the client end, as an asyncio transport under TLS.  SSLProtocol and  *)
(* the application above it ("the protocol") are external: they pause,     *)
(* resume, write and close as they like.                                   *)
(*                                                                         *)
(* While the reader task runs nothing else does but what the protocol does *)
(* when it is fed; the task stops at an await that has to wait.  A message *)
(* is the number of chunks it is fed in.                                   *)
(***************************************************************************)
EXTENDS Integers, Sequences

CONSTANTS
    MaxInput,  \* messages at which the incoming queue of the channel is full
    MaxChunks  \* bound: chunks of a message

ASSUME TransportAssumption == {MaxInput, MaxChunks} \subseteq Nat \ {0}

VARIABLES
    table,    \* the channel is in Multiplexer._channels
    closing,  \* its _closing
    input,    \* its _input: messages, Nil for None
    under,    \* its _reader_paused: the output is under water, here or there
    writing,  \* the protocol has not been told to pause writing
    pause,    \* _pause_future is set
    reader,   \* _reader_task: none; top and feed (running); held and halfway
              \* (awaiting the pause future), freed and onward (it has its
              \* result); reading; closed, failed, cancelled
    rest,     \* chunks of its message that have not been fed
    passed,   \* history: chunks fed since pause_reading()
    lost,     \* connection_lost of SSLProtocol: no, scheduled, called
    handler,  \* ConnectorHandler.start: none, tls, serving, failing (in
              \* stop_reader), done, or refused by the access list
    reply     \* a CLOSE for the server is under way

transportVars == <<table, closing, input, under, writing, pause, reader, rest,
                   passed, lost, handler, reply>>

Nil == 0
Running == {"top", "feed"}
Suspended == {"held", "freed", "reading", "halfway", "onward"}
Ended == {"closed", "failed", "cancelled"}

TransportInit ==
    /\ table = FALSE /\ closing = FALSE /\ input = <<>>
    /\ under = FALSE /\ writing = TRUE
    /\ pause = FALSE /\ reader = "none" /\ rest = 0 /\ passed = 0
    /\ lost = "no" /\ handler = "none" /\ reply = FALSE

-----------------------------------------------------------------------------
(***************************************************************************)
(* Parts of operations.  r is the state of the reader task without what    *)
(* the part does to it.                                                    *)
(***************************************************************************)

\* close of the channel; None is dropped when the queue is full.
ChannelClose ==
    /\ closing' = TRUE
    /\ input' = IF Len(input) < MaxInput THEN Append(input, Nil) ELSE input

\* _release_pause_future: a reader that awaits the future can go on.
ReleasePause(r) ==
    /\ pause' = FALSE
    /\ reader' = CASE r = "held" -> "freed" [] r = "halfway" -> "onward" [] OTHER -> r

\* close of the transport
Close(r) == ChannelClose /\ ReleasePause(r)

\* Mutant: connection_lost is not called.
ForceCloseSilently(r) == Close(r) /\ UNCHANGED lost

\* _force_close
ForceClose(r) ==
    /\ Close(r)
    /\ lost' = IF lost = "no" THEN "scheduled" ELSE lost

\* delete_channel of the multiplexer, with CLOSE for the other side
DeleteChannel ==
    /\ table' = FALSE
    /\ reply' = (reply \/ table)

\* pause_reading, or not
MayPause ==
    \/ UNCHANGED <<pause, passed>>
    \/ ~pause /\ pause' = TRUE /\ passed' = 0

-----------------------------------------------------------------------------
(***************************************************************************)
(* _reader                                                                 *)
(***************************************************************************)

\* channel.read() on what is in the queue
TakeMessage ==
    \/ /\ (input = <<>> /\ closing) \/ (input # <<>> /\ Head(input) = Nil)
       /\ ForceClose("closed")
       /\ UNCHANGED rest
    \/ /\ input # <<>> /\ Head(input) # Nil
       /\ reader' = "feed"
       /\ rest' = Head(input)
       /\ input' = Tail(input)
       /\ UNCHANGED <<closing, pause, lost>>
    \/ /\ input = <<>> /\ ~closing
       /\ reader' = "reading"
       /\ UNCHANGED <<closing, input, pause, lost, rest>>

\* The head of the loop; a reader whose pause is over does not look again.
ReaderTop ==
    /\ \/ /\ reader = "top" /\ pause
          /\ reader' = "held"
          /\ UNCHANGED <<closing, input, pause, lost, rest>>
       \/ /\ \/ reader = "top" /\ ~pause
             \/ reader = "freed"
             \/ reader = "reading" /\ input # <<>>
          /\ TakeMessage
    /\ UNCHANGED <<table, under, writing, passed, handler, reply>>

\* Mutant: no look at the pause between two chunks.
NextChunkAtOnce(paused) == IF rest > 1 THEN "feed" ELSE "top"

\* After a chunk: the next one, unless the protocol has paused the transport.
NextChunk(paused) ==
    IF rest = 1 THEN "top" ELSE IF paused THEN "halfway" ELSE "feed"

\* A chunk is fed; the protocol may pause the transport from within.
Feed ==
    /\ reader \in {"feed", "onward"}
    /\ \/ /\ pause
          /\ passed' = passed + 1
          /\ UNCHANGED pause
       \/ ~pause /\ MayPause
    /\ rest' = rest - 1
    /\ reader' = NextChunk(pause')
    /\ UNCHANGED <<table, closing, input, under, writing, lost, handler, reply>>

\* The protocol, or read() (see ReaderEndsWithClose in ChannelFlow), raises:
\* _fatal_error
ReaderFails ==
    /\ reader \in {"feed", "reading"}
    /\ reader = "reading" => input # <<>> /\ closing
    /\ ForceClose("failed")
    /\ rest' = 0
    /\ UNCHANGED <<table, under, writing, passed, handler, reply>>

\* stop_reader has cancelled the task, which is at an await.
ReaderCancelled ==
    /\ handler = "failing"
    /\ reader \in Suspended
    /\ reader' = "cancelled"
    /\ rest' = 0
    /\ UNCHANGED <<table, closing, input, under, writing, pause, passed, lost, handler, reply>>

-----------------------------------------------------------------------------
(***************************************************************************)
(* ConnectorHandler.start                                                  *)
(***************************************************************************)

\* The first step, when NEW is read: the reader task starts and waits for a
\* message, then start_tls() pauses the transport and sets the protocol.
HandlerStart ==
    /\ handler' = "tls"
    /\ table' = TRUE
    /\ reader' = "reading"
    /\ pause' = TRUE
    /\ UNCHANGED <<closing, input, under, writing, rest, passed, lost, reply>>

\* The access list refuses the visitor: the channel is deleted at once.
HandlerRefuses ==
    /\ handler' = "refused"
    /\ reply' = TRUE
    /\ UNCHANGED <<table, closing, input, under, writing, pause, reader, rest, passed, lost>>

TlsDone ==
    /\ handler = "tls"
    /\ lost # "called"
    /\ handler' = "serving"
    /\ UNCHANGED <<table, closing, input, under, writing, pause, reader, rest, passed, lost,
                   reply>>

\* start_tls() closes the transport and raises; _fail_to_start_tls deletes the
\* channel and cancels the reader.
TlsFails ==
    /\ handler = "tls"
    /\ handler' = "failing"
    /\ DeleteChannel
    /\ ForceClose(reader)
    /\ UNCHANGED <<under, writing, rest, passed>>

StopReaderEnds ==
    /\ handler = "failing"
    /\ reader \in Ended
    /\ handler' = "done"
    /\ UNCHANGED <<table, closing, input, under, writing, pause, reader, rest, passed, lost,
                   reply>>

\* wait_for_close() returns or raises; only an error deletes the channel here.
\* Then connection_lost of the application.
HandlerEnds ==
    /\ handler = "serving"
    /\ reader \in {"closed", "failed"}
    /\ handler' = "done"
    /\ \/ reader = "failed" /\ DeleteChannel
       \/ reader = "closed" /\ UNCHANGED <<table, reply>>
    /\ UNCHANGED <<closing, input, under, writing, pause, reader, rest, passed, lost>>

\* The callback that _force_close scheduled.
ConnectionLost ==
    /\ lost = "scheduled"
    /\ lost' = "called"
    /\ UNCHANGED <<table, closing, input, under, writing, pause, reader, rest, passed,
                   handler, reply>>

-----------------------------------------------------------------------------
(***************************************************************************)
(* The protocol                                                            *)
(***************************************************************************)

InUse == handler \in {"tls", "serving"} /\ lost # "called"

ProtocolPauses ==
    /\ InUse
    /\ reader \notin Running
    /\ ~pause /\ MayPause
    /\ UNCHANGED <<table, closing, input, under, writing, reader, rest, lost, handler, reply>>

\* resume_reading
ProtocolResumes ==
    /\ InUse
    /\ reader \notin Running
    /\ pause
    /\ ReleasePause(reader)
    /\ UNCHANGED <<table, closing, input, under, writing, rest, passed, lost, handler, reply>>

\* write() when the outgoing queue is full
ProtocolWriteFails ==
    /\ InUse
    /\ ~closing
    /\ ForceClose(reader)
    /\ UNCHANGED <<table, under, writing, rest, passed, handler, reply>>

\* close() or abort()
ProtocolCloses ==
    /\ InUse
    /\ Close(reader)
    /\ UNCHANGED <<table, under, writing, rest, passed, lost, handler, reply>>

\* _pause_or_resume_reader of the channel and _pause_or_resume_protocol: the
\* protocol is told unless the channel is closing.
Water ==
    /\ handler \in {"tls", "serving"}
    /\ under' = ~under
    /\ under' => table
    /\ writing' = IF closing THEN writing ELSE ~under'
    /\ UNCHANGED <<table, closing, input, pause, reader, rest, passed, lost, handler, reply>>

-----------------------------------------------------------------------------
(***************************************************************************)
(* The read loop of the multiplexer                                        *)
(***************************************************************************)

\* DATA: ignored when the channel is closing or unknown, an abort when its
\* queue is full.
ReceiveData(n) ==
    \/ /\ table /\ ~closing /\ Len(input) < MaxInput
       /\ input' = Append(input, n)
       /\ UNCHANGED <<table, closing, under, writing, pause, reader, rest, passed, lost,
                      handler, reply>>
    \/ /\ table /\ ~closing /\ Len(input) >= MaxInput
       /\ ChannelClose
       /\ DeleteChannel
       /\ UNCHANGED <<under, writing, pause, reader, rest, passed, lost, handler>>
    \/ /\ ~table \/ closing
       /\ UNCHANGED transportVars

\* CLOSE closes the channel and not the transport: a pause stays.
ReceiveClose ==
    \/ /\ table
       /\ table' = FALSE
       /\ ChannelClose
       /\ UNCHANGED <<under, writing, pause, reader, rest, passed, lost, handler, reply>>
    \/ ~table /\ UNCHANGED transportVars

-----------------------------------------------------------------------------

ReaderSteps == ReaderTop \/ Feed \/ ReaderCancelled
HandlerSteps == StopReaderEnds \/ HandlerEnds \/ ConnectionLost
TransportNext ==
    \/ ReaderSteps \/ ReaderFails \/ ProtocolCloses \/ ProtocolWriteFails
    \/ /\ reader \notin Running
       /\ HandlerSteps \/ TlsDone \/ TlsFails \/ ProtocolPauses \/ ProtocolResumes \/ Water

\* How far the code is from "No data will be passed to the protocol's
\* data_received() method until resume_reading() is called"
\* (transport.py:332-336), which PauseStopsData states: the reader looks at
\* the future only before it reads and between chunks, and may be on its way
\* from an earlier pause, but not more than one chunk slips through.
PauseHoldsBack == passed <= 1

\* "No data will be passed to the protocol's data_received() method until
\* resume_reading() is called" (transport.py:332-336).  A reader that is in
\* channel.read() when the transport is paused passes on what it gets
\* (transport.py:212-257).
PauseStopsData == passed = 0

\* However a channel ends, the application gets connection_lost, also in the
\* middle of the handshake, without help of a timer (transport.py:295-314,
\* connector.py:261-267); unless the protocol has paused reading and does not
\* resume: a pause outlives the CLOSE of the other side.
EndReachesApp == closing ~> handler = "done" \/ pause
=============================================================================
