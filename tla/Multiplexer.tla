---------------------------- MODULE Multiplexer ----------------------------
(***************************************************************************)
(* The life of the class Multiplexer (snitun/multiplexer/core.py): its     *)
(* read task and its write task, shutdown() and ping(), and the idle timer *)
(* RangedTimeout (snitun/utils/asyncio.py).  What the messages do to a     *)
(* channel is in ChannelFlow; here a channel is only in _channels or not.  *)
(*                                                                         *)
(* A step is what runs between two awaits.  cancel() of a task that is     *)
(* suspended raises CancelledError at its await when the task runs next, a *)
(* second cancel() before that changes nothing, and a task that is         *)
(* cancelled before its first step never enters its body, nor its finally. *)
(*                                                                         *)
(* The peer may close the connection, or fall silent: it neither sends nor *)
(* reads any more and no error tells so.  Time is left out: a timer that   *)
(* runs may fire at any moment (RangedTimeout says when it really does).   *)
(***************************************************************************)
EXTENDS Integers

CONSTANTS
    MaxConns,  \* bound: multiplexers that are ever created
    Ids        \* bound: ids of channels

ASSUME ConnsAssumption == MaxConns \in Nat \ {0}

VARIABLES
    rtask,    \* _read_task: none, new (no step yet), reading, cancelled, done
    wtask,    \* _write_task: none, new, loop, eof (in the drain() after
              \* write_eof()), done, or dropped (cancelled before it ran)
    wcancel,  \* it has been cancelled since its last step
    eof,      \* write_eof() of the transport has been called
    closing,  \* transport.is_closing()
    channels, \* _channels
    healthy,  \* the event _healthy
    timer,    \* the timer of _ranged_timeout runs
    peer      \* the other side: alive, silent, closed

muxVars == <<rtask, wtask, wcancel, eof, closing, channels, healthy, timer,
             peer>>

Conns == 1..MaxConns
Done == {"done", "dropped"}

MuxTypeOK ==
    /\ rtask \in [Conns -> {"none", "new", "reading", "cancelled", "done"}]
    /\ wtask \in [Conns -> {"none", "new", "loop", "eof", "done", "dropped"}]
    /\ {wcancel, eof, closing, healthy, timer} \subseteq [Conns -> BOOLEAN]
    /\ channels \in [Conns -> SUBSET Ids]
    /\ peer \in [Conns -> {"alive", "silent", "closed"}]

MuxInit ==
    /\ rtask = [m \in Conns |-> "none"]
    /\ wtask = [m \in Conns |-> "none"]
    /\ wcancel = [m \in Conns |-> FALSE]
    /\ eof = [m \in Conns |-> FALSE]
    /\ closing = [m \in Conns |-> FALSE]
    /\ channels = [m \in Conns |-> {}]
    /\ healthy = [m \in Conns |-> TRUE]
    /\ timer = [m \in Conns |-> FALSE]
    /\ peer = [m \in Conns |-> "alive"]

-----------------------------------------------------------------------------
(***************************************************************************)
(* Operations                                                              *)
(***************************************************************************)

Connected(m) == wtask[m] \notin Done \cup {"none"}  \* is_connected

\* __init__: the timer runs and both tasks are scheduled, not started.
MuxCreate(m) ==
    /\ rtask' = [rtask EXCEPT ![m] = "new"]
    /\ wtask' = [wtask EXCEPT ![m] = "new"]
    /\ timer' = [timer EXCEPT ![m] = TRUE]
    /\ UNCHANGED <<wcancel, eof, closing, channels, healthy, peer>>

\* shutdown of each of ms
Shutdown(ms) ==
    /\ wcancel' = [m \in Conns |-> wcancel[m] \/ (m \in ms /\ Connected(m))]
    /\ channels' = [m \in Conns |-> IF m \in ms /\ Connected(m) THEN {} ELSE channels[m]]

\* reschedule of the timer: one that has fired runs again.
Reschedule(m) == timer' = [timer EXCEPT ![m] = TRUE]

\* Mutant: a write task that is already closing is left alone.
OnTimeoutInLoop(m) ==
    /\ timer[m]
    /\ timer' = [timer EXCEPT ![m] = FALSE]
    /\ wcancel' = [wcancel EXCEPT ![m] = @ \/ wtask[m] \in {"new", "loop"}]
    /\ UNCHANGED <<rtask, wtask, eof, closing, channels, healthy, peer>>

\* _on_timeout
OnTimeout(m) ==
    /\ timer[m]
    /\ timer' = [timer EXCEPT ![m] = FALSE]
    /\ wcancel' = [wcancel EXCEPT ![m] = @ \/ Connected(m)]
    /\ UNCHANGED <<rtask, wtask, eof, closing, channels, healthy, peer>>

\* The first steps of both tasks, which follow each other: a read task that
\* finds the transport closing cancels the write task before it runs.
TasksStart(m) ==
    /\ wtask[m] = "new"
    /\ rtask' = [rtask EXCEPT ![m] = IF closing[m] THEN "done" ELSE "reading"]
    /\ wtask' = [wtask EXCEPT ![m] = IF closing[m] \/ wcancel[m] THEN "dropped" ELSE "loop"]
    /\ wcancel' = [wcancel EXCEPT ![m] = FALSE]
    /\ UNCHANGED <<eof, closing, channels, healthy, timer, peer>>

-----------------------------------------------------------------------------
(***************************************************************************)
(* _read_from_peer_loop                                                    *)
(***************************************************************************)

\* The loop ends, other than by cancel(): finally cancels the write task.
ReadLoopEnds(m) ==
    /\ rtask' = [rtask EXCEPT ![m] = "done"]
    /\ wcancel' = [wcancel EXCEPT ![m] = @ \/ Connected(m)]
    /\ UNCHANGED <<wtask, eof, closing, channels, healthy, timer, peer>>

\* The peer has sent something and the task has not been cancelled.
Receives(m) ==
    /\ rtask[m] = "reading"
    /\ peer[m] = "alive"

\* _read_message and reschedule: NEW opens a channel, whether or not the
\* multiplexer is being shut down; CLOSE ends one.
ReadMessage(m) ==
    /\ Receives(m)
    /\ \E id \in Ids : channels' = [channels EXCEPT ![m] = @ \cup {id}]
                       \/ channels' = [channels EXCEPT ![m] = @ \ {id}]
    /\ Reschedule(m)
    /\ UNCHANGED <<rtask, wtask, wcancel, eof, closing, healthy, peer>>

\* PING with pong
ReadPong(m) ==
    /\ Receives(m)
    /\ ~healthy[m]
    /\ healthy' = [healthy EXCEPT ![m] = TRUE]
    /\ Reschedule(m)
    /\ UNCHANGED <<rtask, wtask, wcancel, eof, closing, channels, peer>>

\* PING, DATA and the others only put the timer off, but the answer to PING
\* raises MultiplexerTransportClose after write_eof().
ReadPing(m) ==
    /\ Receives(m)
    /\ \/ eof[m] /\ ReadLoopEnds(m)
       \/ /\ ~eof[m]
          /\ Reschedule(m)
          /\ UNCHANGED <<rtask, wtask, wcancel, eof, closing, channels, healthy,
                         peer>>

\* End of file or an error.
ReadEnds(m) ==
    /\ rtask[m] = "reading"
    /\ peer[m] = "closed" \/ closing[m]
    /\ ReadLoopEnds(m)

ReadCancelled(m) ==
    /\ rtask[m] = "cancelled"
    /\ ReadLoopEnds(m)

-----------------------------------------------------------------------------
(***************************************************************************)
(* _write_to_peer_loop                                                     *)
(***************************************************************************)

\* Mutant: finally does not close the channels once more.
WriteFinallyKeepsChannels(m) ==
    /\ wtask' = [wtask EXCEPT ![m] = "done"]
    /\ wcancel' = [wcancel EXCEPT ![m] = FALSE]
    /\ rtask' = [rtask EXCEPT ![m] = IF @ = "done" THEN @ ELSE "cancelled"]
    /\ timer' = [timer EXCEPT ![m] = FALSE]
    /\ closing' = [closing EXCEPT ![m] = TRUE]
    /\ UNCHANGED <<eof, channels, healthy, peer>>

\* The finally: of the task, which then is done.
WriteFinally(m) ==
    /\ wtask' = [wtask EXCEPT ![m] = "done"]
    /\ wcancel' = [wcancel EXCEPT ![m] = FALSE]
    /\ rtask' = [rtask EXCEPT ![m] = IF @ = "done" THEN @ ELSE "cancelled"]
    /\ timer' = [timer EXCEPT ![m] = FALSE]
    /\ closing' = [closing EXCEPT ![m] = TRUE]
    /\ channels' = [channels EXCEPT ![m] = {}]
    /\ UNCHANGED <<eof, healthy, peer>>

\* A turn of the loop: a message is written and drain() returns.  A peer that
\* is silent takes messages until the buffers are full.
WriteTurn(m) ==
    /\ wtask[m] = "loop"
    /\ ~wcancel[m] /\ ~closing[m]
    /\ Reschedule(m)
    /\ UNCHANGED <<rtask, wtask, wcancel, eof, closing, channels, healthy, peer>>

\* drain() raises, or the head of the loop finds the transport closing.
WriteFails(m) ==
    /\ wtask[m] = "loop"
    /\ ~wcancel[m] /\ closing[m]
    /\ WriteFinally(m)

\* CancelledError: write_eof(), then drain()
WriteCancelled(m) ==
    /\ wtask[m] = "loop"
    /\ wcancel[m]
    /\ wtask' = [wtask EXCEPT ![m] = "eof"]
    /\ wcancel' = [wcancel EXCEPT ![m] = FALSE]
    /\ eof' = [eof EXCEPT ![m] = @ \/ ~closing[m]]
    /\ UNCHANGED <<rtask, closing, channels, healthy, timer, peer>>

\* That drain() returns, raises, or is cancelled in its turn.
WriteEnds(m) ==
    /\ wtask[m] = "eof"
    /\ WriteFinally(m)

\* Only a silent peer whose buffers are full can keep drain() waiting.
WriteMustEnd(m) ==
    /\ peer[m] # "silent" \/ wcancel[m]
    /\ WriteEnds(m)

-----------------------------------------------------------------------------
(***************************************************************************)
(* The other side                                                          *)
(***************************************************************************)

\* The peer ends the connection: the loop sees the end of the input, or the
\* connection is lost as a whole.
PeerCloses(m) ==
    /\ rtask[m] \in {"new", "reading"}
    /\ peer[m] = "alive"
    /\ peer' = [peer EXCEPT ![m] = "closed"]
    /\ \E lost \in BOOLEAN : closing' = [closing EXCEPT ![m] = @ \/ lost]
    /\ UNCHANGED <<rtask, wtask, wcancel, eof, channels, healthy, timer>>

\* The peer is gone and nothing tells so.
Vanish(m) ==
    /\ rtask[m] = "reading"
    /\ peer[m] = "alive"
    /\ peer' = [peer EXCEPT ![m] = "silent"]
    /\ UNCHANGED <<rtask, wtask, wcancel, eof, closing, channels, healthy, timer>>

-----------------------------------------------------------------------------
(***************************************************************************)
(* A task of m has a step to take that nothing holds up.                   *)
(***************************************************************************)
Ready(m) ==
    \/ rtask[m] \in {"new", "cancelled"}
    \/ wcancel[m]
    \/ rtask[m] = "reading" /\ (closing[m] \/ peer[m] = "closed")

\* The steps that the loop runs by itself.
TaskSteps(m) ==
    \/ TasksStart(m) \/ ReadEnds(m) \/ ReadCancelled(m)
    \/ WriteCancelled(m) \/ WriteMustEnd(m)

MuxNext(m) ==
    \/ TasksStart(m)
    \/ ReadMessage(m) \/ ReadPong(m) \/ ReadPing(m) \/ ReadEnds(m) \/ ReadCancelled(m)
    \/ WriteTurn(m) \/ WriteFails(m) \/ WriteCancelled(m) \/ WriteEnds(m)
    \/ PeerCloses(m) \/ Vanish(m)
=============================================================================
