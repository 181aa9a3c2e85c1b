----------------------------- MODULE ClientPeer -----------------------------
(***************************************************************************)
(* The class ClientPeer (snitun/client/client_peer.py): the application    *)
(* calls start() and stop(), and a handler task pings the connection and   *)
(* gives it up when it is dead.  A handler task is named by the            *)
(* multiplexer whose start() created it.  Calls of start() may overlap,    *)
(* one call of stop() runs at a time.                                      *)
(*                                                                         *)
(* Timers fall due one at a time: before one fires, the tasks that are     *)
(* ready have run.                                                         *)
(***************************************************************************)
EXTENDS Multiplexer, FiniteSets

VARIABLES
    current,      \* _multiplexer
    handler_task, \* _handler_task: the start() that created the task
    starting,     \* number of calls of start() that wait for the network
    hstate,       \* handler tasks: none, new, waiting, pinging, done
    hcancel,      \* the task has been cancelled since its last step
    hmux,         \* the multiplexer that the task waits for or pings
    stopping      \* stop(): idle, waiting (for a multiplexer), handler (for a
                  \* handler task), and what it waits for

peerVars == <<current, handler_task, starting, hstate, hcancel, hmux, stopping>>
vars == <<muxVars, peerVars>>

None == 0
Idle == [at |-> "idle", on |-> None]

TypeOK ==
    /\ MuxTypeOK
    /\ {current, handler_task} \subseteq Conns \cup {None}
    /\ starting \in 0..MaxConns
    /\ hstate \in [Conns -> {"none", "new", "waiting", "pinging", "done"}]
    /\ hcancel \in [Conns -> BOOLEAN]
    /\ hmux \in [Conns -> Conns \cup {None}]
    /\ stopping \in {Idle} \cup [at : {"waiting", "handler"}, on : Conns]

Init ==
    /\ MuxInit
    /\ current = None
    /\ handler_task = None
    /\ starting = 0
    /\ hstate = [m \in Conns |-> "none"]
    /\ hcancel = [m \in Conns |-> FALSE]
    /\ hmux = [m \in Conns |-> None]
    /\ stopping = Idle

-----------------------------------------------------------------------------
(***************************************************************************)
(* start                                                                   *)
(***************************************************************************)

Unused == {m \in Conns : wtask[m] = "none"}

\* start() up to its first await
Start ==
    /\ current = None
    /\ starting < Cardinality(Unused)
    /\ starting' = starting + 1
    /\ UNCHANGED <<muxVars, current, handler_task, hstate, hcancel, hmux, stopping>>

\* Connecting, sending the token or the challenge fails or times out.
StartFails ==
    /\ starting > 0
    /\ starting' = starting - 1
    /\ UNCHANGED <<muxVars, current, handler_task, hstate, hcancel, hmux, stopping>>

HandlerDone == handler_task \notin {h \in Conns : hstate[h] # "done"}

\* The wakeups of stop() and of the handler follow each other when the write
\* task is done: no other task runs between them.
StopIsNext == stopping.at = "waiting" /\ wtask[stopping.on] \in Done

\* The rest of start(): _multiplexer is assigned before the assertion.
StartConnected(m) ==
    /\ starting > 0
    /\ m \in Unused /\ \A k \in Unused : m <= k
    /\ ~StopIsNext
    /\ starting' = starting - 1
    /\ MuxCreate(m)
    /\ current' = m
    /\ \/ /\ HandlerDone
          /\ handler_task' = m
          /\ hstate' = [hstate EXCEPT ![m] = "new"]
       \/ ~HandlerDone /\ UNCHANGED <<handler_task, hstate>>  \* AssertionError
    /\ UNCHANGED <<hcancel, hmux, stopping>>

-----------------------------------------------------------------------------
(***************************************************************************)
(* _handler                                                                *)
(***************************************************************************)

\* Mutant: the task lets go of the multiplexer it waited for only.
HandlerEndsOwn(h, ms) ==
    /\ Shutdown(ms \cup {hmux[h]})
    /\ current' = IF current = hmux[h] THEN None ELSE current
    /\ hstate' = [hstate EXCEPT ![h] = "done"]
    /\ hmux' = [hmux EXCEPT ![h] = None]
    /\ UNCHANGED <<rtask, wtask, eof, closing, healthy, timer, peer>>

\* Mutant: it lets go of the multiplexer without a shutdown().
HandlerEndsNoShutdown(h, ms) ==
    /\ Shutdown(ms)
    /\ current' = None
    /\ hstate' = [hstate EXCEPT ![h] = "done"]
    /\ hmux' = [hmux EXCEPT ![h] = None]
    /\ UNCHANGED <<rtask, wtask, eof, closing, healthy, timer, peer>>

\* The finally: of the task; ms are shut down as well.
HandlerEnds(h, ms) ==
    /\ Shutdown((ms \cup {current}) \ {None})
    /\ current' = None
    /\ hstate' = [hstate EXCEPT ![h] = "done"]
    /\ hmux' = [hmux EXCEPT ![h] = None]
    /\ UNCHANGED <<rtask, wtask, eof, closing, healthy, timer, peer>>

\* The head of the loop: the multiplexer is looked up again.
HandlerLoop(h) ==
    \/ /\ current \in {m \in Conns : Connected(m)}
       /\ hstate' = [hstate EXCEPT ![h] = "waiting"]
       /\ hmux' = [hmux EXCEPT ![h] = current]
       /\ UNCHANGED <<muxVars, current>>
    \/ /\ current \notin {m \in Conns : Connected(m)}
       /\ HandlerEnds(h, {})

\* The tasks of the multiplexer were created first and run first.
HandlerStart(h) ==
    /\ hstate[h] = "new"
    /\ wtask[h] # "new"
    /\ HandlerLoop(h)
    /\ UNCHANGED <<handler_task, starting, hcancel, stopping>>

\* wait() returns.
HandlerWakes(h) ==
    /\ hstate[h] = "waiting"
    /\ ~hcancel[h]
    /\ wtask[hmux[h]] \in Done
    /\ HandlerLoop(h)
    /\ UNCHANGED <<handler_task, starting, hcancel, stopping>>

\* ping up to its await
PingSent(h) ==
    /\ ~eof[hmux[h]]
    /\ healthy' = [healthy EXCEPT ![hmux[h]] = FALSE]
    /\ hstate' = [hstate EXCEPT ![h] = "pinging"]
    /\ UNCHANGED <<rtask, wtask, wcancel, eof, closing, channels, timer, peer,
                   current, hmux>>

\* 50 seconds are over: ping().  After write_eof() the write raises
\* MultiplexerTransportClose, which the task does not catch.
HandlerPings(h) ==
    /\ hstate[h] = "waiting"
    /\ ~hcancel[h]
    /\ PingSent(h) \/ (eof[hmux[h]] /\ HandlerEnds(h, {}))
    /\ UNCHANGED <<handler_task, starting, hcancel, stopping>>

\* _healthy is set.
HandlerPonged(h) ==
    /\ hstate[h] = "pinging"
    /\ ~hcancel[h]
    /\ healthy[hmux[h]]
    /\ HandlerLoop(h)
    /\ UNCHANGED <<handler_task, starting, hcancel, stopping>>

\* Mutant: the loop goes on after a ping that was not answered.
HandlerPingIgnored(h) ==
    /\ hstate[h] = "pinging"
    /\ ~hcancel[h]
    /\ HandlerLoop(h)
    /\ UNCHANGED <<handler_task, starting, hcancel, stopping>>

\* The ping times out, even when a pong comes in the same turn of the loop:
\* the multiplexer is shut down by call_soon and the task ends.
HandlerPingTimeout(h) ==
    /\ hstate[h] = "pinging"
    /\ ~hcancel[h]
    /\ HandlerEnds(h, {hmux[h]})
    /\ UNCHANGED <<handler_task, starting, hcancel, stopping>>

HandlerCancelled(h) ==
    /\ hstate[h] \in {"waiting", "pinging"}
    /\ hcancel[h]
    /\ HandlerEnds(h, {})
    /\ hcancel' = [hcancel EXCEPT ![h] = FALSE]
    /\ UNCHANGED <<handler_task, starting, stopping>>

-----------------------------------------------------------------------------
(***************************************************************************)
(* stop                                                                    *)
(***************************************************************************)

\* Mutant: it does not look whether there is a connection.
StopUnchecked ==
    /\ stopping = Idle
    /\ Shutdown({current})
    /\ stopping' = [at |-> "waiting", on |-> current]
    /\ UNCHANGED <<rtask, wtask, eof, closing, healthy, timer, peer, current, handler_task,
                   starting, hstate, hcancel, hmux>>

\* stop() up to its first await; it may follow start() at once.
Stop ==
    /\ stopping = Idle
    /\ current # None
    /\ Shutdown({current})
    /\ stopping' = [at |-> "waiting", on |-> current]
    /\ UNCHANGED <<rtask, wtask, eof, closing, healthy, timer, peer, current,
                   handler_task, starting, hstate, hcancel, hmux>>

\* The connection is closed: _stop_handler cancels the task and waits for it.
StopHandler ==
    /\ StopIsNext
    /\ \/ /\ handler_task # None
          /\ hstate[handler_task] # "new"
          /\ hcancel' = [hcancel EXCEPT ![handler_task] = hstate[handler_task] # "done"]
          /\ stopping' = [at |-> "handler", on |-> handler_task]
       \/ /\ handler_task = None         \* AssertionError
          /\ stopping' = Idle
          /\ UNCHANGED hcancel
    /\ UNCHANGED <<muxVars, current, handler_task, starting, hstate, hmux>>

\* The task has ended, with or without an exception.
StopEnds ==
    /\ stopping.at = "handler"
    /\ hstate[stopping.on] = "done"
    /\ handler_task' = None
    /\ stopping' = Idle
    /\ UNCHANGED <<muxVars, current, starting, hstate, hcancel, hmux>>

-----------------------------------------------------------------------------
(***************************************************************************)
(* Timers                                                                  *)
(***************************************************************************)

\* Every task that has something to do has done it.
Quiet ==
    /\ ~\E m \in Conns : Ready(m)
    /\ ~\E h \in Conns :
          \/ hstate[h] = "new"
          \/ hcancel[h] /\ hstate[h] # "done"
          \/ hstate[h] = "waiting" /\ wtask[hmux[h]] \in Done

Timeout(m) == Quiet /\ OnTimeout(m) /\ UNCHANGED peerVars
\* Neither loop puts the timer off any more.
IdleTimeout(m) == peer[m] # "alive" /\ wtask[m] # "loop" /\ Timeout(m)
PingTimer(h) == Quiet /\ (HandlerPings(h) \/ HandlerPingTimeout(h))

HandlerSteps(h) ==
    HandlerStart(h) \/ HandlerWakes(h) \/ HandlerPonged(h) \/ HandlerCancelled(h)

Next ==
    \/ \E m \in Conns :
          \/ MuxNext(m) /\ UNCHANGED peerVars
          \/ StartConnected(m)
          \/ HandlerStart(m) \/ HandlerWakes(m) \/ HandlerPonged(m) \/ HandlerCancelled(m)
          \/ PingTimer(m) \/ Timeout(m)
    \/ Start \/ StartFails
    \/ Stop \/ StopHandler \/ StopEnds

Spec == Init /\ [][Next]_vars

\* Tasks that are ready run, and the 50 seconds of wait() and the 90 of ping()
\* pass, which nothing puts off.  The idle timer fires when there is nothing
\* left that puts it off.  The network and the application need do nothing.
FairSpec ==
    /\ Spec
    /\ \A m \in Conns :
          /\ WF_vars(TaskSteps(m) /\ UNCHANGED peerVars)
          /\ WF_vars(HandlerSteps(m))
          /\ WF_vars(PingTimer(m))
          /\ WF_vars(IdleTimeout(m))
    /\ WF_vars(StopHandler \/ StopEnds)

-----------------------------------------------------------------------------
(***************************************************************************)
(* Properties                                                              *)
(***************************************************************************)

\* While the application sees a connection (is_connected), a handler task is
\* there that will ping it and let go of it in the end, even when two calls of
\* start() overlapped (client_peer.py:59) or stop() came in between.
Supervised ==
    current # None => \E h \in Conns : hstate[h] \in {"new", "waiting", "pinging"}

\* When a write task that has run ends, by cancellation, an error or a closing
\* transport, nothing of the connection is left: no channel, although NEW is
\* accepted until the end (core.py:149), no timer, no open transport, no read
\* task that goes on.  A task that was cancelled before its first step, which
\* is "dropped", never comes to its finally and leaves all of these.
DoneMeansClosed ==
    \A m \in Conns : wtask[m] = "done" =>
        /\ channels[m] = {}
        /\ ~timer[m]
        /\ closing[m]
        /\ rtask[m] \in {"cancelled", "done"}

\* A peer that is gone without a word is noticed: is_connected becomes false,
\* even if the application goes on writing and the last drain() hangs.
DeadPeerIsNoticed ==
    []<>(current \notin {m \in Conns : peer[m] = "silent"})

\* A drain() after write_eof() that hangs on a peer which does not read any more
\* is ended by the idle timer if that is still to come, without a handler that
\* pings: on a server, whose sessions have none, this is what ends one that
\* add_peer has shut down (peer_manager.py:93, core.py:229).
HangingDrainEnds ==
    \A m \in Conns : wtask[m] = "eof" /\ timer[m] ~> wtask[m] \in Done

\* A start() that failed its assertion left a multiplexer without a handler.
Unattended(m) == wtask[m] # "none" /\ hstate[m] = "none"

\* stop() returns, also when the peer does not read any more and drain() after
\* write_eof() waits for it: the handler pings, fails and cancels once more.
\* Overlapping calls of start() are excused: the handler may then attend to
\* the other multiplexer.
StopReturns == []<>(stopping = Idle \/ \E m \in Conns : Unattended(m))
=============================================================================
