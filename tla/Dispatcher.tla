----------------------------- MODULE Dispatcher -----------------------------
(***************************************************************************)
(* The server with worker processes: the thread that accepts connections   *)
(* and hands them over (SniTunServerWorker, snitun/server/run.py), the     *)
(* workers that own them (server/worker.py) and the clients and visitors   *)
(* that connect.  A client presents a token and is given to the workers in *)
(* turn; a visitor asks for a host name and is given to the first worker   *)
(* that claims it.  Claims are read one worker at a time from dictionaries *)
(* that the worker processes change meanwhile.                             *)
(*                                                                         *)
(* The directory of each worker is the one of PeerManager, with one name   *)
(* per client; WorkersKeepDirectories states that it implements it.        *)
(***************************************************************************)
EXTENDS Integers, Sequences

CONSTANTS
    Clients, Visitors,   \* connections; each is used once
    Names, Host,         \* the host name a connection is about
    N,                   \* number of workers
    StaleMax,            \* WORKER_STALE_MAX
    BufferMax,           \* MAX_BUFFER_SIZE, in reads of a connection
    None

Conns == Clients \cup Visitors
Workers == 1 .. N

ASSUME DispatchAssumption ==
    /\ N \in Nat \ {0} /\ StaleMax \in Nat /\ BufferMax \in Nat \ {0}
    /\ Clients \cap Visitors = {}
    /\ None \notin Conns /\ 0 \notin Conns
    /\ Host \in [Conns -> Names]

VARIABLES
    \* SniTunServerWorker
    running,     \* _running
    loop,        \* its thread: poll, events, done
    ready,       \* events of the last poll() that are not yet handled
    stale,       \* Connection.stale
    reads,       \* reads that Connection.buffer holds
    scan,        \* the visitor for which workers are asked, and the next one
    lb,          \* worker_lb: the worker that gets the next client
    closing,     \* stop(): the worker to shut down next; N + 1 at its end
    stopping,    \* stop(): no, put (None to be put), join, failed
    \* a connection: where its socket is, and its worker
    at,          \* new, polled, queued, worker, closed
    where,
    via,         \* the client whose session serves a visitor
    \* ServerWorker
    inbox,       \* _new, None of shutdown() is 0
    up,          \* up, stopping, closing (close_connections), exited
    phase, mux,  \* handler and multiplexer of a client, as in PeerManager
    peers, events, sync, peer_count,
    \* history
    latest,      \* per worker, as in PeerManager
    steady       \* workers that claim the name throughout the scan

threadVars == <<running, loop, ready, stale, reads, scan, lb>>
stopVars == <<closing, stopping>>
placeVars == <<at, where, via>>
sessionVars == <<phase, mux, peers, events, latest>>
claimVars == <<sync, peer_count, steady>>
vars == <<threadVars, stopVars, placeVars, inbox, up, sessionVars, claimVars>>

NoScan == [conn |-> None, next |-> 0]

Init ==
    /\ running = TRUE /\ loop = "poll" /\ ready = {}
    /\ stale = [c \in Conns |-> 0] /\ reads = [c \in Conns |-> 0]
    /\ scan = NoScan /\ lb = 1
    /\ closing = 1 /\ stopping = "no"
    /\ at = [c \in Conns |-> "new"] /\ where = [c \in Conns |-> 0]
    /\ via = [c \in Visitors |-> None]
    /\ inbox = [w \in Workers |-> <<>>] /\ up = [w \in Workers |-> "up"]
    /\ phase = [c \in Clients |-> "new"] /\ mux = [c \in Clients |-> "none"]
    /\ peers = [w \in Workers |-> [n \in Names |-> None]]
    /\ events = [w \in Workers |-> <<>>]
    /\ sync = [w \in Workers |-> {}] /\ peer_count = [w \in Workers |-> 0]
    /\ latest = [w \in Workers |-> [n \in Names |-> None]]
    /\ steady = {}

-----------------------------------------------------------------------------
(***************************************************************************)
(* The thread that accepts: run and _process                               *)
(***************************************************************************)
\* is_responsible_peer
Claims(w, n) == n \in sync[w]

\* run() handles the events of a poll() and does not ask workers just now.
AtWork == loop = "events" /\ scan = NoScan

\* poll(1): any connections are ready, or none when it times out.
Poll ==
    /\ loop = "poll" /\ running
    /\ loop' = "events"
    /\ ready' \in SUBSET {c \in Conns : at[c] \in {"new", "polled"}}
    /\ UNCHANGED <<running, stale, reads, scan, lb, stopVars, placeVars, inbox, up,
                   sessionVars, claimVars>>

\* A connection to accept; accept() may fail.
Accept(c) ==
    /\ AtWork /\ c \in ready /\ at[c] = "new"
    /\ ready' = ready \ {c}
    /\ at' \in {at, [at EXCEPT ![c] = "polled"]}
    /\ UNCHANGED <<running, loop, stale, reads, scan, lb, stopVars, where, via, inbox, up,
                   sessionVars, claimVars>>

\* An event of a connection that run() has in its table.
Event(c) ==
    /\ AtWork /\ c \in ready /\ at[c] = "polled"
    /\ ready' = ready \ {c}
    /\ UNCHANGED <<running, loop, stopVars, up, sessionVars>>

\* No EPOLLIN, recv() fails or is empty, a PROXY header or hello is invalid.
Reject(c) ==
    /\ Event(c)
    /\ at' = [at EXCEPT ![c] = "closed"]
    /\ UNCHANGED <<stale, reads, scan, lb, where, via, inbox, claimVars>>

\* The PROXY header or the hello is incomplete; the buffer has a limit.
Partial(c) ==
    /\ Event(c)
    /\ stale' = [stale EXCEPT ![c] = 0]
    /\ reads' = [reads EXCEPT ![c] = @ + 1]
    /\ \/ reads[c] + 1 < BufferMax /\ UNCHANGED at
       \/ reads[c] + 1 >= BufferMax /\ at' = [at EXCEPT ![c] = "closed"]
    /\ UNCHANGED <<scan, lb, where, via, inbox, claimVars>>

HandOver(c, w) ==
    /\ at' = [at EXCEPT ![c] = "queued"]
    /\ where' = [where EXCEPT ![c] = w]
    /\ UNCHANGED via
    /\ inbox' = [inbox EXCEPT ![w] = Append(@, c)]

\* Mutants: the cycle does not start over; the connection stays in the table
\* of run() and in the poller.
TokenUncycled(c) ==
    /\ c \in Clients
    /\ Event(c)
    /\ HandOver(c, lb)
    /\ lb' = lb + 1
    /\ UNCHANGED <<stale, reads, scan, claimVars>>
TokenKeepsConnection(c) ==
    /\ c \in Clients
    /\ Event(c)
    /\ inbox' = [inbox EXCEPT ![lb] = Append(@, c)]
    /\ lb' = IF lb = N THEN 1 ELSE lb + 1
    /\ UNCHANGED <<stale, reads, scan, placeVars, claimVars>>

\* A token: the next worker of the cycle gets the client.
Token(c) ==
    /\ c \in Clients
    /\ Event(c)
    /\ HandOver(c, lb)
    /\ lb' = IF lb = N THEN 1 ELSE lb + 1
    /\ UNCHANGED <<stale, reads, scan, claimVars>>

\* A complete hello: the workers are asked, the first one first.
Hello(c) ==
    /\ c \in Visitors
    /\ Event(c)
    /\ scan' = [conn |-> c, next |-> 1]
    /\ steady' = {w \in Workers : Claims(w, Host[c])}
    /\ UNCHANGED <<stale, reads, lb, placeVars, inbox, sync, peer_count>>

\* Mutant: only the first worker is asked.
AskFirstOnly ==
    /\ scan # NoScan
    /\ LET c == scan.conn
       IN  /\ \/ /\ Claims(1, Host[c])
                 /\ HandOver(c, 1)
              \/ /\ ~Claims(1, Host[c])
                 /\ at' = [at EXCEPT ![c] = "closed"]
                 /\ UNCHANGED <<where, via, inbox>>
           /\ scan' = NoScan
    /\ UNCHANGED <<running, loop, ready, stale, reads, lb, stopVars, up, sessionVars,
                   claimVars>>

\* One worker is asked; the first that claims the host gets the visitor.
Ask ==
    /\ scan # NoScan
    /\ LET c == scan.conn
           w == scan.next
       IN  \/ /\ Claims(w, Host[c])
              /\ HandOver(c, w)
              /\ scan' = NoScan
           \/ /\ ~Claims(w, Host[c]) /\ w < N
              /\ scan' = [scan EXCEPT !.next = w + 1]
              /\ UNCHANGED <<placeVars, inbox>>
           \/ /\ ~Claims(w, Host[c]) /\ w = N
              /\ at' = [at EXCEPT ![c] = "closed"]
              /\ scan' = NoScan
              /\ UNCHANGED <<where, via, inbox>>
    /\ UNCHANGED <<running, loop, ready, stale, reads, lb, stopVars, up, sessionVars,
                   claimVars>>

\* Mutant: a connection is never given up.
CleanupNever ==
    /\ AtWork /\ ready = {}
    /\ loop' = "poll"
    /\ UNCHANGED <<at, stale, running, ready, reads, scan, lb, stopVars, where, via, inbox, up,
                   sessionVars, claimVars>>

\* After the events of a poll(): connections that stayed silent for too many
\* turns are closed.  A Connection that has left the table is forgotten.
Cleanup ==
    /\ AtWork /\ ready = {}
    /\ loop' = "poll"
    /\ at' = [c \in Conns |->
                 IF at[c] = "polled" /\ stale[c] >= StaleMax THEN "closed" ELSE at[c]]
    /\ stale' = [c \in Conns |-> IF at'[c] = "polled" THEN stale[c] + 1 ELSE 0]
    /\ reads' = [c \in Conns |-> IF at'[c] = "polled" THEN reads[c] ELSE 0]
    /\ UNCHANGED <<running, ready, scan, lb, stopVars, where, via, inbox, up, sessionVars,
                   claimVars>>

-----------------------------------------------------------------------------
(***************************************************************************)
(* stop                                                                    *)
(***************************************************************************)
StopServer ==
    /\ stopping = "no"
    /\ running' = FALSE
    /\ stopping' = "put"
    /\ UNCHANGED <<loop, ready, stale, reads, scan, lb, closing, placeVars, inbox, up,
                   sessionVars, claimVars>>

\* run() returns; the connections in its table are dropped, which closes them.
ThreadEnds ==
    /\ loop = "poll" /\ ~running
    /\ loop' = "done"
    /\ at' = [c \in Conns |-> IF at[c] = "polled" THEN "closed" ELSE at[c]]
    /\ UNCHANGED <<running, ready, stale, reads, scan, lb, stopVars, where, via, inbox, up,
                   sessionVars, claimVars>>

\* parse_tls_sni raises IndexError on a record of length 0, which _process does
\* not catch: the thread ends in the middle of its loop, and _running stays.
ThreadDies ==
    /\ AtWork
    /\ \E c \in ready : at[c] = "polled"
    /\ loop' = "done"
    /\ ready' = {}
    /\ at' = [c \in Conns |-> IF at[c] = "polled" THEN "closed" ELSE at[c]]
    /\ UNCHANGED <<running, stale, reads, scan, lb, stopVars, where, via, inbox, up,
                   sessionVars, claimVars>>

\* Mutant: the workers are shut down while the thread is still running.
ShutdownUnjoined ==
    /\ stopping = "put" /\ closing \in Workers
    /\ inbox' = [inbox EXCEPT ![closing] = Append(@, 0)]
    /\ stopping' = "join"
    /\ UNCHANGED <<threadVars, closing, placeVars, up, sessionVars, claimVars>>

\* ServerWorker.shutdown, up to its join(10)
Shutdown ==
    /\ stopping = "put" /\ loop = "done" /\ closing \in Workers
    /\ inbox' = [inbox EXCEPT ![closing] = Append(@, 0)]
    /\ stopping' = "join"
    /\ UNCHANGED <<threadVars, closing, placeVars, up, sessionVars, claimVars>>

\* Mutant: stop() returns after the first worker.
JoinedOnce ==
    /\ stopping = "join" /\ up[closing] = "exited"
    /\ closing' = N + 1
    /\ stopping' = "put"
    /\ UNCHANGED <<threadVars, placeVars, inbox, up, sessionVars, claimVars>>

\* join(10) returns, and close() of the process with it.
Joined ==
    /\ stopping = "join" /\ up[closing] = "exited"
    /\ closing' = closing + 1
    /\ stopping' = "put"
    /\ UNCHANGED <<threadVars, placeVars, inbox, up, sessionVars, claimVars>>

\* join(10) ends first: a session keeps close_connections waiting.  close() of
\* a process that is still running raises ValueError, which ends stop().
JoinTimesOut ==
    /\ stopping = "join" /\ up[closing] = "closing"
    /\ \E n \in Names : /\ peers[closing][n] # None
                        /\ mux[peers[closing][n]] \in {"up", "stopping"}
    /\ stopping' = "failed"
    /\ UNCHANGED <<threadVars, closing, placeVars, inbox, up, sessionVars, claimVars>>

-----------------------------------------------------------------------------
(***************************************************************************)
(* A worker                                                                *)
(***************************************************************************)
Running(w) == up[w] # "exited"
Held(c) == at[c] = "worker" /\ Running(where[c])

\* _async_new_connection: the handler of the connection starts, unless
\* open_connection or the token of a client fails.
NewConnection(c) ==
    \/ /\ at' = [at EXCEPT ![c] = "worker"]
       /\ phase' = IF c \in Clients THEN [phase EXCEPT ![c] = "challenge"] ELSE phase
    \/ /\ at' = [at EXCEPT ![c] = "closed"]
       /\ UNCHANGED phase

\* run: the next connection is given to the event loop, None ends the loop.
Take(w) ==
    /\ up[w] = "up" /\ inbox[w] # <<>>
    /\ inbox' = [inbox EXCEPT ![w] = Tail(@)]
    /\ LET c == Head(inbox[w])
       IN  \/ /\ c = 0
              /\ up' = [up EXCEPT ![w] = "stopping"]
              /\ UNCHANGED <<at, phase>>
           \/ /\ c # 0
              /\ NewConnection(c)
              /\ UNCHANGED up
    /\ UNCHANGED <<threadVars, stopVars, where, via, mux, peers, events, latest, claimVars>>

IsReady(c) == mux[c] \in {"up", "stopping"}
Stopped(c) == IF mux[c] = "up" THEN "stopping" ELSE mux[c]
PeerAvailable(w, n) == peers[w][n] # None /\ IsReady(peers[w][n])

\* SNIProxy.handle_connection: a channel of the session that has the host
\* name serves the visitor, if peer_available still finds one.
Visit(c) ==
    /\ Held(c) /\ via[c] = None
    /\ \/ /\ PeerAvailable(where[c], Host[c])
          /\ via' = [via EXCEPT ![c] = peers[where[c]][Host[c]]]
          /\ UNCHANGED at
       \/ /\ ~PeerAvailable(where[c], Host[c])
          /\ at' = [at EXCEPT ![c] = "closed"]
          /\ UNCHANGED via
    /\ UNCHANGED <<threadVars, stopVars, where, inbox, up, sessionVars, claimVars>>

\* Either side ends the visit (ChannelFlow has its details).
VisitEnds(c) ==
    /\ Held(c) /\ via[c] # None
    /\ at' = [at EXCEPT ![c] = "closed"]
    /\ UNCHANGED <<threadVars, stopVars, where, via, inbox, up, sessionVars, claimVars>>

\* PeerListener.handle_connection and add_peer
ChallengePassed(c) ==
    /\ Held(c) /\ phase[c] = "challenge"
    /\ phase' = [phase EXCEPT ![c] = "serving"]
    /\ LET w == where[c]
           old == peers[w][Host[c]]
       IN  /\ mux' = [r \in Clients |->
                         IF r = c THEN "up" ELSE IF r = old THEN Stopped(r) ELSE mux[r]]
           /\ peers' = [peers EXCEPT ![w][Host[c]] = c]
           /\ events' = [events EXCEPT ![w] = Append(@, <<c, "CONNECTED">>)]
           /\ latest' = [latest EXCEPT ![w][Host[c]] = c]
    /\ UNCHANGED <<threadVars, stopVars, placeVars, inbox, up, claimVars>>

\* Mutants of remove_peer: whoever has the name is unregistered; no event.
RemoveAnyPeer(c) ==
    /\ peers' = [peers EXCEPT ![where[c]][Host[c]] = None]
    /\ events' = [events EXCEPT ![where[c]] = Append(@, <<c, "DISCONNECTED">>)]

RemoveSilently(c) ==
    /\ peers' = [peers EXCEPT ![where[c]][Host[c]] = IF @ = c THEN None ELSE @]
    /\ UNCHANGED events

\* remove_peer
RemovePeer(c) ==
    LET w == where[c]
    IN  \/ /\ peers[w][Host[c]] = c
           /\ peers' = [peers EXCEPT ![w][Host[c]] = None]
           /\ events' = [events EXCEPT ![w] = Append(@, <<c, "DISCONNECTED">>)]
        \/ peers[w][Host[c]] # c /\ UNCHANGED <<peers, events>>

ChallengeFailed(c) ==
    /\ Held(c) /\ phase[c] = "challenge"
    /\ phase' = [phase EXCEPT ![c] = "done"]
    /\ at' = [at EXCEPT ![c] = "closed"]
    /\ RemovePeer(c)
    /\ UNCHANGED <<threadVars, stopVars, where, via, inbox, up, mux, latest, claimVars>>

MuxEnds(c) ==
    /\ Held(c) /\ IsReady(c)
    /\ mux' = [mux EXCEPT ![c] = "down"]
    /\ UNCHANGED <<threadVars, stopVars, placeVars, inbox, up, phase, peers, events, latest,
                   claimVars>>

HandlerEnds(c) ==
    /\ Held(c) /\ phase[c] = "serving" /\ ~IsReady(c)
    /\ phase' = [phase EXCEPT ![c] = "done"]
    /\ at' = [at EXCEPT ![c] = "closed"]
    /\ RemovePeer(c)
    /\ UNCHANGED <<threadVars, stopVars, where, via, inbox, up, mux, latest, claimVars>>

\* _event_stream: the claim of a worker follows its directory later.
EventStream(w) ==
    /\ Running(w) /\ events[w] # <<>>
    /\ LET c == Head(events[w])[1]
           h == Host[c]
       IN  \/ /\ Head(events[w])[2] = "CONNECTED"
              /\ peer_count' = [peer_count EXCEPT ![w] = IF h \in sync[w] THEN @ ELSE @ + 1]
              /\ sync' = [sync EXCEPT ![w] = @ \cup {h}]
              /\ UNCHANGED steady
           \/ /\ Head(events[w])[2] = "DISCONNECTED"
              /\ peer_count' = [peer_count EXCEPT ![w] = IF h \in sync[w] THEN @ - 1 ELSE @]
              /\ sync' = [sync EXCEPT ![w] = @ \ {h}]
              /\ steady' = IF scan # NoScan /\ Host[scan.conn] = h THEN steady \ {w} ELSE steady
    /\ events' = [events EXCEPT ![w] = Tail(@)]
    /\ UNCHANGED <<threadVars, stopVars, placeVars, inbox, up, phase, mux, peers, latest>>

\* close_connections, at the end of run
CloseConnections(w) ==
    /\ up[w] = "stopping"
    /\ up' = [up EXCEPT ![w] = "closing"]
    /\ mux' = [c \in Clients |->
                  IF \E n \in Names : peers[w][n] = c THEN Stopped(c) ELSE mux[c]]
    /\ UNCHANGED <<threadVars, stopVars, placeVars, inbox, phase, peers, events, latest,
                   claimVars>>

\* The sessions have ended or close_connections gave up: the process exits.
Exit(w) ==
    /\ up[w] = "closing"
    /\ up' = [up EXCEPT ![w] = "exited"]
    /\ at' = [c \in Conns |->
                 IF at[c] = "worker" /\ where[c] = w THEN "closed" ELSE at[c]]
    /\ UNCHANGED <<threadVars, stopVars, where, via, inbox, sessionVars, claimVars>>

-----------------------------------------------------------------------------
Dispatch(c) ==
    Accept(c) \/ Reject(c) \/ Partial(c) \/ Token(c) \/ Hello(c)
Session(c) ==
    ChallengePassed(c) \/ ChallengeFailed(c) \/ MuxEnds(c) \/ HandlerEnds(c)
Stop == StopServer \/ ThreadEnds \/ ThreadDies \/ Shutdown \/ Joined \/ JoinTimesOut

Next ==
    \/ Poll \/ Ask \/ Cleanup \/ Stop
    \/ \E c \in Conns : Dispatch(c)
    \/ \E c \in Visitors : Visit(c) \/ VisitEnds(c)
    \/ \E c \in Clients : Session(c)
    \/ \E w \in Workers : Take(w) \/ EventStream(w) \/ CloseConnections(w) \/ Exit(w)

\* The thread and the event loops run; handshakes have timeouts; a cancelled
\* write task ends.  Nobody is obliged to connect, to leave or to call stop().
Fairness ==
    /\ WF_vars(Poll) /\ WF_vars(Ask) /\ WF_vars(Cleanup) /\ WF_vars(ThreadEnds)
    /\ WF_vars(Shutdown) /\ WF_vars(Joined)
    /\ WF_vars(\E c \in Conns : Dispatch(c))
    /\ \A c \in Clients :
          /\ WF_vars(ChallengePassed(c) \/ ChallengeFailed(c))
          /\ WF_vars(mux[c] = "stopping" /\ MuxEnds(c)) /\ WF_vars(HandlerEnds(c))
    /\ \A w \in Workers :
          /\ WF_vars(Take(w)) /\ WF_vars(EventStream(w))
          /\ WF_vars(CloseConnections(w)) /\ WF_vars(Exit(w))

Spec == Init /\ [][Next]_vars
FairSpec == Spec /\ Fairness

-----------------------------------------------------------------------------
(***************************************************************************)
(* Properties                                                              *)
(***************************************************************************)

\* The type of the state.
TypeOK ==
    /\ running \in BOOLEAN /\ loop \in {"poll", "events", "done"}
    /\ ready \subseteq Conns
    /\ stale \in [Conns -> 0 .. StaleMax] /\ reads \in [Conns -> 0 .. BufferMax]
    /\ scan \in [conn : Visitors, next : Workers] \cup {NoScan}
    /\ lb \in Workers /\ closing \in 1 .. N + 1
    /\ stopping \in {"no", "put", "join", "failed"}
    /\ at \in [Conns -> {"new", "polled", "queued", "worker", "closed"}]
    /\ where \in [Conns -> 0 .. N] /\ via \in [Visitors -> Clients \cup {None}]
    /\ inbox \in [Workers -> Seq(Conns \cup {0})]
    /\ up \in [Workers -> {"up", "stopping", "closing", "exited"}]
    /\ phase \in [Clients -> {"new", "challenge", "serving", "done"}]
    /\ mux \in [Clients -> {"none", "up", "stopping", "down"}]
    /\ peers \in [Workers -> [Names -> Clients \cup {None}]]
    /\ events \in [Workers -> Seq(Clients \X {"CONNECTED", "DISCONNECTED"})]
    /\ sync \in [Workers -> SUBSET Names] /\ peer_count \in [Workers -> Int]
    /\ latest \in [Workers -> [Names -> Clients \cup {None}]]
    /\ steady \subseteq Workers

\* A socket has one owner: a connection is in a worker's queue exactly when it
\* was handed over to it and not yet taken, and in one place of one queue
\* (run.py:499-541, worker.py:200-209).
OneOwner ==
    \A c \in Conns :
        /\ at[c] = "queued" => \E i \in DOMAIN inbox[where[c]] : inbox[where[c]][i] = c
        /\ \A w \in Workers : \A i \in DOMAIN inbox[w] : inbox[w][i] = c =>
              /\ at[c] = "queued" /\ where[c] = w
              /\ \A j \in DOMAIN inbox[w] : inbox[w][j] = c => j = i

\* The None of shutdown() is the last thing a worker is given: no connection is
\* left in the queue of a worker that has stopped reading it (run.py:395-401).
NothingAfterNone ==
    \A w \in Workers :
        /\ \A i \in DOMAIN inbox[w] : inbox[w][i] = 0 => i = Len(inbox[w])
        /\ up[w] # "up" => inbox[w] = <<>>

\* A visitor is turned away only if no worker has claimed its host all the time
\* that the workers were asked (run.py:527-541).
SteadyClaimIsServed ==
    [][\A c \in Visitors : scan.conn = c /\ at[c] # "closed" /\ at'[c] = "closed" => steady = {}]_vars

\* The directory of worker w
Directory(w) == INSTANCE PeerManager WITH
    Sessions <- Clients,
    Tokens <- [hostname : Names, alias : {{}}],
    token <- [c \in Clients |-> [hostname |-> Host[c], alias |-> {}]],
    phase <- [c \in Clients |-> IF where[c] = w THEN phase[c] ELSE "new"],
    mux <- [c \in Clients |-> IF where[c] = w THEN mux[c] ELSE "none"],
    peers <- peers[w], events <- events[w], sync <- sync[w],
    peer_count <- peer_count[w], latest <- latest[w]

\* Each worker implements PeerManager (peer_manager.py, worker.py:157-168),
\* whatever the thread hands it and while it is stopped.
WorkersKeepDirectories ==
    /\ \A w \in Workers : Directory(w)!Init
    /\ [][\A w \in Workers : Directory(w)!Next \/ UNCHANGED Directory(w)!vars]_vars

\* A connection does not stay with the thread: it is handed over or closed,
\* also when it stays silent or its hello never completes (run.py:459-466, 515-520).
ConnectionsMoveOn == \A c \in Conns : []<>(at[c] # "polled")

\* A worker does not claim a host for ever when the sessions that served it
\* there have ended, also after the client came back to another worker: visitors
\* do not end there for ever (worker.py:157-168).
LostClaimEnds ==
    \A w \in Workers : \A n \in Names :
        []<>(\/ n \notin sync[w] \/ ~Running(w)
             \/ \E c \in Clients : where[c] = w /\ Host[c] = n /\ phase[c] # "done")

\* stop() shuts down every worker, unless one does not end in time, also when
\* the accepting thread has died before.
StopEnds ==
    []<>(\/ stopping \in {"no", "failed"}
         \/ /\ \A w \in Workers : up[w] = "exited"
            /\ \A c \in Conns : at[c] \in {"new", "closed"})

\* "Shutdown all workers" (run.py:398)
EveryWorkerIsShutDown == stopping # "no" ~> \A w \in Workers : up[w] = "exited"
=============================================================================
