-------------------------- MODULE DispatcherProofs --------------------------
(***************************************************************************)
(* Proofs about Dispatcher for any number of workers, connections and host *)
(* names: what a socket handed to a worker process may count on, and that  *)
(* the directory of every worker is the one of PeerManager.                *)
(***************************************************************************)
EXTENDS Dispatcher, TLAPS

-----------------------------------------------------------------------------
(***************************************************************************)
(* The inductive invariant.                                                *)
(***************************************************************************)
\* A connection the thread still has can take one more read.
BufferHasRoom ==
    \A c \in Conns : at[c] \in {"new", "polled"} => reads[c] < BufferMax

\* Workers are asked about a connection that the thread has, while it handles
\* events.
ScanIsOfThread ==
    scan # NoScan => loop = "events" /\ at[scan.conn] = "polled"

\* A connection that left the thread has a worker.
HasWorker ==
    \A c \in Conns : at[c] \in {"queued", "worker"} => where[c] \in Workers

\* The worker has been given None.
Told(w) == w < closing \/ (w = closing /\ stopping \in {"join", "failed"})

\* None is put when the thread is done, worker by worker; until then a worker
\* runs and no None is in its queue.
StopInOrder ==
    /\ loop # "done" => closing = 1 /\ stopping \in {"no", "put"}
    /\ stopping = "join" => closing \in Workers
    /\ \A w \in Workers : ~Told(w) =>
          /\ up[w] = "up"
          /\ \A i \in DOMAIN inbox[w] : inbox[w][i] # 0

\* The workers that claim the host throughout have not been asked yet.
SteadyAhead ==
    scan # NoScan => \A w \in steady : w >= scan.next /\ Claims(w, Host[scan.conn])

\* A client that no worker took has no session.
FreshClient ==
    \A c \in Clients : at[c] \in {"new", "polled", "queued"} =>
        phase[c] = "new" /\ mux[c] = "none"

\* The directory of a worker has sessions of this worker.
PeersOfWorker ==
    \A w \in Workers, n \in Names : peers[w][n] # None =>
        where[peers[w][n]] = w /\ mux[peers[w][n]] # "none"

ThreadInv == BufferHasRoom /\ ScanIsOfThread /\ HasWorker
StopInv == StopInOrder /\ NothingAfterNone
Inv ==
    /\ TypeOK /\ ThreadInv /\ OneOwner /\ StopInv
    /\ SteadyAhead /\ FreshClient /\ PeersOfWorker

-----------------------------------------------------------------------------
(***************************************************************************)
(* Types                                                                   *)
(***************************************************************************)
\* What Tail leaves of a sequence.
LEMMA TailEffect ==
    ASSUME NEW S, NEW q \in Seq(S), q # <<>>
    PROVE  /\ Head(q) \in S /\ Head(q) = q[1] /\ 1 \in DOMAIN q
           /\ Tail(q) \in Seq(S) /\ Len(Tail(q)) = Len(q) - 1
           /\ DOMAIN Tail(q) = 1 .. Len(q) - 1
           /\ \A i \in DOMAIN Tail(q) : Tail(q)[i] = q[i + 1] /\ i + 1 \in DOMAIN q
  OBVIOUS

\* What Append adds to a sequence.
LEMMA AppendEffect ==
    ASSUME NEW S, NEW q \in Seq(S), NEW x \in S
    PROVE  /\ Append(q, x) \in Seq(S) /\ Len(Append(q, x)) = Len(q) + 1
           /\ DOMAIN Append(q, x) = 1 .. Len(q) + 1 /\ DOMAIN q = 1 .. Len(q)
           /\ Append(q, x)[Len(q) + 1] = x
           /\ \A i \in DOMAIN q : Append(q, x)[i] = q[i]
  OBVIOUS

\* An event keeps the types of what the thread has.
LEMMA TypeDispatch ==
    ASSUME TypeOK, ThreadInv, NEW c \in Conns, Dispatch(c)
    PROVE  TypeOK'
  <1> USE DispatchAssumption DEF TypeOK, ThreadInv
  <1>0. None \notin Visitors /\ c \in Clients \cup Visitors
    BY DEF Conns
  <1>1. CASE Accept(c)
    BY <1>1 DEF Accept, AtWork, stopVars, sessionVars, claimVars
  <1>2. CASE Reject(c)
    BY <1>2 DEF Reject, Event, AtWork, stopVars, sessionVars, claimVars
  <1>3. CASE Partial(c)
    <2>1. reads[c] < BufferMax
      BY <1>3 DEF Partial, Event, BufferHasRoom
    <2>2. reads' \in [Conns -> 0 .. BufferMax] /\ stale' \in [Conns -> 0 .. StaleMax]
      BY <1>3, <2>1 DEF Partial
    <2>3. at' \in [Conns -> {"new", "polled", "queued", "worker", "closed"}]
      BY <1>3 DEF Partial
    <2> QED
      BY <1>3, <2>2, <2>3 DEF Partial, Event, stopVars, sessionVars, claimVars
  <1>4. CASE Token(c)
    <2>1. inbox' \in [Workers -> Seq(Conns \cup {0})]
      BY <1>4, AppendEffect DEF Token, HandOver
    <2>2. lb' \in Workers
      BY <1>4 DEF Token, Workers
    <2>3. where' \in [Conns -> 0 .. N]
      BY <1>4 DEF Token, HandOver, Workers
    <2> QED
      BY <1>4, <2>1, <2>2, <2>3 DEF Token, HandOver, Event, stopVars, sessionVars, claimVars
  <1>5. CASE Hello(c)
    <2>1. scan' \in [conn : Visitors, next : Workers]
      BY <1>5 DEF Hello, Workers
    <2>2. steady' \subseteq Workers
      BY <1>5 DEF Hello
    <2> QED
      BY <1>5, <2>1, <2>2 DEF Hello, Event, stopVars, placeVars, sessionVars
  <1> QED
    BY <1>1, <1>2, <1>3, <1>4, <1>5 DEF Dispatch

\* The visitor for which workers are asked, and the worker asked next.
LEMMA ScanTyped ==
    ASSUME TypeOK, scan # NoScan
    PROVE  /\ scan \in [conn : Visitors, next : Workers]
           /\ scan.conn \in Visitors /\ scan.conn \in Conns /\ scan.next \in Workers
  BY DEF TypeOK, Conns

\* Asking a worker keeps the types.
LEMMA TypeAsk ==
    ASSUME TypeOK, Ask
    PROVE  TypeOK'
  <1> USE DispatchAssumption DEF TypeOK
  <1>1. /\ scan \in [conn : Visitors, next : Workers]
        /\ scan.conn \in Conns /\ scan.next \in Workers
    BY ScanTyped DEF Ask
  <1>2. CASE Claims(scan.next, Host[scan.conn]) /\ HandOver(scan.conn, scan.next)
                /\ scan' = NoScan
    <2>1. inbox' \in [Workers -> Seq(Conns \cup {0})]
      BY <1>1, <1>2, AppendEffect DEF HandOver
    <2>2. where' \in [Conns -> 0 .. N]
      BY <1>1, <1>2 DEF HandOver, Workers
    <2> QED
      BY <1>1, <1>2, <2>1, <2>2 DEF Ask, HandOver, stopVars, sessionVars, claimVars
  <1>3. CASE scan.next < N /\ scan' = [scan EXCEPT !.next = scan.next + 1]
                /\ UNCHANGED <<placeVars, inbox>>
    <2>1. scan' \in [conn : Visitors, next : Workers]
      <3>1. scan.next + 1 \in Workers
        BY <1>1, <1>3 DEF Workers
      <3> QED
        BY <1>1, <1>3, <3>1
    <2> QED
      BY <1>3, <2>1 DEF Ask, placeVars, stopVars, sessionVars, claimVars
  <1>4. CASE at' = [at EXCEPT ![scan.conn] = "closed"] /\ scan' = NoScan
                /\ UNCHANGED <<where, via, inbox>>
    BY <1>4 DEF Ask, stopVars, sessionVars, claimVars
  <1> QED
    BY <1>2, <1>3, <1>4 DEF Ask

\* The other steps of the thread and those of stop() keep the types.
LEMMA TypeThread ==
    ASSUME TypeOK, StopInOrder, Poll \/ Cleanup \/ Stop
    PROVE  TypeOK'
  <1> USE DispatchAssumption DEF TypeOK
  <1>1. CASE Poll
    BY <1>1 DEF Poll, stopVars, placeVars, sessionVars, claimVars
  <1>2. CASE Cleanup
    <2>1. stale' \in [Conns -> 0 .. StaleMax]
      BY <1>2 DEF Cleanup
    <2>2. at' \in [Conns -> {"new", "polled", "queued", "worker", "closed"}]
      BY <1>2 DEF Cleanup
    <2>3. reads' \in [Conns -> 0 .. BufferMax]
      BY <1>2 DEF Cleanup
    <2> QED
      BY <1>2, <2>1, <2>2, <2>3 DEF Cleanup, stopVars, sessionVars, claimVars
  <1>3. CASE StopServer
    BY <1>3 DEF StopServer, placeVars, sessionVars, claimVars
  <1>4. CASE ThreadEnds \/ ThreadDies
    <2>1. at' \in [Conns -> {"new", "polled", "queued", "worker", "closed"}]
      BY <1>4 DEF ThreadEnds, ThreadDies
    <2> QED
      BY <1>4, <2>1 DEF ThreadEnds, ThreadDies, stopVars, sessionVars, claimVars
  <1>5. CASE Shutdown
    <2>1. inbox' \in [Workers -> Seq(Conns \cup {0})]
      BY <1>5, AppendEffect DEF Shutdown
    <2> QED
      BY <1>5, <2>1 DEF Shutdown, threadVars, placeVars, sessionVars, claimVars
  <1>6. CASE Joined
    <2>1. closing' \in 1 .. N + 1
      BY <1>6 DEF Joined, StopInOrder, Workers
    <2> QED
      BY <1>6, <2>1 DEF Joined, threadVars, placeVars, sessionVars, claimVars
  <1>7. CASE JoinTimesOut
    BY <1>7 DEF JoinTimesOut, threadVars, placeVars, sessionVars, claimVars
  <1> QED
    BY <1>1, <1>2, <1>3, <1>4, <1>5, <1>6, <1>7 DEF Stop

\* remove_peer keeps the types of the directory.
LEMMA TypeRemovePeer ==
    ASSUME TypeOK, NEW c \in Clients, where[c] \in Workers, RemovePeer(c)
    PROVE  /\ peers' \in [Workers -> [Names -> Clients \cup {None}]]
           /\ events' \in [Workers -> Seq(Clients \X {"CONNECTED", "DISCONNECTED"})]
  <1>1. <<c, "DISCONNECTED">> \in Clients \X {"CONNECTED", "DISCONNECTED"}
    OBVIOUS
  <1> DEFINE E == Clients \X {"CONNECTED", "DISCONNECTED"}
             D == [Names -> Clients \cup {None}]
             w == where[c]
  <1>2. events' \in [Workers -> Seq(E)]
    <2> HIDE DEF E
    <2>1. events \in [Workers -> Seq(E)] /\ <<c, "DISCONNECTED">> \in E
      BY <1>1 DEF TypeOK, E
    <2>2. Append(events[w], <<c, "DISCONNECTED">>) \in Seq(E)
      BY <2>1, AppendEffect
    <2> QED
      BY <2>1, <2>2 DEF RemovePeer
  <1>3. peers' \in [Workers -> D]
    <2>1. [peers[w] EXCEPT ![Host[c]] = None] \in D
      BY DEF TypeOK
    <2> QED
      BY <2>1 DEF TypeOK, RemovePeer
  <1> QED
    BY <1>2, <1>3

\* The steps of a client's handler keep the types.
LEMMA TypeSession ==
    ASSUME TypeOK, ThreadInv, NEW c \in Clients, Session(c)
    PROVE  TypeOK'
  <1> USE DispatchAssumption DEF TypeOK
  <1>0. c \in Conns /\ Host[c] \in Names
    BY DEF Conns
  <1>1. Held(c) /\ at[c] = "worker" /\ where[c] \in Workers
    BY <1>0 DEF Session, ChallengePassed, ChallengeFailed, MuxEnds, HandlerEnds, Held,
                ThreadInv, HasWorker
  <1>2. CASE ChallengePassed(c)
    <2>0. <<c, "CONNECTED">> \in Clients \X {"CONNECTED", "DISCONNECTED"}
      OBVIOUS
    <2>1. mux' \in [Clients -> {"none", "up", "stopping", "down"}]
      BY <1>2 DEF ChallengePassed, Stopped
    <2>2. peers' \in [Workers -> [Names -> Clients \cup {None}]]
      BY <1>0, <1>1, <1>2 DEF ChallengePassed
    <2>3. events' \in [Workers -> Seq(Clients \X {"CONNECTED", "DISCONNECTED"})]
      BY <1>1, <1>2, <2>0, AppendEffect DEF ChallengePassed
    <2>4. latest' \in [Workers -> [Names -> Clients \cup {None}]]
      BY <1>0, <1>1, <1>2 DEF ChallengePassed
    <2>5. phase' \in [Clients -> {"new", "challenge", "serving", "done"}]
      BY <1>2 DEF ChallengePassed
    <2> QED
      BY <1>2, <2>1, <2>2, <2>3, <2>4, <2>5
         DEF ChallengePassed, threadVars, stopVars, placeVars, claimVars
  <1>3. CASE ChallengeFailed(c) \/ HandlerEnds(c)
    <2>1. /\ peers' \in [Workers -> [Names -> Clients \cup {None}]]
          /\ events' \in [Workers -> Seq(Clients \X {"CONNECTED", "DISCONNECTED"})]
      BY <1>1, <1>3, TypeRemovePeer DEF ChallengeFailed, HandlerEnds
    <2>2. phase' \in [Clients -> {"new", "challenge", "serving", "done"}]
      <3>1. phase' = [phase EXCEPT ![c] = "done"]
        BY <1>3 DEF ChallengeFailed, HandlerEnds
      <3> QED
        BY <3>1
    <2>3. at' \in [Conns -> {"new", "polled", "queued", "worker", "closed"}]
      BY <1>3 DEF ChallengeFailed, HandlerEnds
    <2> QED
      BY <1>3, <2>1, <2>2, <2>3
         DEF ChallengeFailed, HandlerEnds, threadVars, stopVars, claimVars
  <1>4. CASE MuxEnds(c)
    BY <1>4 DEF MuxEnds, threadVars, stopVars, placeVars, claimVars
  <1> QED
    BY <1>2, <1>3, <1>4 DEF Session

\* The steps of a visit keep the types.
LEMMA TypeVisit ==
    ASSUME TypeOK, ThreadInv, NEW c \in Visitors, Visit(c) \/ VisitEnds(c)
    PROVE  TypeOK'
  <1> USE DispatchAssumption DEF TypeOK
  <1>0. c \in Conns /\ Host[c] \in Names
    BY DEF Conns
  <1>1. where[c] \in Workers
    BY <1>0 DEF Visit, VisitEnds, Held, ThreadInv, HasWorker
  <1>2. CASE Visit(c)
    <2>1. via' \in [Visitors -> Clients \cup {None}]
      <3>1. peers[where[c]][Host[c]] \in Clients \cup {None}
        BY <1>0, <1>1
      <3> QED
        BY <1>2, <3>1 DEF Visit
    <2>2. at' \in [Conns -> {"new", "polled", "queued", "worker", "closed"}]
      BY <1>2 DEF Visit
    <2> QED
      BY <1>2, <2>1, <2>2 DEF Visit, threadVars, stopVars, sessionVars, claimVars
  <1>3. CASE VisitEnds(c)
    BY <1>3 DEF VisitEnds, threadVars, stopVars, sessionVars, claimVars
  <1> QED
    BY <1>2, <1>3

\* The steps of a worker keep the types.
LEMMA TypeWorker ==
    ASSUME TypeOK, NEW w \in Workers,
           Take(w) \/ EventStream(w) \/ CloseConnections(w) \/ Exit(w)
    PROVE  TypeOK'
  <1>1. CASE Take(w)
    <2> DEFINE c == Head(inbox[w])
    <2>1. /\ inbox' \in [Workers -> Seq(Conns \cup {0})]
          /\ c \in Conns \cup {0}
      BY <1>1, TailEffect DEF Take, TypeOK
    <2>2. /\ \/ UNCHANGED at
             \/ at' = [at EXCEPT ![c] = "worker"]
             \/ at' = [at EXCEPT ![c] = "closed"]
          /\ UNCHANGED phase \/ phase' = [phase EXCEPT ![c] = "challenge"]
          /\ UNCHANGED up \/ up' = [up EXCEPT ![w] = "stopping"]
      BY <1>1 DEF Take, NewConnection
    <2> HIDE DEF c
    <2>3. at' \in [Conns -> {"new", "polled", "queued", "worker", "closed"}]
      <3>1. at \in [Conns -> {"new", "polled", "queued", "worker", "closed"}]
        BY DEF TypeOK
      <3> QED BY <2>2, <3>1
    <2>4. phase' \in [Clients -> {"new", "challenge", "serving", "done"}]
      <3>1. phase \in [Clients -> {"new", "challenge", "serving", "done"}]
        BY DEF TypeOK
      <3> QED BY <2>2, <3>1
    <2>5. up' \in [Workers -> {"up", "stopping", "closing", "exited"}]
      <3>1. up \in [Workers -> {"up", "stopping", "closing", "exited"}]
        BY DEF TypeOK
      <3> QED BY <2>2, <3>1
    <2> QED
      BY <1>1, <2>1, <2>3, <2>4, <2>5 DEF Take, threadVars, stopVars, claimVars, TypeOK
  <1>2. CASE EventStream(w)
    <2>1. /\ events' \in [Workers -> Seq(Clients \X {"CONNECTED", "DISCONNECTED"})]
          /\ Head(events[w])[1] \in Clients
      <3> DEFINE E == Clients \X {"CONNECTED", "DISCONNECTED"}
      <3>1. events[w] \in Seq(E) /\ events[w] # <<>>
        BY <1>2 DEF EventStream, TypeOK
      <3>2. Tail(events[w]) \in Seq(E) /\ Head(events[w]) \in E
        <4> HIDE DEF E
        <4> QED BY <3>1, TailEffect
      <3>3. Head(events[w])[1] \in Clients
        BY <3>2
      <3> QED
        BY <1>2, <3>2, <3>3 DEF EventStream, TypeOK
    <2>2. Host[Head(events[w])[1]] \in Names
      BY <2>1, DispatchAssumption DEF Conns
    <2>3. sync' \in [Workers -> SUBSET Names]
      <3> DEFINE h == Host[Head(events[w])[1]]
      <3>1. /\ sync[w] \cup {h} \in SUBSET Names /\ sync[w] \ {h} \in SUBSET Names
            /\ sync \in [Workers -> SUBSET Names]
        BY <2>2 DEF TypeOK
      <3>2. \/ sync' = [sync EXCEPT ![w] = sync[w] \cup {h}]
            \/ sync' = [sync EXCEPT ![w] = sync[w] \ {h}]
        BY <1>2 DEF EventStream
      <3> HIDE DEF h
      <3> QED
        BY <3>1, <3>2
    <2>4. peer_count' \in [Workers -> Int]
      <3>1. peer_count \in [Workers -> Int] /\ peer_count[w] \in Int
        BY DEF TypeOK
      <3>2. \E k \in {peer_count[w] - 1, peer_count[w], peer_count[w] + 1} :
                peer_count' = [peer_count EXCEPT ![w] = k]
        BY <1>2 DEF EventStream
      <3> QED BY <3>1, <3>2
    <2>5. steady' \subseteq Workers
      BY <1>2 DEF EventStream, TypeOK
    <2> QED
      BY <1>2, <2>1, <2>3, <2>4, <2>5 DEF EventStream, threadVars, stopVars, placeVars, TypeOK
  <1>3. CASE CloseConnections(w)
    <2>1. mux' \in [Clients -> {"none", "up", "stopping", "down"}]
      BY <1>3 DEF CloseConnections, Stopped, TypeOK
    <2> QED
      BY <1>3, <2>1 DEF CloseConnections, threadVars, stopVars, placeVars, claimVars, TypeOK
  <1>4. CASE Exit(w)
    <2>1. at' \in [Conns -> {"new", "polled", "queued", "worker", "closed"}]
      BY <1>4 DEF Exit, TypeOK
    <2> QED
      BY <1>4, <2>1 DEF Exit, threadVars, stopVars, sessionVars, claimVars, TypeOK
  <1> QED
    BY <1>1, <1>2, <1>3, <1>4

-----------------------------------------------------------------------------
(***************************************************************************)
(* What a step does to the queues: it hands a connection over, takes one,  *)
(* puts None, or leaves them alone.                                        *)
(***************************************************************************)
Keeps ==
    /\ UNCHANGED <<inbox, where>>
    /\ \A c \in Conns : \/ at'[c] = at[c]
                        \/ at[c] = "new" /\ at'[c] = "polled"
                        \/ at[c] \in {"polled", "worker"} /\ at'[c] = "closed"
    /\ \A w \in Workers : up'[w] = "up" <=> up[w] = "up"

HandsOver(c, w) ==
    /\ loop = "events" /\ at[c] = "polled"
    /\ HandOver(c, w)
    /\ scan' = NoScan
    /\ UNCHANGED <<loop, reads, stopVars, up, sessionVars>>

\* The steps of the thread are of these kinds.
LEMMA ThreadShapes ==
    ASSUME TypeOK, ThreadInv,
           Poll \/ Ask \/ Cleanup \/ Stop \/ \E c \in Conns : Dispatch(c)
    PROVE  \/ Keeps
           \/ \E c \in Conns, w \in Workers : HandsOver(c, w)
           \/ Shutdown
  <1> USE DEF TypeOK
  <1>1. CASE Poll
    BY <1>1 DEF Poll, Keeps, placeVars
  <1>2. CASE Ask
    <2>1. /\ scan.conn \in Conns /\ scan.next \in Workers
          /\ loop = "events" /\ at[scan.conn] = "polled"
      BY <1>2, ScanTyped DEF Ask, ThreadInv, ScanIsOfThread
    <2>2. CASE Claims(scan.next, Host[scan.conn]) /\ HandOver(scan.conn, scan.next)
                  /\ scan' = NoScan
      BY <1>2, <2>1, <2>2 DEF Ask, HandsOver
    <2>3. CASE UNCHANGED <<placeVars, inbox>>
      BY <1>2, <2>3 DEF Ask, Keeps, placeVars
    <2>4. CASE at' = [at EXCEPT ![scan.conn] = "closed"] /\ UNCHANGED <<where, inbox>>
      BY <1>2, <2>1, <2>4 DEF Ask, Keeps
    <2> QED
      BY <1>2, <2>2, <2>3, <2>4 DEF Ask
  <1>3. CASE Cleanup
    BY <1>3 DEF Cleanup, Keeps
  <1>4. CASE StopServer \/ Joined \/ JoinTimesOut
    BY <1>4 DEF StopServer, Joined, JoinTimesOut, Keeps, placeVars
  <1>5. CASE ThreadEnds \/ ThreadDies
    BY <1>5 DEF ThreadEnds, ThreadDies, Keeps
  <1>6. ASSUME NEW c \in Conns, Dispatch(c)
        PROVE  Keeps \/ \E v \in Workers : HandsOver(c, v)
    <2>1. CASE Accept(c)
      BY <2>1 DEF Accept, Keeps
    <2>2. CASE Reject(c) \/ Partial(c)
      BY <2>2 DEF Reject, Partial, Event, Keeps
    <2>3. CASE Token(c)
      BY <2>3 DEF Token, Event, AtWork, HandsOver
    <2>4. CASE Hello(c)
      BY <2>4 DEF Hello, Event, Keeps, placeVars
    <2> QED
      BY <1>6, <2>1, <2>2, <2>3, <2>4 DEF Dispatch
  <1> QED
    BY <1>1, <1>2, <1>3, <1>4, <1>5, <1>6 DEF Stop

\* The steps of the workers other than Take leave the queues alone.
LEMMA WorkerShapes ==
    ASSUME TypeOK,
           \/ \E c \in Visitors : Visit(c) \/ VisitEnds(c)
           \/ \E c \in Clients : Session(c)
           \/ \E w \in Workers : EventStream(w) \/ CloseConnections(w) \/ Exit(w)
    PROVE  Keeps
  <1> USE DEF TypeOK, Keeps
  <1>1. ASSUME NEW c \in Visitors, Visit(c) \/ VisitEnds(c)
        PROVE  Keeps
    BY <1>1 DEF Visit, VisitEnds, Held, Conns
  <1>2. ASSUME NEW c \in Clients, Session(c)
        PROVE  Keeps
    BY <1>2 DEF Session, ChallengePassed, ChallengeFailed, MuxEnds, HandlerEnds, Held, Conns,
                placeVars
  <1>3. ASSUME NEW w \in Workers, EventStream(w)
        PROVE  Keeps
    BY <1>3 DEF EventStream, placeVars
  <1>4. ASSUME NEW w \in Workers, CloseConnections(w)
        PROVE  Keeps
    BY <1>4 DEF CloseConnections, placeVars
  <1>5. ASSUME NEW w \in Workers, Exit(w)
        PROVE  Keeps
    BY <1>5 DEF Exit
  <1> QED
    BY <1>1, <1>2, <1>3, <1>4, <1>5

\* Every step is of one of these kinds.
LEMMA StepShapes ==
    ASSUME TypeOK, ThreadInv, [Next]_vars
    PROVE  \/ Keeps
           \/ \E c \in Conns, w \in Workers : HandsOver(c, w)
           \/ Shutdown
           \/ \E w \in Workers : Take(w)
  <1>1. CASE UNCHANGED vars
    BY <1>1 DEF vars, placeVars, Keeps
  <1> QED
    BY <1>1, ThreadShapes, WorkerShapes DEF Next

-----------------------------------------------------------------------------
(***************************************************************************)
(* One owner                                                               *)
(***************************************************************************)
\* Handing a connection over puts it in the queue of one worker.
LEMMA OwnerHandsOver ==
    ASSUME TypeOK, OneOwner, NEW c \in Conns, NEW w \in Workers, HandsOver(c, w)
    PROVE  OneOwner'
  <1>1. /\ inbox[w] \in Seq(Conns \cup {0})
        /\ inbox' = [inbox EXCEPT ![w] = Append(inbox[w], c)]
        /\ inbox \in [Workers -> Seq(Conns \cup {0})]
        /\ at' = [at EXCEPT ![c] = "queued"] /\ where' = [where EXCEPT ![c] = w]
        /\ at[c] = "polled" /\ DOMAIN at = Conns /\ DOMAIN where = Conns
    BY DEF HandsOver, HandOver, TypeOK
  <1>2. /\ Len(inbox[w]) \in Nat /\ DOMAIN inbox[w] = 1 .. Len(inbox[w])
        /\ inbox'[w] = Append(inbox[w], c)
        /\ DOMAIN inbox'[w] = 1 .. Len(inbox[w]) + 1
        /\ inbox'[w][Len(inbox[w]) + 1] = c
        /\ \A i \in DOMAIN inbox[w] : inbox'[w][i] = inbox[w][i]
    BY <1>1, AppendEffect
  <1>3. \A v \in Workers : v # w => inbox'[v] = inbox[v]
    BY <1>1
  <1>4. \A v \in Workers : \A i \in DOMAIN inbox[v] : inbox[v][i] # c
    BY <1>1 DEF OneOwner
  <1>5. /\ at'[c] = "queued" /\ where'[c] = w
        /\ \A d \in Conns : d # c => at'[d] = at[d] /\ where'[d] = where[d]
    BY <1>1
  <1>6. ASSUME NEW v \in Workers, NEW i \in DOMAIN inbox'[v], inbox'[v][i] = c
        PROVE  v = w /\ i = Len(inbox[w]) + 1
    BY <1>2, <1>3, <1>4, <1>6
  <1>7. ASSUME NEW d \in Conns, d # c, at[d] = "queued"
        PROVE  \E i \in DOMAIN inbox'[where[d]] : inbox'[where[d]][i] = d
    <2>1. PICK i \in DOMAIN inbox[where[d]] : inbox[where[d]][i] = d
      BY <1>7 DEF OneOwner
    <2>2. CASE where[d] = w
      <3>1. i \in DOMAIN inbox'[w] /\ inbox'[w][i] = d
        BY <1>2, <2>1, <2>2
      <3> QED BY <3>1, <2>2
    <2>3. CASE where[d] # w
      <3>1. inbox'[where[d]] = inbox[where[d]]
        BY <1>1, <2>3
      <3> QED BY <2>1, <3>1
    <2> QED BY <2>2, <2>3
  <1>8. ASSUME NEW d \in Conns, d # c, NEW v \in Workers, NEW i \in DOMAIN inbox'[v],
               inbox'[v][i] = d
        PROVE  i \in DOMAIN inbox[v] /\ inbox[v][i] = d
    BY <1>2, <1>3, <1>8
  <1>9. ASSUME NEW d \in Conns
        PROVE  /\ at'[d] = "queued" => \E i \in DOMAIN inbox'[where'[d]] : inbox'[where'[d]][i] = d
               /\ \A v \in Workers : \A i \in DOMAIN inbox'[v] : inbox'[v][i] = d =>
                    /\ at'[d] = "queued" /\ where'[d] = v
                    /\ \A j \in DOMAIN inbox'[v] : inbox'[v][j] = d => j = i
    <2>1. CASE d = c
      BY <1>2, <1>5, <1>6, <2>1
    <2>2. CASE d # c
      <3>1. at'[d] = "queued" => \E i \in DOMAIN inbox'[where'[d]] : inbox'[where'[d]][i] = d
        BY <1>5, <1>7, <2>2
      <3>2. ASSUME NEW v \in Workers, NEW i \in DOMAIN inbox'[v], inbox'[v][i] = d
            PROVE  /\ at'[d] = "queued" /\ where'[d] = v
                   /\ \A j \in DOMAIN inbox'[v] : inbox'[v][j] = d => j = i
        BY <1>5, <1>8, <2>2, <3>2 DEF OneOwner
      <3> QED BY <3>1, <3>2
    <2> QED BY <2>1, <2>2
  <1> QED
    BY <1>9 DEF OneOwner

\* The None of shutdown() is no connection.
LEMMA OwnerShutdown ==
    ASSUME TypeOK, OneOwner, HasWorker, Shutdown
    PROVE  OneOwner'
  <1> DEFINE w == closing
  <1>1. /\ w \in Workers /\ inbox[w] \in Seq(Conns \cup {0})
        /\ inbox' = [inbox EXCEPT ![w] = Append(inbox[w], 0)]
        /\ inbox \in [Workers -> Seq(Conns \cup {0})]
        /\ UNCHANGED <<at, where>> /\ 0 \notin Conns
    BY DispatchAssumption DEF Shutdown, TypeOK, placeVars
  <1> HIDE DEF w
  <1>2. /\ Len(inbox[w]) \in Nat /\ DOMAIN inbox[w] = 1 .. Len(inbox[w])
        /\ inbox'[w] = Append(inbox[w], 0)
        /\ DOMAIN inbox'[w] = 1 .. Len(inbox[w]) + 1
        /\ inbox'[w][Len(inbox[w]) + 1] = 0
        /\ \A i \in DOMAIN inbox[w] : inbox'[w][i] = inbox[w][i]
    BY <1>1, AppendEffect
  <1>3. \A v \in Workers : v # w => inbox'[v] = inbox[v]
    BY <1>1
  <1>4. ASSUME NEW d \in Conns, NEW v \in Workers, NEW i \in DOMAIN inbox'[v],
               inbox'[v][i] = d
        PROVE  i \in DOMAIN inbox[v] /\ inbox[v][i] = d
    BY <1>1, <1>2, <1>3, <1>4
  <1>5. ASSUME NEW d \in Conns, at[d] = "queued"
        PROVE  \E i \in DOMAIN inbox'[where[d]] : inbox'[where[d]][i] = d
    <2>1. PICK i \in DOMAIN inbox[where[d]] : inbox[where[d]][i] = d
      BY <1>5 DEF OneOwner
    <2>2. where[d] \in Workers
      BY <1>5 DEF HasWorker
    <2> QED
      BY <1>2, <1>3, <2>1, <2>2
  <1> QED
    BY <1>1, <1>4, <1>5 DEF OneOwner

\* A connection that a worker takes leaves its queue and every other.
LEMMA OwnerTake ==
    ASSUME TypeOK, OneOwner, HasWorker, NEW w \in Workers, Take(w)
    PROVE  OneOwner'
  <1> DEFINE c == Head(inbox[w])
  <1>1. /\ inbox[w] \in Seq(Conns \cup {0}) /\ inbox[w] # <<>>
        /\ inbox' = [inbox EXCEPT ![w] = Tail(inbox[w])]
        /\ inbox \in [Workers -> Seq(Conns \cup {0})]
        /\ UNCHANGED where
        /\ \/ c = 0 /\ UNCHANGED at
           \/ c # 0 /\ \E a \in {"worker", "closed"} : at' = [at EXCEPT ![c] = a]
    BY DEF Take, NewConnection, TypeOK
  <1>2. /\ c \in Conns \cup {0} /\ c = inbox[w][1] /\ 1 \in DOMAIN inbox[w]
        /\ Len(inbox[w]) \in Nat /\ DOMAIN inbox[w] = 1 .. Len(inbox[w])
        /\ inbox'[w] = Tail(inbox[w])
        /\ DOMAIN inbox'[w] = 1 .. Len(inbox[w]) - 1
        /\ \A i \in DOMAIN inbox'[w] : inbox'[w][i] = inbox[w][i + 1] /\ i + 1 \in DOMAIN inbox[w]
    BY <1>1, TailEffect
  <1> HIDE DEF c
  <1>3. \A v \in Workers : v # w => inbox'[v] = inbox[v]
    BY <1>1
  <1>4. \A d \in Conns : d # c => at'[d] = at[d]
    BY <1>1, <1>2 DEF TypeOK
  <1>5. c \in Conns => at'[c] # "queued" /\ at[c] = "queued" /\ where[c] = w
    <2> SUFFICES ASSUME c \in Conns
                 PROVE  at'[c] # "queued" /\ at[c] = "queued" /\ where[c] = w
      OBVIOUS
    <2>1. c # 0
      BY DispatchAssumption
    <2>2. at'[c] # "queued"
      BY <1>1, <2>1 DEF TypeOK
    <2> QED
      BY <1>2, <2>2 DEF OneOwner
  <1>6. ASSUME NEW d \in Conns, NEW i \in DOMAIN inbox'[w], inbox'[w][i] = d
        PROVE  i + 1 \in DOMAIN inbox[w] /\ inbox[w][i + 1] = d /\ d # c
    <2>1. i + 1 \in DOMAIN inbox[w] /\ inbox[w][i + 1] = d /\ i \in Nat /\ i >= 1
      BY <1>2, <1>6
    <2>2. d # c
      BY <1>2, <2>1 DEF OneOwner
    <2> QED BY <2>1, <2>2
  <1>7. ASSUME NEW d \in Conns, NEW v \in Workers, v # w, NEW i \in DOMAIN inbox'[v],
               inbox'[v][i] = d
        PROVE  i \in DOMAIN inbox[v] /\ inbox[v][i] = d /\ d # c
    <2>1. i \in DOMAIN inbox[v] /\ inbox[v][i] = d
      BY <1>3, <1>7
    <2>2. d # c
      BY <1>5, <1>7, <2>1 DEF OneOwner
    <2> QED BY <2>1, <2>2
  <1>8. ASSUME NEW d \in Conns, at'[d] = "queued"
        PROVE  \E i \in DOMAIN inbox'[where[d]] : inbox'[where[d]][i] = d
    <2>1. d # c /\ at[d] = "queued" /\ where[d] \in Workers
      BY <1>4, <1>5, <1>8 DEF HasWorker
    <2>2. PICK i \in DOMAIN inbox[where[d]] : inbox[where[d]][i] = d
      BY <2>1 DEF OneOwner
    <2>3. CASE where[d] = w
      <3>1. i # 1 /\ i \in 1 .. Len(inbox[w])
        BY <1>2, <2>1, <2>2, <2>3
      <3>2. i - 1 \in DOMAIN inbox'[w] /\ inbox'[w][i - 1] = inbox[w][(i - 1) + 1]
        BY <1>2, <3>1
      <3>3. inbox'[w][i - 1] = d
        BY <2>2, <2>3, <3>1, <3>2
      <3> QED BY <2>3, <3>2, <3>3
    <2>4. CASE where[d] # w
      BY <1>3, <2>1, <2>2, <2>4
    <2> QED BY <2>3, <2>4
  <1>9. ASSUME NEW d \in Conns, NEW v \in Workers, NEW i \in DOMAIN inbox'[v], inbox'[v][i] = d
        PROVE  /\ at'[d] = "queued" /\ where[d] = v
               /\ \A j \in DOMAIN inbox'[v] : inbox'[v][j] = d => j = i
    <2>1. CASE v = w
      <3>0. i \in DOMAIN inbox'[w] /\ inbox'[w][i] = d
        BY <1>9, <2>1
      <3>1. /\ i + 1 \in DOMAIN inbox[w] /\ inbox[w][i + 1] = d /\ d # c
            /\ i \in Int
        BY <1>2, <1>6, <3>0
      <3>2. at'[d] = "queued" /\ where[d] = w
        BY <1>4, <3>1 DEF OneOwner
      <3>3. ASSUME NEW j \in DOMAIN inbox'[w], inbox'[w][j] = d
            PROVE  j = i
        <4>1. j + 1 \in DOMAIN inbox[w] /\ inbox[w][j + 1] = d /\ j \in Int
          BY <1>2, <1>6, <3>3
        <4>2. j + 1 = i + 1
          BY <3>1, <4>1 DEF OneOwner
        <4> QED BY <3>1, <4>1, <4>2
      <3> QED BY <2>1, <3>2, <3>3
    <2>2. CASE v # w
      <3>1. i \in DOMAIN inbox[v] /\ inbox[v][i] = d /\ d # c
        BY <1>7, <1>9, <2>2
      <3>2. inbox'[v] = inbox[v]
        BY <1>3, <2>2
      <3> QED
        BY <1>4, <3>1, <3>2 DEF OneOwner
    <2> QED BY <2>1, <2>2
  <1> QED
    BY <1>1, <1>8, <1>9 DEF OneOwner

\* No step breaks the ownership of a socket.
LEMMA OwnerStep ==
    ASSUME TypeOK, ThreadInv, OneOwner, [Next]_vars
    PROVE  OneOwner'
  <1>1. CASE Keeps
    <2>1. \A c \in Conns : at'[c] = "queued" <=> at[c] = "queued"
      BY <1>1 DEF Keeps
    <2> QED
      BY <1>1, <2>1 DEF Keeps, OneOwner
  <1> QED
    BY <1>1, StepShapes, OwnerHandsOver, OwnerShutdown, OwnerTake DEF ThreadInv

-----------------------------------------------------------------------------
(***************************************************************************)
(* The table of the thread                                                 *)
(***************************************************************************)
\* A connection with the thread can take one more read, whatever happens.
LEMMA RoomStep ==
    ASSUME TypeOK, ThreadInv, [Next]_vars
    PROVE  BufferHasRoom'
  <1> SUFFICES ASSUME NEW d \in Conns, at'[d] \in {"new", "polled"}
               PROVE  reads'[d] < BufferMax
    BY DEF BufferHasRoom
  <1>1. at[d] \in {"new", "polled"}
    <2>1. CASE Keeps
      BY <2>1 DEF Keeps
    <2>2. CASE \E c \in Conns, w \in Workers : HandsOver(c, w)
      BY <2>2 DEF HandsOver, HandOver, TypeOK
    <2>3. CASE Shutdown
      BY <2>3 DEF Shutdown, placeVars
    <2>4. ASSUME NEW w \in Workers, Take(w)
          PROVE  at[d] \in {"new", "polled"}
      BY <2>4 DEF Take, NewConnection, TypeOK
    <2> QED BY <2>1, <2>2, <2>3, <2>4, StepShapes
  <1>2. reads[d] < BufferMax
    BY <1>1 DEF ThreadInv, BufferHasRoom
  <1>3. ASSUME NEW c \in Conns, Partial(c)
        PROVE  reads'[d] < BufferMax
    <2>1. CASE c = d
      BY <1>3, <2>1 DEF Partial, TypeOK
    <2>2. CASE c # d
      BY <1>2, <1>3, <2>2 DEF Partial, TypeOK
    <2> QED BY <2>1, <2>2
  <1>4. CASE Cleanup
    <2>1. reads'[d] \in {reads[d], 0}
      BY <1>4 DEF Cleanup
    <2> QED
      BY <1>2, <2>1, DispatchAssumption
  <1>5. Cleanup \/ (\E c \in Conns : Partial(c)) \/ UNCHANGED reads
    <2>1. Poll \/ Ask \/ Stop => UNCHANGED reads
      BY DEF Poll, Ask, Stop, StopServer, ThreadEnds, ThreadDies, Shutdown, Joined,
             JoinTimesOut, threadVars
    <2>2. \A c \in Conns : Accept(c) \/ Reject(c) \/ Token(c) \/ Hello(c) => UNCHANGED reads
      BY DEF Accept, Reject, Token, Hello
    <2>3. \A c \in Visitors : Visit(c) \/ VisitEnds(c) => UNCHANGED reads
      BY DEF Visit, VisitEnds, threadVars
    <2>4. \A c \in Clients : Session(c) => UNCHANGED reads
      BY DEF Session, ChallengePassed, ChallengeFailed, MuxEnds, HandlerEnds, threadVars
    <2>5. \A w \in Workers : Take(w) \/ EventStream(w) \/ CloseConnections(w) \/ Exit(w)
             => UNCHANGED reads
      BY DEF Take, EventStream, CloseConnections, Exit, threadVars
    <2> QED
      BY <2>1, <2>2, <2>3, <2>4, <2>5 DEF Next, Dispatch, vars, threadVars
  <1> QED
    BY <1>2, <1>3, <1>4, <1>5

\* The connection of a scan stays with the thread, which does nothing else.
LEMMA ScanStep ==
    ASSUME TypeOK, ThreadInv, OneOwner, [Next]_vars
    PROVE  ScanIsOfThread'
  <1> SUFFICES ASSUME scan' # NoScan
               PROVE  loop' = "events" /\ at'[scan'.conn] = "polled"
    BY DEF ScanIsOfThread, NoScan
  <1>1. ASSUME NEW c \in Conns, Hello(c)
        PROVE  loop' = "events" /\ at'[scan'.conn] = "polled"
    BY <1>1 DEF Hello, Event, AtWork, placeVars
  <1>2. ASSUME scan # NoScan
        PROVE  /\ loop = "events" /\ at[scan.conn] = "polled"
               /\ scan.conn \in Conns /\ ~AtWork
    BY <1>2, ScanTyped DEF ThreadInv, ScanIsOfThread, AtWork
  <1>3. CASE Ask
    <2>1. scan'.conn = scan.conn /\ UNCHANGED <<loop, at>>
      BY <1>3, ScanTyped DEF Ask, placeVars
    <2> QED
      BY <1>2, <1>3, <2>1 DEF Ask
  <1>4. ASSUME scan # NoScan, UNCHANGED <<scan, loop>>, UNCHANGED at
        PROVE  loop' = "events" /\ at'[scan'.conn] = "polled"
    BY <1>2, <1>4
  <1>5. CASE Poll \/ Cleanup \/ ThreadEnds \/ ThreadDies
    BY <1>2, <1>5 DEF Poll, Cleanup, ThreadEnds, ThreadDies
  <1>6. CASE StopServer \/ Shutdown \/ Joined \/ JoinTimesOut
    BY <1>4, <1>6 DEF StopServer, Shutdown, Joined, JoinTimesOut, threadVars, placeVars
  <1>7. ASSUME NEW c \in Conns, Accept(c) \/ Reject(c) \/ Partial(c) \/ Token(c)
        PROVE  FALSE
    BY <1>2, <1>7 DEF Accept, Reject, Partial, Token, Event, AtWork
  <1>8. ASSUME UNCHANGED threadVars,
               \A c \in Conns : at'[c] = at[c] \/ at[c] \in {"queued", "worker"}
        PROVE  loop' = "events" /\ at'[scan'.conn] = "polled"
    BY <1>2, <1>8 DEF threadVars
  <1>9. ASSUME NEW c \in Visitors, Visit(c) \/ VisitEnds(c)
        PROVE  loop' = "events" /\ at'[scan'.conn] = "polled"
    BY <1>8, <1>9 DEF Visit, VisitEnds, Held, TypeOK
  <1>10. ASSUME NEW c \in Clients, Session(c)
         PROVE  loop' = "events" /\ at'[scan'.conn] = "polled"
    BY <1>8, <1>10 DEF Session, ChallengePassed, ChallengeFailed, MuxEnds, HandlerEnds, Held,
                       TypeOK, placeVars
  <1>11. ASSUME NEW w \in Workers, Take(w)
         PROVE  loop' = "events" /\ at'[scan'.conn] = "polled"
    <2> DEFINE c == Head(inbox[w])
    <2>1. inbox[w] \in Seq(Conns \cup {0}) /\ inbox[w] # <<>>
      BY <1>11 DEF Take, TypeOK
    <2>2. c \in Conns \cup {0} /\ 1 \in DOMAIN inbox[w] /\ inbox[w][1] = c
      BY <2>1, TailEffect
    <2>3. c \in Conns => at[c] = "queued"
      BY <2>2 DEF OneOwner
    <2>4. \A d \in Conns : at'[d] = at[d] \/ d = c
      BY <1>11 DEF Take, NewConnection, TypeOK
    <2> QED
      BY <1>8, <1>11, <2>3, <2>4 DEF Take
  <1>12. ASSUME NEW w \in Workers, EventStream(w) \/ CloseConnections(w) \/ Exit(w)
         PROVE  loop' = "events" /\ at'[scan'.conn] = "polled"
    BY <1>8, <1>12 DEF EventStream, CloseConnections, Exit, TypeOK, placeVars
  <1>13. CASE UNCHANGED vars
    BY <1>8, <1>13 DEF vars, placeVars
  <1> QED
    BY <1>1, <1>3, <1>5, <1>6, <1>7, <1>9, <1>10, <1>11, <1>12, <1>13 DEF Next, Dispatch, Stop

\* A connection that left the thread has a worker.
LEMMA PlaceStep ==
    ASSUME TypeOK, ThreadInv, OneOwner, [Next]_vars
    PROVE  HasWorker'
  <1> SUFFICES ASSUME NEW d \in Conns, at'[d] \in {"queued", "worker"}
               PROVE  where'[d] \in Workers
    BY DEF HasWorker
  <1>0. at[d] \in {"queued", "worker"} => where[d] \in Workers
    BY DEF ThreadInv, HasWorker
  <1>1. CASE Keeps
    BY <1>0, <1>1 DEF Keeps
  <1>2. ASSUME NEW c \in Conns, NEW w \in Workers, HandsOver(c, w)
        PROVE  where'[d] \in Workers
    BY <1>0, <1>2 DEF HandsOver, HandOver, TypeOK
  <1>3. CASE Shutdown
    BY <1>0, <1>3 DEF Shutdown, placeVars
  <1>4. ASSUME NEW w \in Workers, Take(w)
        PROVE  where'[d] \in Workers
    <2> DEFINE c == Head(inbox[w])
    <2>1. inbox[w] \in Seq(Conns \cup {0}) /\ inbox[w] # <<>>
      BY <1>4 DEF Take, TypeOK
    <2>2. c \in Conns \cup {0} /\ 1 \in DOMAIN inbox[w] /\ inbox[w][1] = c
      BY <2>1, TailEffect
    <2>3. c \in Conns => at[c] = "queued"
      BY <2>2 DEF OneOwner
    <2>4. (at'[d] = at[d] \/ d = c) /\ UNCHANGED where
      BY <1>4 DEF Take, NewConnection, TypeOK
    <2> QED
      BY <1>0, <2>3, <2>4
  <1> QED
    BY <1>1, <1>2, <1>3, <1>4, StepShapes

-----------------------------------------------------------------------------
(***************************************************************************)
(* stop() and the end of the workers                                       *)
(***************************************************************************)
\* What stop() and the thread may change of the order of the shutdown.
LEMMA StopVarsStep ==
    ASSUME TypeOK, [Next]_vars
    PROVE  \/ UNCHANGED <<closing, stopping>> /\ (loop = "done" => loop' = "done")
           \/ StopServer \/ Shutdown \/ Joined \/ JoinTimesOut
  <1>1. CASE Poll \/ Cleanup \/ ThreadEnds \/ ThreadDies
    BY <1>1 DEF Poll, Cleanup, ThreadEnds, ThreadDies, AtWork, stopVars
  <1>2. CASE Ask
    BY <1>2 DEF Ask, stopVars, TypeOK
  <1>3. ASSUME NEW c \in Conns, Dispatch(c)
        PROVE  UNCHANGED <<closing, stopping, loop>> /\ loop = "events"
    BY <1>3 DEF Dispatch, Accept, Reject, Partial, Token, Hello, Event, AtWork, stopVars
  <1>4. ASSUME NEW c \in Visitors, Visit(c) \/ VisitEnds(c)
        PROVE  UNCHANGED <<closing, stopping, loop>>
    BY <1>4 DEF Visit, VisitEnds, stopVars, threadVars
  <1>5. ASSUME NEW c \in Clients, Session(c)
        PROVE  UNCHANGED <<closing, stopping, loop>>
    BY <1>5 DEF Session, ChallengePassed, ChallengeFailed, MuxEnds, HandlerEnds, stopVars,
                threadVars
  <1>6. ASSUME NEW w \in Workers, Take(w) \/ EventStream(w) \/ CloseConnections(w) \/ Exit(w)
        PROVE  UNCHANGED <<closing, stopping, loop>>
    BY <1>6 DEF Take, EventStream, CloseConnections, Exit, stopVars, threadVars
  <1>7. ASSUME UNCHANGED <<closing, stopping, loop>>
        PROVE  UNCHANGED <<closing, stopping>> /\ (loop = "done" => loop' = "done")
    BY <1>7
  <1>8. CASE UNCHANGED vars
    BY <1>7, <1>8 DEF vars, stopVars, threadVars
  <1> QED
    BY <1>1, <1>2, <1>3, <1>4, <1>5, <1>6, <1>7, <1>8 DEF Next, Stop

\* A worker that has been told to stop is not asked to go on.
LEMMA ToldStays ==
    ASSUME TypeOK, StopInOrder, [Next]_vars, NEW w \in Workers, ~Told(w)'
    PROVE  ~Told(w)
  <1>0. w \in Int /\ closing \in Int
    BY DispatchAssumption DEF TypeOK, Workers
  <1>1. CASE UNCHANGED <<closing, stopping>>
    BY <1>1 DEF Told
  <1>2. CASE StopServer \/ Shutdown
    BY <1>2 DEF StopServer, Shutdown, Told
  <1>3. CASE Joined
    BY <1>0, <1>3 DEF Joined, Told
  <1>4. CASE JoinTimesOut
    BY <1>4 DEF JoinTimesOut, Told
  <1> QED
    BY <1>1, <1>2, <1>3, <1>4, StopVarsStep

\* The queues are as the order of the shutdown has it.
LEMMA StopStep ==
    ASSUME TypeOK, ThreadInv, StopInv, [Next]_vars
    PROVE  StopInv'
  <1> USE DEF StopInv
  <1>0. N \in Nat \ {0} /\ 1 \in Workers /\ 0 \notin Conns
    BY DispatchAssumption DEF Workers
  <1>1. loop' # "done" => closing' = 1 /\ stopping' \in {"no", "put"}
    BY StopVarsStep DEF StopServer, Shutdown, Joined, JoinTimesOut, StopInOrder, threadVars
  <1>2. stopping' = "join" => closing' \in Workers
    BY StopVarsStep DEF StopServer, Shutdown, Joined, JoinTimesOut, StopInOrder
  <1>3. ASSUME Keeps
        PROVE  /\ \A w \in Workers : ~Told(w)' =>
                     up'[w] = "up" /\ \A i \in DOMAIN inbox'[w] : inbox'[w][i] # 0
               /\ NothingAfterNone'
    <2>1. \A w \in Workers : ~Told(w)' =>
             up'[w] = "up" /\ \A i \in DOMAIN inbox'[w] : inbox'[w][i] # 0
      BY <1>3, ToldStays DEF Keeps, StopInOrder
    <2>2. NothingAfterNone'
      BY <1>3 DEF Keeps, NothingAfterNone
    <2> QED BY <2>1, <2>2
  <1>4. ASSUME NEW c \in Conns, NEW v \in Workers, HandsOver(c, v)
        PROVE  /\ \A w \in Workers : ~Told(w)' =>
                     up'[w] = "up" /\ \A i \in DOMAIN inbox'[w] : inbox'[w][i] # 0
               /\ NothingAfterNone'
    <2>1. /\ inbox[v] \in Seq(Conns \cup {0}) /\ inbox'[v] = Append(inbox[v], c)
          /\ \A w \in Workers : w # v => inbox'[w] = inbox[w]
          /\ UNCHANGED up /\ loop = "events"
      BY <1>4 DEF HandsOver, HandOver, TypeOK
    <2>2. \A w \in Workers : ~Told(w)
      BY <2>1 DEF StopInOrder, Told, Workers
    <2>3. \A w \in Workers : up[w] = "up" /\ \A i \in DOMAIN inbox[w] : inbox[w][i] # 0
      BY <2>2 DEF StopInOrder
    <2>4. \A i \in DOMAIN inbox'[v] : inbox'[v][i] # 0
      <3>1. /\ DOMAIN inbox'[v] = 1 .. Len(inbox[v]) + 1
            /\ DOMAIN inbox[v] = 1 .. Len(inbox[v])
            /\ inbox'[v][Len(inbox[v]) + 1] = c
            /\ \A i \in DOMAIN inbox[v] : inbox'[v][i] = inbox[v][i]
            /\ Len(inbox[v]) \in Nat
        BY <2>1, AppendEffect
      <3>2. ASSUME NEW i \in 1 .. Len(inbox[v]) + 1
            PROVE  inbox'[v][i] # 0
        <4>1. CASE i = Len(inbox[v]) + 1
          BY <1>0, <3>1, <4>1
        <4>2. CASE i # Len(inbox[v]) + 1
          BY <2>3, <3>1, <4>2
        <4> QED BY <4>1, <4>2
      <3> QED BY <3>1, <3>2
    <2>5. \A w \in Workers : up'[w] = "up" /\ \A i \in DOMAIN inbox'[w] : inbox'[w][i] # 0
      BY <2>1, <2>3, <2>4
    <2> QED
      BY <2>5 DEF NothingAfterNone
  <1>5. ASSUME Shutdown
        PROVE  /\ \A w \in Workers : ~Told(w)' =>
                     up'[w] = "up" /\ \A i \in DOMAIN inbox'[w] : inbox'[w][i] # 0
               /\ NothingAfterNone'
    <2>0. PICK v \in Workers : v = closing
      BY <1>5 DEF Shutdown
    <2>1. /\ inbox[v] \in Seq(Conns \cup {0})
          /\ inbox'[v] = Append(inbox[v], 0)
          /\ \A w \in Workers : w # v => inbox'[w] = inbox[w]
          /\ UNCHANGED up /\ ~Told(v) /\ Told(v)'
      BY <1>5, <2>0 DEF Shutdown, TypeOK, Told, Workers
    <2>2. up[v] = "up" /\ \A i \in DOMAIN inbox[v] : inbox[v][i] # 0
      BY <2>1 DEF StopInOrder
    <2>3. ASSUME NEW w \in Workers, ~Told(w)'
          PROVE  up'[w] = "up" /\ \A i \in DOMAIN inbox'[w] : inbox'[w][i] # 0
      <3>1. w # v /\ ~Told(w)
        BY <2>1, <2>3, ToldStays
      <3> QED
        BY <2>1, <3>1 DEF StopInOrder
    <2>4. ASSUME NEW i \in DOMAIN inbox'[v], inbox'[v][i] = 0
          PROVE  i = Len(inbox'[v])
      BY <2>1, <2>2, <2>4, AppendEffect
    <2>5. ASSUME NEW w \in Workers
          PROVE  /\ \A i \in DOMAIN inbox'[w] : inbox'[w][i] = 0 => i = Len(inbox'[w])
                 /\ up'[w] # "up" => inbox'[w] = <<>>
      <3>1. CASE w = v
        BY <2>1, <2>2, <2>4, <3>1
      <3>2. CASE w # v
        BY <2>1, <3>2 DEF NothingAfterNone
      <3> QED BY <3>1, <3>2
    <2> QED
      BY <2>3, <2>5 DEF NothingAfterNone
  <1>6. ASSUME NEW v \in Workers, Take(v)
        PROVE  /\ \A w \in Workers : ~Told(w)' =>
                     up'[w] = "up" /\ \A i \in DOMAIN inbox'[w] : inbox'[w][i] # 0
               /\ NothingAfterNone'
    <2> DEFINE c == Head(inbox[v])
    <2>1. /\ inbox[v] \in Seq(Conns \cup {0}) /\ inbox[v] # <<>> /\ up[v] = "up"
          /\ inbox'[v] = Tail(inbox[v])
          /\ \A w \in Workers : w # v => inbox'[w] = inbox[w] /\ up'[w] = up[w]
          /\ c # 0 => up' = up
      BY <1>6 DEF Take, TypeOK
    <2>2. /\ DOMAIN inbox'[v] = 1 .. Len(inbox[v]) - 1
          /\ DOMAIN inbox[v] = 1 .. Len(inbox[v]) /\ Len(inbox[v]) \in Nat
          /\ Len(inbox'[v]) = Len(inbox[v]) - 1
          /\ c = inbox[v][1] /\ 1 \in DOMAIN inbox[v]
          /\ \A i \in DOMAIN inbox'[v] : inbox'[v][i] = inbox[v][i + 1] /\ i + 1 \in DOMAIN inbox[v]
          /\ inbox'[v] \in Seq(Conns \cup {0})
      BY <2>1, TailEffect
    <2> HIDE DEF c
    <2>3. ASSUME NEW w \in Workers, ~Told(w)'
          PROVE  up'[w] = "up" /\ \A i \in DOMAIN inbox'[w] : inbox'[w][i] # 0
      <3>1. up[w] = "up" /\ \A i \in DOMAIN inbox[w] : inbox[w][i] # 0
        BY <2>3, ToldStays DEF StopInOrder
      <3>2. CASE w # v
        BY <2>1, <3>1, <3>2
      <3>3. CASE w = v
        BY <2>1, <2>2, <3>1, <3>3
      <3> QED BY <3>2, <3>3
    <2>4. \A i \in DOMAIN inbox'[v] : inbox'[v][i] = 0 => i = Len(inbox'[v])
      BY <2>2 DEF NothingAfterNone
    <2>5. ASSUME up'[v] # "up"
          PROVE  inbox'[v] = <<>>
      <3>1. c = 0
        BY <2>1, <2>5
      <3>2. Len(inbox[v]) = 1
        BY <2>2, <3>1 DEF NothingAfterNone
      <3>3. Len(inbox'[v]) = 0
        BY <2>2, <3>2
      <3> QED
        BY <2>2, <3>3
    <2>6. ASSUME NEW w \in Workers, w # v
          PROVE  /\ \A i \in DOMAIN inbox'[w] : inbox'[w][i] = 0 => i = Len(inbox'[w])
                 /\ up'[w] # "up" => inbox'[w] = <<>>
      BY <2>1, <2>6 DEF NothingAfterNone
    <2> QED
      BY <2>3, <2>4, <2>5, <2>6 DEF NothingAfterNone
  <1>7. /\ \A w \in Workers : ~Told(w)' =>
              up'[w] = "up" /\ \A i \in DOMAIN inbox'[w] : inbox'[w][i] # 0
        /\ NothingAfterNone'
    BY <1>3, <1>4, <1>5, <1>6, StepShapes
  <1> QED
    BY <1>1, <1>2, <1>7 DEF StopInOrder

-----------------------------------------------------------------------------
(***************************************************************************)
(* Claims, sessions and directories                                        *)
(***************************************************************************)
\* Every step keeps the types.
LEMMA TypeStep ==
    ASSUME TypeOK, ThreadInv, StopInOrder, [Next]_vars
    PROVE  TypeOK'
  <1>1. CASE UNCHANGED vars
    BY <1>1 DEF TypeOK, vars, threadVars, stopVars, placeVars, sessionVars, claimVars
  <1> QED
    BY <1>1, TypeDispatch, TypeAsk, TypeThread, TypeSession, TypeVisit, TypeWorker DEF Next

\* What is known of the scan changes when it starts, when a worker is asked and
\* when a worker follows an event.
LEMMA ClaimVarsStep ==
    ASSUME [Next]_vars
    PROVE  \/ UNCHANGED <<scan, sync, steady>>
           \/ Ask
           \/ \E c \in Conns : Hello(c)
           \/ \E w \in Workers : EventStream(w)
  <1>1. CASE Poll \/ Cleanup \/ Stop
    BY <1>1 DEF Poll, Cleanup, Stop, StopServer, ThreadEnds, ThreadDies,
                Shutdown, Joined, JoinTimesOut,
                threadVars, claimVars
  <1>2. ASSUME NEW c \in Conns, Accept(c) \/ Reject(c) \/ Partial(c) \/ Token(c)
        PROVE  UNCHANGED <<scan, sync, steady>>
    BY <1>2 DEF Accept, Reject, Partial, Token, claimVars
  <1>3. ASSUME NEW c \in Visitors, Visit(c) \/ VisitEnds(c)
        PROVE  UNCHANGED <<scan, sync, steady>>
    BY <1>3 DEF Visit, VisitEnds, threadVars, claimVars
  <1>4. ASSUME NEW c \in Clients, Session(c)
        PROVE  UNCHANGED <<scan, sync, steady>>
    BY <1>4 DEF Session, ChallengePassed, ChallengeFailed, MuxEnds, HandlerEnds, threadVars,
                claimVars
  <1>5. ASSUME NEW w \in Workers, Take(w) \/ CloseConnections(w) \/ Exit(w)
        PROVE  UNCHANGED <<scan, sync, steady>>
    BY <1>5 DEF Take, CloseConnections, Exit, threadVars, claimVars
  <1>6. CASE UNCHANGED vars
    BY <1>6 DEF vars, threadVars, claimVars
  <1> QED
    BY <1>1, <1>2, <1>3, <1>4, <1>5, <1>6 DEF Next, Dispatch

\* A worker that claims the host all along is ahead of the scan.
LEMMA SteadyStep ==
    ASSUME TypeOK, TypeOK', SteadyAhead, [Next]_vars
    PROVE  SteadyAhead'
  <1> SUFFICES ASSUME scan' # NoScan, NEW w \in Workers, w \in steady'
               PROVE  w >= scan'.next /\ Host[scan'.conn] \in sync'[w]
    BY DEF SteadyAhead, Claims, NoScan, TypeOK
  <1>0. w \in Int /\ N \in Int
    BY DispatchAssumption DEF Workers
  <1>1. CASE UNCHANGED <<scan, sync, steady>>
    BY <1>1 DEF SteadyAhead, Claims
  <1>2. CASE Ask
    <2>1. /\ scan \in [conn : Visitors, next : Workers] /\ scan # NoScan
          /\ scan.next \in Int
      BY <1>2, ScanTyped, DispatchAssumption DEF Ask, Workers
    <2>2. /\ ~Claims(scan.next, Host[scan.conn])
          /\ scan' = [scan EXCEPT !.next = scan.next + 1]
          /\ UNCHANGED <<sync, steady>>
      BY <1>2 DEF Ask, claimVars
    <2>3. scan'.next = scan.next + 1 /\ scan'.conn = scan.conn
      BY <2>1, <2>2
    <2>4. w >= scan.next /\ Claims(w, Host[scan.conn])
      BY <2>1, <2>2 DEF SteadyAhead
    <2>5. w # scan.next
      BY <2>2, <2>4
    <2> QED
      BY <1>0, <2>1, <2>2, <2>3, <2>4, <2>5 DEF Claims
  <1>3. ASSUME NEW c \in Conns, Hello(c)
        PROVE  w >= scan'.next /\ Host[scan'.conn] \in sync'[w]
    <2>1. scan'.next = 1 /\ scan'.conn = c
      BY <1>3 DEF Hello
    <2>2. Claims(w, Host[c]) /\ UNCHANGED sync
      BY <1>3 DEF Hello
    <2> QED
      BY <2>1, <2>2 DEF Claims, Workers
  <1>4. ASSUME NEW v \in Workers, EventStream(v)
        PROVE  w >= scan'.next /\ Host[scan'.conn] \in sync'[w]
    <2> DEFINE h == Host[Head(events[v])[1]]
    <2>1. UNCHANGED scan /\ scan # NoScan /\ w \in steady
      BY <1>4 DEF EventStream, threadVars
    <2>2. w >= scan.next /\ Host[scan.conn] \in sync[w]
      BY <2>1 DEF SteadyAhead, Claims
    <2>3. CASE sync' = [sync EXCEPT ![v] = sync[v] \cup {h}]
      <3>1. sync'[w] = sync[w] \/ sync'[w] = sync[w] \cup {h}
        BY <2>3 DEF TypeOK
      <3> QED BY <2>1, <2>2, <3>1
    <2>4. CASE /\ sync' = [sync EXCEPT ![v] = sync[v] \ {h}]
               /\ steady' = IF scan # NoScan /\ Host[scan.conn] = h THEN steady \ {v} ELSE steady
      <3>1. CASE w = v
        <4>1. Host[scan.conn] # h
          BY <2>1, <2>4, <3>1
        <4>2. sync'[w] = sync[v] \ {h}
          BY <2>4, <3>1 DEF TypeOK
        <4> QED BY <2>1, <2>2, <3>1, <4>1, <4>2
      <3>2. CASE w # v
        <4>1. sync'[w] = sync[w]
          BY <2>4, <3>2 DEF TypeOK
        <4> QED BY <2>1, <2>2, <4>1
      <3> QED BY <3>1, <3>2
    <2> QED
      BY <1>4, <2>3, <2>4 DEF EventStream
  <1> QED
    BY <1>1, <1>2, <1>3, <1>4, ClaimVarsStep

\* Sessions change in the steps of the workers.
LEMMA SessionVarsStep ==
    ASSUME [Next]_vars
    PROVE  \/ UNCHANGED sessionVars
           \/ \E c \in Clients : Session(c)
           \/ \E w \in Workers : Take(w) \/ EventStream(w) \/ CloseConnections(w)
  <1>1. CASE Poll \/ Cleanup \/ Stop \/ Ask
    BY <1>1 DEF Poll, Cleanup, Stop, StopServer, ThreadEnds, ThreadDies,
                Shutdown, Joined, JoinTimesOut, Ask
  <1>2. ASSUME NEW c \in Conns, Dispatch(c)
        PROVE  UNCHANGED sessionVars
    BY <1>2 DEF Dispatch, Accept, Reject, Partial, Token, Hello, Event
  <1>3. ASSUME NEW c \in Visitors, Visit(c) \/ VisitEnds(c)
        PROVE  UNCHANGED sessionVars
    BY <1>3 DEF Visit, VisitEnds
  <1>4. ASSUME NEW w \in Workers, Exit(w)
        PROVE  UNCHANGED sessionVars
    BY <1>4 DEF Exit
  <1>5. CASE UNCHANGED vars
    BY <1>5 DEF vars
  <1> QED
    BY <1>1, <1>2, <1>3, <1>4, <1>5 DEF Next

\* A client is no session before a worker takes it.
LEMMA FreshStep ==
    ASSUME TypeOK, ThreadInv, OneOwner, FreshClient, PeersOfWorker, [Next]_vars
    PROVE  FreshClient'
  <1> SUFFICES ASSUME NEW d \in Clients, at'[d] \in {"new", "polled", "queued"}
               PROVE  phase'[d] = "new" /\ mux'[d] = "none"
    BY DEF FreshClient
  <1>0. d \in Conns /\ None \notin Clients
    BY DispatchAssumption DEF Conns
  <1>1. ASSUME NEW w \in Workers, Take(w)
        PROVE  phase'[d] = "new" /\ mux'[d] = "none"
    <2> DEFINE c == Head(inbox[w])
    <2>1. inbox[w] \in Seq(Conns \cup {0}) /\ inbox[w] # <<>>
      BY <1>1 DEF Take, TypeOK
    <2>2. c \in Conns \cup {0}
      BY <2>1, TailEffect
    <2> HIDE DEF c
    <2>3. \/ UNCHANGED <<at, phase>>
          \/ c # 0 /\ NewConnection(c)
      BY <1>1 DEF Take, c
    <2>4. d # c \/ UNCHANGED <<at, phase>>
      BY <1>0, <2>2, <2>3 DEF NewConnection, TypeOK
    <2>5. at'[d] = at[d] /\ phase'[d] = phase[d]
      BY <1>0, <2>2, <2>3, <2>4 DEF NewConnection, TypeOK
    <2> QED
      BY <1>1, <2>5 DEF Take, FreshClient
  <1>2. at[d] \in {"new", "polled", "queued"} \/ \E w \in Workers : Take(w)
    <2>1. CASE Keeps
      BY <1>0, <2>1 DEF Keeps
    <2>2. CASE \E c \in Conns, w \in Workers : HandsOver(c, w)
      BY <1>0, <2>2 DEF HandsOver, HandOver, TypeOK
    <2>3. CASE Shutdown
      BY <2>3 DEF Shutdown, placeVars
    <2> QED BY <2>1, <2>2, <2>3, StepShapes
  <1>3. ASSUME at[d] \in {"new", "polled", "queued"}
        PROVE  /\ phase[d] = "new" /\ mux[d] = "none"
               /\ \A w \in Workers, n \in Names : peers[w][n] # d
    BY <1>0, <1>3 DEF FreshClient, PeersOfWorker
  <1>4. ASSUME UNCHANGED sessionVars, at[d] \in {"new", "polled", "queued"}
        PROVE  phase'[d] = "new" /\ mux'[d] = "none"
    BY <1>3, <1>4 DEF sessionVars
  <1>5. ASSUME NEW c \in Clients, Session(c), at[d] \in {"new", "polled", "queued"}
        PROVE  phase'[d] = "new" /\ mux'[d] = "none"
    <2>1. at[c] = "worker" /\ c # d /\ c \in Conns /\ Host[c] \in Names /\ where[c] \in Workers
      BY <1>5, DispatchAssumption DEF Session, ChallengePassed, ChallengeFailed, MuxEnds, HandlerEnds,
                                      Held, Conns, ThreadInv, HasWorker
    <2>2. peers[where[c]][Host[c]] # d
      BY <1>3, <1>5, <2>1
    <2>3. phase'[d] = phase[d] /\ mux'[d] = mux[d]
      BY <1>5, <2>1, <2>2 DEF Session, ChallengePassed, ChallengeFailed, MuxEnds, HandlerEnds,
                              TypeOK
    <2> QED
      BY <1>3, <1>5, <2>3
  <1>6. ASSUME NEW w \in Workers, EventStream(w) \/ CloseConnections(w),
               at[d] \in {"new", "polled", "queued"}
        PROVE  phase'[d] = "new" /\ mux'[d] = "none"
    BY <1>3, <1>6 DEF EventStream, CloseConnections
  <1> QED
    BY <1>1, <1>2, <1>4, <1>5, <1>6, SessionVarsStep

\* The directory of a worker has sessions of this worker only.
LEMMA PeersStep ==
    ASSUME TypeOK, ThreadInv, OneOwner, FreshClient, PeersOfWorker, [Next]_vars
    PROVE  PeersOfWorker'
  <1> SUFFICES ASSUME NEW v \in Workers, NEW n \in Names, peers'[v][n] # None
               PROVE  where'[peers'[v][n]] = v /\ mux'[peers'[v][n]] # "none"
    BY DEF PeersOfWorker
  <1>0. None \notin Clients /\ Clients \subseteq Conns
    BY DispatchAssumption DEF Conns
  <1>1. ASSUME peers[v][n] # None
        PROVE  /\ peers[v][n] \in Clients
               /\ where[peers[v][n]] = v /\ mux[peers[v][n]] # "none"
               /\ at[peers[v][n]] \notin {"new", "polled", "queued"}
    BY <1>1 DEF PeersOfWorker, FreshClient, TypeOK
  <1>2. ASSUME peers[v][n] # None
        PROVE  where'[peers[v][n]] = where[peers[v][n]]
    <2>1. CASE Keeps
      BY <2>1 DEF Keeps
    <2>2. CASE \E c \in Conns, w \in Workers : HandsOver(c, w)
      BY <1>0, <1>1, <1>2, <2>2 DEF HandsOver, HandOver, TypeOK
    <2>3. CASE Shutdown
      BY <2>3 DEF Shutdown, placeVars
    <2>4. CASE \E w \in Workers : Take(w)
      BY <2>4 DEF Take
    <2> QED BY <2>1, <2>2, <2>3, <2>4, StepShapes
  <1>3. CASE UNCHANGED sessionVars
    BY <1>1, <1>2, <1>3 DEF sessionVars
  <1>4. ASSUME NEW c \in Clients, Session(c)
        PROVE  where'[peers'[v][n]] = v /\ mux'[peers'[v][n]] # "none"
    <2>1. c \in Conns /\ Host[c] \in Names /\ where[c] \in Workers
      BY <1>4, <1>0, DispatchAssumption
         DEF Session, ChallengePassed, ChallengeFailed, MuxEnds, HandlerEnds, Held, ThreadInv,
             HasWorker
    <2>2. CASE ChallengePassed(c)
      <3>1. /\ mux'[c] = "up" /\ UNCHANGED where
            /\ \A r \in Clients : mux[r] # "none" => mux'[r] # "none"
        BY <2>2 DEF ChallengePassed, Stopped, TypeOK, placeVars
      <3>2. peers'[v][n] = IF v = where[c] /\ n = Host[c] THEN c ELSE peers[v][n]
        BY <2>1, <2>2 DEF ChallengePassed, TypeOK
      <3> QED
        BY <1>1, <3>1, <3>2
    <2>3. CASE ChallengeFailed(c) \/ HandlerEnds(c)
      <3>1. UNCHANGED <<mux, where>> /\ RemovePeer(c)
        BY <2>3 DEF ChallengeFailed, HandlerEnds
      <3>2. peers'[v][n] = peers[v][n]
        <4>1. CASE peers' = [peers EXCEPT ![where[c]][Host[c]] = None]
          <5>1. peers'[v][n] = IF v = where[c] /\ n = Host[c] THEN None ELSE peers[v][n]
            BY <2>1, <4>1 DEF TypeOK
          <5> QED BY <5>1
        <4> QED BY <3>1, <4>1 DEF RemovePeer
      <3> QED
        BY <1>1, <3>1, <3>2
    <2>4. CASE MuxEnds(c)
      BY <1>1, <2>4 DEF MuxEnds, TypeOK, placeVars
    <2> QED
      BY <1>4, <2>2, <2>3, <2>4 DEF Session
  <1>5. ASSUME NEW w \in Workers, Take(w) \/ EventStream(w)
        PROVE  where'[peers'[v][n]] = v /\ mux'[peers'[v][n]] # "none"
    BY <1>1, <1>5 DEF Take, EventStream, placeVars
  <1>6. ASSUME NEW w \in Workers, CloseConnections(w)
        PROVE  where'[peers'[v][n]] = v /\ mux'[peers'[v][n]] # "none"
    BY <1>1, <1>6 DEF CloseConnections, Stopped, TypeOK, placeVars
  <1> QED
    BY <1>3, <1>4, <1>5, <1>6, SessionVarsStep

-----------------------------------------------------------------------------
(***************************************************************************)
(* The theorems                                                            *)
(***************************************************************************)
LEMMA InvInit == Init => Inv
  <1> SUFFICES ASSUME Init
               PROVE  Inv
    OBVIOUS
  <1> USE DispatchAssumption DEF Init
  <1>1. TypeOK
    BY DEF TypeOK, Workers, Conns
  <1>2. ThreadInv /\ OneOwner /\ SteadyAhead /\ FreshClient /\ PeersOfWorker
    BY DEF ThreadInv, BufferHasRoom, ScanIsOfThread, HasWorker, OneOwner, SteadyAhead, FreshClient,
           PeersOfWorker, Conns
  <1>3. StopInv
    BY DEF StopInv, StopInOrder, NothingAfterNone, Told, Workers
  <1> QED
    BY <1>1, <1>2, <1>3 DEF Inv

\* The invariant is inductive.
THEOREM InvHolds == Spec => []Inv
  <1>1. Inv /\ [Next]_vars => Inv'
    <2> SUFFICES ASSUME Inv, [Next]_vars
                 PROVE  Inv'
      OBVIOUS
    <2>1. TypeOK'
      BY TypeStep DEF Inv, StopInv
    <2>2. ThreadInv'
      BY RoomStep, ScanStep, PlaceStep DEF Inv, ThreadInv
    <2>3. OneOwner' /\ StopInv' /\ SteadyAhead' /\ FreshClient' /\ PeersOfWorker'
      BY <2>1, OwnerStep, StopStep, SteadyStep, FreshStep, PeersStep DEF Inv
    <2> QED
      BY <2>1, <2>2, <2>3 DEF Inv
  <1> QED
    BY <1>1, InvInit, PTL DEF Spec

\* The state of the server stays of its type: the cycle of workers, the list of
\* workers that are asked and the index of stop() never leave the workers.
THEOREM TypeCorrect == Spec => []TypeOK
  <1>1. Inv => TypeOK
    BY DEF Inv
  <1> QED
    BY <1>1, InvHolds, PTL

\* A socket has one owner.
THEOREM OwnerIsUnique == Spec => []OneOwner
  <1>1. Inv => OneOwner
    BY DEF Inv
  <1> QED
    BY <1>1, InvHolds, PTL

\* The None of shutdown() is the last thing a worker is given, and a worker
\* that has stopped reading leaves no connection behind.
THEOREM NoneIsLast == Spec => []NothingAfterNone
  <1>1. Inv => NothingAfterNone
    BY DEF Inv, StopInv
  <1> QED
    BY <1>1, InvHolds, PTL

\* A visitor whose host some worker claimed throughout the scan is not turned
\* away: only the last answer of a scan closes its connection.
THEOREM SteadyClaim == Spec => SteadyClaimIsServed
  <1>1. ASSUME Inv, [Next]_vars, NEW c \in Visitors,
               scan.conn = c, at[c] # "closed", at'[c] = "closed"
        PROVE  steady = {}
    <2>0. c \in Conns /\ scan # NoScan /\ TypeOK /\ ThreadInv /\ OneOwner /\ SteadyAhead
      BY <1>1, DispatchAssumption DEF Conns, NoScan, Inv
    <2>1. loop = "events" /\ at[c] = "polled" /\ ~AtWork
      BY <1>1, <2>0 DEF ThreadInv, ScanIsOfThread, AtWork
    <2>2. at'[c] # at[c]
      BY <1>1
    <2>3. CASE Ask
      <3>1. scan.next \in Workers /\ N \in Int
        BY <2>0, ScanTyped, DispatchAssumption
      <3>2. ~Claims(scan.next, Host[c]) /\ scan.next = N
        BY <1>1, <2>0, <2>1, <2>3 DEF Ask, HandOver, TypeOK, placeVars
      <3>3. \A w \in steady : w \in Workers /\ w >= N /\ Claims(w, Host[c])
        BY <1>1, <2>0, <3>2 DEF SteadyAhead, TypeOK
      <3>4. \A w \in steady : w = N
        BY <3>1, <3>3 DEF Workers
      <3> QED
        BY <3>2, <3>3, <3>4
    <2>4. ASSUME ~Ask
          PROVE  FALSE
      <3>1. CASE Poll \/ Cleanup \/ Stop
        BY <2>1, <2>2, <3>1 DEF Poll, Cleanup, Stop, StopServer, ThreadEnds, ThreadDies,
                                Shutdown, Joined,
                                JoinTimesOut, placeVars
      <3>2. ASSUME NEW d \in Conns, Dispatch(d)
            PROVE  FALSE
        BY <2>1, <3>2 DEF Dispatch, Accept, Reject, Partial, Token, Hello, Event
      <3>3. ASSUME NEW d \in Visitors, Visit(d) \/ VisitEnds(d)
            PROVE  FALSE
        BY <2>0, <2>1, <2>2, <3>3 DEF Visit, VisitEnds, Held, TypeOK
      <3>4. ASSUME NEW d \in Clients, Session(d)
            PROVE  FALSE
        BY <2>0, <2>1, <2>2, <3>4 DEF Session, ChallengePassed, ChallengeFailed, MuxEnds,
                                      HandlerEnds, Held, TypeOK, placeVars
      <3>5. ASSUME NEW w \in Workers, Take(w)
            PROVE  FALSE
        <4> DEFINE d == Head(inbox[w])
        <4>1. inbox[w] \in Seq(Conns \cup {0}) /\ inbox[w] # <<>>
          BY <2>0, <3>5 DEF Take, TypeOK
        <4>2. d \in Conns \cup {0} /\ 1 \in DOMAIN inbox[w] /\ inbox[w][1] = d
          BY <4>1, TailEffect
        <4>3. d \in Conns => at[d] = "queued"
          BY <2>0, <4>2 DEF OneOwner
        <4>4. at'[c] = at[c] \/ c = d
          BY <2>0, <3>5 DEF Take, NewConnection, TypeOK
        <4> QED
          BY <2>0, <2>1, <2>2, <4>3, <4>4
      <3>6. ASSUME NEW w \in Workers, EventStream(w) \/ CloseConnections(w) \/ Exit(w)
            PROVE  FALSE
        BY <2>0, <2>1, <2>2, <3>6 DEF EventStream, CloseConnections, Exit, TypeOK, placeVars
      <3>7. CASE UNCHANGED vars
        BY <2>2, <3>7 DEF vars, placeVars
      <3> QED
        BY <1>1, <2>4, <3>1, <3>2, <3>3, <3>4, <3>5, <3>6, <3>7 DEF Next
    <2> QED
      BY <2>3, <2>4
  <1> DEFINE Turned == \A c \in Visitors :
                 scan.conn = c /\ at[c] # "closed" /\ at'[c] = "closed" => steady = {}
  <1>2. Inv /\ [Next]_vars => [Turned]_vars
    BY <1>1
  <1> QED
    BY <1>2, InvHolds, PTL DEF Spec, SteadyClaimIsServed

-----------------------------------------------------------------------------
(***************************************************************************)
(* Each worker implements PeerManager                                      *)
(***************************************************************************)
\* The directories start empty.
LEMMA DirectoryInit ==
    ASSUME Init, NEW w \in Workers
    PROVE  Directory(w)!Init
  <1>1. [c \in Clients |-> [hostname |-> Host[c], alias |-> {}]]
            \in [Clients -> [hostname : Names, alias : {{}}]]
    BY DispatchAssumption DEF Conns
  <1>2. w # 0
    BY DEF Workers
  <1> QED
    BY <1>1, <1>2 DEF Init, Directory!Init, Conns

\* What the directory of worker w sees of the handler and of the multiplexer of
\* a client.
PhaseAt(w) == [c \in Clients |-> IF where[c] = w THEN phase[c] ELSE "new"]
MuxAt(w) == [c \in Clients |-> IF where[c] = w THEN mux[c] ELSE "none"]

\* A step that changes none of it is no step of the directory.
LEMMA DirectoryKept ==
    ASSUME NEW w \in Workers,
           PhaseAt(w)' = PhaseAt(w), MuxAt(w)' = MuxAt(w),
           peers'[w] = peers[w], events'[w] = events[w], latest'[w] = latest[w],
           sync'[w] = sync[w], peer_count'[w] = peer_count[w]
    PROVE  UNCHANGED Directory(w)!vars
  BY DEF PhaseAt, MuxAt, Directory!vars, Directory!sessionVars, Directory!workerVars

\* Handing a client over leaves the directories alone: it has no session yet.
LEMMA DirectoryThread ==
    ASSUME Inv, NEW w \in Workers,
           UNCHANGED <<sessionVars, sync, peer_count>>,
           UNCHANGED where \/ \E c \in Conns, v \in Workers : HandsOver(c, v)
    PROVE  UNCHANGED Directory(w)!vars
  <1>1. \A c \in Clients : where'[c] = where[c] \/ (phase[c] = "new" /\ mux[c] = "none")
    <2>1. ASSUME NEW d \in Conns, NEW v \in Workers, HandsOver(d, v), NEW c \in Clients
          PROVE  where'[c] = where[c] \/ (phase[c] = "new" /\ mux[c] = "none")
      <3>1. CASE c = d
        BY <2>1, <3>1 DEF HandsOver, Inv, FreshClient
      <3>2. CASE c # d
        BY <2>1, <3>2 DEF HandsOver, HandOver, Inv, TypeOK, Conns
      <3> QED BY <3>1, <3>2
    <2> QED BY <2>1
  <1>2. PhaseAt(w)' = PhaseAt(w) /\ MuxAt(w)' = MuxAt(w)
    BY <1>1 DEF PhaseAt, MuxAt, sessionVars
  <1> QED
    BY <1>2, DirectoryKept DEF sessionVars

\* Taking a client from the queue is create_peer.
LEMMA DirectoryTake ==
    ASSUME Inv, NEW w \in Workers, NEW v \in Workers, Take(v)
    PROVE  Directory(w)!Next \/ UNCHANGED Directory(w)!vars
  <1> DEFINE c == Head(inbox[v])
  <1>1. inbox[v] \in Seq(Conns \cup {0}) /\ inbox[v] # <<>>
    BY DEF Take, Inv, TypeOK
  <1>2. c \in Conns \cup {0} /\ 1 \in DOMAIN inbox[v] /\ inbox[v][1] = c
    BY <1>1, TailEffect
  <1>3. /\ \/ UNCHANGED phase
           \/ c # 0 /\ c \in Clients /\ phase' = [phase EXCEPT ![c] = "challenge"]
        /\ UNCHANGED <<where, mux, peers, events, latest, sync, peer_count>>
    BY DEF Take, NewConnection, claimVars
  <1> HIDE DEF c
  <1>4. CASE UNCHANGED phase \/ v # w
    <2>1. ASSUME NEW d \in Clients, where[d] = w
          PROVE  phase'[d] = phase[d]
      <3>1. c \in Conns => where[c] = v
        BY <1>2 DEF Inv, OneOwner
      <3> QED
        BY <1>2, <1>3, <1>4, <2>1, <3>1 DEF Inv, TypeOK, Conns
    <2>2. PhaseAt(w)' = PhaseAt(w) /\ MuxAt(w)' = MuxAt(w)
      BY <1>3, <2>1 DEF PhaseAt, MuxAt
    <2> QED
      BY <1>3, <2>2, DirectoryKept
  <1>5. CASE v = w /\ c \in Clients /\ phase' = [phase EXCEPT ![c] = "challenge"]
    <2>0. PICK s \in Clients : s = c
      BY <1>5
    <2>1. where[s] = w /\ at[s] = "queued"
      BY <1>2, <1>5, <2>0 DEF Inv, OneOwner, Conns
    <2>2. phase[s] = "new"
      BY <2>1 DEF Inv, FreshClient
    <2>3. /\ PhaseAt(w)[s] = "new"
          /\ PhaseAt(w)' = [PhaseAt(w) EXCEPT ![s] = "challenge"]
          /\ MuxAt(w)' = MuxAt(w)
      BY <1>3, <1>5, <2>0, <2>1, <2>2 DEF PhaseAt, MuxAt, Inv, TypeOK
    <2>4. Directory(w)!CreatePeer(s)
      BY <1>3, <2>3 DEF PhaseAt, MuxAt, Directory!CreatePeer, Directory!workerVars
    <2> QED
      BY <2>4 DEF Directory!Next, Directory!SessionStep
  <1> QED
    BY <1>3, <1>4, <1>5

\* add_peer, remove_peer and the end of a multiplexer, in the directory of the
\* worker that has the client and in no other.
LEMMA DirectorySession ==
    ASSUME Inv, NEW w \in Workers, NEW c \in Clients, Session(c)
    PROVE  Directory(w)!Next \/ UNCHANGED Directory(w)!vars
  <1> DEFINE h == Host[c]
             tok == [d \in Clients |-> [hostname |-> Host[d], alias |-> {}]]
  <1>0. /\ c \in Conns /\ h \in Names /\ where[c] \in Workers /\ TypeOK
        /\ None \notin Clients
    BY DispatchAssumption
       DEF Inv, Session, ChallengePassed, ChallengeFailed, MuxEnds, HandlerEnds, Held, Conns,
           ThreadInv, HasWorker
  <1>1. /\ UNCHANGED <<where, sync, peer_count>>
        /\ \A v \in Workers : v # where[c] =>
              peers'[v] = peers[v] /\ events'[v] = events[v] /\ latest'[v] = latest[v]
    BY <1>0 DEF Session, ChallengePassed, ChallengeFailed, MuxEnds, HandlerEnds, RemovePeer,
                placeVars, claimVars, TypeOK
  <1>2. \A d \in Clients : d = peers[where[c]][h] => where[d] = where[c]
    BY <1>0 DEF Inv, PeersOfWorker
  <1>3. CASE where[c] # w
    <2>1. ASSUME NEW d \in Clients, where[d] = w
          PROVE  phase'[d] = phase[d] /\ mux'[d] = mux[d]
      BY <1>0, <1>2, <1>3, <2>1 DEF Session, ChallengePassed, ChallengeFailed, MuxEnds,
                                    HandlerEnds, TypeOK
    <2>2. PhaseAt(w)' = PhaseAt(w) /\ MuxAt(w)' = MuxAt(w)
      BY <1>1, <2>1 DEF PhaseAt, MuxAt
    <2> QED
      BY <1>1, <1>3, <2>2, DirectoryKept
  <1>4. CASE where[c] = w
    <2>0. /\ PhaseAt(w)[c] = phase[c] /\ MuxAt(w)[c] = mux[c]
          /\ tok[c].hostname = h /\ tok[c].alias = {}
      BY <1>4 DEF PhaseAt, MuxAt
    <2>1. CASE ChallengePassed(c)
      <3>1. /\ phase[c] = "challenge"
            /\ PhaseAt(w)' = [PhaseAt(w) EXCEPT ![c] = "serving"]
        BY <1>0, <1>1, <1>4, <2>1 DEF ChallengePassed, PhaseAt, TypeOK
      <3>2. MuxAt(w)' = [r \in Clients |->
                IF r = c THEN "up"
                ELSE IF r = peers[w][h]
                     THEN IF MuxAt(w)[r] = "up" THEN "stopping" ELSE MuxAt(w)[r]
                     ELSE MuxAt(w)[r]]
        BY <1>0, <1>1, <1>2, <1>4, <2>1 DEF ChallengePassed, Stopped, MuxAt, TypeOK
      <3>3. peers'[w] = [n \in Names |-> IF n \in {h} \cup {} THEN c ELSE peers[w][n]]
        BY <1>0, <1>4, <2>1 DEF ChallengePassed, TypeOK
      <3>4. /\ events'[w] = Append(events[w], <<c, "CONNECTED">>)
            /\ latest'[w] = [latest[w] EXCEPT ![h] = c]
        BY <1>0, <1>4, <2>1 DEF ChallengePassed, TypeOK
      <3>5. /\ Directory(w)!AllHostnames(tok[c]) = {h}
            /\ Directory(w)!PeerAvailable(h) <=>
                  peers[w][h] # None /\ MuxAt(w)[peers[w][h]] \in {"up", "stopping"}
            /\ \A r \in Clients : Directory(w)!Stopped(r) =
                  IF MuxAt(w)[r] = "up" THEN "stopping" ELSE MuxAt(w)[r]
        BY <2>0 DEF MuxAt, Directory!AllHostnames, Directory!PeerAvailable, Directory!IsReady,
                    Directory!Stopped
      <3>6. MuxAt(w)' = [r \in Clients |->
                IF r = c THEN "up"
                ELSE IF Directory(w)!PeerAvailable(h) /\ r = peers[w][h]
                     THEN Directory(w)!Stopped(r) ELSE MuxAt(w)[r]]
        <4>1. \A r \in Clients : r = peers[w][h] /\ ~Directory(w)!PeerAvailable(h)
                 => MuxAt(w)[r] # "up"
          BY <1>0, <3>5
        <4> QED
          BY <3>2, <3>5, <4>1
      <3>7. Directory(w)!AddPeer(c)
        BY <2>0, <3>3, <3>4, <3>5, <3>6 DEF MuxAt, Directory!AddPeer
      <3>8. Directory(w)!ChallengePassed(c)
        BY <1>1, <2>0, <3>1, <3>7
           DEF PhaseAt, Directory!ChallengePassed, Directory!workerVars
      <3> QED
        BY <3>8 DEF Directory!Next, Directory!SessionStep
    <2>2. CASE ChallengeFailed(c) \/ HandlerEnds(c)
      <3>1. /\ PhaseAt(w)' = [PhaseAt(w) EXCEPT ![c] = "done"]
            /\ MuxAt(w)' = MuxAt(w)
            /\ latest'[w] = latest[w]
        BY <1>0, <1>1, <1>4, <2>2 DEF ChallengeFailed, HandlerEnds, PhaseAt, MuxAt, TypeOK
      <3>2. Directory(w)!RemovePeer(c)
        <4>1. Directory(w)!AllHostnames(tok[c]) = {h}
          BY <2>0 DEF Directory!AllHostnames
        <4>2. CASE peers[w][h] = c
          <5>1. peers'[w] = [n \in Names |-> IF n \in {h} THEN None ELSE peers[w][n]]
            <6>1. peers' = [peers EXCEPT ![w][h] = None]
              BY <1>4, <2>2, <4>2 DEF ChallengeFailed, HandlerEnds, RemovePeer
            <6>2. peers'[w] = [peers[w] EXCEPT ![h] = None] /\ DOMAIN peers[w] = Names
              BY <1>0, <6>1 DEF TypeOK
            <6> QED BY <6>2
          <5>2. events'[w] = Append(events[w], <<c, "DISCONNECTED">>)
            BY <1>0, <1>4, <2>2, <4>2 DEF ChallengeFailed, HandlerEnds, RemovePeer, TypeOK
          <5> QED
            BY <2>0, <4>1, <4>2, <5>1, <5>2 DEF Directory!RemovePeer
        <4>3. CASE peers[w][h] # c
          <5>1. peers'[w] = peers[w] /\ events'[w] = events[w]
            BY <1>4, <2>2, <4>3 DEF ChallengeFailed, HandlerEnds, RemovePeer
          <5> QED
            BY <2>0, <4>3, <5>1 DEF Directory!RemovePeer
        <4> QED BY <4>2, <4>3
      <3>3. CASE ChallengeFailed(c)
        <4>1. Directory(w)!ChallengeFailed(c)
          BY <1>1, <2>0, <3>1, <3>2, <3>3
             DEF ChallengeFailed, PhaseAt, MuxAt, Directory!ChallengeFailed, Directory!workerVars
        <4> QED
          BY <4>1 DEF Directory!Next, Directory!SessionStep
      <3>4. CASE HandlerEnds(c)
        <4>1. Directory(w)!HandlerEnds(c)
          BY <1>1, <2>0, <3>1, <3>2, <3>4
             DEF HandlerEnds, IsReady, PhaseAt, MuxAt, Directory!HandlerEnds, Directory!IsReady,
                 Directory!workerVars
        <4> QED
          BY <4>1 DEF Directory!Next, Directory!SessionStep
      <3> QED BY <2>2, <3>3, <3>4
    <2>3. CASE MuxEnds(c)
      <3>1. /\ PhaseAt(w)' = PhaseAt(w)
            /\ MuxAt(w)' = [MuxAt(w) EXCEPT ![c] = "down"]
            /\ UNCHANGED <<peers, events, latest>>
        BY <1>0, <1>1, <1>4, <2>3 DEF MuxEnds, PhaseAt, MuxAt, TypeOK
      <3>2. Directory(w)!MuxEnds(c)
        BY <1>1, <2>0, <2>3, <3>1
           DEF MuxEnds, IsReady, PhaseAt, MuxAt, Directory!MuxEnds, Directory!IsReady,
               Directory!sessionVars, Directory!workerVars
      <3> QED
        BY <3>2 DEF Directory!Next, Directory!SessionStep
    <2> QED
      BY <2>1, <2>2, <2>3 DEF Session
  <1> QED
    BY <1>3, <1>4

\* _event_stream of a worker follows the events of its own directory.
LEMMA DirectoryEvents ==
    ASSUME Inv, NEW w \in Workers, NEW v \in Workers, EventStream(v)
    PROVE  Directory(w)!Next \/ UNCHANGED Directory(w)!vars
  <1> DEFINE E == Clients \X {"CONNECTED", "DISCONNECTED"}
             tok == [d \in Clients |-> [hostname |-> Host[d], alias |-> {}]]
  <1>1. /\ TypeOK /\ UNCHANGED <<where, phase, mux, peers, latest>>
        /\ events[v] \in Seq(E) /\ events[v] # <<>>
        /\ events'[v] = Tail(events[v])
    BY DEF Inv, EventStream, TypeOK, placeVars
  <1>2. PhaseAt(w)' = PhaseAt(w) /\ MuxAt(w)' = MuxAt(w)
    BY <1>1 DEF PhaseAt, MuxAt
  <1>3. CASE v # w
    <2>1. events'[w] = events[w] /\ sync'[w] = sync[w] /\ peer_count'[w] = peer_count[w]
      BY <1>1, <1>3 DEF EventStream, TypeOK
    <2> QED
      BY <1>1, <1>2, <2>1, DirectoryKept
  <1>4. CASE v = w
    <2>1. Head(events[w]) \in E
      <3> HIDE DEF E
      <3> QED BY <1>1, <1>4, TailEffect
    <2>2. PICK c \in Clients : c = Head(events[w])[1]
      BY <2>1
    <2>3. /\ tok[c].hostname = Host[c]
          /\ Directory(w)!AllHostnames(tok[c]) = {Host[c]}
      BY DEF Directory!AllHostnames
    <2>4. \/ /\ Head(events[w])[2] = "CONNECTED"
             /\ peer_count'[w] = IF Host[c] \in sync[w] THEN peer_count[w] ELSE peer_count[w] + 1
             /\ sync'[w] = sync[w] \cup {Host[c]}
          \/ /\ Head(events[w])[2] = "DISCONNECTED"
             /\ peer_count'[w] = IF Host[c] \in sync[w] THEN peer_count[w] - 1 ELSE peer_count[w]
             /\ sync'[w] = sync[w] \ {Host[c]}
      BY <1>1, <1>4, <2>2 DEF EventStream, TypeOK
    <2>5. Directory(w)!EventStream
      BY <1>1, <1>2, <1>4, <2>2, <2>3, <2>4
         DEF PhaseAt, MuxAt, Directory!EventStream, Directory!sessionVars
    <2> QED
      BY <2>5 DEF Directory!Next
  <1> QED
    BY <1>3, <1>4

\* close_connections of a worker shuts down the sessions of its own directory.
LEMMA DirectoryClose ==
    ASSUME Inv, NEW w \in Workers, NEW v \in Workers, CloseConnections(v)
    PROVE  Directory(w)!Next \/ UNCHANGED Directory(w)!vars
  <1>1. /\ TypeOK /\ PeersOfWorker /\ None \notin Clients
        /\ UNCHANGED <<where, phase, peers, events, latest, sync, peer_count>>
    BY DispatchAssumption DEF Inv, CloseConnections, placeVars, claimVars, Conns
  <1>2. PhaseAt(w)' = PhaseAt(w)
    BY <1>1 DEF PhaseAt
  <1>3. \A d \in Clients : mux'[d] = IF \E n \in Names : peers[v][n] = d THEN Stopped(d) ELSE mux[d]
    BY DEF CloseConnections
  <1>4. ASSUME NEW d \in Clients, NEW n \in Names, peers[v][n] = d
        PROVE  where[d] = v
    BY <1>1, <1>4 DEF PeersOfWorker
  <1>5. CASE v # w \/ \A n \in Names : peers[w][n] = None
    <2>1. \A d \in Clients : where[d] = w => mux'[d] = mux[d]
      BY <1>1, <1>3, <1>4, <1>5
    <2>2. MuxAt(w)' = MuxAt(w)
      BY <1>1, <2>1 DEF MuxAt
    <2> QED
      BY <1>1, <1>2, <2>2, DirectoryKept
  <1>6. CASE v = w /\ \E n \in Names : peers[w][n] # None
    <2>1. MuxAt(w)' = [d \in Clients |->
             IF \E n \in Names : peers[w][n] = d
             THEN IF MuxAt(w)[d] = "up" THEN "stopping" ELSE MuxAt(w)[d] ELSE MuxAt(w)[d]]
      BY <1>1, <1>3, <1>4, <1>6 DEF MuxAt, Stopped
    <2>2. \A d \in Clients : Directory(w)!Stopped(d) =
              IF MuxAt(w)[d] = "up" THEN "stopping" ELSE MuxAt(w)[d]
      BY DEF MuxAt, Directory!Stopped
    <2>3. Directory(w)!CloseConnections
      BY <1>1, <1>2, <1>6, <2>1, <2>2
         DEF PhaseAt, MuxAt, Directory!CloseConnections, Directory!sessionVars,
             Directory!workerVars
    <2> QED
      BY <2>3 DEF Directory!Next
  <1> QED
    BY <1>5, <1>6

\* Every step of the server is a step of PeerManager, or none, in each worker.
LEMMA DirectoryStep ==
    ASSUME Inv, [Next]_vars, NEW w \in Workers
    PROVE  Directory(w)!Next \/ UNCHANGED Directory(w)!vars
  <1>1. UNCHANGED peer_count \/ \E v \in Workers : EventStream(v)
    <2>1. CASE Poll \/ Cleanup \/ Stop \/ Ask
      BY <2>1 DEF Poll, Cleanup, Stop, StopServer, ThreadEnds, ThreadDies,
                  Shutdown, Joined, JoinTimesOut,
                  Ask, claimVars
    <2>2. ASSUME NEW c \in Conns, Dispatch(c)
          PROVE  UNCHANGED peer_count
      BY <2>2 DEF Dispatch, Accept, Reject, Partial, Token, Hello, Event, claimVars
    <2>3. ASSUME NEW c \in Visitors, Visit(c) \/ VisitEnds(c)
          PROVE  UNCHANGED peer_count
      BY <2>3 DEF Visit, VisitEnds, claimVars
    <2>4. ASSUME NEW c \in Clients, Session(c)
          PROVE  UNCHANGED peer_count
      BY <2>4 DEF Session, ChallengePassed, ChallengeFailed, MuxEnds, HandlerEnds, claimVars
    <2>5. ASSUME NEW v \in Workers, Take(v) \/ CloseConnections(v) \/ Exit(v)
          PROVE  UNCHANGED peer_count
      BY <2>5 DEF Take, CloseConnections, Exit, claimVars
    <2>6. CASE UNCHANGED vars
      BY <2>6 DEF vars, claimVars
    <2> QED
      BY <2>1, <2>2, <2>3, <2>4, <2>5, <2>6 DEF Next
  <1>2. ASSUME UNCHANGED sessionVars, ~ \E v \in Workers : EventStream(v)
        PROVE  UNCHANGED Directory(w)!vars
    <2>1. UNCHANGED sync
      BY <1>2, ClaimVarsStep DEF Ask, Hello, claimVars
    <2>2. UNCHANGED where \/ \E c \in Conns, v \in Workers : HandsOver(c, v)
      BY StepShapes DEF Inv, Keeps, Shutdown, Take, placeVars
    <2> QED
      BY <1>1, <1>2, <2>1, <2>2, DirectoryThread
  <1> QED
    BY <1>2, SessionVarsStep, DirectorySession, DirectoryTake, DirectoryEvents, DirectoryClose

\* Each worker implements PeerManager: what is proved of a directory there
\* holds of every worker, whatever the thread hands over and while it stops.
THEOREM WorkersImplementPeerManager == Spec => WorkersKeepDirectories
  <1> DEFINE Steps == \A w \in Workers : Directory(w)!Next \/ UNCHANGED Directory(w)!vars
             Starts == \A w \in Workers : Directory(w)!Init
  <1>1. Init => Starts
    BY DirectoryInit
  <1>2. Inv /\ [Next]_vars => [Steps]_vars
    BY DirectoryStep
  <1> QED
    BY <1>1, <1>2, InvHolds, PTL DEF Spec, WorkersKeepDirectories

-----------------------------------------------------------------------------
(***************************************************************************)
(* What stop() leaves                                                      *)
(***************************************************************************)

\* The workers that were joined have exited, a process that has exited holds no
\* connection, and neither does the thread that has ended.
Ended ==
    /\ \A w \in Workers : w < closing => up[w] = "exited"
    /\ \A c \in Conns : at[c] = "worker" => up[where[c]] # "exited"
    /\ loop = "done" => \A c \in Conns : at[c] # "polled"

\* Every worker was joined, so that stop() returns: all of them have exited and
\* no connection that was accepted is open.
StopIsClean ==
    closing \notin Workers => /\ \A w \in Workers : up[w] = "exited"
                              /\ \A c \in Conns : at[c] \in {"new", "closed"}

\* A worker that exits closes what it holds, and one that has exited stays so.
LEMMA ExitsStep ==
    ASSUME TypeOK, [Next]_vars
    PROVE  /\ \A w \in Workers : up[w] = "exited" => up'[w] = "exited"
           /\ UNCHANGED up \/ \E w \in Workers : Take(w) \/ CloseConnections(w) \/ Exit(w)
<1>1. ASSUME NEW w \in Workers, Take(w) \/ CloseConnections(w) \/ Exit(w)
      PROVE  \A v \in Workers : up[v] = "exited" => up'[v] = "exited"
  BY <1>1 DEF Take, CloseConnections, Exit, TypeOK
<1>2. CASE Poll \/ Ask \/ Cleanup \/ Stop
  BY <1>2 DEF Poll, Ask, Cleanup, Stop, StopServer, ThreadEnds, ThreadDies,
              Shutdown, Joined, JoinTimesOut
<1>3. ASSUME NEW c \in Conns, Dispatch(c)
      PROVE  UNCHANGED up
  BY <1>3 DEF Dispatch, Accept, Reject, Partial, Token, Hello, Event
<1>4. ASSUME NEW c \in Visitors, Visit(c) \/ VisitEnds(c)
      PROVE  UNCHANGED up
  BY <1>4 DEF Visit, VisitEnds
<1>5. ASSUME NEW c \in Clients, Session(c)
      PROVE  UNCHANGED up
  BY <1>5 DEF Session, ChallengePassed, ChallengeFailed, MuxEnds, HandlerEnds
<1>6. ASSUME NEW w \in Workers, EventStream(w)
      PROVE  UNCHANGED up
  BY <1>6 DEF EventStream
<1>7. CASE UNCHANGED vars
  BY <1>7 DEF vars
<1> QED BY <1>1, <1>2, <1>3, <1>4, <1>5, <1>6, <1>7 DEF Next

\* A connection comes to the thread only while it handles events, and what it
\* has is closed when it ends.
LEMMA PolledStep ==
    ASSUME TypeOK, ThreadInv, [Next]_vars, NEW c \in Conns, at'[c] = "polled"
    PROVE  /\ at[c] = "polled" \/ loop = "events"
           /\ loop' = "done" => loop = "done"
<1>1. at[c] = "polled" \/ loop = "events"
  <2>1. CASE Keeps
    <3>1. at'[c] = at[c] \/ at[c] = "new" \/ at'[c] = "closed"
      BY <2>1 DEF Keeps
    <3>2. CASE at[c] = "new"
      <4>1. ASSUME NEW d \in Conns, Dispatch(d)
            PROVE  loop = "events"
        BY <4>1 DEF Dispatch, Accept, Reject, Partial, Token, Hello, Event, AtWork
      <4>2. CASE Poll \/ Stop \/ Cleanup
        BY <3>2, <4>2 DEF Poll, Stop, StopServer, ThreadEnds, ThreadDies,
                          Shutdown, Joined, JoinTimesOut,
                          Cleanup, placeVars, TypeOK
      <4>3. CASE Ask
        BY <4>3 DEF Ask, ThreadInv, ScanIsOfThread
      <4>4. ASSUME NEW d \in Visitors, Visit(d) \/ VisitEnds(d)
            PROVE  at'[c] = at[c] \/ at'[c] = "closed"
        BY <4>4 DEF Visit, VisitEnds, TypeOK
      <4>5. ASSUME NEW d \in Clients, Session(d)
            PROVE  at'[c] = at[c] \/ at'[c] = "closed"
        BY <4>5 DEF Session, ChallengePassed, ChallengeFailed, MuxEnds, HandlerEnds, TypeOK,
                    placeVars
      <4>6. ASSUME NEW w \in Workers, EventStream(w) \/ CloseConnections(w) \/ Exit(w)
            PROVE  at'[c] = at[c] \/ at'[c] = "closed"
        BY <4>6 DEF EventStream, CloseConnections, Exit, TypeOK, placeVars
      <4>7. ASSUME NEW w \in Workers, Take(w)
            PROVE  at'[c] = at[c] \/ at'[c] \in {"worker", "closed"}
        BY <4>7 DEF Take, NewConnection, TypeOK
      <4>8. CASE UNCHANGED vars
        BY <4>8 DEF vars, placeVars
      <4> QED BY <3>2, <4>1, <4>2, <4>3, <4>4, <4>5, <4>6, <4>7, <4>8 DEF Next
    <3> QED BY <3>1, <3>2
  <2>2. CASE \E d \in Conns, w \in Workers : HandsOver(d, w)
    BY <2>2 DEF HandsOver
  <2>3. CASE Shutdown
    BY <2>3 DEF Shutdown, placeVars
  <2>4. ASSUME NEW w \in Workers, Take(w)
        PROVE  at[c] = "polled"
    BY <2>4 DEF Take, NewConnection, TypeOK
  <2> QED BY <2>1, <2>2, <2>3, <2>4, StepShapes
<1>2. ASSUME loop' = "done", loop # "done"
      PROVE  FALSE
  <2>1. CASE ThreadEnds \/ ThreadDies
    BY <2>1 DEF ThreadEnds, ThreadDies, TypeOK
  <2>2. CASE Poll \/ Cleanup \/ Ask \/ StopServer \/ Shutdown \/ Joined \/ JoinTimesOut
    BY <1>2, <2>2 DEF Poll, Cleanup, Ask, StopServer, Shutdown, Joined, JoinTimesOut, threadVars
  <2>3. ASSUME NEW d \in Conns, Dispatch(d)
        PROVE  UNCHANGED loop
    BY <2>3 DEF Dispatch, Accept, Reject, Partial, Token, Hello, Event
  <2>4. ASSUME NEW d \in Visitors, Visit(d) \/ VisitEnds(d)
        PROVE  UNCHANGED loop
    BY <2>4 DEF Visit, VisitEnds, threadVars
  <2>5. ASSUME NEW d \in Clients, Session(d)
        PROVE  UNCHANGED loop
    BY <2>5 DEF Session, ChallengePassed, ChallengeFailed, MuxEnds, HandlerEnds, threadVars
  <2>6. ASSUME NEW w \in Workers, Take(w) \/ EventStream(w) \/ CloseConnections(w) \/ Exit(w)
        PROVE  UNCHANGED loop
    BY <2>6 DEF Take, EventStream, CloseConnections, Exit, threadVars
  <2>7. CASE UNCHANGED vars
    BY <1>2, <2>7 DEF vars, threadVars
  <2> QED BY <1>2, <2>1, <2>2, <2>3, <2>4, <2>5, <2>6, <2>7 DEF Next, Stop
<1> QED BY <1>1, <1>2

LEMMA EndedStep ==
    ASSUME Inv, Ended, [Next]_vars
    PROVE  Ended'
<1>0. /\ TypeOK /\ ThreadInv /\ OneOwner /\ StopInOrder /\ HasWorker
      /\ at \in [Conns -> {"new", "polled", "queued", "worker", "closed"}]
      /\ up \in [Workers -> {"up", "stopping", "closing", "exited"}]
  BY DEF Inv, ThreadInv, StopInv, TypeOK
<1>1. ASSUME NEW w \in Workers, w < closing'
      PROVE  up'[w] = "exited"
  <2>1. up[w] = "exited"
    <3>0. w \in Int /\ closing \in Int
      BY <1>0, DispatchAssumption DEF TypeOK, Workers
    <3>1. CASE UNCHANGED closing
      BY <1>1, <3>1 DEF Ended
    <3>2. CASE Joined
      BY <1>1, <3>0, <3>2 DEF Joined, Ended
    <3>3. CASE StopServer \/ Shutdown \/ JoinTimesOut
      BY <3>1, <3>3 DEF StopServer, Shutdown, JoinTimesOut
    <3> QED BY <1>0, <3>1, <3>2, <3>3, StopVarsStep
  <2> QED BY <1>0, <2>1, ExitsStep
<1>2. ASSUME NEW c \in Conns, at'[c] = "worker"
      PROVE  up'[where'[c]] # "exited"
  <2>1. CASE Keeps
    <3>1. at[c] = "worker" /\ where' = where
      BY <1>2, <2>1 DEF Keeps
    <3>2. where[c] \in Workers /\ up[where[c]] # "exited"
      BY <1>0, <3>1 DEF Ended, HasWorker
    <3>3. ASSUME NEW w \in Workers, Exit(w), where[c] = w
          PROVE  FALSE
      BY <1>0, <1>2, <3>1, <3>3 DEF Exit
    <3>4. ASSUME NEW w \in Workers, Exit(w)
          PROVE  up'[where[c]] # "exited"
      BY <1>0, <3>2, <3>3, <3>4 DEF Exit
    <3>5. ASSUME NEW w \in Workers, Take(w) \/ CloseConnections(w)
          PROVE  up'[where[c]] # "exited"
      BY <1>0, <3>2, <3>5 DEF Take, CloseConnections
    <3> QED BY <1>0, <3>1, <3>2, <3>4, <3>5, ExitsStep
  <2>2. ASSUME NEW d \in Conns, NEW w \in Workers, HandsOver(d, w)
        PROVE  up'[where'[c]] # "exited"
    <3>1. /\ at' = [at EXCEPT ![d] = "queued"] /\ where' = [where EXCEPT ![d] = w]
          /\ up' = up
      BY <2>2 DEF HandsOver, HandOver
    <3>2. c # d /\ at[c] = "worker" /\ where'[c] = where[c]
      BY <1>0, <1>2, <3>1 DEF TypeOK
    <3> QED BY <3>1, <3>2 DEF Ended
  <2>3. CASE Shutdown
    BY <1>2, <2>3 DEF Shutdown, placeVars, Ended
  <2>4. ASSUME NEW w \in Workers, Take(w)
        PROVE  up'[where'[c]] # "exited"
    <3>0. /\ inbox[w] \in Seq(Conns \cup {0}) /\ inbox[w] # <<>> /\ up[w] = "up"
          /\ where' = where
      BY <1>0, <2>4 DEF Take, TypeOK
    <3>1. PICK d : d = Head(inbox[w])
      OBVIOUS
    <3>2. 1 \in DOMAIN inbox[w] /\ inbox[w][1] = d
      BY <3>0, <3>1, TailEffect
    <3>3. CASE d = 0
      <4>1. at' = at /\ up' = [up EXCEPT ![w] = "stopping"]
        BY <2>4, <3>1, <3>3 DEF Take
      <4>2. up[where[c]] # "exited" /\ where[c] \in Workers
        BY <1>0, <1>2, <4>1 DEF Ended, HasWorker
      <4> QED BY <1>0, <3>0, <4>1, <4>2
    <3>4. CASE d # 0
      <4>1. NewConnection(d) /\ up' = up
        BY <2>4, <3>1, <3>4 DEF Take
      <4>2. CASE c = d
        BY <1>0, <1>2, <3>0, <3>2, <4>1, <4>2 DEF OneOwner
      <4>3. CASE c # d
        <5>1. at'[c] = at[c]
          BY <1>0, <4>1, <4>3 DEF NewConnection
        <5> QED BY <1>2, <3>0, <4>1, <5>1 DEF Ended
      <4> QED BY <4>2, <4>3
    <3> QED BY <3>3, <3>4
  <2> QED BY <1>0, <2>1, <2>2, <2>3, <2>4, StepShapes
<1>3. ASSUME loop' = "done", NEW c \in Conns, at'[c] = "polled"
      PROVE  FALSE
  <2>1. loop = "done" /\ at[c] = "polled"
    BY <1>0, <1>3, PolledStep
  <2> QED BY <2>1 DEF Ended
<1> QED BY <1>1, <1>2, <1>3 DEF Ended

\* A stop() that returns leaves nothing behind: when every worker was joined,
\* all processes have exited and every connection that was accepted, whether
\* with the thread, in a queue or with a worker, has been closed; for any number
\* of workers, connections and names (run.py:393-409, 420-466,
\* worker.py:200-221).
THEOREM StopIsCleanHolds == Spec => []StopIsClean
<1>1. Init => Ended
  BY DispatchAssumption DEF Init, Ended, Workers
<1>2. Inv /\ Ended /\ [Next]_vars => Ended'
  BY EndedStep
<1>3. Inv /\ Ended => StopIsClean
  <2> SUFFICES ASSUME Inv, Ended, closing \notin Workers
               PROVE  /\ \A w \in Workers : up[w] = "exited"
                      /\ \A c \in Conns : at[c] \in {"new", "closed"}
    BY DEF StopIsClean
  <2>1. \A w \in Workers : up[w] = "exited"
    <3>1. \A w \in Workers : w < closing
      BY DispatchAssumption DEF Inv, TypeOK, Workers
    <3> QED BY <3>1 DEF Ended
  <2>2. loop = "done"
    BY DispatchAssumption DEF Inv, StopInv, StopInOrder, Workers
  <2>3. ASSUME NEW c \in Conns
        PROVE  at[c] \in {"new", "closed"}
    <3>1. at[c] \in {"new", "polled", "queued", "worker", "closed"}
      BY DEF Inv, TypeOK
    <3>2. at[c] # "polled"
      BY <2>2 DEF Ended
    <3>3. at[c] \in {"queued", "worker"} => where[c] \in Workers
      BY DEF Inv, ThreadInv, HasWorker
    <3>4. at[c] # "worker"
      BY <2>1, <3>3 DEF Ended
    <3>5. at[c] # "queued"
      <4> SUFFICES ASSUME at[c] = "queued" PROVE FALSE
        OBVIOUS
      <4>1. inbox[where[c]] = <<>>
        BY <2>1, <3>3 DEF Inv, StopInv, NothingAfterNone
      <4>2. DOMAIN inbox[where[c]] # {}
        BY DEF Inv, OneOwner
      <4> QED BY <4>1, <4>2
    <3> QED BY <3>1, <3>2, <3>4, <3>5
  <2> QED BY <2>1, <2>3
<1> QED BY <1>1, <1>2, <1>3, InvHolds, PTL DEF Spec
=============================================================================
