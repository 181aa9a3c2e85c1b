-------------------------- MODULE ClientPeerProofs --------------------------
(***************************************************************************)
(* Theorems about ClientPeer and the multiplexers it creates, for any      *)
(* number of connections and channels.                                     *)
(***************************************************************************)
EXTENDS ClientPeer, FiniteSetTheorems, TLAPS

-----------------------------------------------------------------------------
(***************************************************************************)
(* The multiplexer                                                         *)
(***************************************************************************)

\* MuxTypeOK, one variable at a time.
MuxTypes ==
    /\ rtask \in [Conns -> {"none", "new", "reading", "cancelled", "done"}]
    /\ wtask \in [Conns -> {"none", "new", "loop", "eof", "done", "dropped"}]
    /\ wcancel \in [Conns -> BOOLEAN] /\ eof \in [Conns -> BOOLEAN]
    /\ closing \in [Conns -> BOOLEAN] /\ healthy \in [Conns -> BOOLEAN]
    /\ timer \in [Conns -> BOOLEAN]
    /\ channels \in [Conns -> SUBSET Ids]
    /\ peer \in [Conns -> {"alive", "silent", "closed"}]

\* They say the same.
LEMMA MuxTypesSplit == MuxTypeOK <=> MuxTypes
  BY DEF MuxTypeOK, MuxTypes

\* shutdown() of any multiplexers keeps the types.
LEMMA ShutdownTypes ==
    ASSUME MuxTypes, NEW ms, Shutdown(ms)
    PROVE  wcancel' \in [Conns -> BOOLEAN] /\ channels' \in [Conns -> SUBSET Ids]
<1>1. \A m \in Conns : wcancel[m] \/ (m \in ms /\ Connected(m)) \in BOOLEAN
  OBVIOUS
<1>2. wcancel' \in [Conns -> BOOLEAN]
  BY <1>1 DEF Shutdown
<1>3. channels' \in [Conns -> SUBSET Ids]
  BY DEF Shutdown, MuxTypes
<1> QED BY <1>2, <1>3

\* Every step of a multiplexer keeps the types.
LEMMA MuxNextTypes ==
    ASSUME MuxTypes, NEW m \in Conns, MuxNext(m) \/ MuxCreate(m) \/ OnTimeout(m)
    PROVE  MuxTypes'
<1> USE DEF MuxTypes
<1>a. ASSUME ReadLoopEnds(m) PROVE MuxTypes'
  BY <1>a DEF ReadLoopEnds
<1>b. ASSUME WriteFinally(m) PROVE MuxTypes'
  BY <1>b DEF WriteFinally
<1>1. CASE MuxCreate(m)
  BY <1>1 DEF MuxCreate
<1>2. CASE OnTimeout(m)
  BY <1>2 DEF OnTimeout
<1>3. CASE TasksStart(m)
  BY <1>3 DEF TasksStart
<1>4. CASE ReadMessage(m)
  BY <1>4 DEF ReadMessage, Reschedule
<1>5. CASE ReadPong(m)
  BY <1>5 DEF ReadPong, Reschedule
<1>6. CASE ReadPing(m)
  BY <1>6, <1>a DEF ReadPing, Reschedule
<1>7. CASE ReadEnds(m) \/ ReadCancelled(m)
  BY <1>7, <1>a DEF ReadEnds, ReadCancelled
<1>8. CASE WriteTurn(m)
  BY <1>8 DEF WriteTurn, Reschedule
<1>9. CASE WriteFails(m) \/ WriteEnds(m)
  BY <1>9, <1>b DEF WriteFails, WriteEnds
<1>10. CASE WriteCancelled(m)
  BY <1>10 DEF WriteCancelled
<1>11. CASE PeerCloses(m)
  BY <1>11 DEF PeerCloses
<1>12. CASE Vanish(m)
  BY <1>12 DEF Vanish
<1> QED
  BY <1>1, <1>2, <1>3, <1>4, <1>5, <1>6, <1>7, <1>8, <1>9, <1>10, <1>11, <1>12
  DEF MuxNext

\* What is left of multiplexer k once its write task has ended.
Closed(k) ==
    wtask[k] = "done" =>
        /\ channels[k] = {}
        /\ ~timer[k]
        /\ closing[k]
        /\ rtask[k] \in {"cancelled", "done"}

\* shutdown() opens nothing.
LEMMA ShutdownKeepsClosed ==
    ASSUME MuxTypes, DoneMeansClosed, NEW ms, Shutdown(ms),
           UNCHANGED <<rtask, wtask, closing, timer>>
    PROVE  DoneMeansClosed'
  BY DEF DoneMeansClosed, MuxTypes, Shutdown

\* No step of a multiplexer leaves anything behind when the write task has
\* ended, and none brings anything back.
LEMMA MuxNextKeepsClosed ==
    ASSUME MuxTypes, DoneMeansClosed,
           NEW m \in Conns, MuxNext(m) \/ MuxCreate(m) \/ OnTimeout(m)
    PROVE  DoneMeansClosed'
<1> SUFFICES ASSUME NEW k \in Conns PROVE Closed(k)'
  BY DEF DoneMeansClosed, Closed
<1>0. Closed(k)
  BY DEF DoneMeansClosed, Closed
<1> USE DEF Closed, MuxTypes
<1>a. ASSUME ReadLoopEnds(m) PROVE Closed(k)'
  BY <1>a, <1>0 DEF ReadLoopEnds
<1>b. ASSUME WriteFinally(m) PROVE Closed(k)'
  BY <1>b, <1>0 DEF WriteFinally
<1>1. CASE MuxCreate(m)
  BY <1>1, <1>0 DEF MuxCreate
<1>2. CASE OnTimeout(m)
  BY <1>2, <1>0 DEF OnTimeout
<1>3. CASE TasksStart(m)
  BY <1>3, <1>0 DEF TasksStart
<1>4. CASE ReadMessage(m)
  BY <1>4, <1>0 DEF ReadMessage, Reschedule, Receives
<1>5. CASE ReadPong(m)
  BY <1>5, <1>0 DEF ReadPong, Reschedule, Receives
<1>6. CASE ReadPing(m)
  BY <1>6, <1>0, <1>a DEF ReadPing, Reschedule, Receives
<1>7. CASE ReadEnds(m) \/ ReadCancelled(m)
  BY <1>7, <1>a DEF ReadEnds, ReadCancelled
<1>8. CASE WriteTurn(m)
  BY <1>8, <1>0 DEF WriteTurn, Reschedule
<1>9. CASE WriteFails(m) \/ WriteEnds(m)
  BY <1>9, <1>b DEF WriteFails, WriteEnds
<1>10. CASE WriteCancelled(m)
  BY <1>10, <1>0 DEF WriteCancelled
<1>11. CASE PeerCloses(m)
  BY <1>11, <1>0 DEF PeerCloses
<1>12. CASE Vanish(m)
  BY <1>12, <1>0 DEF Vanish
<1> QED
  BY <1>1, <1>2, <1>3, <1>4, <1>5, <1>6, <1>7, <1>8, <1>9, <1>10, <1>11, <1>12
  DEF MuxNext

-----------------------------------------------------------------------------
(***************************************************************************)
(* The inductive invariant                                                 *)
(***************************************************************************)

Live == {"new", "waiting", "pinging"}

PeerTypes ==
    /\ current \in Conns \cup {None}
    /\ handler_task \in Conns \cup {None}
    /\ starting \in 0..MaxConns
    /\ hstate \in [Conns -> Live \cup {"none", "done"}]
    /\ hcancel \in [Conns -> BOOLEAN]
    /\ hmux \in [Conns -> Conns \cup {None}]
    /\ stopping \in {Idle} \cup [at : {"waiting", "handler"}, on : Conns]

\* What _handler_task holds is a task that was created.  Supervised needs it:
\* a start() that fails its assertion has found a task that is not done, which
\* must be one that runs.
HandlerKnown == handler_task # None => hstate[handler_task] # "none"

Inv ==
    /\ MuxTypes /\ PeerTypes
    /\ HandlerKnown /\ Supervised
    /\ DoneMeansClosed

\* None is not a connection, and at most MaxConns are unused.
LEMMA ConnsFacts ==
    /\ None \notin Conns
    /\ Cardinality(Unused) \in 0..MaxConns
<1>1. IsFiniteSet(Conns) /\ Cardinality(Conns) = MaxConns
  BY ConnsAssumption, FS_Interval DEF Conns
<1>2. /\ IsFiniteSet(Unused)
      /\ Cardinality(Unused) <= Cardinality(Conns)
  BY <1>1, FS_Subset DEF Unused
<1>3. Cardinality(Unused) \in Nat
  BY <1>2, FS_CardinalityType
<1> QED BY <1>1, <1>2, <1>3, ConnsAssumption DEF Conns, None

\* The invariant says nothing of the variables that a step of the multiplexer
\* changes but their types and DoneMeansClosed.
LEMMA MuxStep ==
    ASSUME Inv, MuxTypes', DoneMeansClosed', UNCHANGED peerVars
    PROVE  Inv'
  BY DEF Inv, peerVars, PeerTypes, HandlerKnown, Supervised

\* Initially there is nothing.
LEMMA InvInit == Init => Inv
<1> SUFFICES ASSUME Init PROVE Inv
  OBVIOUS
<1>1. MuxTypes
  BY DEF Init, MuxInit, MuxTypes
<1>2. PeerTypes
  BY ConnsAssumption DEF Init, PeerTypes
<1>3. HandlerKnown /\ Supervised /\ DoneMeansClosed
  BY DEF Init, MuxInit, HandlerKnown, Supervised, DoneMeansClosed
<1> QED BY <1>1, <1>2, <1>3 DEF Inv

\* A handler that ends leaves no connection to be supervised.
LEMMA HandlerEndsStep ==
    ASSUME Inv, NEW h \in Conns, NEW ms, HandlerEnds(h, ms),
           UNCHANGED <<handler_task, starting, stopping>>,
           hcancel' \in [Conns -> BOOLEAN]
    PROVE  Inv'
<1>1. wcancel' \in [Conns -> BOOLEAN] /\ channels' \in [Conns -> SUBSET Ids]
  BY ShutdownTypes DEF Inv, HandlerEnds
<1>2. MuxTypes'
  BY <1>1 DEF Inv, HandlerEnds, MuxTypes
<1>3. DoneMeansClosed'
  BY ShutdownKeepsClosed DEF Inv, HandlerEnds
<1>4. PeerTypes'
  BY DEF Inv, HandlerEnds, PeerTypes
<1>5. HandlerKnown' /\ Supervised'
  BY ConnsFacts DEF Inv, HandlerEnds, PeerTypes, HandlerKnown, Supervised
<1> QED BY <1>2, <1>3, <1>4, <1>5 DEF Inv

\* The head of the loop of a task that runs: it waits, or it ends.
LEMMA HandlerLoopStep ==
    ASSUME Inv, NEW h \in Conns, HandlerLoop(h),
           UNCHANGED <<handler_task, starting, hcancel, stopping>>
    PROVE  Inv'
<1>1. CASE HandlerEnds(h, {})
  BY <1>1, HandlerEndsStep DEF Inv, PeerTypes
<1>2. CASE /\ hstate' = [hstate EXCEPT ![h] = "waiting"]
           /\ hmux' = [hmux EXCEPT ![h] = current]
           /\ UNCHANGED <<muxVars, current>>
  <2>1. MuxTypes' /\ DoneMeansClosed'
    BY <1>2 DEF Inv, muxVars, MuxTypes, DoneMeansClosed
  <2>2. PeerTypes'
    BY <1>2 DEF Inv, PeerTypes, Live
  <2>3. HandlerKnown'
    BY <1>2 DEF Inv, PeerTypes, HandlerKnown
  <2>4. Supervised'
    BY <1>2 DEF Inv, PeerTypes, Supervised
  <2> QED BY <2>1, <2>2, <2>3, <2>4 DEF Inv
<1> QED BY <1>1, <1>2 DEF HandlerLoop

\* Every step of the handler tasks.
LEMMA HandlerStep ==
    ASSUME Inv, NEW h \in Conns,
           \/ HandlerStart(h) \/ HandlerWakes(h) \/ HandlerPonged(h)
           \/ HandlerCancelled(h) \/ HandlerPings(h) \/ HandlerPingTimeout(h)
    PROVE  Inv'
<1>1. CASE HandlerStart(h) \/ HandlerWakes(h) \/ HandlerPonged(h)
  BY <1>1, HandlerLoopStep DEF HandlerStart, HandlerWakes, HandlerPonged
<1>2. CASE HandlerCancelled(h)
  <2>1. hcancel' \in [Conns -> BOOLEAN]
    BY <1>2 DEF HandlerCancelled, Inv, PeerTypes
  <2> QED BY <1>2, <2>1, HandlerEndsStep DEF HandlerCancelled
<1>3. CASE HandlerPingTimeout(h)
  BY <1>3, HandlerEndsStep DEF HandlerPingTimeout, Inv, PeerTypes
<1>4. CASE HandlerPings(h)
  <2>1. CASE HandlerEnds(h, {})
    BY <1>4, <2>1, HandlerEndsStep DEF HandlerPings, Inv, PeerTypes
  <2>2. CASE PingSent(h)
    <3>1. /\ MuxTypes' /\ DoneMeansClosed'
          /\ UNCHANGED <<current, handler_task, starting, hcancel, hmux, stopping>>
      BY <1>4, <2>2 DEF HandlerPings, PingSent, Inv, MuxTypes, DoneMeansClosed
    <3>2. hstate' = [hstate EXCEPT ![h] = "pinging"]
      BY <2>2 DEF PingSent
    <3>3. PeerTypes' /\ HandlerKnown'
      BY <3>1, <3>2 DEF Inv, PeerTypes, HandlerKnown, Live
    <3>4. Supervised'
      BY <3>1, <3>2 DEF Inv, PeerTypes, Supervised
    <3> QED BY <3>1, <3>3, <3>4 DEF Inv
  <2> QED BY <1>4, <2>1, <2>2 DEF HandlerPings
<1> QED BY <1>1, <1>2, <1>3, <1>4

\* Every step of start().
LEMMA StartStep ==
    ASSUME Inv, Start \/ StartFails \/ \E m \in Conns : StartConnected(m)
    PROVE  Inv'
<1>1. CASE Start
  <2>1. starting' \in 0..MaxConns
    BY <1>1, ConnsFacts, ConnsAssumption DEF Start, Inv, PeerTypes
  <2>2. MuxTypes' /\ DoneMeansClosed'
    BY <1>1 DEF Start, Inv, muxVars, MuxTypes, DoneMeansClosed
  <2> QED BY <1>1, <2>1, <2>2 DEF Start, Inv, PeerTypes, HandlerKnown, Supervised
<1>2. CASE StartFails
  <2>1. starting' \in 0..MaxConns
    BY <1>2, ConnsAssumption DEF StartFails, Inv, PeerTypes
  <2>2. MuxTypes' /\ DoneMeansClosed'
    BY <1>2 DEF StartFails, Inv, muxVars, MuxTypes, DoneMeansClosed
  <2> QED BY <1>2, <2>1, <2>2 DEF StartFails, Inv, PeerTypes, HandlerKnown, Supervised
<1>3. ASSUME NEW m \in Conns, StartConnected(m)
      PROVE  Inv'
  <2>1. MuxTypes' /\ DoneMeansClosed'
    BY <1>3, MuxNextTypes, MuxNextKeepsClosed DEF StartConnected, Inv
  <2>2. starting' \in 0..MaxConns
    BY <1>3, ConnsAssumption DEF StartConnected, Inv, PeerTypes
  <2>3. CASE handler_task' = m /\ hstate' = [hstate EXCEPT ![m] = "new"]
    <3>1. PeerTypes'
      BY <1>3, <2>2, <2>3 DEF StartConnected, Inv, PeerTypes, Live
    <3>2. HandlerKnown' /\ Supervised'
      BY <2>3 DEF Inv, PeerTypes, HandlerKnown, Supervised
    <3> QED BY <2>1, <3>1, <3>2 DEF Inv
  <2>4. CASE ~HandlerDone /\ UNCHANGED <<handler_task, hstate>>
    <3>1. PeerTypes' /\ HandlerKnown'
      BY <1>3, <2>2, <2>4 DEF StartConnected, Inv, PeerTypes, HandlerKnown
    <3>2. handler_task \in Conns /\ hstate[handler_task] \notin {"none", "done"}
      BY <2>4, ConnsFacts DEF HandlerDone, Inv, HandlerKnown
    <3>3. hstate[handler_task] \in Live
      BY <3>2 DEF Inv, PeerTypes
    <3>4. Supervised'
      BY <2>4, <3>2, <3>3 DEF Supervised, Live
    <3> QED BY <2>1, <3>1, <3>4 DEF Inv
  <2> QED BY <1>3, <2>3, <2>4 DEF StartConnected
<1> QED BY <1>1, <1>2, <1>3

\* Every step of stop().
LEMMA StopStep ==
    ASSUME Inv, Stop \/ StopHandler \/ StopEnds
    PROVE  Inv'
<1>1. CASE Stop
  <2>1. wcancel' \in [Conns -> BOOLEAN] /\ channels' \in [Conns -> SUBSET Ids]
    BY <1>1, ShutdownTypes DEF Inv, Stop
  <2>2. MuxTypes'
    BY <1>1, <2>1 DEF Inv, Stop, MuxTypes
  <2>3. DoneMeansClosed'
    BY <1>1, ShutdownKeepsClosed DEF Inv, Stop
  <2>4. stopping' \in [at : {"waiting", "handler"}, on : Conns]
    BY <1>1 DEF Inv, Stop, PeerTypes
  <2>5. PeerTypes' /\ HandlerKnown' /\ Supervised'
    BY <1>1, <2>4 DEF Inv, Stop, PeerTypes, HandlerKnown, Supervised
  <2> QED BY <2>2, <2>3, <2>5 DEF Inv
<1>2. CASE StopHandler
  <2>1. MuxTypes' /\ DoneMeansClosed'
    BY <1>2 DEF StopHandler, Inv, muxVars, MuxTypes, DoneMeansClosed
  <2>2. hcancel' \in [Conns -> BOOLEAN]
    BY <1>2 DEF StopHandler, Inv, PeerTypes
  <2>3. stopping' \in {Idle} \cup [at : {"waiting", "handler"}, on : Conns]
    BY <1>2 DEF StopHandler, Inv, PeerTypes
  <2>4. PeerTypes' /\ HandlerKnown' /\ Supervised'
    BY <1>2, <2>2, <2>3 DEF StopHandler, Inv, PeerTypes, HandlerKnown, Supervised
  <2> QED BY <2>1, <2>4 DEF Inv
<1>3. CASE StopEnds
  <2>1. MuxTypes' /\ DoneMeansClosed'
    BY <1>3 DEF StopEnds, Inv, muxVars, MuxTypes, DoneMeansClosed
  <2>2. PeerTypes' /\ HandlerKnown' /\ Supervised'
    BY <1>3 DEF StopEnds, Inv, PeerTypes, HandlerKnown, Supervised
  <2> QED BY <2>1, <2>2 DEF Inv
<1> QED BY <1>1, <1>2, <1>3

\* Every step keeps the invariant.
LEMMA InvNext == Inv /\ [Next]_vars => Inv'
<1> SUFFICES ASSUME Inv, [Next]_vars PROVE Inv'
  OBVIOUS
<1>1. ASSUME NEW m \in Conns, MuxNext(m) \/ Timeout(m), UNCHANGED peerVars
      PROVE  Inv'
  <2>1. MuxTypes' /\ DoneMeansClosed'
    BY <1>1, MuxNextTypes, MuxNextKeepsClosed DEF Inv, Timeout
  <2> QED BY <1>1, <2>1, MuxStep
<1>2. ASSUME NEW m \in Conns, Timeout(m)
      PROVE  Inv'
  BY <1>1, <1>2 DEF Timeout
<1>3. ASSUME NEW m \in Conns, PingTimer(m)
      PROVE  Inv'
  BY <1>3, HandlerStep DEF PingTimer
<1>4. CASE UNCHANGED vars
  <2>1. MuxTypes' /\ DoneMeansClosed' /\ UNCHANGED peerVars
    BY <1>4 DEF vars, muxVars, Inv, MuxTypes, DoneMeansClosed
  <2> QED BY <2>1, MuxStep
<1> QED
  BY <1>1, <1>2, <1>3, <1>4, HandlerStep, StartStep, StopStep DEF Next

-----------------------------------------------------------------------------
(***************************************************************************)
(* Theorems                                                                *)
(***************************************************************************)

\* The invariant holds of every behaviour.
THEOREM InvHolds == Spec => []Inv
  BY InvInit, InvNext, PTL DEF Spec

\* The state of the client and of its multiplexers has its type
\* (client_peer.py:30-50, core.py:60-135).
THEOREM TypeCorrect == Spec => []TypeOK
<1>1. Inv => TypeOK
  BY MuxTypesSplit DEF Inv, PeerTypes, TypeOK, Live
<1> QED BY <1>1, InvHolds, PTL

\* A connection that the application sees has a handler task that runs, for
\* any number of overlapping calls of start() (client_peer.py:59-181).
THEOREM SupervisedHolds == Spec => []Supervised
<1>1. Inv => Supervised
  BY DEF Inv
<1> QED BY <1>1, InvHolds, PTL

\* Nothing of a connection outlives a write task that has run, whatever the read
\* task, the timer and the peer do meanwhile (core.py:137-245); one that was
\* cancelled before its first step ("dropped") is not meant.
THEOREM DoneMeansClosedHolds == Spec => []DoneMeansClosed
<1>1. Inv => DoneMeansClosed
  BY DEF Inv
<1> QED BY <1>1, InvHolds, PTL
=============================================================================
