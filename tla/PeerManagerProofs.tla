------------------------- MODULE PeerManagerProofs -------------------------
(***************************************************************************)
(* Proofs about PeerManager for any number of connections and clients.     *)
(* The theorems about who is found under a name hold when the names of     *)
(* different tokens do not overlap (DisjointTokens); the run peers_alias   *)
(* shows that they need it.                                                *)
(***************************************************************************)
EXTENDS PeerManager, FiniteSetTheorems, TLAPS

-----------------------------------------------------------------------------
(***************************************************************************)
(* The inductive invariant.  A name leads only to a session that is        *)
(* serving and whose token has the name, and such a session is found under *)
(* each of its names: the directory changes for a session as a whole.      *)
(***************************************************************************)
EntriesAreWhole ==
    \A n \in Names : peers[n] # None =>
        /\ n \in AllHostnames(token[peers[n]])
        /\ \A m \in AllHostnames(token[peers[n]]) : peers[m] = peers[n]

Inv == TypeOK /\ NoStaleEntry /\ EntriesAreWhole /\ LatestIsReachable

-----------------------------------------------------------------------------
\* The names of a session's token are names, its host name is one of them.
LEMMA TokenNames ==
    ASSUME TypeOK, NEW s \in Sessions
    PROVE  /\ token[s] \in Tokens
           /\ token[s].hostname \in Names
           /\ token[s].hostname \in AllHostnames(token[s])
           /\ AllHostnames(token[s]) \subseteq Names
  <1>1. token[s] \in Tokens
    BY DEF TypeOK
  <1>2. token[s] \in [hostname : Names, alias : SUBSET Names]
    BY <1>1, TokensAssumption
  <1>3. token[s].hostname \in Names /\ token[s].alias \in SUBSET Names
    BY <1>2
  <1> QED
    BY <1>1, <1>3 DEF AllHostnames

\* Sessions that share a name have the same names (DisjointTokens).
LEMMA SharedName ==
    ASSUME DisjointTokens, TypeOK, NEW r \in Sessions, NEW s \in Sessions,
           NEW n \in AllHostnames(token[r]), n \in AllHostnames(token[s])
    PROVE  token[r] = token[s]
  <1>1. token[r] \in Tokens /\ token[s] \in Tokens
    BY TokenNames
  <1> QED
    BY <1>1 DEF DisjointTokens

\* add_peer keeps the types of what it assigns.
LEMMA AddPeerType ==
    ASSUME TypeOK, NEW s \in Sessions, AddPeer(s)
    PROVE  /\ mux' \in [Sessions -> {"none", "up", "stopping", "down"}]
           /\ peers' \in [Names -> Sessions \cup {None}]
           /\ events' \in Seq(Sessions \X {"CONNECTED", "DISCONNECTED"})
           /\ latest' \in [Names -> Sessions \cup {None}]
  <1>1. mux' \in [Sessions -> {"none", "up", "stopping", "down"}]
    BY DEF TypeOK, AddPeer, Stopped
  <1>2. peers' \in [Names -> Sessions \cup {None}]
    BY DEF TypeOK, AddPeer
  <1>3. events' \in Seq(Sessions \X {"CONNECTED", "DISCONNECTED"})
    <2>1. <<s, "CONNECTED">> \in Sessions \X {"CONNECTED", "DISCONNECTED"}
      OBVIOUS
    <2> QED
      BY <2>1 DEF TypeOK, AddPeer
  <1>4. latest' \in [Names -> Sessions \cup {None}]
    BY TokenNames DEF TypeOK, AddPeer
  <1> QED
    BY <1>1, <1>2, <1>3, <1>4

\* remove_peer keeps the types of what it assigns.
LEMMA RemovePeerType ==
    ASSUME TypeOK, NEW s \in Sessions, RemovePeer(s)
    PROVE  /\ peers' \in [Names -> Sessions \cup {None}]
           /\ events' \in Seq(Sessions \X {"CONNECTED", "DISCONNECTED"})
  <1>1. peers' \in [Names -> Sessions \cup {None}]
    BY DEF TypeOK, RemovePeer
  <1>2. events' \in Seq(Sessions \X {"CONNECTED", "DISCONNECTED"})
    <2>1. <<s, "DISCONNECTED">> \in Sessions \X {"CONNECTED", "DISCONNECTED"}
      OBVIOUS
    <2>2. events \in Seq(Sessions \X {"CONNECTED", "DISCONNECTED"})
      BY DEF TypeOK
    <2>3. events' = events \/ events' = Append(events, <<s, "DISCONNECTED">>)
      BY DEF RemovePeer
    <2> QED
      BY <2>1, <2>2, <2>3
  <1> QED
    BY <1>1, <1>2

\* Every step keeps the types.
LEMMA TypeStep ==
    ASSUME TypeOK, [Next]_vars
    PROVE  TypeOK'
  <1> SUFFICES ASSUME Next
               PROVE  TypeOK'
    BY DEF TypeOK, vars, sessionVars, workerVars
  <1>1. CASE CloseConnections
    BY <1>1 DEF CloseConnections, TypeOK, Stopped, sessionVars, workerVars
  <1>2. CASE EventStream
    <2> DEFINE s == Head(events)[1]
    <2>1. events # <<>> /\ events' = Tail(events)
      BY <1>2 DEF EventStream
    <2>2. Head(events) \in Sessions \X {"CONNECTED", "DISCONNECTED"}
      BY <2>1 DEF TypeOK
    <2>3. s \in Sessions
      BY <2>2
    <2>4. AllHostnames(token[s]) \subseteq Names
      BY <2>3, TokenNames
    <2>5. events' \in Seq(Sessions \X {"CONNECTED", "DISCONNECTED"})
      BY <2>1 DEF TypeOK
    <2>6. sync' \subseteq Names /\ peer_count' \in Int
      BY <1>2, <2>4 DEF EventStream, TypeOK
    <2> QED
      BY <1>2, <2>5, <2>6 DEF EventStream, TypeOK, sessionVars
  <1>3. ASSUME NEW s \in Sessions, SessionStep(s)
        PROVE  TypeOK'
    <2>1. CASE CreatePeer(s)
      BY <2>1 DEF CreatePeer, TypeOK, workerVars
    <2>2. CASE ChallengePassed(s)
      BY <2>2, AddPeerType DEF ChallengePassed, TypeOK, workerVars
    <2>3. CASE ChallengeFailed(s)
      BY <2>3, RemovePeerType DEF ChallengeFailed, TypeOK, workerVars
    <2>4. CASE MuxEnds(s)
      BY <2>4 DEF MuxEnds, TypeOK, sessionVars, workerVars
    <2>5. CASE HandlerEnds(s)
      BY <2>5, RemovePeerType DEF HandlerEnds, TypeOK, workerVars
    <2>6. CASE TokenExpires(s)
      BY <2>6, RemovePeerType DEF TokenExpires, TypeOK, Stopped, workerVars
    <2> QED
      BY <1>3, <2>1, <2>2, <2>3, <2>4, <2>5, <2>6 DEF SessionStep
  <1> QED
    BY <1>1, <1>2, <1>3 DEF Next

-----------------------------------------------------------------------------
\* add_peer keeps the directory whole: the entries it overwrites belong to
\* sessions with the same token, and it overwrites all of them.
LEMMA AddPeerKeeps ==
    ASSUME DisjointTokens, Inv, TypeOK', NEW s \in Sessions, AddPeer(s), token' = token,
           phase' = [phase EXCEPT ![s] = "serving"]
    PROVE  NoStaleEntry' /\ EntriesAreWhole' /\ LatestIsReachable'
  <1> DEFINE H == AllHostnames(token[s])
  <1>0. /\ TypeOK
        /\ H \subseteq Names
        /\ token[s].hostname \in H
    BY TokenNames DEF Inv
  <1>1. \A n \in Names : peers'[n] = IF n \in H THEN s ELSE peers[n]
    BY DEF AddPeer
  <1>2. phase'[s] = "serving" /\ \A r \in Sessions \ {s} : phase'[r] = phase[r]
    BY <1>0 DEF TypeOK
  <1>3. \A n \in Names : peers[n] # None => peers[n] \in Sessions
    BY <1>0 DEF TypeOK
  <1>4. NoStaleEntry'
    BY <1>1, <1>2, <1>3 DEF Inv, NoStaleEntry
  <1>5. EntriesAreWhole'
    <2> SUFFICES ASSUME NEW n \in Names, peers'[n] # None
                 PROVE  /\ n \in AllHostnames(token[peers'[n]])
                        /\ \A m \in AllHostnames(token[peers'[n]]) : peers'[m] = peers'[n]
      BY DEF EntriesAreWhole, AllHostnames
    <2>1. CASE n \in H
      BY <1>0, <1>1, <2>1
    <2>2. CASE n \notin H
      <3> DEFINE r == peers[n]
      <3>1. peers'[n] = r /\ r \in Sessions
        BY <1>1, <1>3, <2>2
      <3>2. /\ n \in AllHostnames(token[r])
            /\ \A m \in AllHostnames(token[r]) : peers[m] = r
        BY <3>1, <2>2 DEF Inv, EntriesAreWhole
      <3>3. \A m \in AllHostnames(token[r]) : m \notin H
        BY <1>0, <2>2, <3>1, <3>2, SharedName
      <3>4. AllHostnames(token[r]) \subseteq Names
        BY <1>0, <3>1, TokenNames
      <3> QED
        BY <1>1, <3>1, <3>2, <3>3, <3>4
    <2> QED
      BY <2>1, <2>2
  <1>6. LatestIsReachable'
    <2> SUFFICES ASSUME NEW r \in Sessions, phase'[r] = "serving",
                        latest'[token[r].hostname] = r,
                        NEW n \in AllHostnames(token[r])
                 PROVE  peers'[n] = r
      BY DEF LatestIsReachable, AllHostnames
    <2>1. CASE r = s
      BY <1>0, <1>1, <2>1
    <2>2. CASE r # s
      <3>1. /\ token[r].hostname \in Names
            /\ token[r].hostname \in AllHostnames(token[r])
            /\ n \in Names
        BY <1>0, TokenNames
      <3>2. latest \in [Names -> Sessions \cup {None}]
        BY <1>0 DEF TypeOK
      <3>3. token[r].hostname # token[s].hostname
        BY <1>0, <2>2, <3>1, <3>2 DEF AddPeer
      <3>4. latest[token[r].hostname] = r
        BY <3>1, <3>2, <3>3 DEF AddPeer
      <3>5. peers[n] = r
        BY <1>2, <2>2, <3>4 DEF Inv, LatestIsReachable
      <3>6. n \notin H
        BY <1>0, <3>3, SharedName
      <3> QED
        BY <1>1, <3>1, <3>5, <3>6
    <2> QED
      BY <2>1, <2>2
  <1> QED
    BY <1>4, <1>5, <1>6

\* remove_peer keeps it whole, whenever the handler of a session comes to it.
LEMMA RemovePeerKeeps ==
    ASSUME DisjointTokens, Inv, NEW s \in Sessions, RemovePeer(s), token' = token,
           latest' = latest, phase' = [phase EXCEPT ![s] = "done"]
    PROVE  NoStaleEntry' /\ EntriesAreWhole' /\ LatestIsReachable'
  <1> DEFINE H == AllHostnames(token[s])
  <1>0. /\ TypeOK
        /\ H \subseteq Names
        /\ token[s].hostname \in H
        /\ token[s].hostname \in Names
    BY TokenNames DEF Inv
  <1>1. phase'[s] = "done" /\ \A r \in Sessions \ {s} : phase'[r] = phase[r]
    BY <1>0 DEF TypeOK
  <1>2. \A n \in Names : peers[n] # None => peers[n] \in Sessions
    BY <1>0 DEF TypeOK
  <1>3. s # None /\ \A r \in Sessions : r # None
    BY TokensAssumption
  <1>4. \A n \in Names : peers'[n] = peers[n] \/ (n \in H /\ peers'[n] = None /\ peers[n] = s)
    <2>1. CASE peers[token[s].hostname] = s
      <3>1. \A n \in H : peers[n] = s
        BY <1>0, <1>3, <2>1 DEF Inv, EntriesAreWhole
      <3> QED
        BY <2>1, <3>1 DEF RemovePeer
    <2>2. CASE peers[token[s].hostname] # s
      BY <2>2 DEF RemovePeer
    <2> QED
      BY <2>1, <2>2
  <1>5. \A n \in Names : peers'[n] # s
    <2> SUFFICES ASSUME NEW n \in Names, peers'[n] = s
                 PROVE  FALSE
      OBVIOUS
    <2>1. peers[n] = s
      BY <1>3, <1>4
    <2>2. n \in H /\ peers[token[s].hostname] = s
      BY <1>0, <1>3, <2>1 DEF Inv, EntriesAreWhole
    <2>3. peers'[n] = None
      BY <2>2 DEF RemovePeer
    <2> QED
      BY <1>3, <2>3
  <1>6. NoStaleEntry'
    BY <1>1, <1>2, <1>4, <1>5 DEF Inv, NoStaleEntry
  <1>7. ASSUME NEW n \in Names, NEW r \in Sessions, r # s, peers[n] = r
        PROVE  peers'[n] = r
    BY <1>4, <1>7
  <1>8. EntriesAreWhole'
    <2> SUFFICES ASSUME NEW n \in Names, peers'[n] # None
                 PROVE  /\ n \in AllHostnames(token[peers'[n]])
                        /\ \A m \in AllHostnames(token[peers'[n]]) : peers'[m] = peers'[n]
      BY DEF EntriesAreWhole, AllHostnames
    <2> DEFINE r == peers[n]
    <2>1. peers'[n] = r /\ r \in Sessions /\ r # s
      BY <1>2, <1>4, <1>5
    <2>2. /\ n \in AllHostnames(token[r])
          /\ \A m \in AllHostnames(token[r]) : peers[m] = r
      BY <2>1 DEF Inv, EntriesAreWhole
    <2>3. AllHostnames(token[r]) \subseteq Names
      BY <1>0, <2>1, TokenNames
    <2> QED
      BY <1>7, <2>1, <2>2, <2>3
  <1>9. LatestIsReachable'
    <2> SUFFICES ASSUME NEW r \in Sessions, phase'[r] = "serving",
                        latest[token[r].hostname] = r,
                        NEW n \in AllHostnames(token[r])
                 PROVE  peers'[n] = r
      BY DEF LatestIsReachable, AllHostnames
    <2>1. r # s
      BY <1>1
    <2>2. peers[n] = r
      BY <1>1, <2>1 DEF Inv, LatestIsReachable
    <2>3. n \in Names
      BY <1>0, TokenNames
    <2> QED
      BY <1>7, <2>1, <2>2, <2>3
  <1> QED
    BY <1>6, <1>8, <1>9

\* Every step of the specification keeps the invariant.
LEMMA InvStep ==
    ASSUME DisjointTokens, Inv, [Next]_vars
    PROVE  Inv'
  <1>0. TypeOK /\ TypeOK'
    BY TypeStep DEF Inv
  <1> SUFFICES NoStaleEntry' /\ EntriesAreWhole' /\ LatestIsReachable'
    BY <1>0 DEF Inv
  <1>1. CASE UNCHANGED vars
    BY <1>1 DEF vars, sessionVars, workerVars, Inv, NoStaleEntry, EntriesAreWhole,
                LatestIsReachable, AllHostnames
  <1>2. CASE CloseConnections \/ EventStream
    <2>1. UNCHANGED <<token, phase, peers, latest>>
      BY <1>2 DEF CloseConnections, EventStream, sessionVars
    <2> QED
      BY <2>1 DEF Inv, NoStaleEntry, EntriesAreWhole, LatestIsReachable, AllHostnames
  <1>3. ASSUME NEW s \in Sessions, SessionStep(s)
        PROVE  NoStaleEntry' /\ EntriesAreWhole' /\ LatestIsReachable'
    <2>1. CASE CreatePeer(s)
      <3>1. /\ UNCHANGED <<token, peers, latest>>
            /\ phase[s] = "new"
            /\ phase' = [phase EXCEPT ![s] = "challenge"]
        BY <2>1 DEF CreatePeer
      <3>2. phase'[s] = "challenge" /\ \A r \in Sessions \ {s} : phase'[r] = phase[r]
        BY <1>0, <3>1 DEF TypeOK
      <3>3. \A n \in Names : peers[n] # None => peers[n] \in Sessions /\ peers[n] # s
        BY <1>0, <3>1 DEF TypeOK, Inv, NoStaleEntry
      <3>4. NoStaleEntry'
        BY <3>1, <3>2, <3>3 DEF Inv, NoStaleEntry
      <3>5. EntriesAreWhole'
        BY <3>1 DEF Inv, EntriesAreWhole, AllHostnames
      <3>6. LatestIsReachable'
        BY <3>1, <3>2 DEF Inv, LatestIsReachable, AllHostnames
      <3> QED
        BY <3>4, <3>5, <3>6
    <2>2. CASE ChallengePassed(s)
      BY <1>0, <2>2, AddPeerKeeps DEF ChallengePassed
    <2>3. CASE ChallengeFailed(s)
      BY <2>3, RemovePeerKeeps DEF ChallengeFailed
    <2>4. CASE MuxEnds(s)
      BY <2>4 DEF MuxEnds, sessionVars, Inv, NoStaleEntry, EntriesAreWhole,
                  LatestIsReachable, AllHostnames
    <2>5. CASE HandlerEnds(s)
      BY <2>5, RemovePeerKeeps DEF HandlerEnds
    <2>6. CASE TokenExpires(s)
      BY <2>6, RemovePeerKeeps DEF TokenExpires
    <2> QED
      BY <1>3, <2>1, <2>2, <2>3, <2>4, <2>5, <2>6 DEF SessionStep
  <1> QED
    BY <1>1, <1>2, <1>3 DEF Next

-----------------------------------------------------------------------------
\* The state has its type initially.
LEMMA InitType == Init => TypeOK
  BY DEF Init, TypeOK

\* An empty directory satisfies the invariant.
LEMMA InitInv == Init => Inv
  <1> SUFFICES ASSUME Init PROVE Inv
    OBVIOUS
  <1>1. TypeOK
    BY InitType
  <1>2. NoStaleEntry /\ EntriesAreWhole
    BY DEF Init, NoStaleEntry, EntriesAreWhole
  <1>3. LatestIsReachable
    BY DEF Init, LatestIsReachable
  <1> QED
    BY <1>1, <1>2, <1>3 DEF Inv

\* The state has its type in every behaviour, whatever tokens are issued.
THEOREM TypeCorrect == Spec => []TypeOK
  <1>1. Init => TypeOK
    BY InitType
  <1>2. TypeOK /\ [Next]_vars => TypeOK'
    BY TypeStep
  <1> QED
    BY <1>1, <1>2, PTL DEF Spec

\* The inductive invariant holds when the names of tokens do not overlap.
THEOREM InvHolds == ASSUME DisjointTokens PROVE Spec => []Inv
  <1>1. Init => Inv
    BY InitInv
  <1>2. Inv /\ [Next]_vars => Inv'
    BY InvStep
  <1> QED
    BY <1>1, <1>2, PTL DEF Spec

\* However the handlers of a client's connections interleave, no entry of the
\* directory outlives the handler that would take it out (peer_manager.py:108-114).
THEOREM NoStaleEntryHolds == ASSUME DisjointTokens PROVE Spec => []NoStaleEntry
  <1>1. Inv => NoStaleEntry
    BY DEF Inv
  <1> QED
    BY <1>1, InvHolds, PTL

\* The clean-up of a replaced connection never unregisters its successor, for
\* any number of reconnects (peer_manager.py:110-111).
THEOREM LatestIsReachableHolds == ASSUME DisjointTokens PROVE Spec => []LatestIsReachable
  <1>1. Inv => LatestIsReachable
    BY DEF Inv
  <1> QED
    BY <1>1, InvHolds, PTL

-----------------------------------------------------------------------------
(***************************************************************************)
(* The copy that the worker keeps.  What is queued for a name decides: the *)
(* last event that is about the name says whether the directory has it,    *)
(* and when there is none the copy is right.  The count is that of the     *)
(* host names in the copy; tokens that do not overlap have one each.       *)
(***************************************************************************)
About(i, n) == n \in AllHostnames(token[events[i][1]])

SyncFollows ==
    \A n \in Names :
        /\ (\A i \in DOMAIN events : ~About(i, n)) => (n \in sync <=> peers[n] # None)
        /\ \A i \in DOMAIN events :
               About(i, n) /\ (\A j \in DOMAIN events : j > i => ~About(j, n))
                   => (events[i][2] = "CONNECTED" <=> peers[n] # None)

Hosts == {t.hostname : t \in Tokens}

CountsHosts == peer_count = Cardinality(sync \cap Hosts)

\* The only host name among the names of a token is its own (DisjointTokens).
LEMMA OneHostname ==
    ASSUME DisjointTokens, TypeOK, NEW s \in Sessions
    PROVE  AllHostnames(token[s]) \cap Hosts = {token[s].hostname}
  <1>1. token[s] \in Tokens /\ token[s].hostname \in AllHostnames(token[s])
    BY TokenNames
  <1>2. ASSUME NEW n \in AllHostnames(token[s]), n \in Hosts
        PROVE  n = token[s].hostname
    <2>1. PICK t \in Tokens : n = t.hostname
      BY <1>2 DEF Hosts
    <2>2. n \in AllHostnames(t)
      BY <2>1 DEF AllHostnames
    <2> QED
      BY <1>1, <1>2, <2>1, <2>2 DEF DisjointTokens
  <1> QED
    BY <1>1, <1>2 DEF Hosts

\* What Append leaves alone and what it adds.
LEMMA AppendReads ==
    ASSUME NEW E, NEW q \in Seq(E), NEW e \in E
    PROVE  /\ Append(q, e)[Len(q) + 1] = e
           /\ \A i \in 1 .. Len(q) : Append(q, e)[i] = q[i]
  OBVIOUS

\* An event that is queued as the directory changes for all names of a session
\* becomes the last one about them.
LEMMA QueuedFollows ==
    ASSUME TypeOK, SyncFollows, token' = token, sync' = sync,
           NEW s \in Sessions, NEW k \in {"CONNECTED", "DISCONNECTED"}, NEW v,
           k = "CONNECTED" <=> v # None,
           events' = Append(events, <<s, k>>),
           peers' = [n \in Names |-> IF n \in AllHostnames(token[s]) THEN v ELSE peers[n]]
    PROVE  SyncFollows'
  <1> DEFINE E == Sessions \X {"CONNECTED", "DISCONNECTED"}
  <1>0. events \in Seq(E) /\ <<s, k>> \in E
    BY DEF TypeOK
  <1> HIDE DEF E
  <1>1. PICK e \in E : e = <<s, k>> /\ events' = Append(events, e)
    BY <1>0
  <1>2. PICK l \in Nat : /\ l > 0 /\ DOMAIN events = 1 .. (l - 1) /\ DOMAIN events' = 1 .. l
                         /\ events'[l] = e
                         /\ \A i \in DOMAIN events : events'[i] = events[i]
    <2>1. PICK l \in Nat : l = Len(events) + 1
      BY <1>0
    <2>2. Len(events) = l - 1 /\ DOMAIN events = 1 .. Len(events)
      BY <1>0, <2>1
    <2>3. Len(events') = l /\ DOMAIN events' = 1 .. Len(events')
      BY <1>0, <1>1, <2>1
    <2>4. events'[l] = e /\ \A i \in 1 .. (l - 1) : events'[i] = events[i]
      BY <1>0, <1>1, <2>1, <2>2, AppendReads
    <2> QED
      BY <2>1, <2>2, <2>3, <2>4
  <1> SUFFICES ASSUME NEW n \in Names
               PROVE  /\ (\A i \in DOMAIN events' : ~About(i, n)')
                             => (n \in sync <=> peers'[n] # None)
                      /\ \A i \in DOMAIN events' :
                             About(i, n)' /\ (\A j \in DOMAIN events' : j > i => ~About(j, n)')
                                 => (events'[i][2] = "CONNECTED" <=> peers'[n] # None)
    BY DEF SyncFollows
  <1>3. About(l, n)' <=> n \in AllHostnames(token[s])
    BY <1>1, <1>2 DEF About, AllHostnames
  <1>4. \A i \in DOMAIN events : About(i, n)' <=> About(i, n)
    BY <1>2 DEF About, AllHostnames
  <1>5. CASE n \in AllHostnames(token[s])
    <2>1. peers'[n] = v
      BY <1>5
    <2>2. About(l, n)'
      BY <1>3, <1>5
    <2>3. l \in DOMAIN events' /\ \A i \in DOMAIN events' : i = l \/ l > i
      BY <1>2
    <2> QED
      BY <1>1, <1>2, <2>1, <2>2, <2>3
  <1>6. CASE n \notin AllHostnames(token[s])
    <2>1. peers'[n] = peers[n]
      BY <1>6
    <2>2. ~About(l, n)'
      BY <1>3, <1>6
    <2>3. \A i \in DOMAIN events' : i = l \/ i \in DOMAIN events
      BY <1>2
    <2>4. \A i \in DOMAIN events : i \in DOMAIN events'
      BY <1>2
    <2> QED
      BY <1>2, <1>4, <2>1, <2>2, <2>3, <2>4 DEF SyncFollows
  <1> QED
    BY <1>5, <1>6

\* _event_stream applies the first event; a name that it is about is settled
\* by it when nothing else about the name is queued.
LEMMA AppliedFollows ==
    ASSUME TypeOK, SyncFollows, EventStream
    PROVE  SyncFollows'
  <1> DEFINE E == Sessions \X {"CONNECTED", "DISCONNECTED"}
  <1>0. /\ events \in Seq(E) /\ events # <<>>
        /\ events' = Tail(events) /\ token' = token /\ peers' = peers
    BY DEF TypeOK, EventStream, sessionVars
  <1>1. Head(events) = events[1] /\ events[1] \in E
    BY <1>0
  <1>2. events[1][1] \in Sessions /\ events[1][2] \in {"CONNECTED", "DISCONNECTED"}
    BY <1>1
  <1>3. /\ events[1][2] = "CONNECTED" => sync' = sync \cup AllHostnames(token[events[1][1]])
        /\ events[1][2] = "DISCONNECTED" => sync' = sync \ AllHostnames(token[events[1][1]])
    BY <1>1 DEF EventStream
  <1> HIDE DEF E
  <1>4. PICK l \in Nat : /\ l > 0 /\ DOMAIN events = 1 .. l /\ DOMAIN events' = 1 .. (l - 1)
                         /\ \A i \in DOMAIN events' : events'[i] = events[i + 1]
    BY <1>0
  <1> SUFFICES ASSUME NEW n \in Names
               PROVE  /\ (\A i \in DOMAIN events' : ~About(i, n)')
                             => (n \in sync' <=> peers[n] # None)
                      /\ \A i \in DOMAIN events' :
                             About(i, n)' /\ (\A j \in DOMAIN events' : j > i => ~About(j, n)')
                                 => (events'[i][2] = "CONNECTED" <=> peers[n] # None)
    BY <1>0 DEF SyncFollows
  <1>5. \A i \in DOMAIN events' : About(i, n)' <=> About(i + 1, n)
    BY <1>0, <1>4 DEF About, AllHostnames
  <1>6. \A i \in DOMAIN events : i = 1 \/ (i - 1 \in DOMAIN events' /\ (i - 1) + 1 = i)
    BY <1>4
  <1>7. ASSUME \A i \in DOMAIN events' : ~About(i, n)'
        PROVE  n \in sync' <=> peers[n] # None
    <2>1. \A i \in DOMAIN events : i > 1 => ~About(i, n)
      BY <1>4, <1>5, <1>6, <1>7
    <2>2. CASE About(1, n)
      <3>1. events[1][2] = "CONNECTED" <=> peers[n] # None
        BY <1>4, <2>1, <2>2 DEF SyncFollows
      <3>2. n \in sync' <=> events[1][2] = "CONNECTED"
        BY <1>2, <1>3, <2>2 DEF About
      <3> QED
        BY <3>1, <3>2
    <2>3. CASE ~About(1, n)
      <3>1. \A i \in DOMAIN events : ~About(i, n)
        BY <1>4, <2>1, <2>3
      <3>2. n \in sync' <=> n \in sync
        BY <1>2, <1>3, <2>3 DEF About
      <3> QED
        BY <3>1, <3>2 DEF SyncFollows
    <2> QED
      BY <2>2, <2>3
  <1>8. ASSUME NEW i \in DOMAIN events', About(i, n)',
               \A j \in DOMAIN events' : j > i => ~About(j, n)'
        PROVE  events'[i][2] = "CONNECTED" <=> peers[n] # None
    <2>1. i + 1 \in DOMAIN events /\ events'[i] = events[i + 1] /\ About(i + 1, n)
      BY <1>4, <1>5, <1>8
    <2>2. \A j \in DOMAIN events : j > i + 1 => ~About(j, n)
      <3> SUFFICES ASSUME NEW j \in DOMAIN events, j > i + 1
                   PROVE  ~About(j, n)
        OBVIOUS
      <3>1. j - 1 \in DOMAIN events' /\ j - 1 > i /\ (j - 1) + 1 = j
        BY <1>4
      <3> QED
        BY <1>5, <1>8, <3>1
    <2> QED
      BY <2>1, <2>2 DEF SyncFollows
  <1> QED
    BY <1>7, <1>8

\* _event_stream counts a host name when it enters the copy and when it leaves.
LEMMA AppliedCounts ==
    ASSUME DisjointTokens, TypeOK, CountsHosts, EventStream
    PROVE  CountsHosts'
  <1> DEFINE E == Sessions \X {"CONNECTED", "DISCONNECTED"}
  <1>1. Head(events) \in E
    BY DEF TypeOK, EventStream
  <1>2. PICK s \in Sessions : s = Head(events)[1]
    BY <1>1
  <1>3. PICK h \in Names : h = token[s].hostname /\ AllHostnames(token[s]) \cap Hosts = {h}
    BY <1>2, OneHostname, TokenNames
  <1> DEFINE S == sync \cap Hosts
  <1>4. IsFiniteSet(S)
    <2>1. S \in SUBSET Names
      BY DEF TypeOK
    <2> QED
      BY <2>1, FS_Subset, TokensAssumption
  <1>5. h \in S <=> h \in sync
    BY <1>3
  <1>6. Cardinality(S) = peer_count /\ peer_count \in Int
    BY DEF CountsHosts, TypeOK
  <1>7. CASE Head(events)[2] = "CONNECTED"
    <2>1. /\ sync' = sync \cup AllHostnames(token[s])
          /\ peer_count' = IF h \in sync THEN peer_count ELSE peer_count + 1
      BY <1>2, <1>3, <1>7 DEF EventStream
    <2>2. sync' \cap Hosts = S \cup {h}
      BY <1>3, <2>1
    <2>3. Cardinality(S \cup {h}) = IF h \in S THEN Cardinality(S) ELSE Cardinality(S) + 1
      BY <1>4, FS_AddElement
    <2> QED
      BY <1>5, <1>6, <2>1, <2>2, <2>3 DEF CountsHosts
  <1>8. CASE Head(events)[2] = "DISCONNECTED"
    <2>1. /\ sync' = sync \ AllHostnames(token[s])
          /\ peer_count' = IF h \in sync THEN peer_count - 1 ELSE peer_count
      BY <1>2, <1>3, <1>8 DEF EventStream
    <2>2. sync' \cap Hosts = S \ {h}
      BY <1>3, <2>1
    <2>3. Cardinality(S \ {h}) = IF h \in S THEN Cardinality(S) - 1 ELSE Cardinality(S)
      BY <1>4, FS_RemoveElement
    <2> QED
      BY <1>5, <1>6, <2>1, <2>2, <2>3 DEF CountsHosts
  <1> QED
    BY <1>1, <1>7, <1>8

\* Every step keeps the copy and the count right.
LEMMA SyncStep ==
    ASSUME DisjointTokens, TypeOK, SyncFollows, CountsHosts, [Next]_vars
    PROVE  SyncFollows' /\ CountsHosts'
  <1>1. CASE UNCHANGED <<token, peers, events, sync, peer_count>>
    BY <1>1 DEF SyncFollows, CountsHosts, About, AllHostnames
  <1>2. CASE EventStream
    BY <1>2, AppliedFollows, AppliedCounts
  <1>3. ASSUME NEW s \in Sessions, RemovePeer(s), UNCHANGED <<token, sync, peer_count>>
        PROVE  SyncFollows' /\ CountsHosts'
    <2>1. CASE peers[token[s].hostname] = s
      BY <1>3, <2>1, QueuedFollows DEF RemovePeer, CountsHosts
    <2>2. CASE peers[token[s].hostname] # s
      BY <1>1, <1>3, <2>2 DEF RemovePeer
    <2> QED
      BY <2>1, <2>2
  <1>4. ASSUME NEW s \in Sessions, AddPeer(s), UNCHANGED <<token, sync, peer_count>>
        PROVE  SyncFollows' /\ CountsHosts'
    <2>1. s # None
      BY TokensAssumption
    <2> QED
      BY <1>4, <2>1, QueuedFollows DEF AddPeer, CountsHosts
  <1>5. ASSUME NEW s \in Sessions, SessionStep(s)
        PROVE  SyncFollows' /\ CountsHosts'
    <2>1. CASE CreatePeer(s) \/ MuxEnds(s)
      BY <1>1, <2>1 DEF CreatePeer, MuxEnds, sessionVars, workerVars
    <2>2. CASE ChallengePassed(s)
      BY <1>4, <2>2 DEF ChallengePassed, workerVars
    <2>3. CASE ChallengeFailed(s) \/ HandlerEnds(s) \/ TokenExpires(s)
      BY <1>3, <2>3 DEF ChallengeFailed, HandlerEnds, TokenExpires, workerVars
    <2> QED
      BY <1>5, <2>1, <2>2, <2>3 DEF SessionStep
  <1>6. CASE CloseConnections
    BY <1>1, <1>6 DEF CloseConnections, sessionVars, workerVars
  <1>7. CASE UNCHANGED vars
    BY <1>1, <1>7 DEF vars, sessionVars, workerVars
  <1> QED
    BY <1>2, <1>5, <1>6, <1>7 DEF Next

\* Each session in the directory is there under one host name: there are as
\* many sessions as there are host names in use.
LEMMA SessionsByHost ==
    ASSUME DisjointTokens, Inv
    PROVE  LET N == {n \in Hosts : n \in Names /\ peers[n] # None}
               S == {s \in Sessions : \E n \in Names : peers[n] = s}
           IN  Cardinality(S) = Cardinality(N)
  <1> DEFINE N == {n \in Hosts : n \in Names /\ peers[n] # None}
             S == {s \in Sessions : \E n \in Names : peers[n] = s}
             f == [n \in N |-> peers[n]]
  <1>0. TypeOK /\ EntriesAreWhole
    BY DEF Inv
  <1>1. f \in [N -> S]
    BY <1>0 DEF TypeOK
  <1>2. \A n \in N : peers[n] \in Sessions /\ n = token[peers[n]].hostname
    <2> SUFFICES ASSUME NEW n \in N
                 PROVE  peers[n] \in Sessions /\ n = token[peers[n]].hostname
      OBVIOUS
    <2>1. PICK s \in Sessions : s = peers[n]
      BY <1>0 DEF TypeOK
    <2>2. n \in AllHostnames(token[s])
      BY <1>0, <2>1 DEF EntriesAreWhole
    <2> QED
      BY <1>0, <2>1, <2>2, OneHostname
  <1>3. f \in Injection(N, S)
    <2>1. \A n \in N : f[n] = peers[n]
      OBVIOUS
    <2>2. \A m, n \in DOMAIN f : f[m] = f[n] => m = n
      BY <1>2, <2>1
    <2> QED
      BY <1>1, <2>2 DEF Injection, IsInjective
  <1>4. f \in Surjection(N, S)
    <2>1. ASSUME NEW s \in S
          PROVE  \E n \in N : f[n] = s
      <3>1. PICK m \in Names : peers[m] = s
        OBVIOUS
      <3>2. s \in Sessions /\ s # None
        BY TokensAssumption
      <3>3. /\ token[s].hostname \in Names /\ token[s] \in Tokens
            /\ token[s].hostname \in AllHostnames(token[s])
        BY <1>0, <3>2, TokenNames
      <3>4. peers[token[s].hostname] = s
        BY <1>0, <3>1, <3>2, <3>3 DEF EntriesAreWhole
      <3>5. token[s].hostname \in N
        BY <3>2, <3>3, <3>4 DEF Hosts
      <3> QED
        BY <3>4, <3>5
    <2> QED
      BY <1>1, <2>1 DEF Surjection
  <1>5. ExistsBijection(N, S)
    BY <1>3, <1>4 DEF ExistsBijection, Bijection
  <1>6. IsFiniteSet(N)
    <2>1. N \in SUBSET Names
      OBVIOUS
    <2> QED
      BY <2>1, FS_Subset, TokensAssumption
  <1> QED
    BY <1>5, <1>6, FS_Bijection

\* With nothing queued the copy is the directory and the count its sessions.
LEMMA SyncWhenDrained ==
    ASSUME DisjointTokens, Inv, SyncFollows, CountsHosts
    PROVE  DirectoryInSync
  <1> SUFFICES ASSUME events = <<>>
               PROVE  /\ sync = {n \in Names : peers[n] # None}
                      /\ peer_count =
                             Cardinality({s \in Sessions : \E n \in Names : peers[n] = s})
    BY DEF DirectoryInSync
  <1>1. sync \subseteq Names
    BY DEF Inv, TypeOK
  <1>2. DOMAIN events = {}
    OBVIOUS
  <1>3. sync = {n \in Names : peers[n] # None}
    BY <1>1, <1>2 DEF SyncFollows
  <1>4. sync \cap Hosts = {n \in Hosts : n \in Names /\ peers[n] # None}
    BY <1>3
  <1> QED
    BY <1>3, <1>4, SessionsByHost DEF CountsHosts

\* However connections come, are replaced and go, the names a worker answers
\* for and the number of clients it reports are those of its directory once
\* the queued events have run (worker.py:157-168).
THEOREM DirectoryInSyncHolds == ASSUME DisjointTokens PROVE Spec => []DirectoryInSync
  <1>1. Init => SyncFollows /\ CountsHosts
    <2> SUFFICES ASSUME Init
                 PROVE  SyncFollows /\ CountsHosts
      OBVIOUS
    <2>1. SyncFollows
      BY DEF Init, SyncFollows
    <2>2. sync \cap Hosts = {} /\ peer_count = 0
      BY DEF Init
    <2> QED
      BY <2>1, <2>2, FS_EmptySet DEF CountsHosts
  <1>2. Inv /\ SyncFollows /\ CountsHosts /\ [Next]_vars => SyncFollows' /\ CountsHosts'
    BY SyncStep DEF Inv
  <1>3. Inv /\ SyncFollows /\ CountsHosts => DirectoryInSync
    BY SyncWhenDrained
  <1> QED
    BY <1>1, <1>2, <1>3, InvHolds, PTL DEF Spec
=============================================================================
