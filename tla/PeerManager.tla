---------------------------- MODULE PeerManager ----------------------------
(***************************************************************************)
(* The directory of connected clients in one server process: PeerManager   *)
(* (snitun/server/peer_manager.py), the connection handler that fills and  *)
(* empties it (server/listener_peer.py, server/peer.py) and the copy that  *)
(* a worker publishes to the dispatcher (server/worker.py, _event_stream). *)
(*                                                                         *)
(* A session is one TCP connection of a client.  Its token names the host  *)
(* it serves and further names (alias) for the same client.  The handler   *)
(* of a session suspends in the challenge and in wait_disconnect(); what   *)
(* it does between two awaits is one step.  Callbacks given to call_soon   *)
(* run later, in the order they were given.                                *)
(***************************************************************************)
EXTENDS Integers, Sequences, FiniteSets

CONSTANTS
    Sessions,   \* connections; each is used once
    Names,      \* host names
    Tokens,     \* what clients may present: records of hostname and alias
    None        \* no session

ASSUME TokensAssumption ==
    /\ Tokens \subseteq [hostname : Names, alias : SUBSET Names]
    /\ None \notin Sessions
    /\ IsFiniteSet(Names)

VARIABLES
    token,       \* Peer.hostname and Peer.alias of a session
    phase,       \* its handler: new, challenge, serving, done
    mux,         \* its multiplexer: none, up, stopping (cancelled), down
    peers,       \* PeerManager._peers
    events,      \* callbacks handed to call_soon
    sync,        \* the keys of ServerWorker._sync
    peer_count,  \* ServerWorker._peer_count
    latest       \* history: the session that was last added for a host name

sessionVars == <<token, phase>>
workerVars == <<sync, peer_count>>
vars == <<sessionVars, mux, peers, events, workerVars, latest>>

AllHostnames(t) == {t.hostname} \cup t.alias

Init ==
    /\ token \in [Sessions -> Tokens]
    /\ phase = [s \in Sessions |-> "new"]
    /\ mux = [s \in Sessions |-> "none"]
    /\ peers = [n \in Names |-> None]
    /\ events = <<>>
    /\ sync = {}
    /\ peer_count = 0
    /\ latest = [n \in Names |-> None]

-----------------------------------------------------------------------------
\* is_connected, is_ready: the write task of the multiplexer is not done.
IsReady(s) == mux[s] \in {"up", "stopping"}

\* Multiplexer.shutdown cancels the write task if it is not done.
Stopped(s) == IF mux[s] = "up" THEN "stopping" ELSE mux[s]

\* peer_available
PeerAvailable(n) == peers[n] # None /\ IsReady(peers[n])

\* Mutant: the stale connection is left alone.
AddPeerKeepsStale(s) ==
    /\ mux' = [mux EXCEPT ![s] = "up"]
    /\ peers' = [n \in Names |-> IF n \in AllHostnames(token[s]) THEN s ELSE peers[n]]
    /\ events' = Append(events, <<s, "CONNECTED">>)
    /\ latest' = [latest EXCEPT ![token[s].hostname] = s]

\* add_peer: a connection that is still there for the host is shut down.
AddPeer(s) ==
    LET h == token[s].hostname
    IN  /\ mux' = [r \in Sessions |->
                      IF r = s THEN "up"
                      ELSE IF PeerAvailable(h) /\ r = peers[h] THEN Stopped(r) ELSE mux[r]]
        /\ peers' = [n \in Names |->
                        IF n \in AllHostnames(token[s]) THEN s ELSE peers[n]]
        /\ events' = Append(events, <<s, "CONNECTED">>)
        /\ latest' = [latest EXCEPT ![h] = s]

\* Mutant: the host name is taken out, its aliases are not.
RemoveHostnameOnly(s) ==
    IF peers[token[s].hostname] = s
    THEN /\ peers' = [peers EXCEPT ![token[s].hostname] = None]
         /\ events' = Append(events, <<s, "DISCONNECTED">>)
    ELSE UNCHANGED <<peers, events>>

\* Mutant: whoever holds the host name is unregistered.
RemoveUnchecked(s) ==
    /\ peers' = [n \in Names |-> IF n \in AllHostnames(token[s]) THEN None ELSE peers[n]]
    /\ events' = Append(events, <<s, "DISCONNECTED">>)

\* remove_peer: only the session that holds its host name takes names out.
RemovePeer(s) ==
    \/ /\ peers[token[s].hostname] = s
       /\ peers' = [n \in Names |->
                       IF n \in AllHostnames(token[s]) THEN None ELSE peers[n]]
       /\ events' = Append(events, <<s, "DISCONNECTED">>)
    \/ /\ peers[token[s].hostname] # s
       /\ UNCHANGED <<peers, events>>

-----------------------------------------------------------------------------
\* handle_connection with a token that create_peer accepts
CreatePeer(s) ==
    /\ phase[s] = "new"
    /\ phase' = [phase EXCEPT ![s] = "challenge"]
    /\ UNCHANGED <<token, mux, peers, events, workerVars, latest>>

\* init_multiplexer_challenge succeeds: the multiplexer starts, add_peer.
ChallengePassed(s) ==
    /\ phase[s] = "challenge"
    /\ phase' = [phase EXCEPT ![s] = "serving"]
    /\ AddPeer(s)
    /\ UNCHANGED <<token, workerVars>>

\* The challenge fails or times out; remove_peer runs for a peer never added.
ChallengeFailed(s) ==
    /\ phase[s] = "challenge"
    /\ phase' = [phase EXCEPT ![s] = "done"]
    /\ RemovePeer(s)
    /\ UNCHANGED <<token, mux, workerVars, latest>>

\* The write task ends: it was cancelled, or the connection is lost.
MuxEnds(s) ==
    /\ IsReady(s)
    /\ mux' = [mux EXCEPT ![s] = "down"]
    /\ UNCHANGED <<sessionVars, peers, events, workerVars, latest>>

\* wait_disconnect() returns and the handler unregisters the session.
HandlerEnds(s) ==
    /\ phase[s] = "serving"
    /\ ~IsReady(s)
    /\ phase' = [phase EXCEPT ![s] = "done"]
    /\ RemovePeer(s)
    /\ UNCHANGED <<token, mux, workerVars, latest>>

\* The token has expired: the handler unregisters the session and closes its
\* connection, which ends the multiplexer.
TokenExpires(s) ==
    /\ phase[s] = "serving"
    /\ IsReady(s)
    /\ phase' = [phase EXCEPT ![s] = "done"]
    /\ RemovePeer(s)
    /\ mux' = [mux EXCEPT ![s] = Stopped(s)]
    /\ UNCHANGED <<token, workerVars, latest>>

\* close_connections, up to its await
CloseConnections ==
    /\ \E n \in Names : peers[n] # None
    /\ mux' = [s \in Sessions |->
                  IF \E n \in Names : peers[n] = s THEN Stopped(s) ELSE mux[s]]
    /\ UNCHANGED <<sessionVars, peers, events, workerVars, latest>>

\* Mutant: every CONNECTED counts, a reconnect too.
EventStreamCountsAll ==
    /\ events # <<>>
    /\ LET s == Head(events)[1]
       IN  IF Head(events)[2] = "CONNECTED"
           THEN /\ peer_count' = peer_count + 1
                /\ sync' = sync \cup AllHostnames(token[s])
           ELSE /\ peer_count' = peer_count - 1
                /\ sync' = sync \ AllHostnames(token[s])
    /\ events' = Tail(events)
    /\ UNCHANGED <<sessionVars, mux, peers, latest>>

\* _event_stream
EventStream ==
    /\ events # <<>>
    /\ LET s == Head(events)[1]
           h == token[s].hostname
       IN  \/ /\ Head(events)[2] = "CONNECTED"
              /\ peer_count' = IF h \in sync THEN peer_count ELSE peer_count + 1
              /\ sync' = sync \cup AllHostnames(token[s])
           \/ /\ Head(events)[2] = "DISCONNECTED"
              /\ peer_count' = IF h \in sync THEN peer_count - 1 ELSE peer_count
              /\ sync' = sync \ AllHostnames(token[s])
    /\ events' = Tail(events)
    /\ UNCHANGED <<sessionVars, mux, peers, latest>>

-----------------------------------------------------------------------------
SessionStep(s) ==
    \/ CreatePeer(s)
    \/ ChallengePassed(s)
    \/ ChallengeFailed(s)
    \/ MuxEnds(s)
    \/ HandlerEnds(s)
    \/ TokenExpires(s)

Next == CloseConnections \/ EventStream \/ \E s \in Sessions : SessionStep(s)

\* A cancelled write task ends and the event loop runs what is ready.
Fairness ==
    /\ WF_vars(EventStream)
    /\ \A s \in Sessions : /\ WF_vars(mux[s] = "stopping" /\ MuxEnds(s))
                           /\ WF_vars(HandlerEnds(s))

Spec == Init /\ [][Next]_vars
FairSpec == Spec /\ Fairness

-----------------------------------------------------------------------------
(***************************************************************************)
(* Properties                                                              *)
(***************************************************************************)

\* The type of the state.
TypeOK ==
    /\ token \in [Sessions -> Tokens]
    /\ phase \in [Sessions -> {"new", "challenge", "serving", "done"}]
    /\ mux \in [Sessions -> {"none", "up", "stopping", "down"}]
    /\ peers \in [Names -> Sessions \cup {None}]
    /\ events \in Seq(Sessions \X {"CONNECTED", "DISCONNECTED"})
    /\ sync \subseteq Names
    /\ peer_count \in Int
    /\ latest \in [Names -> Sessions \cup {None}]

\* The names of different clients do not overlap, and the tokens of a client
\* always carry the same names.
DisjointTokens ==
    \A t, u \in Tokens : t # u => AllHostnames(t) \cap AllHostnames(u) = {}

\* A name leads to a session whose handler is still there to take it out
\* (peer_manager.py:87-121, listener_peer.py:126-128): nothing stays behind.
NoStaleEntry == \A n \in Names : peers[n] # None => phase[peers[n]] = "serving"

\* The clean-up of a connection that was replaced, however late, does not
\* unregister its successor (peer_manager.py:110-111): the session that came
\* last is found under all its names until its own handler ends.
LatestIsReachable ==
    \A s \in Sessions :
        phase[s] = "serving" /\ latest[token[s].hostname] = s
            => \A n \in AllHostnames(token[s]) : peers[n] = s

\* The names a worker answers for, and the number of clients it reports, are
\* those of its directory up to events that are still queued
\* (worker.py:157-168): neither drifts over reconnects.
DirectoryInSync ==
    events = <<>> =>
        /\ sync = {n \in Names : peers[n] # None}
        /\ peer_count = Cardinality({s \in Sessions : \E n \in Names : peers[n] = s})

\* At most one session of a host stays: one that was replaced is shut down and
\* its handler ends (peer_manager.py:89-93).
ReplacedSessionEnds ==
    \A s \in Sessions :
        phase[s] = "serving" /\ latest[token[s].hostname] # s ~> phase[s] = "done"
=============================================================================
