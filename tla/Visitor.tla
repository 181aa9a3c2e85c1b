------------------------------ MODULE Visitor ------------------------------
(***************************************************************************)
(* The way of one visitor: a server reads the beginning of the connection  *)
(* (SNIListener), ProxyPeerHandler (listener_sni.py) opens a channel to    *)
(* the peer and copies the connection to it until it is idle for too long  *)
(* (RangedTimeout), and at the client the access list is asked and the     *)
(* channel served by a TransportConnector (ChannelTransport).              *)
(*                                                                         *)
(* What the queues and the wire between the two ends do is in ChannelFlow; *)
(* here a message of the server is read by the client at once.             *)
(***************************************************************************)
EXTENDS SNIListener, RangedTimeout, ChannelTransport, CryptoTransport

CONSTANTS
    SocketAddress, \* address of the socket of the visitor, or of the proxy
    Versions,      \* protocol versions of the client
    AccessLists    \* access lists of the client: action and networks

ASSUME VisitorAssumption == IsAddress(SocketAddress) /\ Versions \subseteq Nat

VARIABLES
    session, \* ProxyPeerHandler.start: none, open, ended
    quiet,   \* the visitor sends nothing more, and does not leave
    allowed  \* history: what the access list says of the visitor's address

visitorVars == <<session, quiet, allowed>>
vars == <<listenVars, timerVars, transportVars, visitorVars>>

Init ==
    /\ ListenInit
    /\ TimerInit
    /\ TransportInit
    /\ session = "none" /\ quiet = FALSE /\ allowed = FALSE

-----------------------------------------------------------------------------
(***************************************************************************)
(* The address of the visitor                                              *)
(***************************************************************************)

FOUR == 52
SIX == 54
Padding == <<7, 7, 7, 7, 7, 7, 7, 7, 7, 7, 7, 7, 7, 7, 7>>

\* Mutant: the block is not padded.
InitNewUnpadded(address, version) ==
    IF version >= 2
    THEN [data |-> <<IF address.family = 6 THEN SIX ELSE FOUR>> \o address.packed,
          extra |-> <<>>]
    ELSE LET sent == IF address.family = 6 THEN EmptyAddress ELSE address
         IN  [data |-> <<>>, extra |-> <<FOUR>> \o sent.packed]

\* init_new of the channel: an old peer gets only IPv4 addresses.
InitNew(address, version) ==
    IF version >= 2
    THEN LET block == <<IF address.family = 6 THEN SIX ELSE FOUR>> \o address.packed
         IN  [data |-> block \o SubSeq(Padding, 1, (-Len(block)) % 16), extra |-> <<>>]
    ELSE LET sent == IF address.family = 6 THEN EmptyAddress ELSE address
         IN  [data |-> <<>>, extra |-> <<FOUR>> \o sent.packed]

\* bytes_to_ip_address
BytesToIpAddress(packed) ==
    CASE Len(packed) = 4 -> Address(4, packed)
      [] Len(packed) = 16 -> Address(6, packed)
      [] OTHER -> EmptyAddress

\* The address in NEW; NoAddress if it is cut off, which drops NEW.
NewAddress(message, version) ==
    LET expected == IF message.data[1] = SIX THEN 16 ELSE 4
    IN  IF version < 2 THEN BytesToIpAddress(SubSeq(message.extra, 2, 5))
        ELSE IF Len(message.data) - 1 < expected THEN NoAddress
        ELSE BytesToIpAddress(SubSeq(message.data, 2, expected + 1))

\* The address that the client finds in the NEW of the server.
Seen(address, version, cipher) ==
    LET message == ReadNew(cipher, version, WriteNew(cipher, version, InitNew(address, version)))
    IN  IF message = NoMessage THEN NoAddress ELSE NewAddress(message, version)

\* check_policy.  A network is an address cut to its prefix.
CheckPolicy(list, address) ==
    LET matched == \E network \in list.networks :
                      /\ network.family = address.family
                      /\ IsPrefix(network.packed, address.packed)
    IN  IF list.action = "allow" THEN matched ELSE ~matched

\* The address of the visitor, as far as a client of the version can know it.
Attributed(address, version) ==
    IF version < 2 /\ address.family = 6 THEN EmptyAddress ELSE address

-----------------------------------------------------------------------------
(***************************************************************************)
(* ProxyPeerHandler                                                        *)
(***************************************************************************)

\* The address of the header, or else of the socket.
VisitorAddress == IF source = NoAddress THEN SocketAddress ELSE source

\* What SNIListener kept is over.
Forget ==
    /\ server' = [kind |-> "sni", proxy |-> FALSE]
    /\ stream' = CHOOSE s \in Streams : TRUE
    /\ received' = 0 /\ start' = 0 /\ source' = NoAddress /\ host' = <<>>
    /\ stage' = "over"

\* _proxy_peer and start: the channel is created, with its timer, and the
\* connector of the client asks the access list.
StartProxy ==
    /\ stage = "served"
    /\ \E version \in Versions, cipher \in Ciphers, list \in AccessLists :
          LET seen == Seen(VisitorAddress, version, cipher)
          IN  /\ seen # NoAddress
              /\ allowed' = CheckPolicy(list, Attributed(VisitorAddress, version))
              /\ \/ CheckPolicy(list, seen) /\ HandlerStart
                 \/ ~CheckPolicy(list, seen) /\ HandlerRefuses
    /\ session' = "open"
    /\ Reschedule
    /\ Forget
    /\ UNCHANGED quiet

\* create_channel gets no room in the queue, or the peer is gone.
StartFails ==
    /\ stage = "served"
    /\ session' = "ended"
    /\ Forget
    /\ UNCHANGED <<timerVars, transportVars, quiet, allowed>>

Open == session = "open" /\ reader \notin Running

\* _proxy_loop, a message of the visitor
VisitorSends ==
    /\ Open
    /\ ~quiet
    /\ \E n \in 1 .. MaxChunks : ReceiveData(n)
    /\ Reschedule
    /\ UNCHANGED <<listenVars, session, quiet, allowed>>

\* The end of _proxy_loop: delete_channel sends CLOSE.  start() then cancels
\* the timer and the other loop.
EndSession ==
    /\ session' = "ended"
    /\ ReceiveClose
    /\ UNCHANGED <<listenVars, quiet, allowed>>

VisitorLeaves == Open /\ ~quiet /\ EndSession /\ CancelTimer

\* Mutant: the callback only closes the connection of the visitor.
SessionTimeoutSilent ==
    /\ Open
    /\ Fire
    /\ session' = "ended"
    /\ UNCHANGED <<listenVars, transportVars, quiet, allowed>>

\* _on_timeout
SessionTimeout == Open /\ Fire /\ EndSession

\* CLOSE from the client: _peer_loop closes the connection of the visitor and
\* _proxy_loop ends on it.
ServerReceivesClose ==
    /\ reply
    /\ reader \notin Running
    /\ reply' = FALSE
    /\ session' = "ended"
    /\ CancelTimer
    /\ UNCHANGED <<listenVars, table, closing, input, under, writing, pause, reader, rest,
                   passed, lost, handler, quiet, allowed>>

\* _peer_loop, a message that the application wrote
ProtocolWrites ==
    /\ InUse
    /\ ~closing
    /\ Open
    /\ Reschedule
    /\ UNCHANGED <<listenVars, transportVars, visitorVars>>

VisitorFallsQuiet ==
    /\ Open
    /\ ~quiet
    /\ quiet' = TRUE
    /\ UNCHANGED <<listenVars, timerVars, transportVars, session, allowed>>

TimePasses == Open /\ Tick /\ UNCHANGED <<listenVars, transportVars, visitorVars>>

-----------------------------------------------------------------------------

Listens == (Read \/ Abort) /\ UNCHANGED <<timerVars, transportVars, visitorVars>>
Transports(A) == A /\ UNCHANGED <<listenVars, timerVars, visitorVars>>

Next ==
    \/ Listens \/ StartProxy \/ StartFails
    \/ VisitorSends \/ VisitorLeaves \/ VisitorFallsQuiet \/ ProtocolWrites
    \/ SessionTimeout \/ ServerReceivesClose \/ TimePasses
    \/ Transports(TransportNext)

\* Tasks and callbacks that are ready run, messages arrive, and time passes.
\* Neither the visitor nor the protocol needs to do anything, and a handshake
\* ends only when SSLProtocol knows that the connection is lost.
Fairness ==
    /\ WF_vars(Transports(ReaderSteps))
    /\ WF_vars(Transports(HandlerSteps))
    /\ WF_vars(Transports(lost = "called" /\ TlsFails))
    /\ WF_vars(ServerReceivesClose)
    /\ WF_vars(TimePasses)
    /\ WF_vars(SessionTimeout)

Spec == Init /\ [][Next]_vars
FairSpec == Spec /\ Fairness

-----------------------------------------------------------------------------
(***************************************************************************)
(* Properties                                                              *)
(***************************************************************************)

\* The access list of the client judges the address that the visitor has: it
\* survives the header, NEW in both of its layouts and the frame of every
\* cipher (channel.py:300-326, core.py:247-335, 361-373, connector.py:70-75).
\* IPv6 is lost on an old peer.
PolicyIsKept ==
    /\ stage = "served" =>
          \A version \in Versions, cipher \in Ciphers :
             Seen(VisitorAddress, version, cipher) = Attributed(VisitorAddress, version)
    /\ handler = "refused" => ~allowed
    /\ handler \notin {"none", "refused"} => allowed

\* A channel that the application has closed leaves the table of the client,
\* although nobody sends CLOSE for it (transport.py:140-148): a visitor that
\* has fallen quiet is ended by the idle timer of the server.
ChannelIsFreed == (handler = "done" /\ quiet) ~> ~table
=============================================================================
