---------------------------- MODULE SNIListener ----------------------------
(***************************************************************************)
(* A server reads the beginning of a connection, in whatever pieces it     *)
(* comes: an optional PROXY header, then a ClientHello or the token of a   *)
(* client.  Three servers do it: "sni", the port of SNIProxy alone         *)
(* (listener_sni.py), "single", SniTunServerSingle, and "worker",          *)
(* SniTunServerWorker (both run.py), the last two of which hand the        *)
(* connection and what was read of it to a SNIProxy.                       *)
(*                                                                         *)
(* A step is a read that returned, and all that follows up to the next.    *)
(***************************************************************************)
EXTENDS ProxyProtocol, ClientHello

CONSTANTS
    Streams,         \* what connections send: bytes, and what they mean
    Available,       \* host names with a peer
    MAX_HEADER_SIZE, \* of the header, for "sni"
    Fragments        \* bound: sizes of a piece, besides all that is left

ASSUME ListenerAssumption ==
    /\ MAX_HEADER_SIZE \in Nat
    /\ Fragments \subseteq Nat \ {0}
    /\ \A s \in Streams : s.bytes \in Seq(Nat)

IsToken(data) == IsPrefix(<<103, 65>>, data)  \* gA

(***************************************************************************)
(* What a stream means is what the parsers find in all of it at once: a    *)
(* header of its size and source, and after it                             *)
(*  - of a visit, a TLS record with a name in it, which what follows the   *)
(*    record does not change;                                              *)
(*  - of a client, the beginning of a token;                               *)
(*  - of a bad stream, nothing that can be served.                         *)
(* No record and no header is longer than MAX_BUFFER_SIZE: with the value  *)
(* of the source, 1,024,000, none can be, as their sizes have 16 bits.     *)
(***************************************************************************)
Payload(s) == SubSeq(s.bytes, s.header + 1, Len(s.bytes))

HasHeader(s) ==
    LET header == ParseHeader(s.bytes)
    IN  /\ header.is \in {"header", "none"}
        /\ <<header.size, header.source>> = <<s.header, s.source>>
        /\ s.header <= MAX_BUFFER_SIZE

HasName(s) ==
    LET payload == Payload(s)
        record == SubSeq(payload, 1, TlsSize(payload))
    IN  /\ ParseTlsSni(payload) = Host(s.host)
        /\ ParseTlsSni(record) = Host(s.host)
        /\ TlsSize(payload) <= MAX_BUFFER_SIZE

HasNothing(s) ==
    \A size \in {0, ParseHeader(s.bytes).size} : \A n \in size .. Len(s.bytes) :
       LET data == SubSeq(s.bytes, size + 1, n)
       IN  ~IsToken(data) /\ ParseTlsSni(data).is # "host"

ASSUME StreamAssumption ==
    \A s \in Streams :
       \/ s.is = "visit" /\ HasHeader(s) /\ HasName(s)
       \/ s.is = "token" /\ HasHeader(s) /\ IsToken(Payload(s))
       \/ s.is = "bad" /\ HasNothing(s)

VARIABLES
    server,   \* kind, and proxy: it was told to expect PROXY headers
    stream,   \* what the connection sends
    received, \* number of bytes that were read
    start,    \* number of them that are the header, stripped
    source,   \* the address in the header
    host,     \* the name in the ClientHello
    stage     \* header, payload (the header is complete) and hello: what is
              \* waited for; served, peer, closed, aborted: how it ended, and
              \* crashed: with the thread that accepts

listenVars == <<server, stream, received, start, source, host, stage>>

Servers == [kind : {"sni", "single", "worker"}, proxy : BOOLEAN]
Waiting == {"header", "payload", "hello"}

ListenInit ==
    /\ server \in Servers
    /\ stream \in Streams
    /\ received = 0
    /\ start = 0
    /\ source = NoAddress
    /\ host = <<>>
    /\ stage = IF server.proxy THEN "header"
               ELSE IF server.kind = "single" THEN "payload" ELSE "hello"

-----------------------------------------------------------------------------

Becomes(s) == stage' = s /\ UNCHANGED host

\* The peer that has the name gets the connection, if there is one.
ProxyTo(name) ==
    /\ host' = name
    /\ stage' = IF name \in Available THEN "served" ELSE "closed"

\* The name in data, once the hello is complete, which no record of length 0 is.
ServeHello(data) ==
    LET sni == ParseTlsSni(data)
    IN  \/ sni.is = "host" /\ ProxyTo(sni.name)
        \/ sni.is # "host" /\ Becomes("closed")

\* handle_connection of SNIProxy, with data read so far
HandleConnection(data) ==
    LET hello == PayloadReader(data)
    IN  \/ hello = "more" /\ Becomes("hello")
        \/ hello = "none" /\ Becomes("closed")
        \/ hello = "complete" /\ ServeHello(data)

\* _handler of SniTunServerSingle: the first bytes choose the handler.
SingleHandler(data) ==
    \/ stage = "hello" /\ HandleConnection(data)
    \/ /\ stage # "hello"
       /\ \/ data = <<>> /\ Becomes("payload")
          \/ /\ data # <<>> /\ data[1] = HANDSHAKE
             /\ HandleConnection(data)
          \/ IsToken(data) /\ Becomes("peer")
          \/ /\ data # <<>> /\ data[1] # HANDSHAKE /\ ~IsToken(data)
             /\ Becomes("closed")

\* _process of SniTunServerWorker, after the header.  The worker that gets the
\* connection has the name already and finds the hello complete.  An IndexError
\* is not caught: the thread ends, and the connections it had are dropped.
Process(data) ==
    LET sni == ParseTlsSni(data)
    IN  \/ data = <<>> /\ Becomes("hello")
        \/ IsToken(data) /\ Becomes("peer")
        \/ /\ data # <<>> /\ data[1] # HANDSHAKE /\ ~IsToken(data)
           /\ Becomes("closed")
        \/ /\ data # <<>> /\ data[1] = HANDSHAKE
           /\ \/ /\ sni.is = "incomplete"
                 /\ Becomes(IF Len(data) >= MAX_BUFFER_SIZE THEN "closed" ELSE "hello")
              \/ sni.is = "error" /\ Becomes("closed")
              \/ sni.is = "crash" /\ Becomes("crashed")
              \/ sni.is = "host" /\ PayloadReader(data) = "complete" /\ ProxyTo(sni.name)

Handle(data) ==
    \/ server.kind = "sni" /\ HandleConnection(data)
    \/ server.kind = "single" /\ SingleHandler(data)
    \/ server.kind = "worker" /\ Process(data)

\* How much of an incomplete header a server waits for.
HeaderFull(n) ==
    \/ server.kind = "sni" /\ n >= MAX_HEADER_SIZE
    \/ server.kind = "worker" /\ n >= MAX_BUFFER_SIZE

Rest(n, size) == SubSeq(stream.bytes, size + 1, n)

\* Mutant: what came in the same read as the header is dropped.
StripDrops(n) ==
    LET header == ParseHeader(Rest(n, 0))
    IN  \/ /\ header.is = "incomplete"
           /\ Becomes(IF HeaderFull(n) THEN "closed" ELSE "header")
           /\ UNCHANGED <<start, source>>
        \/ /\ header.is = "malformed"
           /\ Becomes("closed")
           /\ UNCHANGED <<start, source>>
        \/ /\ header.is \in {"header", "none"}
           /\ source' = header.source
           /\ start' = IF header.is = "header" THEN n ELSE 0
           /\ Handle(Rest(n, start'))

\* read_proxy_protocol_header, and _strip_proxy_protocol of both servers
Strip(n) ==
    LET header == ParseHeader(Rest(n, 0))
    IN  \/ /\ header.is = "incomplete"
           /\ Becomes(IF HeaderFull(n) THEN "closed" ELSE "header")
           /\ UNCHANGED <<start, source>>
        \/ /\ header.is = "malformed"
           /\ Becomes("closed")
           /\ UNCHANGED <<start, source>>
        \/ /\ header.is \in {"header", "none"}
           /\ source' = header.source
           /\ start' = header.size
           /\ Handle(Rest(n, header.size))

\* A read returns some of the bytes that are left.
Read ==
    /\ stage \in Waiting
    /\ \E n \in {received + k : k \in Fragments} \cup {Len(stream.bytes)} :
          /\ n \in received + 1 .. Len(stream.bytes)
          /\ server.kind = "sni" /\ stage = "header" => n <= MAX_HEADER_SIZE
          /\ received' = n
          /\ \/ stage = "header" /\ Strip(n)
             \/ /\ stage # "header"
                /\ Handle(Rest(n, start))
                /\ UNCHANGED <<start, source>>
    /\ UNCHANGED <<server, stream>>

\* The connection ends, an error is raised, or the timeout of the server: the
\* connection is closed.
Abort ==
    /\ stage \in Waiting
    /\ Becomes("aborted")
    /\ UNCHANGED <<server, stream, received, start, source>>

-----------------------------------------------------------------------------
(***************************************************************************)
(* What should become of a connection, whatever pieces it comes in.        *)
(***************************************************************************)
Expected ==
    IF \/ stream.is = "bad"
       \/ stream.header > (IF ~server.proxy THEN 0
                           ELSE IF server.kind = "sni" THEN MAX_HEADER_SIZE
                           ELSE MAX_BUFFER_SIZE)
    THEN "closed"
    ELSE IF stream.is = "token" THEN IF server.kind = "sni" THEN "closed" ELSE "peer"
    ELSE IF stream.host \in Available THEN "served" ELSE "closed"

\* A first piece that is shorter than the prefix of a token, or for the worker
\* than the header of a TLS record, is not recognised.
CutShort ==
    received - start < (IF stream.is = "token" THEN 2
                        ELSE IF server.kind = "worker" THEN TLS_HEADER_LEN ELSE 0)

\* Whatever a connection is served with is what was sent, in any pieces: the
\* name and the address, all of the payload and nothing else
\* (listener_sni.py:88-91, run.py:199-231, 543-571).  Nothing valid ends the
\* thread, is waited for when all of it has come, or is refused, except for one
\* case: the payload begins with a piece that is CutShort.  SNIProxy and
\* SniTunServerSingle thus serve a visit in every split, SniTunServerWorker in
\* those that begin with 5 bytes of the record (see FragmentsHandledAlike).
ServedAsSent ==
    /\ stage = "served" =>
          /\ Expected = "served"
          /\ <<host, source, start>> = <<stream.host, stream.source, stream.header>>
    /\ stage = "peer" => Expected = "peer" /\ start = stream.header
    /\ stage = "closed" => Expected = "closed" \/ CutShort
    /\ stage = "crashed" => stream.is = "bad"
    /\ stage \in Waiting /\ received = Len(stream.bytes) => Expected = "closed"

\* "payload_reader completes a record that only partially arrived [...], so a
\* fragmented hello is handled the same on every server"
\* (listener_sni.py:88-90): no server refuses a visit for the pieces it comes
\* in.  SniTunServerWorker does: of less than 5 bytes parse_tls_sni says
\* ParseSNIError and not ParseSNIIncompleteError (sni.py:59-61), and _process
\* closes the connection (run.py:521-524).
FragmentsHandledAlike ==
    stream.is = "visit" /\ stage = "closed" => Expected = "closed"
=============================================================================
