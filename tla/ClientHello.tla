---------------------------- MODULE ClientHello ----------------------------
(***************************************************************************)
(* How much of a TLS ClientHello has to be read, and the host name in it   *)
(* (snitun/server/sni.py).  Positions count from 0 as in the source.       *)
(***************************************************************************)
EXTENDS Integers, Sequences

CONSTANT MAX_BUFFER_SIZE

ASSUME HelloAssumption == MAX_BUFFER_SIZE \in Nat

TLS_HEADER_LEN == 5
HANDSHAKE == 22
CLIENT_HELLO == 1

At(data, pos) == data[pos + 1]
Size(data, pos) == 256 * At(data, pos) + At(data, pos + 1)
TlsSize(data) == Size(data, 3) + TLS_HEADER_LEN

\* payload_reader with data read so far: it reads on, gives up or returns.
PayloadReader(data) ==
    IF Len(data) < 6 THEN "more"
    ELSE IF At(data, 0) # HANDSHAKE \/ At(data, 5) # CLIENT_HELLO THEN "none"
    ELSE IF Len(data) < TlsSize(data) /\ Len(data) <= MAX_BUFFER_SIZE THEN "more"
    ELSE "complete"

-----------------------------------------------------------------------------

Host(name) == [is |-> "host", name |-> name]
SniError == [is |-> "error", name |-> <<>>]
SniIncomplete == [is |-> "incomplete", name |-> <<>>]
SniCrash == [is |-> "crash", name |-> <<>>]  \* an IndexError, not a ParseSNIError

\* decode("utf-8"), for names in ASCII
Decode(name) == IF \A i \in DOMAIN name : name[i] < 128 THEN Host(name) ELSE SniError

\* _parse_host_name: entries of another type are skipped.  A slice past the
\* end of data is cut off.
ParseHostName(data, start) ==
    LET size(pos) == Size(data, pos + 1)
        cut(pos) == IF pos + 3 + size(pos) > Len(data) THEN Len(data) ELSE pos + 3 + size(pos)
        entry[pos \in Nat] ==
            IF pos + 3 >= Len(data) THEN SniError
            ELSE IF At(data, pos) # 0 THEN entry[pos + 3 + size(pos)]
            ELSE Decode(SubSeq(data, pos + 4, cut(pos)))
    IN  entry[start + 2]

\* _parse_extension: from one extension to the next up to server_name, type 0
ParseExtension(data, start) ==
    LET extension[pos \in Nat] ==
            IF pos + 4 > Len(data) THEN SniError
            ELSE IF Size(data, pos) = 0 THEN ParseHostName(data, pos + 4)
            ELSE extension[pos + 4 + Size(data, pos + 2)]
    IN  IF start + 2 + Size(data, start) > Len(data) THEN SniError
        ELSE extension[start + 2]

\* The positions after the session id, the cipher suites and the compression
\* methods; -1 once data ends too early.
AfterByte(data, pos) ==
    IF pos \in 0 .. Len(data) - 1 THEN pos + 1 + At(data, pos) ELSE -1
AfterWord(data, pos) ==
    IF pos \in 0 .. Len(data) - 2 THEN pos + 2 + Size(data, pos) ELSE -1
Extensions(data) ==
    AfterByte(data, AfterWord(data, AfterByte(data, TLS_HEADER_LEN + 38)))

\* parse_tls_sni; data[5] is read although a record of length 0 may end before.
ParseTlsSni(data) ==
    IF Len(data) < TLS_HEADER_LEN \/ At(data, 0) # HANDSHAKE \/ At(data, 1) < 3
    THEN SniError
    ELSE IF Len(data) < TlsSize(data) THEN SniIncomplete
    ELSE IF Len(data) = TLS_HEADER_LEN THEN SniCrash
    ELSE IF \/ At(data, TLS_HEADER_LEN) # CLIENT_HELLO
            \/ Extensions(data) \notin 0 .. Len(data) - 2
         THEN SniError
         ELSE ParseExtension(data, Extensions(data))
=============================================================================
