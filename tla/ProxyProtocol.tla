--------------------------- MODULE ProxyProtocol ---------------------------
(***************************************************************************)
(* The parser of PROXY protocol headers (snitun/server/proxy_protocol.py). *)
(* A byte is a number; data[i] of the source is data[i + 1] here.          *)
(***************************************************************************)
EXTENDS Integers, Sequences, SequencesExt

CONSTANTS
    V1_MAX_LEN, \* bytes a v1 line may have, 108 in the source
    IpText      \* texts that ipaddress.ip_address accepts, with their address

\* An address has a family and its packed bytes.
Address(family, packed) == [family |-> family, packed |-> packed]
IsAddress(a) ==
    \E family \in {4, 6} :
       /\ a = Address(family, a.packed)
       /\ a.packed \in Seq(Nat)
       /\ Len(a.packed) = IF family = 4 THEN 4 ELSE 16
NoAddress == Address(0, <<>>)
EmptyAddress == Address(4, <<0, 0, 0, 0>>)  \* EMPTY_IP_ADDRESS

ASSUME ProxyAssumption ==
    /\ V1_MAX_LEN \in Nat
    /\ \A text \in DOMAIN IpText : IsAddress(IpText[text])

-----------------------------------------------------------------------------

CR == 13
LF == 10
SPACE == 32
V1_PREFIX == <<80, 82, 79, 88, 89, SPACE>>
UNKNOWN == <<85, 78, 75, 78, 79, 87, 78>>
TCP4 == <<84, 67, 80, 52>>
TCP6 == <<84, 67, 80, 54>>
V2_SIGNATURE == <<CR, LF, CR, LF, 0, CR, LF, 81, 85, 73, 84, LF>>
V2_HEADER_LEN == 16

\* What a parser returns or raises.
Header(source, size) == [is |-> "header", source |-> source, size |-> size]
Raised(error) == [is |-> error, source |-> NoAddress, size |-> 0]
Incomplete == Raised("incomplete")
Malformed == Raised("malformed")
NotProxy == Raised("none")

Word(data, i) == 256 * data[i] + data[i + 1]

\* split(b" ")
Fields(line) ==
    FoldLeft(LAMBDA fields, byte :
                IF byte = SPACE THEN Append(fields, <<>>)
                ELSE [fields EXCEPT ![Len(fields)] = Append(@, byte)],
             <<<<>>>>, line)

\* The line of a v1 header.
ParseV1Line(fields, size) ==
    LET protocol == IF Len(fields) > 1 THEN fields[2] ELSE <<>>
        source == IpText[fields[3]]
    IN  IF protocol = UNKNOWN THEN Header(NoAddress, size)
        ELSE IF \/ protocol \notin {TCP4, TCP6}
                \/ Len(fields) # 6
                \/ fields[3] \notin DOMAIN IpText
                \/ (protocol = TCP4) # (source.family = 4)
             THEN Malformed
             ELSE Header(source, size)

\* _parse_v1
ParseV1(data) ==
    LET ends == {i \in 1 .. Len(data) - 1 : data[i] = CR /\ data[i + 1] = LF}
        end == Min(ends) - 1
    IN  IF ends = {} THEN IF Len(data) >= V1_MAX_LEN THEN Malformed ELSE Incomplete
        ELSE IF end + 2 > V1_MAX_LEN THEN Malformed
        ELSE ParseV1Line(Fields(SubSeq(data, 1, end)), end + 2)

\* The address block of a v2 header: too short for its family, without an
\* address that can be used, or with the source address in front.
ParseV2Block(family, block, size) ==
    CASE family = 1 -> IF Len(block) < 12 THEN Malformed
                       ELSE Header(Address(4, SubSeq(block, 1, 4)), size)
      [] family = 2 -> IF Len(block) < 36 THEN Malformed
                       ELSE Header(Address(6, SubSeq(block, 1, 16)), size)
      [] OTHER -> Header(NoAddress, size)

\* _parse_v2
ParseV2(data) ==
    LET version == data[13] \div 16
        command == data[13] % 16
        size == V2_HEADER_LEN + Word(data, 15)
    IN  IF Len(data) < V2_HEADER_LEN THEN Incomplete
        ELSE IF version # 2 THEN Malformed
        ELSE IF Len(data) < size THEN Incomplete
        ELSE IF command = 0 THEN Header(NoAddress, size)
        ELSE IF command # 1 THEN Malformed
        ELSE ParseV2Block(data[14] \div 16, SubSeq(data, V2_HEADER_LEN + 1, size), size)

\* parse_proxy_protocol_header
ParseHeader(data) ==
    IF IsPrefix(V2_SIGNATURE, data) THEN ParseV2(data)
    ELSE IF IsPrefix(V1_PREFIX, data) THEN ParseV1(data)
    ELSE IF IsPrefix(data, V2_SIGNATURE) \/ IsPrefix(data, V1_PREFIX) THEN Incomplete
    ELSE NotProxy
=============================================================================
