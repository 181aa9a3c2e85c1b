----------------------------- MODULE MCVisitor -----------------------------
(***************************************************************************)
(* Visitor for TLC: what connections send, built from what it means.       *)
(***************************************************************************)
EXTENDS Visitor

Fill(n, byte) == [i \in 1 .. n |-> byte]
TwoBytes(n) == <<n \div 256, n % 256>>
Sized(bytes) == TwoBytes(Len(bytes)) \o bytes

\* Addresses that differ in their family only, as far as they go.
V4 == Address(4, <<10, 0, 0, 1>>)
V6 == Address(6, <<10, 0, 0, 1>> \o Fill(12, 3))
MCSocketAddress == Address(4, <<192, 0, 0, 9>>)
MCIpText == (<<49>> :> V4) @@ (<<58, 58>> :> V6)

home == <<104>>
gone == <<103, 110>>
MCAvailable == {home}

-----------------------------------------------------------------------------

Other == <<0, 16>> \o Sized(<<9>>)
ServerName(type, name) == <<0, 0>> \o Sized(Sized(<<type>> \o Sized(name)))

\* A ClientHello with the extensions.
Hello(extensions) ==
    <<HANDSHAKE, 3, 1>>
        \o Sized(<<CLIENT_HELLO>> \o Fill(37, 9) \o <<1, 9>> \o <<0, 2, 9, 9>> \o <<1, 0>>
                     \o Sized(extensions))
HelloFor(name) == Hello(Other \o ServerName(0, name))

\* Headers: v1 with a protocol and a source address, v2 with version and
\* command, family and address block.
V1(protocol, text) ==
    V1_PREFIX \o protocol \o <<SPACE>> \o text
        \o <<SPACE, 49, SPACE, 50, SPACE, 51, CR, LF>>
V1Unknown(n) == V1_PREFIX \o UNKNOWN \o <<SPACE>> \o Fill(n - 16, 49) \o <<CR, LF>>
V2(command, family, block) == V2_SIGNATURE \o <<command, family>> \o Sized(block)

Visit(header, address, name) ==
    [is |-> "visit", bytes |-> header \o HelloFor(name) \o <<23, 3>>, header |-> Len(header),
     source |-> address, host |-> name]
TokenAfter(header, address) ==
    [is |-> "token", bytes |-> header \o <<103, 65, 65>>, header |-> Len(header),
     source |-> address, host |-> <<>>]
Bad(bytes) ==
    [is |-> "bad", bytes |-> bytes, header |-> 0, source |-> NoAddress, host |-> <<>>]

MCStreams ==
    { Visit(<<>>, NoAddress, home),
      Visit(<<>>, NoAddress, gone),
      Visit(V1(TCP4, <<49>>), V4, home),
      Visit(V1(TCP6, <<58, 58>>), V6, home),
      Visit(V1Unknown(V1_MAX_LEN), NoAddress, home),
      Visit(V2(33, 17, V4.packed \o Fill(9, 1)), V4, home),
      Visit(V2(33, 33, V6.packed \o Fill(20, 1)), V6, home),
      Visit(V2(32, 0, Fill(MAX_HEADER_SIZE - 16, 1)), NoAddress, home),
      Visit(V2(32, 0, Fill(MAX_HEADER_SIZE - 15, 1)), NoAddress, home),
      TokenAfter(<<>>, NoAddress),
      TokenAfter(V1(TCP4, <<49>>), V4),
      Bad(V1(TCP4, <<58, 58>>) \o HelloFor(home)),
      Bad(V1Unknown(V1_MAX_LEN + 1) \o HelloFor(home)),
      Bad(V1_PREFIX \o Fill(V1_MAX_LEN, 49)),
      Bad(V2(17, 17, V4.packed \o Fill(8, 1)) \o HelloFor(home)),
      Bad(V2(33, 17, V4.packed \o Fill(7, 1)) \o HelloFor(home)),
      Bad(V2(33, 33, Fill(35, 1)) \o HelloFor(home)),
      Bad(Hello(Other)),
      Bad(Hello(ServerName(1, home))),
      Bad(HelloFor(<<200>>)),
      Bad(<<HANDSHAKE, 3, 1, 0, 0>>),
      Bad(<<HANDSHAKE, 3, 1, 0, 0, 2>>) }

Network(family, packed) == Address(family, packed)
MCAccessLists ==
    { [action |-> "block", networks |-> {}],
      [action |-> "allow", networks |-> {Network(4, <<10>>)}],
      [action |-> "block", networks |-> {Network(4, <<10, 0, 0, 1>>)}],
      [action |-> "block", networks |-> {Network(6, <<10>>)}] }
=============================================================================
