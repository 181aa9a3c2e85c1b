-------------------------- MODULE CryptoTransport --------------------------
(***************************************************************************)
(* The ciphers of a tunnel (snitun/multiplexer/crypto.py) and the frame of *)
(* a NEW message (core.py, message.py), as far as lengths and order go: an *)
(* encrypted byte is the byte, and what a cipher adds are marks.           *)
(***************************************************************************)
EXTENDS Integers, Sequences

Ciphers == {"aes-cbc", "aes-gcm", "aes-gcm-siv"}

\* The marks of a nonce and of a tag.
Marks(n, mark) == [i \in 1 .. n |-> mark]
NONCE == Marks(12, 256)
TAG == Marks(16, 257)

\* overhead: bytes that each unit has more than its data
Overhead(cipher) == IF cipher = "aes-cbc" THEN 0 ELSE Len(NONCE) + Len(TAG)

\* update() of the CBC stream gives out whole blocks of 16 bytes and holds
\* back the rest; external
WholeBlocks(data) == SubSeq(data, 1, 16 * (Len(data) \div 16))

\* encrypt, when nothing is held back from earlier
Encrypt(cipher, data) ==
    IF cipher = "aes-cbc" THEN WholeBlocks(data) ELSE NONCE \o data \o TAG

\* decrypt of a unit that nobody has touched
Decrypt(cipher, unit) ==
    IF cipher = "aes-cbc" THEN WholeBlocks(unit)
    ELSE SubSeq(unit, Len(NONCE) + 1, Len(unit) - Len(TAG))

-----------------------------------------------------------------------------

HEADER_SIZE == 32
NEW_DATA_VERSION == 2  \* MIN_PROTOCOL_VERSION_FOR_ENCRYPTED_NEW

\* _write_message of NEW: id, flow type, size and extra, filled up; then data,
\* a unit of its own.
WriteNew(cipher, version, message) ==
    LET header == Marks(16, 9) \o <<1, 0, 0, 0, Len(message.data)>> \o message.extra
                      \o Marks(11 - Len(message.extra), 9)
    IN  Encrypt(cipher, header)
            \o (IF version >= NEW_DATA_VERSION THEN Encrypt(cipher, message.data)
                ELSE message.data)

NoMessage == [data |-> <<>>, extra |-> <<>>]

\* _read_message of what was written: the header tells how much follows.
\* NoMessage while bytes are missing, which then come from the next message.
ReadNew(cipher, version, wire) ==
    LET front == HEADER_SIZE + Overhead(cipher)
        header == Decrypt(cipher, SubSeq(wire, 1, front))
        encrypted == header[21] > 0 /\ version >= NEW_DATA_VERSION
        end == front + header[21] + (IF encrypted THEN Overhead(cipher) ELSE 0)
        data == SubSeq(wire, front + 1, end)
    IN  IF Len(wire) < end THEN NoMessage
        ELSE [data |-> IF encrypted THEN Decrypt(cipher, data) ELSE data,
              extra |-> SubSeq(header, 22, HEADER_SIZE)]
=============================================================================
