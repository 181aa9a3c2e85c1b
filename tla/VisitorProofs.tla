--------------------------- MODULE VisitorProofs ---------------------------
(***************************************************************************)
(* What holds of every visitor: the idle timer keeps its range, a pause    *)
(* holds the data back, and the access list judges the address that the    *)
(* visitor has, for every address, version, cipher and list.  What the     *)
(* servers read, SNIListenerProofs is about.                               *)
(***************************************************************************)
EXTENDS Visitor, SNIListenerProofs

-----------------------------------------------------------------------------
(***************************************************************************)
(* The timer keeps its promise for every minimum and maximum.              *)
(***************************************************************************)

\* Types and range hold together: that a timer which reschedule() leaves alone
\* is due in time needs the bound on what remains, and that bound is kept
\* because time since the last activity and time left add up to a constant.
TimerInv == TimerTypeOK /\ TimerInRange

\* The limits as numbers.
LEMMA Limits ==
    MinTimeout \in Nat /\ MaxTimeout \in Nat /\ 0 < MinTimeout /\ MinTimeout < MaxTimeout
  BY TimeoutAssumption

\* Every step of the timer keeps both.
LEMMA TimerInvInductive == TimerInv /\ [TimerNext]_timerVars => TimerInv'
<1> SUFFICES ASSUME TimerInv, [TimerNext]_timerVars PROVE TimerInv'
  OBVIOUS
<1> USE Limits
<1>1. CASE Reschedule
  <2>1. CASE remaining > MinTimeout
    BY <1>1, <2>1 DEF TimerInv, TimerTypeOK, TimerInRange, Reschedule
  <2>2. CASE ~(remaining > MinTimeout)
    <3>1. armed' = TRUE /\ remaining' = MaxTimeout /\ idle' = 0
      BY <1>1, <2>2 DEF Reschedule
    <3> QED BY <3>1 DEF TimerInv, TimerTypeOK, TimerInRange
  <2> QED BY <2>1, <2>2
<1>2. CASE CancelTimer
  BY <1>2 DEF TimerInv, TimerTypeOK, TimerInRange, CancelTimer
<1>3. CASE Fire
  BY <1>3 DEF TimerInv, TimerTypeOK, TimerInRange, Fire
<1>4. CASE Tick
  <2>1. CASE armed
    BY <1>4, <2>1 DEF TimerInv, TimerTypeOK, TimerInRange, Tick
  <2>2. CASE ~armed
    BY <1>4, <2>2 DEF TimerInv, TimerTypeOK, TimerInRange, Tick
  <2> QED BY <2>1, <2>2
<1>5. CASE UNCHANGED timerVars
  BY <1>5 DEF TimerInv, TimerTypeOK, TimerInRange, timerVars
<1> QED BY <1>1, <1>2, <1>3, <1>4, <1>5 DEF TimerNext

\* The state of the timer has its type (asyncio.py:61-98).
THEOREM TimerTypeCorrect == TimerSpec => []TimerTypeOK
<1>1. armed = TRUE /\ remaining = MaxTimeout /\ idle = 0 => TimerInv
  BY Limits DEF TimerInv, TimerTypeOK, TimerInRange
<1>2. TimerInv => TimerTypeOK
  BY DEF TimerInv
<1> QED BY <1>1, <1>2, TimerInvInductive, PTL DEF TimerSpec

\* A running timer is due between the minimum and the maximum after the last
\* activity, for any two limits and any pattern of activity, cancellation and
\* time (asyncio.py:44-98).
THEOREM TimerInRangeHolds == TimerSpec => []TimerInRange
<1>1. armed = TRUE /\ remaining = MaxTimeout /\ idle = 0 => TimerInv
  BY Limits DEF TimerInv, TimerTypeOK, TimerInRange
<1>2. TimerInv => TimerInRange
  BY DEF TimerInv
<1> QED BY <1>1, <1>2, TimerInvInductive, PTL DEF TimerSpec

-----------------------------------------------------------------------------
(***************************************************************************)
(* The inductive invariant.  It has one part for each of the components    *)
(* that Visitor composes.                                                  *)
(***************************************************************************)

\* A chunk that slipped through a pause leaves the reader where it awaits the
\* end of the pause, or where it looks at it next.
Paused ==
    /\ passed \in {0, 1}
    /\ pause /\ passed = 1 => reader \in {"top", "held", "halfway"} \cup Ended

\* As long as a server listens the client knows nothing of the visitor.
Unserved == stage # "over" => reader = "none" /\ handler = "none" /\ passed = 0

\* What the access list said is what became of the visitor.
Judged ==
    /\ handler = "refused" => ~allowed
    /\ handler \notin {"none", "refused"} => allowed

\* A header gives an address or none.
Addressed ==
    /\ stream \in Streams /\ received \in Nat
    /\ source = NoAddress \/ IsAddress(source)

Inv == TimerInv /\ Paused /\ Unserved /\ Judged /\ Addressed

-----------------------------------------------------------------------------
(***************************************************************************)
(* The timer and the transport                                             *)
(***************************************************************************)

\* Every step of the visitor is a step of the timer or leaves it alone.
LEMMA TimerStep == [Next]_vars => [TimerNext]_timerVars
<1> SUFFICES ASSUME [Next]_vars PROVE [TimerNext]_timerVars
  OBVIOUS
<1>1. CASE Listens \/ StartFails \/ VisitorFallsQuiet \/ Transports(TransportNext)
             \/ UNCHANGED vars
  BY <1>1 DEF Listens, StartFails, VisitorFallsQuiet, Transports, vars, timerVars
<1>2. CASE StartProxy \/ VisitorSends \/ ProtocolWrites
  BY <1>2 DEF StartProxy, VisitorSends, ProtocolWrites, TimerNext
<1>3. CASE VisitorLeaves \/ SessionTimeout \/ ServerReceivesClose
  BY <1>3 DEF VisitorLeaves, SessionTimeout, ServerReceivesClose, TimerNext
<1>4. CASE TimePasses
  BY <1>4 DEF TimePasses, TimerNext
<1> QED BY <1>1, <1>2, <1>3, <1>4 DEF Next

\* What the reader task does keeps Paused: it feeds a chunk under a pause only
\* when none has passed, and then stops before the next.
LEMMA ReaderKeepsPaused ==
    ASSUME Paused, ReaderSteps \/ ReaderFails
    PROVE  Paused'
<1> USE DEF Paused
<1>1. CASE ReaderTop
  <2>1. CASE reader = "top" /\ pause /\ reader' = "held" /\ UNCHANGED pause
    BY <1>1, <2>1 DEF ReaderTop
  <2>2. CASE /\ TakeMessage
             /\ (reader = "top" /\ ~pause) \/ reader = "freed" \/ reader = "reading"
    <3>1. UNCHANGED passed /\ (pause => passed = 0)
      BY <1>1, <2>2 DEF ReaderTop, Ended
    <3>2. pause' => pause
      BY <2>2 DEF TakeMessage, ForceClose, Close, ReleasePause
    <3> QED BY <3>1, <3>2
  <2> QED BY <1>1, <2>1, <2>2 DEF ReaderTop
<1>2. CASE Feed
  <2>1. CASE pause
    <3>1. passed = 0 /\ passed' = 1 /\ pause' = TRUE
      BY <1>2, <2>1 DEF Feed, Ended
    <3>2. reader' \in {"top", "halfway"}
      BY <1>2, <3>1 DEF Feed, NextChunk
    <3> QED BY <3>1, <3>2
  <2>2. CASE ~pause
    <3>1. pause' => passed' = 0
      BY <1>2, <2>2 DEF Feed, MayPause
    <3>2. passed' \in {0, 1}
      BY <1>2, <2>2 DEF Feed, MayPause
    <3> QED BY <3>1, <3>2
  <2> QED BY <2>1, <2>2
<1>3. CASE ReaderFails
  BY <1>3 DEF ReaderFails, ForceClose, Close, ReleasePause
<1>4. CASE ReaderCancelled
  BY <1>4 DEF ReaderCancelled, Ended
<1> QED BY <1>1, <1>2, <1>3, <1>4 DEF ReaderSteps

\* So does everything else that happens to the transport: a pause begins with
\* no chunk passed, and a reader is set going only by what ends the pause.
LEMMA TransportKeepsPaused ==
    ASSUME Paused, TransportNext
    PROVE  Paused'
<1> USE DEF Paused
<1>1. CASE ReaderSteps \/ ReaderFails
  BY <1>1, ReaderKeepsPaused
<1>2. CASE ProtocolCloses \/ ProtocolWriteFails \/ ProtocolResumes \/ TlsFails
  <2>1. pause' = FALSE /\ UNCHANGED passed
    BY <1>2 DEF ProtocolCloses, ProtocolWriteFails, ProtocolResumes, TlsFails, ForceClose,
                Close, ReleasePause
  <2> QED BY <2>1
<1>3. CASE HandlerSteps \/ TlsDone \/ Water
  <2>1. UNCHANGED <<passed, pause, reader>>
    BY <1>3 DEF HandlerSteps, StopReaderEnds, HandlerEnds, ConnectionLost, TlsDone, Water
  <2> QED BY <2>1
<1>4. CASE ProtocolPauses
  BY <1>4 DEF ProtocolPauses, MayPause
<1> QED BY <1>1, <1>2, <1>3, <1>4 DEF TransportNext

\* The messages of the server do not touch the reader.
LEMMA ReceiveFrame ==
    ASSUME ReceiveClose \/ \E n \in 1 .. MaxChunks : ReceiveData(n)
    PROVE  UNCHANGED <<passed, pause, reader, handler>>
  BY DEF ReceiveClose, ReceiveData, transportVars

\* A visitor whom no client serves has nothing that the transport could do.
LEMMA TransportNeedsReader ==
    ASSUME TransportNext, reader = "none", handler = "none"
    PROVE  UNCHANGED <<reader, handler, passed>>
<1>1. ~ReaderSteps /\ ~ReaderFails
  BY DEF ReaderSteps, ReaderTop, Feed, ReaderCancelled, ReaderFails
<1>2. CASE ConnectionLost
  BY <1>2 DEF ConnectionLost
<1>3. ~(\/ ProtocolCloses \/ ProtocolWriteFails \/ TlsDone \/ TlsFails
        \/ ProtocolPauses \/ ProtocolResumes \/ Water \/ StopReaderEnds \/ HandlerEnds)
  BY DEF ProtocolCloses, ProtocolWriteFails, TlsDone, TlsFails, ProtocolPauses,
         ProtocolResumes, Water, StopReaderEnds, HandlerEnds, InUse
<1> QED BY <1>1, <1>2, <1>3 DEF TransportNext, HandlerSteps

\* The handler goes its way and does not come back to the access list.
LEMMA TransportKeepsHandler ==
    ASSUME TransportNext
    PROVE  \/ UNCHANGED handler
           \/ /\ handler \in {"tls", "failing", "serving"}
              /\ handler' \in {"failing", "serving", "done"}
  BY DEF TransportNext, ReaderSteps, ReaderTop, Feed, ReaderCancelled, ReaderFails,
         ProtocolCloses, ProtocolWriteFails, HandlerSteps, StopReaderEnds, HandlerEnds,
         ConnectionLost, TlsDone, TlsFails, ProtocolPauses, ProtocolResumes, Water
-----------------------------------------------------------------------------
(***************************************************************************)
(* The frame of NEW                                                        *)
(***************************************************************************)

\* What a division by 16 leaves, written out: the provers do not compute with
\* negative numbers.
LEMMA Division ==
    \A x \in Int : /\ x = 16 * (x \div 16) + (x % 16)
                   /\ x \div 16 \in Int
                   /\ x % 16 \in 0 .. 15
  OBVIOUS

\* The padding of init_new fills a block of an address up to one or two blocks
\* of the cipher.
LEMMA PaddingSizes == (-5) % 16 = 11 /\ (-17) % 16 = 15
<1>1. \A q \in Int, r \in 0 .. 15 :
         (-5 = 16 * q + r => r = 11) /\ (-17 = 16 * q + r => r = 15)
  OBVIOUS
<1>2. -5 \in Int /\ -17 \in Int
  OBVIOUS
<1>3. PICK q \in Int, r \in 0 .. 15 : q = (-5) \div 16 /\ r = (-5) % 16
  BY <1>2, Division
<1>4. PICK s \in Int, t \in 0 .. 15 : s = (-17) \div 16 /\ t = (-17) % 16
  BY <1>2, Division
<1>5. -5 = 16 * q + r /\ -17 = 16 * s + t
  BY <1>2, <1>3, <1>4, Division, Zenon
<1> QED BY <1>1, <1>3, <1>4, <1>5, Zenon

\* The marks of a cipher.
LEMMA MarkSizes ==
    /\ NONCE \in Seq(Nat) /\ Len(NONCE) = 12
    /\ TAG \in Seq(Nat) /\ Len(TAG) = 16
  BY DEF NONCE, TAG, Marks

\* A part of a sequence.
LEMMA SubSeqEffect ==
    ASSUME NEW S, NEW s \in Seq(S), NEW m \in Nat, NEW n \in Nat, 1 <= m, m <= n + 1, n <= Len(s)
    PROVE  /\ SubSeq(s, m, n) \in Seq(S)
           /\ Len(SubSeq(s, m, n)) = n - m + 1
           /\ \A i \in 1 .. n - m + 1 : SubSeq(s, m, n)[i] = s[m + i - 1]
  OBVIOUS

\* Two sequences in a row.
LEMMA ConcatEffect ==
    ASSUME NEW S, NEW a \in Seq(S), NEW b \in Seq(S)
    PROVE  /\ a \o b \in Seq(S)
           /\ Len(a \o b) = Len(a) + Len(b)
           /\ \A i \in 1 .. Len(a) : (a \o b)[i] = a[i]
           /\ \A i \in 1 .. Len(b) : (a \o b)[Len(a) + i] = b[i]
  OBVIOUS

\* The middle of three sequences.
LEMMA MiddlePart ==
    ASSUME NEW S, NEW a \in Seq(S), NEW b \in Seq(S), NEW c \in Seq(S)
    PROVE  SubSeq(a \o b \o c, Len(a) + 1, Len(a) + Len(b)) = b
<1> DEFINE w == a \o b \o c
<1>1. w \in Seq(S) /\ Len(w) = Len(a) + Len(b) + Len(c)
  OBVIOUS
<1>2. \A i \in 1 .. Len(b) : w[Len(a) + i] = b[i]
  OBVIOUS
<1>3. Len(SubSeq(w, Len(a) + 1, Len(a) + Len(b))) = Len(b)
  BY <1>1
<1>4. SubSeq(w, Len(a) + 1, Len(a) + Len(b)) \in Seq(S)
  BY <1>1
<1>5. \A i \in 1 .. Len(b) : SubSeq(w, Len(a) + 1, Len(a) + Len(b))[i] = b[i]
  BY <1>1, <1>2
<1> QED BY <1>3, <1>4, <1>5

\* The front and the rest of two sequences.
LEMMA TwoParts ==
    ASSUME NEW S, NEW a \in Seq(S), NEW b \in Seq(S)
    PROVE  /\ SubSeq(a \o b, 1, Len(a)) = a
           /\ SubSeq(a \o b, Len(a) + 1, Len(a) + Len(b)) = b
  OBVIOUS

\* A unit of whole blocks is longer by the overhead of the cipher and is
\* decrypted to what it was.
LEMMA UnitRoundTrip ==
    ASSUME NEW cipher \in Ciphers, NEW d \in Seq(Nat), Len(d) \in {16, 32}
    PROVE  /\ Encrypt(cipher, d) \in Seq(Nat)
           /\ Len(Encrypt(cipher, d)) = Len(d) + Overhead(cipher)
           /\ Overhead(cipher) \in Nat
           /\ Decrypt(cipher, Encrypt(cipher, d)) = d
<1>1. CASE cipher = "aes-cbc"
  <2>1. 16 * (16 \div 16) = 16 /\ 16 * (32 \div 16) = 32
    OBVIOUS
  <2>2. 16 * (Len(d) \div 16) = Len(d)
    BY <2>1, Zenon
  <2>3. WholeBlocks(d) = SubSeq(d, 1, Len(d))
    BY <2>2, Zenon DEF WholeBlocks
  <2>4. WholeBlocks(d) = d
    BY <2>3
  <2> QED BY <1>1, <2>4 DEF Encrypt, Decrypt, Overhead
<1>2. CASE cipher # "aes-cbc"
  <2>1. Encrypt(cipher, d) = NONCE \o d \o TAG /\ Overhead(cipher) = 28
    <3>1. Encrypt(cipher, d) = NONCE \o d \o TAG
      BY <1>2, Zenon DEF Encrypt
    <3>2. Overhead(cipher) = Len(NONCE) + Len(TAG)
      BY <1>2, Zenon DEF Overhead
    <3>3. Len(NONCE) = 12 /\ Len(TAG) = 16
      BY MarkSizes, Zenon
    <3>4. Overhead(cipher) = 28
      BY <3>2, <3>3
    <3> QED BY <3>1, <3>4, Zenon
  <2>2. NONCE \o d \o TAG \in Seq(Nat) /\ Len(NONCE \o d \o TAG) = Len(d) + 28
    <3>1. PICK n \in Seq(Nat) : n = NONCE /\ Len(n) = 12
      BY MarkSizes, Zenon
    <3>2. PICK t \in Seq(Nat) : t = TAG /\ Len(t) = 16
      BY MarkSizes, Zenon
    <3>3. n \o d \o t \in Seq(Nat) /\ Len(n \o d \o t) = Len(d) + 28
      <4>1. n \o d \in Seq(Nat) /\ Len(n \o d) = Len(n) + Len(d)
        OBVIOUS
      <4>2. PICK x \in Seq(Nat) : x = n \o d /\ Len(x) = 12 + Len(d)
        BY <3>1, <4>1, Zenon
      <4>3. x \o t \in Seq(Nat) /\ Len(x \o t) = Len(x) + Len(t)
        OBVIOUS
      <4> QED BY <3>2, <4>2, <4>3
    <3> QED BY <3>1, <3>2, <3>3, Zenon
  <2>3. Decrypt(cipher, NONCE \o d \o TAG)
           = SubSeq(NONCE \o d \o TAG, Len(NONCE) + 1, Len(NONCE) + Len(d))
    BY <1>2, <2>2, MarkSizes DEF Decrypt
  <2>4. Decrypt(cipher, NONCE \o d \o TAG) = d
    BY <2>3, MarkSizes, MiddlePart, Zenon
  <2> QED BY <2>1, <2>2, <2>4
<1> QED BY <1>1, <1>2

\* Of two units in a row the header tells where the second one ends.
LEMMA FrameRoundTrip ==
    ASSUME NEW cipher \in Ciphers, NEW version \in Nat,
           NEW header \in Seq(Nat), Len(header) = 32,
           NEW data \in Seq(Nat), header[21] = Len(data),
           version >= 2 => Len(data) \in {16, 32},
           ~(version >= 2) => data = <<>>
    PROVE  ReadNew(cipher, version,
                   Encrypt(cipher, header)
                      \o (IF version >= NEW_DATA_VERSION THEN Encrypt(cipher, data) ELSE data))
              = [data |-> data, extra |-> SubSeq(header, 22, 32)]
<1> DEFINE first == Encrypt(cipher, header)
           second == IF version >= NEW_DATA_VERSION THEN Encrypt(cipher, data) ELSE data
           more == IF version >= 2 THEN Overhead(cipher) ELSE 0
           wire == first \o second
           front == HEADER_SIZE + Overhead(cipher)
<1>1. /\ first \in Seq(Nat) /\ Len(first) = front
      /\ Overhead(cipher) \in Nat
      /\ Decrypt(cipher, first) = header
  BY UnitRoundTrip DEF HEADER_SIZE
<1>2. /\ second \in Seq(Nat) /\ Len(second) = Len(data) + more
      /\ version >= 2 => Decrypt(cipher, second) = data
      /\ version < 2 => second = data
  <2>1. CASE version >= 2
    <3>1. second = Encrypt(cipher, data) /\ more = Overhead(cipher) /\ ~(version < 2)
      BY <2>1 DEF NEW_DATA_VERSION
    <3>2. Len(data) \in {16, 32}
      BY <2>1
    <3> HIDE DEF second, more
    <3> QED BY <3>1, <3>2, UnitRoundTrip
  <2>2. CASE ~(version >= 2)
    <3>1. second = data /\ more = 0
      BY <2>2 DEF NEW_DATA_VERSION
    <3>2. data = <<>> /\ Len(data) = 0
      BY <2>2
    <3> HIDE DEF second, more
    <3> QED BY <2>2, <3>1, <3>2
  <2> QED BY <2>1, <2>2
<1> HIDE DEF first, second, more
<1>3. SubSeq(wire, 1, front) = first
  <2>1. SubSeq(first \o second, 1, Len(first)) = first
    BY <1>1, <1>2, TwoParts
  <2> QED BY <1>1, <2>1, Zenon
<1>4. SubSeq(wire, front + 1, front + Len(second)) = second
  <2>1. SubSeq(first \o second, Len(first) + 1, Len(first) + Len(second)) = second
    BY <1>1, <1>2, TwoParts
  <2> QED BY <1>1, <2>1, Zenon
<1>5. Len(wire) = front + Len(second)
  <2>1. Len(first \o second) = Len(first) + Len(second)
    BY <1>1, <1>2, ConcatEffect, ZenonT(60)
  <2> QED BY <1>1, <2>1, Zenon
<1> DEFINE encrypted == header[21] > 0 /\ version >= NEW_DATA_VERSION
           end == front + header[21] + (IF encrypted THEN Overhead(cipher) ELSE 0)
<1>6. encrypted <=> version >= 2
  BY DEF NEW_DATA_VERSION
<1>7. end = front + Len(second)
  BY <1>1, <1>2, <1>6 DEF HEADER_SIZE, more
<1>8. ReadNew(cipher, version, wire)
         = IF Len(wire) < end THEN NoMessage
           ELSE [data |-> IF encrypted THEN Decrypt(cipher, SubSeq(wire, front + 1, end))
                          ELSE SubSeq(wire, front + 1, end),
                 extra |-> SubSeq(header, 22, HEADER_SIZE)]
  BY <1>1, <1>3 DEF ReadNew
<1> HIDE DEF wire, front, encrypted, end
<1>9. ~(Len(wire) < end)
  BY <1>5, <1>7, <1>1, <1>2 DEF front, HEADER_SIZE
<1>10. (IF encrypted THEN Decrypt(cipher, SubSeq(wire, front + 1, end))
        ELSE SubSeq(wire, front + 1, end)) = data
  <2>1. SubSeq(wire, front + 1, end) = second
    BY <1>4, <1>7, Zenon
  <2>2. CASE encrypted
    BY <1>2, <1>6, <2>1, <2>2, Zenon
  <2>3. CASE ~encrypted
    <3>1. second = data
      BY <1>2, <1>6, <2>3
    <3> QED BY <2>1, <2>3, <3>1, Zenon
  <2> QED BY <2>2, <2>3
<1> QED BY <1>8, <1>9, <1>10 DEF HEADER_SIZE, wire, first, second
\* Marks are a sequence of their length.
LEMMA MarksEffect ==
    ASSUME NEW n \in Nat, NEW mark \in Nat
    PROVE  Marks(n, mark) \in Seq(Nat) /\ Len(Marks(n, mark)) = n
  BY DEF Marks

\* The header that WriteNew puts together.
HeaderOf(size, extra) ==
    Marks(16, 9) \o <<1, 0, 0, 0, size>> \o extra \o Marks(11 - Len(extra), 9)

\* The header of NEW has its size behind id and flow type, and then extra.
LEMMA HeaderEffect ==
    ASSUME NEW size \in Nat, NEW extra \in Seq(Nat), Len(extra) <= 11
    PROVE  /\ HeaderOf(size, extra) \in Seq(Nat)
           /\ Len(HeaderOf(size, extra)) = 32
           /\ HeaderOf(size, extra)[21] = size
           /\ \A i \in 1 .. Len(extra) : HeaderOf(size, extra)[21 + i] = extra[i]
<1>1. PICK id \in Seq(Nat) : id = Marks(16, 9) /\ Len(id) = 16
  <2>1. Marks(16, 9) \in Seq(Nat) /\ Len(Marks(16, 9)) = 16
    BY MarksEffect
  <2> QED BY <2>1, Zenon
<1>2. PICK word \in Seq(Nat) : word = <<1, 0, 0, 0, size>> /\ Len(word) = 5 /\ word[5] = size
  <2>1. LET word == <<1, 0, 0, 0, size>>
        IN  word \in Seq(Nat) /\ Len(word) = 5 /\ word[5] = size
    OBVIOUS
  <2> QED BY <2>1, Zenon
<1>3. PICK fill \in Seq(Nat) : fill = Marks(11 - Len(extra), 9) /\ Len(fill) = 11 - Len(extra)
  <2>1. 11 - Len(extra) \in Nat /\ 9 \in Nat
    OBVIOUS
  <2>2. /\ Marks(11 - Len(extra), 9) \in Seq(Nat)
        /\ Len(Marks(11 - Len(extra), 9)) = 11 - Len(extra)
    BY <2>1, MarksEffect, Zenon
  <2> QED BY <2>2, Zenon
<1>4. PICK a \in Seq(Nat) : a = id \o word /\ Len(a) = 21 /\ a[21] = size
  <2>1. id \o word \in Seq(Nat) /\ Len(id \o word) = Len(id) + Len(word)
    OBVIOUS
  <2>2. \A i \in 1 .. Len(word) : (id \o word)[Len(id) + i] = word[i]
    OBVIOUS
  <2>3. 16 + 5 = 21 /\ 5 \in 1 .. 5
    OBVIOUS
  <2>4. (id \o word)[16 + 5] = size
    BY <1>1, <1>2, <2>2, <2>3, Zenon
  <2>5. (id \o word)[21] = size /\ Len(id \o word) = 21
    BY <1>1, <1>2, <2>1, <2>3, <2>4, Zenon
  <2> QED BY <2>1, <2>5, Zenon
<1>5. PICK b \in Seq(Nat) :
         /\ b = a \o extra /\ Len(b) = 21 + Len(extra) /\ b[21] = size
         /\ \A i \in 1 .. Len(extra) : b[21 + i] = extra[i]
  <2>1. /\ a \o extra \in Seq(Nat) /\ Len(a \o extra) = Len(a) + Len(extra)
        /\ \A i \in 1 .. Len(a) : (a \o extra)[i] = a[i]
    BY ConcatEffect, ZenonT(60)
  <2>2. \A i \in 1 .. Len(extra) : (a \o extra)[Len(a) + i] = extra[i]
    OBVIOUS
  <2>3. 21 \in 1 .. 21
    OBVIOUS
  <2>4. (a \o extra)[21] = size
    BY <1>4, <2>1, <2>3, Zenon
  <2>5. \A i \in 1 .. Len(extra) : (a \o extra)[21 + i] = extra[i]
    BY <1>4, <2>2, Zenon
  <2> QED BY <1>4, <2>1, <2>4, <2>5, ZenonT(60)
<1>6. HeaderOf(size, extra) = b \o fill
  BY <1>1, <1>2, <1>3, <1>4, <1>5, Zenon DEF HeaderOf
<1>7. /\ Len(b \o fill) = Len(b) + Len(fill) /\ b \o fill \in Seq(Nat)
      /\ \A i \in 1 .. Len(b) : (b \o fill)[i] = b[i]
  BY ConcatEffect, ZenonT(60)
<1>8. /\ \A n \in Nat : n <= 11 => 21 + n + (11 - n) = 32 /\ 21 \in 1 .. 21 + n
      /\ \A n \in Nat : \A i \in 1 .. n : 21 + i \in 1 .. 21 + n
      /\ Len(extra) \in Nat
  OBVIOUS
<1> QED BY <1>3, <1>5, <1>6, <1>7, <1>8, ZenonT(60)

\* NEW is read as it was written, apart from what fills extra up.
LEMMA NewRoundTrip ==
    ASSUME NEW cipher \in Ciphers, NEW version \in Nat,
           NEW data \in Seq(Nat), NEW extra \in Seq(Nat), Len(extra) <= 11,
           version >= 2 => Len(data) \in {16, 32},
           ~(version >= 2) => data = <<>>
    PROVE  \E filled \in Seq(Nat) :
              /\ ReadNew(cipher, version,
                         WriteNew(cipher, version, [data |-> data, extra |-> extra]))
                    = [data |-> data, extra |-> filled]
              /\ Len(filled) = 11
              /\ \A i \in 1 .. Len(extra) : filled[i] = extra[i]
<1> DEFINE header == HeaderOf(Len(data), extra)
<1>1. /\ header \in Seq(Nat) /\ Len(header) = 32 /\ header[21] = Len(data)
      /\ \A i \in 1 .. Len(extra) : header[21 + i] = extra[i]
  <2>1. Len(data) \in Nat
    OBVIOUS
  <2> QED BY <2>1, HeaderEffect, ZenonT(60)
<1>2. WriteNew(cipher, version, [data |-> data, extra |-> extra])
         = Encrypt(cipher, header)
              \o (IF version >= NEW_DATA_VERSION THEN Encrypt(cipher, data) ELSE data)
  BY DEF WriteNew, HeaderOf
<1> HIDE DEF header
<1>3. ReadNew(cipher, version, WriteNew(cipher, version, [data |-> data, extra |-> extra]))
         = [data |-> data, extra |-> SubSeq(header, 22, 32)]
  <2>1. PICK h \in Seq(Nat) : h = header /\ Len(h) = 32 /\ h[21] = Len(data)
    BY <1>1, Zenon
  <2>2. ReadNew(cipher, version,
                Encrypt(cipher, h)
                   \o (IF version >= NEW_DATA_VERSION THEN Encrypt(cipher, data) ELSE data))
           = [data |-> data, extra |-> SubSeq(h, 22, 32)]
    BY <2>1, FrameRoundTrip, ZenonT(60)
  <2> QED BY <1>2, <2>1, <2>2, Zenon
<1>4. /\ SubSeq(header, 22, 32) \in Seq(Nat)
      /\ Len(SubSeq(header, 22, 32)) = 11
      /\ \A i \in 1 .. 11 : SubSeq(header, 22, 32)[i] = header[21 + i]
  <2> HIDE DEF header
  <2>1. PICK h \in Seq(Nat) : h = header /\ Len(h) = 32
    BY <1>1, Zenon
  <2>2. SubSeq(h, 22, 32) \in Seq(Nat) /\ Len(SubSeq(h, 22, 32)) = 11
    <3>1. Len(SubSeq(h, 22, 32)) = 32 - 22 + 1
      BY <2>1
    <3>2. SubSeq(h, 22, 32) \in Seq(Nat)
      <4>1. 22 \in Nat /\ 32 \in Nat /\ 1 <= 22 /\ 22 <= 32 + 1 /\ 32 <= 32
        OBVIOUS
      <4> QED BY <2>1, <4>1, SubSeqEffect, ZenonT(60)
    <3> QED BY <3>1, <3>2
  <2>3. \A i \in 1 .. 11 : SubSeq(h, 22, 32)[i] = h[21 + i]
    <3>1. \A i \in 1 .. 11 : SubSeq(h, 22, 32)[i] = h[22 + i - 1] /\ 22 + i - 1 = 21 + i
      BY <2>1
    <3> QED BY <3>1, Zenon
  <2> QED BY <2>1, <2>2, <2>3, Zenon
<1>5. \A i \in 1 .. Len(extra) : i \in 1 .. 11
  OBVIOUS
<1> QED BY <1>1, <1>3, <1>4, <1>5, ZenonT(60)
-----------------------------------------------------------------------------
(***************************************************************************)
(* The address in NEW                                                      *)
(***************************************************************************)

\* A mark in front of the bytes of an address, and whatever follows them.
LEMMA MarkedEffect ==
    ASSUME NEW mark \in Nat, NEW packed \in Seq(Nat), NEW n \in Nat, Len(packed) = n,
           NEW block, block = <<mark>> \o packed,
           NEW s \in Seq(Nat), n < Len(s), \A i \in 1 .. n + 1 : s[i] = block[i]
    PROVE  s[1] = mark /\ SubSeq(s, 2, n + 1) = packed
<1>1. PICK first \in Seq(Nat) : first = <<mark>> /\ Len(first) = 1 /\ first[1] = mark
  <2>1. <<mark>> \in Seq(Nat) /\ Len(<<mark>>) = 1 /\ <<mark>>[1] = mark
    OBVIOUS
  <2> QED BY <2>1, Zenon
<1>2. /\ \A i \in 1 .. Len(first) : (first \o packed)[i] = first[i]
      /\ \A i \in 1 .. Len(packed) : (first \o packed)[Len(first) + i] = packed[i]
  <2>1. \A i \in 1 .. Len(first) : (first \o packed)[i] = first[i]
    OBVIOUS
  <2>2. \A i \in 1 .. Len(packed) : (first \o packed)[Len(first) + i] = packed[i]
    OBVIOUS
  <2> QED BY <2>1, <2>2
<1>3. 1 \in 1 .. 1 /\ 1 \in 1 .. n + 1 /\ \A i \in 1 .. n : 1 + i \in 1 .. n + 1
  OBVIOUS
<1>4. s[1] = mark /\ \A i \in 1 .. n : s[1 + i] = packed[i]
  <2>1. block = first \o packed
    BY <1>1, Zenon
  <2>2. /\ \A i \in 1 .. 1 : block[i] = first[i]
        /\ \A i \in 1 .. n : block[1 + i] = packed[i]
    BY <1>1, <1>2, <2>1, Zenon
  <2> QED BY <1>1, <1>3, <2>2, Zenon
<1>5. /\ SubSeq(s, 2, n + 1) \in Seq(Nat)
      /\ Len(SubSeq(s, 2, n + 1)) = n
      /\ \A i \in 1 .. n : SubSeq(s, 2, n + 1)[i] = s[1 + i]
  OBVIOUS
<1>6. PICK t \in Seq(Nat) : /\ t = SubSeq(s, 2, n + 1)
                            /\ Len(t) = n
                            /\ \A i \in 1 .. n : t[i] = packed[i]
  <2>1. \A i \in 1 .. n : SubSeq(s, 2, n + 1)[i] = packed[i]
    BY <1>4, <1>5, Zenon
  <2> QED BY <1>5, <2>1, Zenon
<1>7. t = packed
  <2>1. Len(t) = Len(packed) /\ \A i \in 1 .. Len(t) : t[i] = packed[i]
    BY <1>6, Zenon
  <2> QED BY <2>1, SeqEqual, Zenon
<1> QED BY <1>4, <1>6, <1>7, Zenon

\* The padding of init_new.
Padded(block) == block \o SubSeq(Padding, 1, (-Len(block)) % 16)

\* The padding makes whole blocks and leaves what is in front of it.
LEMMA BlockEffect ==
    ASSUME NEW mark \in Nat, NEW packed \in Seq(Nat), Len(packed) \in {4, 16}
    PROVE  /\ Padded(<<mark>> \o packed) \in Seq(Nat)
           /\ Len(Padded(<<mark>> \o packed)) \in {16, 32}
           /\ Len(packed) < Len(Padded(<<mark>> \o packed))
           /\ Padded(<<mark>> \o packed)[1] = mark
           /\ SubSeq(Padded(<<mark>> \o packed), 2, Len(packed) + 1) = packed
<1>1. PICK block : block = <<mark>> \o packed
  OBVIOUS
<1>2. PICK data : data = Padded(block)
  OBVIOUS
<1>3. block \in Seq(Nat) /\ Len(block) = Len(packed) + 1
  <2>1. <<mark>> \in Seq(Nat) /\ Len(<<mark>>) = 1
    OBVIOUS
  <2>2. PICK first \in Seq(Nat) : first = <<mark>> /\ Len(first) = 1
    BY <2>1, Zenon
  <2>3. first \o packed \in Seq(Nat) /\ Len(first \o packed) = Len(packed) + 1
    BY <2>2, ConcatEffect
  <2> QED BY <1>1, <2>2, <2>3, Zenon
<1>4. PICK n \in Nat : /\ n = (-Len(block)) % 16
                       /\ n <= 15
                       /\ Len(block) + n \in {16, 32}
  <2>1. CASE Len(packed) = 4
    <3>1. Len(block) = 5 /\ 11 \in Nat /\ 11 <= 15 /\ 5 + 11 = 16
      BY <1>3, <2>1
    <3> QED BY <3>1, PaddingSizes, Zenon
  <2>2. CASE Len(packed) = 16
    <3>1. Len(block) = 17 /\ 15 \in Nat /\ 15 <= 15 /\ 17 + 15 = 32
      BY <1>3, <2>2
    <3> QED BY <3>1, PaddingSizes, Zenon
  <2> QED BY <2>1, <2>2
<1>5. PICK p \in Seq(Nat) : p = Padding /\ Len(p) = 15
  <2>1. Padding \in Seq(Nat) /\ Len(Padding) = 15
    BY DEF Padding
  <2> QED BY <2>1, Zenon
<1>6. PICK fill \in Seq(Nat) : fill = SubSeq(p, 1, n) /\ Len(fill) = n
  <2>1. SubSeq(p, 1, n) \in Seq(Nat) /\ Len(SubSeq(p, 1, n)) = n
    <3>1. 1 \in Nat /\ 1 <= 1 /\ 1 <= n + 1 /\ n <= Len(p) /\ n - 1 + 1 = n
      BY <1>4, <1>5
    <3>2. SubSeq(p, 1, n) \in Seq(Nat) /\ Len(SubSeq(p, 1, n)) = n - 1 + 1
      BY <3>1, SubSeqEffect, ZenonT(60)
    <3> QED BY <3>1, <3>2, Zenon
  <2> QED BY <2>1, Zenon
<1>7. PICK b \in Seq(Nat) : b = block /\ Len(b) = Len(packed) + 1
  BY <1>3, Zenon
<1>8. data = b \o fill
  BY <1>2, <1>4, <1>5, <1>6, <1>7, Zenon DEF Padded
<1>9. /\ b \o fill \in Seq(Nat) /\ Len(b \o fill) = Len(b) + Len(fill)
      /\ \A i \in 1 .. Len(b) : (b \o fill)[i] = b[i]
  OBVIOUS
<1>10. data \in Seq(Nat) /\ Len(data) \in {16, 32}
  <2>1. Len(data) = Len(block) + n
    BY <1>6, <1>7, <1>8, <1>9, Zenon
  <2>2. data \in Seq(Nat)
    BY <1>8, <1>9, Zenon
  <2> QED BY <1>4, <2>1, <2>2, Zenon
<1>11. Len(packed) < Len(data)
  <2>1. Len(data) = Len(packed) + 1 + n
    BY <1>6, <1>7, <1>8, <1>9, Zenon
  <2>2. \A k \in Nat : k < k + 1 + n
    OBVIOUS
  <2>3. Len(packed) \in Nat
    OBVIOUS
  <2> QED BY <2>1, <2>2, <2>3, Zenon
<1>12. \A i \in 1 .. Len(packed) + 1 : data[i] = block[i]
  BY <1>7, <1>8, <1>9, Zenon
<1>13. Len(packed) \in Nat
  OBVIOUS
<1>14. data[1] = mark /\ SubSeq(data, 2, Len(packed) + 1) = packed
  <2>1. PICK k \in Nat : k = Len(packed)
    BY <1>13, Zenon
  <2>2. PICK d \in Seq(Nat) : d = data
    BY <1>10, Zenon
  <2>3. k < Len(d) /\ \A i \in 1 .. k + 1 : d[i] = block[i]
    BY <1>11, <1>12, <2>1, <2>2, Zenon
  <2>4. d[1] = mark /\ SubSeq(d, 2, k + 1) = packed
    BY <1>1, <2>1, <2>3, MarkedEffect
  <2> QED BY <2>1, <2>2, <2>4, Zenon
<1> QED BY <1>1, <1>2, <1>10, <1>11, <1>14, Zenon
\* The address survives NEW of a new peer: it is in the data, which the cipher
\* gets in whole blocks.
LEMMA SeenByNewPeer ==
    ASSUME NEW family \in {4, 6}, NEW packed \in Seq(Nat),
           Len(packed) = IF family = 4 THEN 4 ELSE 16,
           NEW version \in Nat, version >= 2, NEW cipher \in Ciphers
    PROVE  Seen(Address(family, packed), version, cipher) = Address(family, packed)
<1> DEFINE address == Address(family, packed)
<1>1. PICK mark \in Nat : mark = IF family = 6 THEN SIX ELSE FOUR
  BY DEF SIX, FOUR
<1>2. PICK block : block = <<mark>> \o packed
  OBVIOUS
<1>3. PICK data : data = Padded(block)
  OBVIOUS
<1>4. Len(packed) \in {4, 16}
  OBVIOUS
<1>5. /\ data \in Seq(Nat) /\ Len(data) \in {16, 32} /\ Len(packed) < Len(data)
      /\ data[1] = mark /\ SubSeq(data, 2, Len(packed) + 1) = packed
  BY <1>2, <1>3, <1>4, BlockEffect, ZenonT(60)
<1>6. PICK d \in Seq(Nat) : /\ d = data /\ Len(d) \in {16, 32} /\ Len(packed) < Len(d)
                            /\ d[1] = mark /\ SubSeq(d, 2, Len(packed) + 1) = packed
  BY <1>5, Zenon
<1>7. address.family = family /\ address.packed = packed
  BY DEF Address
<1>8. InitNew(address, version) = [data |-> d, extra |-> <<>>]
  <2> HIDE DEF address
  <2> QED BY <1>1, <1>2, <1>3, <1>6, <1>7, Zenon DEF InitNew, Padded
<1>9. PICK filled \in Seq(Nat) :
         ReadNew(cipher, version, WriteNew(cipher, version, [data |-> d, extra |-> <<>>]))
            = [data |-> d, extra |-> filled]
  <2>1. <<>> \in Seq(Nat) /\ Len(<<>>) <= 11
    OBVIOUS
  <2>2. PICK extra \in Seq(Nat) : extra = <<>> /\ Len(extra) <= 11
    BY <2>1, Zenon
  <2>3. \E filled \in Seq(Nat) :
           /\ ReadNew(cipher, version,
                      WriteNew(cipher, version, [data |-> d, extra |-> extra]))
                 = [data |-> d, extra |-> filled]
           /\ Len(filled) = 11
           /\ \A i \in 1 .. Len(extra) : filled[i] = extra[i]
    <3>1. Len(d) \in {16, 32} /\ Len(extra) <= 11
      BY <1>6, <2>2, Zenon
    <3> QED BY <3>1, NewRoundTrip, ZenonT(60)
  <2> QED BY <2>2, <2>3, Zenon
<1> DEFINE message == [data |-> d, extra |-> filled]
<1>10. message # NoMessage
  <2>1. d # <<>>
    BY <1>6
  <2> QED BY <2>1 DEF NoMessage
<1>11. NewAddress(message, version) = address
  <2>1. /\ message.data = d
        /\ (IF message.data[1] = SIX THEN 16 ELSE 4) = Len(packed)
    <3>1. message.data = d
      OBVIOUS
    <3>2. (IF mark = SIX THEN 16 ELSE 4) = Len(packed)
      <4>1. SIX # FOUR
        BY DEF SIX, FOUR
      <4> QED BY <1>1, <4>1
    <3> HIDE DEF message
    <3> QED BY <1>6, <3>1, <3>2, Zenon
  <2>2. ~(Len(d) - 1 < Len(packed)) /\ ~(version < 2)
    <3>1. \A k, m \in Nat : k < m => ~(m - 1 < k)
      OBVIOUS
    <3>2. Len(packed) \in Nat /\ Len(d) \in Nat
      OBVIOUS
    <3> QED BY <1>6, <3>1, <3>2
  <2>3. NewAddress(message, version) = BytesToIpAddress(packed)
    <3> HIDE DEF message
    <3> QED BY <1>6, <2>1, <2>2, Zenon DEF NewAddress
  <2>4. BytesToIpAddress(packed) = Address(family, packed)
    BY DEF BytesToIpAddress
  <2> QED BY <2>3, <2>4
<1>12. Seen(address, version, cipher)
          = IF message = NoMessage THEN NoAddress ELSE NewAddress(message, version)
  <2> HIDE DEF address, message
  <2>1. ReadNew(cipher, version, WriteNew(cipher, version, InitNew(address, version))) = message
    BY <1>8, <1>9, Zenon DEF message
  <2> QED BY <2>1, Zenon DEF Seen
<1> QED BY <1>10, <1>11, <1>12, Zenon

\* An old peer has the address in the header, and the empty one for IPv6.
LEMMA SeenByOldPeer ==
    ASSUME NEW sent, IsAddress(sent), sent.family = 4,
           NEW address, sent = IF address.family = 6 THEN EmptyAddress ELSE address,
           NEW version \in Nat, ~(version >= 2), NEW cipher \in Ciphers
    PROVE  Seen(address, version, cipher) = sent
<1>1. PICK packed \in Seq(Nat) : /\ packed = sent.packed /\ Len(packed) = 4
                                 /\ sent = Address(4, packed)
  <2>1. PICK family \in {4, 6} : /\ sent = Address(family, sent.packed)
                                 /\ sent.packed \in Seq(Nat)
                                 /\ Len(sent.packed) = IF family = 4 THEN 4 ELSE 16
    BY DEF IsAddress
  <2>2. Address(family, sent.packed).family = family
    BY DEF Address
  <2>3. family = 4
    BY <2>1, <2>2, Zenon
  <2> QED BY <2>1, <2>3, Zenon
<1>2. PICK extra \in Seq(Nat) : extra = <<FOUR>> \o packed /\ Len(extra) = 5
  <2>1. PICK first \in Seq(Nat) : first = <<FOUR>> /\ Len(first) = 1
    <3>1. <<FOUR>> \in Seq(Nat) /\ Len(<<FOUR>>) = 1
      BY DEF FOUR
    <3> QED BY <3>1, Zenon
  <2>2. first \o packed \in Seq(Nat) /\ Len(first \o packed) = Len(first) + Len(packed)
    OBVIOUS
  <2>3. 1 + 4 = 5
    OBVIOUS
  <2> QED BY <1>1, <2>1, <2>2, <2>3, Zenon
<1>3. PICK data \in Seq(Nat) : data = <<>>
  <2>1. <<>> \in Seq(Nat)
    OBVIOUS
  <2> QED BY <2>1, Zenon
<1>4. InitNew(address, version) = [data |-> data, extra |-> extra]
  BY <1>1, <1>2, <1>3, Zenon DEF InitNew
<1>5. PICK filled \in Seq(Nat) :
         /\ ReadNew(cipher, version, WriteNew(cipher, version, [data |-> data, extra |-> extra]))
               = [data |-> data, extra |-> filled]
         /\ Len(filled) = 11
         /\ \A i \in 1 .. Len(extra) : filled[i] = extra[i]
  <2>1. Len(extra) <= 11
    BY <1>2
  <2> QED BY <1>3, <2>1, NewRoundTrip, ZenonT(60)
<1> DEFINE message == [data |-> data, extra |-> filled]
<1>6. message # NoMessage
  <2>1. Len(<<>>) # 11
    OBVIOUS
  <2>2. filled # <<>>
    BY <1>5, <2>1, Zenon
  <2> QED BY <2>2 DEF NoMessage
<1>7. SubSeq(filled, 2, 5) = packed
  <2>1. FOUR \in Nat /\ 4 < 11 /\ 4 + 1 = 5 /\ 4 \in Nat
    BY DEF FOUR
  <2>2. 4 < Len(filled) /\ \A i \in 1 .. 4 + 1 : filled[i] = extra[i]
    BY <1>2, <1>5, <2>1, Zenon
  <2>3. SubSeq(filled, 2, 4 + 1) = packed
    <3>1. PICK mark \in Nat, k \in Nat : mark = FOUR /\ k = 4
      BY <2>1, Zenon
    <3>2. /\ Len(packed) = k /\ extra = <<mark>> \o packed
          /\ k < Len(filled) /\ \A i \in 1 .. k + 1 : filled[i] = extra[i]
      BY <1>1, <1>2, <2>2, <3>1, Zenon
    <3>3. SubSeq(filled, 2, k + 1) = packed
      BY <3>2, MarkedEffect
    <3> QED BY <3>1, <3>3, Zenon
  <2> QED BY <2>1, <2>3, Zenon
<1>8. NewAddress(message, version) = sent
  <2>1. message.extra = filled /\ version < 2
    OBVIOUS
  <2>2. BytesToIpAddress(packed) = sent
    <3>1. Len(packed) = 4
      BY <1>1
    <3>2. BytesToIpAddress(packed) = Address(4, packed)
      BY <3>1 DEF BytesToIpAddress
    <3> QED BY <1>1, <3>2, Zenon
  <2> HIDE DEF message
  <2> QED BY <1>7, <2>1, <2>2, Zenon DEF NewAddress
<1>9. Seen(address, version, cipher)
         = IF message = NoMessage THEN NoAddress ELSE NewAddress(message, version)
  <2>1. ReadNew(cipher, version, WriteNew(cipher, version, InitNew(address, version))) = message
    BY <1>4, <1>5, Zenon
  <2> HIDE DEF message
  <2> QED BY <2>1, Zenon DEF Seen
<1> QED BY <1>6, <1>8, <1>9, Zenon

\* The client finds the address that the visitor has, as far as a client of
\* its version can.
LEMMA SeenIsAttributed ==
    ASSUME NEW address, IsAddress(address), NEW version \in Nat, NEW cipher \in Ciphers
    PROVE  Seen(address, version, cipher) = Attributed(address, version)
<1>1. PICK family \in {4, 6} : /\ address = Address(family, address.packed)
                               /\ address.packed \in Seq(Nat)
                               /\ Len(address.packed) = IF family = 4 THEN 4 ELSE 16
  BY DEF IsAddress
<1>2. address.family = family
  BY <1>1 DEF Address
<1>3. CASE version >= 2
  <2>1. Seen(address, version, cipher) = address
    BY <1>1, <1>3, SeenByNewPeer
  <2> QED BY <1>3, <2>1 DEF Attributed
<1>4. CASE ~(version >= 2)
  <2>1. PICK sent : sent = IF address.family = 6 THEN EmptyAddress ELSE address
    OBVIOUS
  <2>2. IsAddress(sent) /\ sent.family = 4
    <3>1. CASE family = 6
      <4>1. <<0, 0, 0, 0>> \in Seq(Nat) /\ Len(<<0, 0, 0, 0>>) = 4
        OBVIOUS
      <4>2. sent = Address(4, <<0, 0, 0, 0>>)
        BY <1>2, <2>1, <3>1, Zenon DEF EmptyAddress
      <4> QED BY <4>1, <4>2 DEF IsAddress, Address
    <3>2. CASE family = 4
      <4>1. sent = address
        BY <1>2, <2>1, <3>2
      <4> QED BY <1>2, <3>2, <4>1, Zenon
    <3> QED BY <3>1, <3>2
  <2>3. Seen(address, version, cipher) = sent
    BY <1>4, <2>1, <2>2, SeenByOldPeer
  <2>4. version < 2
    BY <1>4
  <2> QED BY <2>1, <2>3, <2>4, Zenon DEF Attributed
<1> QED BY <1>3, <1>4
-----------------------------------------------------------------------------
(***************************************************************************)
(* The address in the header                                               *)
(***************************************************************************)

\* The beginning of a sequence of bytes.
LEMMA FrontIsAddress ==
    ASSUME NEW family \in {4, 6}, NEW block \in Seq(Nat), NEW n \in Nat,
           n = IF family = 4 THEN 4 ELSE 16, n <= Len(block)
    PROVE  IsAddress(Address(family, SubSeq(block, 1, n)))
<1>1. PICK packed \in Seq(Nat) : packed = SubSeq(block, 1, n) /\ Len(packed) = n
  <2>1. SubSeq(block, 1, n) \in Seq(Nat) /\ Len(SubSeq(block, 1, n)) = n
    OBVIOUS
  <2> QED BY <2>1, Zenon
<1>2. IsAddress(Address(family, packed))
  BY <1>1 DEF IsAddress, Address
<1> QED BY <1>1, <1>2, Zenon

\* A v2 block gives an address if it is long enough for its family.
LEMMA BlockSource ==
    ASSUME NEW family, NEW block \in Seq(Nat), NEW size
    PROVE  LET found == ParseV2Block(family, block, size).source
           IN  found = NoAddress \/ IsAddress(found)
<1> DEFINE Fine(header) == header.source = NoAddress \/ IsAddress(header.source)
<1>1. Fine(Malformed) /\ Fine(Header(NoAddress, size))
  BY DEF Malformed, Raised, Header
<1>2. Len(block) \in Nat
  OBVIOUS
<1>3. CASE family = 1
  <2>1. CASE Len(block) < 12
    <3>1. ParseV2Block(family, block, size) = Malformed
      BY <1>3, <2>1 DEF ParseV2Block
    <3> QED BY <1>1, <3>1
  <2>2. CASE ~(Len(block) < 12)
    <3>1. IsAddress(Address(4, SubSeq(block, 1, 4)))
      BY <1>2, <2>2, FrontIsAddress
    <3>2. ParseV2Block(family, block, size) = Header(Address(4, SubSeq(block, 1, 4)), size)
      BY <1>3, <2>2 DEF ParseV2Block
    <3> QED BY <3>1, <3>2 DEF Header
  <2> QED BY <2>1, <2>2
<1>4. CASE family = 2
  <2>1. CASE Len(block) < 36
    <3>1. ParseV2Block(family, block, size) = Malformed
      BY <1>4, <2>1 DEF ParseV2Block
    <3> QED BY <1>1, <3>1
  <2>2. CASE ~(Len(block) < 36)
    <3>1. IsAddress(Address(6, SubSeq(block, 1, 16)))
      BY <1>2, <2>2, FrontIsAddress
    <3>2. ParseV2Block(family, block, size) = Header(Address(6, SubSeq(block, 1, 16)), size)
      BY <1>4, <2>2 DEF ParseV2Block
    <3> QED BY <3>1, <3>2 DEF Header
  <2> QED BY <2>1, <2>2
<1>5. CASE family # 1 /\ family # 2
  <2>1. ParseV2Block(family, block, size) = Header(NoAddress, size)
    BY <1>5 DEF ParseV2Block
  <2> QED BY <1>1, <2>1
<1> QED BY <1>3, <1>4, <1>5

\* A v1 line gives an address that ipaddress has accepted.
LEMMA LineSource ==
    ASSUME NEW fields, NEW size
    PROVE  LET found == ParseV1Line(fields, size).source
           IN  found = NoAddress \/ IsAddress(found)
<1>1. \/ ParseV1Line(fields, size) = Header(NoAddress, size)
      \/ ParseV1Line(fields, size) = Malformed
      \/ /\ fields[3] \in DOMAIN IpText
         /\ ParseV1Line(fields, size) = Header(IpText[fields[3]], size)
  BY Zenon DEF ParseV1Line
<1> QED BY <1>1, ProxyAssumption DEF Malformed, Raised, Header

\* Whatever was read, the header in it gives an address or none.
LEMMA HeaderSource ==
    ASSUME NEW data \in Seq(Nat)
    PROVE  LET found == ParseHeader(data).source
           IN  found = NoAddress \/ IsAddress(found)
<1> DEFINE Fine(header) == header.source = NoAddress \/ IsAddress(header.source)
<1>1. /\ Fine(Malformed) /\ Fine(Incomplete) /\ Fine(NotProxy)
      /\ \A size : Fine(Header(NoAddress, size))
  BY DEF Malformed, Incomplete, NotProxy, Raised, Header
<1>2. Fine(ParseV1(data))
  <2>1. \A fields, size : Fine(ParseV1Line(fields, size))
    BY LineSource
  <2> HIDE DEF Fine
  <2> QED BY <1>1, <2>1, Zenon DEF ParseV1
<1>3. Fine(ParseV2(data))
  <2> DEFINE size == V2_HEADER_LEN + Word(data, 15)
             block == SubSeq(data, V2_HEADER_LEN + 1, size)
  <2>1. \/ ParseV2(data) \in {Incomplete, Malformed, Header(NoAddress, size)}
        \/ /\ ~(Len(data) < V2_HEADER_LEN) /\ ~(Len(data) < size)
           /\ ParseV2(data) = ParseV2Block(data[14] \div 16, block, size)
    <3> HIDE DEF block
    <3> QED BY Zenon DEF ParseV2, block
  <2>2. ASSUME ~(Len(data) < V2_HEADER_LEN), ~(Len(data) < size)
        PROVE  block \in Seq(Nat)
    <3>1. data[15] \in Nat /\ data[15 + 1] \in Nat
      BY <2>2 DEF V2_HEADER_LEN
    <3>2. PICK k \in Nat : k = Word(data, 15)
      BY <3>1 DEF Word
    <3>3. 16 + k <= Len(data)
      BY <2>2, <3>2 DEF V2_HEADER_LEN
    <3>4. SubSeq(data, 16 + 1, 16 + k) \in Seq(Nat)
      BY <3>3
    <3> QED BY <3>2, <3>4 DEF V2_HEADER_LEN
  <2>3. ASSUME block \in Seq(Nat)
        PROVE  Fine(ParseV2Block(data[14] \div 16, block, size))
    <3> HIDE DEF block, size
    <3> QED BY <2>3, BlockSource
  <2> HIDE DEF Fine, block, size
  <2> QED BY <1>1, <2>1, <2>2, <2>3, Zenon
<1> HIDE DEF Fine
<1>4. Fine(ParseHeader(data))
  BY <1>1, <1>2, <1>3, Zenon DEF ParseHeader
<1> QED BY <1>4 DEF Fine
-----------------------------------------------------------------------------
(***************************************************************************)
(* The invariant holds                                                     *)
(***************************************************************************)

\* A read leaves the stream alone and takes the source from the header.
LEMMA ReadKeepsAddressed ==
    ASSUME Addressed, Read
    PROVE  Addressed'
<1>1. PICK n : /\ n \in received + 1 .. Len(stream.bytes)
               /\ received' = n
               /\ \/ stage = "header" /\ Strip(n)
                  \/ UNCHANGED source
  BY Zenon DEF Read
<1>2. stream.bytes \in Seq(Nat) /\ received \in Nat /\ stream \in Streams
  BY ListenerAssumption DEF Addressed
<1>3. n \in Nat /\ n <= Len(stream.bytes)
  BY <1>1, <1>2
<1>4. Rest(n, 0) \in Seq(Nat)
  <2>1. PICK s \in Seq(Nat) : s = stream.bytes
    BY <1>2, Zenon
  <2>2. SubSeq(s, 0 + 1, n) \in Seq(Nat)
    BY <1>3, <2>1
  <2> QED BY <2>1, <2>2 DEF Rest
<1>5. source' = NoAddress \/ IsAddress(source')
  <2>1. PICK data \in Seq(Nat) : data = Rest(n, 0)
    BY <1>4, Zenon
  <2>2. CASE Strip(n)
    <3>1. UNCHANGED source \/ source' = ParseHeader(data).source
      BY <2>1, <2>2, Zenon DEF Strip
    <3>2. PICK found : found = ParseHeader(data).source
      OBVIOUS
    <3>3. found = NoAddress \/ IsAddress(found)
      BY <3>2, HeaderSource, Zenon
    <3>4. CASE source' = found
      BY <3>3, <3>4
    <3>5. CASE UNCHANGED source
      BY <3>5 DEF Addressed
    <3> QED BY <3>1, <3>2, <3>4, <3>5, Zenon
  <2>3. CASE UNCHANGED source
    BY <2>3 DEF Addressed
  <2> QED BY <1>1, <2>2, <2>3
<1>6. UNCHANGED stream
  BY DEF Read
<1> QED BY <1>1, <1>2, <1>3, <1>5, <1>6, Zenon DEF Addressed

\* What a server has found stays an address.
LEMMA AddressedStep == Addressed /\ [Next]_vars => Addressed'
<1> SUFFICES ASSUME Addressed, [Next]_vars PROVE Addressed'
  OBVIOUS
<1>1. CASE Read
  BY <1>1, ReadKeepsAddressed
<1>2. CASE Forget
  <2>1. (CHOOSE s \in Streams : TRUE) \in Streams
    BY DEF Addressed
  <2> QED BY <1>2, <2>1 DEF Forget, Addressed
<1>3. CASE UNCHANGED <<stream, received, source>>
  BY <1>3 DEF Addressed
<1> QED BY <1>1, <1>2, <1>3
        DEF Next, Listens, Abort, StartProxy, StartFails, VisitorSends, VisitorLeaves,
            EndSession, VisitorFallsQuiet, ProtocolWrites, SessionTimeout,
            ServerReceivesClose, TimePasses, Transports, listenVars, vars

\* Steps are of one of these shapes, as far as the client is concerned.
LEMMA StepShapes ==
    ASSUME [Next]_vars
    PROVE  \/ UNCHANGED <<stage, passed, pause, reader, handler, allowed>>
           \/ stage \in Waiting /\ UNCHANGED <<passed, pause, reader, handler, allowed>>
           \/ StartProxy
           \/ stage' = "over" /\ UNCHANGED <<passed, pause, reader, handler, allowed>>
           \/ TransportNext /\ UNCHANGED <<stage, allowed>>
<1>1. CASE Listens
  BY <1>1 DEF Listens, Read, Abort, transportVars, visitorVars
<1>2. CASE StartFails
  BY <1>2 DEF StartFails, Forget, transportVars
<1>3. CASE VisitorSends \/ VisitorLeaves \/ SessionTimeout
  <2>1. UNCHANGED <<passed, pause, reader, handler>>
    BY <1>3, ReceiveFrame DEF VisitorSends, VisitorLeaves, SessionTimeout, EndSession
  <2> QED BY <1>3, <2>1 DEF VisitorSends, VisitorLeaves, SessionTimeout, EndSession, listenVars
<1>4. CASE \/ VisitorFallsQuiet \/ ProtocolWrites \/ ServerReceivesClose \/ TimePasses
           \/ UNCHANGED vars
  BY <1>4 DEF VisitorFallsQuiet, ProtocolWrites, ServerReceivesClose, TimePasses, vars,
              listenVars, transportVars, visitorVars
<1>5. CASE Transports(TransportNext)
  BY <1>5 DEF Transports, listenVars, visitorVars
<1> QED BY <1>1, <1>2, <1>3, <1>4, <1>5 DEF Next

\* The address of the header, or else of the socket, reaches the client.
LEMMA VisitorIsSeen ==
    ASSUME Addressed
    PROVE  \A version \in Versions, cipher \in Ciphers :
              Seen(VisitorAddress, version, cipher) = Attributed(VisitorAddress, version)
<1>1. PICK address : address = VisitorAddress
  OBVIOUS
<1>2. IsAddress(address)
  BY <1>1, VisitorAssumption DEF VisitorAddress, Addressed
<1>3. \A version \in Versions, cipher \in Ciphers :
         Seen(address, version, cipher) = Attributed(address, version)
  <2>1. \A version \in Versions : version \in Nat
    BY VisitorAssumption
  <2> QED BY <1>2, <2>1, SeenIsAttributed, Zenon
<1> QED BY <1>1, <1>3, Zenon

\* The client starts with what the access list says of the visitor's address.
LEMMA StartProxyStep ==
    ASSUME Inv, StartProxy
    PROVE  Paused' /\ Unserved' /\ Judged'
<1>1. stage' = "over" /\ passed = 0 /\ reader = "none"
  BY DEF StartProxy, Forget, Inv, Unserved
<1>2. PICK version \in Versions, cipher \in Ciphers, list \in AccessLists :
         /\ allowed' = CheckPolicy(list, Attributed(VisitorAddress, version))
         /\ \/ CheckPolicy(list, Seen(VisitorAddress, version, cipher)) /\ HandlerStart
            \/ ~CheckPolicy(list, Seen(VisitorAddress, version, cipher)) /\ HandlerRefuses
  BY Zenon DEF StartProxy
<1>3. Seen(VisitorAddress, version, cipher) = Attributed(VisitorAddress, version)
  BY VisitorIsSeen DEF Inv
<1>4. CASE CheckPolicy(list, Seen(VisitorAddress, version, cipher)) /\ HandlerStart
  <2>1. allowed' = TRUE
    BY <1>2, <1>3, <1>4, Zenon DEF CheckPolicy
  <2>2. handler' = "tls" /\ UNCHANGED passed
    BY <1>4 DEF HandlerStart
  <2> QED BY <1>1, <2>1, <2>2 DEF Paused, Unserved, Judged
<1>5. CASE ~CheckPolicy(list, Seen(VisitorAddress, version, cipher)) /\ HandlerRefuses
  <2>1. ~allowed'
    BY <1>2, <1>3, <1>5, Zenon
  <2>2. handler' = "refused" /\ UNCHANGED passed
    BY <1>5 DEF HandlerRefuses
  <2> QED BY <1>1, <2>1, <2>2 DEF Paused, Unserved, Judged
<1> QED BY <1>2, <1>4, <1>5

\* The invariant holds at first.
LEMMA InvInit == Init => Inv
<1> SUFFICES ASSUME Init PROVE Inv
  OBVIOUS
<1>1. TimerInv
  <2>1. armed = FALSE /\ remaining = 0 /\ idle = 0
    BY DEF Init, TimerInit
  <2>2. 0 \in 0 .. MaxTimeout
    BY Limits
  <2> QED BY <2>1, <2>2, Zenon DEF TimerInv, TimerTypeOK, TimerInRange
<1>2. Paused /\ Unserved /\ Judged
  BY DEF Init, TransportInit, Paused, Unserved, Judged
<1>3. Addressed
  BY DEF Init, ListenInit, Addressed
<1> QED BY <1>1, <1>2, <1>3 DEF Inv

\* Every step keeps it.
LEMMA InvNext == Inv /\ [Next]_vars => Inv'
<1> SUFFICES ASSUME Inv, [Next]_vars PROVE Inv'
  OBVIOUS
<1>1. TimerInv' /\ Addressed'
  BY TimerStep, TimerInvInductive, AddressedStep DEF Inv
<1>2. Paused' /\ Unserved' /\ Judged'
  <2>1. CASE UNCHANGED <<stage, passed, pause, reader, handler, allowed>>
    BY <2>1 DEF Inv, Paused, Unserved, Judged
  <2>2. CASE stage \in Waiting /\ UNCHANGED <<passed, pause, reader, handler, allowed>>
    BY <2>2 DEF Inv, Paused, Unserved, Judged, Waiting
  <2>3. CASE StartProxy
    BY <2>3, StartProxyStep
  <2>4. CASE stage' = "over" /\ UNCHANGED <<passed, pause, reader, handler, allowed>>
    BY <2>4 DEF Inv, Paused, Unserved, Judged
  <2>5. CASE TransportNext /\ UNCHANGED <<stage, allowed>>
    <3>1. Paused'
      BY <2>5, TransportKeepsPaused DEF Inv
    <3>2. Unserved'
      BY <2>5, TransportNeedsReader DEF Inv, Unserved
    <3>3. Judged'
      BY <2>5, TransportKeepsHandler DEF Inv, Judged
    <3> QED BY <3>1, <3>2, <3>3
  <2> QED BY <2>1, <2>2, <2>3, <2>4, <2>5, StepShapes
<1> QED BY <1>1, <1>2 DEF Inv

\* The invariant of the visitor's way: the timer, the pause, the access list
\* and the address of the header hold together (listener_sni.py:94-365,
\* transport.py, connector.py, core.py:361-373).
THEOREM InvHolds == Spec => []Inv
  BY InvInit, InvNext, PTL DEF Spec

\* A paused protocol gets at most the chunk that was under way, for any size
\* of the queue and any number of chunks in a message (transport.py:150-224,
\* 331-346).
THEOREM PauseHoldsBackHolds == Spec => []PauseHoldsBack
<1>1. Inv => PauseHoldsBack
  BY DEF Inv, Paused, PauseHoldsBack
<1> QED BY <1>1, InvHolds, PTL

\* The access list judges the address that the visitor has, for every address
\* of both families, version, cipher, access list and stream of bytes
\* (channel.py:300-326, core.py:247-335, 361-373, connector.py:70-75).
THEOREM PolicyIsKeptHolds == Spec => []PolicyIsKept
<1>1. Inv => PolicyIsKept
  BY VisitorIsSeen DEF Inv, Judged, PolicyIsKept
<1> QED BY <1>1, InvHolds, PTL

\* The idle timer of a session keeps its range although it is created anew,
\* put off from both directions and cancelled by the end of the session
\* (listener_sni.py:258-365, asyncio.py:44-98).
THEOREM SessionTimerInRange == Spec => []TimerInRange
<1>1. Inv => TimerInRange
  BY DEF Inv, TimerInv
<1> QED BY <1>1, InvHolds, PTL

-----------------------------------------------------------------------------
(***************************************************************************)
(* What a server makes of the beginning of a connection                    *)
(***************************************************************************)

\* The listener is left alone, or forgotten, by every step but its own.
LEMMA ListenStep ==
    ASSUME Listening, ServedAsSent, [Next]_vars
    PROVE  Listening' /\ ServedAsSent'
<1>1. CASE Read
  BY <1>1, ReadKeeps
<1>2. CASE Abort
  BY <1>2, AbortKeeps
<1>3. CASE Forget
  <2>1. stream \in Streams
    BY DEF Listening
  <2>2. stream' \in Streams
    BY <1>3, <2>1 DEF Forget
  <2>3. stream'.bytes \in Seq(Nat)
    BY <2>2, ListenerAssumption
  <2>4. received' = 0 /\ stage' = "over" /\ server' = [kind |-> "sni", proxy |-> FALSE]
    BY <1>3 DEF Forget
  <2>5. received' \in 0 .. Len(stream'.bytes)
    BY <2>3, <2>4
  <2>6. server' \in Servers
    BY <2>4 DEF Servers
  <2> QED BY <2>2, <2>4, <2>5, <2>6, OverKeeps
<1>4. CASE UNCHANGED listenVars
  BY <1>4, ListenStutters
<1> QED BY <1>1, <1>2, <1>3, <1>4
        DEF Next, Listens, StartProxy, StartFails, VisitorSends, VisitorLeaves,
            EndSession, VisitorFallsQuiet, ProtocolWrites, SessionTimeout,
            ServerReceivesClose, TimePasses, Transports, vars

\* For every stream of StreamAssumption (a name, a token, or nothing that can be
\* served) and every split of it: a connection that is served or taken for a
\* client's is so with the name, the address and the payload that were sent,
\* and no valid one ends the thread that accepts.  SNIProxy and
\* SniTunServerSingle refuse no visit for its pieces; SniTunServerWorker does
\* only when the payload begins with a piece of less than 5 bytes, and both
\* servers with clients refuse a token only when it begins with one of 1 byte
\* (listener_sni.py:70-140, run.py:199-285, 499-571, proxy_protocol.py:72-198,
\* sni.py:18-165).
THEOREM ServedAsSentHolds == Spec => []ServedAsSent
<1>1. Init => Listening /\ ServedAsSent
  BY ListenInitHolds DEF Init
<1>2. (Listening /\ ServedAsSent) /\ [Next]_vars => (Listening /\ ServedAsSent)'
  BY ListenStep
<1> QED BY <1>1, <1>2, PTL DEF Spec
=============================================================================
