------------------------- MODULE ChannelFlowProofs -------------------------
(***************************************************************************)
(* Proofs about ChannelFlow for queues of any size, any number of chunks   *)
(* and any moment at which either end closes, aborts or loses the channel. *)
(***************************************************************************)
EXTENDS ChannelFlow, TLAPS

-----------------------------------------------------------------------------
(***************************************************************************)
(* The inductive invariant                                                 *)
(***************************************************************************)

\* The end has the channel or may still come to have it.
Expecting(e) == table[e] \/ qstate[e] = "none"

\* Nothing has happened at an end that has no queue entry yet.
Unborn(e) ==
    qstate[e] = "none" =>
        /\ ~table[e] /\ source[e] = "none" /\ reader[e] = "none"
        /\ got[e] = <<>> /\ input[e] = <<>> /\ sent[e] = 0 /\ Way(e) = <<>>
        /\ ~in_under[e] /\ ~remote_under[e]

\* NEW is the first message, comes once, and only from the server end.
NewFirst ==
    /\ qstate["server"] = "none" => qstate["client"] = "none"
    /\ \A i \in DOMAIN Way("client") : Way("client")[i].type # "NEW"
    /\ \A i \in DOMAIN Way("server") :
           Way("server")[i].type = "NEW" => i = 1 /\ qstate["client"] = "none"
    /\ qstate["client"] = "none" /\ qstate["server"] # "none"
           => Way("server") # <<>> /\ Way("server")[1].type = "NEW"

\* Where the life of the channel at an end has left its traces.
Life(e) ==
    /\ table[e] => qstate[e] = "open"
    /\ Expecting(e) => /\ ~closing[e] /\ closedAt[e] = -1 /\ cause[e] = "open"
                       /\ reader[e] \notin {"closed", "failed"}
    /\ reader[e] = "closed" \/ cause[e] = "peer" => closing[e]
    /\ closedAt[e] \in -1 .. sent[e]

\* What e reads is a gapless prefix, and its incoming queue goes on from there.
\* The None of close() is at the end of the queue, if it is in it.
Gapless(e) ==
    /\ got[e] = UpTo(Len(got[e]))
    /\ reader[e] # "failed" =>
           \A i \in DOMAIN input[e] :
               \/ input[e][i] = Len(got[e]) + i
               \/ input[e][i] = Nil /\ i = Len(input[e]) /\ closing[e]

\* The end of the stream from e, as far as it is settled.
EndOf(e) == IF closedAt[e] = -1 THEN sent[e] ELSE closedAt[e]

\* What an end has taken from the wire was accepted before the peer closed.
Within(e) ==
    /\ Len(got[e]) <= EndOf(Peer(e))
    /\ reader[e] # "failed" =>
           \A i \in DOMAIN input[e] : input[e][i] <= EndOf(Peer(e))

\* What is under way to an end that has the channel goes on where its queue ends.
Onward(e) ==
    Expecting(e) => Carries(Way(Peer(e)), Len(got[e]) + Len(input[e]) + 1, sent[Peer(e)])

\* CLOSE is between the messages that were accepted before it and after it.
ClosePlace(e) ==
    /\ \A i \in DOMAIN Way(e) : Way(e)[i].type = "DATA" => Way(e)[i].n <= sent[e]
    /\ \A i \in DOMAIN Way(e) : Way(e)[i].type = "CLOSE" =>
           /\ closedAt[e] # -1
           /\ \A j \in DOMAIN Way(e) : Way(e)[j].type = "DATA" =>
                  /\ j < i => Way(e)[j].n <= closedAt[e]
                  /\ j > i => Way(e)[j].n > closedAt[e]
    /\ closedAt[e] # -1 /\ Expecting(Peer(e)) =>
           \E i \in DOMAIN Way(e) : Way(e)[i].type = "CLOSE"

\* The DATA messages in the incoming queue.
InQueue(e) ==
    IF input[e] # <<>> /\ input[e][Len(input[e])] = Nil
    THEN Len(input[e]) - 1 ELSE Len(input[e])

\* An end that was told of the close has, or has read, all that came before it.
Complete(e) ==
    cause[e] = "peer" /\ reader[e] # "failed" =>
        closedAt[Peer(e)] # -1 /\ Len(got[e]) + InQueue(e) = closedAt[Peer(e)]

Inv ==
    /\ NewFirst
    /\ \A e \in Ends : /\ Unborn(e) /\ Life(e) /\ Gapless(e) /\ Within(e)
                       /\ Onward(e) /\ ClosePlace(e) /\ Complete(e)
                       /\ in_bytes[e] = DataSize * InQueue(e)

-----------------------------------------------------------------------------
(***************************************************************************)
(* Ends, sequences and the way between the ends                            *)
(***************************************************************************)

\* The two ends.
LEMMA EndFacts ==
    ASSUME NEW e \in Ends
    PROVE  /\ Peer(e) \in Ends /\ Peer(e) # e /\ Peer(Peer(e)) = e
           /\ \A d \in Ends : d = e \/ d = Peer(e)
  BY DEF Ends, Peer

\* What append does.
LEMMA AppendEffect ==
    ASSUME NEW S, NEW q \in Seq(S), NEW x \in S
    PROVE  /\ Append(q, x) \in Seq(S) /\ Append(q, x) # <<>>
           /\ Len(q) \in Nat /\ Len(Append(q, x)) = Len(q) + 1
           /\ DOMAIN q = 1 .. Len(q) /\ DOMAIN Append(q, x) = 1 .. Len(q) + 1
           /\ Append(q, x)[Len(q) + 1] = x
           /\ \A i \in 1 .. Len(q) : Append(q, x)[i] = q[i]
  OBVIOUS

\* What taking the first element does.
LEMMA TailEffect ==
    ASSUME NEW S, NEW q \in Seq(S), q # <<>>
    PROVE  /\ Tail(q) \in Seq(S) /\ Head(q) = q[1] /\ q[1] \in S
           /\ Len(q) \in Nat \ {0} /\ Len(Tail(q)) = Len(q) - 1
           /\ DOMAIN q = 1 .. Len(q) /\ DOMAIN Tail(q) = 1 .. Len(q) - 1
           /\ \A i \in 1 .. Len(q) - 1 : Tail(q)[i] = q[i + 1]
           /\ \A i \in 1 .. Len(q) : q[i] \in S
  OBVIOUS

\* The first element of the second part moves to the first part.
LEMMA ConcatMove ==
    ASSUME NEW S, NEW q \in Seq(S), NEW r \in Seq(S), r # <<>>
    PROVE  Append(q, Head(r)) \o Tail(r) = q \o r
  OBVIOUS

\* What is taken from the first part is taken from the whole.
LEMMA ConcatTake ==
    ASSUME NEW S, NEW q \in Seq(S), NEW r \in Seq(S), q # <<>>
    PROVE  /\ q \o r # <<>> /\ (q \o r)[1] = Head(q)
           /\ Tail(q) \o r = Tail(q \o r)
  OBVIOUS

\* The way is a sequence of messages.
LEMMA WayType ==
    ASSUME TypeOK, NEW e \in Ends
    PROVE  Way(e) \in Seq(Messages)
  <1>1. wire[e] \in Seq(Messages) /\ output[e] \in Seq(Messages)
    BY DEF TypeOK
  <1> QED
    BY <1>1 DEF Way

\* Control and data messages are messages.
LEMMA MessageTypes ==
    /\ \A t \in Control : Msg(t) \in Messages /\ Msg(t).type = t
    /\ \A k \in Nat : Data(k) \in Messages /\ Data(k).type = "DATA" /\ Data(k).n = k
    /\ \A m \in Messages : m.n \in Nat /\ m.type \in Control \cup {"DATA"}
  BY DEF Messages, Msg, Data, Control

-----------------------------------------------------------------------------
\* The running numbers: a message that is queued comes last ...
LEMMA CarriesMore ==
    ASSUME NEW w \in Seq(Messages), NEW m \in Messages, NEW a \in Nat, NEW b \in Nat,
           Carries(w, a, b)
    PROVE  /\ m.type # "DATA" => Carries(Append(w, m), a, b)
           /\ m.type = "DATA" /\ m.n = b + 1 /\ a <= b + 1 => Carries(Append(w, m), a, b + 1)
  <1> DEFINE W == Append(w, m)
  <1>1. /\ Len(w) \in Nat /\ DOMAIN w = 1 .. Len(w) /\ DOMAIN W = 1 .. Len(w) + 1
        /\ W[Len(w) + 1] = m
        /\ \A i \in 1 .. Len(w) : W[i] = w[i]
    BY AppendEffect
  <1> HIDE DEF W
  <1>2. ASSUME m.type # "DATA"
        PROVE  Carries(W, a, b)
    <2>1. \A i \in DOMAIN W : W[i].type = "DATA" => i \in DOMAIN w /\ W[i] = w[i]
      BY <1>1, <1>2
    <2>2. \A i \in DOMAIN w : i \in DOMAIN W /\ W[i] = w[i]
      BY <1>1
    <2> QED
      BY <2>1, <2>2 DEF Carries
  <1>3. ASSUME m.type = "DATA", m.n = b + 1, a <= b + 1
        PROVE  Carries(W, a, b + 1)
    <2>1. \A i \in DOMAIN W : W[i].type = "DATA" => W[i].n \in a .. b + 1
      BY <1>1, <1>3 DEF Carries
    <2>2. ASSUME NEW k \in a .. b + 1
          PROVE  \E i \in DOMAIN W : W[i].type = "DATA" /\ W[i].n = k
      <3>1. CASE k = b + 1
        BY <1>1, <1>3, <3>1
      <3>2. CASE k \in a .. b
        <4>1. PICK i \in DOMAIN w : w[i].type = "DATA" /\ w[i].n = k
          BY <3>2 DEF Carries
        <4>2. i \in DOMAIN W /\ W[i] = w[i]
          BY <1>1, <4>1
        <4> QED
          BY <4>1, <4>2
      <3> QED
        BY <3>1, <3>2
    <2>3. ASSUME NEW i \in DOMAIN W, NEW j \in DOMAIN W, i < j,
                 W[i].type = "DATA", W[j].type = "DATA"
          PROVE  W[i].n < W[j].n
      <3>1. i \in DOMAIN w /\ W[i] = w[i]
        BY <1>1, <2>3
      <3>2. w[i].n \in a .. b
        BY <2>3, <3>1 DEF Carries
      <3>3. CASE j = Len(w) + 1
        <4>1. W[j].n = b + 1
          BY <1>1, <1>3, <3>3
        <4> QED
          BY <3>1, <3>2, <4>1
      <3>4. CASE j # Len(w) + 1
        <4>1. j \in DOMAIN w /\ W[j] = w[j]
          BY <1>1, <3>4
        <4> QED
          BY <2>3, <3>1, <4>1 DEF Carries
      <3> QED
        BY <3>3, <3>4
    <2> QED
      BY <2>1, <2>2, <2>3 DEF Carries
  <1> QED
    BY <1>2, <1>3 DEF W

\* ... and the message that is taken is the one that is due.
LEMMA CarriesLess ==
    ASSUME NEW w \in Seq(Messages), w # <<>>, NEW a \in Nat, NEW b \in Nat, Carries(w, a, b)
    PROVE  /\ w[1].type # "DATA" => Carries(Tail(w), a, b)
           /\ w[1].type = "DATA" => w[1].n = a /\ a <= b /\ Carries(Tail(w), a + 1, b)
  <1> DEFINE W == Tail(w)
  <1>1. /\ Len(w) \in Nat \ {0} /\ DOMAIN w = 1 .. Len(w) /\ DOMAIN W = 1 .. Len(w) - 1
        /\ \A i \in 1 .. Len(w) - 1 : W[i] = w[i + 1]
    BY TailEffect
  <1> HIDE DEF W
  <1>2. \A i \in DOMAIN W : i + 1 \in DOMAIN w /\ W[i] = w[i + 1]
    BY <1>1
  <1>3. \A i \in DOMAIN w : i = 1 \/ (i - 1 \in DOMAIN W /\ W[i - 1] = w[i])
    BY <1>1
  <1>4. 1 \in DOMAIN w
    BY <1>1
  <1>5. \A i, j \in DOMAIN W : i < j /\ W[i].type = "DATA" /\ W[j].type = "DATA"
            => W[i].n < W[j].n
    <2> SUFFICES ASSUME NEW i \in DOMAIN W, NEW j \in DOMAIN W, i < j,
                        W[i].type = "DATA", W[j].type = "DATA"
                 PROVE  W[i].n < W[j].n
      OBVIOUS
    <2>1. i + 1 < j + 1
      BY <1>1
    <2> QED
      BY <1>2, <2>1 DEF Carries
  <1>6. ASSUME w[1].type # "DATA"
        PROVE  Carries(W, a, b)
    <2>1. \A i \in DOMAIN W : W[i].type = "DATA" => W[i].n \in a .. b
      BY <1>2 DEF Carries
    <2>2. \A k \in a .. b : \E i \in DOMAIN W : W[i].type = "DATA" /\ W[i].n = k
      <3> SUFFICES ASSUME NEW k \in a .. b
                   PROVE  \E i \in DOMAIN W : W[i].type = "DATA" /\ W[i].n = k
        OBVIOUS
      <3>1. PICK i \in DOMAIN w : w[i].type = "DATA" /\ w[i].n = k
        BY DEF Carries
      <3>2. i - 1 \in DOMAIN W /\ W[i - 1] = w[i]
        BY <1>3, <1>6, <3>1
      <3> QED
        BY <3>1, <3>2
    <2> QED
      BY <1>5, <2>1, <2>2 DEF Carries
  <1>7. ASSUME w[1].type = "DATA"
        PROVE  w[1].n = a /\ a <= b /\ Carries(W, a + 1, b)
    <2>1. w[1].n \in a .. b
      BY <1>4, <1>7 DEF Carries
    <2>2. PICK i \in DOMAIN w : w[i].type = "DATA" /\ w[i].n = a
      BY <2>1 DEF Carries
    <2>3. w[1].n = a
      <3>1. CASE i = 1
        BY <2>2, <3>1
      <3>2. CASE i # 1
        <4>1. 1 < i
          BY <1>1, <3>2
        <4>2. w[1].n < a
          BY <1>4, <1>7, <2>2, <4>1 DEF Carries
        <4> QED
          BY <2>1, <4>2
      <3> QED
        BY <3>1, <3>2
    <2>4. \A j \in DOMAIN W : W[j].type = "DATA" => W[j].n \in a + 1 .. b
      <3> SUFFICES ASSUME NEW j \in DOMAIN W, W[j].type = "DATA"
                   PROVE  W[j].n \in a + 1 .. b
        OBVIOUS
      <3>1. j + 1 \in DOMAIN w /\ 1 < j + 1 /\ W[j] = w[j + 1]
        BY <1>1, <1>2
      <3>2. w[1].n < w[j + 1].n /\ w[j + 1].n \in a .. b
        BY <1>4, <1>7, <3>1 DEF Carries
      <3> QED
        BY <2>3, <3>1, <3>2
    <2>5. \A k \in a + 1 .. b : \E j \in DOMAIN W : W[j].type = "DATA" /\ W[j].n = k
      <3> SUFFICES ASSUME NEW k \in a + 1 .. b
                   PROVE  \E j \in DOMAIN W : W[j].type = "DATA" /\ W[j].n = k
        OBVIOUS
      <3>1. k \in a .. b /\ k # a
        OBVIOUS
      <3>2. PICK j \in DOMAIN w : w[j].type = "DATA" /\ w[j].n = k
        BY <3>1 DEF Carries
      <3>3. j # 1
        BY <2>3, <3>1, <3>2
      <3> QED
        BY <1>3, <3>2, <3>3
    <2> QED
      BY <1>5, <2>1, <2>3, <2>4, <2>5 DEF Carries
  <1> QED
    BY <1>6, <1>7 DEF W

-----------------------------------------------------------------------------
(***************************************************************************)
(* Bytes.  out_bytes is the last of the running totals of the outgoing     *)
(* queue: what a message adds when it is queued is what it takes off when  *)
(* it is sent, so that the total never goes below zero.                    *)
(***************************************************************************)
RunningTotals(q, sums) ==
    /\ sums \in [0 .. Len(q) -> Int]
    /\ sums[0] = 0
    /\ \A i, j \in 0 .. Len(q) : i <= j => sums[i] <= sums[j]
    /\ \A i \in 1 .. Len(q) : sums[i] = sums[i - 1] + Size(q[i])

AddsUpTo(q, n) == \E sums : RunningTotals(q, sums) /\ sums[Len(q)] = n

\* Every message has a size.
LEMMA SizeType == \A m \in Messages : Size(m) \in Nat \ {0}
  BY FlowAssumption DEF Size

\* An empty queue adds up to 0.
LEMMA AddsUpEmpty == AddsUpTo(<<>>, 0)
  <1> DEFINE sums == [i \in 0 .. 0 |-> 0]
  <1>1. RunningTotals(<<>>, sums) /\ sums[Len(<<>>)] = 0
    BY DEF RunningTotals
  <1> QED
    BY <1>1 DEF AddsUpTo

\* The total is a natural number.
LEMMA AddsUpType ==
    ASSUME NEW q \in Seq(Messages), NEW n, AddsUpTo(q, n)
    PROVE  n \in Nat
  <1>1. Len(q) \in 0 .. Len(q) /\ 0 \in 0 .. Len(q) /\ 0 <= Len(q)
    OBVIOUS
  <1> QED
    BY <1>1 DEF AddsUpTo, RunningTotals

\* _put adds the size of the message (queue.py:219-220).
LEMMA AddsUpAppend ==
    ASSUME NEW q \in Seq(Messages), NEW m \in Messages, NEW n, AddsUpTo(q, n)
    PROVE  AddsUpTo(Append(q, m), n + Size(m))
  <1>1. PICK sums : RunningTotals(q, sums) /\ sums[Len(q)] = n
    BY DEF AddsUpTo
  <1> DEFINE l == Len(q)
             Q == Append(q, m)
             more == [i \in 0 .. l + 1 |-> IF i <= l THEN sums[i] ELSE n + Size(m)]
  <1>2. /\ l \in Nat /\ Len(Q) = l + 1 /\ Q[l + 1] = m
        /\ \A i \in 1 .. l : Q[i] = q[i]
    BY AppendEffect
  <1>3. n \in Nat /\ Size(m) \in Nat
    BY AddsUpType, SizeType
  <1>4. /\ \A i \in 0 .. l : sums[i] \in Int
        /\ sums[0] = 0 /\ sums[l] = n
        /\ \A i, j \in 0 .. l : i <= j => sums[i] <= sums[j]
        /\ \A i \in 1 .. l : sums[i] = sums[i - 1] + Size(q[i])
    BY <1>1 DEF RunningTotals
  <1> HIDE DEF l, Q
  <1>5. more \in [0 .. l + 1 -> Int] /\ more[0] = 0 /\ more[l + 1] = n + Size(m)
    BY <1>2, <1>3, <1>4
  <1>6. ASSUME NEW i \in 1 .. l + 1
        PROVE  more[i] = more[i - 1] + Size(Q[i])
    <2>1. CASE i <= l
      <3>1. more[i] = sums[i] /\ more[i - 1] = sums[i - 1] /\ Q[i] = q[i] /\ i \in 1 .. l
        BY <1>2, <2>1
      <3> QED
        BY <1>4, <3>1
    <2>2. CASE i = l + 1
      <3>1. more[i] = n + Size(m) /\ more[i - 1] = n /\ Q[i] = m
        BY <1>2, <1>4, <2>2
      <3> QED
        BY <3>1
    <2> QED
      BY <1>2, <2>1, <2>2
  <1>7. ASSUME NEW i \in 0 .. l + 1, NEW j \in 0 .. l + 1, i <= j
        PROVE  more[i] <= more[j]
    <2>1. CASE j <= l
      <3>1. i \in 0 .. l /\ j \in 0 .. l /\ more[i] = sums[i] /\ more[j] = sums[j]
        BY <1>2, <1>7, <2>1
      <3> QED
        BY <1>4, <1>7, <3>1
    <2>2. CASE i <= l /\ j = l + 1
      <3>1. /\ i \in 0 .. l /\ l \in 0 .. l /\ i <= l
            /\ more[i] = sums[i] /\ more[j] = n + Size(m)
        BY <1>2, <2>2
      <3>2. sums[i] <= n /\ sums[i] \in Int
        BY <1>4, <3>1
      <3> QED
        BY <1>3, <3>1, <3>2
    <2>3. CASE i = l + 1 /\ j = l + 1
      BY <1>3, <1>5, <2>3
    <2> QED
      BY <1>2, <1>7, <2>1, <2>2, <2>3
  <1> HIDE DEF more
  <1>8. RunningTotals(Q, more)
    BY <1>2, <1>5, <1>6, <1>7 DEF RunningTotals
  <1>9. more[Len(Q)] = n + Size(m)
    BY <1>2, <1>5
  <1> QED
    BY <1>8, <1>9 DEF AddsUpTo, Q

\* _get takes the size of the first message off (queue.py:265-266).
LEMMA AddsUpTail ==
    ASSUME NEW q \in Seq(Messages), q # <<>>, NEW n, AddsUpTo(q, n)
    PROVE  AddsUpTo(Tail(q), n - Size(Head(q)))
  <1>1. PICK sums : RunningTotals(q, sums) /\ sums[Len(q)] = n
    BY DEF AddsUpTo
  <1> DEFINE l == Len(q)
             Q == Tail(q)
             s == Size(q[1])
             less == [i \in 0 .. l - 1 |-> sums[i + 1] - s]
  <1>2. /\ l \in Nat \ {0} /\ Len(Q) = l - 1 /\ Head(q) = q[1]
        /\ \A i \in 1 .. l - 1 : Q[i] = q[i + 1]
        /\ \A i \in 1 .. l : q[i] \in Messages
    BY TailEffect
  <1>3. \A i \in 1 .. l : Size(q[i]) \in Nat
    BY <1>2, SizeType
  <1>4. /\ \A i \in 0 .. l : sums[i] \in Int
        /\ sums[0] = 0 /\ sums[l] = n
        /\ \A i, j \in 0 .. l : i <= j => sums[i] <= sums[j]
        /\ \A i \in 1 .. l : sums[i] = sums[i - 1] + Size(q[i])
    BY <1>1 DEF RunningTotals
  <1> HIDE DEF l, Q
  <1>5. s \in Nat /\ sums[1] = s
    BY <1>2, <1>3, <1>4
  <1>6. \A i \in 0 .. l - 1 : less[i] = sums[i + 1] - s /\ less[i] \in Int
    BY <1>2, <1>4, <1>5
  <1>7. less[0] = 0 /\ less[l - 1] = n - s
    BY <1>2, <1>4, <1>5, <1>6
  <1>8. ASSUME NEW i \in 1 .. l - 1
        PROVE  less[i] = less[i - 1] + Size(Q[i])
    <2>1. i + 1 \in 1 .. l /\ Q[i] = q[i + 1] /\ sums[i] \in Int
      BY <1>2, <1>4
    <2>2. sums[i + 1] = sums[i] + Size(q[i + 1]) /\ Size(q[i + 1]) \in Nat
      BY <1>2, <1>3, <1>4, <2>1
    <2>3. less[i] = sums[i + 1] - s /\ less[i - 1] = sums[i] - s
      BY <1>2, <1>6
    <2> QED
      BY <1>5, <2>1, <2>2, <2>3
  <1>9. \A i, j \in 0 .. l - 1 : i <= j => less[i] <= less[j]
    <2> SUFFICES ASSUME NEW i \in 0 .. l - 1, NEW j \in 0 .. l - 1, i <= j
                 PROVE  less[i] <= less[j]
      OBVIOUS
    <2>1. i + 1 \in 0 .. l /\ j + 1 \in 0 .. l /\ i + 1 <= j + 1
      BY <1>2
    <2>2. sums[i + 1] <= sums[j + 1] /\ sums[i + 1] \in Int /\ sums[j + 1] \in Int
      BY <1>4, <2>1
    <2> QED
      BY <1>5, <1>6, <2>2
  <1>10. less \in [0 .. l - 1 -> Int]
    BY <1>2, <1>4, <1>5
  <1> HIDE DEF less
  <1>11. RunningTotals(Q, less)
    BY <1>2, <1>7, <1>8, <1>9, <1>10 DEF RunningTotals
  <1>12. less[Len(Q)] = n - Size(Head(q))
    BY <1>2, <1>7
  <1> QED
    BY <1>11, <1>12 DEF AddsUpTo, Q

-----------------------------------------------------------------------------
(***************************************************************************)
(* Types                                                                   *)
(***************************************************************************)

Accounted == \A e \in Ends : AddsUpTo(output[e], out_bytes[e])

InAccounted == \A e \in Ends : in_bytes[e] = DataSize * InQueue(e)

OutTypes ==
    /\ output \in [Ends -> Seq(Messages)]
    /\ out_bytes \in [Ends -> Nat]
    /\ out_under \in [Ends -> BOOLEAN]

\* _put of the outgoing queue.
LEMMA EnqueueEffect ==
    ASSUME TypeOK, NEW e \in Ends, NEW m \in Messages, Enqueue(e, m)
    PROVE  /\ OutTypes'
           /\ output'[e] = Append(output[e], m) /\ output'[Peer(e)] = output[Peer(e)]
           /\ out_bytes'[e] = out_bytes[e] + Size(m)
           /\ out_bytes'[Peer(e)] = out_bytes[Peer(e)]
           /\ wire'[e] = wire[e] => Way(e)' = Append(Way(e), m)
  <1>1. /\ output \in [Ends -> Seq(Messages)] /\ wire[e] \in Seq(Messages)
        /\ out_bytes \in [Ends -> Nat] /\ out_under \in [Ends -> BOOLEAN]
    BY DEF TypeOK
  <1>2. Size(m) \in Nat
    BY SizeType
  <1>3. Append(output[e], m) \in Seq(Messages)
    BY <1>1, AppendEffect
  <1>4. /\ output' \in [Ends -> Seq(Messages)]
        /\ output'[e] = Append(output[e], m) /\ output'[Peer(e)] = output[Peer(e)]
    BY <1>1, <1>3, EndFacts DEF Enqueue
  <1>5. /\ out_bytes' \in [Ends -> Nat]
        /\ out_bytes'[e] = out_bytes[e] + Size(m)
        /\ out_bytes'[Peer(e)] = out_bytes[Peer(e)]
    BY <1>1, <1>2, EndFacts DEF Enqueue
  <1>6. out_under' \in [Ends -> BOOLEAN]
    BY <1>1 DEF Enqueue
  <1>7. ASSUME wire'[e] = wire[e]
        PROVE  Way(e)' = Append(Way(e), m)
    <2>1. output[e] \in Seq(Messages) /\ wire[e] \in Seq(Messages)
      BY <1>1
    <2>2. \A q, r \in Seq(Messages) : q \o Append(r, m) = Append(q \o r, m)
      OBVIOUS
    <2> QED
      BY <1>4, <1>7, <2>1, <2>2, Zenon DEF Way
  <1> QED
    BY <1>4, <1>5, <1>6, <1>7 DEF OutTypes

\* One message is written to the connection: the way stays what it is.
LEMMA SendEffect ==
    ASSUME TypeOK, Accounted, NEW e \in Ends, Send(e)
    PROVE  /\ OutTypes' /\ wire' \in [Ends -> Seq(Messages)]
           /\ output'[e] = Tail(output[e]) /\ output'[Peer(e)] = output[Peer(e)]
           /\ output[e] # <<>>
           /\ out_bytes'[e] = out_bytes[e] - Size(Head(output[e]))
           /\ out_bytes'[Peer(e)] = out_bytes[Peer(e)]
           /\ \A d \in Ends : Way(d)' = Way(d)
  <1>1. /\ output \in [Ends -> Seq(Messages)] /\ wire \in [Ends -> Seq(Messages)]
        /\ out_bytes \in [Ends -> Nat] /\ out_under \in [Ends -> BOOLEAN]
        /\ output[e] \in Seq(Messages) /\ wire[e] \in Seq(Messages) /\ output[e] # <<>>
    BY DEF TypeOK, Send
  <1>2. Tail(output[e]) \in Seq(Messages) /\ Head(output[e]) \in Messages
    BY <1>1, TailEffect
  <1>3. Append(wire[e], Head(output[e])) \in Seq(Messages)
    BY <1>1, <1>2, AppendEffect
  <1>4. AddsUpTo(Tail(output[e]), out_bytes[e] - Size(Head(output[e])))
    BY <1>1, AddsUpTail DEF Accounted
  <1>5. out_bytes[e] - Size(Head(output[e])) \in Nat
    BY <1>2, <1>4, AddsUpType
  <1>6. /\ output' \in [Ends -> Seq(Messages)]
        /\ output'[e] = Tail(output[e]) /\ output'[Peer(e)] = output[Peer(e)]
    BY <1>1, <1>2, EndFacts DEF Send
  <1>7. /\ wire' \in [Ends -> Seq(Messages)]
        /\ wire'[e] = Append(wire[e], Head(output[e])) /\ wire'[Peer(e)] = wire[Peer(e)]
    BY <1>1, <1>3, EndFacts DEF Send
  <1>8. /\ out_bytes' \in [Ends -> Nat]
        /\ out_bytes'[e] = out_bytes[e] - Size(Head(output[e]))
        /\ out_bytes'[Peer(e)] = out_bytes[Peer(e)]
    BY <1>1, <1>5, EndFacts DEF Send
  <1>9. out_under' \in [Ends -> BOOLEAN]
    BY <1>1 DEF Send
  <1>10. Append(wire[e], Head(output[e])) \o Tail(output[e]) = wire[e] \o output[e]
    BY <1>1, ConcatMove
  <1>11. \A d \in Ends : Way(d)' = Way(d)
    BY <1>6, <1>7, <1>10, EndFacts DEF Way
  <1> QED
    BY <1>1, <1>6, <1>7, <1>8, <1>9, <1>11 DEF OutTypes

\* A message is read from the connection.
LEMMA IncomingEffect ==
    ASSUME TypeOK, NEW e \in Ends, NEW types, Incoming(e, types)
    PROVE  /\ wire' \in [Ends -> Seq(Messages)] /\ wire'[e] = wire[e]
           /\ Way(Peer(e)) # <<>> /\ Way(Peer(e)) \in Seq(Messages)
           /\ Way(Peer(e))[1] = Head(wire[Peer(e)])
           /\ Way(Peer(e))[1].type \in types /\ Way(Peer(e))[1] \in Messages
           /\ output'[Peer(e)] = output[Peer(e)] => Way(Peer(e))' = Tail(Way(Peer(e)))
  <1>0. PICK p \in Ends : p = Peer(e) /\ p # e
    BY EndFacts
  <1>1. /\ wire \in [Ends -> Seq(Messages)] /\ wire[p] \in Seq(Messages)
        /\ output[p] \in Seq(Messages) /\ wire[p] # <<>>
        /\ Head(wire[p]).type \in types
        /\ wire' = [wire EXCEPT ![p] = Tail(@)]
    BY <1>0 DEF TypeOK, Incoming
  <1>2. Tail(wire[p]) \in Seq(Messages) /\ Head(wire[p]) \in Messages
    BY <1>1, TailEffect
  <1>3. /\ wire' \in [Ends -> Seq(Messages)]
        /\ wire'[e] = wire[e] /\ wire'[p] = Tail(wire[p])
    BY <1>0, <1>1, <1>2
  <1>4. /\ wire[p] \o output[p] # <<>> /\ (wire[p] \o output[p])[1] = Head(wire[p])
        /\ Tail(wire[p]) \o output[p] = Tail(wire[p] \o output[p])
    BY <1>1, ConcatTake
  <1>5. Way(p) \in Seq(Messages)
    BY WayType
  <1> QED
    BY <1>0, <1>1, <1>2, <1>3, <1>4, <1>5 DEF Way

\* PAUSE and RESUME are queued or not.
LEMMA TellRemoteOut ==
    ASSUME TypeOK, NEW e \in Ends, NEW t \in {"PAUSE", "RESUME"}, TellRemote(e, t)
    PROVE  UNCHANGED outVars \/ (Msg(t) \in Messages /\ Enqueue(e, Msg(t)))
  BY MessageTypes DEF TellRemote, Control

\* delete_channel changes no more than the table, the entry and the out queue.
LEMMA DeleteOut ==
    ASSUME TypeOK, NEW e \in Ends, DeleteChannel(e)
    PROVE  /\ UNCHANGED outVars \/ (Msg("CLOSE") \in Messages /\ Enqueue(e, Msg("CLOSE")))
           /\ table' \in [Ends -> BOOLEAN]
           /\ qstate' \in [Ends -> {"none", "open", "closing", "gone"}]
           /\ closedAt' \in [Ends -> Int]
  <1>1. /\ table \in [Ends -> BOOLEAN] /\ closedAt \in [Ends -> Int] /\ sent[e] \in Nat
        /\ qstate \in [Ends -> {"none", "open", "closing", "gone"}]
    BY DEF TypeOK
  <1>2. Msg("CLOSE") \in Messages
    BY MessageTypes DEF Control
  <1>3. UNCHANGED outVars \/ Enqueue(e, Msg("CLOSE"))
    BY DEF DeleteChannel
  <1>4. table' \in [Ends -> BOOLEAN]
    BY <1>1 DEF DeleteChannel
  <1>5. closedAt' \in [Ends -> Int]
    BY <1>1 DEF DeleteChannel
  <1>6. qstate' \in [Ends -> {"none", "open", "closing", "gone"}]
    BY <1>1 DEF DeleteChannel, QueueDeleted
  <1> QED
    BY <1>2, <1>3, <1>4, <1>5, <1>6

\* The outgoing queues change by one message at one end.
LEMMA OutStep ==
    ASSUME TypeOK, Next
    PROVE  \/ UNCHANGED outVars
           \/ \E e \in Ends : Send(e) \/ \E m \in Messages : Enqueue(e, m)
  <1>0. /\ Msg("NEW") \in Messages /\ "server" \in Ends
        /\ \A e \in Ends : Data(sent[e] + 1) \in Messages
    BY MessageTypes DEF TypeOK, Control, Ends
  <1>1. CASE CreateChannel \/ HandlerLeaves
    BY <1>0, <1>1 DEF CreateChannel, HandlerLeaves
  <1>2. ASSUME NEW e \in Ends, Receive(e)
        PROVE  UNCHANGED outVars \/ \E m \in Messages : Enqueue(e, m)
    <2>1. CASE ReceiveData(e)
      BY <2>1, TellRemoteOut DEF ReceiveData, InputPut
    <2>2. CASE ReceiveDataUnhealthy(e)
      BY <2>2, DeleteOut DEF ReceiveDataUnhealthy
    <2> QED
      BY <1>2, <2>1, <2>2 DEF Receive, ReceiveNew, ReceiveClose, ReceivePauseResume,
                              ReceiveUnknown
  <1>3. ASSUME NEW e \in Ends, Write(e) \/ WriteResume(e)
        PROVE  UNCHANGED outVars \/ \E m \in Messages : Enqueue(e, m)
    BY <1>0, <1>3 DEF Write, WriteResume, Accept
  <1>4. ASSUME NEW e \in Ends, HandlerEnds(e) \/ WriteRaises(e)
        PROVE  UNCHANGED outVars \/ \E m \in Messages : Enqueue(e, m)
    BY <1>4, DeleteOut DEF WriteRaises, HandlerEnds
  <1>5. ASSUME NEW e \in Ends, Read(e)
        PROVE  UNCHANGED outVars \/ \E m \in Messages : Enqueue(e, m)
    BY <1>5, TellRemoteOut DEF Read
  <1>6. ASSUME NEW e \in Ends,
               MuxDown(e) \/ OrphanGet(e) \/ ReadSource(e) \/ ReadWait(e) \/ ReadClose(e)
        PROVE  UNCHANGED outVars
    BY <1>6 DEF MuxDown, OrphanGet, ReadSource, ReadWait, ReadClose
  <1> QED
    BY <1>1, <1>2, <1>3, <1>4, <1>5, <1>6 DEF Next

\* out_bytes is what is queued (queue.py:219-220, 265-266).
LEMMA AccountedStep ==
    ASSUME TypeOK, Accounted, [Next]_vars
    PROVE  Accounted'
  <1>0. \A e \in Ends : output[e] \in Seq(Messages)
    BY DEF TypeOK
  <1>1. CASE UNCHANGED outVars
    BY <1>1 DEF outVars, Accounted
  <1>2. ASSUME NEW e \in Ends, NEW m \in Messages, Enqueue(e, m)
        PROVE  Accounted'
    <2>1. /\ output'[e] = Append(output[e], m) /\ output'[Peer(e)] = output[Peer(e)]
          /\ out_bytes'[e] = out_bytes[e] + Size(m)
          /\ out_bytes'[Peer(e)] = out_bytes[Peer(e)]
      BY <1>2, EnqueueEffect
    <2>2. AddsUpTo(Append(output[e], m), out_bytes[e] + Size(m))
      BY <1>0, AddsUpAppend DEF Accounted
    <2>3. \A d \in Ends : AddsUpTo(output'[d], out_bytes'[d])
      BY <2>1, <2>2, EndFacts, Zenon DEF Accounted
    <2> QED
      BY <2>3 DEF Accounted, AddsUpTo, RunningTotals, Size
  <1>3. ASSUME NEW e \in Ends, Send(e)
        PROVE  Accounted'
    <2>1. /\ output'[e] = Tail(output[e]) /\ output'[Peer(e)] = output[Peer(e)]
          /\ output[e] # <<>>
          /\ out_bytes'[e] = out_bytes[e] - Size(Head(output[e]))
          /\ out_bytes'[Peer(e)] = out_bytes[Peer(e)]
      BY <1>3, SendEffect
    <2>2. AddsUpTo(Tail(output[e]), out_bytes[e] - Size(Head(output[e])))
      BY <1>0, <2>1, AddsUpTail DEF Accounted
    <2>3. \A d \in Ends : AddsUpTo(output'[d], out_bytes'[d])
      BY <2>1, <2>2, EndFacts, Zenon DEF Accounted
    <2> QED
      BY <2>3 DEF Accounted, AddsUpTo, RunningTotals, Size
  <1> QED
    BY <1>1, <1>2, <1>3, OutStep DEF vars

\* The types of the outgoing queues and of what is on the wire.
LEMMA OutTypeStep ==
    ASSUME TypeOK, Accounted, Next
    PROVE  OutTypes'
  <1>1. CASE UNCHANGED outVars
    BY <1>1 DEF outVars, OutTypes, TypeOK
  <1>2. ASSUME NEW e \in Ends, NEW m \in Messages, Enqueue(e, m)
        PROVE  OutTypes'
    BY <1>2, EnqueueEffect
  <1>3. ASSUME NEW e \in Ends, Send(e)
        PROVE  OutTypes'
    BY <1>3, SendEffect
  <1> QED
    BY <1>1, <1>2, <1>3, OutStep

\* What is queued after close() is a sequence of numbers.
LEMMA InputClosedType ==
    ASSUME TypeOK, NEW e \in Ends
    PROVE  InputClosed(e) \in Seq(Nat)
  <1>1. input[e] \in Seq(Nat) /\ Nil \in Nat
    BY DEF TypeOK, Nil
  <1> QED
    BY <1>1, AppendEffect DEF InputClosed

\* A queue that starts with a message has at least its bytes.
LEMMA InBytesSuffice ==
    ASSUME TypeOK, InAccounted, NEW e \in Ends, input[e] # <<>>, Head(input[e]) # Nil
    PROVE  in_bytes[e] - DataSize \in Nat
  <1>1. input[e] \in Seq(Nat) /\ in_bytes[e] \in Nat /\ DataSize \in Nat
    BY FlowAssumption DEF TypeOK
  <1>2. Len(input[e]) \in Nat \ {0} /\ Head(input[e]) = input[e][1]
    BY <1>1, TailEffect
  <1>3. InQueue(e) \in Nat \ {0}
    BY <1>2 DEF InQueue
  <1>4. in_bytes[e] = DataSize * InQueue(e)
    BY DEF InAccounted
  <1>5. \A d \in Nat, k \in Nat \ {0} : d * k - d \in Nat
    <2> SUFFICES ASSUME NEW d \in Nat, NEW k \in Nat \ {0}
                 PROVE  d * k - d \in Nat
      OBVIOUS
    <2>1. k - 1 \in Nat /\ d * (k - 1) = d * k - d
      OBVIOUS
    <2>2. d * (k - 1) \in Nat
      BY <2>1
    <2> QED
      BY <2>1, <2>2
  <1> QED
    BY <1>1, <1>3, <1>4, <1>5

\* The types of what is not the outgoing queue.
Types ==
    /\ link \in [Ends -> {"up", "down"}]
    /\ table \in [Ends -> BOOLEAN]
    /\ qstate \in [Ends -> {"none", "open", "closing", "gone"}]
    /\ wire \in [Ends -> Seq(Messages)]
    /\ input \in [Ends -> Seq(Nat)] /\ got \in [Ends -> Seq(Nat)]
    /\ in_bytes \in [Ends -> Nat] /\ in_under \in [Ends -> BOOLEAN]
    /\ remote_under \in [Ends -> BOOLEAN] /\ closing \in [Ends -> BOOLEAN]
    /\ source \in [Ends -> {"none", "idle", "chunk", "blocked", "done"}]
    /\ reader \in [Ends -> {"none", "reading", "waiting", "closed", "failed", "stopped"}]
    /\ sent \in [Ends -> Nat]
    /\ cause \in [Ends -> {"open", "peer", "unhealthy", "down"}]
    /\ closedAt \in [Ends -> Int] /\ untold \in [Ends -> BOOLEAN]

\* Every step keeps the types.
LEMMA TypeStep ==
    ASSUME TypeOK, Accounted, InAccounted, [Next]_vars
    PROVE  TypeOK'
  <1>0. Types
    BY DEF TypeOK, Types, Alive
  <1> SUFFICES ASSUME Next
               PROVE  Types'
    <2>1. CASE UNCHANGED vars
      BY <2>1 DEF vars, muxVars, outVars, inVars, histVars, TypeOK
    <2>2. CASE Next
      BY <2>2, OutTypeStep DEF Types, OutTypes, TypeOK, Alive
    <2> QED
      BY <2>1, <2>2
  <1> USE DEF muxVars, inVars, histVars
  <1>1. CASE CreateChannel
    BY <1>0, <1>1 DEF CreateChannel, Types, Ends
  <1>2. CASE HandlerLeaves
    BY <1>0, <1>2 DEF HandlerLeaves, Types, Ends, Alive
  <1>3. ASSUME NEW e \in Ends, Send(e)
        PROVE  Types'
    <2>1. wire' \in [Ends -> Seq(Messages)]
      BY <1>3, SendEffect
    <2> QED
      BY <1>0, <1>3, <2>1 DEF Send, Types
  <1>4. ASSUME NEW e \in Ends, Receive(e)
        PROVE  Types'
    <2>0. wire' \in [Ends -> Seq(Messages)]
      BY <1>4, IncomingEffect DEF Receive, ReceiveNew, ReceiveData, ReceiveDataUnhealthy,
                                  ReceiveClose, ReceivePauseResume, ReceiveUnknown
    <2>1. CASE ReceiveNew(e)
      BY <1>0, <2>0, <2>1 DEF ReceiveNew, Types
    <2>2. CASE ReceiveData(e)
      <3>1. Head(wire[Peer(e)]).n \in Nat
        BY <2>2, IncomingEffect, MessageTypes DEF ReceiveData
      <3>2. Append(input[e], Head(wire[Peer(e)]).n) \in Seq(Nat)
        BY <1>0, <3>1, AppendEffect DEF Types
      <3>3. input' \in [Ends -> Seq(Nat)]
        BY <1>0, <2>2, <3>2 DEF Types, ReceiveData, InputPut
      <3>4. in_bytes' \in [Ends -> Nat]
        <4>1. in_bytes \in [Ends -> Nat] /\ in_bytes[e] + DataSize \in Nat
          BY <1>0, FlowAssumption DEF Types
        <4> QED
          BY <2>2, <4>1 DEF ReceiveData, InputPut
      <3>5. in_under' \in [Ends -> BOOLEAN]
        BY <1>0, <2>2 DEF Types, ReceiveData, InputPut
      <3>6. untold' \in [Ends -> BOOLEAN]
        BY <1>0, <2>2 DEF ReceiveData, InputPut, TellRemote, Types
      <3> QED
        BY <1>0, <2>0, <2>2, <3>3, <3>4, <3>5, <3>6 DEF ReceiveData, Types
    <2>3. CASE ReceiveDataUnhealthy(e)
      <3>1. /\ table' \in [Ends -> BOOLEAN]
            /\ qstate' \in [Ends -> {"none", "open", "closing", "gone"}]
            /\ closedAt' \in [Ends -> Int]
        BY <2>3, DeleteOut DEF ReceiveDataUnhealthy
      <3>2. input' \in [Ends -> Seq(Nat)]
        BY <1>0, <2>3, InputClosedType DEF ReceiveDataUnhealthy, Close, Types
      <3> QED
        BY <1>0, <2>0, <2>3, <3>1, <3>2 DEF ReceiveDataUnhealthy, Close, Types
    <2>4. CASE ReceiveClose(e)
      <3>1. input' \in [Ends -> Seq(Nat)]
        BY <1>0, <2>4, InputClosedType DEF ReceiveClose, Close, Types
      <3> QED
        BY <1>0, <2>0, <2>4, <3>1 DEF ReceiveClose, Close, QueueDeleted, Types
    <2>5. CASE ReceivePauseResume(e)
      BY <1>0, <2>0, <2>5 DEF ReceivePauseResume, Types
    <2>6. CASE ReceiveUnknown(e)
      BY <1>0, <2>0, <2>6 DEF ReceiveUnknown, Types
    <2> QED
      BY <1>4, <2>1, <2>2, <2>3, <2>4, <2>5, <2>6 DEF Receive
  <1>5. ASSUME NEW e \in Ends, MuxDown(e) \/ OrphanGet(e)
        PROVE  Types'
    <2>1. MuxDown(e)
      BY <1>5 DEF OrphanGet
    <2>2. CASE table[e]
      <3>0. input' = [input EXCEPT ![e] = InputClosed(e)]
        BY <2>1, <2>2 DEF MuxDown, Close
      <3>1. input' \in [Ends -> Seq(Nat)]
        BY <1>0, <3>0, InputClosedType DEF Types
      <3> QED
        BY <1>0, <2>1, <2>2, <3>1 DEF MuxDown, Close, QueueDeleted, Types
    <2>3. CASE ~table[e]
      BY <1>0, <2>1, <2>3 DEF MuxDown, Types
    <2> QED
      BY <2>2, <2>3
  <1>6. ASSUME NEW e \in Ends, ReadSource(e) \/ ReadWait(e) \/ ReadClose(e)
        PROVE  Types'
    BY <1>0, <1>6 DEF ReadSource, ReadWait, ReadClose, Types
  <1>7. ASSUME NEW e \in Ends, Write(e) \/ WriteResume(e)
        PROVE  Types'
    <2>1. /\ UNCHANGED <<muxVars, remote_under, wire, inVars, closing, reader, got, histVars>>
          /\ sent' = sent \/ sent' = [sent EXCEPT ![e] = @ + 1]
          /\ \/ source' = [source EXCEPT ![e] = "idle"]
             \/ source' = [source EXCEPT ![e] = "blocked"]
      BY <1>7 DEF Write, WriteResume, Accept
    <2>2. sent' \in [Ends -> Nat]
      <3>1. sent \in [Ends -> Nat]
        BY <1>0 DEF Types
      <3> QED
        BY <2>1, <3>1
    <2>3. source' \in [Ends -> {"none", "idle", "chunk", "blocked", "done"}]
      <3>1. source \in [Ends -> {"none", "idle", "chunk", "blocked", "done"}]
        BY <1>0 DEF Types
      <3> QED
        BY <2>1, <3>1
    <2> QED
      BY <1>0, <2>1, <2>2, <2>3 DEF Types
  <1>8. ASSUME NEW e \in Ends, HandlerEnds(e) \/ WriteRaises(e)
        PROVE  Types'
    <2>1. HandlerEnds(e)
      BY <1>8 DEF WriteRaises
    <2>2. /\ table' \in [Ends -> BOOLEAN]
          /\ qstate' \in [Ends -> {"none", "open", "closing", "gone"}]
          /\ closedAt' \in [Ends -> Int]
      BY <2>1, DeleteOut DEF HandlerEnds
    <2> QED
      BY <1>0, <2>1, <2>2 DEF HandlerEnds, Types, Alive
  <1>9. ASSUME NEW e \in Ends, Read(e)
        PROVE  Types'
    <2>1. input[e] \in Seq(Nat) /\ input[e] # <<>> /\ Head(input[e]) # Nil
      BY <1>0, <1>9 DEF Read, Types
    <2>2. Tail(input[e]) \in Seq(Nat) /\ Head(input[e]) \in Nat
      BY <2>1, TailEffect
    <2>3. got[e] \in Seq(Nat)
      BY <1>0 DEF Types
    <2>4. Append(got[e], Head(input[e])) \in Seq(Nat)
      BY <2>2, <2>3, AppendEffect
    <2>5. in_bytes[e] - DataSize \in Nat
      BY <2>1, InBytesSuffice
    <2>6. input' \in [Ends -> Seq(Nat)]
      BY <1>0, <1>9, <2>2 DEF Read, Types
    <2>7. got' \in [Ends -> Seq(Nat)]
      BY <1>0, <1>9, <2>4 DEF Read, Types
    <2>8. in_bytes' \in [Ends -> Nat] /\ in_under' \in [Ends -> BOOLEAN]
      BY <1>0, <1>9, <2>5 DEF Read, Types
    <2>9. reader' \in [Ends -> {"none", "reading", "waiting", "closed", "failed", "stopped"}]
      BY <1>0, <1>9 DEF Read, Types
    <2>10. untold' \in [Ends -> BOOLEAN]
      BY <1>0, <1>9 DEF Read, TellRemote, Types
    <2> QED
      BY <1>0, <1>9, <2>6, <2>7, <2>8, <2>9, <2>10 DEF Read, Types
  <1> QED
    BY <1>1, <1>2, <1>3, <1>4, <1>5, <1>6, <1>7, <1>8, <1>9 DEF Next

-----------------------------------------------------------------------------
(***************************************************************************)
(* The shapes of a step.  A step is taken by one end e.  It is a step of   *)
(* the writer of one direction and of the reader of the other one, and it  *)
(* leaves what the peer holds as it is.                                    *)
(***************************************************************************)

\* Nothing of end d but what it has on the way changes.
Bystander(d) ==
    /\ table'[d] = table[d] /\ qstate'[d] = qstate[d] /\ closing'[d] = closing[d]
    /\ input'[d] = input[d] /\ got'[d] = got[d] /\ in_bytes'[d] = in_bytes[d]
    /\ reader'[d] = reader[d] /\ cause'[d] = cause[d] /\ source'[d] = source[d]
    /\ sent'[d] = sent[d] /\ closedAt'[d] = closedAt[d]
    /\ in_under'[d] = in_under[d] /\ remote_under'[d] = remote_under[d]

\* What the end does as a writer.
Says(e, m) ==
    /\ m \in Messages /\ m.type \in {"NEW", "PAUSE", "RESUME"}
    /\ m.type = "NEW" => e = "server" /\ qstate[e] = "none" /\ qstate'[e] # "none"
    /\ Way(e)' = Append(Way(e), m)
    /\ sent'[e] = sent[e] /\ closedAt'[e] = closedAt[e]

Silent(e) == Way(e)' = Way(e) /\ sent'[e] = sent[e] /\ closedAt'[e] = closedAt[e]

Accepts(e) ==
    /\ Way(e)' = Append(Way(e), Data(sent[e] + 1))
    /\ sent'[e] = sent[e] + 1 /\ closedAt'[e] = closedAt[e]

Closes(e) ==
    /\ Way(e)' = Append(Way(e), Msg("CLOSE"))
    /\ closedAt[e] = -1 /\ closedAt'[e] = sent[e] /\ sent'[e] = sent[e]
    /\ ~table'[e] /\ qstate'[e] # "none"

WriterStep(e) ==
    /\ Silent(e) \/ (\E m \in Messages : Says(e, m)) \/ Accepts(e) \/ Closes(e)
    /\ qstate'[e] = "none" => Silent(e)

\* What it does as a reader: something else, or a message that does not matter,
Passes(e) ==
    \/ Way(Peer(e))' = Way(Peer(e))
    \/ /\ Way(Peer(e)) # <<>> /\ Way(Peer(e))' = Tail(Way(Peer(e)))
       /\ Expecting(e) => Way(Peer(e))[1].type \in {"NEW", "PAUSE", "RESUME"}

Idles(e) ==
    /\ Passes(e)
    /\ input'[e] = input[e] /\ got'[e] = got[e] /\ in_bytes'[e] = in_bytes[e]
    /\ closing'[e] = closing[e] /\ cause'[e] = cause[e]
    /\ \/ reader'[e] = reader[e]
       \/ reader[e] \in {"none", "reading", "waiting"}
          /\ reader'[e] \in {"reading", "waiting", "stopped"}

\* a message into the incoming queue,
Takes(e) ==
    /\ Expecting(e) /\ Way(Peer(e)) # <<>> /\ Way(Peer(e))[1].type = "DATA"
    /\ Way(Peer(e))' = Tail(Way(Peer(e)))
    /\ input'[e] = Append(input[e], Way(Peer(e))[1].n)
    /\ in_bytes'[e] = in_bytes[e] + DataSize
    /\ got'[e] = got[e] /\ closing'[e] = closing[e] /\ cause'[e] = cause[e]
    /\ reader'[e] = reader[e]

\* the close of the channel,
Shuts(e) ==
    /\ Expecting(e) /\ ~Expecting(e)'
    /\ \/ Way(Peer(e))' = Way(Peer(e)) /\ cause'[e] # "peer"
       \/ /\ Way(Peer(e)) # <<>> /\ Way(Peer(e))' = Tail(Way(Peer(e)))
          /\ cause'[e] = "peer" => Way(Peer(e))[1].type = "CLOSE"
    /\ closing'[e] /\ input'[e] = InputClosed(e)
    /\ got'[e] = got[e] /\ in_bytes'[e] = in_bytes[e] /\ reader'[e] = reader[e]

\* a message from the incoming queue, or the end of the task that reads.
Fetches(e) ==
    /\ reader[e] \in Alive /\ input[e] # <<>> /\ Head(input[e]) # Nil
    /\ Way(Peer(e))' = Way(Peer(e))
    /\ input'[e] = Tail(input[e]) /\ in_bytes'[e] = in_bytes[e] - DataSize
    /\ closing'[e] = closing[e] /\ cause'[e] = cause[e]
    /\ \/ reader'[e] = "reading" /\ got'[e] = Append(got[e], Head(input[e]))
       \/ reader'[e] = "failed" /\ got'[e] = got[e] /\ ~Expecting(e)

Finishes(e) ==
    /\ reader[e] \in Alive /\ reader'[e] = "closed"
    /\ (input[e] # <<>> /\ Head(input[e]) = Nil) \/ (input[e] = <<>> /\ closing[e])
    /\ Way(Peer(e))' = Way(Peer(e))
    /\ input'[e] = input[e] /\ got'[e] = got[e] /\ in_bytes'[e] = in_bytes[e]
    /\ closing'[e] = closing[e] /\ cause'[e] = cause[e]

ReaderStep(e) ==
    /\ Idles(e) \/ Takes(e) \/ Shuts(e) \/ Fetches(e) \/ Finishes(e)
    /\ Expecting(e)' => Expecting(e)
    /\ qstate'[e] = "none" =>
           /\ qstate[e] = "none" /\ Idles(e) /\ Way(Peer(e))' = Way(Peer(e))
           /\ source'[e] = source[e] /\ reader'[e] = reader[e]
           /\ in_under'[e] = in_under[e] /\ remote_under'[e] = remote_under[e]
    /\ table'[e] => qstate'[e] = "open"
    /\ table'[e] => table[e] \/ qstate[e] = "none"
    /\ qstate[e] = "none" /\ qstate'[e] # "none" =>
           \/ e = "server" /\ \E m \in Messages : Says(e, m) /\ m.type = "NEW"
           \/ /\ Way(Peer(e)) # <<>> /\ Way(Peer(e))[1].type = "NEW"
              /\ Way(Peer(e))' = Tail(Way(Peer(e)))

Step(e) == WriterStep(e) /\ ReaderStep(e) /\ Bystander(Peer(e))

\* The channel is created.
LEMMA CreateIsStep ==
    ASSUME TypeOK, Inv, CreateChannel
    PROVE  Step("server")
  <1>0. PICK e \in Ends : e = "server"
    BY DEF Ends
  <1>1. PICK p \in Ends : p = Peer(e) /\ p # e
    BY EndFacts
  <1>2. PICK m \in Messages : m = Msg("NEW") /\ m.type = "NEW"
    BY MessageTypes DEF Control
  <1>3. /\ Enqueue(e, m) /\ wire' = wire
        /\ UNCHANGED <<remote_under, closing, sent, got, input, in_bytes, in_under, cause, closedAt>>
    BY <1>0, <1>2 DEF CreateChannel, inVars, histVars
  <1>4. /\ Way(e)' = Append(Way(e), m) /\ output'[p] = output[p]
    BY <1>1, <1>3, EnqueueEffect
  <1>5. Way(p)' = Way(p)
    BY <1>3, <1>4 DEF Way
  <1>6. /\ qstate[e] = "none" /\ qstate'[e] = "open" /\ table'[e] /\ reader'[e] = "reading"
        /\ qstate'[p] = qstate[p] /\ table'[p] = table[p] /\ reader'[p] = reader[p]
        /\ source'[p] = source[p]
    BY <1>0, <1>1 DEF CreateChannel, TypeOK
  <1>7. reader[e] = "none"
    BY <1>6 DEF Inv, Unborn
  <1>8. Says(e, m)
    BY <1>0, <1>2, <1>3, <1>4, <1>6 DEF Says
  <1>9. WriterStep(e)
    BY <1>6, <1>8 DEF WriterStep
  <1>10. Idles(e)
    BY <1>1, <1>3, <1>5, <1>6, <1>7 DEF Idles, Passes
  <1>11. ReaderStep(e)
    BY <1>0, <1>2, <1>6, <1>8, <1>10 DEF ReaderStep, Expecting
  <1>12. Bystander(p)
    BY <1>3, <1>6 DEF Bystander
  <1> QED
    BY <1>0, <1>1, <1>9, <1>11, <1>12 DEF Step

\* A message is written to the connection.
LEMMA SendIsStep ==
    ASSUME TypeOK, Accounted, Inv, NEW e \in Ends, Send(e)
    PROVE  Step(e)
  <1>1. PICK p \in Ends : p = Peer(e) /\ p # e
    BY EndFacts
  <1>2. Way(e)' = Way(e) /\ Way(p)' = Way(p)
    BY SendEffect
  <1>3. UNCHANGED <<table, remote_under, input, in_bytes, in_under, closing, source, reader,
                    sent, got, cause, closedAt>>
    BY DEF Send, inVars, histVars
  <1>4. /\ qstate[e] # "none" /\ qstate'[e] # "none" /\ qstate'[p] = qstate[p]
        /\ qstate[e] = "open" => qstate'[e] = "open"
    BY <1>1 DEF Send, TypeOK
  <1>5. WriterStep(e)
    BY <1>2, <1>3, <1>4 DEF WriterStep, Silent
  <1>6. Idles(e)
    BY <1>1, <1>2, <1>3 DEF Idles, Passes
  <1>7. table[e] => qstate[e] = "open"
    BY DEF Inv, Life
  <1>8. ReaderStep(e)
    BY <1>3, <1>4, <1>6, <1>7 DEF ReaderStep, Expecting
  <1>9. Bystander(p)
    BY <1>3, <1>4 DEF Bystander
  <1> QED
    BY <1>1, <1>5, <1>8, <1>9 DEF Step

\* The multiplexer of the end goes down.
LEMMA MuxDownIsStep ==
    ASSUME TypeOK, Inv, NEW e \in Ends, MuxDown(e)
    PROVE  Step(e)
  <1>1. PICK p \in Ends : p = Peer(e) /\ p # e
    BY EndFacts
  <1>2. UNCHANGED <<output, wire, remote_under, source, reader, sent, got, closedAt,
                    in_bytes, in_under>>
    BY DEF MuxDown, Close, outVars, inVars
  <1>3. Way(e)' = Way(e) /\ Way(p)' = Way(p)
    BY <1>2 DEF Way
  <1>4. WriterStep(e)
    BY <1>2, <1>3 DEF WriterStep, Silent
  <1>5. table[e] => qstate[e] = "open"
    BY DEF Inv, Life
  <1>6. CASE table[e]
    <2>1. /\ ~table'[e] /\ qstate'[e] \in {"gone", "closing"} /\ closing'[e]
          /\ input'[e] = InputClosed(e) /\ cause'[e] = "down"
          /\ table'[p] = table[p] /\ qstate'[p] = qstate[p] /\ closing'[p] = closing[p]
          /\ input'[p] = input[p] /\ cause'[p] = cause[p]
      BY <1>1, <1>6 DEF MuxDown, Close, QueueDeleted, TypeOK
    <2>2. Shuts(e)
      BY <1>1, <1>2, <1>3, <1>6, <2>1 DEF Shuts, Expecting
    <2>3. ReaderStep(e)
      BY <1>5, <1>6, <2>1, <2>2 DEF ReaderStep, Expecting
    <2>4. Bystander(p)
      BY <1>2, <2>1 DEF Bystander
    <2> QED
      BY <1>1, <1>4, <2>3, <2>4 DEF Step
  <1>7. CASE ~table[e]
    <2>1. UNCHANGED <<table, qstate, input, closing, cause>>
      BY <1>7 DEF MuxDown, inVars
    <2>2. Idles(e)
      BY <1>1, <1>2, <1>3, <2>1 DEF Idles, Passes
    <2>3. ReaderStep(e)
      BY <1>1, <1>2, <1>3, <1>5, <1>7, <2>1, <2>2 DEF ReaderStep, Expecting
    <2>4. Bystander(p)
      BY <1>2, <2>1 DEF Bystander
    <2> QED
      BY <1>1, <1>4, <2>3, <2>4 DEF Step
  <1> QED
    BY <1>6, <1>7

\* NEW finds an end that has no channel yet.
LEMMA ReceiveNewIsStep ==
    ASSUME TypeOK, Inv, NEW e \in Ends, ReceiveNew(e)
    PROVE  Step(e)
  <1>1. PICK p \in Ends : p = Peer(e) /\ p # e
    BY EndFacts
  <1>2. UNCHANGED <<output, remote_under, input, in_bytes, in_under, closing, sent, got,
                    cause, closedAt>>
    BY DEF ReceiveNew, outVars, inVars, histVars
  <1>3. /\ Way(p) # <<>> /\ Way(p) \in Seq(Messages) /\ Way(p)[1].type = "NEW"
        /\ Way(p)' = Tail(Way(p)) /\ wire'[e] = wire[e]
    BY <1>1, <1>2, IncomingEffect DEF ReceiveNew
  <1>4. Way(e)' = Way(e)
    BY <1>2, <1>3 DEF Way
  <1>5. qstate[e] = "none"
    <2>1. 1 \in DOMAIN Way(p)
      BY <1>3, TailEffect
    <2>2. p = "server" /\ e = "client"
      BY <1>1, <1>3, <2>1 DEF Inv, NewFirst, Ends
    <2> QED
      BY <1>3, <2>1, <2>2 DEF Inv, NewFirst
  <1>6. ~table[e] /\ source[e] = "none" /\ reader[e] = "none"
    BY <1>5 DEF Inv, Unborn
  <1>7. /\ qstate'[e] = "open" /\ table'[e] /\ reader'[e] = "reading"
        /\ qstate'[p] = qstate[p] /\ table'[p] = table[p] /\ reader'[p] = reader[p]
        /\ source'[p] = source[p]
    BY <1>1 DEF ReceiveNew, TypeOK
  <1>8. WriterStep(e)
    BY <1>2, <1>4 DEF WriterStep, Silent
  <1>9. Idles(e)
    BY <1>1, <1>2, <1>3, <1>6, <1>7 DEF Idles, Passes
  <1>10. ReaderStep(e)
    BY <1>1, <1>3, <1>5, <1>7, <1>9 DEF ReaderStep, Expecting
  <1>11. Bystander(p)
    BY <1>2, <1>7 DEF Bystander
  <1> QED
    BY <1>1, <1>8, <1>10, <1>11 DEF Step

\* DATA goes to the incoming queue, and may call for a PAUSE.
LEMMA ReceiveDataIsStep ==
    ASSUME TypeOK, Inv, NEW e \in Ends, ReceiveData(e)
    PROVE  Step(e)
  <1>1. PICK p \in Ends : p = Peer(e) /\ p # e
    BY EndFacts
  <1>2. /\ table[e]
        /\ UNCHANGED <<table, qstate, remote_under, closing, source, reader, sent, got, cause,
                       closedAt>>
    BY DEF ReceiveData, muxVars, histVars
  <1>3. qstate[e] = "open"
    BY <1>2 DEF Inv, Life
  <1>4. UNCHANGED outVars \/ (Msg("PAUSE") \in Messages /\ Enqueue(e, Msg("PAUSE")))
    BY TellRemoteOut DEF ReceiveData, InputPut
  <1>5. output'[p] = output[p]
    BY <1>1, <1>4, EnqueueEffect DEF outVars
  <1>6. /\ Way(p) # <<>> /\ Way(p)[1].type = "DATA" /\ Way(p)[1] = Head(wire[p])
        /\ Way(p)' = Tail(Way(p)) /\ wire'[e] = wire[e]
    BY <1>1, <1>5, IncomingEffect DEF ReceiveData
  <1>7. /\ input'[e] = Append(input[e], Head(wire[p]).n) /\ input'[p] = input[p]
        /\ in_bytes'[e] = in_bytes[e] + DataSize /\ in_bytes'[p] = in_bytes[p]
        /\ in_under'[p] = in_under[p]
    BY <1>1 DEF ReceiveData, InputPut, TypeOK
  <1>8. WriterStep(e)
    <2>1. CASE UNCHANGED outVars
      <3>1. Way(e)' = Way(e)
        BY <1>6, <2>1 DEF Way, outVars
      <3> QED
        BY <1>2, <3>1 DEF WriterStep, Silent
    <2>2. CASE Msg("PAUSE") \in Messages /\ Enqueue(e, Msg("PAUSE"))
      <3>1. Way(e)' = Append(Way(e), Msg("PAUSE"))
        BY <1>6, <2>2, EnqueueEffect
      <3>2. Says(e, Msg("PAUSE"))
        BY <1>2, <2>2, <3>1, MessageTypes DEF Says, Control
      <3> QED
        BY <1>2, <1>3, <2>2, <3>2 DEF WriterStep
    <2> QED
      BY <1>4, <2>1, <2>2
  <1>9. Takes(e)
    BY <1>1, <1>2, <1>6, <1>7 DEF Takes, Expecting
  <1>10. ReaderStep(e)
    BY <1>2, <1>3, <1>9 DEF ReaderStep, Expecting
  <1>11. Bystander(p)
    BY <1>2, <1>7 DEF Bystander
  <1> QED
    BY <1>1, <1>8, <1>10, <1>11 DEF Step

\* CLOSE is queued as the channel leaves the table.
LEMMA DeleteCloses ==
    ASSUME TypeOK, Inv, NEW e \in Ends, NEW p \in Ends, p = Peer(e), DeleteChannel(e),
           wire'[e] = wire[e], sent' = sent, qstate[e] # "none"
    PROVE  /\ output'[p] = output[p] /\ table'[p] = table[p] /\ qstate'[p] = qstate[p]
           /\ closedAt'[p] = closedAt[p]
           /\ ~table'[e] /\ qstate'[e] # "none"
           /\ Silent(e) \/ Closes(e)
  <1>1. p # e
    BY EndFacts
  <1>2. CASE table[e]
    <2>1. qstate[e] = "open" /\ closedAt[e] = -1
      BY <1>2 DEF Inv, Life, Expecting
    <2>2. /\ Enqueue(e, Msg("CLOSE")) /\ Msg("CLOSE") \in Messages
          /\ table'[p] = table[p] /\ qstate'[p] = qstate[p] /\ closedAt'[p] = closedAt[p]
          /\ ~table'[e] /\ qstate'[e] = "closing" /\ closedAt'[e] = sent[e]
      BY <1>1, <1>2, <2>1, MessageTypes DEF DeleteChannel, TypeOK, Control
    <2>3. Way(e)' = Append(Way(e), Msg("CLOSE")) /\ output'[p] = output[p]
      BY <2>2, EnqueueEffect
    <2> QED
      BY <2>1, <2>2, <2>3 DEF Closes
  <1>3. CASE ~table[e]
    <2>1. UNCHANGED <<table, output, closedAt>>
      BY <1>3 DEF DeleteChannel, outVars
    <2>2. qstate'[p] = qstate[p] /\ qstate'[e] \in {"gone", "closing"}
      BY <1>1, <1>3 DEF DeleteChannel, QueueDeleted, TypeOK
    <2>3. Way(e)' = Way(e)
      BY <2>1 DEF Way
    <2> QED
      BY <1>3, <2>1, <2>2, <2>3 DEF Silent
  <1> QED
    BY <1>2, <1>3

\* DATA for an unhealthy channel and CLOSE end the channel.
LEMMA ReceiveEndIsStep ==
    ASSUME TypeOK, Inv, NEW e \in Ends, ReceiveDataUnhealthy(e) \/ ReceiveClose(e)
    PROVE  Step(e)
  <1>1. PICK p \in Ends : p = Peer(e) /\ p # e
    BY EndFacts
  <1>2. /\ table[e] /\ UNCHANGED <<remote_under, source, reader, sent, got, in_bytes, in_under>>
    BY DEF ReceiveDataUnhealthy, ReceiveClose, Close
  <1>3. qstate[e] = "open"
    BY <1>2 DEF Inv, Life
  <1>4. /\ Way(p) # <<>> /\ wire'[e] = wire[e]
        /\ Way(p)[1].type = (IF ReceiveClose(e) THEN "CLOSE" ELSE "DATA")
        /\ output'[p] = output[p] => Way(p)' = Tail(Way(p))
    BY <1>1, IncomingEffect DEF ReceiveDataUnhealthy, ReceiveClose
  <1>5. /\ output'[p] = output[p] /\ table'[p] = table[p] /\ qstate'[p] = qstate[p]
        /\ closedAt'[p] = closedAt[p]
        /\ ~table'[e] /\ qstate'[e] # "none"
        /\ Silent(e) \/ Closes(e)
    <2>1. CASE ReceiveDataUnhealthy(e)
      BY <1>1, <1>2, <1>3, <1>4, <2>1, DeleteCloses DEF ReceiveDataUnhealthy
    <2>2. CASE ReceiveClose(e)
      <3>1. UNCHANGED <<output, closedAt>>
        BY <2>2 DEF ReceiveClose, outVars
      <3>2. /\ table'[p] = table[p] /\ qstate'[p] = qstate[p]
            /\ ~table'[e] /\ qstate'[e] \in {"gone", "closing"}
        BY <1>1, <2>2 DEF ReceiveClose, QueueDeleted, TypeOK
      <3>3. Way(e)' = Way(e)
        BY <1>4, <3>1 DEF Way
      <3> QED
        BY <1>2, <3>1, <3>2, <3>3 DEF Silent
    <2> QED
      BY <2>1, <2>2
  <1>6. /\ closing'[e] /\ input'[e] = InputClosed(e)
        /\ cause'[e] = "peer" => ReceiveClose(e)
        /\ closing'[p] = closing[p] /\ input'[p] = input[p] /\ cause'[p] = cause[p]
    BY <1>1 DEF ReceiveDataUnhealthy, ReceiveClose, Close, TypeOK
  <1>7. WriterStep(e)
    BY <1>5 DEF WriterStep
  <1>8. Shuts(e)
    BY <1>1, <1>2, <1>4, <1>5, <1>6 DEF Shuts, Expecting
  <1>9. ReaderStep(e)
    BY <1>2, <1>3, <1>5, <1>8 DEF ReaderStep, Expecting
  <1>10. Bystander(p)
    BY <1>2, <1>5, <1>6 DEF Bystander
  <1> QED
    BY <1>1, <1>7, <1>9, <1>10 DEF Step

\* PAUSE and RESUME, and what comes for an end that has lost the channel.
LEMMA ReceivePassesIsStep ==
    ASSUME TypeOK, Inv, NEW e \in Ends, ReceivePauseResume(e) \/ ReceiveUnknown(e)
    PROVE  Step(e)
  <1>1. PICK p \in Ends : p = Peer(e) /\ p # e
    BY EndFacts
  <1>2. UNCHANGED <<table, qstate, output, input, in_bytes, in_under, closing, source, reader,
                    sent, got, cause, closedAt>>
    BY DEF ReceivePauseResume, ReceiveUnknown, muxVars, outVars, inVars, histVars
  <1>3. /\ Way(p) # <<>> /\ Way(p) \in Seq(Messages) /\ wire'[e] = wire[e]
        /\ Way(p)' = Tail(Way(p)) /\ Way(p)[1].type # "NEW"
        /\ ReceivePauseResume(e) => Way(p)[1].type \in {"PAUSE", "RESUME"}
    BY <1>1, <1>2, IncomingEffect DEF ReceivePauseResume, ReceiveUnknown
  <1>4. Way(e)' = Way(e)
    BY <1>2, <1>3 DEF Way
  <1>5. table[e] => qstate[e] = "open"
    BY DEF Inv, Life
  <1>6. qstate[e] # "none"
    <2>1. qstate[p] # "none"
      BY <1>3 DEF Inv, Unborn
    <2>2. CASE e = "client"
      BY <1>1, <1>3, <2>1, <2>2 DEF Inv, NewFirst, Ends
    <2>3. CASE e = "server"
      BY <1>1, <2>1, <2>3 DEF Inv, NewFirst, Ends
    <2> QED
      BY <2>2, <2>3 DEF Ends
  <1>7. ReceiveUnknown(e) => ~table[e]
    BY DEF ReceiveUnknown
  <1>8. remote_under'[p] = remote_under[p]
    BY <1>1 DEF ReceivePauseResume, ReceiveUnknown, TypeOK
  <1>9. WriterStep(e)
    BY <1>2, <1>4 DEF WriterStep, Silent
  <1>10. Idles(e)
    BY <1>1, <1>2, <1>3, <1>6, <1>7 DEF Idles, Passes, Expecting
  <1>11. ReaderStep(e)
    BY <1>2, <1>5, <1>6, <1>10 DEF ReaderStep, Expecting
  <1>12. Bystander(p)
    BY <1>2, <1>8 DEF Bystander
  <1> QED
    BY <1>1, <1>9, <1>11, <1>12 DEF Step

\* Steps of the handler that only move it on.
LEMMA HandlerMovesIsStep ==
    ASSUME TypeOK, Inv, NEW e \in Ends, NEW r,
           reader'[e] = r /\ (r = reader[e] \/ (reader[e] \in Alive /\ r \in {"waiting", "stopped"})),
           reader'[Peer(e)] = reader[Peer(e)],
           source'[Peer(e)] = source[Peer(e)],
           source[e] # "none" \/ reader[e] \in Alive,
           UNCHANGED <<muxVars, outVars, remote_under, wire, inVars, closing, sent, got,
                       histVars>>
    PROVE  Step(e)
  <1>1. PICK p \in Ends : p = Peer(e) /\ p # e
    BY EndFacts
  <1>2. UNCHANGED <<table, qstate, output, wire, input, in_bytes, in_under, remote_under,
                    closing, sent, got, cause, closedAt>>
    BY DEF muxVars, outVars, inVars, histVars
  <1>3. Way(e)' = Way(e) /\ Way(p)' = Way(p)
    BY <1>2 DEF Way
  <1>4. qstate[e] # "none" /\ (table[e] => qstate[e] = "open")
    BY DEF Inv, Unborn, Life, Alive
  <1>5. WriterStep(e)
    BY <1>2, <1>3 DEF WriterStep, Silent
  <1>6. Idles(e)
    BY <1>1, <1>2, <1>3 DEF Idles, Passes, Alive
  <1>7. ReaderStep(e)
    BY <1>2, <1>4, <1>6 DEF ReaderStep, Expecting
  <1>8. Bystander(p)
    BY <1>1, <1>2 DEF Bystander
  <1> QED
    BY <1>1, <1>5, <1>7, <1>8 DEF Step

\* put() has taken a chunk.
LEMMA AcceptIsStep ==
    ASSUME TypeOK, Inv, NEW e \in Ends, source[e] # "none", Accept(e)
    PROVE  Step(e)
  <1>1. PICK p \in Ends : p = Peer(e) /\ p # e
    BY EndFacts
  <1>2. UNCHANGED <<table, qstate, wire, input, in_bytes, in_under, remote_under,
                    closing, reader, got, cause, closedAt>>
    BY DEF Accept, muxVars, inVars, histVars
  <1>3. Data(sent[e] + 1) \in Messages
    BY MessageTypes DEF TypeOK
  <1>4. Way(e)' = Append(Way(e), Data(sent[e] + 1)) /\ output'[p] = output[p]
    BY <1>1, <1>2, <1>3, EnqueueEffect DEF Accept
  <1>5. Way(p)' = Way(p)
    BY <1>2, <1>4 DEF Way
  <1>6. sent'[e] = sent[e] + 1 /\ sent'[p] = sent[p] /\ source'[p] = source[p]
    BY <1>1 DEF Accept, TypeOK
  <1>7. qstate[e] # "none" /\ (table[e] => qstate[e] = "open")
    BY DEF Inv, Unborn, Life
  <1>8. WriterStep(e)
    BY <1>2, <1>4, <1>6, <1>7 DEF WriterStep, Accepts
  <1>9. Idles(e)
    BY <1>1, <1>2, <1>5 DEF Idles, Passes
  <1>10. ReaderStep(e)
    BY <1>2, <1>7, <1>9 DEF ReaderStep, Expecting
  <1>11. Bystander(p)
    BY <1>2, <1>6 DEF Bystander
  <1> QED
    BY <1>1, <1>8, <1>10, <1>11 DEF Step

\* The handler ends and deletes the channel.
LEMMA HandlerEndsIsStep ==
    ASSUME TypeOK, Inv, NEW e \in Ends, HandlerEnds(e)
    PROVE  Step(e)
  <1>1. PICK p \in Ends : p = Peer(e) /\ p # e
    BY EndFacts
  <1>2. UNCHANGED <<wire, input, in_bytes, in_under, remote_under, closing, sent, got, cause>>
    BY DEF HandlerEnds, inVars
  <1>3. qstate[e] # "none"
    BY DEF HandlerEnds, Inv, Unborn
  <1>4. /\ output'[p] = output[p] /\ table'[p] = table[p] /\ qstate'[p] = qstate[p]
        /\ closedAt'[p] = closedAt[p]
        /\ ~table'[e] /\ qstate'[e] # "none"
        /\ Silent(e) \/ Closes(e)
    BY <1>1, <1>2, <1>3, DeleteCloses DEF HandlerEnds
  <1>5. Way(p)' = Way(p)
    BY <1>2, <1>4 DEF Way
  <1>6. /\ reader'[e] = reader[e] \/ (reader[e] \in Alive /\ reader'[e] = "stopped")
        /\ reader'[p] = reader[p] /\ source'[p] = source[p]
    BY <1>1 DEF HandlerEnds, TypeOK
  <1>7. WriterStep(e)
    BY <1>4 DEF WriterStep
  <1>8. Idles(e)
    BY <1>1, <1>2, <1>5, <1>6 DEF Idles, Passes, Alive
  <1>9. ReaderStep(e)
    BY <1>3, <1>4, <1>8 DEF ReaderStep, Expecting
  <1>10. Bystander(p)
    BY <1>2, <1>4, <1>6 DEF Bystander
  <1> QED
    BY <1>1, <1>7, <1>9, <1>10 DEF Step

\* read() returns a message, or fails as it calls for a RESUME.
LEMMA ReadIsStep ==
    ASSUME TypeOK, Inv, NEW e \in Ends, Read(e)
    PROVE  Step(e)
  <1>1. PICK p \in Ends : p = Peer(e) /\ p # e
    BY EndFacts
  <1>2. /\ UNCHANGED <<table, qstate, wire, remote_under, closing, source, sent, cause, closedAt>>
        /\ reader[e] \in Alive /\ input[e] # <<>> /\ Head(input[e]) # Nil
    BY DEF Read, muxVars, histVars
  <1>3. qstate[e] # "none" /\ (table[e] => qstate[e] = "open")
    BY <1>2 DEF Inv, Unborn, Life, Alive
  <1>4. UNCHANGED outVars \/ (Msg("RESUME") \in Messages /\ Enqueue(e, Msg("RESUME")))
    BY TellRemoteOut DEF Read
  <1>5. output'[p] = output[p]
    BY <1>1, <1>4, EnqueueEffect DEF outVars
  <1>6. Way(p)' = Way(p)
    BY <1>2, <1>5 DEF Way
  <1>7. WriterStep(e)
    <2>1. CASE UNCHANGED outVars
      <3>1. Way(e)' = Way(e)
        BY <1>2, <2>1 DEF Way, outVars
      <3> QED
        BY <1>2, <3>1 DEF WriterStep, Silent
    <2>2. CASE Msg("RESUME") \in Messages /\ Enqueue(e, Msg("RESUME"))
      <3>1. Way(e)' = Append(Way(e), Msg("RESUME"))
        BY <1>2, <2>2, EnqueueEffect
      <3>2. Says(e, Msg("RESUME"))
        BY <1>2, <2>2, <3>1, MessageTypes DEF Says, Control
      <3> QED
        BY <1>2, <1>3, <2>2, <3>2 DEF WriterStep
    <2> QED
      BY <1>4, <2>1, <2>2
  <1>8. /\ input'[e] = Tail(input[e]) /\ input'[p] = input[p]
        /\ in_bytes'[e] = in_bytes[e] - DataSize /\ in_bytes'[p] = in_bytes[p]
        /\ in_under'[p] = in_under[p]
    BY <1>1 DEF Read, TypeOK
  <1>9. /\ \/ reader'[e] = "reading" /\ got'[e] = Append(got[e], Head(input[e]))
           \/ reader'[e] = "failed" /\ got'[e] = got[e] /\ qstate[e] = "gone"
        /\ reader'[p] = reader[p] /\ got'[p] = got[p]
    <2>1. reader \in [Ends -> Alive \cup {"none", "closed", "failed", "stopped"}]
      BY DEF TypeOK
    <2>2. got \in [Ends -> Seq(Nat)]
      BY DEF TypeOK
    <2>3. \/ /\ got' = [got EXCEPT ![e] = Append(@, Head(input[e]))]
             /\ reader' = [reader EXCEPT ![e] = "reading"]
          \/ /\ reader' = [reader EXCEPT ![e] = "failed"]
             /\ got' = got /\ qstate[e] = "gone"
      BY DEF Read
    <2> QED
      BY <1>1, <2>1, <2>2, <2>3
  <1>10. Fetches(e)
    BY <1>1, <1>2, <1>3, <1>6, <1>8, <1>9 DEF Fetches, Expecting
  <1>11. ReaderStep(e)
    BY <1>2, <1>3, <1>10 DEF ReaderStep, Expecting
  <1>12. Bystander(p)
    BY <1>2, <1>8, <1>9 DEF Bystander
  <1> QED
    BY <1>1, <1>7, <1>11, <1>12 DEF Step

\* read() raises MultiplexerTransportClose.
LEMMA ReadCloseIsStep ==
    ASSUME TypeOK, Inv, NEW e \in Ends, ReadClose(e)
    PROVE  Step(e)
  <1>1. PICK p \in Ends : p = Peer(e) /\ p # e
    BY EndFacts
  <1>2. UNCHANGED <<table, qstate, output, wire, input, in_bytes, in_under, remote_under,
                    closing, source, sent, got, cause, closedAt>>
    BY DEF ReadClose, muxVars, outVars, inVars, histVars
  <1>3. Way(e)' = Way(e) /\ Way(p)' = Way(p)
    BY <1>2 DEF Way
  <1>4. /\ reader[e] \in Alive /\ reader'[e] = "closed" /\ reader'[p] = reader[p]
        /\ (input[e] # <<>> /\ Head(input[e]) = Nil) \/ (input[e] = <<>> /\ closing[e])
    BY <1>1 DEF ReadClose, TypeOK, Alive
  <1>5. qstate[e] # "none" /\ (table[e] => qstate[e] = "open")
    BY <1>4 DEF Inv, Unborn, Life, Alive
  <1>6. WriterStep(e)
    BY <1>2, <1>3 DEF WriterStep, Silent
  <1>7. Finishes(e)
    BY <1>1, <1>2, <1>3, <1>4 DEF Finishes
  <1>8. ReaderStep(e)
    BY <1>2, <1>5, <1>7 DEF ReaderStep, Expecting
  <1>9. Bystander(p)
    BY <1>2, <1>4 DEF Bystander
  <1> QED
    BY <1>1, <1>6, <1>8, <1>9 DEF Step

\* Every step of the specification is a step of one end.
LEMMA NextIsStep ==
    ASSUME TypeOK, Accounted, Inv, Next
    PROVE  \E e \in Ends : Step(e)
  <1>1. CASE CreateChannel
    BY <1>1, CreateIsStep DEF Ends
  <1>2. CASE HandlerLeaves
    <2>1. /\ "client" \in Ends /\ source["client"] = "idle"
          /\ reader'["client"] = IF reader["client"] \in Alive THEN "stopped" ELSE reader["client"]
          /\ reader'[Peer("client")] = reader[Peer("client")]
          /\ source'[Peer("client")] = source[Peer("client")]
          /\ UNCHANGED <<muxVars, outVars, remote_under, wire, inVars, closing, sent, got,
                         histVars>>
      BY <1>2 DEF HandlerLeaves, TypeOK, Ends, Peer
    <2> QED
      BY <2>1, HandlerMovesIsStep
  <1>3. ASSUME NEW e \in Ends, Send(e)
        PROVE  Step(e)
    BY <1>3, SendIsStep
  <1>4. ASSUME NEW e \in Ends, Receive(e)
        PROVE  Step(e)
    BY <1>4, ReceiveNewIsStep, ReceiveDataIsStep, ReceiveEndIsStep, ReceivePassesIsStep
       DEF Receive
  <1>5. ASSUME NEW e \in Ends, MuxDown(e) \/ OrphanGet(e)
        PROVE  Step(e)
    BY <1>5, MuxDownIsStep DEF OrphanGet
  <1>6. ASSUME NEW e \in Ends, ReadSource(e) \/ ReadWait(e)
        PROVE  Step(e)
    <2>1. /\ reader'[e] = reader[e] \/ (reader[e] \in Alive /\ reader'[e] = "waiting")
          /\ reader'[Peer(e)] = reader[Peer(e)] /\ source'[Peer(e)] = source[Peer(e)]
          /\ source[e] # "none" \/ reader[e] \in Alive
          /\ UNCHANGED <<muxVars, outVars, remote_under, wire, inVars, closing, sent, got,
                         histVars>>
      BY <1>6, EndFacts DEF ReadSource, ReadWait, TypeOK, Alive
    <2> QED
      BY <2>1, HandlerMovesIsStep
  <1>7. ASSUME NEW e \in Ends, Write(e) \/ WriteResume(e)
        PROVE  Step(e)
    <2>1. source[e] # "none"
      BY <1>7 DEF Write, WriteResume
    <2>2. CASE Accept(e)
      BY <2>1, <2>2, AcceptIsStep
    <2>3. CASE ~Accept(e)
      <3>1. /\ reader' = reader /\ source'[Peer(e)] = source[Peer(e)]
            /\ UNCHANGED <<muxVars, outVars, remote_under, wire, inVars, closing, sent, got,
                           histVars>>
        BY <1>7, <2>3, EndFacts DEF Write, WriteResume, TypeOK
      <3> QED
        BY <2>1, <3>1, HandlerMovesIsStep
    <2> QED
      BY <2>2, <2>3
  <1>8. ASSUME NEW e \in Ends, HandlerEnds(e) \/ WriteRaises(e)
        PROVE  Step(e)
    BY <1>8, HandlerEndsIsStep DEF WriteRaises
  <1>9. ASSUME NEW e \in Ends, Read(e) \/ ReadClose(e)
        PROVE  Step(e)
    BY <1>9, ReadIsStep, ReadCloseIsStep
  <1> QED
    BY <1>1, <1>2, <1>3, <1>4, <1>5, <1>6, <1>7, <1>8, <1>9 DEF Next, Ends

-----------------------------------------------------------------------------
(***************************************************************************)
(* Every step keeps the invariant                                          *)
(***************************************************************************)

\* What the peer has on the way stays or loses its first message.
LEMMA ReaderWay ==
    ASSUME NEW e \in Ends, ReaderStep(e)
    PROVE  \/ Way(Peer(e))' = Way(Peer(e))
           \/ /\ Way(Peer(e)) # <<>> /\ Way(Peer(e))' = Tail(Way(Peer(e)))
              /\ Expecting(e)' => Way(Peer(e))[1].type # "CLOSE"
  BY DEF ReaderStep, Idles, Passes, Takes, Shuts, Fetches, Finishes

\* What the end has on the way stays or gets one more message.
LEMMA WriterWay ==
    ASSUME TypeOK, NEW e \in Ends, WriterStep(e)
    PROVE  \/ Way(e)' = Way(e)
           \/ \E m \in Messages :
                 /\ Way(e)' = Append(Way(e), m)
                 /\ m.type = "NEW" => e = "server" /\ qstate[e] = "none"
  <1>1. /\ Data(sent[e] + 1) \in Messages /\ Data(sent[e] + 1).type = "DATA"
        /\ Msg("CLOSE") \in Messages /\ Msg("CLOSE").type = "CLOSE"
    BY MessageTypes DEF TypeOK, Control
  <1> QED
    BY <1>1 DEF WriterStep, Silent, Says, Accepts, Closes

\* The None of close() is only found in the queue of a channel that is closing.
LEMMA NilMeansClosing ==
    ASSUME TypeOK, NEW e \in Ends, Gapless(e), reader[e] # "failed",
           NEW i \in DOMAIN input[e], input[e][i] = Nil
    PROVE  closing[e] /\ i = Len(input[e])
  <1>1. Len(got[e]) \in Nat /\ i \in Nat \ {0}
    BY DEF TypeOK
  <1> QED
    BY <1>1 DEF Gapless, Nil

\* A task that read() ends with a close has a channel that is closing.
LEMMA FinishMeansClosing ==
    ASSUME TypeOK, NEW e \in Ends, Gapless(e), Finishes(e)
    PROVE  closing[e]
  <1>1. CASE input[e] # <<>> /\ Head(input[e]) = Nil
    <2>1. input[e] \in Seq(Nat)
      BY DEF TypeOK
    <2>2. 1 \in DOMAIN input[e] /\ input[e][1] = Nil
      BY <1>1, <2>1, TailEffect
    <2>3. reader[e] # "failed"
      BY DEF Finishes, Alive
    <2> QED
      BY <2>2, <2>3, NilMeansClosing
  <1> QED
    BY <1>1 DEF Finishes

\* The traces of an end's life stay consistent.
LEMMA LifeStep ==
    ASSUME TypeOK, Inv, NEW e \in Ends, Step(e)
    PROVE  \A d \in Ends : Unborn(d)' /\ Life(d)'
  <1>0. PICK p \in Ends : p = Peer(e) /\ p # e /\ Peer(p) = e
    BY EndFacts
  <1>1. WriterStep(e) /\ ReaderStep(e) /\ Bystander(p)
    BY <1>0 DEF Step
  <1>2. Gapless(e) /\ Life(e) /\ Unborn(e) /\ Life(p) /\ Unborn(p)
    BY DEF Inv
  <1>3. Unborn(e)'
    BY <1>0, <1>1, <1>2 DEF Unborn, WriterStep, ReaderStep, Silent, Idles
  <1>4. Unborn(p)'
    BY <1>0, <1>1, <1>2, ReaderWay DEF Unborn, Bystander
  <1>5. Life(p)'
    BY <1>1, <1>2 DEF Life, Bystander, Expecting
  <1>6. Life(e)'
    <2>1. Expecting(e)' => Expecting(e)
      BY <1>1 DEF ReaderStep
    <2>2. table'[e] => qstate'[e] = "open"
      BY <1>1 DEF ReaderStep
    <2>3. closedAt'[e] \in -1 .. sent'[e]
      <3>1. sent[e] \in Nat /\ closedAt[e] \in -1 .. sent[e]
        BY <1>2 DEF TypeOK, Life
      <3> QED
        BY <1>1, <3>1 DEF WriterStep, Silent, Says, Accepts, Closes
    <2>4. Expecting(e)' => closedAt'[e] = -1
      BY <1>1, <1>2, <2>1 DEF WriterStep, Silent, Says, Accepts, Closes, Life, Expecting
    <2>5. /\ Expecting(e)' => /\ ~closing'[e] /\ cause'[e] = "open"
                              /\ reader'[e] \notin {"closed", "failed"}
          /\ reader'[e] = "closed" \/ cause'[e] = "peer" => closing'[e]
      <3>1. CASE Idles(e)
        BY <1>2, <2>1, <3>1 DEF Idles, Life
      <3>2. CASE Takes(e)
        BY <1>2, <2>1, <3>2 DEF Takes, Life
      <3>3. CASE Shuts(e)
        BY <3>3 DEF Shuts
      <3>4. CASE Fetches(e)
        BY <1>2, <2>1, <3>4 DEF Fetches, Life
      <3>5. CASE Finishes(e)
        BY <1>2, <2>1, <3>5, FinishMeansClosing DEF Finishes, Life
      <3> QED
        BY <1>1, <3>1, <3>2, <3>3, <3>4, <3>5 DEF ReaderStep
    <2> QED
      BY <2>2, <2>3, <2>4, <2>5 DEF Life
  <1> QED
    BY <1>0, <1>3, <1>4, <1>5, <1>6, EndFacts

\* NEW stays the first message.
LEMMA NewFirstStep ==
    ASSUME TypeOK, Inv, NEW e \in Ends, Step(e)
    PROVE  NewFirst'
  <1>0. /\ "client" \in Ends /\ "server" \in Ends
        /\ Peer("client") = "server" /\ Peer("server") = "client"
    BY DEF Ends, Peer
  <1>1. NewFirst /\ Unborn("server") /\ Unborn("client")
    BY <1>0 DEF Inv
  <1>2. /\ Way("client") \in Seq(Messages) /\ Way("server") \in Seq(Messages)
    BY <1>0, WayType
  <1>3. CASE e = "server"
    <2>1. WriterStep("server") /\ ReaderStep("server") /\ Bystander("client")
      BY <1>0, <1>3 DEF Step
    <2>2. qstate'["client"] = qstate["client"]
      BY <2>1 DEF Bystander
    <2>3. qstate'["server"] = "none" => qstate["server"] = "none"
      BY <2>1 DEF ReaderStep
    <2>4. \A i \in DOMAIN Way("client")' : Way("client")'[i].type # "NEW"
      <3>1. CASE Way("client")' = Way("client")
        BY <1>1, <3>1 DEF NewFirst
      <3>2. CASE Way("client") # <<>> /\ Way("client")' = Tail(Way("client"))
        <4>1. \A i \in DOMAIN Tail(Way("client")) :
                  /\ i + 1 \in DOMAIN Way("client")
                  /\ Tail(Way("client"))[i] = Way("client")[i + 1]
          BY <1>2, <3>2, TailEffect
        <4> QED
          BY <1>1, <3>2, <4>1 DEF NewFirst
      <3> QED
        BY <1>0, <2>1, <3>1, <3>2, ReaderWay
    <2>5. CASE Way("server")' = Way("server")
      <3>1. qstate["server"] = "none" => qstate'["server"] = "none"
        <4> SUFFICES ASSUME qstate["server"] = "none", qstate'["server"] # "none"
                     PROVE  FALSE
          OBVIOUS
        <4>1. CASE \E m \in Messages : Says("server", m)
          <5>1. PICK m \in Messages : Way("server")' = Append(Way("server"), m)
            BY <4>1 DEF Says
          <5>2. Append(Way("server"), m) # <<>>
            BY <1>2, <5>1, AppendEffect
          <5> QED
            BY <1>1, <2>5, <5>1, <5>2 DEF Unborn
        <4>2. CASE Way("client") # <<>> /\ Way("client")[1].type = "NEW"
          <5>1. 1 \in DOMAIN Way("client")
            BY <1>2, <4>2, TailEffect
          <5> QED
            BY <1>1, <4>2, <5>1 DEF NewFirst
        <4> QED
          BY <1>0, <2>1, <4>1, <4>2 DEF ReaderStep
      <3> QED
        BY <1>1, <2>2, <2>3, <2>4, <2>5, <3>1 DEF NewFirst
    <2>6. ASSUME NEW m \in Messages, Way("server")' = Append(Way("server"), m),
                 m.type = "NEW" => qstate["server"] = "none"
          PROVE  NewFirst'
      <3> DEFINE l == Len(Way("server"))
      <3>1. /\ l \in Nat
            /\ Way("server")' # <<>>
            /\ DOMAIN Way("server")' = 1 .. l + 1 /\ DOMAIN Way("server") = 1 .. l
            /\ Way("server")'[l + 1] = m
            /\ \A i \in 1 .. l : Way("server")'[i] = Way("server")[i]
        BY <1>2, <2>6, AppendEffect
      <3>2. CASE qstate["server"] = "none"
        <4>1. l = 0 /\ qstate["client"] = "none"
          BY <1>1, <3>2 DEF Unborn, NewFirst
        <4>2. DOMAIN Way("server")' = {1} /\ Way("server")'[1] = m
          BY <3>1, <4>1
        <4>3. qstate'["server"] # "none"
          BY <1>1, <2>1, <2>6, <3>1, <3>2 DEF WriterStep, Silent, Unborn
        <4>4. m.type = "NEW"
          <5>1. CASE \E n \in Messages : Says("server", n) /\ n.type = "NEW"
            <6>1. PICK n \in Messages : Way("server")' = Append(Way("server"), n) /\ n.type = "NEW"
              BY <5>1 DEF Says
            <6>2. Way("server")'[l + 1] = n
              BY <1>2, <6>1, AppendEffect
            <6> QED
              BY <3>1, <6>1, <6>2
          <5>2. CASE Way("client") # <<>> /\ Way("client")[1].type = "NEW"
            <6>1. 1 \in DOMAIN Way("client")
              BY <1>2, <5>2, TailEffect
            <6> QED
              BY <1>1, <5>2, <6>1 DEF NewFirst
          <5> QED
            BY <1>0, <2>1, <3>2, <4>3, <5>1, <5>2 DEF ReaderStep
        <4> QED
          BY <2>2, <2>4, <3>1, <4>1, <4>2, <4>3, <4>4 DEF NewFirst
      <3>3. CASE qstate["server"] # "none"
        <4>1. m.type # "NEW" /\ qstate'["server"] # "none"
          BY <2>3, <2>6, <3>3
        <4>2. \A i \in DOMAIN Way("server")' : Way("server")'[i].type = "NEW"
                  => i = 1 /\ qstate["client"] = "none"
          BY <1>1, <3>1, <4>1 DEF NewFirst
        <4>3. Way("server") # <<>> => Way("server")'[1] = Way("server")[1]
          <5>1. Way("server") # <<>> => 1 \in 1 .. l
            BY <1>2
          <5> QED
            BY <3>1, <5>1
        <4> QED
          BY <1>1, <2>2, <2>4, <3>1, <3>3, <4>1, <4>2, <4>3 DEF NewFirst
      <3> QED
        BY <3>2, <3>3
    <2> QED
      BY <1>0, <2>1, <2>5, <2>6, WriterWay
  <1>4. CASE e = "client"
    <2>1. WriterStep("client") /\ ReaderStep("client") /\ Bystander("server")
      BY <1>0, <1>4 DEF Step
    <2>2. qstate'["server"] = qstate["server"]
      BY <2>1 DEF Bystander
    <2>3. \A i \in DOMAIN Way("client")' : Way("client")'[i].type # "NEW"
      <3>1. CASE Way("client")' = Way("client")
        BY <1>1, <3>1 DEF NewFirst
      <3>2. ASSUME NEW m \in Messages, Way("client")' = Append(Way("client"), m), m.type # "NEW"
            PROVE  \A i \in DOMAIN Way("client")' : Way("client")'[i].type # "NEW"
        <4> DEFINE l == Len(Way("client"))
        <4>1. /\ l \in Nat
              /\ DOMAIN Way("client")' = 1 .. l + 1 /\ DOMAIN Way("client") = 1 .. l
              /\ Way("client")'[l + 1] = m
              /\ \A i \in 1 .. l : Way("client")'[i] = Way("client")[i]
          BY <1>2, <3>2, AppendEffect
        <4> QED
          BY <1>1, <3>2, <4>1 DEF NewFirst
      <3> QED
        BY <1>0, <2>1, <3>1, <3>2, WriterWay
    <2>4. CASE qstate'["client"] = "none"
      <3>1. qstate["client"] = "none" /\ Way("server")' = Way("server")
        BY <1>0, <2>1, <2>4 DEF ReaderStep
      <3> QED
        BY <1>1, <2>2, <2>3, <2>4, <3>1 DEF NewFirst
    <2>5. CASE qstate'["client"] # "none"
      <3>1. qstate["server"] # "none"
        <4>1. CASE qstate["client"] = "none"
          BY <1>0, <1>1, <2>1, <2>5, <4>1 DEF ReaderStep, Unborn
        <4>2. CASE qstate["client"] # "none"
          BY <1>1, <4>2 DEF NewFirst
        <4> QED
          BY <4>1, <4>2
      <3>2. \A i \in DOMAIN Way("server")' : Way("server")'[i].type # "NEW"
        <4>1. CASE Way("server") # <<>> /\ Way("server")' = Tail(Way("server"))
          <5>1. \A i \in DOMAIN Tail(Way("server")) :
                    /\ i \in Nat \ {0} /\ i + 1 \in DOMAIN Way("server")
                    /\ Tail(Way("server"))[i] = Way("server")[i + 1]
            BY <1>2, <4>1, TailEffect
          <5> QED
            BY <1>1, <4>1, <5>1 DEF NewFirst
        <4>2. CASE Way("server")' = Way("server") /\ qstate["client"] # "none"
          BY <1>1, <4>2 DEF NewFirst
        <4>3. CASE qstate["client"] = "none"
          BY <1>0, <2>1, <2>5, <4>1, <4>3 DEF ReaderStep
        <4> QED
          BY <1>0, <2>1, <4>1, <4>2, <4>3, ReaderWay
      <3> QED
        BY <2>2, <2>3, <2>5, <3>1, <3>2 DEF NewFirst
    <2> QED
      BY <2>4, <2>5
  <1> QED
    BY <1>3, <1>4 DEF Ends

\* What an end that may still have the channel can rely on.
LEMMA ExpectingFacts ==
    ASSUME TypeOK, Inv, NEW e \in Ends, Expecting(e)
    PROVE  /\ ~closing[e] /\ cause[e] = "open" /\ reader[e] # "failed"
           /\ \A i \in DOMAIN input[e] : input[e][i] = Len(got[e]) + i /\ input[e][i] # Nil
           /\ InQueue(e) = Len(input[e])
           /\ Len(got[e]) + Len(input[e]) <= EndOf(Peer(e))
           /\ Carries(Way(Peer(e)), Len(got[e]) + Len(input[e]) + 1, sent[Peer(e)])
  <1>1. Life(e) /\ Gapless(e) /\ Within(e) /\ Onward(e)
    BY DEF Inv
  <1>2. ~closing[e] /\ cause[e] = "open" /\ reader[e] # "failed"
    BY <1>1 DEF Life
  <1>3. input[e] \in Seq(Nat) /\ Len(input[e]) \in Nat /\ Len(got[e]) \in Nat
    BY DEF TypeOK
  <1>4. \A i \in DOMAIN input[e] : input[e][i] = Len(got[e]) + i /\ input[e][i] # Nil
    BY <1>1, <1>2, <1>3 DEF Gapless, Nil
  <1>5. input[e] # <<>> => Len(input[e]) \in DOMAIN input[e]
    BY <1>3
  <1>6. InQueue(e) = Len(input[e])
    BY <1>4, <1>5 DEF InQueue
  <1>7. Len(got[e]) + Len(input[e]) <= EndOf(Peer(e))
    <2>1. CASE input[e] = <<>>
      BY <1>1, <1>3, <2>1 DEF Within
    <2>2. CASE input[e] # <<>>
      BY <1>1, <1>2, <1>4, <1>5, <2>2 DEF Within
    <2> QED
      BY <2>1, <2>2
  <1> QED
    BY <1>1, <1>2, <1>4, <1>6, <1>7 DEF Onward

\* The end of the stream from an end is a number of messages.
LEMMA EndOfType ==
    ASSUME TypeOK, Inv, NEW e \in Ends
    PROVE  /\ EndOf(e) \in Nat /\ EndOf(e) <= sent[e] /\ sent[e] \in Nat
           /\ closedAt[e] \in -1 .. sent[e]
  <1>1. sent[e] \in Nat /\ closedAt[e] \in -1 .. sent[e]
    BY DEF TypeOK, Inv, Life
  <1> QED
    BY <1>1 DEF EndOf

\* DATA that is taken is the message that is due, from before the close.
LEMMA TakesNext ==
    ASSUME TypeOK, Inv, NEW e \in Ends, Takes(e)
    PROVE  LET k == Len(got[e]) + Len(input[e]) + 1
           IN  /\ input'[e] = Append(input[e], k) /\ k <= EndOf(Peer(e))
               /\ Carries(Way(Peer(e))', k + 1, sent[Peer(e)])
  <1> DEFINE k == Len(got[e]) + Len(input[e]) + 1
  <1>0. PICK p \in Ends : p = Peer(e) /\ Peer(p) = e
    BY EndFacts
  <1>1. Way(p) \in Seq(Messages) /\ Way(p) # <<>> /\ Expecting(e)
        /\ Way(p)[1].type = "DATA" /\ Way(p)' = Tail(Way(p))
        /\ input'[e] = Append(input[e], Way(p)[1].n)
    BY <1>0, WayType DEF Takes
  <1>2. k \in Nat /\ sent[p] \in Nat
    BY DEF TypeOK
  <1>3. Carries(Way(p), k, sent[p])
    BY <1>0, <1>1, ExpectingFacts
  <1> HIDE DEF k
  <1>4. Way(p)[1].n = k /\ k <= sent[p] /\ Carries(Tail(Way(p)), k + 1, sent[p])
    BY <1>1, <1>2, <1>3, CarriesLess
  <1>5. k <= EndOf(p)
    <2>1. CASE closedAt[p] = -1
      BY <1>4, <2>1 DEF EndOf
    <2>2. CASE closedAt[p] # -1
      <3>1. ClosePlace(p)
        BY DEF Inv
      <3>2. PICK i \in DOMAIN Way(p) : Way(p)[i].type = "CLOSE"
        BY <1>0, <1>1, <2>2, <3>1 DEF ClosePlace
      <3>3. 1 \in DOMAIN Way(p) /\ 1 < i
        BY <1>1, <3>2
      <3>4. Way(p)[1].n <= closedAt[p]
        BY <1>1, <3>1, <3>2, <3>3 DEF ClosePlace
      <3> QED
        BY <1>4, <2>2, <3>4 DEF EndOf
    <2> QED
      BY <2>1, <2>2
  <1> QED
    BY <1>0, <1>1, <1>4, <1>5 DEF k

\* An end that is told of the close has received all that came before it.
LEMMA ClosedWhenComplete ==
    ASSUME TypeOK, Inv, NEW e \in Ends, Expecting(e),
           Way(Peer(e)) # <<>>, Way(Peer(e))[1].type = "CLOSE"
    PROVE  closedAt[Peer(e)] # -1 /\ Len(got[e]) + Len(input[e]) = closedAt[Peer(e)]
  <1>0. PICK p \in Ends : p = Peer(e)
    BY EndFacts
  <1>1. PICK k \in Nat : k = Len(got[e]) + Len(input[e])
    BY DEF TypeOK
  <1>2. /\ k <= EndOf(p) /\ Carries(Way(p), k + 1, sent[p])
    BY <1>0, <1>1, ExpectingFacts
  <1>3. Way(p) \in Seq(Messages) /\ 1 \in DOMAIN Way(p) /\ DOMAIN Way(p) = 1 .. Len(Way(p))
    BY <1>0, WayType, TailEffect
  <1>4. /\ closedAt[p] # -1
        /\ \A j \in DOMAIN Way(p) : Way(p)[j].type = "DATA" /\ j > 1
               => Way(p)[j].n > closedAt[p]
    BY <1>0, <1>3 DEF Inv, ClosePlace
  <1>5. closedAt[p] \in Nat /\ closedAt[p] <= sent[p] /\ sent[p] \in Nat
    BY <1>4, EndOfType
  <1>6. k <= closedAt[p]
    BY <1>2, <1>4 DEF EndOf
  <1>7. ~(k < closedAt[p])
    <2> SUFFICES ASSUME k < closedAt[p]
                 PROVE  FALSE
      OBVIOUS
    <2>1. k + 1 \in k + 1 .. sent[p]
      BY <1>5
    <2>2. PICK j \in DOMAIN Way(p) : Way(p)[j].type = "DATA" /\ Way(p)[j].n = k + 1
      BY <1>2, <2>1 DEF Carries
    <2>3. j > 1
      BY <1>0, <1>3, <2>2
    <2>4. k + 1 > closedAt[p]
      BY <1>4, <2>2, <2>3
    <2> QED
      BY <1>5, <2>4
  <1> QED
    <2>1. k = closedAt[p]
      BY <1>5, <1>6, <1>7
    <2> QED
      BY <1>0, <1>1, <1>4, <2>1

\* close() leaves the number of messages in the queue as it was.
LEMMA ShutsCount ==
    ASSUME TypeOK, Inv, NEW e \in Ends, Shuts(e)
    PROVE  /\ InQueue(e)' = Len(input[e]) /\ InQueue(e) = Len(input[e])
           /\ Len(input'[e]) \in Nat
           /\ \A i \in DOMAIN input'[e] :
                  \/ i \in DOMAIN input[e] /\ input'[e][i] = input[e][i]
                  \/ i = Len(input'[e]) /\ input'[e][i] = Nil
  <1>1. input[e] \in Seq(Nat) /\ Nil \in Nat /\ Len(input[e]) \in Nat
    BY DEF TypeOK, Nil
  <1>2. /\ \A i \in DOMAIN input[e] : input[e][i] # Nil
        /\ InQueue(e) = Len(input[e])
    BY ExpectingFacts DEF Shuts
  <1>3. CASE input'[e] = input[e]
    <2>1. input[e] # <<>> => Len(input[e]) \in DOMAIN input[e]
      BY <1>1
    <2> QED
      BY <1>1, <1>2, <1>3, <2>1 DEF InQueue
  <1>4. CASE input'[e] = Append(input[e], Nil)
    <2>1. /\ input'[e] # <<>> /\ Len(input'[e]) = Len(input[e]) + 1
          /\ DOMAIN input'[e] = 1 .. Len(input[e]) + 1 /\ DOMAIN input[e] = 1 .. Len(input[e])
          /\ input'[e][Len(input[e]) + 1] = Nil
          /\ \A i \in 1 .. Len(input[e]) : input'[e][i] = input[e][i]
      BY <1>1, <1>4, AppendEffect
    <2>2. InQueue(e)' = Len(input[e])
      BY <1>1, <2>1 DEF InQueue
    <2> QED
      BY <1>1, <1>2, <2>1, <2>2
  <1> QED
    BY <1>3, <1>4 DEF Shuts, InputClosed

\* read() takes the message that is due from the queue.
LEMMA FetchesNext ==
    ASSUME TypeOK, Inv, NEW e \in Ends, Fetches(e)
    PROVE  /\ Head(input[e]) = Len(got[e]) + 1 /\ Len(got[e]) + 1 <= EndOf(Peer(e))
           /\ InQueue(e) \in Nat \ {0} /\ InQueue(e)' = InQueue(e) - 1
           /\ Len(input'[e]) = Len(input[e]) - 1 /\ Len(input[e]) \in Nat \ {0}
           /\ \A i \in DOMAIN input'[e] :
                  /\ i \in 1 .. Len(input[e]) - 1
                  /\ i + 1 \in DOMAIN input[e] /\ input'[e][i] = input[e][i + 1]
  <1>1. input[e] \in Seq(Nat) /\ input[e] # <<>> /\ Head(input[e]) # Nil
        /\ reader[e] # "failed" /\ input'[e] = Tail(input[e])
    BY DEF TypeOK, Fetches, Alive
  <1>2. Len(got[e]) \in Nat
    BY DEF TypeOK
  <1>3. PICK l \in Nat \ {0} :
           /\ l = Len(input[e]) /\ Len(input'[e]) = l - 1
           /\ DOMAIN input[e] = 1 .. l /\ DOMAIN input'[e] = 1 .. l - 1
           /\ \A i \in 1 .. l - 1 : input'[e][i] = input[e][i + 1]
           /\ Head(input[e]) = input[e][1]
    BY <1>1, TailEffect
  <1>4. Gapless(e) /\ Within(e)
    BY DEF Inv
  <1>5. 1 \in DOMAIN input[e] /\ input[e][1] # Nil
    BY <1>1, <1>3
  <1>6. input[e][1] = Len(got[e]) + 1
    BY <1>1, <1>4, <1>5 DEF Gapless
  <1>7. Len(got[e]) + 1 <= EndOf(Peer(e))
    BY <1>1, <1>4, <1>5, <1>6 DEF Within
  <1>8. InQueue(e) \in Nat \ {0} /\ InQueue(e)' = InQueue(e) - 1
    <2>1. CASE l = 1
      <3>1. InQueue(e) = 1
        BY <1>1, <1>3, <1>5, <2>1 DEF InQueue
      <3>2. input'[e] = <<>> /\ Len(input'[e]) = 0
        BY <1>1, <1>3, <2>1
      <3>3. InQueue(e)' = 0
        BY <3>2 DEF InQueue
      <3> QED
        BY <3>1, <3>3
    <2>2. CASE l # 1
      <3>0. l - 1 \in 1 .. l - 1 /\ (l - 1) + 1 = l
        BY <2>2
      <3>1. input'[e] # <<>> /\ input'[e][l - 1] = input[e][l]
        <4>1. input'[e][l - 1] = input[e][(l - 1) + 1]
          BY <1>3, <3>0, Zenon
        <4>2. Len(input'[e]) # 0
          BY <1>3, <2>2
        <4> QED
          BY <3>0, <4>1, <4>2
      <3>2. InQueue(e) = IF input[e][l] = Nil THEN l - 1 ELSE l
        BY <1>1, <1>3 DEF InQueue
      <3>3. InQueue(e)' = IF input[e][l] = Nil THEN l - 2 ELSE l - 1
        BY <1>3, <3>1 DEF InQueue
      <3> QED
        BY <1>3, <2>2, <3>2, <3>3
    <2> QED
      BY <2>1, <2>2
  <1> QED
    BY <1>3, <1>6, <1>7, <1>8

\* One more number makes a prefix that is one longer.
LEMMA UpToMore ==
    ASSUME NEW q \in Seq(Nat), q = UpTo(Len(q))
    PROVE  Append(q, Len(q) + 1) = UpTo(Len(Append(q, Len(q) + 1)))
  <1>1. PICK l \in Nat : l = Len(q)
    OBVIOUS
  <1>2. \A i \in 1 .. l : q[i] = i
    BY <1>1 DEF UpTo
  <1> QED
    BY <1>1, <1>2 DEF UpTo

\* Positions behind what was read and what is queued.
LEMMA Positions ==
    \A g, l \in Nat :
        /\ g + l + 1 \in Nat /\ g + l + 1 # 0
        /\ g + (l + 1) = g + l + 1 /\ g + (l + 1) + 1 = (g + l + 1) + 1
        /\ (g + 1) + l = g + (l + 1)
        /\ (g + 1) + (l - 1) + 1 = g + l + 1
        /\ g + 1 = l => g = l - 1
  OBVIOUS

\* The reader of a direction: a step keeps what it has read and queued gapless.
LEMMA GaplessStep ==
    ASSUME TypeOK, Inv, NEW e \in Ends, ReaderStep(e)
    PROVE  Gapless(e)'
  <1>0. /\ got[e] \in Seq(Nat) /\ input[e] \in Seq(Nat) /\ Len(got[e]) \in Nat
        /\ Len(input[e]) \in Nat /\ Gapless(e)
    BY DEF TypeOK, Inv
  <1>1. CASE Idles(e) \/ Finishes(e)
    <2>1. /\ input'[e] = input[e] /\ got'[e] = got[e] /\ closing'[e] = closing[e]
          /\ reader'[e] # "failed" => reader[e] # "failed"
      BY <1>1 DEF Idles, Finishes, Alive
    <2> QED
      BY <1>0, <2>1 DEF Gapless
  <1>2. CASE Takes(e)
    <2>1. PICK g \in Nat, l \in Nat, k \in Nat :
              g = Len(got[e]) /\ l = Len(input[e]) /\ k = g + l + 1
      BY <1>0, Positions, Zenon
    <2>2. /\ input'[e] = Append(input[e], k) /\ got'[e] = got[e] /\ Expecting(e)
      BY <1>2, <2>1, TakesNext DEF Takes
    <2>3. \A i \in DOMAIN input[e] : input[e][i] = g + i
      BY <2>1, <2>2, ExpectingFacts
    <2>4. /\ DOMAIN input[e] = 1 .. l /\ DOMAIN input'[e] = 1 .. l + 1
          /\ input'[e][l + 1] = k /\ \A i \in 1 .. l : input'[e][i] = input[e][i]
      <3>1. /\ DOMAIN input[e] = 1 .. Len(input[e])
            /\ DOMAIN input'[e] = 1 .. Len(input[e]) + 1
            /\ input'[e][Len(input[e]) + 1] = k
            /\ \A i \in 1 .. Len(input[e]) : input'[e][i] = input[e][i]
        BY <1>0, <2>2, AppendEffect
      <3> QED
        BY <2>1, <3>1, Zenon
    <2>5. ASSUME NEW i \in DOMAIN input'[e]
          PROVE  input'[e][i] = g + i
      <3>1. i \in 1 .. l \/ i = l + 1
        BY <2>1, <2>4
      <3>2. CASE i = l + 1
        BY <2>1, <2>4, <3>2, Positions, Zenon
      <3>3. CASE i \in 1 .. l
        BY <2>3, <2>4, <3>3
      <3> QED
        BY <3>1, <3>2, <3>3
    <2> QED
      BY <1>0, <2>1, <2>2, <2>5 DEF Gapless
  <1>3. CASE Shuts(e)
    <2>1. /\ Expecting(e) /\ closing'[e] /\ got'[e] = got[e]
      BY <1>3 DEF Shuts
    <2>2. \A i \in DOMAIN input[e] : input[e][i] = Len(got[e]) + i
      BY <2>1, ExpectingFacts
    <2>3. \A i \in DOMAIN input'[e] :
              \/ i \in DOMAIN input[e] /\ input'[e][i] = input[e][i]
              \/ i = Len(input'[e]) /\ input'[e][i] = Nil
      BY <1>3, ShutsCount
    <2> QED
      BY <1>0, <2>1, <2>2, <2>3 DEF Gapless
  <1>4. CASE Fetches(e)
    <2>1. /\ Head(input[e]) = Len(got[e]) + 1 /\ Len(input'[e]) = Len(input[e]) - 1
          /\ \A i \in DOMAIN input'[e] :
                 /\ i \in 1 .. Len(input[e]) - 1
                 /\ i + 1 \in DOMAIN input[e] /\ input'[e][i] = input[e][i + 1]
      BY <1>4, FetchesNext
    <2>2. CASE reader'[e] = "failed" /\ got'[e] = got[e]
      BY <1>0, <2>2 DEF Gapless
    <2>3. CASE got'[e] = Append(got[e], Head(input[e]))
      <3>1. got'[e] = UpTo(Len(got'[e])) /\ Len(got'[e]) = Len(got[e]) + 1
        BY <1>0, <2>1, <2>3, UpToMore DEF Gapless
      <3>2. reader[e] # "failed" /\ closing'[e] = closing[e]
        BY <1>4 DEF Fetches, Alive
      <3>3. ASSUME NEW i \in DOMAIN input'[e]
            PROVE  \/ input'[e][i] = Len(got'[e]) + i
                   \/ input'[e][i] = Nil /\ i = Len(input'[e]) /\ closing'[e]
        <4>1. i \in Nat /\ i + 1 \in DOMAIN input[e] /\ input'[e][i] = input[e][i + 1]
          BY <2>1
        <4>2. \/ input[e][i + 1] = Len(got[e]) + (i + 1)
              \/ input[e][i + 1] = Nil /\ i + 1 = Len(input[e]) /\ closing[e]
          BY <1>0, <3>2, <4>1 DEF Gapless
        <4>3. CASE input[e][i + 1] = Len(got[e]) + (i + 1)
          <5>1. (Len(got[e]) + 1) + i = Len(got[e]) + (i + 1)
            BY <1>0, <4>1, Positions, Zenon
          <5> QED
            BY <3>1, <4>1, <4>3, <5>1, Zenon
        <4>4. CASE input[e][i + 1] = Nil /\ i + 1 = Len(input[e]) /\ closing[e]
          <5>1. i = Len(input[e]) - 1
            BY <1>0, <4>1, <4>4, Positions, Zenon
          <5> QED
            BY <2>1, <3>2, <4>1, <4>4, <5>1, Zenon
        <4> QED
          BY <4>2, <4>3, <4>4
      <3> QED
        BY <3>1, <3>3 DEF Gapless
    <2> QED
      BY <1>4, <2>2, <2>3 DEF Fetches
  <1> QED
    BY <1>1, <1>2, <1>3, <1>4 DEF ReaderStep

\* A step of the reader keeps the rest of what ties it to the writer.
LEMMA ReaderKeeps ==
    ASSUME TypeOK, Inv, NEW e \in Ends, ReaderStep(e), Bystander(Peer(e))
    PROVE  Within(e)' /\ Onward(e)' /\ Complete(e)' /\ in_bytes'[e] = DataSize * InQueue(e)'
  <1>0. PICK p \in Ends : p = Peer(e) /\ Peer(p) = e
    BY EndFacts
  <1>1. /\ sent'[p] = sent[p] /\ closedAt'[p] = closedAt[p]
    BY <1>0 DEF Bystander
  <1>2. EndOf(p)' = EndOf(p) /\ EndOf(p) \in Nat /\ sent[p] \in Nat
    BY <1>1, EndOfType DEF EndOf
  <1>3. /\ Within(e) /\ Onward(e) /\ Complete(e) /\ in_bytes[e] = DataSize * InQueue(e)
        /\ Way(p) \in Seq(Messages) /\ DataSize \in Nat
    BY <1>0, WayType, FlowAssumption DEF Inv
  <1>4. /\ got[e] \in Seq(Nat) /\ input[e] \in Seq(Nat) /\ Len(got[e]) \in Nat
        /\ Len(input[e]) \in Nat
    BY DEF TypeOK
  <1>5. Expecting(e)' => Expecting(e)
    BY DEF ReaderStep
  <1>6. CASE Idles(e) \/ Finishes(e)
    <2>1. /\ input'[e] = input[e] /\ got'[e] = got[e] /\ cause'[e] = cause[e]
          /\ in_bytes'[e] = in_bytes[e]
          /\ reader'[e] # "failed" => reader[e] # "failed"
      BY <1>6 DEF Idles, Finishes, Alive
    <2>2. InQueue(e)' = InQueue(e)
      BY <2>1 DEF InQueue
    <2>3. Onward(e)'
      <3> SUFFICES ASSUME Expecting(e)'
                   PROVE  Carries(Way(p)', Len(got[e]) + Len(input[e]) + 1, sent[p])
        BY <1>0, <1>1, <2>1 DEF Onward
      <3>1. Carries(Way(p), Len(got[e]) + Len(input[e]) + 1, sent[p])
        BY <1>0, <1>3, <1>5 DEF Onward
      <3>2. CASE Way(p)' = Way(p)
        BY <3>1, <3>2
      <3>3. CASE /\ Way(p) # <<>> /\ Way(p)' = Tail(Way(p))
                 /\ Way(p)[1].type \in {"NEW", "PAUSE", "RESUME"}
        <4>1. PICK a \in Nat : a = Len(got[e]) + Len(input[e]) + 1
          BY <1>4, Positions, Zenon
        <4>2. Carries(Way(p), a, sent[p]) /\ Way(p)[1].type # "DATA"
          BY <3>1, <3>3, <4>1
        <4>3. Carries(Tail(Way(p)), a, sent[p])
          BY <1>2, <1>3, <3>3, <4>2, CarriesLess
        <4> QED
          BY <3>3, <4>1, <4>3
      <3> QED
        BY <1>0, <1>5, <1>6, <3>2, <3>3 DEF Idles, Passes, Finishes
    <2> QED
      BY <1>0, <1>1, <1>2, <1>3, <2>1, <2>2, <2>3 DEF Within, Complete
  <1>7. CASE Takes(e)
    <2>0. PICK g \in Nat, l \in Nat, k \in Nat :
              g = Len(got[e]) /\ l = Len(input[e]) /\ k = g + l + 1
      BY <1>4, Positions, Zenon
    <2>1. /\ input'[e] = Append(input[e], k) /\ k <= EndOf(p) /\ k # Nil
          /\ Carries(Way(p)', k + 1, sent[p])
      <3>1. /\ input'[e] = Append(input[e], k) /\ k <= EndOf(p)
            /\ Carries(Way(p)', k + 1, sent[p])
        BY <1>0, <1>7, <2>0, TakesNext
      <3>2. k # Nil
        BY <2>0, Positions, Zenon DEF Nil
      <3> QED
        BY <3>1, <3>2
    <2>2. /\ got'[e] = got[e] /\ Expecting(e) /\ cause'[e] = cause[e] /\ reader'[e] = reader[e]
          /\ in_bytes'[e] = in_bytes[e] + DataSize
      BY <1>7 DEF Takes
    <2>3. cause[e] = "open" /\ InQueue(e) = l /\ reader[e] # "failed"
      BY <2>0, <2>2, ExpectingFacts
    <2>4. /\ DOMAIN input[e] = 1 .. l /\ DOMAIN input'[e] = 1 .. l + 1
          /\ Len(input'[e]) = l + 1 /\ input'[e] # <<>>
          /\ input'[e][l + 1] = k /\ \A i \in 1 .. l : input'[e][i] = input[e][i]
      <3>1. input'[e] = Append(input[e], k)
        BY <2>1, Zenon
      <3>2. PICK q \in Seq(Nat) : q = input[e]
        BY <1>4
      <3>3. /\ DOMAIN q = 1 .. Len(q) /\ DOMAIN Append(q, k) = 1 .. Len(q) + 1
            /\ Len(Append(q, k)) = Len(q) + 1 /\ Append(q, k) # <<>>
            /\ Append(q, k)[Len(q) + 1] = k
            /\ \A i \in 1 .. Len(q) : Append(q, k)[i] = q[i]
        OBVIOUS
      <3> QED
        BY <2>0, <3>1, <3>2, <3>3, Zenon
    <2>5. InQueue(e)' = l + 1
      BY <2>1, <2>4 DEF InQueue
    <2>6. in_bytes'[e] = DataSize * InQueue(e)'
      <3>1. \A d \in Nat, n \in Nat : d * (n + 1) = d * n + d
        OBVIOUS
      <3> QED
        BY <1>3, <2>2, <2>3, <2>5, <3>1
    <2>7. Within(e)'
      <3>1. Len(got'[e]) <= EndOf(p)'
        BY <1>0, <1>2, <1>3, <2>2 DEF Within
      <3>2. \A i \in DOMAIN input[e] : input[e][i] <= EndOf(p)
        BY <1>0, <1>3, <2>3 DEF Within
      <3>3. ASSUME NEW i \in DOMAIN input'[e]
            PROVE  input'[e][i] <= EndOf(p)
        <4>1. i \in 1 .. l \/ i = l + 1
          BY <2>0, <2>4
        <4>2. CASE i = l + 1
          BY <2>1, <2>4, <4>2
        <4>3. CASE i \in 1 .. l
          BY <2>4, <3>2, <4>3
        <4> QED
          BY <4>1, <4>2, <4>3
      <3> QED
        BY <1>0, <1>2, <3>1, <3>3 DEF Within
    <2>8. Onward(e)'
      <3>1. Len(got'[e]) + Len(input'[e]) + 1 = k + 1
        <4>1. Len(got'[e]) = g /\ Len(input'[e]) = l + 1
          BY <2>0, <2>2, <2>4, Zenon
        <4>2. g + (l + 1) + 1 = (g + l + 1) + 1
          BY Positions, Zenon
        <4> QED
          BY <2>0, <4>1, <4>2, Zenon
      <3> QED
        BY <1>0, <1>1, <2>1, <3>1 DEF Onward
    <2>9. Complete(e)'
      BY <2>2, <2>3 DEF Complete
    <2> QED
      BY <2>6, <2>7, <2>8, <2>9
  <1>8. CASE Shuts(e)
    <2>1. /\ InQueue(e)' = Len(input[e]) /\ InQueue(e) = Len(input[e])
          /\ \A i \in DOMAIN input'[e] :
                 \/ i \in DOMAIN input[e] /\ input'[e][i] = input[e][i]
                 \/ i = Len(input'[e]) /\ input'[e][i] = Nil
      BY <1>8, ShutsCount
    <2>2. /\ Expecting(e) /\ ~Expecting(e)' /\ got'[e] = got[e] /\ reader'[e] = reader[e]
          /\ in_bytes'[e] = in_bytes[e]
          /\ cause'[e] = "peer" => Way(p) # <<>> /\ Way(p)[1].type = "CLOSE"
      BY <1>0, <1>8 DEF Shuts
    <2>3. Complete(e)'
      BY <1>0, <1>1, <2>1, <2>2, ClosedWhenComplete DEF Complete
    <2>4. Within(e)'
      <3>1. reader[e] # "failed"
        BY <2>2, ExpectingFacts
      <3>2. \A i \in DOMAIN input'[e] : input'[e][i] <= EndOf(p)
        BY <1>0, <1>2, <1>3, <2>1, <3>1 DEF Within, Nil
      <3> QED
        BY <1>0, <1>2, <1>3, <2>2, <3>2 DEF Within
    <2>5. Onward(e)'
      BY <2>2 DEF Onward
    <2> QED
      BY <1>3, <2>1, <2>2, <2>3, <2>4, <2>5
  <1>9. CASE Fetches(e)
    <2>1. /\ Head(input[e]) = Len(got[e]) + 1 /\ Len(got[e]) + 1 <= EndOf(p)
          /\ InQueue(e) \in Nat \ {0} /\ InQueue(e)' = InQueue(e) - 1
          /\ Len(input'[e]) = Len(input[e]) - 1 /\ Len(input[e]) \in Nat \ {0}
          /\ \A i \in DOMAIN input'[e] :
                 i + 1 \in DOMAIN input[e] /\ input'[e][i] = input[e][i + 1]
      BY <1>0, <1>9, FetchesNext
    <2>2. /\ Way(p)' = Way(p) /\ cause'[e] = cause[e] /\ reader[e] # "failed"
          /\ in_bytes'[e] = in_bytes[e] - DataSize
          /\ \/ reader'[e] = "failed" /\ got'[e] = got[e] /\ ~Expecting(e)
             \/ reader'[e] = "reading" /\ got'[e] = Append(got[e], Head(input[e]))
      BY <1>0, <1>9 DEF Fetches, Alive
    <2>3. got'[e] = Append(got[e], Head(input[e])) => Len(got'[e]) = Len(got[e]) + 1
      BY <1>4, <2>1
    <2>4. in_bytes'[e] = DataSize * InQueue(e)'
      <3>1. \A d \in Nat, n \in Nat \ {0} : d * (n - 1) = d * n - d
        OBVIOUS
      <3> QED
        BY <1>3, <2>1, <2>2, <3>1
    <2>5. Within(e)'
      <3>1. Len(got'[e]) <= EndOf(p)'
        BY <1>0, <1>2, <1>3, <2>1, <2>2, <2>3 DEF Within
      <3>2. \A i \in DOMAIN input[e] : input[e][i] <= EndOf(p)
        BY <1>0, <1>3, <2>2 DEF Within
      <3>3. \A i \in DOMAIN input'[e] : input'[e][i] <= EndOf(p)'
        BY <1>2, <2>1, <3>2
      <3> QED
        BY <1>0, <3>1, <3>3 DEF Within
    <2>6. Onward(e)'
      <3> SUFFICES ASSUME Expecting(e)'
                   PROVE  Carries(Way(p), Len(got'[e]) + Len(input'[e]) + 1, sent[p])
        BY <1>0, <1>1, <2>2 DEF Onward
      <3>1. Len(got'[e]) + Len(input'[e]) + 1 = Len(got[e]) + Len(input[e]) + 1
        <4>1. Len(got'[e]) = Len(got[e]) + 1
          BY <1>5, <2>2, <2>3
        <4>2. PICK g \in Nat, l \in Nat : g = Len(got[e]) /\ l = Len(input[e])
          BY <1>4
        <4>3. Len(got'[e]) = g + 1 /\ Len(input'[e]) = l - 1
          BY <2>1, <4>1, <4>2
        <4> QED
          <5>1. (g + 1) + (l - 1) + 1 = g + l + 1
            BY Positions, Zenon
          <5> QED
            BY <4>2, <4>3, <5>1, Zenon
      <3> QED
        BY <1>0, <1>3, <1>5, <3>1 DEF Onward
    <2>7. Complete(e)'
      <3> SUFFICES ASSUME cause'[e] = "peer", reader'[e] # "failed"
                   PROVE  closedAt[p] # -1 /\ Len(got'[e]) + InQueue(e)' = closedAt[p]
        BY <1>0, <1>1 DEF Complete
      <3>1. closedAt[p] # -1 /\ Len(got[e]) + InQueue(e) = closedAt[p]
        BY <1>0, <1>3, <2>2 DEF Complete
      <3>2. Len(got'[e]) = Len(got[e]) + 1
        BY <2>2, <2>3
      <3> QED
        BY <1>4, <2>1, <3>1, <3>2
    <2> QED
      BY <2>4, <2>5, <2>6, <2>7
  <1> QED
    BY <1>6, <1>7, <1>8, <1>9 DEF ReaderStep

\* A step of the writer keeps what ties the reader at the other end to it.
LEMMA WriterKeeps ==
    ASSUME TypeOK, Inv, NEW e \in Ends, WriterStep(e), Bystander(Peer(e))
    PROVE  LET p == Peer(e)
           IN  /\ Gapless(p)' /\ Within(p)' /\ Onward(p)' /\ Complete(p)'
               /\ in_bytes'[p] = DataSize * InQueue(p)'
  <1>0. PICK p \in Ends : p = Peer(e) /\ Peer(p) = e
    BY EndFacts
  <1>1. /\ Gapless(p) /\ Within(p) /\ Onward(p) /\ Complete(p)
        /\ in_bytes[p] = DataSize * InQueue(p)
    BY DEF Inv
  <1>2. Bystander(p)
    BY <1>0
  <1>3. Gapless(p)' /\ in_bytes'[p] = DataSize * InQueue(p)'
    BY <1>1, <1>2 DEF Bystander, Gapless, InQueue
  <1>4. /\ sent[e] \in Nat /\ closedAt[e] \in -1 .. sent[e] /\ EndOf(e) \in Nat
        /\ EndOf(e) <= sent[e]
    BY EndOfType
  <1>5. EndOf(e) <= EndOf(e)' /\ EndOf(e)' \in Nat
    BY <1>4 DEF WriterStep, Silent, Says, Accepts, Closes, EndOf
  <1>6. Within(p)'
    <2>1. got'[p] = got[p] /\ input'[p] = input[p] /\ reader'[p] = reader[p]
      BY <1>2 DEF Bystander
    <2>2. input[p] \in Seq(Nat) /\ Len(got[p]) \in Nat
      BY DEF TypeOK
    <2>3. \A n \in Nat : n <= EndOf(e) => n <= EndOf(e)'
      BY <1>4, <1>5
    <2>4. \A i \in DOMAIN input[p] : input[p][i] \in Nat
      BY <2>2
    <2> QED
      BY <1>0, <1>1, <2>1, <2>2, <2>3, <2>4 DEF Within
  <1>7. Complete(p)'
    <2>1. closedAt[e] # -1 => closedAt'[e] = closedAt[e]
      BY DEF WriterStep, Silent, Says, Accepts, Closes
    <2>2. /\ got'[p] = got[p] /\ InQueue(p)' = InQueue(p) /\ reader'[p] = reader[p]
          /\ cause'[p] = cause[p]
      BY <1>2 DEF Bystander, InQueue
    <2> QED
      BY <1>0, <1>1, <2>1, <2>2 DEF Complete
  <1>8. Onward(p)'
    <2>1. /\ got'[p] = got[p] /\ input'[p] = input[p] /\ Expecting(p)' = Expecting(p)
      BY <1>2 DEF Bystander, Expecting
    <2> SUFFICES ASSUME Expecting(p)
                 PROVE  Carries(Way(e)', Len(got[p]) + Len(input[p]) + 1, sent'[e])
      BY <1>0, <2>1 DEF Onward
    <2>2. PICK a \in Nat : a = Len(got[p]) + Len(input[p]) + 1
      BY Positions DEF TypeOK
    <2>3. Carries(Way(e), a, sent[e]) /\ a <= sent[e] + 1
      <3>1. Carries(Way(e), a, sent[e])
        BY <1>0, <1>1, <2>2 DEF Onward
      <3>2. PICK h \in Nat : h = Len(got[p]) + Len(input[p])
        BY DEF TypeOK
      <3>3. h <= EndOf(e)
        BY <1>0, <3>2, ExpectingFacts
      <3> QED
        <4>1. a = h + 1
          BY <2>2, <3>2, Zenon
        <4>2. h <= sent[e]
          BY <1>4, <3>3
        <4> QED
          BY <1>4, <3>1, <4>1, <4>2
    <2>4. Way(e) \in Seq(Messages)
      BY WayType
    <2>5. CASE Way(e)' = Way(e) /\ sent'[e] = sent[e]
      BY <2>2, <2>3, <2>5
    <2>6. ASSUME NEW m \in Messages, m.type # "DATA", Way(e)' = Append(Way(e), m),
                 sent'[e] = sent[e]
          PROVE  Carries(Way(e)', a, sent'[e])
      <3>1. Carries(Append(Way(e), m), a, sent[e])
        BY <1>4, <2>3, <2>4, <2>6, CarriesMore
      <3> QED
        BY <2>6, <3>1
    <2>7. CASE Accepts(e)
      <3>1. PICK m \in Messages : m = Data(sent[e] + 1) /\ m.type = "DATA" /\ m.n = sent[e] + 1
        BY <1>4, MessageTypes
      <3>2. Carries(Append(Way(e), m), a, sent[e] + 1)
        BY <1>4, <2>3, <2>4, <3>1, CarriesMore
      <3> QED
        BY <2>2, <2>7, <3>1, <3>2 DEF Accepts
    <2>8. CASE Closes(e)
      <3>1. PICK m \in Messages : m = Msg("CLOSE") /\ m.type = "CLOSE"
        BY MessageTypes DEF Control
      <3>2. Way(e)' = Append(Way(e), m) /\ sent'[e] = sent[e]
        BY <2>8, <3>1 DEF Closes
      <3> QED
        BY <2>2, <2>6, <3>1, <3>2
    <2> QED
      BY <2>2, <2>5, <2>6, <2>7, <2>8 DEF WriterStep, Silent, Says
  <1> QED
    BY <1>0, <1>3, <1>6, <1>7, <1>8

\* Where the CLOSE of a stream of s messages, closed at c, stands among them.
Placed(w, s, c) ==
    /\ \A i \in DOMAIN w : w[i].type = "DATA" => w[i].n <= s
    /\ \A i \in DOMAIN w : w[i].type = "CLOSE" =>
           /\ c # -1
           /\ \A j \in DOMAIN w : w[j].type = "DATA" =>
                  (j < i => w[j].n <= c) /\ (j > i => w[j].n > c)

\* The place of CLOSE when a message is queued,
LEMMA PlacedMore ==
    ASSUME NEW w \in Seq(Messages), NEW s \in Nat, NEW c \in -1 .. s, Placed(w, s, c),
           NEW m \in Messages
    PROVE  LET W == Append(w, m)
           IN  /\ m.type \notin {"DATA", "CLOSE"} => Placed(W, s, c)
               /\ m.type = "DATA" /\ m.n = s + 1 => Placed(W, s + 1, c)
               /\ m.type = "CLOSE" /\ c = -1 => Placed(W, s, s)
  <1> DEFINE W == Append(w, m)
  <1>1. PICK l \in Nat : /\ l = Len(w) /\ DOMAIN w = 1 .. l /\ DOMAIN W = 1 .. l + 1
                         /\ W[l + 1] = m /\ \A i \in 1 .. l : W[i] = w[i]
    BY AppendEffect
  <1>2. \A i \in 1 .. l : w[i] \in Messages /\ w[i].n \in Nat
    BY <1>1, MessageTypes
  <1> HIDE DEF W
  <1>3. \A i \in DOMAIN W : i = l + 1 \/ (i \in 1 .. l /\ i < l + 1)
    BY <1>1
  <1>4. ASSUME m.type \notin {"DATA", "CLOSE"}
        PROVE  Placed(W, s, c)
    BY <1>1, <1>3, <1>4 DEF Placed
  <1>5. ASSUME m.type = "DATA", m.n = s + 1
        PROVE  Placed(W, s + 1, c)
    <2>1. \A i \in DOMAIN W : W[i].type = "DATA" => W[i].n <= s + 1
      <3>1. \A i \in 1 .. l : w[i].type = "DATA" => w[i].n <= s + 1
        <4>1. \A k \in Nat : k <= s => k <= s + 1
          OBVIOUS
        <4> QED
          BY <1>1, <1>2, <4>1 DEF Placed
      <3>2. W[l + 1].n <= s + 1
        BY <1>1, <1>5
      <3> QED
        BY <1>1, <1>3, <3>1, <3>2
    <2>2. ASSUME NEW i \in DOMAIN W, W[i].type = "CLOSE", NEW j \in DOMAIN W, W[j].type = "DATA"
          PROVE  c # -1 /\ (j < i => W[j].n <= c) /\ (j > i => W[j].n > c)
      <3>1. i \in 1 .. l /\ W[i] = w[i]
        BY <1>1, <1>3, <1>5, <2>2
      <3>2. CASE j \in 1 .. l
        BY <1>1, <2>2, <3>1, <3>2 DEF Placed
      <3>3. CASE j = l + 1
        BY <1>1, <1>5, <2>2, <3>1, <3>3 DEF Placed
      <3> QED
        BY <1>3, <3>2, <3>3
    <2>3. \A i \in DOMAIN W : W[i].type = "CLOSE" => c # -1
      BY <1>1, <1>3, <1>5 DEF Placed
    <2> QED
      BY <2>1, <2>2, <2>3 DEF Placed
  <1>6. ASSUME m.type = "CLOSE", c = -1
        PROVE  Placed(W, s, s)
    <2>1. \A i \in DOMAIN W : W[i].type = "DATA" => W[i].n <= s
      BY <1>1, <1>3, <1>6 DEF Placed
    <2>2. \A i \in DOMAIN W : W[i].type = "CLOSE" => i = l + 1
      BY <1>1, <1>3, <1>6 DEF Placed
    <2>3. \A j \in DOMAIN W : ~(j > l + 1)
      BY <1>1
    <2> QED
      BY <2>1, <2>2, <2>3 DEF Placed
  <1> QED
    BY <1>4, <1>5, <1>6 DEF W

\* and when one is taken.
LEMMA PlacedLess ==
    ASSUME NEW w \in Seq(Messages), w # <<>>, NEW s, NEW c, Placed(w, s, c)
    PROVE  Placed(Tail(w), s, c)
  <1> DEFINE W == Tail(w)
  <1>1. \A i \in DOMAIN W : i \in Nat /\ i + 1 \in DOMAIN w /\ W[i] = w[i + 1]
    BY TailEffect
  <1> HIDE DEF W
  <1>2. \A i, j \in DOMAIN W : (j < i => j + 1 < i + 1) /\ (j > i => j + 1 > i + 1)
    BY <1>1
  <1> QED
    <2>1. Placed(W, s, c)
      BY <1>1, <1>2 DEF Placed
    <2> QED
      BY <2>1 DEF W

\* CLOSE keeps its place on either way.
LEMMA ClosePlaceStep ==
    ASSUME TypeOK, Inv, NEW e \in Ends, Step(e)
    PROVE  \A d \in Ends : ClosePlace(d)'
  <1>0. PICK p \in Ends : p = Peer(e) /\ Peer(p) = e /\ p # e
    BY EndFacts
  <1>1. WriterStep(e) /\ ReaderStep(e) /\ Bystander(p)
    BY <1>0 DEF Step
  <1>2. ClosePlace(e) /\ ClosePlace(p)
    BY DEF Inv
  <1>3. Way(e) \in Seq(Messages) /\ Way(p) \in Seq(Messages)
    BY WayType
  <1>4. /\ sent[e] \in Nat /\ closedAt[e] \in -1 .. sent[e]
    BY EndOfType
  <1>5. /\ Placed(Way(e), sent[e], closedAt[e]) /\ Placed(Way(p), sent[p], closedAt[p])
    BY <1>2 DEF ClosePlace, Placed
  <1>6. ClosePlace(e)'
    <2>1. Expecting(p)' = Expecting(p)
      BY <1>1 DEF Bystander, Expecting
    <2>2. Placed(Way(e)', sent'[e], closedAt'[e])
      <3>1. CASE Silent(e)
        BY <1>5, <3>1 DEF Silent
      <3>2. ASSUME NEW m \in Messages, Says(e, m)
            PROVE  Placed(Way(e)', sent'[e], closedAt'[e])
        <4>1. Placed(Append(Way(e), m), sent[e], closedAt[e])
          BY <1>3, <1>4, <1>5, <3>2, PlacedMore DEF Says
        <4> QED
          BY <3>2, <4>1 DEF Says
      <3>3. CASE Accepts(e)
        <4>1. PICK m \in Messages : m = Data(sent[e] + 1) /\ m.type = "DATA"
                                    /\ m.n = sent[e] + 1
          BY <1>4, MessageTypes
        <4>2. Placed(Append(Way(e), m), sent[e] + 1, closedAt[e])
          BY <1>3, <1>4, <1>5, <4>1, PlacedMore
        <4> QED
          BY <3>3, <4>1, <4>2 DEF Accepts
      <3>4. CASE Closes(e)
        <4>1. PICK m \in Messages : m = Msg("CLOSE") /\ m.type = "CLOSE"
          BY MessageTypes DEF Control
        <4>2. Placed(Append(Way(e), m), sent[e], sent[e])
          BY <1>3, <1>4, <1>5, <3>4, <4>1, PlacedMore DEF Closes
        <4> QED
          BY <3>4, <4>1, <4>2 DEF Closes
      <3> QED
        BY <1>1, <3>1, <3>2, <3>3, <3>4 DEF WriterStep
    <2>3. ASSUME closedAt'[e] # -1, Expecting(p)
          PROVE  \E i \in DOMAIN Way(e)' : Way(e)'[i].type = "CLOSE"
      <3>1. CASE Closes(e)
        <4>1. PICK m \in Messages : m = Msg("CLOSE") /\ m.type = "CLOSE"
          BY MessageTypes DEF Control
        <4>2. /\ Way(e)' = Append(Way(e), m)
          BY <3>1, <4>1 DEF Closes
        <4>3. /\ Len(Way(e)) + 1 \in DOMAIN Append(Way(e), m)
              /\ Append(Way(e), m)[Len(Way(e)) + 1] = m
          BY <1>3, AppendEffect
        <4> QED
          BY <4>1, <4>2, <4>3
      <3>2. CASE ~Closes(e)
        <4>1. closedAt[e] # -1
          BY <1>1, <2>3, <3>2 DEF WriterStep, Silent, Says, Accepts
        <4>2. PICK i \in DOMAIN Way(e) : Way(e)[i].type = "CLOSE"
          BY <1>0, <1>2, <2>3, <4>1 DEF ClosePlace
        <4>3. CASE Way(e)' = Way(e)
          BY <4>2, <4>3
        <4>4. ASSUME NEW m \in Messages, Way(e)' = Append(Way(e), m)
              PROVE  \E k \in DOMAIN Way(e)' : Way(e)'[k].type = "CLOSE"
          <5>1. i \in DOMAIN Append(Way(e), m) /\ Append(Way(e), m)[i] = Way(e)[i]
            BY <1>3, <4>2, AppendEffect
          <5> QED
            BY <4>2, <4>4, <5>1
        <4> QED
          BY <1>1, <4>3, <4>4, WriterWay
      <3> QED
        BY <3>1, <3>2
    <2> QED
      BY <1>0, <2>1, <2>2, <2>3 DEF ClosePlace, Placed
  <1>7. ClosePlace(p)'
    <2>1. sent'[p] = sent[p] /\ closedAt'[p] = closedAt[p]
      BY <1>1 DEF Bystander
    <2>2. Expecting(e)' => Expecting(e)
      BY <1>1 DEF ReaderStep
    <2>3. CASE Way(p)' = Way(p)
      BY <1>0, <1>2, <2>1, <2>2, <2>3 DEF ClosePlace
    <2>4. CASE /\ Way(p) # <<>> /\ Way(p)' = Tail(Way(p))
               /\ Expecting(e)' => Way(p)[1].type # "CLOSE"
      <3>1. Placed(Way(p)', sent'[p], closedAt'[p])
        BY <1>3, <1>5, <2>1, <2>4, PlacedLess
      <3>2. ASSUME closedAt[p] # -1, Expecting(e)'
            PROVE  \E i \in DOMAIN Way(p)' : Way(p)'[i].type = "CLOSE"
        <4>1. PICK i \in DOMAIN Way(p) : Way(p)[i].type = "CLOSE"
          BY <1>0, <1>2, <2>2, <3>2 DEF ClosePlace
        <4>2. i # 1
          BY <2>4, <3>2, <4>1
        <4>3. /\ i - 1 \in DOMAIN Tail(Way(p)) /\ Tail(Way(p))[i - 1] = Way(p)[i]
          BY <1>3, <2>4, <4>1, <4>2, TailEffect
        <4> QED
          BY <2>4, <4>1, <4>3
      <3> QED
        BY <1>0, <2>1, <3>1, <3>2 DEF ClosePlace, Placed
    <2> QED
      BY <1>0, <1>1, <2>3, <2>4, ReaderWay
  <1> QED
    BY <1>0, <1>6, <1>7, EndFacts

\* The initial state.
LEMMA InitInv ==
    ASSUME Init
    PROVE  TypeOK /\ Accounted /\ Inv
  <1>1. TypeOK
    BY DEF Init, TypeOK, Ends, Messages, Alive
  <1>2. Accounted
    <2>1. \A e \in Ends : output[e] = <<>> /\ out_bytes[e] = 0
      BY DEF Init
    <2> QED
      BY <2>1, AddsUpEmpty DEF Accounted
  <1>3. \A e \in Ends :
            /\ qstate[e] = "none" /\ ~table[e] /\ source[e] = "none" /\ reader[e] = "none"
            /\ got[e] = <<>> /\ input[e] = <<>> /\ sent[e] = 0 /\ in_bytes[e] = 0
            /\ wire[e] = <<>> /\ output[e] = <<>>
            /\ ~in_under[e] /\ ~remote_under[e] /\ ~closing[e] /\ cause[e] = "open"
            /\ closedAt[e] = -1
    BY DEF Init
  <1>4. \A e \in Ends : Way(e) = <<>> /\ Peer(e) \in Ends
    BY <1>3, EndFacts DEF Way
  <1>5. NewFirst
    BY <1>3, <1>4 DEF NewFirst, Ends
  <1>6. ASSUME NEW e \in Ends
        PROVE  /\ Unborn(e) /\ Life(e) /\ Gapless(e) /\ Within(e)
               /\ Onward(e) /\ ClosePlace(e) /\ Complete(e)
               /\ in_bytes[e] = DataSize * InQueue(e)
    <2>1. Unborn(e) /\ Life(e) /\ Complete(e)
      BY <1>3, <1>4 DEF Unborn, Life, Complete, Expecting
    <2>2. Gapless(e)
      BY <1>3 DEF Gapless, UpTo
    <2>3. Within(e)
      BY <1>3, <1>4 DEF Within, EndOf
    <2>4. Onward(e)
      <3>1. Carries(<<>>, 1, 0)
        BY DEF Carries
      <3>2. Len(got[e]) = 0 /\ Len(input[e]) = 0 /\ 0 + 0 + 1 = 1
        BY <1>3
      <3> QED
        BY <1>3, <1>4, <3>1, <3>2, Zenon DEF Onward
    <2>5. ClosePlace(e)
      BY <1>3, <1>4 DEF ClosePlace
    <2>6. in_bytes[e] = DataSize * InQueue(e)
      <3>1. InQueue(e) = 0 /\ DataSize \in Nat
        BY <1>3, FlowAssumption DEF InQueue
      <3> QED
        BY <1>3, <3>1
    <2> QED
      BY <2>1, <2>2, <2>3, <2>4, <2>5, <2>6
  <1> QED
    BY <1>1, <1>2, <1>5, <1>6 DEF Inv

\* Every step keeps the invariant.
LEMMA InvStep ==
    ASSUME TypeOK, Accounted, Inv, [Next]_vars
    PROVE  Inv'
  <1>1. CASE UNCHANGED vars
    <2>1. UNCHANGED <<table, qstate, output, remote_under, wire, input, in_bytes, in_under,
                      closing, source, reader, sent, got, cause, closedAt>>
      BY <1>1 DEF vars, muxVars, outVars, inVars, histVars
    <2>2. \A d \in Ends : /\ Way(d)' = Way(d) /\ Expecting(d)' = Expecting(d)
                           /\ InQueue(d)' = InQueue(d) /\ EndOf(d)' = EndOf(d)
      BY <2>1 DEF Way, Expecting, InQueue, EndOf
    <2>3. NewFirst'
      BY <2>1, <2>2 DEF Inv, NewFirst, Ends
    <2>4. ASSUME NEW d \in Ends
          PROVE  /\ Unborn(d)' /\ Life(d)' /\ Gapless(d)' /\ Within(d)' /\ Onward(d)'
                 /\ ClosePlace(d)' /\ Complete(d)' /\ in_bytes'[d] = DataSize * InQueue(d)'
      <3>1. PICK p \in Ends : p = Peer(d)
        BY EndFacts
      <3>2. /\ Unborn(d) /\ Life(d) /\ Gapless(d) /\ Within(d) /\ Onward(d)
            /\ ClosePlace(d) /\ Complete(d) /\ in_bytes[d] = DataSize * InQueue(d)
        BY DEF Inv
      <3>3. Unborn(d)' /\ Life(d)'
        BY <2>1, <2>2, <3>2 DEF Unborn, Life
      <3>4. Gapless(d)' /\ Within(d)'
        BY <2>1, <2>2, <3>1, <3>2 DEF Gapless, Within
      <3>5. Onward(d)' /\ ClosePlace(d)'
        BY <2>1, <2>2, <3>1, <3>2 DEF Onward, ClosePlace
      <3>6. Complete(d)' /\ in_bytes'[d] = DataSize * InQueue(d)'
        BY <2>1, <2>2, <3>1, <3>2 DEF Complete
      <3> QED
        BY <3>3, <3>4, <3>5, <3>6
    <2> QED
      BY <2>3, <2>4 DEF Inv
  <1>2. CASE Next
    <2>1. PICK e \in Ends : Step(e)
      BY <1>2, NextIsStep
    <2>2. PICK p \in Ends : p = Peer(e) /\ \A d \in Ends : d = e \/ d = p
      BY EndFacts
    <2>3. WriterStep(e) /\ ReaderStep(e) /\ Bystander(Peer(e))
      BY <2>1 DEF Step
    <2>4. NewFirst'
      BY <2>1, NewFirstStep
    <2>5. \A d \in Ends : Unborn(d)' /\ Life(d)' /\ ClosePlace(d)'
      BY <2>1, LifeStep, ClosePlaceStep
    <2>6. /\ Gapless(e)' /\ Within(e)' /\ Onward(e)' /\ Complete(e)'
          /\ in_bytes'[e] = DataSize * InQueue(e)'
      BY <2>3, GaplessStep, ReaderKeeps
    <2>7. /\ Gapless(p)' /\ Within(p)' /\ Onward(p)' /\ Complete(p)'
          /\ in_bytes'[p] = DataSize * InQueue(p)'
      BY <2>2, <2>3, WriterKeeps
    <2> QED
      BY <2>2, <2>4, <2>5, <2>6, <2>7 DEF Inv
  <1> QED
    BY <1>1, <1>2

-----------------------------------------------------------------------------
(***************************************************************************)
(* The theorems                                                            *)
(***************************************************************************)

\* The inductive invariant holds: every message that an end accepted is in one
\* place, or was dropped by an end that no longer has the channel.
THEOREM InvHolds == Spec => [](TypeOK /\ Accounted /\ Inv)
  <1>1. Init => TypeOK /\ Accounted /\ Inv
    BY InitInv
  <1>2. TypeOK /\ Accounted /\ Inv /\ [Next]_vars => (TypeOK /\ Accounted /\ Inv)'
    <2> SUFFICES ASSUME TypeOK, Accounted, Inv, [Next]_vars
                 PROVE  (TypeOK /\ Accounted /\ Inv)'
      OBVIOUS
    <2>1. InAccounted
      BY DEF Inv, InAccounted
    <2>2. TypeOK'
      BY <2>1, TypeStep
    <2>3. Accounted'
      BY AccountedStep
    <2>4. Inv'
      BY InvStep
    <2> QED
      BY <2>2, <2>3, <2>4
  <1> QED
    BY <1>1, <1>2, PTL DEF Spec

\* Type correctness: in particular the byte counters of both queues never go
\* below zero (queue.py:219-220, 265-266, channel.py:96-105).
THEOREM TypeCorrect == Spec => []TypeOK
  BY InvHolds, PTL

\* A channel that the read loop finds has its queue entry and is not closing
\* (core.py:152-157, 349-350, 385-390, 474-480).
THEOREM TableHasQueueHolds == Spec => []TableHasQueue
  <1>1. Inv => TableHasQueue
    BY DEF Inv, Life, Expecting, TableHasQueue
  <1> QED
    BY <1>1, InvHolds, PTL

\* What was accepted for an end that has the channel is read, queued there, on
\* the wire or queued at the peer, without gaps (channel.py:250-292, 328-336,
\* core.py:335-351).
THEOREM NothingLostHolds == Spec => []NothingLost
  <1>1. TypeOK /\ Inv => NothingLost
    <2> SUFFICES ASSUME TypeOK, Inv, NEW e \in Ends, table[e]
                 PROVE  LET here == got[e] \o input[e]
                        IN  /\ here = UpTo(Len(here))
                            /\ Carries(Way(Peer(e)), Len(here) + 1, sent[Peer(e)])
      BY DEF NothingLost
    <2>1. PICK q \in Seq(Nat), r \in Seq(Nat) : q = got[e] /\ r = input[e]
      BY DEF TypeOK
    <2>2. /\ \A i \in DOMAIN r : r[i] = Len(q) + i
          /\ Carries(Way(Peer(e)), Len(q) + Len(r) + 1, sent[Peer(e)])
      BY <2>1, ExpectingFacts DEF Expecting
    <2>3. q = UpTo(Len(q))
      BY <2>1 DEF Inv, Gapless
    <2>4. PICK k \in Nat, l \in Nat : k = Len(q) /\ l = Len(r)
      OBVIOUS
    <2>5. /\ q \o r \in Seq(Nat) /\ Len(q \o r) = k + l /\ DOMAIN (q \o r) = 1 .. k + l
          /\ \A i \in 1 .. k + l : (q \o r)[i] = IF i <= k THEN q[i] ELSE r[i - k]
      BY <2>4
    <2>6. \A i \in 1 .. k : q[i] = i
      BY <2>3, <2>4 DEF UpTo
    <2>7. ASSUME NEW i \in 1 .. k + l
          PROVE  (q \o r)[i] = i
      <3>1. CASE i <= k
        BY <2>5, <2>6, <3>1
      <3>2. CASE ~(i <= k)
        <4>1. i - k \in 1 .. l /\ k + (i - k) = i
          BY <3>2
        <4>2. r[i - k] = k + (i - k)
          <5>1. DOMAIN r = 1 .. l
            BY <2>4
          <5> QED
            BY <2>2, <2>4, <4>1, <5>1, Zenon
        <4> QED
          BY <2>5, <3>2, <4>1, <4>2
      <3> QED
        BY <3>1, <3>2
    <2>8. q \o r = UpTo(Len(q \o r))
      <3> DEFINE s == q \o r
      <3>1. /\ s \in Seq(Nat) /\ Len(s) = k + l /\ DOMAIN s = 1 .. k + l
            /\ \A i \in 1 .. k + l : s[i] = i
        BY <2>5, <2>7
      <3> HIDE DEF s
      <3>2. s = [i \in 1 .. k + l |-> s[i]]
        BY <3>1
      <3>3. s = UpTo(Len(s))
        BY <3>1, <3>2 DEF UpTo
      <3> QED
        BY <3>3 DEF s
    <2>9. Carries(Way(Peer(e)), Len(q \o r) + 1, sent[Peer(e)])
      <3>1. Len(q \o r) + 1 = Len(q) + Len(r) + 1
        BY <2>4, <2>5
      <3> QED
        BY <2>2, <3>1
    <2> QED
      BY <2>1, <2>8, <2>9
  <1> QED
    BY <1>1, InvHolds, PTL

\* Of an end's reader only the end of its task is told, and told once.
LEMMA ToldFacts ==
    ASSUME NEW e \in Ends
    PROVE  /\ reader[e] \in {"none", "reading", "waiting"} => Told(e) = "open"
           /\ reader[e] \in {"failed", "stopped"} => Told(e) = "cut"
           /\ reader[e] = "closed" =>
                  Told(e) = IF cause[e] = "peer" THEN "closed" ELSE "cut"
  BY DEF Told, Alive

\* A step of the reader is a step or a stutter of the stream to it.
LEMMA ReaderStreams ==
    ASSUME TypeOK, Inv, NEW e \in Ends, ReaderStep(e), Bystander(Peer(e))
    PROVE  [StreamTo(e)!Next]_(StreamTo(e)!vars)
  <1>0. PICK p \in Ends : p = Peer(e) /\ Peer(p) = e
    BY EndFacts
  <1>1. /\ sent'[p] = sent[p] /\ closedAt'[p] = closedAt[p]
    BY <1>0 DEF Bystander
  <1>2. /\ reader[e] \in {"none", "reading", "waiting", "closed", "failed", "stopped"}
        /\ Gapless(e) /\ Complete(e) /\ Life(e)
        /\ input[e] \in Seq(Nat) /\ got[e] \in Seq(Nat)
    BY DEF TypeOK, Inv, Alive
  <1>3. CASE Told(e)' = Told(e) /\ got'[e] = got[e]
    BY <1>0, <1>1, <1>3 DEF StreamTo!vars
  <1>4. CASE Told(e) = "open" /\ Told(e)' = "cut" /\ got'[e] = got[e]
    <2>1. StreamTo(e)!Cut
      BY <1>0, <1>1, <1>4 DEF StreamTo!Cut
    <2> QED
      BY <2>1 DEF StreamTo!Next
  <1>5. CASE Idles(e)
    <2>1. got'[e] = got[e] /\ cause'[e] = cause[e]
      BY <1>5 DEF Idles
    <2>2. CASE reader'[e] = reader[e]
      BY <1>3, <2>1, <2>2 DEF Told
    <2>3. CASE reader[e] \in {"none", "reading", "waiting"}
               /\ reader'[e] \in {"reading", "waiting", "stopped"}
      <3>1. Told(e) = "open" /\ Told(e)' \in {"open", "cut"}
        BY <2>3 DEF Told, Alive
      <3> QED
        BY <1>3, <1>4, <2>1, <3>1
    <2> QED
      BY <1>5, <2>2, <2>3 DEF Idles
  <1>6. CASE Takes(e)
    BY <1>3, <1>6 DEF Takes, Told
  <1>7. CASE Shuts(e)
    <2>1. reader[e] # "closed" /\ reader'[e] = reader[e] /\ got'[e] = got[e]
      BY <1>2, <1>7 DEF Shuts, Life
    <2> QED
      BY <1>3, <2>1 DEF Told
  <1>8. CASE Fetches(e)
    <2>1. Told(e) = "open"
      BY <1>8 DEF Fetches, Told
    <2>2. CASE reader'[e] = "failed" /\ got'[e] = got[e]
      <3>1. Told(e)' = "cut"
        BY <2>2 DEF Told, Alive
      <3> QED
        BY <1>4, <2>1, <2>2, <3>1
    <2>3. CASE reader'[e] = "reading" /\ got'[e] = Append(got[e], Head(input[e]))
      <3>1. Told(e)' = "open"
        BY <2>3 DEF Told, Alive
      <3>2. got'[e] = Append(got[e], Len(got[e]) + 1) /\ Len(got[e]) + 1 <= EndOf(p)
        BY <1>0, <1>8, <2>3, FetchesNext
      <3>3. EndOf(p) \in Nat /\ Len(got[e]) \in Nat
        BY <1>2, EndOfType
      <3>4. Len(got[e]) < EndOf(p)
        BY <3>2, <3>3
      <3>5. StreamTo(e)!Read
        BY <1>0, <1>1, <2>1, <3>1, <3>2, <3>4 DEF StreamTo!Read, StreamTo!Open, EndOf
      <3> QED
        BY <3>5 DEF StreamTo!Next
    <2> QED
      BY <1>8, <2>2, <2>3 DEF Fetches
  <1>9. CASE Finishes(e)
    <2>1. /\ Told(e) = "open" /\ got'[e] = got[e] /\ cause'[e] = cause[e]
          /\ reader[e] # "failed" /\ reader'[e] = "closed"
      BY <1>9 DEF Finishes, Told, Alive
    <2>2. CASE cause[e] # "peer"
      <3>1. Told(e)' = "cut"
        BY <2>1, <2>2 DEF Told, Alive
      <3> QED
        BY <1>4, <2>1, <3>1
    <2>3. CASE cause[e] = "peer"
      <3>1. Told(e)' = "closed"
        BY <2>1, <2>3 DEF Told, Alive
      <3>2. InQueue(e) = 0
        <4>1. CASE input[e] = <<>>
          BY <4>1 DEF InQueue
        <4>2. CASE input[e] # <<>> /\ Head(input[e]) = Nil
          <5>1. 1 \in DOMAIN input[e] /\ input[e][1] = Nil
            BY <1>2, <4>2, TailEffect
          <5>2. Len(input[e]) = 1
            BY <1>2, <2>1, <5>1, NilMeansClosing
          <5> QED
            BY <4>2, <5>1, <5>2 DEF InQueue
        <4> QED
          BY <1>9, <4>1, <4>2 DEF Finishes
      <3>3. closedAt[p] # -1 /\ Len(got[e]) = closedAt[p]
        <4>1. closedAt[p] # -1 /\ Len(got[e]) + 0 = closedAt[p]
          BY <1>0, <1>2, <2>1, <2>3, <3>2 DEF Complete
        <4> QED
          BY <1>2, <4>1
      <3>4. StreamTo(e)!EndOfStream
        BY <1>0, <1>1, <2>1, <3>1, <3>3 DEF StreamTo!EndOfStream, StreamTo!Open
      <3> QED
        BY <3>4 DEF StreamTo!Next
    <2> QED
      BY <2>2, <2>3
  <1> QED
    BY <1>5, <1>6, <1>7, <1>8, <1>9 DEF ReaderStep

\* A step of the writer is a step or a stutter of the stream from it.
LEMMA WriterStreams ==
    ASSUME NEW e \in Ends, WriterStep(e), Bystander(Peer(e))
    PROVE  [StreamTo(Peer(e))!Next]_(StreamTo(Peer(e))!vars)
  <1>0. PICK p \in Ends : p = Peer(e) /\ Peer(p) = e
    BY EndFacts
  <1>1. got'[p] = got[p] /\ Told(p)' = Told(p)
    BY <1>0 DEF Bystander, Told
  <1>2. CASE sent'[e] = sent[e] /\ closedAt'[e] = closedAt[e]
    BY <1>0, <1>1, <1>2 DEF StreamTo!vars
  <1>3. CASE Accepts(e)
    <2>1. StreamTo(p)!Write
      BY <1>0, <1>1, <1>3 DEF StreamTo!Write, Accepts
    <2> QED
      BY <1>0, <2>1 DEF StreamTo!Next
  <1>4. CASE Closes(e)
    <2>1. StreamTo(p)!CloseWriter
      BY <1>0, <1>1, <1>4 DEF StreamTo!CloseWriter, StreamTo!Open, Closes
    <2> QED
      BY <1>0, <2>1 DEF StreamTo!Next
  <1> QED
    BY <1>2, <1>3, <1>4 DEF WriterStep, Silent, Says

\* Either direction of the channel implements Stream (channel.py:232-237,
\* 250-292, 328-336, core.py:335-351, 385-390, 456-480).
THEOREM ImplementsStreamHolds == Spec => ImplementsStream
  <1>1. Init => \A e \in Ends : StreamTo(e)!Init
    <2> SUFFICES ASSUME Init, NEW e \in Ends
                 PROVE  StreamTo(e)!Init
      OBVIOUS
    <2>1. Peer(e) \in Ends
      BY EndFacts
    <2>2. /\ sent[Peer(e)] = 0 /\ closedAt[Peer(e)] = -1 /\ got[e] = <<>>
          /\ reader[e] = "none"
      BY <2>1 DEF Init
    <2> QED
      BY <2>2, ToldFacts DEF StreamTo!Init, StreamTo!Open
  <1>2. TypeOK /\ Accounted /\ Inv /\ [Next]_vars
            => [\A e \in Ends : [StreamTo(e)!Next]_(StreamTo(e)!vars)]_vars
    <2> SUFFICES ASSUME TypeOK, Accounted, Inv, Next
                 PROVE  \A e \in Ends : [StreamTo(e)!Next]_(StreamTo(e)!vars)
      OBVIOUS
    <2>1. PICK e \in Ends : Step(e)
      BY NextIsStep
    <2>2. [StreamTo(e)!Next]_(StreamTo(e)!vars)
      BY <2>1, ReaderStreams DEF Step
    <2>3. [StreamTo(Peer(e))!Next]_(StreamTo(Peer(e))!vars)
      BY <2>1, WriterStreams DEF Step
    <2> QED
      BY <2>2, <2>3, EndFacts
  <1> QED
    BY <1>1, <1>2, InvHolds, PTL DEF Spec, ImplementsStream

-----------------------------------------------------------------------------
(***************************************************************************)
(* PAUSE and RESUME.  A word that finds the outgoing queue full is dropped *)
(* with a log line (channel.py:165-175) and never repeated, so the two     *)
(* ends agree until that happens for the first time.                       *)
(***************************************************************************)
Word(m) == m.type \in {"PAUSE", "RESUME"}

\* An end that was told and has w on the way agrees with the other one.
Agree(w, told, under) ==
    /\ (\A i \in DOMAIN w : ~Word(w[i])) => told = under
    /\ \A i \in DOMAIN w :
           Word(w[i]) /\ (\A j \in DOMAIN w : Word(w[j]) => j <= i)
               => (w[i].type = "PAUSE") = under

\* Also an end that has not read NEW yet agrees: nothing was said so far.
Agreement ==
    \A e \in Ends : Expecting(e) /\ Expecting(Peer(e)) /\ ~untold[e] =>
        Agree(Way(e), remote_under[Peer(e)], in_under[e])

\* A message is queued: the last word counts,
LEMMA AgreeMore ==
    ASSUME NEW w \in Seq(Messages), NEW m \in Messages, NEW t, NEW u, Agree(w, t, u)
    PROVE  /\ ~Word(m) => Agree(Append(w, m), t, u)
           /\ Word(m) => Agree(Append(w, m), t, m.type = "PAUSE")
  <1> DEFINE W == Append(w, m)
  <1>1. PICK l \in Nat : /\ l = Len(w) /\ DOMAIN w = 1 .. l /\ DOMAIN W = 1 .. l + 1
                         /\ W[l + 1] = m /\ \A i \in 1 .. l : W[i] = w[i]
    BY AppendEffect
  <1> HIDE DEF W
  <1>2. \A i \in DOMAIN W : i = l + 1 \/ i \in DOMAIN w
    BY <1>1
  <1>3. /\ l + 1 \in DOMAIN W
        /\ \A i \in DOMAIN w : i \in DOMAIN W /\ W[i] = w[i] /\ ~(l + 1 <= i)
    BY <1>1
  <1>4. ASSUME ~Word(m)
        PROVE  Agree(W, t, u)
    <2>1. \A i \in DOMAIN W : Word(W[i]) => i \in DOMAIN w /\ W[i] = w[i]
      BY <1>1, <1>2, <1>3, <1>4
    <2> QED
      BY <1>3, <2>1 DEF Agree
  <1>5. ASSUME Word(m)
        PROVE  Agree(W, t, m.type = "PAUSE")
    <2>1. Word(W[l + 1])
      BY <1>1, <1>5
    <2>2. \A i \in DOMAIN W : (\A j \in DOMAIN W : Word(W[j]) => j <= i) => i = l + 1
      BY <1>2, <1>3, <2>1
    <2> QED
      BY <1>1, <1>3, <2>1, <2>2 DEF Agree
  <1> QED
    BY <1>4, <1>5 DEF W

\* and one is read: a word is what the end was told last.
LEMMA AgreeLess ==
    ASSUME NEW w \in Seq(Messages), w # <<>>, NEW t, NEW u, Agree(w, t, u)
    PROVE  /\ ~Word(w[1]) => Agree(Tail(w), t, u)
           /\ Word(w[1]) => Agree(Tail(w), w[1].type = "PAUSE", u)
  <1> DEFINE W == Tail(w)
  <1>1. /\ \A i \in DOMAIN W : i \in Nat /\ i + 1 \in DOMAIN w /\ W[i] = w[i + 1]
        /\ \A i \in DOMAIN w : i \in Nat /\ (i = 1 \/ i - 1 \in DOMAIN W)
        /\ 1 \in DOMAIN w
    BY TailEffect
  <1> HIDE DEF W
  <1>2. ASSUME NEW i \in DOMAIN W, Word(W[i]), \A j \in DOMAIN W : Word(W[j]) => j <= i
        PROVE  (W[i].type = "PAUSE") = u
    <2>1. i + 1 \in DOMAIN w /\ W[i] = w[i + 1] /\ i \in Nat
      BY <1>1
    <2>2. ASSUME NEW j \in DOMAIN w, Word(w[j])
          PROVE  j <= i + 1
      <3>1. CASE j = 1
        BY <2>1, <3>1
      <3>2. CASE j # 1
        <4>1. j \in Nat /\ j - 1 \in DOMAIN W
          BY <1>1, <3>2
        <4>2. W[j - 1] = w[(j - 1) + 1] /\ (j - 1) + 1 = j
          BY <1>1, <4>1
        <4>3. j - 1 <= i
          BY <1>2, <2>2, <4>1, <4>2
        <4> QED
          BY <2>1, <4>1, <4>3
      <3> QED
        BY <3>1, <3>2
    <2> QED
      BY <1>2, <2>1, <2>2 DEF Agree
  <1>3. ASSUME \A i \in DOMAIN W : ~Word(W[i]), NEW j \in DOMAIN w, j # 1
        PROVE  ~Word(w[j])
    <2>1. j \in Nat /\ j - 1 \in DOMAIN W
      BY <1>1, <1>3
    <2>2. W[j - 1] = w[(j - 1) + 1] /\ (j - 1) + 1 = j
      BY <1>1, <2>1
    <2> QED
      BY <1>3, <2>1, <2>2
  <1>4. ASSUME \A i \in DOMAIN W : ~Word(W[i]), ~Word(w[1])
        PROVE  t = u
    BY <1>3, <1>4 DEF Agree
  <1>5. ASSUME \A i \in DOMAIN W : ~Word(W[i]), Word(w[1])
        PROVE  (w[1].type = "PAUSE") = u
    <2>1. \A j \in DOMAIN w : Word(w[j]) => j <= 1
      BY <1>3, <1>5
    <2> QED
      BY <1>1, <1>5, <2>1 DEF Agree
  <1> QED
    BY <1>2, <1>4, <1>5 DEF W, Agree

\* What a step of the end says of its incoming queue, and what it hears.
Signals(e) ==
    \/ ~Expecting(e)'
    \/ untold'[e]
    \/ in_under'[e] = in_under[e] /\ Way(e)' = Way(e)
    \/ \E m \in Messages :
          /\ Way(e)' = Append(Way(e), m)
          /\ \/ ~Word(m) /\ in_under'[e] = in_under[e]
             \/ Word(m) /\ in_under'[e] = (m.type = "PAUSE")

Hears(e) ==
    \/ ~Expecting(e)'
    \/ Way(Peer(e))' = Way(Peer(e)) /\ remote_under'[e] = remote_under[e]
    \/ /\ Way(Peer(e)) # <<>> /\ Way(Peer(e))' = Tail(Way(Peer(e)))
       /\ \/ ~Word(Way(Peer(e))[1]) /\ remote_under'[e] = remote_under[e]
          \/ /\ Word(Way(Peer(e))[1])
             /\ remote_under'[e] = (Way(Peer(e))[1].type = "PAUSE")

\* Such steps keep the agreement.
LEMMA AgreementStep ==
    ASSUME TypeOK, Inv, Agreement, NEW e \in Ends, Step(e), Signals(e), Hears(e),
           \A d \in Ends : untold[d] => untold'[d]
    PROVE  Agreement'
  <1>0. PICK p \in Ends : p = Peer(e) /\ Peer(p) = e /\ \A d \in Ends : d = e \/ d = p
    BY EndFacts
  <1> SUFFICES ASSUME Expecting(e)', Expecting(p)'
               PROVE  /\ ~untold'[e] => Agree(Way(e)', remote_under'[p], in_under'[e])
                      /\ ~untold'[p] => Agree(Way(p)', remote_under'[e], in_under'[p])
    BY <1>0 DEF Agreement, Agree, Word
  <1>1. /\ remote_under'[p] = remote_under[p] /\ in_under'[p] = in_under[p]
        /\ Expecting(e) /\ Expecting(p)
    BY <1>0 DEF Step, ReaderStep, Bystander, Expecting
  <1>2. /\ ~untold[e] => Agree(Way(e), remote_under[p], in_under[e])
        /\ ~untold[p] => Agree(Way(p), remote_under[e], in_under[p])
    BY <1>0, <1>1 DEF Agreement
  <1>3. Way(e) \in Seq(Messages) /\ Way(p) \in Seq(Messages)
    BY WayType
  <1>4. ASSUME ~untold'[e]
        PROVE  Agree(Way(e)', remote_under'[p], in_under'[e])
    <2>0. Agree(Way(e), remote_under[p], in_under[e])
      BY <1>2, <1>4
    <2>1. CASE in_under'[e] = in_under[e] /\ Way(e)' = Way(e)
      BY <1>1, <2>0, <2>1
    <2>2. ASSUME NEW m \in Messages, Way(e)' = Append(Way(e), m),
                 \/ ~Word(m) /\ in_under'[e] = in_under[e]
                 \/ Word(m) /\ in_under'[e] = (m.type = "PAUSE")
          PROVE  Agree(Way(e)', remote_under'[p], in_under'[e])
      <3>1. CASE ~Word(m) /\ in_under'[e] = in_under[e]
        <4>1. Agree(Append(Way(e), m), remote_under[p], in_under[e])
          BY <1>3, <2>0, <3>1, AgreeMore
        <4> QED
          BY <1>1, <2>2, <3>1, <4>1
      <3>2. CASE Word(m) /\ in_under'[e] = (m.type = "PAUSE")
        <4>1. Agree(Append(Way(e), m), remote_under[p], m.type = "PAUSE")
          BY <1>3, <2>0, <3>2, AgreeMore
        <4> QED
          BY <1>1, <2>2, <3>2, <4>1
      <3> QED
        BY <2>2, <3>1, <3>2
    <2> QED
      BY <1>4, <2>1, <2>2 DEF Signals
  <1>5. ASSUME ~untold'[p]
        PROVE  Agree(Way(p)', remote_under'[e], in_under'[p])
    <2>0. Agree(Way(p), remote_under[e], in_under[p])
      BY <1>2, <1>5
    <2>1. CASE Way(p)' = Way(p) /\ remote_under'[e] = remote_under[e]
      BY <1>1, <2>0, <2>1
    <2>2. CASE /\ Way(p) # <<>> /\ Way(p)' = Tail(Way(p))
               /\ ~Word(Way(p)[1]) /\ remote_under'[e] = remote_under[e]
      <3>1. Agree(Tail(Way(p)), remote_under[e], in_under[p])
        BY <1>3, <2>0, <2>2, AgreeLess
      <3> QED
        BY <1>1, <2>2, <3>1
    <2>3. CASE /\ Way(p) # <<>> /\ Way(p)' = Tail(Way(p))
               /\ Word(Way(p)[1]) /\ remote_under'[e] = (Way(p)[1].type = "PAUSE")
      <3>1. Agree(Tail(Way(p)), Way(p)[1].type = "PAUSE", in_under[p])
        BY <1>3, <2>0, <2>3, AgreeLess
      <3> QED
        BY <1>1, <2>3, <3>1
    <2> QED
      BY <1>0, <2>1, <2>2, <2>3 DEF Hears
  <1> QED
    BY <1>4, <1>5

\* A step that leaves ways and words alone.
LEMMA QuietSignals ==
    ASSUME NEW e \in Ends, UNCHANGED <<in_under, remote_under>>,
           \A d \in Ends : Way(d)' = Way(d)
    PROVE  Signals(e) /\ Hears(e)
  BY EndFacts DEF Signals, Hears

\* A word is queued, or the end has it on record that it is not.
LEMMA TellRemoteSays ==
    ASSUME TypeOK, NEW e \in Ends, NEW t \in {"PAUSE", "RESUME"}, TellRemote(e, t)
    PROVE  \/ Msg(t) \in Messages /\ Msg(t).type = t /\ Enqueue(e, Msg(t))
           \/ untold'[e] /\ UNCHANGED outVars
  BY MessageTypes DEF TellRemote, Control, TypeOK

\* What is queued by the step of an end.
LEMMA EnqueueSignals ==
    ASSUME TypeOK, NEW e \in Ends, NEW m \in Messages, Enqueue(e, m), wire'[e] = wire[e],
           \/ ~Word(m) /\ in_under'[e] = in_under[e]
           \/ Word(m) /\ in_under'[e] = (m.type = "PAUSE")
    PROVE  Signals(e)
  <1>1. Way(e)' = Append(Way(e), m)
    BY EnqueueEffect
  <1> QED
    BY <1>1 DEF Signals

\* The read loop takes DATA.
LEMMA DataSignals ==
    ASSUME TypeOK, NEW e \in Ends, ReceiveData(e)
    PROVE  Signals(e) /\ Hears(e)
  <1>0. PICK p \in Ends : p = Peer(e) /\ p # e
    BY EndFacts
  <1>1. table[e] /\ Incoming(e, {"DATA"}) /\ remote_under' = remote_under
    BY DEF ReceiveData
  <1>2. /\ wire'[e] = wire[e] /\ Way(p) # <<>> /\ Way(p)[1].type = "DATA"
        /\ output'[p] = output[p] => Way(p)' = Tail(Way(p))
    BY <1>0, <1>1, IncomingEffect
  <1>3. CASE UNCHANGED <<in_under, outVars>>
    <2>1. Way(e)' = Way(e) /\ output'[p] = output[p]
      BY <1>2, <1>3 DEF Way, outVars
    <2> QED
      BY <1>0, <1>1, <1>2, <1>3, <2>1 DEF Signals, Hears, Word
  <1>4. CASE in_under' = [in_under EXCEPT ![e] = TRUE] /\ TellRemote(e, "PAUSE")
    <2>1. ASSUME NEW m \in Messages, m.type = "PAUSE", Enqueue(e, m)
          PROVE  Signals(e) /\ output'[p] = output[p]
      <3>1. in_under'[e] = (m.type = "PAUSE") /\ Word(m)
        BY <1>4, <2>1 DEF TypeOK, Word
      <3> QED
        BY <1>0, <1>2, <2>1, <3>1, EnqueueSignals, EnqueueEffect
    <2>2. ASSUME untold'[e], UNCHANGED outVars
          PROVE  Signals(e) /\ output'[p] = output[p]
      BY <2>2 DEF Signals, outVars
    <2>3. Signals(e) /\ output'[p] = output[p]
      BY <1>4, <2>1, <2>2, TellRemoteSays
    <2> QED
      BY <1>0, <1>1, <1>2, <2>3 DEF Hears, Word
  <1> QED
    BY <1>3, <1>4 DEF ReceiveData, InputPut

\* The read loop takes another message.
LEMMA ReceiveSignals ==
    ASSUME TypeOK, Inv, NEW e \in Ends, Receive(e), ~ReceiveData(e)
    PROVE  Signals(e) /\ Hears(e)
  <1>0. PICK p \in Ends : p = Peer(e) /\ p # e
    BY EndFacts
  <1>1. CASE ReceiveDataUnhealthy(e) \/ ReceiveClose(e)
    <2>1. table[e] /\ qstate[e] = "open"
      BY <1>1 DEF ReceiveDataUnhealthy, ReceiveClose, Inv, Life
    <2>2. ~table'[e] /\ qstate'[e] # "none"
      BY <1>1, <2>1 DEF ReceiveDataUnhealthy, ReceiveClose, DeleteChannel, QueueDeleted, TypeOK
    <2> QED
      BY <2>2 DEF Signals, Hears, Expecting
  <1>2. ASSUME NEW types, Incoming(e, types), UNCHANGED <<outVars, in_under>>
        PROVE  /\ Signals(e) /\ Way(p) # <<>> /\ Way(p)' = Tail(Way(p))
               /\ Way(p)[1].type \in types /\ Way(p)[1] = Head(wire[p])
    <2>1. /\ wire'[e] = wire[e] /\ Way(p) # <<>> /\ Way(p)[1].type \in types
          /\ Way(p)[1] = Head(wire[p]) /\ output' = output
          /\ output'[p] = output[p] => Way(p)' = Tail(Way(p))
      BY <1>0, <1>2, IncomingEffect DEF outVars
    <2>2. Way(e)' = Way(e)
      BY <2>1 DEF Way
    <2> QED
      BY <1>2, <2>1, <2>2 DEF Signals
  <1>3. CASE ReceiveNew(e)
    <2>1. /\ Signals(e) /\ Way(p) # <<>> /\ Way(p)' = Tail(Way(p)) /\ Way(p)[1].type = "NEW"
      BY <1>2, <1>3 DEF ReceiveNew, inVars
    <2> QED
      BY <1>0, <1>3, <2>1 DEF Hears, Word, ReceiveNew
  <1>4. CASE ReceivePauseResume(e)
    <2>1. /\ Signals(e) /\ Way(p) # <<>> /\ Way(p)' = Tail(Way(p))
          /\ Way(p)[1].type \in {"PAUSE", "RESUME"} /\ Way(p)[1] = Head(wire[p])
      BY <1>2, <1>4 DEF ReceivePauseResume, inVars
    <2>2. remote_under'[e] = (Way(p)[1].type = "PAUSE")
      BY <1>0, <1>4, <2>1 DEF ReceivePauseResume, TypeOK
    <2> QED
      BY <1>0, <2>1, <2>2 DEF Hears, Word
  <1>5. CASE ReceiveUnknown(e)
    <2>1. /\ Way(p) # <<>> /\ Way(p)[1].type # "NEW"
      BY <1>2, <1>5 DEF ReceiveUnknown, inVars
    <2>2. qstate[e] # "none"
      <3>1. NewFirst /\ Unborn(p)
        BY DEF Inv
      <3> QED
        BY <1>0, <2>1, <3>1 DEF NewFirst, Unborn, Ends, Peer
    <2>3. ~Expecting(e)'
      BY <1>5, <2>2 DEF ReceiveUnknown, muxVars, Expecting
    <2> QED
      BY <2>3 DEF Signals, Hears
  <1> QED
    BY <1>1, <1>3, <1>4, <1>5 DEF Receive

\* read() takes a message.
LEMMA ReadSignals ==
    ASSUME TypeOK, Inv, NEW e \in Ends, Read(e)
    PROVE  Signals(e) /\ Hears(e)
  <1>0. PICK p \in Ends : p = Peer(e) /\ p # e
    BY EndFacts
  <1>1. /\ wire' = wire /\ remote_under' = remote_under /\ table' = table /\ qstate' = qstate
        /\ in_under' = [in_under EXCEPT ![e] =
               @ /\ ~(in_under[e] /\ in_bytes[e] - DataSize <= InLow)]
    BY DEF Read, muxVars
  <1>2. reader[e] \in Alive
    BY DEF Read
  <1>3. qstate[e] # "none" /\ (table[e] => qstate[e] = "open")
    BY <1>2 DEF Inv, Unborn, Life, Alive
  <1>4. CASE ~table[e]
    BY <1>1, <1>3, <1>4 DEF Signals, Hears, Expecting
  <1>5. CASE table[e] /\ ~(in_under[e] /\ in_bytes[e] - DataSize <= InLow)
    <2>1. UNCHANGED outVars /\ in_under' = in_under
      <3>1. UNCHANGED outVars
        BY <1>5 DEF Read
      <3>2. in_under \in [Ends -> BOOLEAN]
        BY DEF TypeOK
      <3> QED
        BY <1>1, <1>5, <3>1, <3>2
    <2>2. \A d \in Ends : Way(d)' = Way(d)
      BY <1>1, <2>1 DEF Way, outVars
    <2> QED
      BY <1>1, <2>1, <2>2, QuietSignals
  <1>6. CASE table[e] /\ in_under[e] /\ in_bytes[e] - DataSize <= InLow
    <2>1. TellRemote(e, "RESUME")
      BY <1>3, <1>6 DEF Read
    <2>2. ASSUME NEW m \in Messages, m.type = "RESUME", Enqueue(e, m)
          PROVE  Signals(e) /\ output'[p] = output[p]
      <3>1. in_under'[e] = (m.type = "PAUSE") /\ Word(m)
        BY <1>1, <1>6, <2>2 DEF TypeOK, Word
      <3> QED
        BY <1>0, <1>1, <2>2, <3>1, EnqueueSignals, EnqueueEffect
    <2>3. ASSUME untold'[e], UNCHANGED outVars
          PROVE  Signals(e) /\ output'[p] = output[p]
      BY <2>3 DEF Signals, outVars
    <2>4. Signals(e) /\ output'[p] = output[p]
      BY <2>1, <2>2, <2>3, TellRemoteSays
    <2>5. Way(p)' = Way(p)
      BY <1>1, <2>4 DEF Way
    <2> QED
      BY <1>0, <1>1, <2>4, <2>5 DEF Hears
  <1> QED
    BY <1>4, <1>5, <1>6

\* NEW or DATA is queued.
LEMMA QueueSignals ==
    ASSUME TypeOK, NEW e \in Ends, NEW m \in Messages, Enqueue(e, m), ~Word(m),
           UNCHANGED <<wire, in_under, remote_under>>
    PROVE  Signals(e) /\ Hears(e)
  <1>0. PICK p \in Ends : p = Peer(e) /\ p # e
    BY EndFacts
  <1>1. Signals(e)
    BY EnqueueSignals
  <1>2. output'[p] = output[p]
    BY <1>0, EnqueueEffect
  <1>3. Way(p)' = Way(p)
    BY <1>2 DEF Way
  <1> QED
    BY <1>0, <1>1, <1>3 DEF Hears

\* Every step is one of them.
LEMMA NextSignals ==
    ASSUME TypeOK, Accounted, Inv, Next
    PROVE  \E e \in Ends : Step(e) /\ Signals(e) /\ Hears(e)
  <1>0. /\ "server" \in Ends /\ "client" \in Ends
        /\ \A e \in Ends : /\ Data(sent[e] + 1) \in Messages
                           /\ ~Word(Data(sent[e] + 1))
    <2>1. \A e \in Ends : sent[e] + 1 \in Nat
      BY DEF TypeOK
    <2> QED
      BY <2>1, MessageTypes DEF Word, Ends
  <1>1. CASE CreateChannel
    <2>1. PICK m \in Messages : m = Msg("NEW") /\ ~Word(m)
      BY MessageTypes DEF Control, Word
    <2>2. Enqueue("server", m) /\ UNCHANGED <<wire, in_under, remote_under>>
      BY <1>1, <2>1 DEF CreateChannel, inVars
    <2>3. Signals("server") /\ Hears("server")
      BY <1>0, <2>1, <2>2, QueueSignals
    <2> QED
      BY <1>0, <1>1, <2>3, CreateIsStep
  <1>2. ASSUME NEW e \in Ends, UNCHANGED <<output, wire, in_under, remote_under>>
        PROVE  Signals(e) /\ Hears(e)
    <2>1. \A d \in Ends : Way(d)' = Way(d)
      BY <1>2 DEF Way
    <2> QED
      BY <1>2, <2>1, QuietSignals
  <1>3. CASE HandlerLeaves
    <2>1. /\ source["client"] = "idle"
          /\ reader'["client"] = IF reader["client"] \in Alive THEN "stopped" ELSE reader["client"]
          /\ reader'[Peer("client")] = reader[Peer("client")]
          /\ source'[Peer("client")] = source[Peer("client")]
          /\ UNCHANGED <<muxVars, outVars, remote_under, wire, inVars, closing, sent, got,
                         histVars>>
      BY <1>3 DEF HandlerLeaves, TypeOK, Ends, Peer
    <2>2. Step("client")
      BY <1>0, <2>1, HandlerMovesIsStep
    <2>3. Signals("client") /\ Hears("client")
      BY <1>0, <1>2, <2>1 DEF outVars, inVars
    <2> QED
      BY <1>0, <2>2, <2>3
  <1>4. ASSUME NEW e \in Ends, Send(e)
        PROVE  Step(e) /\ Signals(e) /\ Hears(e)
    <2>1. \A d \in Ends : Way(d)' = Way(d)
      BY <1>4, SendEffect
    <2>2. UNCHANGED <<in_under, remote_under>>
      BY <1>4 DEF Send, inVars
    <2> QED
      BY <1>4, <2>1, <2>2, QuietSignals, SendIsStep
  <1>5. ASSUME NEW e \in Ends, Receive(e)
        PROVE  Step(e) /\ Signals(e) /\ Hears(e)
    <2>1. Step(e)
      BY <1>5, ReceiveNewIsStep, ReceiveDataIsStep, ReceiveEndIsStep, ReceivePassesIsStep
         DEF Receive
    <2> QED
      BY <1>5, <2>1, DataSignals, ReceiveSignals
  <1>6. ASSUME NEW e \in Ends, MuxDown(e) \/ OrphanGet(e)
        PROVE  Step(e) /\ Signals(e) /\ Hears(e)
    <2>1. UNCHANGED <<output, wire, in_under, remote_under>>
      BY <1>6 DEF MuxDown, OrphanGet, Close, outVars, inVars
    <2> QED
      BY <1>2, <1>6, <2>1, MuxDownIsStep DEF OrphanGet
  <1>7. ASSUME NEW e \in Ends, ReadSource(e) \/ ReadWait(e) \/ ReadClose(e)
        PROVE  Step(e) /\ Signals(e) /\ Hears(e)
    <2>1. UNCHANGED <<muxVars, outVars, remote_under, wire, inVars, closing, sent, got,
                      histVars>>
      BY <1>7 DEF ReadSource, ReadWait, ReadClose
    <2>2. Signals(e) /\ Hears(e)
      BY <1>2, <2>1 DEF outVars, inVars
    <2>3. CASE ReadClose(e)
      BY <2>2, <2>3, ReadCloseIsStep
    <2>4. CASE ReadSource(e) \/ ReadWait(e)
      <3>1. /\ reader'[e] = reader[e] \/ (reader[e] \in Alive /\ reader'[e] = "waiting")
            /\ reader'[Peer(e)] = reader[Peer(e)] /\ source'[Peer(e)] = source[Peer(e)]
            /\ source[e] # "none" \/ reader[e] \in Alive
        BY <2>4, EndFacts DEF ReadSource, ReadWait, TypeOK, Alive
      <3> QED
        BY <2>1, <2>2, <3>1, HandlerMovesIsStep
    <2> QED
      BY <1>7, <2>3, <2>4
  <1>8. ASSUME NEW e \in Ends, Write(e) \/ WriteResume(e)
        PROVE  Step(e) /\ Signals(e) /\ Hears(e)
    <2>1. source[e] # "none"
      BY <1>8 DEF Write, WriteResume
    <2>2. CASE Accept(e)
      <3>1. Step(e)
        BY <2>1, <2>2, AcceptIsStep
      <3>2. Enqueue(e, Data(sent[e] + 1)) /\ UNCHANGED <<wire, in_under, remote_under>>
        BY <2>2 DEF Accept, inVars
      <3> QED
        BY <1>0, <3>1, <3>2, QueueSignals
    <2>3. CASE ~Accept(e)
      <3>1. /\ reader' = reader /\ source'[Peer(e)] = source[Peer(e)]
            /\ UNCHANGED <<muxVars, outVars, remote_under, wire, inVars, closing, sent, got,
                           histVars>>
        BY <1>8, <2>3, EndFacts DEF Write, WriteResume, TypeOK
      <3>2. Step(e)
        BY <2>1, <3>1, HandlerMovesIsStep
      <3> QED
        BY <1>2, <3>1, <3>2 DEF outVars, inVars
    <2> QED
      BY <2>2, <2>3
  <1>9. ASSUME NEW e \in Ends, HandlerEnds(e) \/ WriteRaises(e)
        PROVE  Step(e) /\ Signals(e) /\ Hears(e)
    <2>1. HandlerEnds(e)
      BY <1>9 DEF WriteRaises
    <2>2. qstate[e] # "none"
      BY <2>1 DEF HandlerEnds, Inv, Unborn
    <2>3. ~table'[e] /\ qstate'[e] # "none"
      BY <2>1, <2>2 DEF HandlerEnds, DeleteChannel, QueueDeleted, TypeOK
    <2> QED
      BY <2>1, <2>3, HandlerEndsIsStep DEF Signals, Hears, Expecting
  <1>10. ASSUME NEW e \in Ends, Read(e)
         PROVE  Step(e) /\ Signals(e) /\ Hears(e)
    BY <1>10, ReadIsStep, ReadSignals
  <1> QED
    BY <1>1, <1>3, <1>4, <1>5, <1>6, <1>7, <1>8, <1>9, <1>10 DEF Next

\* What was not said stays on record.
LEMMA UntoldStays ==
    ASSUME TypeOK, Next
    PROVE  \A d \in Ends : untold[d] => untold'[d]
  <1>1. ASSUME NEW e \in Ends, NEW t, TellRemote(e, t)
        PROVE  \A d \in Ends : untold[d] => untold'[d]
    BY <1>1 DEF TellRemote, TypeOK
  <1>2. ASSUME NEW e \in Ends, ReceiveData(e)
        PROVE  \A d \in Ends : untold[d] => untold'[d]
    BY <1>1, <1>2 DEF ReceiveData, InputPut
  <1>3. ASSUME NEW e \in Ends, Read(e)
        PROVE  \A d \in Ends : untold[d] => untold'[d]
    BY <1>1, <1>3 DEF Read
  <1>4. CASE \A e \in Ends : ~ReceiveData(e) /\ ~Read(e)
    <2>1. untold' = untold
      BY <1>4 DEF Next, Receive, CreateChannel, HandlerLeaves, Send, ReceiveNew,
         ReceiveDataUnhealthy, ReceiveClose, ReceivePauseResume, ReceiveUnknown, MuxDown,
         OrphanGet, ReadSource, Write, WriteResume, Accept, WriteRaises, HandlerEnds, ReadWait,
         ReadClose, histVars
    <2> QED
      BY <2>1
  <1> QED
    BY <1>2, <1>3, <1>4

\* Until a PAUSE or RESUME of an end is not sent, because its outgoing queue is
\* full or the other end too old, the two ends agree on whether its incoming
\* queue is under water up to messages under way (channel.py:151-175, core.py:404-416).
THEOREM PauseAgreementHolds == Spec => []PauseAgreement
  <1>1. Init => Agreement
    <2> SUFFICES ASSUME Init, NEW e \in Ends
                 PROVE  Agree(Way(e), remote_under[Peer(e)], in_under[e])
      BY DEF Agreement
    <2>1. Peer(e) \in Ends
      BY EndFacts
    <2>2. wire[e] = <<>> /\ output[e] = <<>> /\ remote_under[Peer(e)] = FALSE /\ in_under[e] = FALSE
      BY <2>1 DEF Init
    <2>3. Way(e) = <<>>
      BY <2>2 DEF Way
    <2>4. \A i \in DOMAIN Way(e) : FALSE
      BY <2>3
    <2> QED
      BY <2>2, <2>4, Zenon DEF Agree
  <1>2. TypeOK /\ Accounted /\ Inv /\ Agreement /\ [Next]_vars => Agreement'
    <2> SUFFICES ASSUME TypeOK, Accounted, Inv, Agreement, [Next]_vars
                 PROVE  Agreement'
      OBVIOUS
    <2>1. CASE UNCHANGED vars
      <3>1. UNCHANGED <<table, qstate, output, wire, in_under, remote_under, untold>>
        BY <2>1 DEF vars, muxVars, outVars, inVars, histVars
      <3> QED
        BY <3>1 DEF Agreement, Expecting, Agree, Word, Way
    <2>2. CASE Next
      <3>1. PICK e \in Ends : Step(e) /\ Signals(e) /\ Hears(e)
        BY <2>2, NextSignals
      <3> QED
        BY <2>2, <3>1, AgreementStep, UntoldStays
    <2> QED
      BY <2>1, <2>2
  <1>3. Agreement => PauseAgreement
    BY DEF Agreement, PauseAgreement, Words, Agree, Word, Expecting
  <1> QED
    BY <1>1, <1>2, <1>3, InvHolds, PTL DEF Spec
=============================================================================
