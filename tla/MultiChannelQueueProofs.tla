---------------------- MODULE MultiChannelQueueProofs ----------------------
(***************************************************************************)
(* Theorems about MultiChannelQueue, for any channels, tasks, sizes, limit *)
(* and water marks.                                                        *)
(***************************************************************************)
EXTENDS MultiChannelQueue, SequenceTheorems, FiniteSetTheorems, WellFoundedInduction, TLAPS

-----------------------------------------------------------------------------
(***************************************************************************)
(* Lemmas about deques of waiters                                          *)
(***************************************************************************)

\* A non-empty set of positions has a first one.
LEMMA LeastExists ==
    ASSUME NEW T, T \subseteq Nat, T # {}
    PROVE  \E i \in T : \A j \in T : i <= j
<1>1. \E i \in T : \A j \in T : ~(<<j, i>> \in OpToRel(<, Nat))
  BY NatLessThanWellFounded, WFMin
<1>2. PICK i \in T : \A j \in T : ~(<<j, i>> \in OpToRel(<, Nat))
  BY <1>1
<1>3. \A j \in T : ~(j < i)
  BY <1>2 DEF OpToRel
<1> QED BY <1>3

\* _wakeup_next() pops up to the first live waiter.
LEMMA FirstLiveIsLive ==
    ASSUME NEW S, NEW w \in Seq(S), NEW pc, Live(w, pc) # {}
    PROVE  /\ FirstLive(w, pc) \in 1 .. Len(w)
           /\ pc[w[FirstLive(w, pc)]] = "waiting"
           /\ \A j \in 1 .. Len(w) : pc[w[j]] = "waiting" => FirstLive(w, pc) <= j
<1>1. Live(w, pc) \subseteq Nat /\ DOMAIN w = 1 .. Len(w)
  BY DEF Live
<1>2. \E i \in Live(w, pc) : \A j \in Live(w, pc) : i <= j
  BY <1>1, LeastExists
<1>3. /\ FirstLive(w, pc) \in Live(w, pc)
      /\ \A j \in Live(w, pc) : FirstLive(w, pc) <= j
  BY <1>2 DEF FirstLive
<1> QED BY <1>1, <1>3 DEF Live

\* What _wakeup_next() leaves in a deque without duplicates: only futures
\* that were in it, all live ones but the one that is woken.
LEMMA WakeupEffect ==
    ASSUME NEW S, NEW w \in Seq(S), NEW pc \in [S -> TaskStates],
           Distinct(w)
    PROVE  /\ WaitersLeft(w, pc) \in Seq(S)
           /\ Distinct(WaitersLeft(w, pc))
           /\ Members(WaitersLeft(w, pc)) \subseteq Members(w)
           /\ Awakened(w, pc) \in [S -> TaskStates]
           /\ \A t \in Members(w) :
                 pc[t] = "waiting" => \/ Awakened(w, pc)[t] = "woken"
                                      \/ t \in Members(WaitersLeft(w, pc))
           /\ \A t \in S :
                 \/ Awakened(w, pc)[t] = pc[t]
                 \/ /\ t \in Members(w)
                    /\ t \notin Members(WaitersLeft(w, pc))
                    /\ pc[t] = "waiting"
                    /\ Awakened(w, pc)[t] = "woken"
           /\ (\E t \in Members(w) : pc[t] = "waiting")
                 => \E t \in Members(w) : pc[t] = "waiting" /\ Awakened(w, pc)[t] = "woken"
<1>1. CASE Live(w, pc) = {}
  <2>1. WaitersLeft(w, pc) = <<>> /\ Awakened(w, pc) = pc
    BY <1>1 DEF WaitersLeft, Awakened
  <2>2. \A t \in Members(w) : pc[t] # "waiting"
    BY <1>1 DEF Live, Members
  <2> QED BY <2>1, <2>2 DEF Distinct, Members
<1>2. CASE Live(w, pc) # {}
  <2> DEFINE f == FirstLive(w, pc)
             r == WaitersLeft(w, pc)
  <2>1. /\ f \in 1 .. Len(w)
        /\ pc[w[f]] = "waiting"
        /\ \A j \in 1 .. Len(w) : pc[w[j]] = "waiting" => f <= j
    BY <1>2, FirstLiveIsLive
  <2>2. r = SubSeq(w, f + 1, Len(w))
    BY <1>2 DEF WaitersLeft
  <2>3. /\ r \in Seq(S)
        /\ Len(r) = Len(w) - f
        /\ \A i \in 1 .. Len(r) : r[i] = w[f + i]
        /\ DOMAIN r = 1 .. Len(r) /\ DOMAIN w = 1 .. Len(w)
        /\ w[f] \in S
    <3> HIDE DEF f
    <3> QED BY <2>1, <2>2 DEF r
  <2>4. Awakened(w, pc) = [pc EXCEPT ![w[f]] = "woken"]
    BY <1>2 DEF Awakened
  <2> HIDE DEF f, r
  <2>5. Distinct(r)
    <3> SUFFICES ASSUME NEW i \in 1 .. Len(r), NEW j \in 1 .. Len(r), r[i] = r[j]
                 PROVE  i = j
      BY <2>3 DEF Distinct
    <3>1. w[f + i] = w[f + j] /\ f + i \in DOMAIN w /\ f + j \in DOMAIN w
      BY <2>1, <2>3
    <3>2. f + i = f + j
      BY <3>1 DEF Distinct
    <3> QED BY <3>2, <2>1, <2>3
  <2>6. Members(r) \subseteq Members(w)
    <3>1. \A i \in 1 .. Len(r) : f + i \in DOMAIN w /\ r[i] = w[f + i]
      BY <2>1, <2>3
    <3> QED BY <3>1, <2>3 DEF Members
  <2>7. w[f] \notin Members(r)
    <3> SUFFICES ASSUME NEW i \in 1 .. Len(r), r[i] = w[f]
                 PROVE  FALSE
      BY <2>3 DEF Members
    <3>1. f + i \in DOMAIN w /\ f \in DOMAIN w /\ w[f + i] = w[f]
      BY <2>1, <2>3
    <3>2. f + i = f
      BY <3>1 DEF Distinct
    <3> QED BY <3>2, <2>1, <2>3
  <2>8. ASSUME NEW t \in Members(w), pc[t] = "waiting"
        PROVE  t = w[f] \/ t \in Members(r)
    <3>1. PICK j \in 1 .. Len(w) : w[j] = t
      BY <2>3 DEF Members
    <3>2. f <= j
      BY <3>1, <2>8, <2>1
    <3>3. CASE f < j
      <4>1. j - f \in 1 .. Len(r) /\ r[j - f] = w[j]
        BY <3>3, <2>1, <2>3
      <4> QED BY <4>1, <3>1, <2>3 DEF Members
    <3> QED BY <3>1, <3>2, <3>3, <2>1
  <2>9. w[f] \in Members(w)
    BY <2>1, <2>3 DEF Members
  <2>10. Awakened(w, pc) \in [S -> TaskStates]
    BY <2>3, <2>4 DEF TaskStates, Suspended
  <2>11. \A t \in S : Awakened(w, pc)[t] = IF t = w[f] THEN "woken" ELSE pc[t]
    BY <2>4, <2>3
  <2>12. Members(w) \subseteq S
    BY <2>3 DEF Members
  <2> QED BY <2>1, <2>3, <2>5, <2>6, <2>7, <2>8, <2>9, <2>10, <2>11, <2>12 DEF r
<1> QED BY <1>1, <1>2

\* deque.remove() takes out the one future of the task.
LEMMA WithoutEffect ==
    ASSUME NEW S, NEW w \in Seq(S), NEW t, Distinct(w)
    PROVE  /\ Without(w, t) \in Seq(S)
           /\ Distinct(Without(w, t))
           /\ Members(Without(w, t)) = Members(w) \ {t}
<1>1. CASE t \notin Members(w)
  BY <1>1 DEF Without
<1>2. CASE t \in Members(w)
  <2> DEFINE i == CHOOSE k \in DOMAIN w : w[k] = t
             r == Without(w, t)
  <2>1. i \in 1 .. Len(w) /\ w[i] = t /\ DOMAIN w = 1 .. Len(w)
    BY <1>2 DEF Members
  <2>2. r = [j \in 1 .. Len(w) - 1 |-> IF j < i THEN w[j] ELSE w[j + 1]]
    BY <1>2 DEF Without
  <2> HIDE DEF i, r
  <2>3. r \in Seq(S) /\ Len(r) = Len(w) - 1 /\ DOMAIN r = 1 .. Len(w) - 1
    <3>1. \A j \in 1 .. Len(w) - 1 : (IF j < i THEN w[j] ELSE w[j + 1]) \in S
      BY <2>1
    <3>2. Len(w) - 1 \in Nat
      BY <2>1
    <3> QED BY <2>2, <3>1, <3>2
  <2>4. \A j \in 1 .. Len(w) - 1 : r[j] = IF j < i THEN w[j] ELSE w[j + 1]
    BY <2>2
  <2>5. Distinct(r)
    <3> SUFFICES ASSUME NEW j \in 1 .. Len(w) - 1, NEW k \in 1 .. Len(w) - 1, r[j] = r[k]
                 PROVE  j = k
      BY <2>3 DEF Distinct
    <3> DEFINE a == IF j < i THEN j ELSE j + 1
               b == IF k < i THEN k ELSE k + 1
    <3>1. a \in 1 .. Len(w) /\ b \in 1 .. Len(w) /\ w[a] = w[b]
      BY <2>1, <2>4
    <3>2. a = b
      BY <3>1, <2>1 DEF Distinct
    <3> QED BY <3>2, <2>1
  <2>6. ASSUME NEW x \in Members(w), x # t
        PROVE  x \in Members(r)
    <3>1. PICK k \in 1 .. Len(w) : w[k] = x
      BY <2>1 DEF Members
    <3>2. k # i
      BY <3>1, <2>1, <2>6
    <3>3. CASE k < i
      <4>1. k \in 1 .. Len(w) - 1 /\ r[k] = x
        BY <3>1, <3>3, <2>1, <2>4
      <4> QED BY <4>1, <2>3 DEF Members
    <3>4. CASE k > i
      <4>1. k - 1 \in 1 .. Len(w) - 1 /\ r[k - 1] = x
        BY <3>1, <3>4, <2>1, <2>4
      <4> QED BY <4>1, <2>3 DEF Members
    <3> QED BY <3>2, <3>3, <3>4, <3>1, <2>1
  <2>7. ASSUME NEW x \in Members(r)
        PROVE  x \in Members(w) /\ x # t
    <3>1. PICK j \in 1 .. Len(w) - 1 : r[j] = x
      BY <2>3 DEF Members
    <3> DEFINE a == IF j < i THEN j ELSE j + 1
    <3>2. a \in 1 .. Len(w) /\ w[a] = x /\ a # i
      BY <3>1, <2>1, <2>4
    <3>3. x \in Members(w)
      BY <3>2, <2>1 DEF Members
    <3>4. x # t
      BY <3>2, <2>1 DEF Distinct
    <3> QED BY <3>3, <3>4
  <2>8. Members(r) = Members(w) \ {t}
    BY <2>6, <2>7
  <2> QED BY <2>3, <2>5, <2>8 DEF r
<1> QED BY <1>1, <1>2

-----------------------------------------------------------------------------
(***************************************************************************)
(* Type correctness.  The deques of waiters have to be described with it:  *)
(* a task in put() knows its channel, it is in that channel's deque while  *)
(* its future is pending, and no other deque names it.                     *)
(***************************************************************************)

\* The types, with total_bytes in Int: that it is never negative follows from
\* what it counts (Accounted below).
Shape ==
    /\ channels \subseteq created
    /\ created \subseteq Channels
    /\ queue \in [Channels -> Seq(Sizes)]
    /\ total_bytes \in [Channels -> Int]
    /\ under_water \in [Channels -> BOOLEAN]
    /\ pending_close \in [Channels -> BOOLEAN]
    /\ putters \in [Channels -> Seq(Putters)]
    /\ order \in Seq(Channels)
    /\ getters \in Seq(Getters)
    /\ ppc \in [Putters -> TaskStates]
    /\ call \in [Putters -> (Channels \X Sizes) \cup {NoCall}]
    /\ gpc \in [Getters -> TaskStates]
    /\ skipped \in [Channels -> Nat]

CallsMatch ==
    \A p \in Putters : ppc[p] \in Suspended => call[p] \in created \X Sizes

\* The deques in waiting, of tasks in the states pc that made the calls in args.
Queued(waiting, pc, args) ==
    /\ \A c \in Channels : Distinct(waiting[c])
    /\ \A c \in Channels : \A p \in Members(waiting[c]) :
          pc[p] \in {"waiting", "cancelled"} /\ args[p][1] = c
    /\ \A p \in Putters :
          pc[p] = "waiting" => args[p][1] \in Channels /\ p \in Members(waiting[args[p][1]])

PuttersQueued == Queued(putters, ppc, call)

GettersQueued ==
    /\ Distinct(getters)
    /\ \A g \in Members(getters) : gpc[g] \in {"waiting", "cancelled"}
    /\ \A g \in Getters : gpc[g] = "waiting" => g \in Members(getters)

TypeInv == Shape /\ CallsMatch /\ PuttersQueued /\ GettersQueued

\* Appending a new future keeps a deque free of duplicates.
LEMMA AppendEffect ==
    ASSUME NEW S, NEW w \in Seq(S), NEW t \in S
    PROVE  /\ Append(w, t) \in Seq(S)
           /\ Members(Append(w, t)) = Members(w) \cup {t}
           /\ Distinct(w) /\ t \notin Members(w) => Distinct(Append(w, t))
<1>1. /\ Append(w, t) \in Seq(S)
      /\ DOMAIN w = 1 .. Len(w)
      /\ DOMAIN Append(w, t) = 1 .. Len(w) + 1
      /\ \A i \in 1 .. Len(w) : Append(w, t)[i] = w[i]
      /\ Append(w, t)[Len(w) + 1] = t
      /\ Len(w) \in Nat
  OBVIOUS
<1>2. Members(Append(w, t)) = Members(w) \cup {t}
  <2>1. ASSUME NEW x \in Members(Append(w, t))
        PROVE  x \in Members(w) \cup {t}
    <3>1. PICK i \in 1 .. Len(w) + 1 : Append(w, t)[i] = x
      BY <1>1 DEF Members
    <3>2. i \in 1 .. Len(w) \/ i = Len(w) + 1
      BY <1>1
    <3> QED BY <3>1, <3>2, <1>1 DEF Members
  <2>2. ASSUME NEW x \in Members(w) \cup {t}
        PROVE  x \in Members(Append(w, t))
    <3>1. CASE x = t
      <4>1. Len(w) + 1 \in 1 .. Len(w) + 1
        BY <1>1
      <4> QED BY <4>1, <3>1, <1>1 DEF Members
    <3>2. CASE x \in Members(w)
      <4>1. PICK i \in 1 .. Len(w) : w[i] = x
        BY <3>2, <1>1 DEF Members
      <4>2. i \in 1 .. Len(w) + 1
        BY <1>1
      <4> QED BY <4>1, <4>2, <1>1 DEF Members
    <3> QED BY <2>2, <3>1, <3>2
  <2> QED BY <2>1, <2>2
<1>3. ASSUME Distinct(w), t \notin Members(w)
      PROVE  Distinct(Append(w, t))
  <2> SUFFICES ASSUME NEW i \in 1 .. Len(w) + 1, NEW j \in 1 .. Len(w) + 1,
                      Append(w, t)[i] = Append(w, t)[j]
               PROVE  i = j
    BY <1>1 DEF Distinct
  <2>1. \A k \in 1 .. Len(w) : w[k] # t
    BY <1>3, <1>1 DEF Members
  <2>2. CASE i \in 1 .. Len(w) /\ j \in 1 .. Len(w)
    BY <2>2, <1>1, <1>3 DEF Distinct
  <2>3. CASE i = Len(w) + 1 \/ j = Len(w) + 1
    BY <2>1, <2>3, <1>1
  <2> QED BY <2>2, <2>3, <1>1
<1> QED BY <1>1, <1>2, <1>3

\* _put() on a channel object keeps the types and the deque of getters.
LEMMA EnqueueType ==
    ASSUME TypeInv, NEW c \in Channels, NEW size \in Sizes, Enqueue(c, size)
    PROVE  /\ queue' \in [Channels -> Seq(Sizes)]
           /\ total_bytes' \in [Channels -> Int]
           /\ under_water' \in [Channels -> BOOLEAN]
           /\ order' \in Seq(Channels)
           /\ skipped' \in [Channels -> Nat]
           /\ getters' \in Seq(Getters)
           /\ gpc' \in [Getters -> TaskStates]
           /\ GettersQueued'
           /\ UNCHANGED lifeVars
<1> USE DEF TypeInv, Shape
<1>1. /\ queue' \in [Channels -> Seq(Sizes)]
      /\ order' \in Seq(Channels)
      /\ skipped' \in [Channels -> Nat]
      /\ UNCHANGED lifeVars
  BY DEF Enqueue
<1>2. total_bytes' \in [Channels -> Int]
  BY SizesAssumption, MarksAssumption DEF Enqueue
<1>3. under_water' \in [Channels -> BOOLEAN]
  BY Zenon DEF Enqueue
<1>4. getters \in Seq(Getters) /\ gpc \in [Getters -> TaskStates] /\ Distinct(getters)
  BY DEF GettersQueued
<1>5. getters' = WaitersLeft(getters, gpc) /\ gpc' = Awakened(getters, gpc)
  BY DEF Enqueue
<1>6. /\ getters' \in Seq(Getters)
      /\ gpc' \in [Getters -> TaskStates]
      /\ Distinct(getters')
      /\ Members(getters') \subseteq Members(getters)
      /\ \A t \in Members(getters) :
            gpc[t] = "waiting" => gpc'[t] = "woken" \/ t \in Members(getters')
      /\ \A t \in Getters :
            \/ gpc'[t] = gpc[t]
            \/ t \notin Members(getters') /\ gpc'[t] = "woken"
  <2> HIDE DEF TypeInv, Shape
  <2> QED BY <1>4, <1>5, WakeupEffect
<1>7. Members(getters) \subseteq Getters
  BY DEF Members
<1>8. GettersQueued'
  BY <1>6, <1>7 DEF GettersQueued
<1> QED BY <1>1, <1>2, <1>3, <1>6, <1>8

\* The loop test of put() keeps the type invariant.
LEMMA PutOrWaitType ==
    ASSUME TypeInv, NEW p \in Putters, NEW c \in created, NEW size \in Sizes,
           ppc[p] \in {"idle", "woken"}, PutOrWait(p, c, size)
    PROVE  TypeInv'
<1> USE DEF TypeInv, Shape
<1>0. c \in Channels
  OBVIOUS
<1>1. CASE Enqueue(c, size)
           /\ ppc' = [ppc EXCEPT ![p] = "idle"]
           /\ call' = [call EXCEPT ![p] = NoCall]
           /\ UNCHANGED putters
  <2>1. Shape' /\ GettersQueued'
    BY <1>0, <1>1, EnqueueType DEF lifeVars, TaskStates
  <2>2. created' = created
    BY <1>1 DEF Enqueue, lifeVars
  <2>3. CallsMatch'
    BY <1>1, <2>2 DEF CallsMatch, Suspended
  <2>4. PuttersQueued'
    BY <1>1 DEF PuttersQueued, Queued
  <2> QED BY <2>1, <2>3, <2>4
<1>2. CASE /\ putters' = [putters EXCEPT ![c] = Append(@, p)]
           /\ ppc' = [ppc EXCEPT ![p] = "waiting"]
           /\ call' = [call EXCEPT ![p] = <<c, size>>]
           /\ UNCHANGED <<lifeVars, dataVars, getters, gpc>>
  <2>1. Shape'
    BY <1>0, <1>2 DEF lifeVars, dataVars, TaskStates, Suspended
  <2>2. GettersQueued'
    BY <1>2 DEF GettersQueued
  <2>3. CallsMatch'
    BY <1>2 DEF CallsMatch, lifeVars
  <2>4. \A d \in Channels : p \notin Members(putters[d])
    BY DEF PuttersQueued, Queued
  <2>5. \A d \in Channels :
           /\ Distinct(putters'[d])
           /\ Members(putters'[d]) = IF d = c THEN Members(putters[d]) \cup {p}
                                              ELSE Members(putters[d])
    <3>1. putters[c] \in Seq(Putters) /\ Distinct(putters[c])
      BY <1>0 DEF PuttersQueued, Queued
    <3>2. /\ Distinct(Append(putters[c], p))
          /\ Members(Append(putters[c], p)) = Members(putters[c]) \cup {p}
      BY <3>1, <1>0, <2>4, AppendEffect
    <3>3. \A d \in Channels : putters'[d] = IF d = c THEN Append(putters[c], p)
                                                     ELSE putters[d]
      BY <1>0, <1>2
    <3> QED BY <3>2, <3>3 DEF PuttersQueued, Queued
  <2>6. \A q \in Putters : q # p => ppc'[q] = ppc[q] /\ call'[q] = call[q]
    BY <1>2
  <2>7. ppc'[p] = "waiting" /\ call'[p][1] = c
    BY <1>2
  <2>8. \A d \in Channels : Members(putters[d]) \subseteq Putters
    BY DEF Members
  <2>9. \A q \in Putters : ppc[q] = "waiting" => call[q][1] \in Channels
    BY DEF CallsMatch, Suspended
  <2>10. PuttersQueued'
    <3> HIDE DEF Shape
    <3>1. ASSUME NEW d \in Channels, NEW q \in Members(putters'[d])
          PROVE  ppc'[q] \in {"waiting", "cancelled"} /\ call'[q][1] = d
      <4>1. CASE q = p
        BY <4>1, <2>4, <2>5, <2>7
      <4>2. CASE q # p
        <5>1. q \in Members(putters[d]) /\ q \in Putters
          BY <4>2, <2>5, <2>8
        <5>2. ppc[q] \in {"waiting", "cancelled"} /\ call[q][1] = d
          BY <5>1 DEF PuttersQueued, Queued
        <5> QED BY <4>2, <5>1, <5>2, <2>6
      <4> QED BY <4>1, <4>2
    <3>2. ASSUME NEW q \in Putters, ppc'[q] = "waiting"
          PROVE  call'[q][1] \in Channels /\ q \in Members(putters'[call'[q][1]])
      <4>1. CASE q = p
        BY <4>1, <1>0, <2>5, <2>7
      <4>2. CASE q # p
        <5>1. q \in Members(putters[call[q][1]]) /\ call'[q] = call[q]
          BY <4>2, <3>2, <2>6 DEF PuttersQueued, Queued
        <5>2. call[q][1] \in Channels
          BY <4>2, <3>2, <2>6, <2>9
        <5> QED BY <5>1, <5>2, <2>5
      <4> QED BY <4>1, <4>2
    <3> QED BY <2>5, <3>1, <3>2 DEF PuttersQueued, Queued
  <2> QED BY <2>1, <2>2, <2>3, <2>10
<1> QED BY <1>1, <1>2 DEF PutOrWait

\* What _wakeup_next() on the deque of channel c does to the tasks: their
\* states were pc and are now; the deques are left.
Woke(pc, args, c, left, now) ==
    /\ now \in [Putters -> TaskStates]
    /\ Queued(left, now, args)
    /\ \A p \in Putters :
          \/ now[p] = pc[p]
          \/ pc[p] = "waiting" /\ now[p] = "woken" /\ args[p][1] = c
    /\ (\E p \in Putters : pc[p] = "waiting" /\ args[p][1] = c)
          => \E p \in Putters : pc[p] = "waiting" /\ now[p] = "woken" /\ args[p][1] = c

\* _wakeup_next() on the deque of one channel keeps the deques right.
LEMMA WakeKeepsQueued ==
    ASSUME NEW waiting \in [Channels -> Seq(Putters)],
           NEW pc \in [Putters -> TaskStates],
           NEW args \in [Putters -> (Channels \X Sizes) \cup {NoCall}],
           Queued(waiting, pc, args), NEW c \in Channels,
           NEW w, w = waiting[c],
           NEW now, now = Awakened(w, pc),
           NEW left \in [Channels -> Seq(Putters)], left[c] = WaitersLeft(w, pc),
           \A d \in Channels : d # c => left[d] = waiting[d]
    PROVE  Woke(pc, args, c, left, now)
<1> DEFINE r == left[c]
<1>1. w \in Seq(Putters) /\ Distinct(w) /\ now = Awakened(w, pc)
      /\ r = WaitersLeft(w, pc)
  BY DEF Queued
<1>2. /\ r \in Seq(Putters)
      /\ Distinct(r)
      /\ Members(r) \subseteq Members(w)
      /\ now \in [Putters -> TaskStates]
      /\ \A t \in Members(w) : pc[t] = "waiting" => now[t] = "woken" \/ t \in Members(r)
      /\ \A t \in Putters :
            \/ now[t] = pc[t]
            \/ /\ t \in Members(w) /\ t \notin Members(r)
               /\ pc[t] = "waiting" /\ now[t] = "woken"
      /\ (\E t \in Members(w) : pc[t] = "waiting")
            => \E t \in Members(w) : pc[t] = "waiting" /\ now[t] = "woken"
  <2>1. r = WaitersLeft(w, pc) /\ w \in Seq(Putters) /\ Distinct(w)
    BY <1>1
  <2>2. /\ WaitersLeft(w, pc) \in Seq(Putters)
        /\ Distinct(WaitersLeft(w, pc))
        /\ Members(WaitersLeft(w, pc)) \subseteq Members(w)
        /\ Awakened(w, pc) \in [Putters -> TaskStates]
    BY <2>1, WakeupEffect
  <2>3. \A t \in Members(w) :
           pc[t] = "waiting" => \/ Awakened(w, pc)[t] = "woken"
                                \/ t \in Members(WaitersLeft(w, pc))
    BY <2>1, WakeupEffect
  <2>4. \A t \in Putters :
           \/ Awakened(w, pc)[t] = pc[t]
           \/ /\ t \in Members(w) /\ t \notin Members(WaitersLeft(w, pc))
              /\ pc[t] = "waiting" /\ Awakened(w, pc)[t] = "woken"
    BY <2>1, WakeupEffect
  <2>5. (\E t \in Members(w) : pc[t] = "waiting")
           => \E t \in Members(w) : pc[t] = "waiting" /\ Awakened(w, pc)[t] = "woken"
    BY <2>1, WakeupEffect
  <2> QED BY <1>1, <2>1, <2>2, <2>3, <2>4, <2>5
<1>3. Members(w) \subseteq Putters
  BY <1>1 DEF Members
<1>4. \A p \in Members(w) : args[p][1] = c
  BY DEF Queued
<1>6. left[c] = r /\ \A d \in Channels : d # c => left[d] = waiting[d]
  OBVIOUS
<1>7. \A d \in Channels : Distinct(left[d])
  BY <1>2, <1>6 DEF Queued
<1>8. ASSUME NEW d \in Channels, NEW p \in Members(left[d])
      PROVE  now[p] \in {"waiting", "cancelled"} /\ args[p][1] = d
  <2>1. p \in Members(waiting[d]) /\ p \in Putters
    <3>1. p \in Members(waiting[d])
      BY <1>2, <1>6
    <3> QED BY <3>1 DEF Members
  <2>2. pc[p] \in {"waiting", "cancelled"} /\ args[p][1] = d
    BY <2>1 DEF Queued
  <2>3. now[p] = pc[p]
    <3>1. CASE d = c
      BY <3>1, <2>1, <1>2, <1>6
    <3>2. CASE d # c
      BY <3>2, <2>1, <2>2, <1>2, <1>4
    <3> QED BY <3>1, <3>2
  <2> QED BY <2>2, <2>3
<1>9. ASSUME NEW p \in Putters, now[p] = "waiting"
      PROVE  args[p][1] \in Channels /\ p \in Members(left[args[p][1]])
  <2>1. /\ pc[p] = "waiting" /\ args[p][1] \in Channels
        /\ p \in Members(waiting[args[p][1]])
    BY <1>2, <1>9 DEF Queued
  <2>2. CASE args[p][1] = c
    BY <2>1, <2>2, <1>2, <1>6, <1>9
  <2>3. CASE args[p][1] # c
    <3>1. left[args[p][1]] = waiting[args[p][1]]
      BY <2>1, <2>3
    <3> QED BY <3>1, <2>1
  <2> QED BY <2>2, <2>3
<1>10. Queued(left, now, args)
  BY <1>7, <1>8, <1>9 DEF Queued
<1>11. \A p \in Putters :
          \/ now[p] = pc[p]
          \/ pc[p] = "waiting" /\ now[p] = "woken" /\ args[p][1] = c
  BY <1>2, <1>4
<1>12. (\E p \in Putters : pc[p] = "waiting" /\ args[p][1] = c)
          => \E p \in Putters : pc[p] = "waiting" /\ now[p] = "woken" /\ args[p][1] = c
  BY <1>2, <1>3, <1>4 DEF Queued
<1> QED BY <1>2, <1>10, <1>11, <1>12 DEF Woke

\* The clean-up of a cancelled put() keeps the deques right.
LEMMA RemoveKeepsQueued ==
    ASSUME NEW waiting \in [Channels -> Seq(Putters)],
           NEW pc \in [Putters -> TaskStates],
           NEW args \in [Putters -> (Channels \X Sizes) \cup {NoCall}],
           Queued(waiting, pc, args),
           NEW p \in Putters, pc[p] \in {"cancelled", "lostRace"},
           args[p] \in Channels \X Sizes, NEW c, c = args[p][1],
           NEW left, left = [waiting EXCEPT ![c] = Without(waiting[c], p)],
           NEW now, now = [pc EXCEPT ![p] = "idle"],
           NEW rest, rest = [args EXCEPT ![p] = NoCall]
    PROVE  /\ left \in [Channels -> Seq(Putters)]
           /\ now \in [Putters -> TaskStates]
           /\ Queued(left, now, rest)
<1> DEFINE w == waiting[c]
           r == Without(w, p)
<1>1. c \in Channels
  OBVIOUS
<1>2. w \in Seq(Putters) /\ Distinct(w)
  BY <1>1 DEF Queued
<1>3. r \in Seq(Putters) /\ Distinct(r) /\ Members(r) = Members(w) \ {p}
  <2> HIDE DEF w
  <2> QED BY <1>2, WithoutEffect
<1>4. left[c] = r /\ \A d \in Channels : d # c => left[d] = waiting[d]
  BY <1>1
<1>5. left \in [Channels -> Seq(Putters)] /\ now \in [Putters -> TaskStates]
  BY <1>3 DEF TaskStates
<1>6. \A q \in Putters : q # p => now[q] = pc[q] /\ rest[q] = args[q]
  OBVIOUS
<1>7. now[p] = "idle"
  OBVIOUS
<1> HIDE DEF r
<1>8. \A d \in Channels : Distinct(left[d])
  BY <1>3, <1>4 DEF Queued
<1>9. ASSUME NEW d \in Channels, NEW q \in Members(left[d])
      PROVE  now[q] \in {"waiting", "cancelled"} /\ rest[q][1] = d
  <2>1. q \in Members(waiting[d]) /\ q \in Putters
    <3>1. q \in Members(waiting[d])
      BY <1>3, <1>4
    <3> QED BY <3>1 DEF Members
  <2>2. pc[q] \in {"waiting", "cancelled"} /\ args[q][1] = d
    BY <2>1 DEF Queued
  <2>3. q # p
    BY <2>2, <1>3, <1>4
  <2> QED BY <2>1, <2>2, <2>3, <1>6
<1>10. ASSUME NEW q \in Putters, now[q] = "waiting"
       PROVE  rest[q][1] \in Channels /\ q \in Members(left[rest[q][1]])
  <2>1. q # p /\ pc[q] = "waiting" /\ rest[q] = args[q]
    BY <1>6, <1>7, <1>10
  <2>2. args[q][1] \in Channels /\ q \in Members(waiting[args[q][1]])
    BY <2>1 DEF Queued
  <2>3. CASE args[q][1] = c
    BY <2>1, <2>2, <2>3, <1>3, <1>4
  <2>4. CASE args[q][1] # c
    <3>1. left[args[q][1]] = waiting[args[q][1]]
      BY <2>4 DEF r
    <3> QED BY <3>1, <2>1, <2>2
  <2> QED BY <2>3, <2>4
<1>11. Queued(left, now, rest)
  BY <1>8, <1>9, <1>10 DEF Queued
<1> QED BY <1>5, <1>11

-----------------------------------------------------------------------------
(***************************************************************************)
(* _order and the deques agree.  An id that was never created has left no  *)
(* trace in either, so create_channel() starts with an empty channel.      *)
(***************************************************************************)

FreshIsEmpty ==
    \A c \in Channels \ created :
        queue[c] = <<>> /\ c \notin Members(order) /\ pending_close[c] = FALSE

Inv == TypeInv /\ OrderMatchesQueues /\ FreshIsEmpty

\* popitem(last=False) takes out one id.
LEMMA TailEffect ==
    ASSUME NEW S, NEW w \in Seq(S), w # <<>>, Distinct(w)
    PROVE  /\ Head(w) \in S /\ Head(w) \in Members(w)
           /\ Tail(w) \in Seq(S)
           /\ Distinct(Tail(w))
           /\ Members(Tail(w)) = Members(w) \ {Head(w)}
<1> DEFINE r == Tail(w)
<1>1. /\ r \in Seq(S)
      /\ Len(w) \in Nat \ {0}
      /\ DOMAIN w = 1 .. Len(w)
      /\ DOMAIN r = 1 .. Len(w) - 1
      /\ \A i \in 1 .. Len(w) - 1 : r[i] = w[i + 1]
      /\ Head(w) = w[1] /\ 1 \in DOMAIN w
  OBVIOUS
<1> HIDE DEF r
<1>2. Distinct(r)
  <2> SUFFICES ASSUME NEW i \in 1 .. Len(w) - 1, NEW j \in 1 .. Len(w) - 1, r[i] = r[j]
               PROVE  i = j
    BY <1>1 DEF Distinct
  <2>1. i + 1 \in DOMAIN w /\ j + 1 \in DOMAIN w /\ w[i + 1] = w[j + 1]
    BY <1>1
  <2>2. i + 1 = j + 1
    BY <2>1 DEF Distinct
  <2> QED BY <2>2
<1>3. ASSUME NEW x \in Members(r)
      PROVE  x \in Members(w) /\ x # w[1]
  <2>1. PICK i \in 1 .. Len(w) - 1 : r[i] = x
    BY <1>1 DEF Members
  <2>2. i + 1 \in DOMAIN w /\ w[i + 1] = x /\ i + 1 # 1
    BY <2>1, <1>1
  <2> QED BY <2>2, <1>1 DEF Members, Distinct
<1>4. ASSUME NEW x \in Members(w), x # w[1]
      PROVE  x \in Members(r)
  <2>1. PICK i \in 1 .. Len(w) : w[i] = x
    BY <1>1 DEF Members
  <2>2. i - 1 \in 1 .. Len(w) - 1 /\ r[i - 1] = x
    BY <2>1, <1>1, <1>4
  <2> QED BY <2>2, <1>1 DEF Members
<1>5. Members(r) = Members(w) \ {Head(w)}
  BY <1>1, <1>3, <1>4
<1>6. Head(w) \in S /\ Head(w) \in Members(w)
  BY <1>1 DEF Members
<1> QED BY <1>1, <1>2, <1>5, <1>6 DEF r

\* A deque to which something was appended is not empty.
LEMMA AppendNotEmpty ==
    ASSUME NEW S, NEW w \in Seq(S), NEW t \in S
    PROVE  Append(w, t) # <<>>
<1>1. Len(Append(w, t)) = Len(w) + 1 /\ Len(w) \in Nat
  OBVIOUS
<1>2. Len(Append(w, t)) # 0
  BY <1>1
<1>3. Len(<<>>) = 0
  OBVIOUS
<1> QED BY <1>2, <1>3

\* _put() keeps _order right.
LEMMA EnqueueOrder ==
    ASSUME Inv, NEW c \in created, NEW size \in Sizes, Enqueue(c, size)
    PROVE  OrderMatchesQueues' /\ FreshIsEmpty'
<1>1. /\ c \in Channels /\ created' = created /\ channels' = channels
      /\ pending_close' = pending_close
      /\ order \in Seq(Channels) /\ Distinct(order)
      /\ channels \subseteq Channels /\ created \subseteq Channels
  BY DEF Inv, TypeInv, Shape, OrderMatchesQueues, Enqueue, lifeVars
<1>2. \A d \in Channels : queue'[d] = IF d = c THEN Append(queue[c], size) ELSE queue[d]
  BY <1>1 DEF Inv, TypeInv, Shape, Enqueue
<1>3. queue'[c] # <<>>
  <2>1. queue[c] \in Seq(Sizes)
    BY <1>1 DEF Inv, TypeInv, Shape
  <2> QED BY <1>1, <1>2, <2>1, AppendNotEmpty
<1>4. /\ Distinct(order')
      /\ Members(order') = Members(order) \cup {c}
  <2>1. CASE c \in Members(order)
    BY <2>1, <1>1 DEF Enqueue
  <2>2. CASE c \notin Members(order)
    <3>1. order' = Append(order, c)
      BY <2>2 DEF Enqueue
    <3> QED BY <3>1, <2>2, <1>1, AppendEffect
  <2> QED BY <2>1, <2>2
<1> QED BY <1>1, <1>2, <1>3, <1>4 DEF Inv, OrderMatchesQueues, FreshIsEmpty

\* get_nowait() finds a message in the channel it pops and keeps _order right.
LEMMA GetOrder ==
    ASSUME Inv, NEW g \in Getters, GetNowait(g)
    PROVE  /\ OrderMatchesQueues' /\ FreshIsEmpty'
           /\ Head(order) \in Channels
           /\ Head(order) \in channels => queue[Head(order)] # <<>>
<1> DEFINE c == Head(order)
           rest == Tail(queue[c])
<1>1. /\ order \in Seq(Channels) /\ Distinct(order) /\ order # <<>>
      /\ channels \subseteq Channels /\ created \subseteq Channels
      /\ channels \subseteq created
      /\ queue \in [Channels -> Seq(Sizes)]
  BY DEF Inv, TypeInv, Shape, OrderMatchesQueues, GetNowait
<1>2. /\ c \in Channels /\ c \in Members(order)
      /\ Tail(order) \in Seq(Channels) /\ Distinct(Tail(order))
      /\ Members(Tail(order)) = Members(order) \ {c}
  BY <1>1, TailEffect
<1>3. c \in channels => queue[c] # <<>>
  BY <1>2 DEF Inv, OrderMatchesQueues
<1>4. CASE c \notin channels
  <2>1. /\ order' = Tail(order) /\ queue' = queue /\ channels' = channels
        /\ pending_close' = pending_close /\ created' = created
    BY <1>4 DEF GetNowait, lifeVars
  <2>2. OrderMatchesQueues' /\ FreshIsEmpty'
    BY <2>1, <1>1, <1>2, <1>4 DEF Inv, OrderMatchesQueues, FreshIsEmpty
  <2> QED BY <2>2, <1>2, <1>3
<1>5. CASE c \in channels
  <2>1. /\ order' = IF rest # <<>> THEN Append(Tail(order), c) ELSE Tail(order)
        /\ queue' = [queue EXCEPT ![c] = rest]
        /\ channels' = IF rest = <<>> /\ pending_close[c] THEN channels \ {c} ELSE channels
        /\ pending_close' = pending_close /\ created' = created
    BY <1>5 DEF GetNowait
  <2>2. \A d \in Channels : queue'[d] = IF d = c THEN rest ELSE queue[d]
    BY <2>1, <1>1, <1>2
  <2> HIDE DEF rest, c
  <2>3. /\ Distinct(order')
        /\ Members(order') = IF rest # <<>> THEN Members(order) ELSE Members(order) \ {c}
    <3>1. CASE rest = <<>>
      BY <3>1, <2>1, <1>2
    <3>2. CASE rest # <<>>
      <4> DEFINE t == Tail(order)
      <4>1. t \in Seq(Channels) /\ Distinct(t) /\ c \in Channels /\ c \notin Members(t)
        BY <1>2
      <4> HIDE DEF t
      <4>2. Members(Append(t, c)) = Members(t) \cup {c} /\ Distinct(Append(t, c))
        BY <4>1, AppendEffect
      <4> QED BY <4>2, <3>2, <2>1, <1>2 DEF t
    <3> QED BY <3>1, <3>2
  <2>4. c \in created
    BY <1>1, <1>5
  <2>5. OrderMatchesQueues'
    BY <1>1, <1>2, <1>5, <2>1, <2>2, <2>3 DEF Inv, OrderMatchesQueues
  <2>6. FreshIsEmpty'
    BY <1>1, <1>2, <2>1, <2>2, <2>3, <2>4 DEF Inv, FreshIsEmpty
  <2> QED BY <2>5, <2>6, <1>2, <1>3 DEF c
<1> QED BY <1>4, <1>5

\* What a step does to the messages: put one into a channel that exists or
\* existed, take one, or leave them alone.
LEMMA StepShapes ==
    ASSUME TypeInv, Next
    PROVE  \/ \E c \in created, size \in Sizes : Enqueue(c, size)
           \/ \E g \in Getters : GetNowait(g)
           \/ /\ UNCHANGED dataVars
              /\ \/ \E c \in Channels : CreateChannel(c) \/ DeleteChannel(c)
                 \/ UNCHANGED lifeVars
<1> USE DEF TypeInv
<1>0. channels \subseteq created
  BY DEF Shape
<1>1. ASSUME NEW c \in Channels, ChannelStep(c)
      PROVE  \/ \E d \in created, size \in Sizes : Enqueue(d, size)
             \/ UNCHANGED dataVars /\ (CreateChannel(c) \/ DeleteChannel(c))
  BY <1>0, <1>1 DEF ChannelStep, CreateChannel, DeleteChannel, PutNowait, PutNowaitForce
<1>2. ASSUME NEW p \in Putters, PutterStep(p)
      PROVE  \/ \E d \in created, size \in Sizes : Enqueue(d, size)
             \/ UNCHANGED <<dataVars, lifeVars>>
  <2>1. CASE \E c \in Channels, size \in Sizes : Put(p, c, size)
    BY <2>1, <1>0 DEF Put, PutOrWait
  <2>2. CASE PutResume(p)
    <3>1. call[p] \in created \X Sizes
      BY <2>2 DEF PutResume, CallsMatch, Suspended
    <3>2. call[p][1] \in created /\ call[p][2] \in Sizes
      BY <3>1
    <3> QED BY <2>2, <3>2 DEF PutResume, PutOrWait
  <2>3. CASE PutCancel(p) \/ PutRaise(p)
    BY <2>3 DEF PutCancel, PutRaise
  <2> QED BY <1>2, <2>1, <2>2, <2>3 DEF PutterStep
<1>3. ASSUME NEW g \in Getters, GetterStep(g)
      PROVE  GetNowait(g) \/ UNCHANGED <<dataVars, lifeVars>>
  BY <1>3 DEF GetterStep, Get, GetResume, GetCancel, GetRaise, GetOrWait
<1> QED BY <1>1, <1>2, <1>3 DEF Next

\* A new multiplexer starts with an empty queue (queue.py:105-125).
LEMMA InvInit == Init => Inv
<1> SUFFICES ASSUME Init PROVE Inv
  OBVIOUS
<1> USE DEF Init
<1>1. Shape
  BY DEF Shape, TaskStates
<1>2. CallsMatch
  BY DEF CallsMatch, Suspended
<1>3. Members(<<>>) = {} /\ Distinct(<<>>)
  BY DEF Members, Distinct
<1>4. PuttersQueued /\ GettersQueued
  BY <1>3 DEF PuttersQueued, Queued, GettersQueued
<1>5. OrderMatchesQueues /\ FreshIsEmpty
  BY <1>3 DEF OrderMatchesQueues, FreshIsEmpty
<1> QED BY <1>1, <1>2, <1>4, <1>5 DEF Inv, TypeInv

\* What the except branch of put() does to the tasks: p leaves, its wakeup is
\* handed on if it had one and there is room, nobody else is touched.
LEMMA PutRaiseEffect ==
    ASSUME TypeInv, NEW p \in Putters, PutRaise(p), NEW c, c = call[p][1]
    PROVE  /\ c \in created /\ c \in Channels
           /\ putters' \in [Channels -> Seq(Putters)]
           /\ ppc' \in [Putters -> TaskStates]
           /\ call' = [call EXCEPT ![p] = NoCall]
           /\ call' \in [Putters -> (Channels \X Sizes) \cup {NoCall}]
           /\ Queued(putters', ppc', call')
           /\ ppc'[p] = "idle"
           /\ \A q \in Putters \ {p} :
                 \/ ppc'[q] = ppc[q]
                 \/ ppc[q] = "waiting" /\ ppc'[q] = "woken" /\ call[q][1] = c
           /\ ppc[p] = "lostRace" /\ ~Full(c)
                 => \A q \in Putters \ {p} : ppc[q] = "waiting" /\ call[q][1] = c
                       => \E r \in Putters \ {p} :
                             ppc[r] = "waiting" /\ ppc'[r] = "woken" /\ call[r][1] = c
           /\ UNCHANGED <<lifeVars, dataVars, getters, gpc>>
<1> DEFINE waiters == Without(putters[c], p)
           left == [putters EXCEPT ![c] = waiters]
           now == [ppc EXCEPT ![p] = "idle"]
           rest == [call EXCEPT ![p] = NoCall]
           handOn == ppc[p] = "lostRace" /\ ~Full(c)
<1>1. /\ putters \in [Channels -> Seq(Putters)] /\ ppc \in [Putters -> TaskStates]
      /\ call \in [Putters -> (Channels \X Sizes) \cup {NoCall}]
      /\ created \subseteq Channels
  BY DEF TypeInv, Shape, Suspended
<1>2. ppc[p] \in {"cancelled", "lostRace"} /\ call[p] \in created \X Sizes
  BY DEF TypeInv, PutRaise, CallsMatch, Suspended
<1>3. c \in Channels /\ call[p] \in Channels \X Sizes
  BY <1>1, <1>2
<1>4. /\ left \in [Channels -> Seq(Putters)] /\ now \in [Putters -> TaskStates]
      /\ Queued(left, now, rest)
  <2> DEFINE d == call[p][1]
  <2>1. /\ d = call[p][1]
        /\ left = [putters EXCEPT ![d] = Without(putters[d], p)]
        /\ now = [ppc EXCEPT ![p] = "idle"]
        /\ rest = [call EXCEPT ![p] = NoCall]
        /\ Queued(putters, ppc, call)
    BY DEF TypeInv, PuttersQueued
  <2>2. call[p] \in Channels \X Sizes
    BY <1>3
  <2> HIDE DEF left, now, rest, d
  <2> QED BY ONLY <1>1, <1>2, <2>1, <2>2, RemoveKeepsQueued
<1>4a. rest \in [Putters -> (Channels \X Sizes) \cup {NoCall}]
  BY <1>1
<1>5. /\ putters' = IF handOn THEN [putters EXCEPT ![c] = WaitersLeft(waiters, now)] ELSE left
      /\ ppc' = IF handOn THEN Awakened(waiters, now) ELSE now
      /\ call' = rest
      /\ UNCHANGED <<lifeVars, dataVars, getters, gpc>>
  BY DEF PutRaise
<1>6. left[c] = waiters /\ [putters EXCEPT ![c] = WaitersLeft(waiters, now)]
                             = [left EXCEPT ![c] = WaitersLeft(left[c], now)]
  BY <1>1, <1>3
<1>6a. /\ handOn => /\ putters' = [left EXCEPT ![c] = WaitersLeft(left[c], now)]
                     /\ ppc' = Awakened(left[c], now)
       /\ ~handOn => putters' = left /\ ppc' = now
       /\ handOn \in BOOLEAN
       /\ call' = rest
  BY <1>5, <1>6
<1> HIDE DEF left, now, rest, waiters, handOn
<1>7. /\ putters' \in [Channels -> Seq(Putters)]
      /\ ppc' \in [Putters -> TaskStates]
      /\ Queued(putters', ppc', call')
      /\ handOn => Woke(now, rest, c, putters', ppc')
  <2>1. CASE ~handOn
    BY <2>1, <1>4, <1>6a
  <2>2. CASE handOn
    <3> DEFINE w == left[c]
               now2 == Awakened(w, now)
               left2 == [left EXCEPT ![c] = WaitersLeft(w, now)]
    <3>1. putters' = left2 /\ ppc' = now2 /\ w = left[c] /\ now2 = Awakened(w, now)
      BY <2>2, <1>6a
    <3>2. /\ left2 \in [Channels -> Seq(Putters)]
          /\ left2[c] = WaitersLeft(w, now)
          /\ \A d \in Channels : d # c => left2[d] = left[d]
      <4>1. w \in Seq(Putters) /\ Distinct(w)
        BY <1>3, <1>4 DEF Queued
      <4> HIDE DEF w
      <4>2. WaitersLeft(w, now) \in Seq(Putters)
        BY <1>4, <4>1, WakeupEffect
      <4> QED BY <4>2, <1>3, <1>4
    <3> HIDE DEF left2, now2, w
    <3>3. Woke(now, rest, c, left2, now2)
      BY <3>1, <3>2, <1>3, <1>4, <1>4a, WakeKeepsQueued
    <3> QED BY <3>1, <3>2, <3>3, <1>6a DEF Woke
  <2> QED BY <2>1, <2>2
<1>8. /\ now[p] = "idle" /\ rest[p] = NoCall
      /\ \A q \in Putters \ {p} : now[q] = ppc[q] /\ rest[q] = call[q]
  BY <1>1 DEF now, rest
<1>9. CASE ~handOn
  <2>1. ppc' = now /\ ~(ppc[p] = "lostRace" /\ ~Full(c))
    BY <1>9, <1>6a DEF handOn
  <2> QED BY <2>1, <1>2, <1>3, <1>4a, <1>5, <1>7, <1>8 DEF rest
<1>10. CASE handOn
  <2>1. Woke(now, rest, c, putters', ppc')
    BY <1>10, <1>7
  <2>2. \A q \in Putters :
           \/ ppc'[q] = now[q]
           \/ now[q] = "waiting" /\ ppc'[q] = "woken" /\ rest[q][1] = c
    BY <2>1 DEF Woke
  <2>3. (\E q \in Putters : now[q] = "waiting" /\ rest[q][1] = c)
           => \E q \in Putters : now[q] = "waiting" /\ ppc'[q] = "woken" /\ rest[q][1] = c
    BY <2>1 DEF Woke
  <2>4. ppc'[p] = "idle"
    BY <2>2, <1>8
  <2>5. ASSUME NEW q \in Putters \ {p}, ppc[q] = "waiting", call[q][1] = c
        PROVE  \E r \in Putters \ {p} :
                  ppc[r] = "waiting" /\ ppc'[r] = "woken" /\ call[r][1] = c
    <3>1. PICK r \in Putters : now[r] = "waiting" /\ ppc'[r] = "woken" /\ rest[r][1] = c
      BY <2>3, <2>5, <1>8
    <3>2. r # p
      BY <3>1, <2>4
    <3> QED BY <3>1, <3>2, <1>8
  <2>6. \A q \in Putters \ {p} :
           \/ ppc'[q] = ppc[q]
           \/ ppc[q] = "waiting" /\ ppc'[q] = "woken" /\ call[q][1] = c
    BY <2>2, <1>8
  <2> QED BY <2>4, <2>5, <2>6, <1>2, <1>3, <1>4a, <1>5, <1>7 DEF rest
<1> QED BY <1>9, <1>10

\* The clean-up of put() keeps the type invariant.
LEMMA PutRaiseType ==
    ASSUME TypeInv, NEW p \in Putters, PutRaise(p)
    PROVE  TypeInv'
<1> DEFINE c == call[p][1]
<1>1. /\ putters' \in [Channels -> Seq(Putters)] /\ ppc' \in [Putters -> TaskStates]
      /\ call' = [call EXCEPT ![p] = NoCall]
      /\ call' \in [Putters -> (Channels \X Sizes) \cup {NoCall}]
      /\ Queued(putters', ppc', call')
      /\ ppc'[p] = "idle"
      /\ \A q \in Putters \ {p} : ppc'[q] = ppc[q] \/ ppc[q] = "waiting"
      /\ UNCHANGED <<lifeVars, dataVars, getters, gpc>>
  BY PutRaiseEffect
<1>9. Shape'
  BY <1>1 DEF TypeInv, Shape, lifeVars, dataVars
<1>10. CallsMatch'
  <2>1. created' = created /\ call \in [Putters -> (Channels \X Sizes) \cup {NoCall}]
    BY <1>1 DEF TypeInv, Shape, lifeVars
  <2>2. ASSUME NEW q \in Putters, ppc'[q] \in Suspended
        PROVE  call'[q] \in created \X Sizes
    <3>1. q # p
      BY <2>2, <1>1 DEF Suspended
    <3>2. ppc[q] \in Suspended /\ call'[q] = call[q]
      BY <2>1, <2>2, <3>1, <1>1 DEF Suspended
    <3> QED BY <3>2 DEF TypeInv, CallsMatch
  <2> QED BY <2>1, <2>2 DEF CallsMatch
<1>11. GettersQueued'
  BY <1>1 DEF TypeInv, GettersQueued
<1> QED BY <1>1, <1>9, <1>10, <1>11 DEF TypeInv, PuttersQueued

\* get_nowait() on a registered channel wakes one of its writers.
LEMMA GetWakes ==
    ASSUME Inv, NEW g \in Getters, GetNowait(g), NEW c, c = Head(order), c \in channels
    PROVE  /\ putters' \in [Channels -> Seq(Putters)]
           /\ Woke(ppc, call, c, putters', ppc')
<1>1. c \in Channels
  BY DEF Inv, TypeInv, Shape
<1>2. /\ putters \in [Channels -> Seq(Putters)] /\ ppc \in [Putters -> TaskStates]
      /\ Queued(putters, ppc, call)
      /\ call \in [Putters -> (Channels \X Sizes) \cup {NoCall}]
  BY DEF Inv, Shape, TypeInv, PuttersQueued
<1> DEFINE w == putters[c]
           now == Awakened(w, ppc)
           left == [putters EXCEPT ![c] = WaitersLeft(w, ppc)]
<1>3. putters' = left /\ ppc' = now /\ w = putters[c] /\ now = Awakened(w, ppc)
  BY DEF GetNowait
<1>4. /\ left \in [Channels -> Seq(Putters)]
      /\ left[c] = WaitersLeft(w, ppc)
      /\ \A d \in Channels : d # c => left[d] = putters[d]
  <2>1. w \in Seq(Putters) /\ Distinct(w)
    BY <1>1, <1>2 DEF Queued
  <2> HIDE DEF w
  <2>2. WaitersLeft(w, ppc) \in Seq(Putters)
    BY <1>2, <2>1, WakeupEffect
  <2> QED BY <2>2, <1>1, <1>2
<1> HIDE DEF left, now, w
<1>5. Woke(ppc, call, c, left, now)
  BY <1>1, <1>2, <1>3, <1>4, WakeKeepsQueued
<1> QED BY <1>3, <1>4, <1>5

\* get_nowait() keeps the type invariant.
LEMMA GetNowaitType ==
    ASSUME Inv, NEW g \in Getters, gpc[g] \in {"idle", "woken"}, GetNowait(g)
    PROVE  TypeInv'
<1> DEFINE c == Head(order)
<1>1. /\ c \in Channels
      /\ c \in channels => queue[c] # <<>>
      /\ order \in Seq(Channels) /\ order # <<>> /\ Tail(order) \in Seq(Channels)
      /\ queue \in [Channels -> Seq(Sizes)] /\ total_bytes \in [Channels -> Int]
      /\ Shape /\ TypeInv
  <2>1. /\ order \in Seq(Channels) /\ order # <<>>
        /\ queue \in [Channels -> Seq(Sizes)] /\ total_bytes \in [Channels -> Int]
        /\ Shape /\ TypeInv
    BY DEF Inv, TypeInv, Shape, GetNowait
  <2>2. Head(order) \in Channels /\ (Head(order) \in channels => queue[Head(order)] # <<>>)
    BY GetOrder
  <2>3. Tail(order) \in Seq(Channels)
    BY <2>1
  <2> QED BY <2>1, <2>2, <2>3
<1>2. skipped' \in [Channels -> Nat]
  <2>1. CountTurn(c) /\ skipped \in [Channels -> Nat]
    BY <1>1 DEF GetNowait, Shape
  <2> QED BY <2>1 DEF CountTurn
<1>3. /\ getters' = getters /\ call' = call /\ created' = created
      /\ pending_close' = pending_close
  BY DEF GetNowait, lifeVars
<1>4. /\ gpc' \in [Getters -> TaskStates]
      /\ GettersQueued'
  <2>1. g \notin Members(getters)
    BY DEF Inv, TypeInv, GettersQueued
  <2>2. \E v \in {"idle", "failed"} : gpc' = [gpc EXCEPT ![g] = v]
    BY DEF GetNowait
  <2>3. Members(getters) \subseteq Getters
    BY <1>1 DEF Shape, Members
  <2>4. PICK v \in {"idle", "failed"} : gpc' = [gpc EXCEPT ![g] = v]
    BY <2>2
  <2>5. gpc' \in [Getters -> TaskStates]
    BY <1>1, <2>4 DEF Shape, TaskStates
  <2>6. \A h \in Getters : gpc'[h] = IF h = g THEN v ELSE gpc[h]
    BY <1>1, <2>4 DEF Shape
  <2>7. GettersQueued'
    BY <1>1, <1>3, <2>1, <2>3, <2>6 DEF TypeInv, GettersQueued
  <2> QED BY <2>5, <2>7
<1>5. CASE c \notin channels
  <2>1. /\ order' = Tail(order)
        /\ UNCHANGED <<lifeVars, queue, total_bytes, under_water, putters, ppc>>
    BY <1>5 DEF GetNowait
  <2>2. Shape'
    BY <1>1, <1>2, <1>3, <1>4, <2>1 DEF Shape, lifeVars
  <2>3. CallsMatch' /\ PuttersQueued'
    BY <1>1, <1>3, <2>1 DEF TypeInv, CallsMatch, PuttersQueued
  <2> QED BY <1>4, <2>2, <2>3 DEF TypeInv
<1>6. CASE c \in channels
  <2>1. Head(queue[c]) \in Int /\ Tail(queue[c]) \in Seq(Sizes)
    <3> HIDE DEF c
    <3>1. queue[c] \in Seq(Sizes) /\ queue[c] # <<>>
      BY <1>1, <1>6
    <3>2. Head(queue[c]) \in Sizes /\ Tail(queue[c]) \in Seq(Sizes)
      BY <3>1
    <3>3. Sizes \subseteq Int
      BY SizesAssumption, MarksAssumption
    <3> QED BY <3>2, <3>3
  <2>2. /\ queue' = [queue EXCEPT ![c] = Tail(queue[c])]
        /\ total_bytes' = [total_bytes EXCEPT ![c] = total_bytes[c] - Head(queue[c])]
        /\ order' = IF Tail(queue[c]) # <<>> THEN Append(Tail(order), c) ELSE Tail(order)
        /\ channels' \subseteq channels
        /\ putters' = [putters EXCEPT ![c] = WaitersLeft(putters[c], ppc)]
        /\ ppc' = Awakened(putters[c], ppc)
    BY <1>6 DEF GetNowait
  <2>3. under_water' \in [Channels -> BOOLEAN]
    <3>1. under_water' = [under_water EXCEPT
             ![c] = @ /\ total_bytes[c] - Head(queue[c]) > channel_low_water_mark]
      BY <1>6 DEF GetNowait
    <3> QED BY <3>1, <1>1, Zenon DEF Shape
  <2>4. /\ queue' \in [Channels -> Seq(Sizes)] /\ total_bytes' \in [Channels -> Int]
        /\ order' \in Seq(Channels)
    BY <1>1, <2>1, <2>2
  <2>5. /\ putters \in [Channels -> Seq(Putters)] /\ ppc \in [Putters -> TaskStates]
        /\ Queued(putters, ppc, call)
        /\ call \in [Putters -> (Channels \X Sizes) \cup {NoCall}]
    BY <1>1 DEF Shape, Suspended, TypeInv, PuttersQueued
  <2> HIDE DEF c
  <2>6. /\ putters' \in [Channels -> Seq(Putters)] /\ ppc' \in [Putters -> TaskStates]
        /\ Queued(putters', ppc', call)
        /\ \A q \in Putters : ppc'[q] = ppc[q] \/ ppc[q] = "waiting"
    <3>1. putters' \in [Channels -> Seq(Putters)] /\ Woke(ppc, call, c, putters', ppc')
      BY <1>6, GetWakes DEF c
    <3> QED BY <3>1 DEF Woke
  <2>7. Shape'
    BY <1>1, <1>2, <1>3, <1>4, <2>2, <2>3, <2>4, <2>6 DEF Shape
  <2>8. CallsMatch'
    BY <1>1, <1>3, <2>6 DEF TypeInv, CallsMatch, Suspended
  <2> QED BY <1>3, <1>4, <2>6, <2>7, <2>8 DEF TypeInv, PuttersQueued
<1> QED BY <1>5, <1>6

\* The clean-up of get() keeps the type invariant.
LEMMA GetRaiseType ==
    ASSUME TypeInv, NEW g \in Getters, GetRaise(g)
    PROVE  TypeInv'
<1> DEFINE w == Without(getters, g)
           now == [gpc EXCEPT ![g] = "idle"]
           handOn == gpc[g] = "lostRace" /\ order # <<>>
<1>1. getters \in Seq(Getters) /\ gpc \in [Getters -> TaskStates] /\ Distinct(getters)
  BY DEF TypeInv, Shape, GettersQueued
<1>2. w \in Seq(Getters) /\ Distinct(w) /\ Members(w) = Members(getters) \ {g}
  BY <1>1, WithoutEffect
<1>3. now \in [Getters -> TaskStates]
  BY <1>1 DEF TaskStates
<1>4. \A h \in Getters : now[h] = IF h = g THEN "idle" ELSE gpc[h]
  BY <1>1
<1>5. /\ getters' = IF handOn THEN WaitersLeft(w, now) ELSE w
      /\ gpc' = IF handOn THEN Awakened(w, now) ELSE now
      /\ handOn \in BOOLEAN
      /\ UNCHANGED <<lifeVars, dataVars, putters, ppc, call>>
  BY DEF GetRaise
<1> HIDE DEF w, now, handOn
<1>6. Members(w) \subseteq Getters
  BY <1>2 DEF Members
<1>7. /\ \A h \in Members(w) : now[h] \in {"waiting", "cancelled"}
      /\ \A h \in Getters : now[h] = "waiting" => h \in Members(w)
  BY <1>2, <1>4, <1>6 DEF TypeInv, GettersQueued
<1>8. getters' \in Seq(Getters) /\ gpc' \in [Getters -> TaskStates] /\ GettersQueued'
  <2>1. CASE ~handOn
    <3>1. getters' = w /\ gpc' = now
      BY <2>1, <1>5
    <3> QED BY <3>1, <1>2, <1>3, <1>7 DEF GettersQueued
  <2>2. CASE handOn
    <3>1. getters' = WaitersLeft(w, now) /\ gpc' = Awakened(w, now)
      BY <2>2, <1>5
    <3>2. /\ WaitersLeft(w, now) \in Seq(Getters)
          /\ Distinct(WaitersLeft(w, now))
          /\ Members(WaitersLeft(w, now)) \subseteq Members(w)
          /\ Awakened(w, now) \in [Getters -> TaskStates]
      BY <1>2, <1>3, WakeupEffect
    <3>3. \A t \in Members(w) :
             now[t] = "waiting" => \/ Awakened(w, now)[t] = "woken"
                                   \/ t \in Members(WaitersLeft(w, now))
      BY <1>2, <1>3, WakeupEffect
    <3>4. \A t \in Getters :
             \/ Awakened(w, now)[t] = now[t]
             \/ /\ t \notin Members(WaitersLeft(w, now))
                /\ Awakened(w, now)[t] = "woken"
      BY <1>2, <1>3, WakeupEffect
    <3> QED BY <3>1, <3>2, <3>3, <3>4, <1>6, <1>7 DEF GettersQueued
  <2> QED BY <2>1, <2>2, <1>5
<1>9. Shape'
  BY <1>5, <1>8 DEF TypeInv, Shape, lifeVars, dataVars
<1>10. CallsMatch' /\ PuttersQueued'
  BY <1>5 DEF TypeInv, CallsMatch, PuttersQueued, lifeVars
<1> QED BY <1>8, <1>9, <1>10 DEF TypeInv

\* Every step keeps the type invariant.
LEMMA TypeStep == Inv /\ [Next]_vars => TypeInv'
<1> SUFFICES ASSUME Inv, [Next]_vars PROVE TypeInv'
  OBVIOUS
<1>0. TypeInv /\ Shape /\ CallsMatch /\ PuttersQueued /\ GettersQueued
  BY DEF Inv, TypeInv
<1>1. ASSUME NEW c \in Channels, CreateChannel(c) PROVE TypeInv'
  <2>1. Shape'
    BY <1>0, <1>1 DEF CreateChannel, dataVars, Shape
  <2>2. CallsMatch'
    BY <1>0, <1>1 DEF CreateChannel, CallsMatch
  <2>3. PuttersQueued' /\ GettersQueued'
    BY <1>0, <1>1 DEF CreateChannel, PuttersQueued, GettersQueued
  <2> QED BY <2>1, <2>2, <2>3 DEF TypeInv
<1>2. ASSUME NEW c \in Channels, DeleteChannel(c) PROVE TypeInv'
  <2>1. Shape'
    BY <1>0, <1>2 DEF DeleteChannel, dataVars, Shape
  <2>2. CallsMatch'
    BY <1>0, <1>2 DEF DeleteChannel, CallsMatch
  <2>3. PuttersQueued' /\ GettersQueued'
    BY <1>0, <1>2 DEF DeleteChannel, PuttersQueued, GettersQueued
  <2> QED BY <2>1, <2>2, <2>3 DEF TypeInv
<1>3. ASSUME NEW c \in Channels, NEW size \in Sizes,
             PutNowait(c, size) \/ PutNowaitForce(c, size)
      PROVE  TypeInv'
  <2>1. Enqueue(c, size) /\ UNCHANGED <<putters, ppc, call>>
    BY <1>3 DEF PutNowait, PutNowaitForce
  <2>2. Shape' /\ GettersQueued'
    BY <1>0, <2>1, EnqueueType DEF Shape, lifeVars
  <2>3. CallsMatch' /\ PuttersQueued'
    BY <1>0, <2>1 DEF Enqueue, lifeVars, CallsMatch, PuttersQueued
  <2> QED BY <2>2, <2>3 DEF TypeInv
<1>4. ASSUME NEW p \in Putters, NEW c \in Channels, NEW size \in Sizes, Put(p, c, size)
      PROVE  TypeInv'
  <2>1. c \in created
    BY <1>0, <1>4 DEF Put, Shape
  <2> QED BY <1>0, <1>4, <2>1, PutOrWaitType DEF Put
<1>5. ASSUME NEW p \in Putters, PutResume(p) PROVE TypeInv'
  <2>1. call[p] \in created \X Sizes
    BY <1>0, <1>5 DEF PutResume, CallsMatch, Suspended
  <2>2. call[p][1] \in created /\ call[p][2] \in Sizes
    BY <2>1
  <2> QED BY <1>0, <1>5, <2>2, PutOrWaitType DEF PutResume
<1>6. ASSUME NEW p \in Putters, PutCancel(p) PROVE TypeInv'
  <2>1. \E v \in {"cancelled", "lostRace"} :
           /\ ppc' = [ppc EXCEPT ![p] = v]
           /\ ppc[p] = "waiting" => v = "cancelled"
    BY <1>6 DEF PutCancel
  <2>2. PICK v \in {"cancelled", "lostRace"} :
           /\ ppc' = [ppc EXCEPT ![p] = v]
           /\ ppc[p] = "waiting" => v = "cancelled"
    BY <2>1
  <2>3. /\ ppc[p] \in {"waiting", "woken"}
        /\ UNCHANGED <<lifeVars, dataVars, putters, getters, call, gpc>>
    BY <1>6 DEF PutCancel
  <2>4. ppc' \in [Putters -> TaskStates]
    BY <1>0, <2>2 DEF Shape, TaskStates, Suspended
  <2>5. \A q \in Putters : ppc'[q] = IF q = p THEN v ELSE ppc[q]
    BY <1>0, <2>2 DEF Shape
  <2>6. Shape'
    BY <1>0, <2>3, <2>4 DEF Shape, lifeVars, dataVars
  <2>7. CallsMatch'
    BY <1>0, <2>3, <2>5 DEF CallsMatch, Suspended, lifeVars
  <2>8. \A c \in Channels : Members(putters[c]) \subseteq Putters
    BY <1>0 DEF Shape, Members
  <2>9. Queued(putters, ppc', call)
    BY <1>0, <2>2, <2>3, <2>5, <2>8 DEF PuttersQueued, Queued
  <2>10. PuttersQueued' /\ GettersQueued'
    BY <1>0, <2>3, <2>9 DEF PuttersQueued, GettersQueued
  <2> QED BY <2>6, <2>7, <2>10 DEF TypeInv
<1>7. ASSUME NEW p \in Putters, PutRaise(p) PROVE TypeInv'
  BY <1>0, <1>7, PutRaiseType
<1>8. ASSUME NEW g \in Getters, gpc[g] \in {"idle", "woken"}, GetOrWait(g)
      PROVE  TypeInv'
  <2>1. CASE GetNowait(g)
    BY <1>8, <2>1, GetNowaitType
  <2>2. CASE /\ getters' = Append(getters, g)
             /\ gpc' = [gpc EXCEPT ![g] = "waiting"]
             /\ UNCHANGED <<lifeVars, dataVars, putters, ppc, call>>
    <3>1. getters \in Seq(Getters) /\ Distinct(getters) /\ g \notin Members(getters)
      BY <1>0, <1>8 DEF Shape, GettersQueued
    <3>2. /\ getters' \in Seq(Getters) /\ Distinct(getters')
          /\ Members(getters') = Members(getters) \cup {g}
      BY <2>2, <3>1, AppendEffect
    <3>3. gpc' \in [Getters -> TaskStates]
      BY <1>0, <2>2 DEF Shape, TaskStates, Suspended
    <3>4. \A h \in Getters : gpc'[h] = IF h = g THEN "waiting" ELSE gpc[h]
      BY <1>0, <2>2 DEF Shape
    <3>5. Members(getters) \subseteq Getters
      BY <3>1 DEF Members
    <3>6. GettersQueued'
      BY <1>0, <3>1, <3>2, <3>4, <3>5 DEF GettersQueued
    <3>7. Shape'
      BY <1>0, <2>2, <3>2, <3>3 DEF Shape, lifeVars, dataVars
    <3>8. CallsMatch' /\ PuttersQueued'
      BY <1>0, <2>2 DEF CallsMatch, PuttersQueued, lifeVars
    <3> QED BY <3>6, <3>7, <3>8 DEF TypeInv
  <2> QED BY <1>8, <2>1, <2>2 DEF GetOrWait
<1>9. ASSUME NEW g \in Getters, GetCancel(g) PROVE TypeInv'
  <2>1. \E v \in {"cancelled", "lostRace"} :
           /\ gpc' = [gpc EXCEPT ![g] = v]
           /\ gpc[g] = "waiting" => v = "cancelled"
    BY <1>9 DEF GetCancel
  <2>2. PICK v \in {"cancelled", "lostRace"} :
           /\ gpc' = [gpc EXCEPT ![g] = v]
           /\ gpc[g] = "waiting" => v = "cancelled"
    BY <2>1
  <2>3. /\ gpc[g] \in {"waiting", "woken"}
        /\ UNCHANGED <<lifeVars, dataVars, putters, getters, ppc, call>>
    BY <1>9 DEF GetCancel
  <2>4. gpc' \in [Getters -> TaskStates]
    BY <1>0, <2>2 DEF Shape, TaskStates, Suspended
  <2>5. \A h \in Getters : gpc'[h] = IF h = g THEN v ELSE gpc[h]
    BY <1>0, <2>2 DEF Shape
  <2>6. Shape'
    BY <1>0, <2>3, <2>4 DEF Shape, lifeVars, dataVars
  <2>7. CallsMatch' /\ PuttersQueued'
    BY <1>0, <2>3 DEF CallsMatch, PuttersQueued, lifeVars
  <2>8. Members(getters) \subseteq Getters
    BY <1>0 DEF Shape, Members
  <2>9. GettersQueued'
    BY <1>0, <2>2, <2>3, <2>5, <2>8 DEF GettersQueued
  <2> QED BY <2>6, <2>7, <2>9 DEF TypeInv
<1>10. ASSUME NEW g \in Getters, GetRaise(g) PROVE TypeInv'
  BY <1>0, <1>10, GetRaiseType
<1>11. CASE UNCHANGED vars
  BY <1>0, <1>11 DEF vars, lifeVars, dataVars, TypeInv, Shape, CallsMatch,
                     PuttersQueued, GettersQueued
<1>12. CASE Next
  BY <1>1, <1>2, <1>3, <1>4, <1>5, <1>6, <1>7, <1>8, <1>9, <1>10, <1>12
     DEF Next, ChannelStep, PutterStep, GetterStep, Get, GetResume
<1> QED BY <1>11, <1>12

\* Every step keeps _order and the deques in agreement.
LEMMA OrderStep == Inv /\ [Next]_vars => OrderMatchesQueues' /\ FreshIsEmpty'
<1> SUFFICES ASSUME Inv, [Next]_vars PROVE OrderMatchesQueues' /\ FreshIsEmpty'
  OBVIOUS
<1>0. TypeInv /\ Shape /\ OrderMatchesQueues /\ FreshIsEmpty
  BY DEF Inv, TypeInv
<1>1. CASE UNCHANGED <<dataVars, lifeVars>>
  BY <1>0, <1>1 DEF dataVars, lifeVars, OrderMatchesQueues, FreshIsEmpty
<1>2. ASSUME NEW c \in Channels, UNCHANGED dataVars, CreateChannel(c)
      PROVE  OrderMatchesQueues' /\ FreshIsEmpty'
  <2>1. /\ queue' = queue /\ order' = order
        /\ c \notin created /\ created' = created \cup {c}
        /\ channels' = channels \cup {c} /\ pending_close' = pending_close
    BY <1>2 DEF dataVars, CreateChannel
  <2>2. queue[c] = <<>> /\ c \notin Members(order) /\ pending_close[c] = FALSE
    BY <1>0, <2>1 DEF FreshIsEmpty
  <2> QED BY <1>0, <2>1, <2>2 DEF OrderMatchesQueues, FreshIsEmpty
<1>3. ASSUME NEW c \in Channels, UNCHANGED dataVars, DeleteChannel(c)
      PROVE  OrderMatchesQueues' /\ FreshIsEmpty'
  <2>1. /\ queue' = queue /\ order' = order /\ created' = created
        /\ c \in channels
        /\ \/ /\ queue[c] # <<>> /\ channels' = channels
              /\ pending_close' = [pending_close EXCEPT ![c] = TRUE]
           \/ channels' = channels \ {c} /\ pending_close' = pending_close
    BY <1>3 DEF dataVars, DeleteChannel
  <2> QED BY <1>0, <2>1 DEF OrderMatchesQueues, FreshIsEmpty, Shape
<1>4. CASE Next
  BY <1>0, <1>1, <1>2, <1>3, <1>4, StepShapes, EnqueueOrder, GetOrder
<1>5. CASE UNCHANGED vars
  BY <1>1, <1>5 DEF vars
<1> QED BY <1>4, <1>5

\* The inductive invariant holds: types, futures against tasks, _order against
\* the deques (queue.py:127-279).
THEOREM InvHolds == Spec => []Inv
<1>1. Inv /\ [Next]_vars => Inv'
  BY TypeStep, OrderStep DEF Inv
<1> QED BY <1>1, InvInit, PTL DEF Spec

\* get_nowait() always pops from a channel that has a message: _order lists
\* exactly the registered channels with something queued (queue.py:221, 261-270).
THEOREM OrderCorrect == Spec => []OrderMatchesQueues
<1>1. Inv => OrderMatchesQueues
  BY DEF Inv
<1> QED BY <1>1, InvHolds, PTL

\* delete_channel() never drops a queued message (queue.py:138-144, 271-274).
THEOREM DeleteDrainsHolds == Spec => DeleteDrains
<1>1. ASSUME Inv, [Next]_vars, NEW c \in Channels, c \in channels \ channels'
      PROVE  queue'[c] = <<>>
  <2>0. TypeInv /\ Shape /\ channels # channels'
    BY <1>1 DEF Inv, TypeInv
  <2>1. Next
    BY <1>1, <2>0 DEF vars, lifeVars
  <2>2. ASSUME NEW d \in Channels, DeleteChannel(d) PROVE queue'[c] = <<>>
    BY <1>1, <2>2 DEF DeleteChannel, dataVars
  <2>3. ASSUME NEW d \in Channels, CreateChannel(d) PROVE FALSE
    BY <1>1, <2>3 DEF CreateChannel
  <2>4. ASSUME NEW g \in Getters, GetNowait(g) PROVE queue'[c] = <<>>
    <3>1. Head(order) = c
      BY <1>1, <2>4 DEF GetNowait, lifeVars
    <3>2. queue' = [queue EXCEPT ![c] = Tail(queue[c])] /\ Tail(queue[c]) = <<>>
      BY <1>1, <2>4, <3>1 DEF GetNowait, lifeVars
    <3> QED BY <2>0, <3>2 DEF Shape
  <2>5. ASSUME NEW d \in created, NEW size \in Sizes, Enqueue(d, size) PROVE FALSE
    BY <2>0, <2>5 DEF Enqueue, lifeVars
  <2> QED BY <2>0, <2>1, <2>2, <2>3, <2>4, <2>5, StepShapes DEF lifeVars
<1>2. Inv /\ [Next]_vars
         => [\A c \in Channels : c \in channels \ channels' => queue'[c] = <<>>]_vars
  BY <1>1
<1> QED BY <1>2, InvHolds, PTL DEF Spec, DeleteDrains

-----------------------------------------------------------------------------
(***************************************************************************)
(* Byte accounting without a recursive sum: total_bytes is the last of the *)
(* running totals of the deque.                                            *)
(***************************************************************************)

RunningTotals(q, sums) ==
    /\ sums \in [0 .. Len(q) -> Int]
    /\ sums[0] = 0
    /\ \A i \in 1 .. Len(q) : sums[i] = sums[i - 1] + q[i]

AddsUpTo(q, n) == \E sums : RunningTotals(q, sums) /\ sums[Len(q)] = n

\* An empty deque adds up to 0 and to nothing else.
LEMMA AddsUpEmpty ==
    /\ AddsUpTo(<<>>, 0)
    /\ \A n : AddsUpTo(<<>>, n) => n = 0
<1>1. RunningTotals(<<>>, [i \in 0 .. 0 |-> 0]) /\ [i \in 0 .. 0 |-> 0][Len(<<>>)] = 0
  BY DEF RunningTotals
<1>2. AddsUpTo(<<>>, 0)
  BY <1>1 DEF AddsUpTo
<1>3. \A n : AddsUpTo(<<>>, n) => n = 0
  BY DEF AddsUpTo, RunningTotals
<1> QED BY <1>2, <1>3

\* append() adds the size of the message (queue.py:219-220).
LEMMA AddsUpAppend ==
    ASSUME NEW q \in Seq(Sizes), NEW size \in Sizes, NEW n, AddsUpTo(q, n)
    PROVE  AddsUpTo(Append(q, size), n + size)
<1>1. PICK sums : RunningTotals(q, sums) /\ sums[Len(q)] = n
  BY DEF AddsUpTo
<1>2. Len(q) \in Nat /\ size \in Int /\ Len(Append(q, size)) = Len(q) + 1
  BY SizesAssumption, MarksAssumption
<1> DEFINE more == [i \in 0 .. Len(q) + 1 |-> IF i <= Len(q) THEN sums[i] ELSE n + size]
<1>3. n \in Int
  BY <1>1, <1>2 DEF RunningTotals
<1>4. more \in [0 .. Len(q) + 1 -> Int] /\ more[0] = 0 /\ more[Len(q) + 1] = n + size
  BY <1>1, <1>2, <1>3 DEF RunningTotals
<1>5. ASSUME NEW i \in 1 .. Len(q) + 1
      PROVE  more[i] = more[i - 1] + Append(q, size)[i]
  <2>1. CASE i <= Len(q)
    BY <2>1, <1>1, <1>2 DEF RunningTotals
  <2>2. CASE i = Len(q) + 1
    BY <2>2, <1>1, <1>2 DEF RunningTotals
  <2> QED BY <2>1, <2>2, <1>2
<1> HIDE DEF more
<1>6. RunningTotals(Append(q, size), more)
  BY <1>2, <1>4, <1>5 DEF RunningTotals
<1> QED BY <1>2, <1>4, <1>6 DEF AddsUpTo

\* popleft() takes the size of the first message off (queue.py:265-266).
LEMMA AddsUpTail ==
    ASSUME NEW q \in Seq(Sizes), q # <<>>, NEW n, AddsUpTo(q, n)
    PROVE  AddsUpTo(Tail(q), n - Head(q))
<1>1. PICK sums : RunningTotals(q, sums) /\ sums[Len(q)] = n
  BY DEF AddsUpTo
<1>2. /\ Len(q) \in Nat \ {0} /\ Head(q) = q[1] /\ q[1] \in Int
      /\ Len(Tail(q)) = Len(q) - 1
      /\ \A i \in 1 .. Len(q) - 1 : Tail(q)[i] = q[i + 1]
      /\ \A i \in 1 .. Len(q) : q[i] \in Int
  <2>1. Sizes \subseteq Int
    BY SizesAssumption, MarksAssumption
  <2>2. /\ Len(q) \in Nat \ {0} /\ Head(q) = q[1]
        /\ Len(Tail(q)) = Len(q) - 1
        /\ \A i \in 1 .. Len(q) - 1 : Tail(q)[i] = q[i + 1]
        /\ \A i \in 1 .. Len(q) : q[i] \in Sizes
    OBVIOUS
  <2>3. 1 \in 1 .. Len(q)
    BY <2>2
  <2>4. q[1] \in Sizes
    BY <2>2, <2>3
  <2>5. \A i \in 1 .. Len(q) : q[i] \in Int
    BY <2>1, <2>2
  <2> QED BY <2>1, <2>2, <2>4, <2>5
<1> DEFINE less == [i \in 0 .. Len(q) - 1 |-> sums[i + 1] - q[1]]
<1>3. \A i \in 0 .. Len(q) : sums[i] \in Int
  BY <1>1 DEF RunningTotals
<1>4. less \in [0 .. Len(q) - 1 -> Int]
  BY <1>2, <1>3
<1>5. less[0] = 0
  BY <1>1, <1>2, <1>3 DEF RunningTotals
<1>6. less[Len(q) - 1] = n - Head(q)
  BY <1>1, <1>2
<1>7. ASSUME NEW i \in 1 .. Len(q) - 1
      PROVE  less[i] = less[i - 1] + Tail(q)[i]
  <2>1. sums[i + 1] = sums[i] + q[i + 1]
    BY <1>1, <1>2 DEF RunningTotals
  <2>2. less[i] = sums[i + 1] - q[1] /\ less[i - 1] = sums[i] - q[1]
    BY <1>2
  <2>3. sums[i] \in Int /\ sums[i + 1] \in Int /\ q[i + 1] \in Int
    BY <1>2, <1>3
  <2> QED BY <2>1, <2>2, <2>3, <1>2
<1> HIDE DEF less
<1>8. RunningTotals(Tail(q), less)
  BY <1>2, <1>4, <1>5, <1>7 DEF RunningTotals
<1> QED BY <1>2, <1>6, <1>8 DEF AddsUpTo

-----------------------------------------------------------------------------
(***************************************************************************)
(* Water marks, the size limit and the wakeups of put()                    *)
(***************************************************************************)

Accounted == \A c \in Channels : AddsUpTo(queue[c], total_bytes[c])

\* total_bytes is what is queued, of every channel object (queue.py:219-220, 265-266).
THEOREM AccountedHolds == Spec => []Accounted
<1>1. Init => Accounted
  BY AddsUpEmpty DEF Init, Accounted
<1>2. Inv /\ Accounted /\ [Next]_vars => Accounted'
  <2> SUFFICES ASSUME Inv, Accounted, [Next]_vars PROVE Accounted'
    OBVIOUS
  <2>0. TypeInv /\ Shape
    BY DEF Inv, TypeInv
  <2>1. CASE UNCHANGED dataVars
    BY <2>1 DEF dataVars, Accounted
  <2>2. ASSUME NEW c \in created, NEW size \in Sizes, Enqueue(c, size)
        PROVE  Accounted'
    <3>1. c \in Channels /\ queue[c] \in Seq(Sizes)
      BY <2>0 DEF Shape
    <3>2. AddsUpTo(Append(queue[c], size), total_bytes[c] + size)
      BY <3>1, AddsUpAppend DEF Accounted
    <3>3. \A d \in Channels :
             /\ queue'[d] = IF d = c THEN Append(queue[c], size) ELSE queue[d]
             /\ total_bytes'[d] = IF d = c THEN total_bytes[c] + size ELSE total_bytes[d]
      BY <2>0, <2>2, <3>1 DEF Enqueue, Shape
    <3> QED BY <3>2, <3>3 DEF Accounted
  <2>3. ASSUME NEW g \in Getters, GetNowait(g)
        PROVE  Accounted'
    <3> DEFINE c == Head(order)
    <3>1. c \in Channels /\ (c \in channels => queue[c] # <<>>)
      BY <2>3, GetOrder
    <3>2. CASE c \notin channels
      BY <2>3, <3>2 DEF GetNowait, Accounted
    <3>3. CASE c \in channels
      <4>1. /\ queue' = [queue EXCEPT ![c] = Tail(queue[c])]
            /\ total_bytes' = [total_bytes EXCEPT ![c] = total_bytes[c] - Head(queue[c])]
        BY <2>3, <3>3 DEF GetNowait
      <4> HIDE DEF c
      <4>2. queue[c] \in Seq(Sizes)
        BY <2>0, <3>1 DEF Shape
      <4>3. AddsUpTo(Tail(queue[c]), total_bytes[c] - Head(queue[c]))
        BY <3>1, <3>3, <4>2, AddsUpTail DEF Accounted
      <4>4. \A d \in Channels :
               /\ queue'[d] = IF d = c THEN Tail(queue[c]) ELSE queue[d]
               /\ total_bytes'[d] = IF d = c THEN total_bytes[c] - Head(queue[c])
                                             ELSE total_bytes[d]
        BY <2>0, <3>1, <4>1 DEF Shape
      <4> QED BY <4>3, <4>4 DEF Accounted
    <3> QED BY <3>2, <3>3
  <2>4. CASE UNCHANGED vars
    BY <2>1, <2>4 DEF vars
  <2> QED BY <2>0, <2>1, <2>2, <2>3, <2>4, StepShapes
<1> QED BY <1>1, <1>2, InvHolds, PTL DEF Spec

\* What is queued never adds up to less than nothing.
LEMMA AddsUpNat ==
    ASSUME NEW q \in Seq(Sizes), NEW n, AddsUpTo(q, n)
    PROVE  n \in Nat
<1>1. PICK sums : RunningTotals(q, sums) /\ sums[Len(q)] = n
  BY DEF AddsUpTo
<1>2. PICK l \in Nat : l = Len(q)
  OBVIOUS
<1>3. \A i \in 1 .. l : q[i] \in Nat
  <2>1. \A i \in 1 .. l : q[i] \in Sizes
    BY <1>2
  <2>2. Sizes \subseteq Nat
    BY SizesAssumption, MarksAssumption
  <2> QED BY <2>1, <2>2
<1>4. /\ \A i \in 0 .. l : sums[i] \in Int
      /\ sums[0] = 0 /\ sums[l] = n
      /\ \A i \in 1 .. l : sums[i] = sums[i - 1] + q[i]
  BY <1>1, <1>2 DEF RunningTotals
<1> DEFINE Negative == {i \in 0 .. l : sums[i] < 0}
<1>5. CASE Negative = {}
  BY <1>4, <1>5
<1>6. CASE Negative # {}
  <2>0. Negative \subseteq Nat
    OBVIOUS
  <2>1. PICK i \in Negative : \A j \in Negative : i <= j
    <3> HIDE DEF Negative
    <3> QED BY <1>6, <2>0, LeastExists
  <2>2. i \in 1 .. l /\ i - 1 \in 0 .. l
    BY <1>4, <2>1
  <2>3. i - 1 \notin Negative
    BY <2>1, <2>2
  <2>4. sums[i - 1] >= 0 /\ sums[i - 1] \in Int /\ q[i] \in Nat /\ sums[i] < 0
    BY <1>3, <1>4, <2>1, <2>2, <2>3
  <2>5. sums[i] = sums[i - 1] + q[i]
    BY <1>4, <2>2
  <2> QED BY <2>4, <2>5
<1> QED BY <1>5, <1>6

\* Type correctness of the queue, for all its parameters; no get() takes more
\* off total_bytes than puts have added (queue.py:219-220, 265-266).
THEOREM TypeCorrect == Spec => []TypeOK
<1>1. Inv /\ Accounted => TypeOK
  <2> SUFFICES ASSUME Inv, Accounted PROVE TypeOK
    OBVIOUS
  <2>1. Shape
    BY DEF Inv, TypeInv
  <2>2. \A c \in Channels : total_bytes[c] \in Nat
    BY <2>1, AddsUpNat DEF Shape, Accounted
  <2> QED BY <2>1, <2>2 DEF Shape, TypeOK
<1> QED BY <1>1, InvHolds, AccountedHolds, PTL

\* The under-water flag agrees with the marks (queue.py:222-227, 274-276).
THEOREM WaterMarksHold == Spec => []WaterMarks
<1>1. Init => WaterMarks
  BY MarksAssumption DEF Init, WaterMarks
<1>2. Inv /\ WaterMarks /\ [Next]_vars => WaterMarks'
  <2> SUFFICES ASSUME Inv, WaterMarks, [Next]_vars PROVE WaterMarks'
    OBVIOUS
  <2>0. /\ TypeInv /\ Shape
        /\ \A c \in Channels : total_bytes[c] \in Int /\ under_water[c] \in BOOLEAN
    BY DEF Inv, TypeInv, Shape
  <2>1. CASE UNCHANGED dataVars
    BY <2>1 DEF dataVars, WaterMarks
  <2>2. ASSUME NEW c \in created, NEW size \in Sizes, Enqueue(c, size)
        PROVE  WaterMarks'
    <3>1. c \in Channels /\ size \in Nat
      BY <2>0, SizesAssumption, MarksAssumption DEF Shape
    <3>2. \A d \in Channels :
             total_bytes'[d] = IF d = c THEN total_bytes[c] + size ELSE total_bytes[d]
      BY <2>0, <2>2 DEF Enqueue, Shape
    <3>3. /\ \A d \in Channels : d # c => under_water'[d] = under_water[d]
          /\ under_water'[c] = (under_water[c]
                \/ total_bytes[c] + size >= channel_high_water_mark)
      BY <2>0, <2>2, <3>1, Zenon DEF Enqueue, Shape
    <3>4. ASSUME NEW d \in Channels
          PROVE  IF under_water'[d] THEN total_bytes'[d] > channel_low_water_mark
                                    ELSE total_bytes'[d] < channel_high_water_mark
      <4>1. CASE d # c
        BY <4>1, <3>2, <3>3 DEF WaterMarks
      <4>2. CASE d = c /\ under_water[c]
        <5>1. under_water'[d] /\ total_bytes[c] > channel_low_water_mark
          BY <4>2, <3>1, <3>3 DEF WaterMarks
        <5>2. total_bytes'[d] > channel_low_water_mark
          BY <4>2, <5>1, <3>1, <3>2, <2>0, MarksAssumption
        <5> QED BY <5>1, <5>2
      <4>3. CASE d = c /\ ~under_water[c] /\ total_bytes[c] + size >= channel_high_water_mark
        <5>1. under_water'[d]
          BY <4>3, <3>3
        <5>2. total_bytes'[d] > channel_low_water_mark
          BY <4>3, <3>1, <3>2, <2>0, MarksAssumption
        <5> QED BY <5>1, <5>2
      <4>4. CASE d = c /\ ~under_water[c] /\ ~(total_bytes[c] + size >= channel_high_water_mark)
        <5>1. ~under_water'[d]
          BY <4>4, <3>3
        <5>2. total_bytes'[d] < channel_high_water_mark
          BY <4>4, <3>1, <3>2, <2>0, MarksAssumption
        <5> QED BY <5>1, <5>2
      <4> QED BY <4>1, <4>2, <4>3, <4>4
    <3> QED BY <3>4 DEF WaterMarks
  <2>3. ASSUME NEW g \in Getters, GetNowait(g)
        PROVE  WaterMarks'
    <3> DEFINE c == Head(order)
    <3>1. c \in Channels /\ (c \in channels => queue[c] # <<>>)
      BY <2>3, GetOrder
    <3>2. CASE c \notin channels
      BY <2>3, <3>2 DEF GetNowait, WaterMarks
    <3>3. CASE c \in channels
      <4>1. /\ total_bytes' = [total_bytes EXCEPT ![c] = total_bytes[c] - Head(queue[c])]
            /\ under_water' = [under_water EXCEPT
                  ![c] = @ /\ total_bytes[c] - Head(queue[c]) > channel_low_water_mark]
        BY <2>3, <3>3 DEF GetNowait
      <4> HIDE DEF c
      <4>2. Head(queue[c]) \in Nat
        <5>1. queue[c] \in Seq(Sizes) /\ queue[c] # <<>>
          BY <2>0, <3>1, <3>3 DEF Shape
        <5>2. Head(queue[c]) \in Sizes
          BY <5>1
        <5>3. Sizes \subseteq Nat
          BY SizesAssumption, MarksAssumption
        <5> QED BY <5>2, <5>3
      <4>3. \A d \in Channels :
               total_bytes'[d] = IF d = c THEN total_bytes[c] - Head(queue[c])
                                          ELSE total_bytes[d]
        BY <2>0, <3>1, <4>1 DEF Shape
      <4>4. /\ \A d \in Channels : d # c => under_water'[d] = under_water[d]
            /\ under_water'[c] = (under_water[c]
                  /\ total_bytes[c] - Head(queue[c]) > channel_low_water_mark)
        BY <2>0, <3>1, <4>1, Zenon DEF Shape
      <4> DEFINE left == total_bytes[c] - Head(queue[c])
      <4>5. left \in Int /\ left <= total_bytes[c]
        BY <2>0, <3>1, <4>2
      <4>6. ASSUME NEW d \in Channels
            PROVE  IF under_water'[d] THEN total_bytes'[d] > channel_low_water_mark
                                      ELSE total_bytes'[d] < channel_high_water_mark
        <5>1. CASE d # c
          BY <5>1, <4>3, <4>4 DEF WaterMarks
        <5>2. CASE d = c /\ under_water[c] /\ left > channel_low_water_mark
          BY <5>2, <4>3, <4>4
        <5>3. CASE d = c /\ under_water[c] /\ ~(left > channel_low_water_mark)
          <6>1. ~under_water'[d] /\ total_bytes'[d] = left
            BY <5>3, <4>3, <4>4
          <6>2. left < channel_high_water_mark
            BY <5>3, <4>5, MarksAssumption
          <6> QED BY <6>1, <6>2
        <5>4. CASE d = c /\ ~under_water[c]
          <6>1. ~under_water'[d] /\ total_bytes'[d] = left
            BY <5>4, <4>3, <4>4
          <6>2. total_bytes[c] < channel_high_water_mark
            BY <5>4, <3>1 DEF WaterMarks
          <6>3. left < channel_high_water_mark
            BY <6>2, <4>5, <3>1, <2>0, MarksAssumption
          <6> QED BY <6>1, <6>3
        <5> QED BY <5>1, <5>2, <5>3, <5>4
      <4> QED BY <4>6 DEF WaterMarks
    <3> QED BY <3>2, <3>3
  <2>4. CASE UNCHANGED vars
    BY <2>1, <2>4 DEF vars
  <2> QED BY <2>0, <2>1, <2>2, <2>3, <2>4, StepShapes
<1> QED BY <1>1, <1>2, InvHolds, PTL DEF Spec

\* A channel with bytes has a message; in particular put() only waits on a
\* channel whose next get() will wake it (queue.py:166, 194).
LEMMA BusyIsNotEmpty ==
    ASSUME Shape, Accounted, NEW c \in Channels,
           \/ Full(c)
           \/ \E size \in Sizes : ~Fits(c, size)
    PROVE  queue[c] # <<>>
<1>1. total_bytes[c] \in Int
  BY DEF Shape
<1>2. total_bytes[c] # 0
  <2>1. \A size \in Sizes : size \in Nat /\ size <= channel_size_limit
    BY SizesAssumption, MarksAssumption
  <2> QED BY <1>1, <2>1, MarksAssumption DEF Full, Fits
<1> QED BY <1>2, AddsUpEmpty DEF Accounted

\* What NoLostPutterWakeup says of one channel.
Served(c) == WaitingOn(c) # {} => queue[c] # <<>> \/ WokenOn(c) # {}

\* A step that leaves the deque of c and its writers alone keeps it served.
LEMMA ServedFrame ==
    ASSUME NEW c, Served(c), queue'[c] = queue[c],
           \A q \in Putters : /\ q \in WaitingOn(c)' => q \in WaitingOn(c)
                              /\ q \in WokenOn(c) => q \in WokenOn(c)'
    PROVE  Served(c)'
BY DEF Served, WaitingOn, WokenOn

\* put(), from its start or after a wakeup, serves the other writers.
LEMMA PutOrWaitServes ==
    ASSUME TypeInv, Accounted, NEW p \in Putters, NEW d \in Channels, NEW size \in Sizes,
           ppc[p] = "idle" \/ (ppc[p] = "woken" /\ call[p][1] = d),
           PutOrWait(p, d, size), NEW c \in Channels, Served(c)
    PROVE  Served(c)'
<1>1. /\ Shape /\ queue \in [Channels -> Seq(Sizes)]
      /\ ppc \in [Putters -> TaskStates]
      /\ call \in [Putters -> (Channels \X Sizes) \cup {NoCall}]
  BY DEF TypeInv, Shape
<1>2. PICK v \in {"idle", "waiting"}, a \in {NoCall, <<d, size>>} :
         /\ v = "waiting" => a = <<d, size>>
         /\ ppc' = [ppc EXCEPT ![p] = v]
         /\ call' = [call EXCEPT ![p] = a]
  BY DEF PutOrWait
<1>3. \A q \in Putters \ {p} : ppc'[q] = ppc[q] /\ call'[q] = call[q]
  BY <1>1, <1>2
<1>4. ppc'[p] = v /\ call'[p] = a
  BY <1>1, <1>2
<1>5. CASE c # d
  <2>1. queue'[c] = queue[c]
    BY <1>1, <1>5 DEF PutOrWait, Enqueue, dataVars
  <2>2. p \notin WaitingOn(c)' /\ p \notin WokenOn(c)
    BY <1>2, <1>4, <1>5 DEF WaitingOn, WokenOn
  <2>3. \A q \in Putters : /\ q \in WaitingOn(c)' => q \in WaitingOn(c)
                           /\ q \in WokenOn(c) => q \in WokenOn(c)'
    BY <2>2, <1>3 DEF WaitingOn, WokenOn
  <2> QED BY <2>1, <2>3, ServedFrame
<1>6. CASE c = d /\ Fits(d, size)
  <2>1. queue'[c] = Append(queue[c], size) /\ queue[c] \in Seq(Sizes)
    BY <1>1, <1>6 DEF PutOrWait, Enqueue
  <2>2. queue'[c] # <<>>
    BY <2>1, AppendNotEmpty
  <2> QED BY <2>2 DEF Served
<1>7. CASE c = d /\ ~Fits(d, size)
  <2>1. queue[c] # <<>>
    BY <1>1, <1>7, BusyIsNotEmpty
  <2>2. queue' = queue
    BY <1>7 DEF PutOrWait, dataVars
  <2> QED BY <2>1, <2>2 DEF Served
<1> QED BY <1>5, <1>6, <1>7

\* The clean-up of a cancelled put() serves the other writers.
LEMMA PutRaiseServes ==
    ASSUME TypeInv, Accounted, NEW p \in Putters, PutRaise(p),
           NEW c \in Channels, c \in channels, Served(c)
    PROVE  Served(c)'
<1> DEFINE d == call[p][1]
<1>1. /\ Shape
      /\ call \in [Putters -> (Channels \X Sizes) \cup {NoCall}]
  BY DEF TypeInv, Shape
<1>2. /\ call' = [call EXCEPT ![p] = NoCall]
      /\ ppc'[p] = "idle"
      /\ \A q \in Putters \ {p} :
            \/ ppc'[q] = ppc[q]
            \/ ppc[q] = "waiting" /\ ppc'[q] = "woken" /\ call[q][1] = d
      /\ ppc[p] = "lostRace" /\ ~Full(d)
            => \A q \in Putters \ {p} : ppc[q] = "waiting" /\ call[q][1] = d
                  => \E r \in Putters \ {p} : ppc'[r] = "woken" /\ call[r][1] = d
      /\ UNCHANGED <<lifeVars, dataVars, getters, gpc>>
  BY PutRaiseEffect
<1>3. \A q \in Putters \ {p} : call'[q] = call[q]
  BY <1>1, <1>2
<1>4. queue' = queue
  BY <1>2 DEF dataVars
<1>5. ppc[p] \in {"cancelled", "lostRace"}
  BY DEF PutRaise
<1>6. \A q \in Putters : q \in WaitingOn(c)' => q # p /\ q \in WaitingOn(c)
  BY <1>2, <1>3 DEF WaitingOn
<1> HIDE DEF d
<1>7. CASE c # d \/ ppc[p] = "cancelled"
  <2>1. p \notin WokenOn(c)
    BY <1>5, <1>7 DEF WokenOn, d
  <2>2. \A q \in Putters : q \in WokenOn(c) => q \in WokenOn(c)'
    BY <2>1, <1>2, <1>3 DEF WokenOn
  <2> QED BY <1>4, <1>6, <2>2, ServedFrame
<1>8. CASE c = d /\ ppc[p] = "lostRace" /\ Full(d)
  <2>1. queue[c] # <<>>
    BY <1>1, <1>8, BusyIsNotEmpty
  <2> QED BY <2>1, <1>4 DEF Served
<1>9. CASE c = d /\ ppc[p] = "lostRace" /\ ~Full(d)
  <2> SUFFICES ASSUME NEW q \in Putters, q \in WaitingOn(c)'
               PROVE  WokenOn(c)' # {}
    BY DEF Served, WaitingOn
  <2>1. q \in Putters \ {p} /\ ppc[q] = "waiting" /\ call[q][1] = d
    BY <1>6, <1>9 DEF WaitingOn
  <2>2. PICK r \in Putters \ {p} : ppc'[r] = "woken" /\ call[r][1] = d
    BY <1>2, <1>9, <2>1
  <2>3. r \in WokenOn(c)'
    BY <2>2, <1>3, <1>9 DEF WokenOn
  <2> QED BY <2>3
<1> QED BY <1>5, <1>7, <1>8, <1>9

\* get_nowait() serves the writers: of the channel it takes from one is woken.
LEMMA GetServes ==
    ASSUME Inv, NEW g \in Getters, GetNowait(g),
           NEW c \in Channels, c \in channels, Served(c)
    PROVE  Served(c)'
<1> DEFINE d == Head(order)
<1>1. d \in Channels /\ queue \in [Channels -> Seq(Sizes)]
  <2>1. Head(order) \in Channels
    BY GetOrder
  <2> QED BY <2>1 DEF Inv, TypeInv, Shape
<1>2. call' = call
  BY DEF GetNowait
<1>3. CASE d \notin channels
  <2>1. queue' = queue /\ ppc' = ppc
    BY <1>3 DEF GetNowait
  <2> QED BY <1>2, <2>1 DEF Served, WaitingOn, WokenOn
<1>4. CASE d \in channels
  <2>1. Woke(ppc, call, d, putters', ppc')
    BY <1>4, GetWakes
  <2>2. queue' = [queue EXCEPT ![d] = Tail(queue[d])]
    BY <1>4 DEF GetNowait
  <2> HIDE DEF d
  <2>3. \A q \in Putters :
           \/ ppc'[q] = ppc[q]
           \/ ppc[q] = "waiting" /\ ppc'[q] = "woken" /\ call[q][1] = d
    BY <2>1 DEF Woke
  <2>4. \A q \in Putters : /\ q \in WaitingOn(c)' => q \in WaitingOn(c)
                           /\ q \in WokenOn(c) => q \in WokenOn(c)'
    BY <1>2, <2>3 DEF WaitingOn, WokenOn
  <2>5. CASE c # d
    <3>1. queue'[c] = queue[c]
      BY <1>1, <2>2, <2>5
    <3> QED BY <3>1, <2>4, ServedFrame
  <2>6. CASE c = d
    <3> SUFFICES ASSUME NEW q \in Putters, q \in WaitingOn(c)'
                 PROVE  WokenOn(c)' # {}
      BY DEF Served, WaitingOn
    <3>1. ppc[q] = "waiting" /\ call[q][1] = d
      BY <2>4, <2>6 DEF WaitingOn
    <3>2. PICK r \in Putters : ppc'[r] = "woken" /\ call[r][1] = d
      BY <2>1, <3>1 DEF Woke
    <3>3. r \in WokenOn(c)'
      BY <1>2, <2>6, <3>2 DEF WokenOn
    <3> QED BY <3>3
  <2> QED BY <2>5, <2>6
<1> QED BY <1>3, <1>4

\* While a put() waits on a registered channel, a message is queued whose get()
\* will wake a writer, or a woken writer has still to run, for messages of any
\* sizes and however puts, gets, cancellations and deletions interleave
\* (queue.py:165-178, 277-278).
THEOREM NoLostPutterWakeupHolds == Spec => []NoLostPutterWakeup
<1>1. Init => NoLostPutterWakeup
  BY DEF Init, NoLostPutterWakeup, WaitingOn
<1>2. Inv /\ Accounted /\ NoLostPutterWakeup /\ [Next]_vars => NoLostPutterWakeup'
  <2> SUFFICES ASSUME Inv, Accounted, NoLostPutterWakeup, [Next]_vars,
                      NEW c \in channels'
               PROVE  Served(c)'
    BY DEF NoLostPutterWakeup, Served
  <2>0. /\ TypeInv /\ Shape /\ CallsMatch
        /\ channels \subseteq created /\ created \subseteq Channels
        /\ \A d \in channels : Served(d)
    BY DEF Inv, TypeInv, Shape, NoLostPutterWakeup, Served
  <2>a. CASE UNCHANGED <<queue, ppc, call>> /\ c \in channels
    BY <2>0, <2>a DEF Served, WaitingOn, WokenOn
  <2>b. ASSUME NEW d \in Channels, NEW size \in Sizes, Enqueue(d, size),
               UNCHANGED <<ppc, call>>
        PROVE  Served(c)'
    <3>1. /\ c \in channels /\ c \in Channels /\ queue[c] \in Seq(Sizes)
          /\ queue' = [queue EXCEPT ![d] = Append(queue[d], size)]
      BY <2>0, <2>b DEF Enqueue, lifeVars, Shape
    <3>2. CASE c = d
      <4>1. queue'[c] = Append(queue[c], size)
        BY <3>1, <3>2, <2>0 DEF Shape
      <4>2. queue'[c] # <<>>
        BY <3>1, <4>1, AppendNotEmpty
      <4> QED BY <4>2 DEF Served
    <3>3. CASE c # d
      <4>1. queue'[c] = queue[c]
        BY <3>1, <3>3, <2>0 DEF Shape
      <4> QED BY <4>1, <3>1, <2>0, <2>b DEF Served, WaitingOn, WokenOn
    <3> QED BY <3>2, <3>3
  <2>1. ASSUME NEW d \in Channels, ChannelStep(d) PROVE Served(c)'
    <3>1. CASE CreateChannel(d)
      <4>1. CASE c \in channels
        BY <2>a, <3>1, <4>1 DEF CreateChannel, dataVars
      <4>2. CASE c \notin channels
        <5>1. c = d /\ c \notin created /\ UNCHANGED <<queue, ppc, call>>
          BY <3>1, <4>2 DEF CreateChannel, dataVars
        <5>2. ASSUME NEW p \in Putters, ppc[p] = "waiting" PROVE call[p][1] # c
          <6>1. call[p] \in created \X Sizes
            BY <5>2, <2>0 DEF CallsMatch, Suspended
          <6> QED BY <6>1, <5>1
        <5> QED BY <5>1, <5>2 DEF Served, WaitingOn
      <4> QED BY <4>1, <4>2
    <3>2. CASE DeleteChannel(d)
      BY <2>a, <3>2 DEF DeleteChannel, dataVars
    <3>3. CASE \E size \in Sizes : PutNowait(d, size) \/ PutNowaitForce(d, size)
      BY <2>b, <3>3 DEF PutNowait, PutNowaitForce
    <3> QED BY <2>1, <3>1, <3>2, <3>3 DEF ChannelStep
  <2>2. ASSUME NEW p \in Putters, PutterStep(p) PROVE Served(c)'
    <3>0. c \in channels /\ c \in Channels /\ Served(c)
      BY <2>0, <2>2 DEF PutterStep, Put, PutResume, PutCancel, PutRaise, PutOrWait,
                        Enqueue, lifeVars
    <3>1. CASE \E d \in Channels, size \in Sizes : Put(p, d, size)
      BY <2>0, <3>0, <3>1, PutOrWaitServes DEF Put
    <3>2. CASE PutResume(p)
      <4>1. call[p] \in created \X Sizes
        BY <3>2, <2>0 DEF PutResume, CallsMatch, Suspended
      <4>2. call[p][1] \in Channels /\ call[p][2] \in Sizes
        BY <4>1, <2>0
      <4> QED BY <2>0, <3>0, <3>2, <4>2, PutOrWaitServes DEF PutResume
    <3>3. CASE PutCancel(p)
      <4>1. ppc \in [Putters -> TaskStates]
        BY <2>0 DEF Shape
      <4>2. queue' = queue /\ call' = call
        BY <3>3 DEF PutCancel, dataVars
      <4>3. \A q \in Putters : /\ q \in WaitingOn(c)' => q \in WaitingOn(c)
                               /\ q \in WokenOn(c) => q \in WokenOn(c)'
        BY <3>3, <4>1, <4>2 DEF PutCancel, WaitingOn, WokenOn
      <4> QED BY <3>0, <4>2, <4>3, ServedFrame
    <3>4. CASE PutRaise(p)
      BY <2>0, <3>0, <3>4, PutRaiseServes
    <3> QED BY <2>2, <3>1, <3>2, <3>3, <3>4 DEF PutterStep
  <2>3. ASSUME NEW g \in Getters, GetterStep(g) PROVE Served(c)'
    <3>1. CASE GetNowait(g)
      <4>1. c \in channels
        BY <3>1 DEF GetNowait, lifeVars
      <4> QED BY <2>0, <3>1, <4>1, GetServes
    <3>2. CASE ~GetNowait(g)
      BY <2>3, <2>a, <3>2 DEF GetterStep, Get, GetResume, GetCancel, GetRaise, GetOrWait,
                              dataVars, lifeVars
    <3> QED BY <3>1, <3>2
  <2>4. CASE UNCHANGED vars
    BY <2>4, <2>a DEF vars, lifeVars, dataVars
  <2> QED BY <2>1, <2>2, <2>3, <2>4 DEF Next
<1> QED BY <1>1, <1>2, InvHolds, AccountedHolds, PTL DEF Spec

\* Messages of size s: the room that is left on c and what woken writers may take
\* of it, with one more message, exceed the limit while a put() waits.
Claimed(s, c) ==
    WaitingOn(c) # {}
        => total_bytes[c] + s * (Cardinality(WokenOn(c)) + 1) > channel_size_limit

\* Sets of writers, counted.
LEMMA CountWriters ==
    ASSUME IsFiniteSet(Putters), NEW A \in SUBSET Putters, NEW B \in SUBSET Putters
    PROVE  /\ Cardinality(A) \in Nat /\ Cardinality(B) \in Nat
           /\ A \subseteq B => Cardinality(A) <= Cardinality(B)
           /\ \A p : A \ {p} \subseteq B => Cardinality(A) <= Cardinality(B) + 1
           /\ \A r \in B \ A : A \subseteq B => Cardinality(A) + 1 <= Cardinality(B)
           /\ \A p, r : r \in B \ A /\ A \ {p} \subseteq B => Cardinality(A) <= Cardinality(B)
<1>1. IsFiniteSet(A) /\ IsFiniteSet(B)
  BY FS_Subset
<1>2. Cardinality(A) \in Nat /\ Cardinality(B) \in Nat
  BY <1>1, FS_CardinalityType
<1>3. A \subseteq B => Cardinality(A) <= Cardinality(B)
  BY <1>1, FS_Subset
<1>4. ASSUME NEW p, A \ {p} \subseteq B
      PROVE  Cardinality(A) <= Cardinality(B) + 1
  <2>1. Cardinality(A \ {p}) <= Cardinality(B) /\ Cardinality(A \ {p}) \in Nat
    BY <1>1, <1>4, FS_Subset, FS_RemoveElement, FS_CardinalityType
  <2>2. Cardinality(A \ {p}) = IF p \in A THEN Cardinality(A) - 1 ELSE Cardinality(A)
    BY <1>1, FS_RemoveElement
  <2> QED BY <1>2, <2>1, <2>2
<1>5. ASSUME NEW r \in B \ A, A \subseteq B
      PROVE  Cardinality(A) + 1 <= Cardinality(B)
  <2>1. Cardinality(A \cup {r}) = Cardinality(A) + 1
    BY <1>1, FS_AddElement
  <2>2. A \cup {r} \subseteq B
    BY <1>5
  <2>3. Cardinality(A \cup {r}) <= Cardinality(B)
    BY <1>1, <2>2, FS_Subset
  <2> QED BY <2>1, <2>3
<1>6. ASSUME NEW p, NEW r, r \in B \ A, A \ {p} \subseteq B
      PROVE  Cardinality(A) <= Cardinality(B)
  <2> DEFINE C == (A \ {p}) \cup {r}
  <2>1. IsFiniteSet(A \ {p}) /\ r \notin A \ {p} /\ C \subseteq B
    BY <1>1, <1>6, FS_RemoveElement
  <2>2. Cardinality(C) = Cardinality(A \ {p}) + 1
    BY <2>1, FS_AddElement
  <2>3. Cardinality(A \ {p}) = IF p \in A THEN Cardinality(A) - 1 ELSE Cardinality(A)
    BY <1>1, FS_RemoveElement
  <2>4. Cardinality(C) <= Cardinality(B)
    BY <1>1, <2>1, FS_Subset
  <2> HIDE DEF C
  <2> QED BY <1>2, <2>2, <2>3, <2>4
<1> QED BY <1>2, <1>3, <1>4, <1>5, <1>6

\* Messages of size s, counted.
LEMMA CountBytes ==
    ASSUME NEW s \in Nat, NEW a \in Nat, NEW b \in Nat
    PROVE  /\ s * (a + 1) \in Nat /\ s * (b + 1) \in Nat /\ s * (a + 1) >= s
           /\ a <= b => s * (a + 1) <= s * (b + 1)
           /\ a <= b + 1 => s * (a + 1) <= s * (b + 1) + s
           /\ a + 1 <= b => s * (a + 1) + s <= s * (b + 1)
<1>1. /\ \A k \in Nat : s * k \in Nat
      /\ \A k \in Nat : s * (k + 1) = s * k + s
      /\ \A i, j \in Nat : s * (i + j) = s * i + s * j
  OBVIOUS
<1>2. ASSUME NEW i \in Nat, NEW j \in Nat, i <= j
      PROVE  s * i <= s * j
  <2>1. PICK d \in Nat : j = i + d
    BY <1>2
  <2> QED BY <1>1, <2>1
<1>3. a <= b + 1 => s * a <= s * (b + 1)
  BY <1>2
<1>4. a + 1 <= b => s * (a + 1) <= s * b
  BY <1>2
<1>5. a <= b => s * a <= s * b
  BY <1>2
<1> QED BY <1>1, <1>3, <1>4, <1>5

\* What a step may do to the writers and the bytes of c.
LEMMA ClaimedFrame ==
    ASSUME NEW s \in Nat \ {0}, IsFiniteSet(Putters), NEW c, Claimed(s, c),
           total_bytes[c] \in Int, total_bytes'[c] \in Int,
           WaitingOn(c)' # {} => WaitingOn(c) # {},
           \/ WokenOn(c) \subseteq WokenOn(c)' /\ total_bytes'[c] >= total_bytes[c]
           \/ /\ \E p : WokenOn(c) \ {p} \subseteq WokenOn(c)'
              /\ total_bytes'[c] = total_bytes[c] + s
           \/ /\ \E p, r : r \in WokenOn(c)' \ WokenOn(c) /\ WokenOn(c) \ {p} \subseteq WokenOn(c)'
              /\ total_bytes'[c] = total_bytes[c]
           \/ /\ \E r : r \in WokenOn(c)' \ WokenOn(c) /\ WokenOn(c) \subseteq WokenOn(c)'
              /\ total_bytes'[c] = total_bytes[c] - s
    PROVE  Claimed(s, c)'
<1>1. WokenOn(c) \in SUBSET Putters /\ WokenOn(c)' \in SUBSET Putters
  BY DEF WokenOn
<1>2. PICK a \in Nat, b \in Nat : a = Cardinality(WokenOn(c)) /\ b = Cardinality(WokenOn(c)')
  BY <1>1, CountWriters
<1>3. \/ a <= b /\ total_bytes'[c] >= total_bytes[c]
      \/ a <= b + 1 /\ total_bytes'[c] = total_bytes[c] + s
      \/ a + 1 <= b /\ total_bytes'[c] = total_bytes[c] - s
  BY <1>1, <1>2, CountWriters
<1>4. PICK x \in Nat, y \in Nat : x = s * (a + 1) /\ y = s * (b + 1)
  BY CountBytes
<1>5. /\ a <= b => x <= y
      /\ a <= b + 1 => x <= y + s
      /\ a + 1 <= b => x + s <= y
  BY <1>4, CountBytes
<1>6. total_bytes[c] + x > channel_size_limit => total_bytes'[c] + y > channel_size_limit
  BY <1>3, <1>5, MarksAssumption
<1> QED BY <1>2, <1>4, <1>6 DEF Claimed

\* A put() that does not fit, or finds the channel full, claims what is over.
LEMMA ClaimedWhenOver ==
    ASSUME NEW s \in Nat \ {0}, IsFiniteSet(Putters), NEW c, total_bytes'[c] \in Int,
           total_bytes'[c] + s > channel_size_limit
    PROVE  Claimed(s, c)'
<1>1. WokenOn(c)' \in SUBSET Putters
  BY DEF WokenOn
<1>2. PICK b \in Nat : b = Cardinality(WokenOn(c)')
  BY <1>1, CountWriters
<1>3. PICK y \in Nat : y = s * (b + 1) /\ y >= s
  BY CountBytes
<1>4. total_bytes'[c] + y > channel_size_limit
  BY <1>3, MarksAssumption
<1> QED BY <1>2, <1>3, <1>4 DEF Claimed

\* put(), from its start or after a wakeup
LEMMA PutOrWaitClaims ==
    ASSUME NEW s \in Nat \ {0}, Sizes = {s}, IsFiniteSet(Putters),
           TypeInv, TypeInv', NEW p \in Putters, NEW d \in Channels,
           ppc[p] = "idle" \/ (ppc[p] = "woken" /\ call[p][1] = d),
           PutOrWait(p, d, s), NEW c \in Channels, Claimed(s, c)
    PROVE  Claimed(s, c)'
<1>1. /\ ppc \in [Putters -> TaskStates]
      /\ call \in [Putters -> (Channels \X Sizes) \cup {NoCall}]
      /\ total_bytes \in [Channels -> Int]
      /\ total_bytes[c] \in Int /\ total_bytes'[c] \in Int
  BY DEF TypeInv, Shape
<1>2. CASE Fits(d, s)
  <2>1. /\ ppc' = [ppc EXCEPT ![p] = "idle"] /\ call' = [call EXCEPT ![p] = NoCall]
        /\ total_bytes' = [total_bytes EXCEPT ![d] = total_bytes[d] + s]
    BY <1>2 DEF PutOrWait, Enqueue
  <2>2. /\ ppc'[p] = "idle"
        /\ \A q \in Putters \ {p} : ppc'[q] = ppc[q] /\ call'[q] = call[q]
    BY <1>1, <2>1
  <2>3. WaitingOn(c)' # {} => WaitingOn(c) # {}
    BY <2>2 DEF WaitingOn
  <2>4. CASE c = d
    <3>1. WokenOn(c) \ {p} \subseteq WokenOn(c)'
      BY <2>2 DEF WokenOn
    <3>2. total_bytes'[c] = total_bytes[c] + s
      BY <1>1, <2>1, <2>4
    <3> QED BY <1>1, <2>3, <3>1, <3>2, ClaimedFrame
  <2>5. CASE c # d
    <3>1. WokenOn(c) \subseteq WokenOn(c)'
      BY <2>2, <2>5 DEF WokenOn
    <3>2. total_bytes'[c] >= total_bytes[c]
      BY <1>1, <2>1, <2>5
    <3> QED BY <1>1, <2>3, <3>1, <3>2, ClaimedFrame
  <2> QED BY <2>4, <2>5
<1>3. CASE ~Fits(d, s)
  <2>1. /\ ppc' = [ppc EXCEPT ![p] = "waiting"] /\ call' = [call EXCEPT ![p] = <<d, s>>]
        /\ total_bytes' = total_bytes
    BY <1>3 DEF PutOrWait, dataVars
  <2>2. CASE c = d
    BY <1>1, <1>3, <2>1, <2>2, ClaimedWhenOver, MarksAssumption DEF Fits
  <2>3. CASE c # d
    <3>1. /\ call'[p] = <<d, s>>
          /\ \A q \in Putters \ {p} : ppc'[q] = ppc[q] /\ call'[q] = call[q]
      BY <1>1, <2>1
    <3>2. (WaitingOn(c)' # {} => WaitingOn(c) # {}) /\ WokenOn(c) \subseteq WokenOn(c)'
      BY <2>3, <3>1 DEF WaitingOn, WokenOn
    <3> QED BY <1>1, <2>1, <3>2, ClaimedFrame
  <2> QED BY <2>2, <2>3
<1> QED BY <1>2, <1>3

\* The clean-up of a cancelled put()
LEMMA PutRaiseClaims ==
    ASSUME NEW s \in Nat \ {0}, IsFiniteSet(Putters), TypeInv, NEW p \in Putters, PutRaise(p),
           NEW c \in Channels, c \in channels, Claimed(s, c)
    PROVE  Claimed(s, c)'
<1> DEFINE d == call[p][1]
<1>1. /\ call' = [call EXCEPT ![p] = NoCall]
      /\ ppc'[p] = "idle"
      /\ \A q \in Putters \ {p} :
            \/ ppc'[q] = ppc[q]
            \/ ppc[q] = "waiting" /\ ppc'[q] = "woken" /\ call[q][1] = d
      /\ ppc[p] = "lostRace" /\ ~Full(d)
            => \A q \in Putters \ {p} : ppc[q] = "waiting" /\ call[q][1] = d
                  => \E r \in Putters \ {p} :
                        ppc[r] = "waiting" /\ ppc'[r] = "woken" /\ call[r][1] = d
      /\ UNCHANGED <<lifeVars, dataVars, getters, gpc>>
  BY PutRaiseEffect
<1>2. /\ call \in [Putters -> (Channels \X Sizes) \cup {NoCall}]
      /\ total_bytes[c] \in Int /\ total_bytes' = total_bytes
  BY <1>1 DEF TypeInv, Shape, dataVars
<1>3. \A q \in Putters \ {p} : call'[q] = call[q]
  BY <1>1, <1>2
<1>4. ppc[p] \in {"cancelled", "lostRace"}
  BY DEF PutRaise
<1>5. /\ \A q \in Putters : q \in WaitingOn(c)' => q # p /\ q \in WaitingOn(c)
      /\ WokenOn(c) \ {p} \subseteq WokenOn(c)'
  BY <1>1, <1>3 DEF WaitingOn, WokenOn
<1>6. WaitingOn(c)' # {} => WaitingOn(c) # {}
  BY <1>5 DEF WaitingOn
<1> HIDE DEF d
<1>7. CASE c # d \/ ppc[p] = "cancelled"
  <2>1. p \notin WokenOn(c)
    BY <1>4, <1>7 DEF WokenOn, d
  <2>2. WokenOn(c) \subseteq WokenOn(c)'
    BY <1>5, <2>1
  <2> QED BY <1>2, <1>6, <2>2, ClaimedFrame
<1>8. CASE c = d /\ ppc[p] = "lostRace" /\ Full(d)
  BY <1>2, <1>8, ClaimedWhenOver, MarksAssumption DEF Full
<1>9. CASE c = d /\ ppc[p] = "lostRace" /\ ~Full(d)
  <2>1. CASE WaitingOn(c)' = {}
    BY <2>1 DEF Claimed
  <2>2. CASE WaitingOn(c)' # {}
    <3>1. PICK q \in Putters \ {p} : ppc[q] = "waiting" /\ call[q][1] = d
      BY <1>5, <1>9, <2>2 DEF WaitingOn
    <3>2. PICK r \in Putters \ {p} : ppc[r] = "waiting" /\ ppc'[r] = "woken" /\ call[r][1] = d
      BY <1>1, <1>9, <3>1
    <3>3. r \in WokenOn(c)' \ WokenOn(c)
      BY <1>3, <1>9, <3>2 DEF WokenOn
    <3> QED BY <1>2, <1>5, <1>6, <3>3, ClaimedFrame
  <2> QED BY <2>1, <2>2
<1> QED BY <1>4, <1>7, <1>8, <1>9

\* get_nowait() makes room for a message and wakes a writer for it.
LEMMA GetClaims ==
    ASSUME NEW s \in Nat \ {0}, Sizes = {s}, IsFiniteSet(Putters), Inv, NEW g \in Getters,
           GetNowait(g), NEW c \in Channels, c \in channels, Claimed(s, c)
    PROVE  Claimed(s, c)'
<1> DEFINE d == Head(order)
<1>1. d \in Channels /\ (d \in channels => queue[d] # <<>>)
  BY GetOrder
<1>2. /\ queue \in [Channels -> Seq(Sizes)] /\ total_bytes \in [Channels -> Int]
      /\ total_bytes[c] \in Int /\ call' = call
  BY DEF Inv, TypeInv, Shape, GetNowait
<1>3. CASE d \notin channels
  <2>1. total_bytes' = total_bytes /\ ppc' = ppc
    BY <1>3 DEF GetNowait
  <2> QED BY <1>2, <2>1 DEF Claimed, WaitingOn, WokenOn
<1>4. CASE d \in channels
  <2>1. Woke(ppc, call, d, putters', ppc')
    BY <1>4, GetWakes
  <2>2. total_bytes' = [total_bytes EXCEPT ![d] = total_bytes[d] - Head(queue[d])]
    BY <1>4 DEF GetNowait
  <2> HIDE DEF d
  <2>3. Head(queue[d]) = s
    <3>1. queue[d] \in Seq(Sizes) /\ queue[d] # <<>>
      BY <1>1, <1>2, <1>4
    <3>2. Head(queue[d]) \in Sizes
      BY <3>1
    <3> QED BY <3>2
  <2>4. /\ \A q \in Putters :
              \/ ppc'[q] = ppc[q]
              \/ ppc[q] = "waiting" /\ ppc'[q] = "woken" /\ call[q][1] = d
        /\ (\E q \in Putters : ppc[q] = "waiting" /\ call[q][1] = d)
              => \E q \in Putters : ppc[q] = "waiting" /\ ppc'[q] = "woken" /\ call[q][1] = d
    BY <2>1 DEF Woke
  <2>5. /\ \A q \in Putters : q \in WaitingOn(c)' => q \in WaitingOn(c)
        /\ WokenOn(c) \subseteq WokenOn(c)'
    BY <1>2, <2>4 DEF WaitingOn, WokenOn
  <2>6. WaitingOn(c)' # {} => WaitingOn(c) # {}
    BY <2>5 DEF WaitingOn
  <2>7. CASE c # d
    <3>1. total_bytes'[c] = total_bytes[c]
      BY <1>2, <2>2, <2>7
    <3> QED BY <1>2, <2>5, <2>6, <3>1, ClaimedFrame
  <2>8. CASE c = d
    <3>1. total_bytes'[c] = total_bytes[c] - s
      BY <1>2, <2>2, <2>3, <2>8
    <3>2. CASE WaitingOn(c)' = {}
      BY <3>2 DEF Claimed
    <3>3. CASE WaitingOn(c)' # {}
      <4>1. \E q \in Putters : ppc[q] = "waiting" /\ call[q][1] = d
        BY <2>6, <2>8, <3>3 DEF WaitingOn
      <4>2. PICK r \in Putters : ppc[r] = "waiting" /\ ppc'[r] = "woken" /\ call[r][1] = d
        BY <2>4, <4>1
      <4>3. r \in WokenOn(c)' \ WokenOn(c)
        BY <1>2, <2>8, <4>2 DEF WokenOn
      <4> QED BY <1>2, <2>5, <2>6, <3>1, <4>3, ClaimedFrame
    <3> QED BY <3>2, <3>3
  <2> QED BY <2>7, <2>8
<1> QED BY <1>3, <1>4

\* Messages of one size, any limit and any number of writers: no put() sleeps on
\* a registered channel although its message fits, unless one that was woken has
\* still to run, however puts, gets, cancellations and deletions interleave
\* (queue.py:165-178, 277-278).
THEOREM RoomIsOfferedHolds ==
    ASSUME NEW s \in Nat \ {0}, Sizes = {s}, IsFiniteSet(Putters)
    PROVE  Spec => []RoomIsOffered
<1> DEFINE AllClaimed == \A c \in channels : Claimed(s, c)
<1>1. Init => AllClaimed
  BY DEF Init
<1>2. Inv /\ Inv' /\ AllClaimed /\ [Next]_vars => AllClaimed'
  <2> SUFFICES ASSUME Inv, Inv', AllClaimed, [Next]_vars, NEW c \in channels'
               PROVE  Claimed(s, c)'
    OBVIOUS
  <2>0. /\ TypeInv /\ TypeInv' /\ Shape /\ CallsMatch
        /\ channels \subseteq created /\ created \subseteq Channels
        /\ c \in Channels /\ total_bytes'[c] \in Int
        /\ total_bytes \in [Channels -> Int] /\ total_bytes[c] \in Int
    BY DEF Inv, TypeInv, Shape
  <2>a. CASE UNCHANGED <<total_bytes, ppc, call>> /\ c \in channels
    BY <2>a DEF Claimed, WaitingOn, WokenOn
  <2>b. ASSUME NEW d \in Channels, NEW size \in Sizes, Enqueue(d, size),
               UNCHANGED <<ppc, call>>
        PROVE  Claimed(s, c)'
    <3>1. c \in channels /\ total_bytes' = [total_bytes EXCEPT ![d] = total_bytes[d] + s]
      BY <2>b DEF Enqueue, lifeVars
    <3>2. total_bytes'[c] >= total_bytes[c]
      BY <2>0, <3>1
    <3>3. WaitingOn(c)' = WaitingOn(c) /\ WokenOn(c)' = WokenOn(c)
      BY <2>b DEF WaitingOn, WokenOn
    <3>4. Claimed(s, c)
      BY <3>1
    <3> QED BY <2>0, <3>2, <3>3, <3>4, ClaimedFrame
  <2>1. ASSUME NEW d \in Channels, ChannelStep(d) PROVE Claimed(s, c)'
    <3>1. CASE CreateChannel(d)
      <4>1. CASE c \in channels
        BY <2>a, <3>1, <4>1 DEF CreateChannel, dataVars
      <4>2. CASE c \notin channels
        <5>1. c = d /\ c \notin created /\ UNCHANGED <<ppc, call>>
          BY <3>1, <4>2 DEF CreateChannel
        <5>2. ASSUME NEW p \in Putters, ppc[p] = "waiting" PROVE call[p][1] # c
          <6>1. call[p] \in created \X Sizes
            BY <5>2, <2>0 DEF CallsMatch, Suspended
          <6> QED BY <6>1, <5>1
        <5> QED BY <5>1, <5>2 DEF Claimed, WaitingOn
      <4> QED BY <4>1, <4>2
    <3>2. CASE DeleteChannel(d)
      BY <2>a, <3>2 DEF DeleteChannel, dataVars
    <3>3. CASE \E size \in Sizes : PutNowait(d, size) \/ PutNowaitForce(d, size)
      BY <2>b, <3>3 DEF PutNowait, PutNowaitForce
    <3> QED BY <2>1, <3>1, <3>2, <3>3 DEF ChannelStep
  <2>2. ASSUME NEW p \in Putters, PutterStep(p) PROVE Claimed(s, c)'
    <3>0. c \in channels
      BY <2>2 DEF PutterStep, Put, PutResume, PutCancel, PutRaise, PutOrWait, Enqueue, lifeVars
    <3>1. Claimed(s, c)
      BY <3>0
    <3>2. CASE \E d \in Channels, size \in Sizes : Put(p, d, size)
      BY <2>0, <3>1, <3>2, PutOrWaitClaims DEF Put
    <3>3. CASE PutResume(p)
      <4>1. call[p] \in created \X Sizes
        BY <3>3, <2>0 DEF PutResume, CallsMatch, Suspended
      <4>2. call[p][1] \in Channels /\ call[p][2] = s
        BY <4>1, <2>0
      <4> QED BY <2>0, <3>1, <3>3, <4>2, PutOrWaitClaims DEF PutResume
    <3>4. CASE PutCancel(p)
      <4>1. ppc \in [Putters -> TaskStates]
        BY <2>0 DEF Shape
      <4>2. total_bytes' = total_bytes /\ call' = call
        BY <3>4 DEF PutCancel, dataVars
      <4>3. /\ \A q \in Putters : q \in WaitingOn(c)' => q \in WaitingOn(c)
            /\ WokenOn(c) \subseteq WokenOn(c)'
        BY <3>4, <4>1, <4>2 DEF PutCancel, WaitingOn, WokenOn
      <4>4. WaitingOn(c)' # {} => WaitingOn(c) # {}
        BY <4>3 DEF WaitingOn
      <4> QED BY <2>0, <3>1, <4>2, <4>3, <4>4, ClaimedFrame
    <3>5. CASE PutRaise(p)
      BY <2>0, <3>0, <3>1, <3>5, PutRaiseClaims
    <3> QED BY <2>2, <3>2, <3>3, <3>4, <3>5 DEF PutterStep
  <2>3. ASSUME NEW g \in Getters, GetterStep(g) PROVE Claimed(s, c)'
    <3>1. CASE GetNowait(g)
      <4>1. c \in channels
        BY <3>1 DEF GetNowait, lifeVars
      <4>2. Claimed(s, c)
        BY <4>1
      <4> QED BY <2>0, <3>1, <4>1, <4>2, GetClaims
    <3>2. CASE ~GetNowait(g)
      BY <2>3, <2>a, <3>2 DEF GetterStep, Get, GetResume, GetCancel, GetRaise, GetOrWait,
                              dataVars, lifeVars
    <3> QED BY <3>1, <3>2
  <2>4. CASE UNCHANGED vars
    BY <2>4, <2>a DEF vars, lifeVars, dataVars
  <2> QED BY <2>1, <2>2, <2>3, <2>4 DEF Next
<1>3. Inv /\ AllClaimed => RoomIsOffered
  <2> SUFFICES ASSUME Inv, AllClaimed, NEW c \in channels, NEW p \in WaitingOn(c),
                      Fits(c, call[p][2]), WokenOn(c) = {}
               PROVE  FALSE
    BY DEF RoomIsOffered
  <2>1. p \in Putters /\ ppc[p] = "waiting" /\ WaitingOn(c) # {}
    BY DEF WaitingOn
  <2>2. call[p] \in created \X Sizes /\ total_bytes[c] \in Int
    BY <2>1 DEF Inv, TypeInv, CallsMatch, Suspended, Shape
  <2>3. call[p][2] = s
    BY <2>2
  <2>4. Cardinality(WokenOn(c)) = 0
    BY FS_EmptySet
  <2>5. total_bytes[c] + s * (0 + 1) > channel_size_limit
    BY <2>1, <2>4 DEF Claimed
  <2> QED BY <2>2, <2>3, <2>5, MarksAssumption DEF Fits
<1> QED BY <1>1, <1>2, <1>3, InvHolds, PTL DEF Spec

\* Only put_nowait_force() grows a channel beyond its limit (queue.py:166,
\* 194-195, 198-211).
THEOREM LimitOnlyForcedHolds == Spec => LimitOnlyForced
<1>1. ASSUME Inv, [Next]_vars, NEW c \in Channels,
             total_bytes'[c] > channel_size_limit, total_bytes'[c] > total_bytes[c]
      PROVE  \E size \in Sizes : PutNowaitForce(c, size)
  <2>0. /\ TypeInv /\ Shape /\ CallsMatch
        /\ total_bytes \in [Channels -> Int] /\ created \subseteq Channels
    BY <1>1 DEF Inv, TypeInv, Shape
  <2>1. total_bytes' # total_bytes
    BY <1>1, <2>0
  <2>2. ASSUME NEW d \in Channels, NEW size \in Sizes, Enqueue(d, size), Fits(d, size)
        PROVE  FALSE
    <3>1. \A e \in Channels :
             total_bytes'[e] = IF e = d THEN total_bytes[d] + size ELSE total_bytes[e]
      BY <2>0, <2>2 DEF Enqueue
    <3>2. c = d
      BY <1>1, <2>0, <3>1
    <3>3. total_bytes[d] + size <= channel_size_limit /\ size \in Int
      BY <2>2, SizesAssumption, MarksAssumption DEF Fits
    <3> QED BY <1>1, <2>0, <3>1, <3>2, <3>3, MarksAssumption
  <2>3. ASSUME NEW d \in Channels, ChannelStep(d)
        PROVE  \E size \in Sizes : PutNowaitForce(c, size)
    <3>1. PICK size \in Sizes : PutNowait(d, size) \/ PutNowaitForce(d, size)
      BY <2>1, <2>3 DEF ChannelStep, CreateChannel, DeleteChannel, dataVars
    <3>2. PutNowaitForce(d, size)
      BY <2>2, <3>1 DEF PutNowait
    <3>3. c = d
      BY <1>1, <2>0, <3>2 DEF PutNowaitForce, Enqueue
    <3> QED BY <3>2, <3>3
  <2>4. ASSUME NEW p \in Putters, PutterStep(p) PROVE FALSE
    <3>1. CASE \E d \in Channels, size \in Sizes : Put(p, d, size)
      BY <2>1, <2>2, <3>1 DEF Put, PutOrWait, dataVars
    <3>2. CASE PutResume(p)
      <4>1. call[p] \in created \X Sizes
        BY <3>2, <2>0 DEF PutResume, CallsMatch, Suspended
      <4>2. call[p][1] \in Channels /\ call[p][2] \in Sizes
        BY <4>1, <2>0
      <4> QED BY <2>1, <2>2, <3>2, <4>2 DEF PutResume, PutOrWait, dataVars
    <3>3. CASE PutCancel(p) \/ PutRaise(p)
      BY <2>1, <3>3 DEF PutCancel, PutRaise, dataVars
    <3> QED BY <2>4, <3>1, <3>2, <3>3 DEF PutterStep
  <2>5. ASSUME NEW g \in Getters, GetterStep(g) PROVE FALSE
    <3>1. GetNowait(g)
      BY <2>1, <2>5 DEF GetterStep, Get, GetResume, GetCancel, GetRaise, GetOrWait, dataVars
    <3> DEFINE d == Head(order)
    <3>2. /\ d \in Channels /\ d \in channels
          /\ total_bytes' = [total_bytes EXCEPT ![d] = total_bytes[d] - Head(queue[d])]
      BY <2>1, <3>1, <1>1, GetOrder DEF GetNowait
    <3>3. queue[d] # <<>>
      BY <3>1, <3>2, <1>1, GetOrder
    <3> HIDE DEF d
    <3>4. Head(queue[d]) \in Sizes
      <4>1. queue[d] \in Seq(Sizes)
        BY <2>0, <3>2 DEF Shape
      <4> QED BY <3>3, <4>1
    <3>5. Head(queue[d]) \in Nat
      <4>1. Sizes \subseteq Nat
        BY SizesAssumption, MarksAssumption
      <4> QED BY <3>4, <4>1
    <3>6. \A e \in Channels :
             total_bytes'[e] = IF e = d THEN total_bytes[d] - Head(queue[d]) ELSE total_bytes[e]
      BY <2>0, <3>2
    <3> QED BY <1>1, <2>0, <3>2, <3>5, <3>6
  <2>6. ~UNCHANGED vars
    BY <2>1 DEF vars, dataVars
  <2> QED BY <1>1, <2>3, <2>4, <2>5, <2>6 DEF Next
<1>2. Inv /\ [Next]_vars
         => [\A c \in Channels :
                total_bytes'[c] > channel_size_limit /\ total_bytes'[c] > total_bytes[c]
                    => \E size \in Sizes : PutNowaitForce(c, size)]_vars
  BY <1>1
<1> QED BY <1>2, InvHolds, PTL DEF Spec, LimitOnlyForced

-----------------------------------------------------------------------------
(***************************************************************************)
(* No reader sleeps on a message.  That a woken reader exists is not       *)
(* enough: it takes one message and passes nothing on, so with several     *)
(* readers the wakeups under way have to be counted.  A wakeup is sent for *)
(* every message that is put, and while somebody waits there are at least  *)
(* as many of them as calls of get_nowait() that would return or raise.    *)
(***************************************************************************)

\* The calls of get_nowait() that a channel in _order is good for: one for
\* each message, or the one that raises KeyError.
Slots(c) == IF c \in channels THEN 1 .. Len(queue[c]) ELSE {1}
Due == {x \in Channels \X Nat : x[1] \in Members(order) /\ x[2] \in Slots(x[1])}

Roused == {g \in Getters : gpc[g] \in {"woken", "lostRace"}}
SomeoneWaits == \E g \in Getters : gpc[g] = "waiting"

EnoughRoused ==
    /\ IsFiniteSet(Due)
    /\ SomeoneWaits => Cardinality(Due) <= Cardinality(Roused)

\* _put() makes one more call of get_nowait() possible.
LEMMA EnqueueDue ==
    ASSUME Inv, NEW c \in created, NEW size \in Sizes, Enqueue(c, size)
    PROVE  \E x : Due' \subseteq Due \cup {x}
<1>1. /\ c \in Channels /\ channels' = channels
      /\ order \in Seq(Channels) /\ queue \in [Channels -> Seq(Sizes)]
      /\ queue' = [queue EXCEPT ![c] = Append(queue[c], size)]
      /\ channels \subseteq Channels
  BY DEF Inv, TypeInv, Shape, Enqueue, lifeVars
<1>2. Members(order') \subseteq Members(order) \cup {c}
  BY <1>1, AppendEffect DEF Enqueue
<1>3. \A d \in Channels : d # c => queue'[d] = queue[d]
  BY <1>1
<1>4. Len(queue'[c]) = Len(queue[c]) + 1 /\ Len(queue[c]) \in Nat
  BY <1>1
<1>5. c \in channels /\ c \notin Members(order) => Len(queue[c]) = 0
  BY DEF Inv, OrderMatchesQueues
<1> DEFINE x == <<c, IF c \in channels THEN Len(queue[c]) + 1 ELSE 1>>
<1>6. ASSUME NEW d \in Channels, NEW i \in Nat, <<d, i>> \in Due'
      PROVE  <<d, i>> \in Due \cup {x}
  <2>1. d \in Members(order') /\ i \in Slots(d)'
    BY <1>6 DEF Due
  <2>2. CASE d # c
    <3>1. d \in Members(order) /\ Slots(d)' = Slots(d)
      BY <1>1, <1>2, <1>3, <2>1, <2>2 DEF Slots
    <3> QED BY <2>1, <3>1 DEF Due
  <2>3. CASE d = c /\ c \notin channels
    <3>1. i = 1
      BY <1>1, <2>1, <2>3 DEF Slots
    <3> QED BY <2>3, <3>1
  <2>4. CASE d = c /\ c \in channels
    <3>1. i \in 1 .. Len(queue[c]) + 1
      BY <1>1, <1>4, <2>1, <2>4 DEF Slots
    <3>2. CASE i = Len(queue[c]) + 1
      BY <2>4, <3>2
    <3>3. CASE i \in 1 .. Len(queue[c])
      <4>1. c \in Members(order)
        BY <1>4, <1>5, <2>4, <3>3
      <4> QED BY <1>1, <2>4, <3>3, <4>1 DEF Due, Slots
    <3> QED BY <1>4, <3>1, <3>2, <3>3
  <2> QED BY <2>2, <2>3, <2>4
<1>7. Due' \subseteq Due \cup {x}
  BY <1>6 DEF Due
<1> QED BY <1>7

\* get_nowait() uses one of them up.
LEMMA GetDue ==
    ASSUME Inv, NEW g \in Getters, GetNowait(g)
    PROVE  \E x \in Due : Due' \subseteq Due \ {x}
<1> DEFINE c == Head(order)
<1>1. /\ order \in Seq(Channels) /\ Distinct(order) /\ order # <<>>
      /\ queue \in [Channels -> Seq(Sizes)]
  BY DEF Inv, TypeInv, Shape, OrderMatchesQueues, GetNowait
<1>2. /\ c \in Channels /\ c \in Members(order)
      /\ Tail(order) \in Seq(Channels)
      /\ Members(Tail(order)) = Members(order) \ {c}
  BY <1>1, TailEffect
<1>3. c \in channels => queue[c] # <<>>
  BY GetOrder
<1>4. CASE c \notin channels
  <2>1. order' = Tail(order) /\ queue' = queue /\ channels' = channels
    BY <1>4 DEF GetNowait, lifeVars
  <2> HIDE DEF c
  <2>2. <<c, 1>> \in Due
    BY <1>2, <1>4 DEF Due, Slots
  <2>3. ASSUME NEW d \in Channels, NEW i \in Nat, <<d, i>> \in Due'
        PROVE  <<d, i>> \in Due \ {<<c, 1>>}
    <3>1. d \in Members(order') /\ i \in Slots(d)'
      BY <2>3 DEF Due
    <3>2. d \in Members(order) /\ d # c /\ Slots(d)' = Slots(d)
      BY <1>2, <2>1, <3>1 DEF Slots
    <3> QED BY <3>1, <3>2 DEF Due
  <2>4. Due' \subseteq Due \ {<<c, 1>>}
    BY <2>3 DEF Due
  <2> QED BY <2>2, <2>4
<1>5. CASE c \in channels
  <2> DEFINE rest == Tail(queue[c])
             n == Len(queue[c])
  <2>1. /\ order' = IF rest # <<>> THEN Append(Tail(order), c) ELSE Tail(order)
        /\ queue' = [queue EXCEPT ![c] = rest]
        /\ channels' = channels \/ (rest = <<>> /\ channels' = channels \ {c})
    BY <1>5 DEF GetNowait
  <2>2. queue[c] \in Seq(Sizes) /\ queue[c] # <<>>
    BY <1>1, <1>2, <1>3, <1>5
  <2>3. n \in Nat \ {0} /\ Len(rest) = n - 1
    BY <2>2
  <2>4. /\ \A d \in Channels : d # c => queue'[d] = queue[d]
        /\ queue'[c] = rest
    BY <1>1, <1>2, <2>1
  <2>5. /\ rest = <<>> => order' = Tail(order)
        /\ Members(order') \subseteq Members(order)
    <3> DEFINE t == Tail(order)
    <3>1. t \in Seq(Channels) /\ c \in Channels
      BY <1>2
    <3> HIDE DEF t, c
    <3>2. Members(Append(t, c)) = Members(t) \cup {c}
      BY <3>1, AppendEffect
    <3> QED BY <1>2, <2>1, <3>2 DEF t
  <2> HIDE DEF c, rest, n
  <2>6. <<c, n>> \in Due
    BY <1>2, <1>5, <2>3 DEF Due, Slots, n
  <2>7. ASSUME NEW d \in Channels, NEW i \in Nat, <<d, i>> \in Due'
        PROVE  <<d, i>> \in Due \ {<<c, n>>}
    <3>1. d \in Members(order') /\ i \in Slots(d)'
      BY <2>7 DEF Due
    <3>2. CASE d # c
      <4>1. Slots(d)' = Slots(d)
        BY <2>1, <2>4, <3>2 DEF Slots
      <4> QED BY <2>5, <3>1, <3>2, <4>1 DEF Due
    <3>3. CASE d = c
      <4>1. rest # <<>>
        BY <1>2, <2>5, <3>1, <3>3
      <4>2. c \in channels'
        BY <1>5, <2>1, <4>1
      <4>3. i \in 1 .. n - 1
        BY <2>3, <2>4, <3>1, <3>3, <4>2 DEF Slots
      <4>4. i \in 1 .. Len(queue[c]) /\ i # n
        BY <2>3, <4>3 DEF n
      <4> QED BY <1>2, <1>5, <3>3, <4>4 DEF Due, Slots
    <3> QED BY <3>2, <3>3
  <2>8. Due' \subseteq Due \ {<<c, n>>}
    BY <2>7 DEF Due
  <2> QED BY <2>6, <2>8
<1> QED BY <1>4, <1>5

\* Channels come and go without a message (queue.py:127-144).
LEMMA OtherDue ==
    ASSUME Inv, UNCHANGED dataVars,
           \/ \E c \in Channels : CreateChannel(c) \/ DeleteChannel(c)
           \/ UNCHANGED lifeVars
    PROVE  Due' = Due
<1>1. order' = order /\ queue' = queue
  BY DEF dataVars
<1>2. \A d \in Members(order) : d \in channels' <=> d \in channels
  <2>1. CASE UNCHANGED lifeVars
    BY <2>1 DEF lifeVars
  <2>2. ASSUME NEW c \in Channels, CreateChannel(c)
        PROVE  \A d \in Members(order) : d \in channels' <=> d \in channels
    <3>1. c \notin Members(order) /\ channels' = channels \cup {c}
      BY <2>2 DEF CreateChannel, Inv, FreshIsEmpty
    <3> QED BY <3>1
  <2>3. ASSUME NEW c \in Channels, DeleteChannel(c)
        PROVE  \A d \in Members(order) : d \in channels' <=> d \in channels
    <3>1. \/ channels' = channels
          \/ c \notin Members(order) /\ channels' = channels \ {c}
      BY <2>3 DEF DeleteChannel, Inv, OrderMatchesQueues
    <3> QED BY <3>1
  <2> QED BY <2>1, <2>2, <2>3
<1> QED BY <1>1, <1>2 DEF Due, Slots

\* _wakeup_next(self._getters): if a reader waits, one more is roused.
LEMMA WakeRouses ==
    ASSUME IsFiniteSet(Getters), NEW w \in Seq(Getters), Distinct(w),
           NEW pc \in [Getters -> TaskStates],
           \A h \in Getters : pc[h] = "waiting" => h \in Members(w),
           gpc' = Awakened(w, pc)
    PROVE  LET before == {h \in Getters : pc[h] \in {"woken", "lostRace"}}
           IN  \/ ~SomeoneWaits'
               \/ Cardinality(Roused') >= Cardinality(before) + 1
<1> DEFINE before == {h \in Getters : pc[h] \in {"woken", "lostRace"}}
<1>1. \A t \in Getters : \/ gpc'[t] = pc[t]
                         \/ pc[t] = "waiting" /\ gpc'[t] = "woken"
  BY WakeupEffect
<1>2. CASE ~\E h \in Getters : pc[h] = "waiting"
  BY <1>1, <1>2 DEF SomeoneWaits
<1>3. CASE \E h \in Getters : pc[h] = "waiting"
  <2>1. \E t \in Members(w) : pc[t] = "waiting"
    BY <1>3
  <2>2. PICK t \in Members(w) : pc[t] = "waiting" /\ gpc'[t] = "woken"
    BY <2>1, WakeupEffect
  <2>3. t \in Getters
    BY DEF Members
  <2>4. t \notin before /\ before \cup {t} \subseteq Roused'
    BY <1>1, <2>2, <2>3 DEF Roused
  <2>5. IsFiniteSet(before) /\ IsFiniteSet(Roused')
    BY FS_Subset DEF Roused
  <2> HIDE DEF before
  <2>6. Cardinality(before \cup {t}) = Cardinality(before) + 1
    BY <2>4, <2>5, FS_AddElement
  <2>7. Cardinality(before \cup {t}) <= Cardinality(Roused')
    BY <2>4, <2>5, FS_Subset
  <2>8. Cardinality(before) \in Nat /\ Cardinality(Roused') \in Nat
    BY <2>5, FS_CardinalityType
  <2> QED BY <2>6, <2>7, <2>8 DEF before
<1> QED BY <1>2, <1>3

\* A task that runs get() keeps the count: it takes one of the calls with it,
\* waits only when none is left, or hands on the wakeup it does not use.
LEMMA GetterKeepsRoused ==
    ASSUME IsFiniteSet(Getters), Inv, EnoughRoused,
           NEW g \in Getters, GetterStep(g)
    PROVE  EnoughRoused'
<1>1. /\ getters \in Seq(Getters) /\ Distinct(getters)
      /\ gpc \in [Getters -> TaskStates]
      /\ \A h \in Getters : gpc[h] = "waiting" => h \in Members(getters)
  BY DEF Inv, TypeInv, Shape, GettersQueued
<1>2. /\ IsFiniteSet(Due) /\ Cardinality(Due) \in Nat
      /\ IsFiniteSet(Roused) /\ Cardinality(Roused) \in Nat
  BY FS_Subset, FS_CardinalityType DEF EnoughRoused, Roused
<1>3. /\ IsFiniteSet(Roused \ {g}) /\ Cardinality(Roused \ {g}) \in Nat
      /\ Cardinality(Roused \ {g}) >= Cardinality(Roused) - 1
  <2>1. /\ IsFiniteSet(Roused \ {g})
        /\ Cardinality(Roused \ {g}) = IF g \in Roused THEN Cardinality(Roused) - 1
                                                      ELSE Cardinality(Roused)
    BY <1>2, FS_RemoveElement
  <2>2. Cardinality(Roused \ {g}) \in Nat
    BY <2>1, FS_CardinalityType
  <2> QED BY <1>2, <2>1, <2>2
<1>4. IsFiniteSet(Roused')
  BY FS_Subset DEF Roused
<1>5. CASE GetNowait(g)
  <2>1. PICK x \in Due : Due' \subseteq Due \ {x}
    BY <1>5, GetDue
  <2>2. /\ IsFiniteSet(Due \ {x}) /\ Cardinality(Due \ {x}) = Cardinality(Due) - 1
    BY <1>2, FS_RemoveElement
  <2>3. IsFiniteSet(Due') /\ Cardinality(Due') <= Cardinality(Due) - 1
    BY <2>1, <2>2, FS_Subset
  <2>4. gpc'[g] \in {"idle", "failed"} /\ \A h \in Getters : h # g => gpc'[h] = gpc[h]
    BY <1>1, <1>5 DEF GetNowait
  <2>5. Roused' = Roused \ {g} /\ (SomeoneWaits' => SomeoneWaits)
    BY <2>4 DEF Roused, SomeoneWaits
  <2>6. Cardinality(Due') \in Nat
    BY <2>3, FS_CardinalityType
  <2> QED BY <1>2, <1>3, <2>3, <2>5, <2>6 DEF EnoughRoused
<1>6. CASE order = <<>> /\ UNCHANGED <<lifeVars, dataVars>>
  <2>1. Due' = {}
    BY <1>6 DEF Due, Members, dataVars
  <2>2. Cardinality(Roused') \in Nat
    BY <1>4, FS_CardinalityType
  <2> QED BY <2>1, <2>2, FS_EmptySet DEF EnoughRoused
<1>7. CASE GetCancel(g)
  <2>1. Due' = Due
    BY <1>7, OtherDue DEF GetCancel
  <2>2. /\ gpc[g] = "waiting" => gpc'[g] = "cancelled"
        /\ gpc[g] = "woken" => gpc'[g] = "lostRace"
        /\ gpc[g] \in {"waiting", "woken"}
        /\ \A h \in Getters : h # g => gpc'[h] = gpc[h]
    BY <1>1, <1>7 DEF GetCancel
  <2>3. Roused' = Roused /\ (SomeoneWaits' => SomeoneWaits)
    BY <2>2 DEF Roused, SomeoneWaits
  <2> QED BY <2>1, <2>3 DEF EnoughRoused
<1>8. CASE GetRaise(g) /\ order # <<>>
  <2> DEFINE w == Without(getters, g)
             pc == [gpc EXCEPT ![g] = "idle"]
  <2>1. Due' = Due
    BY <1>8, OtherDue DEF GetRaise
  <2>2. w \in Seq(Getters) /\ Distinct(w) /\ Members(w) = Members(getters) \ {g}
    BY <1>1, WithoutEffect
  <2>3. /\ pc \in [Getters -> TaskStates] /\ pc[g] = "idle"
        /\ \A h \in Getters : h # g => pc[h] = gpc[h]
    BY <1>1 DEF TaskStates
  <2>4. CASE gpc[g] = "cancelled"
    <3>1. gpc' = pc
      BY <1>8, <2>4 DEF GetRaise
    <3> HIDE DEF pc
    <3>2. Roused' = Roused /\ (SomeoneWaits' => SomeoneWaits)
      BY <2>3, <2>4, <3>1 DEF Roused, SomeoneWaits
    <3> QED BY <2>1, <3>2 DEF EnoughRoused
  <2>5. CASE gpc[g] = "lostRace"
    <3>1. gpc' = Awakened(w, pc)
      BY <1>8, <2>5 DEF GetRaise
    <3> HIDE DEF w, pc
    <3>2. \A h \in Getters : pc[h] = "waiting" => h \in Members(w)
      BY <1>1, <2>2, <2>3
    <3>3. {h \in Getters : pc[h] \in {"woken", "lostRace"}} = Roused \ {g}
      BY <2>3 DEF Roused
    <3>4. \/ ~SomeoneWaits'
          \/ Cardinality(Roused') >= Cardinality(Roused \ {g}) + 1
      BY <2>2, <2>3, <3>1, <3>2, <3>3, WakeRouses
    <3>5. SomeoneWaits' => SomeoneWaits
      <4>1. \A t \in Getters : gpc'[t] = pc[t] \/ gpc'[t] = "woken"
        BY <2>2, <2>3, <3>1, WakeupEffect
      <4> QED BY <2>3, <4>1 DEF SomeoneWaits
    <3>6. Cardinality(Roused') \in Nat
      BY <1>4, FS_CardinalityType
    <3> QED BY <1>2, <1>3, <2>1, <3>4, <3>5, <3>6 DEF EnoughRoused
  <2> QED BY <1>8, <2>4, <2>5 DEF GetRaise
<1> QED
  BY <1>5, <1>6, <1>7, <1>8
  DEF GetterStep, Get, GetResume, GetOrWait, GetRaise

\* No wakeup of a reader is lost (queue.py:230, 239-250): however many tasks
\* are in get() and whichever of them are cancelled, none stays suspended while
\* a channel is in _order unless a woken one is about to run.  A process has
\* finitely many tasks.
THEOREM NoLostGetterWakeupHolds ==
    ASSUME IsFiniteSet(Getters)
    PROVE  Spec => []NoLostGetterWakeup
<1>1. Init => EnoughRoused
  <2> SUFFICES ASSUME Init PROVE EnoughRoused
    OBVIOUS
  <2>1. Due = {}
    BY DEF Init, Due, Members
  <2>2. ~SomeoneWaits
    BY DEF Init, SomeoneWaits
  <2> QED BY <2>1, <2>2, FS_EmptySet DEF EnoughRoused
<1>2. Inv /\ EnoughRoused /\ [Next]_vars => EnoughRoused'
  <2> SUFFICES ASSUME Inv, EnoughRoused, [Next]_vars PROVE EnoughRoused'
    OBVIOUS
  <2>0. TypeInv
    BY DEF Inv
  <2>1. CASE UNCHANGED vars
    <3>1. Due' = Due /\ Roused' = Roused /\ SomeoneWaits' = SomeoneWaits
      BY <2>1 DEF vars, dataVars, lifeVars, Due, Slots, Roused, SomeoneWaits
    <3> QED BY <3>1 DEF EnoughRoused
  <2>2. ASSUME NEW c \in created, NEW size \in Sizes, Enqueue(c, size)
        PROVE  EnoughRoused'
    <3>1. PICK x : Due' \subseteq Due \cup {x}
      BY <2>2, EnqueueDue
    <3>2. IsFiniteSet(Due) /\ Cardinality(Due) \in Nat
      BY FS_CardinalityType DEF EnoughRoused
    <3>3. /\ IsFiniteSet(Due \cup {x})
          /\ Cardinality(Due \cup {x}) <= Cardinality(Due) + 1
      <4>1. /\ IsFiniteSet(Due \cup {x})
            /\ Cardinality(Due \cup {x}) = IF x \in Due THEN Cardinality(Due)
                                                        ELSE Cardinality(Due) + 1
        BY <3>2, FS_AddElement
      <4> QED BY <3>2, <4>1
    <3>4. /\ IsFiniteSet(Due') /\ Cardinality(Due') <= Cardinality(Due \cup {x})
      BY <3>1, <3>3, FS_Subset
    <3>5. \/ ~SomeoneWaits'
          \/ Cardinality(Roused') >= Cardinality(Roused) + 1
      BY <2>2, WakeRouses DEF Inv, TypeInv, Shape, GettersQueued, Enqueue, Roused
    <3>6. SomeoneWaits' => SomeoneWaits
      <4>1. /\ getters \in Seq(Getters) /\ Distinct(getters)
            /\ gpc \in [Getters -> TaskStates]
            /\ gpc' = Awakened(getters, gpc)
        BY <2>0, <2>2 DEF TypeInv, Shape, GettersQueued, Enqueue
      <4>2. \A t \in Getters : gpc'[t] = gpc[t] \/ gpc'[t] = "woken"
        BY <4>1, WakeupEffect
      <4> QED BY <4>2 DEF SomeoneWaits
    <3>7. /\ Cardinality(Due') \in Nat /\ Cardinality(Due \cup {x}) \in Nat
          /\ Cardinality(Roused) \in Nat /\ Cardinality(Roused') \in Nat
      BY <3>3, <3>4, FS_Subset, FS_CardinalityType DEF Roused
    <3> QED BY <3>2, <3>3, <3>4, <3>5, <3>6, <3>7 DEF EnoughRoused
  <2>3. ASSUME UNCHANGED dataVars, UNCHANGED gpc,
               \/ \E c \in Channels : CreateChannel(c) \/ DeleteChannel(c)
               \/ UNCHANGED lifeVars
        PROVE  EnoughRoused'
    <3>1. Due' = Due
      BY <2>3, OtherDue
    <3>2. Roused' = Roused /\ SomeoneWaits' = SomeoneWaits
      BY <2>3 DEF Roused, SomeoneWaits
    <3> QED BY <3>1, <3>2 DEF EnoughRoused
  <2>4. ASSUME NEW c \in Channels, ChannelStep(c) PROVE EnoughRoused'
    <3>1. channels \subseteq created
      BY <2>0 DEF TypeInv, Shape
    <3>2. CASE CreateChannel(c) \/ DeleteChannel(c)
      <4>1. UNCHANGED dataVars /\ UNCHANGED gpc
        BY <3>2 DEF CreateChannel, DeleteChannel
      <4> QED BY <2>3, <3>2, <4>1
    <3>3. CASE \E size \in Sizes : PutNowait(c, size) \/ PutNowaitForce(c, size)
      BY <2>2, <3>1, <3>3 DEF PutNowait, PutNowaitForce
    <3> QED BY <2>4, <3>2, <3>3 DEF ChannelStep
  <2>5. ASSUME NEW p \in Putters, PutterStep(p) PROVE EnoughRoused'
    <3>1. \/ \E d \in created, size \in Sizes : Enqueue(d, size)
          \/ UNCHANGED <<dataVars, lifeVars, gpc>>
      <4>0. channels \subseteq created
        BY <2>0 DEF TypeInv, Shape
      <4>1. CASE \E c \in Channels, size \in Sizes : Put(p, c, size)
        BY <4>0, <4>1 DEF Put, PutOrWait
      <4>2. CASE PutResume(p)
        <5>1. call[p] \in created \X Sizes
          BY <2>0, <4>2 DEF PutResume, TypeInv, CallsMatch, Suspended
        <5>2. call[p][1] \in created /\ call[p][2] \in Sizes
          BY <5>1
        <5> QED BY <4>2, <5>2 DEF PutResume, PutOrWait
      <4>3. CASE PutCancel(p) \/ PutRaise(p)
        BY <4>3 DEF PutCancel, PutRaise
      <4> QED BY <2>5, <4>1, <4>2, <4>3 DEF PutterStep
    <3> QED BY <2>2, <2>3, <3>1
  <2>6. ASSUME NEW g \in Getters, GetterStep(g) PROVE EnoughRoused'
    BY <2>6, GetterKeepsRoused
  <2> QED BY <2>1, <2>4, <2>5, <2>6 DEF Next
<1>3. Inv /\ EnoughRoused => NoLostGetterWakeup
  <2> SUFFICES ASSUME Inv, EnoughRoused, SomeoneWaits, order # <<>>
               PROVE  \E g \in Getters : gpc[g] \in {"woken", "lostRace"}
    BY DEF NoLostGetterWakeup, SomeoneWaits
  <2>1. /\ order \in Seq(Channels) /\ Distinct(order)
        /\ queue \in [Channels -> Seq(Sizes)]
    BY DEF Inv, TypeInv, Shape, OrderMatchesQueues
  <2>2. Head(order) \in Channels /\ Head(order) \in Members(order)
    BY <2>1, TailEffect
  <2>3. 1 \in Slots(Head(order))
    <3>1. CASE Head(order) \in channels
      <4>1. queue[Head(order)] # <<>> /\ queue[Head(order)] \in Seq(Sizes)
        BY <2>1, <2>2, <3>1 DEF Inv, OrderMatchesQueues
      <4>2. Len(queue[Head(order)]) \in Nat \ {0}
        BY <4>1
      <4> QED BY <3>1, <4>2 DEF Slots
    <3>2. CASE Head(order) \notin channels
      BY <3>2 DEF Slots
    <3> QED BY <3>1, <3>2
  <2>4. <<Head(order), 1>> \in Due
    BY <2>2, <2>3 DEF Due
  <2>5. Cardinality(Due) # 0 /\ Cardinality(Due) \in Nat
    BY <2>4, FS_EmptySet, FS_CardinalityType DEF EnoughRoused
  <2>6. IsFiniteSet(Roused) /\ Cardinality(Roused) \in Nat
    BY FS_Subset, FS_CardinalityType DEF Roused
  <2>7. Cardinality(Roused) # 0
    BY <2>5, <2>6 DEF EnoughRoused
  <2>8. Roused # {}
    BY <2>7, FS_EmptySet
  <2> QED BY <2>8 DEF Roused
<1> QED BY <1>1, <1>2, <1>3, InvHolds, PTL DEF Spec

-----------------------------------------------------------------------------
(***************************************************************************)
(* Round robin.  A channel at place i of _order has i - 1 turns before its *)
(* own; a turn brings it one place forward, and a channel that comes in or *)
(* comes back goes to the end.  What it was passed over and what it has    *)
(* before it add up to less than the number of channels, as _order names   *)
(* none twice.                                                             *)
(***************************************************************************)

TurnsLeft ==
    /\ \A i \in DOMAIN order : skipped[order[i]] + i <= Cardinality(Channels)
    /\ \A c \in Channels \ Members(order) : skipped[c] = 0

\* A sequence that names no channel twice is no longer than their number.
LEMMA DistinctLength ==
    ASSUME NEW w \in Seq(Channels), Distinct(w)
    PROVE  Len(w) <= Cardinality(Channels) /\ Cardinality(Channels) \in Nat
<1>1. Len(w) \in Nat /\ DOMAIN w = 1 .. Len(w)
  OBVIOUS
<1>2. w \in [1 .. Len(w) -> Channels]
  BY LenProperties
<1>3. w \in Injection(1 .. Len(w), Channels)
  BY <1>1, <1>2 DEF Injection, IsInjective, Distinct
<1>4. Cardinality(1 .. Len(w)) <= Cardinality(Channels)
  BY <1>3, FS_Injection, SizesAssumption
<1>5. Cardinality(1 .. Len(w)) = Len(w)
  <2>1. \A n \in Int : Cardinality(1 .. n) = IF 1 > n THEN 0 ELSE n - 1 + 1
    BY FS_Interval
  <2> QED BY <1>1, <2>1
<1>6. Cardinality(Channels) \in Nat
  BY FS_CardinalityType, SizesAssumption
<1> QED BY <1>4, <1>5, <1>6

\* _put() brings a channel in at the end, or leaves the order alone.
LEMMA EnqueueTurns ==
    ASSUME Inv, Inv', TurnsLeft, NEW c \in created, NEW size \in Sizes, Enqueue(c, size)
    PROVE  TurnsLeft'
<1>1. /\ c \in Channels /\ skipped' = skipped /\ skipped \in [Channels -> Nat]
      /\ order \in Seq(Channels) /\ order' \in Seq(Channels) /\ Distinct(order')
  BY DEF Inv, TypeInv, Shape, OrderMatchesQueues, Enqueue
<1>2. CASE order' = order
  BY <1>1, <1>2 DEF TurnsLeft
<1>3. CASE c \notin Members(order) /\ order' = Append(order, c)
  <2>1. /\ Members(order') = Members(order) \cup {c}
    BY <1>1, <1>3, AppendEffect
  <2>2. /\ DOMAIN order' = 1 .. Len(order) + 1 /\ DOMAIN order = 1 .. Len(order)
        /\ order'[Len(order) + 1] = c /\ Len(order') = Len(order) + 1
        /\ \A i \in 1 .. Len(order) : order'[i] = order[i]
        /\ Len(order) \in Nat
    BY <1>1, <1>3
  <2>3. Len(order) + 1 <= Cardinality(Channels)
    BY <1>1, <2>2, DistinctLength
  <2>4. skipped[c] = 0
    BY <1>1, <1>3 DEF TurnsLeft
  <2>5. ASSUME NEW i \in DOMAIN order'
        PROVE  skipped'[order'[i]] + i <= Cardinality(Channels)
    <3>1. CASE i = Len(order) + 1
      BY <1>1, <2>2, <2>3, <2>4, <3>1
    <3>2. CASE i \in 1 .. Len(order)
      BY <1>1, <2>2, <3>2 DEF TurnsLeft
    <3> QED BY <2>2, <3>1, <3>2
  <2>6. \A d \in Channels \ Members(order') : skipped'[d] = 0
    BY <1>1, <2>1 DEF TurnsLeft
  <2> QED BY <2>5, <2>6 DEF TurnsLeft
<1> QED BY <1>2, <1>3 DEF Enqueue

\* get_nowait() brings the others one place forward and counts that turn.
LEMMA GetTurns ==
    ASSUME Inv, Inv', TurnsLeft, NEW g \in Getters, GetNowait(g)
    PROVE  TurnsLeft'
<1> DEFINE c == Head(order)
           t == Tail(order)
<1>1. /\ skipped \in [Channels -> Nat] /\ order # <<>> /\ Distinct(order)
      /\ order \in Seq(Channels) /\ order' \in Seq(Channels) /\ Distinct(order')
      /\ skipped' = [d \in Channels |-> IF d \in Members(order) \ {c} THEN skipped[d] + 1 ELSE 0]
      /\ order' = t \/ order' = Append(t, c)
  BY DEF Inv, TypeInv, Shape, OrderMatchesQueues, GetNowait, CountTurn
<1>2. /\ c \in Channels /\ t \in Seq(Channels) /\ Members(t) = Members(order) \ {c}
  BY <1>1, TailEffect
<1>3. /\ Len(order) \in Nat \ {0} /\ Len(t) = Len(order) - 1
      /\ DOMAIN order = 1 .. Len(order) /\ DOMAIN t = 1 .. Len(order) - 1
      /\ \A i \in 1 .. Len(order) - 1 : t[i] = order[i + 1]
  BY <1>1
<1> HIDE DEF c, t
<1>4. ASSUME NEW i \in DOMAIN t
      PROVE  skipped'[t[i]] + i <= Cardinality(Channels)
  <2>1. /\ i + 1 \in DOMAIN order /\ t[i] = order[i + 1] /\ i \in Int
        /\ t[i] \in Members(t) /\ t[i] \in Channels
    BY <1>2, <1>3 DEF Members
  <2>2. skipped'[t[i]] = skipped[order[i + 1]] + 1
    BY <1>1, <1>2, <2>1
  <2>3. skipped[order[i + 1]] + (i + 1) <= Cardinality(Channels)
    BY <2>1 DEF TurnsLeft
  <2>4. skipped[order[i + 1]] \in Nat /\ Cardinality(Channels) \in Nat
    BY <1>1, <2>1, DistinctLength
  <2> QED BY <2>1, <2>2, <2>3, <2>4
<1>5. CASE order' = t
  BY <1>1, <1>2, <1>4, <1>5 DEF TurnsLeft
<1>6. CASE order' = Append(t, c)
  <2>1. Members(order') = Members(t) \cup {c}
    BY <1>2, <1>6, AppendEffect
  <2>2. /\ DOMAIN order' = 1 .. Len(t) + 1 /\ order'[Len(t) + 1] = c
        /\ Len(order') = Len(t) + 1 /\ Len(t) \in Nat
        /\ \A i \in DOMAIN t : order'[i] = t[i]
    BY <1>2, <1>6
  <2>3. Len(t) + 1 <= Cardinality(Channels)
    BY <1>1, <2>2, DistinctLength
  <2>4. skipped'[c] = 0
    BY <1>1, <1>2
  <2>5. ASSUME NEW i \in DOMAIN order'
        PROVE  skipped'[order'[i]] + i <= Cardinality(Channels)
    <3>1. CASE i = Len(t) + 1
      BY <2>2, <2>3, <2>4, <3>1
    <3>2. CASE i \in DOMAIN t
      BY <1>4, <2>2, <3>2
    <3> QED BY <1>3, <2>2, <3>1, <3>2
  <2>6. \A d \in Channels \ Members(order') : skipped'[d] = 0
    BY <1>1, <1>2, <2>1
  <2> QED BY <2>5, <2>6 DEF TurnsLeft
<1> QED BY <1>1, <1>5, <1>6

\* Round robin (queue.py:98-100, 267-270): a channel with queued messages is
\* passed over by fewer gets than there are channels, whatever the others do
\* and however many channels there are.
THEOREM NoStarvationHolds == Spec => []NoStarvation
<1>1. Init => TurnsLeft
  BY DEF Init, TurnsLeft
<1>2. Inv /\ Inv' /\ TurnsLeft /\ [Next]_vars => TurnsLeft'
  <2> SUFFICES ASSUME Inv, Inv', TurnsLeft, [Next]_vars PROVE TurnsLeft'
    OBVIOUS
  <2>1. CASE UNCHANGED <<order, skipped>>
    BY <2>1 DEF TurnsLeft
  <2>2. CASE UNCHANGED vars
    BY <2>1, <2>2 DEF vars, dataVars
  <2>3. CASE Next
    <3>1. TypeInv
      BY DEF Inv
    <3> QED
      BY <2>1, <2>3, <3>1, StepShapes, EnqueueTurns, GetTurns DEF dataVars
  <2> QED BY <2>2, <2>3
<1>3. Inv /\ TurnsLeft => NoStarvation
  <2> SUFFICES ASSUME Inv, TurnsLeft, NEW c \in Channels
               PROVE  skipped[c] < Cardinality(Channels)
    BY DEF NoStarvation
  <2>1. /\ order \in Seq(Channels) /\ Distinct(order) /\ skipped[c] \in Nat
    BY DEF Inv, TypeInv, Shape, OrderMatchesQueues
  <2>2. Cardinality(Channels) \in Nat
    BY <2>1, DistinctLength
  <2>3. CASE c \in Members(order)
    <3>1. PICK i \in DOMAIN order : order[i] = c
      BY <2>3 DEF Members
    <3>2. i \in Nat /\ i >= 1
      BY <2>1
    <3> QED BY <2>1, <2>2, <3>1, <3>2 DEF TurnsLeft
  <2>4. CASE c \notin Members(order)
    <3>1. skipped[c] = 0
      BY <2>4 DEF TurnsLeft
    <3>2. Cardinality(Channels) # 0
      BY FS_EmptySet, SizesAssumption
    <3> QED BY <2>2, <3>1, <3>2
  <2> QED BY <2>3, <2>4
<1> QED BY <1>1, <1>2, <1>3, InvHolds, PTL DEF Spec

-----------------------------------------------------------------------------
(***************************************************************************)
(* What ends the write loop                                                *)
(***************************************************************************)

\* A put() that is resumed finds its channel registered.  The code does not look
\* (queue.py:165-179): delete_channel() may have come in between.
ResumesRegistered == [][\A p \in Putters : PutResume(p) => call[p][1] \in channels]_vars

\* Every turn is of a registered channel.
TurnsRegistered == Members(order) \subseteq channels

\* With that, a step puts only into registered channels.
LEMMA RegisteredShapes ==
    ASSUME Inv, Next, \A p \in Putters : PutResume(p) => call[p][1] \in channels
    PROVE  \/ \E c \in channels, size \in Sizes : Enqueue(c, size)
           \/ \E g \in Getters : GetNowait(g)
           \/ UNCHANGED dataVars /\ \E c \in Channels : CreateChannel(c) \/ DeleteChannel(c)
           \/ UNCHANGED <<dataVars, lifeVars>>
<1>1. ASSUME NEW c \in Channels, ChannelStep(c)
      PROVE  \/ \E d \in channels, size \in Sizes : Enqueue(d, size)
             \/ UNCHANGED dataVars /\ (CreateChannel(c) \/ DeleteChannel(c))
  BY <1>1 DEF ChannelStep, CreateChannel, DeleteChannel, PutNowait, PutNowaitForce
<1>2. ASSUME NEW p \in Putters, PutterStep(p)
      PROVE  \/ \E d \in channels, size \in Sizes : Enqueue(d, size)
             \/ UNCHANGED <<dataVars, lifeVars>>
  <2>1. CASE \E c \in Channels, size \in Sizes : Put(p, c, size)
    BY <2>1 DEF Put, PutOrWait
  <2>2. CASE PutResume(p)
    <3>1. call[p] \in created \X Sizes
      BY <2>2 DEF PutResume, Inv, TypeInv, CallsMatch, Suspended
    <3>2. call[p][1] \in channels /\ call[p][2] \in Sizes
      BY <2>2, <3>1
    <3> QED BY <2>2, <3>2 DEF PutResume, PutOrWait
  <2>3. CASE PutCancel(p) \/ PutRaise(p)
    BY <2>3 DEF PutCancel, PutRaise
  <2> QED BY <1>2, <2>1, <2>2, <2>3 DEF PutterStep
<1>3. ASSUME NEW g \in Getters, GetterStep(g)
      PROVE  GetNowait(g) \/ UNCHANGED <<dataVars, lifeVars>>
  BY <1>3 DEF GetterStep, Get, GetResume, GetCancel, GetRaise, GetOrWait
<1> QED BY <1>1, <1>2, <1>3 DEF Next

\* Such steps keep every turn registered: a channel leaves _channels only with
\* nothing queued, and then it has no turn.
LEMMA TurnsStep ==
    ASSUME Inv, Next, \A p \in Putters : PutResume(p) => call[p][1] \in channels,
           TurnsRegistered
    PROVE  TurnsRegistered'
<1>0. /\ order \in Seq(Channels) /\ Distinct(order) /\ channels \subseteq Channels
      /\ \A c \in channels : c \in Members(order) <=> queue[c] # <<>>
  BY DEF Inv, TypeInv, Shape, OrderMatchesQueues
<1>1. ASSUME NEW c \in channels, NEW size \in Sizes, Enqueue(c, size)
      PROVE  TurnsRegistered'
  <2>1. channels' = channels /\ c \in Channels
    BY <1>0, <1>1 DEF Enqueue, lifeVars
  <2>2. Members(order') \subseteq Members(order) \cup {c}
    <3>1. CASE c \in Members(order)
      BY <1>1, <3>1 DEF Enqueue
    <3>2. CASE c \notin Members(order)
      <4>1. order' = Append(order, c)
        BY <1>1, <3>2 DEF Enqueue
      <4> QED BY <1>0, <2>1, <3>2, <4>1, AppendEffect
    <3> QED BY <3>1, <3>2
  <2> QED BY <2>1, <2>2 DEF TurnsRegistered
<1>2. ASSUME NEW g \in Getters, GetNowait(g)
      PROVE  TurnsRegistered'
  <2> DEFINE c == Head(order)
             rest == Tail(queue[c])
  <2>1. order # <<>>
    BY <1>2 DEF GetNowait
  <2>2. /\ c \in Channels /\ c \in Members(order)
        /\ Tail(order) \in Seq(Channels) /\ Distinct(Tail(order))
        /\ Members(Tail(order)) = Members(order) \ {c}
    BY <1>0, <2>1, TailEffect
  <2>3. c \in channels
    BY <2>2 DEF TurnsRegistered
  <2>4. /\ order' = IF rest # <<>> THEN Append(Tail(order), c) ELSE Tail(order)
        /\ channels' = IF rest = <<>> /\ pending_close[c] THEN channels \ {c} ELSE channels
    BY <1>2, <2>3 DEF GetNowait
  <2> HIDE DEF rest, c
  <2>5. CASE rest = <<>>
    BY <2>2, <2>4, <2>5 DEF TurnsRegistered
  <2>6. CASE rest # <<>>
    <3> DEFINE t == Tail(order)
    <3>1. t \in Seq(Channels) /\ Distinct(t) /\ c \in Channels /\ c \notin Members(t)
      BY <2>2
    <3> HIDE DEF t
    <3>2. Members(Append(t, c)) = Members(t) \cup {c}
      BY <3>1, AppendEffect
    <3> QED BY <2>2, <2>3, <2>4, <2>6, <3>2 DEF t, TurnsRegistered
  <2> QED BY <2>5, <2>6
<1>3. ASSUME NEW c \in Channels, UNCHANGED dataVars, CreateChannel(c) \/ DeleteChannel(c)
      PROVE  TurnsRegistered'
  <2>1. order' = order /\ (channels \subseteq channels'
                            \/ (c \in channels /\ queue[c] = <<>> /\ channels' = channels \ {c}))
    BY <1>3 DEF dataVars, CreateChannel, DeleteChannel
  <2> QED BY <1>0, <2>1 DEF TurnsRegistered
<1>4. CASE UNCHANGED <<dataVars, lifeVars>>
  BY <1>4 DEF dataVars, lifeVars, TurnsRegistered
<1> QED BY <1>1, <1>2, <1>3, <1>4, RegisteredShapes

\* _wakeup_next() fails nobody.
LEMMA AwakenedGoesOn ==
    ASSUME NEW S, NEW w, NEW pc \in [S -> TaskStates], \A t \in S : pc[t] # "failed"
    PROVE  \A t \in S : Awakened(w, pc)[t] # "failed"
  BY DEF Awakened

\* The only way to the KeyError is the put() that outlives its channel: if every
\* resumed put() found its channel registered, get_nowait() would never raise
\* anything but QueueEmpty, and the queue would never end the write loop, for
\* any limits, tasks and cancellations (queue.py:138-179, 253-279).
THEOREM OnlyOrphansRaise == Spec /\ ResumesRegistered => []GetRaisesOnlyQueueEmpty
<1> DEFINE Good == TurnsRegistered /\ GetRaisesOnlyQueueEmpty
<1>1. Init => Good
  <2>1. Members(<<>>) = {}
    BY DEF Members
  <2> QED BY <2>1 DEF Init, TurnsRegistered, GetRaisesOnlyQueueEmpty
<1>2. ASSUME Inv, [Next]_vars, Good,
             [\A p \in Putters : PutResume(p) => call[p][1] \in channels]_vars
      PROVE  Good'
  <2>1. CASE UNCHANGED vars
    BY <1>2, <2>1 DEF vars, lifeVars, dataVars, TurnsRegistered, GetRaisesOnlyQueueEmpty
  <2>2. CASE vars' # vars
    <3>1. Next /\ \A p \in Putters : PutResume(p) => call[p][1] \in channels
      BY <1>2, <2>2
    <3>2. TurnsRegistered'
      BY <1>2, <3>1, TurnsStep
    <3>3. gpc \in [Getters -> TaskStates] /\ \A g \in Getters : gpc[g] # "failed"
      BY <1>2 DEF Inv, TypeInv, Shape, GetRaisesOnlyQueueEmpty
    <3>4. \A g \in Getters : Awakened(getters, gpc)[g] # "failed"
      BY <3>3, AwakenedGoesOn
    <3>5. ASSUME NEW c \in Channels, ChannelStep(c) PROVE GetRaisesOnlyQueueEmpty'
      BY <3>3, <3>4, <3>5 DEF ChannelStep, CreateChannel, DeleteChannel, PutNowait,
                              PutNowaitForce, Enqueue, GetRaisesOnlyQueueEmpty
    <3>6. ASSUME NEW p \in Putters, PutterStep(p) PROVE GetRaisesOnlyQueueEmpty'
      BY <3>3, <3>4, <3>6 DEF PutterStep, Put, PutResume, PutOrWait, PutCancel, PutRaise,
                              Enqueue, GetRaisesOnlyQueueEmpty
    <3>7. ASSUME NEW g \in Getters, GetterStep(g) PROVE GetRaisesOnlyQueueEmpty'
      <4>1. CASE GetNowait(g)
        <5>1. Head(order) \in channels
          <6>1. order \in Seq(Channels) /\ Distinct(order) /\ order # <<>>
            BY <1>2, <4>1 DEF Inv, TypeInv, Shape, OrderMatchesQueues, GetNowait
          <6>2. Head(order) \in Members(order)
            BY <6>1, TailEffect
          <6> QED BY <1>2, <6>2 DEF TurnsRegistered
        <5>2. gpc' = [gpc EXCEPT ![g] = "idle"]
          BY <4>1, <5>1 DEF GetNowait
        <5> QED BY <3>3, <5>2 DEF GetRaisesOnlyQueueEmpty
      <4>2. CASE GetCancel(g)
        BY <3>3, <4>2 DEF GetCancel, GetRaisesOnlyQueueEmpty
      <4>3. CASE GetRaise(g)
        <5> DEFINE pc == [gpc EXCEPT ![g] = "idle"]
                   w == Without(getters, g)
        <5>1. gpc' = Awakened(w, pc) \/ gpc' = pc
          BY <4>3 DEF GetRaise
        <5>2. pc \in [Getters -> TaskStates] /\ \A h \in Getters : pc[h] # "failed"
          BY <3>3 DEF TaskStates
        <5> HIDE DEF pc, w
        <5>3. \A h \in Getters : Awakened(w, pc)[h] # "failed"
          BY <5>2, AwakenedGoesOn
        <5> QED BY <5>1, <5>2, <5>3 DEF GetRaisesOnlyQueueEmpty
      <4>4. CASE gpc' = [gpc EXCEPT ![g] = "waiting"]
        BY <3>3, <4>4 DEF GetRaisesOnlyQueueEmpty
      <4> QED BY <3>7, <4>1, <4>2, <4>3, <4>4 DEF GetterStep, Get, GetResume, GetOrWait
    <3>8. GetRaisesOnlyQueueEmpty'
      BY <3>1, <3>5, <3>6, <3>7 DEF Next
    <3> QED BY <3>2, <3>8
  <2> QED BY <2>1, <2>2
<1> HIDE DEF Good
<1>3. Good => GetRaisesOnlyQueueEmpty
  BY DEF Good
<1> QED BY <1>1, <1>2, <1>3, InvHolds, PTL DEF Spec, ResumesRegistered
=============================================================================
