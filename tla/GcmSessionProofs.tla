-------------------------- MODULE GcmSessionProofs --------------------------
(***************************************************************************)
(* Nonces are fresh for counters of any width.                             *)
(***************************************************************************)
EXTENDS GcmSession, TLAPS

\* A nonce that was used is one that its end has counted past: the prefix says
\* whose it is, so the counter of that end alone decides.
UsedAreCounted ==
    /\ counter \in [Ends -> Nat]
    /\ \A e \in Ends, n \in Nat : Nonce(e, n) \in used => n < counter[e]

\* Prefix and counter can be told from the nonce.
LEMMA NonceInjective ==
    ASSUME NEW e \in Ends, NEW f \in Ends, NEW n, NEW k, Nonce(e, n) = Nonce(f, k)
    PROVE  e = f /\ n = k
  BY DEF Nonce, Ends

\* Every step keeps the invariant.
LEMMA UsedAreCountedNext == UsedAreCounted /\ [Next]_vars => UsedAreCounted'
<1> SUFFICES ASSUME UsedAreCounted, [Next]_vars PROVE UsedAreCounted'
  OBVIOUS
<1>1. ASSUME NEW e \in Ends, Encrypts(e) PROVE UsedAreCounted'
  <2>1. counter' \in [Ends -> Nat] /\ counter'[e] = counter[e] + 1
    BY <1>1 DEF Encrypts, UsedAreCounted
  <2>2. ASSUME NEW f \in Ends, NEW n \in Nat, Nonce(f, n) \in used'
        PROVE  n < counter'[f]
    <3>1. CASE Nonce(f, n) \in used
      BY <1>1, <3>1 DEF Encrypts, UsedAreCounted
    <3>2. CASE Nonce(f, n) = Nonce(e, counter[e])
      <4>1. f = e /\ n = counter[e]
        BY <3>2, NonceInjective
      <4> QED BY <2>1, <4>1 DEF UsedAreCounted
    <3> QED BY <1>1, <2>2, <3>1, <3>2 DEF Encrypts
  <2> QED BY <2>1, <2>2 DEF UsedAreCounted
<1>2. ASSUME NEW e \in Ends, Refuses(e) PROVE UsedAreCounted'
  BY <1>2 DEF Refuses, UsedAreCounted
<1>3. CASE UNCHANGED vars
  BY <1>3 DEF vars, UsedAreCounted
<1> QED BY <1>1, <1>2, <1>3 DEF Next

\* No nonce is used twice under the key of a session, by whichever end, and
\* the counter stops before it runs over (crypto.py:24-31, 160-170).
THEOREM NonceIsFreshHolds == Spec => NonceIsFresh
<1>1. Init => UsedAreCounted
  BY DEF Init, UsedAreCounted
<1>2. UsedAreCounted /\ [Next]_vars =>
         [\A e \in Ends : counter'[e] # counter[e] =>
             /\ Nonce(e, counter[e]) \notin used
             /\ Nonce(e, counter[e]) \in used'
             /\ counter[e] \in 0 .. MAX_COUNTER]_vars
  <2> SUFFICES ASSUME UsedAreCounted, Next, NEW e \in Ends, counter'[e] # counter[e]
               PROVE  /\ Nonce(e, counter[e]) \notin used
                      /\ Nonce(e, counter[e]) \in used'
                      /\ counter[e] \in 0 .. MAX_COUNTER
    BY DEF vars
  <2>1. Encrypts(e)
    BY DEF Next, Encrypts, Refuses, UsedAreCounted
  <2>2. counter[e] \in Nat /\ counter[e] <= MAX_COUNTER
    BY <2>1 DEF Encrypts, UsedAreCounted
  <2>3. Nonce(e, counter[e]) \notin used
    BY <2>2 DEF UsedAreCounted
  <2> QED BY <2>1, <2>2, <2>3 DEF Encrypts
<1> QED BY <1>1, <1>2, UsedAreCountedNext, PTL DEF Spec, NonceIsFresh
=============================================================================
