----------------------------- MODULE GcmSession -----------------------------
(***************************************************************************)
(* The nonces of a tunnel under AES-GCM (GCMCryptoTransport, crypto.py).   *)
(* Both ends encrypt with the key of the token: first the challenge and    *)
(* its answer (peer.py, client_peer.py), then every header and NEW data    *)
(* (core.py).  The key belongs to this session only, as the class asks.    *)
(***************************************************************************)
EXTENDS Integers

CONSTANT MAX_COUNTER  \* _GCM_MAX_COUNTER, 2^64 - 1 in the source

Ends == {"client", "server"}

VARIABLES
    counter, \* _counter of each end
    failed,  \* MultiplexerTransportError was raised at the end
    used     \* history: the nonces that went over the wire

vars == <<counter, failed, used>>

Init ==
    /\ counter = [e \in Ends |-> 0]
    /\ failed = [e \in Ends |-> FALSE]
    /\ used = {}

\* The client is the initiator.  to_bytes keeps the number.
Nonce(e, n) == <<IF e = "client" THEN 0 ELSE 1, n>>

\* encrypt, with _next_nonce
Encrypts(e) ==
    /\ counter[e] <= MAX_COUNTER
    /\ used' = used \cup {Nonce(e, counter[e])}
    /\ counter' = [counter EXCEPT ![e] = @ + 1]
    /\ UNCHANGED failed

\* encrypt when the counter is used up
Refuses(e) ==
    /\ counter[e] > MAX_COUNTER
    /\ failed' = [failed EXCEPT ![e] = TRUE]
    /\ UNCHANGED <<counter, used>>

Next == \E e \in Ends : Encrypts(e) \/ Refuses(e)

Spec == Init /\ [][Next]_vars

-----------------------------------------------------------------------------

\* No nonce is used twice by the two ends together, although they count
\* independently under one key, and none has a counter that eight bytes cannot
\* hold (crypto.py:24-31, 160-170).
NonceIsFresh ==
    [][\A e \in Ends : counter'[e] # counter[e] =>
          /\ Nonce(e, counter[e]) \notin used
          /\ Nonce(e, counter[e]) \in used'
          /\ counter[e] \in 0 .. MAX_COUNTER]_vars
=============================================================================
