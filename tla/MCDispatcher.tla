---------------------------- MODULE MCDispatcher ----------------------------
(***************************************************************************)
(* Dispatcher for TLC: every connection is about the same host, so that a  *)
(* client comes back on the other worker and visitors meet it on either.   *)
(***************************************************************************)
EXTENDS Dispatcher

CONSTANTS home

OneHost == [c \in Conns |-> home]
=============================================================================
