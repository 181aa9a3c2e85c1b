--------------------------- MODULE MCPeerManager ---------------------------
(***************************************************************************)
(* PeerManager for TLC: the tokens of small sets of clients.               *)
(***************************************************************************)
EXTENDS PeerManager

CONSTANTS home, www, other      \* host names

\* Two clients, one of them with an alias.
TwoClients == {[hostname |-> home, alias |-> {www}], [hostname |-> other, alias |-> {}]}

\* One client whose next token drops the alias.
AliasDropped == {[hostname |-> home, alias |-> {www}], [hostname |-> home, alias |-> {}]}
=============================================================================
