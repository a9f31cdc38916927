------------------------------ MODULE MCWsHub -------------------------------
(***************************************************************************)
(* Instances of WsHub for TLC: two connections from one address, or three  *)
(* from any of three addresses, and channels that fill at once.            *)
(***************************************************************************)
EXTENDS WsHub, TLC

CONSTANTS c1, c2, c3, home, office, train

TwoClients == {c1, c2}
ThreeClients == {c1, c2, c3}
OneIP == {home}
ThreeIPs == {home, office, train}

PauseAndResume == BOOLEAN
NoCommands == {}

\* Connections are alike, and so are addresses (used for safety only).
Alike == Permutations(Clients) \union Permutations(IPs)
=============================================================================
