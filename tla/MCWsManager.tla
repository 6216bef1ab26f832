--------------------------- MODULE MCWsManager ---------------------------
(* An instance of WsManager for TLC: two connections of one user. *)
EXTENDS WsManager

CONSTANTS c1, c2, s1, s2, u1

TwoClients == {c1, c2}
TwoSessions == [c \in TwoClients |-> IF c = c1 THEN s1 ELSE s2]
SameUser == [c \in TwoClients |-> u1]
=============================================================================
