----------------------------- MODULE MCConnections -----------------------------
(* Connections for TLC: two workers, four clients, five descriptor numbers. *)
EXTENDS Connections, TLC

CONSTANTS w1, w2, c1, c2, c3, c4

TwoWorkers  == {w1, w2}
FourClients == {c1, c2, c3, c4}
FiveNumbers == 4..8

(* The others may stay silent or fail the handshake. *)
HalfPolite == {c1, c2}
================================================================================
