---------------------------- MODULE MCConnections ----------------------------
(* One request at a time for an organization with two seller accounts.       *)
EXTENDS Connections, TLC

CONSTANTS r1, c1, c2

MCRequest == {r1}
MCSeller == {c1, c2}
=============================================================================
