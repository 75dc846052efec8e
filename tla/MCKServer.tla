----------------------------- MODULE MCKServer -----------------------------
(***************************************************************************)
(* KServer for TLC: a TCP channel for two sessions with the WebSocket      *)
(* channel disabled, or both channels enabled.                             *)
(***************************************************************************)
EXTENDS KServer, TLC

CONSTANTS tcp, websock

TwoTcpWorkers == [k \in {tcp, websock} |-> IF k = tcp THEN 2 ELSE 0]

BothKinds == [k \in {tcp, websock} |-> 1]

KSSymmetry == Permutations(Fd) \cup Permutations(Thread)
=============================================================================
