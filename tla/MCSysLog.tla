------------------------------ MODULE MCSysLog ------------------------------
(***************************************************************************)
(* SysLog for TLC: two WebSocket subscribers and a TCP one, of which one   *)
(* WebSocket and the TCP one may stop reading; two threads that print.     *)
(***************************************************************************)
EXTENDS SysLog

CONSTANTS w1, w2, p1

MixedOrder == <<w1, p1, w2>>
=============================================================================
