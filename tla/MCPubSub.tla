------------------------------ MODULE MCPubSub ------------------------------
(***************************************************************************)
(* PubSub for TLC: two sessions, one of which has a client that may stop   *)
(* reading, so that one can be served while the other blocks a sender.     *)
(***************************************************************************)
EXTENDS PubSub
=============================================================================
