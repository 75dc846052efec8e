-------------------------- MODULE MCSessionManager --------------------------
(***************************************************************************)
(* SessionManager for TLC: four descriptors, hence up to four live         *)
(* sessions and four ids, so that the stack of reusable ids has an order  *)
(* and a channel a middle element; a channel number that is out of range,  *)
(* and one that is valid only after the narrowing to 16 bits.              *)
(***************************************************************************)
EXTENDS SessionManager, TLC

FdSymmetry == Permutations(Fd)
=============================================================================
