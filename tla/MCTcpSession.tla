---------------------------- MODULE MCTcpSession ----------------------------
(***************************************************************************)
(* TcpSession for TLC: a header of two bytes, and a command without        *)
(* arguments, one with scalars, one with a scalar and a vector, one with a *)
(* string, one with a vector that is too long, one for a device that is    *)
(* not there and an unknown one whose argument is as long as a header.     *)
(***************************************************************************)
EXTENDS TcpSession, TLC

CONSTANTS plain, scalars, vector, string, huge, nodevice, unknown

Pack(f, n) == [family |-> f, size |-> n]

TestPacks ==
  plain :> << >> @@ scalars :> <<Pack("scalar", 3)>>
  @@ vector :> <<Pack("scalar", 1), Pack("vector", 1)>>
  @@ string :> <<Pack("string", 1), Pack("scalar", 1)>>
  @@ huge :> <<Pack("vector", 2)>> @@ nodevice :> << >>
  @@ unknown :> <<Pack("scalar", 2)>>

TestScripts == UNION {[1..n -> Command] : n \in 0..2}
=============================================================================
