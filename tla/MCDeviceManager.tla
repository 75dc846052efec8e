-------------------------- MODULE MCDeviceManager --------------------------
(***************************************************************************)
(* DeviceManager for TLC: three devices, two session threads, two commands *)
(* each, on dependency graphs with and without a cycle.                    *)
(***************************************************************************)
EXTENDS DeviceManager, TLC

CONSTANTS d1, d2, d3

\* d1 needs the other two (as tests/uses_context.hpp does), d2 needs d3 too.
Layered == d1 :> <<d2, d3>> @@ d2 :> <<d3>> @@ d3 :> << >>
\* d1 and d2 need each other.
Mutual == d1 :> <<d2>> @@ d2 :> <<d3, d1>> @@ d3 :> << >>
\* d3 needs itself.
Self == d1 :> <<d3>> @@ d2 :> << >> @@ d3 :> <<d3>>

TestGraphs == {Layered, Mutual, Self}

\* An operation of d1 gets d1 itself (UsesContext::is_myself), one of d3 gets d1.
TestOpGets == d1 :> {d1} @@ d2 :> {} @@ d3 :> {d1}
=============================================================================
