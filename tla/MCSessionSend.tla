--------------------------- MODULE MCSessionSend ---------------------------
(***************************************************************************)
(* SessionSend for TLC, with bytes of 12 values: frames of up to 9 bytes    *)
(* are small and of up to 143 medium.  The messages are one without         *)
(* arguments, one with scalars at the ends of their ranges, one with a      *)
(* scalar before, between and after a vector and an array, an empty        *)
(* string, one in a big frame and one too large for a WebSocket.            *)
(***************************************************************************)
EXTENDS SessionSend

CONSTANTS session, emitter

\* A send by the session and one by an emitter are the same steps.
Threads == Permutations(Thread)

Arg(f, t, v) == [family |-> f, type |-> t, values |-> v]
Msg(c, f, a) == [class |-> c, func |-> f, args |-> a]

Blob(n) == [i \in 1..n |-> (i % 24) - 12]

TestMessages ==
  {Msg(1, 0, << >>),
   Msg(1, 143, <<Arg("scalar", "i16", <<-72>>), Arg("scalar", "bool", <<TRUE>>),
                 Arg("scalar", "i64", <<-2>>), Arg("scalar", "u64", <<41475>>)>>),
   Msg(2, 1, <<Arg("scalar", "u32", <<20735>>), Arg("container", "i16", <<-1, 13>>),
               Arg("scalar", "bool", <<FALSE>>), Arg("array", "u8", <<11, 0>>),
               Arg("scalar", "float", <<12>>)>>),
   Msg(2, 2, <<Arg("container", "u8", << >>)>>),
   Msg(3, 0, <<Arg("container", "i16", Blob(66))>>),
   Msg(3, 1, <<Arg("container", "i16", Blob(70))>>)}
=============================================================================
