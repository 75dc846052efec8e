---------------------------- MODULE MCWebSocket ----------------------------
(***************************************************************************)
(* WebSocket for TLC, in bytes scaled down: headers of 2, 3 and 4 bytes, a  *)
(* command header of 2, a buffer of 14 of which 5 are kept free, and the   *)
(* other limit at 7.                                                       *)
(***************************************************************************)
EXTENDS WebSocket

F(o, h, p) == [opcode |-> o, header |-> h, payload |-> p]

\* Command frames of each header size: the shortest, one that meets the
\* limit of 7 bytes, the longest that fits.
Commands == {F("text", 2, 2), F("binary", 3, 4), F("binary", 3, 5), F("binary", 4, 9)}

\* Frames that end the session.
Others == {F("binary", 2, 0), F("binary", 2, 1), F("binary", 4, 10), F("binary", 2, 13),
           F("close", 2, 0),
           F("ping", 2, 0), F("pong", 2, 0), F("continuation", 2, 2), F("invalid", 2, 1)}

TestScripts ==
  {<<c, d>> : c, d \in Commands} \cup {<<c, o>> : c \in Commands, o \in Others}
    \cup {<<o>> : o \in Others}
=============================================================================
