----------------------------- MODULE WebSocket -----------------------------
(***************************************************************************)
(* Session<WEBSOCK> and the reading side of class WebSocket                *)
(* (core/kserver_session.cpp, core/websocket.cpp): the handshake, the      *)
(* frames read into read_str and the commands decoded from them.  Bytes    *)
(* are counted, not represented; a frame is its opcode, the size of its    *)
(* header (the mask included) and the size of its payload.  A read returns *)
(* any part of what is asked for and the client goes away at any byte.     *)
(* Other threads write events to the same connection and mark it closed    *)
(* when a write fails.  A read or a write fails when the client is gone,   *)
(* and also when the thread runs a signal's handler while it is blocked    *)
(* there (the handlers do not ask for a restart).  Signals that interrupt  *)
(* this thread are bounded to one.                                         *)
(***************************************************************************)
EXTENDS Integers, Sequences, FiniteSets

CONSTANTS HEADER_SIZE,             \* Command::HEADER_SIZE
          SMALL_HEADER, MEDIUM_HEADER, BIG_HEADER,
          KSERVER_READ_STR_LEN,    \* the limit read_n_bytes tests
          WEBSOCK_READ_STR_LEN,    \* the size of read_str
          Slack,                   \* kept free by read_header: 56
          HttpSize,                \* bytes of the client's HTTP request
          Scripts                  \* sequences of frames a client sends

ASSUME SizesAssumption ==
  /\ HEADER_SIZE \in Nat \ {0} /\ HttpSize \in Nat \ {0}
  /\ SMALL_HEADER \in Nat \ {0} /\ MEDIUM_HEADER \in Nat /\ BIG_HEADER \in Nat
  /\ SMALL_HEADER < MEDIUM_HEADER /\ MEDIUM_HEADER < BIG_HEADER
  /\ KSERVER_READ_STR_LEN \in Nat /\ WEBSOCK_READ_STR_LEN \in Nat
  /\ BIG_HEADER < KSERVER_READ_STR_LEN
  /\ Slack \in BIG_HEADER..WEBSOCK_READ_STR_LEN

\* The opcodes check_opcode tells apart.
Opcode == {"text", "binary", "close", "continuation", "ping", "pong", "invalid"}
Data == {"text", "binary"}
Frame == [opcode : Opcode, header : {SMALL_HEADER, MEDIUM_HEADER, BIG_HEADER}, payload : Nat]

ASSUME ScriptsAssumption == Scripts \subseteq Seq(Frame)

VARIABLES
  script,              \* the frames of this client, fixed
  has_key,             \* its HTTP request has a WebSocket key, fixed
  arrived,             \* bytes of the stream that have reached the socket
  client,              \* "open", "closed", or "reset": the next read fails
  exit_comm,
  pc,                  \* what the session's thread is doing
  pos,                 \* bytes taken from the socket
  need,                \* bytes read_n_bytes still expects
  read_str_len,
  frame,               \* WebSocket::header: the frame being read
  connection_closed,
  interrupted,         \* a signal has made a read or write of this thread fail
  write_failed,        \* history: a write has failed with the client there
  executed             \* frames executed as commands

netVars == <<script, has_key, arrived, client, exit_comm>>
readVars == <<pos, need, read_str_len, frame, connection_closed>>
signalVars == <<interrupted, write_failed>>
wsVars == <<netVars, pc, readVars, signalVars, executed>>

FrameSize(f) == f.header + f.payload

\* Bytes of the stream up to the end of frame n.
StreamUpTo(n) ==
  LET sum[i \in 0..n] == IF i = 0 THEN HttpSize ELSE sum[i - 1] + FrameSize(script[i])
  IN  sum[n]
StreamSize == StreamUpTo(Len(script))

WSInit ==
  /\ script \in Scripts
  /\ has_key \in BOOLEAN
  /\ arrived = 0
  /\ client = "open"
  /\ exit_comm = FALSE
  /\ pc = "handshake"
  /\ pos = 0 /\ need = 0 /\ read_str_len = 0
  /\ frame = [opcode |-> "invalid", header |-> SMALL_HEADER, payload |-> 0]
  /\ connection_closed = FALSE /\ interrupted = FALSE /\ write_failed = FALSE
  /\ executed = << >>
-----------------------------------------------------------------------------
(***************************************************************************)
(* The client, the main thread and the threads that emit events.           *)
(***************************************************************************)
\* The client waits for the answer to its HTTP request.
Arrive(n) ==
  /\ client = "open"
  /\ arrived + n <= IF pc = "handshake" THEN HttpSize ELSE StreamSize
  /\ arrived' = arrived + n
  /\ UNCHANGED <<script, has_key, client, exit_comm, pc, readVars, signalVars, executed>>

Close(how) ==
  /\ client = "open"
  /\ client' = how
  /\ UNCHANGED <<script, has_key, arrived, exit_comm, pc, readVars, signalVars, executed>>

close_listeners ==
  /\ ~exit_comm
  /\ exit_comm' = TRUE
  /\ UNCHANGED <<script, has_key, arrived, client, pc, readVars, signalVars, executed>>

\* Another thread's emit fails to write, its client being gone or the write
\* interrupted: send_request marks the connection.
EmitFails ==
  /\ ~connection_closed /\ pc # "handshake"
  /\ connection_closed' = TRUE
  /\ write_failed' = (write_failed \/ client = "open")
  /\ UNCHANGED <<netVars, pc, pos, need, read_str_len, frame, interrupted, executed>>

\* A signal ends the write this thread is blocked in: send_request marks the
\* connection.
WriteInterrupted ==
  /\ client = "open" /\ ~interrupted
  /\ interrupted' = TRUE /\ write_failed' = TRUE /\ connection_closed' = TRUE
-----------------------------------------------------------------------------
(***************************************************************************)
(* authenticate: the request is whatever the first read returns; to write  *)
(* the answer may fail.                                                    *)
(***************************************************************************)
Goto(p) == pc' = p /\ UNCHANGED <<netVars, signalVars, executed>>

\* read_stream begins a frame in an empty buffer, at the loop of run.
NextFrame == need' = SMALL_HEADER /\ read_str_len' = 0 /\ UNCHANGED <<frame, connection_closed>>

Handshake(n) ==
  /\ pc = "handshake" /\ client # "reset" /\ n \in 1..(arrived - pos)
  /\ pos' = pos + n
  /\ \/ /\ n = HttpSize /\ has_key /\ n # KSERVER_READ_STR_LEN
        /\ Goto("head") /\ NextFrame
     \/ /\ n # HttpSize \/ ~has_key \/ n = KSERVER_READ_STR_LEN \/ client # "open"
        /\ Goto("returned") /\ UNCHANGED <<need, read_str_len, frame, connection_closed>>
     \/ /\ n = HttpSize /\ has_key /\ n # KSERVER_READ_STR_LEN
        /\ WriteInterrupted /\ pc' = "returned"
        /\ UNCHANGED <<netVars, need, read_str_len, frame, executed>>

HandshakeFails ==
  /\ pc = "handshake" /\ (client = "reset" \/ (client = "closed" /\ arrived = pos))
  /\ Goto("returned") /\ UNCHANGED readVars

\* The only read of the handshake is not repeated.
HandshakeInterrupted ==
  /\ pc = "handshake" /\ client = "open" /\ arrived = pos /\ ~interrupted
  /\ interrupted' = TRUE /\ pc' = "returned"
  /\ UNCHANGED <<netVars, readVars, write_failed, executed>>
-----------------------------------------------------------------------------
(***************************************************************************)
(* read_n_bytes: the two parts of a header, the payload, or, after a       *)
(* header given up, as many bytes as the payload before ("drain").         *)
(***************************************************************************)
Reading == pc \in {"head", "ext", "payload", "drain"}

ReadSome(n) ==
  /\ Reading /\ need > 0 /\ client # "reset"
  /\ n \in 1..need /\ pos + n <= arrived
  /\ pos' = pos + n /\ need' = need - n /\ read_str_len' = read_str_len + n
  /\ UNCHANGED <<netVars, pc, frame, connection_closed, signalVars, executed>>

\* Mutant of ReadEof: an end of stream is read again and again.
ReadEofSpins ==
  /\ Reading /\ need > 0 /\ client = "closed" /\ pos = arrived
  /\ UNCHANGED wsVars

\* No frame has set payload_size, which read_stream is about to use.
PayloadSizeUnset == pc \in {"head", "ext"} /\ executed = << >>

\* read returns 0.  Whatever was being read, read_command finds the connection
\* closed and run returns; a header cut short is first followed by an attempt
\* at the payload of the frame before, which meets the same end of stream.
ReadEof ==
  /\ Reading /\ need > 0 /\ client = "closed" /\ pos = arrived
  /\ ~PayloadSizeUnset
  /\ connection_closed' = TRUE
  /\ Goto("returned") /\ UNCHANGED <<pos, need, read_str_len, frame>>

\* A first header cut short.
ReadEofUninitialised ==
  /\ Reading /\ need > 0 /\ client = "closed" /\ pos = arrived
  /\ PayloadSizeUnset
  /\ connection_closed' = TRUE
  /\ Goto("stray") /\ UNCHANGED <<pos, need, read_str_len, frame>>

\* What read_n_bytes does with an uninitialised size: nothing, or it reads what
\* there is; a read that fails each time is tried again for ever (or waits for
\* a client that stays), and bytes past the end of read_str may end the process.
StrayEnds ==
  /\ pc = "stray"
  /\ \E p \in {"returned", "spins", "crashed"} : Goto(p)
  /\ UNCHANGED readVars

\* read returns -1: the inner loop ends without a report and the outer one
\* reads again; the error is cleared and the stream at its end.
ReadError ==
  /\ Reading /\ need > 0 /\ client = "reset" /\ read_str_len # KSERVER_READ_STR_LEN
  /\ client' = "closed" /\ arrived' = pos
  /\ UNCHANGED <<script, has_key, exit_comm, pc, readVars, signalVars, executed>>

\* The test after the inner loop, against the length of another buffer.
Overflow ==
  /\ Reading /\ (need = 0 \/ client = "reset")
  /\ read_str_len = KSERVER_READ_STR_LEN
  /\ Goto("returned") /\ UNCHANGED readVars

\* A signal ends the read this thread is blocked in, with -1 as well: the
\* outer loop reads again, unless as many bytes as that test names are there.
ReadInterrupted ==
  /\ Reading /\ need > 0 /\ client = "open" /\ pos = arrived /\ ~interrupted
  /\ interrupted' = TRUE
  /\ pc' = IF read_str_len = KSERVER_READ_STR_LEN THEN "returned" ELSE pc
  /\ UNCHANGED <<netVars, readVars, write_failed, executed>>

\* read_n_bytes has returned 0.
DoneReading(at) == pc = at /\ need = 0 /\ read_str_len # KSERVER_READ_STR_LEN
-----------------------------------------------------------------------------
(***************************************************************************)
(* read_header, read_stream and read_command                               *)
(***************************************************************************)
\* The loop of run: exit_comm ends it, and a connection known to be closed is
\* not read.  A thread past these tests waits for its client.
RunSeesExit ==
  /\ pc = "head" /\ need = SMALL_HEADER /\ (exit_comm \/ connection_closed)
  /\ Goto("returned") /\ UNCHANGED readVars

\* The frames whose first bytes the buffer may hold.
Decoded ==
  LET at == {i \in DOMAIN script : StreamUpTo(i - 1) = pos - SMALL_HEADER}
  IN  IF at = {} THEN {script[i] : i \in DOMAIN script} ELSE {script[i] : i \in at}

\* Mutant of TooLarge: no bound on the size of a message.
AcceptsAnySize(f) == FALSE

\* The test at the end of read_header.
TooLarge(f) == f.payload > WEBSOCK_READ_STR_LEN - Slack

\* What follows the size of the payload.
SizeRead(f) ==
  IF TooLarge(f) THEN pc' = "returned" /\ UNCHANGED need
  ELSE pc' = "payload" /\ need' = f.payload


\* The opcode and the short size are known; a longer size follows.
HeadRead(f) ==
  /\ DoneReading("head") /\ ~connection_closed
  /\ f \in Decoded /\ f.opcode \in Data
  /\ frame' = f
  /\ IF f.header = SMALL_HEADER THEN SizeRead(f)
     ELSE pc' = "ext" /\ need' = f.header - SMALL_HEADER
  /\ UNCHANGED <<netVars, pos, read_str_len, connection_closed, signalVars, executed>>

\* check_opcode: a close frame closes the connection, the others are errors;
\* either way run returns.
HeadRefused(f) ==
  /\ DoneReading("head") /\ ~connection_closed
  /\ f \in Decoded /\ f.opcode \notin Data
  /\ frame' = f
  /\ connection_closed' = (f.opcode = "close")
  /\ Goto("returned") /\ UNCHANGED <<pos, need, read_str_len>>

ExtRead ==
  /\ DoneReading("ext") /\ ~connection_closed
  /\ SizeRead(frame)
  /\ UNCHANGED <<netVars, pos, read_str_len, frame, connection_closed, signalVars, executed>>

\* The early returns of read_header, when a write has failed meanwhile: no
\* error, and read_stream goes on with the payload_size of the frame before.
HeaderClosed ==
  /\ DoneReading("head") \/ DoneReading("ext")
  /\ connection_closed
  /\ IF PayloadSizeUnset THEN Goto("stray") /\ UNCHANGED need
     ELSE Goto("drain") /\ need' = executed[Len(executed)].payload
  /\ UNCHANGED <<pos, read_str_len, frame, connection_closed>>

\* read_command finds the connection closed.
DrainDone ==
  /\ DoneReading("drain")
  /\ Goto("returned") /\ UNCHANGED readVars

\* Mutant of Refused: a command without arguments is taken for a short frame.
RefusesBare == read_str_len < frame.header + 1 \/ connection_closed \/ frame.payload <= HEADER_SIZE

\* Mutant of Refused: a frame shorter than a command header is executed.
RefusesNone == FALSE

\* decode_raw_stream_cmd refuses an empty payload, read_command a connection
\* that is closed and a payload shorter than a command header.
Refused == read_str_len < frame.header + 1 \/ connection_closed \/ frame.payload < HEADER_SIZE

PayloadRefused ==
  /\ DoneReading("payload") /\ (Refused \/ exit_comm)
  /\ Goto("returned") /\ UNCHANGED readVars

\* The command is executed and answered; an answer that cannot be written
\* closes the connection.
Execute ==
  /\ DoneReading("payload") /\ ~Refused /\ ~exit_comm
  /\ executed' = Append(executed, frame)
  /\ pc' = "head"
  /\ need' = SMALL_HEADER /\ read_str_len' = 0
  /\ \/ connection_closed' \in {connection_closed, client # "open"} /\ UNCHANGED signalVars
     \/ WriteInterrupted
  /\ UNCHANGED <<netVars, pos, frame>>

SessionThread ==
  \/ \E n \in 1..arrived : Handshake(n)
  \/ HandshakeFails
  \/ \E n \in 1..need : ReadSome(n)
  \/ ReadEof \/ ReadEofUninitialised \/ StrayEnds \/ ReadError \/ Overflow
  \/ \E f \in Decoded : HeadRead(f) \/ HeadRefused(f)
  \/ ExtRead \/ HeaderClosed \/ DrainDone \/ PayloadRefused \/ Execute

Ended == pc \in {"returned", "spins", "crashed"} /\ UNCHANGED wsVars

WSNext ==
  \/ \E n \in 1..(StreamSize - arrived) : Arrive(n)
  \/ \E how \in {"closed", "reset"} : Close(how)
  \/ close_listeners \/ EmitFails
  \/ HandshakeInterrupted \/ ReadInterrupted
  \/ SessionThread \/ RunSeesExit
  \/ Ended

WSSpec == WSInit /\ [][WSNext]_wsVars /\ WF_wsVars(SessionThread)
-----------------------------------------------------------------------------
\* read_n_bytes stores need bytes from read_str_len on: never past the end of
\* read_str, whatever size a frame announces and also when a header is given
\* up for a failed write and the size before is used again.  The one exception
\* is a first header given up, where no size has been set ("stray").
BufferBounded == Reading => read_str_len + need <= WEBSOCK_READ_STR_LEN

\* The commands executed are the client's first frames, in order, each a data
\* frame that holds a whole command header.
ExecutedAsSent ==
  /\ Len(executed) <= Len(script)
  /\ \A i \in DOMAIN executed :
       /\ executed[i] = script[i]
       /\ script[i].opcode \in Data /\ script[i].payload >= HEADER_SIZE

\* Frames the server has no reason to refuse, the limit of read_n_bytes included.
Servable(f) ==
  /\ f.opcode \in Data /\ f.payload >= HEADER_SIZE /\ ~TooLarge(f)
  /\ FrameSize(f) # KSERVER_READ_STR_LEN

\* A session ends while its client stays and the server serves only for a
\* cause: there is no key, the HTTP request did not come in one read (or that
\* read was interrupted), the frame after the executed ones is one the server
\* refuses, a write failed although the client was there, or a read was
\* interrupted with the very number of bytes in the buffer that is taken for
\* an overflow.
RefusedForCause ==
  pc = "returned" /\ client = "open" /\ ~exit_comm =>
    \/ ~has_key \/ pos < HttpSize \/ HttpSize = KSERVER_READ_STR_LEN
    \/ write_failed
    \/ interrupted /\ read_str_len = KSERVER_READ_STR_LEN
    \/ LET next == Len(executed) + 1
       IN  next \in DOMAIN script /\ ~Servable(script[next])


\* The session ends when its client leaves, unless it leaves before its first
\* frame and the uninitialised payload_size keeps read_n_bytes busy, or makes
\* it store past the end of read_str.
SessionEnds ==
  client # "open" ~> pc = "returned" \/ (pc \in {"spins", "crashed"} /\ executed = << >>)
=============================================================================
