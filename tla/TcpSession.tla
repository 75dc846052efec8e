----------------------------- MODULE TcpSession -----------------------------
(***************************************************************************)
(* Session<TCP> (core/kserver_session.hpp and .cpp; Session<UNIX> is the   *)
(* same code): the loop of run, read_command, and the reception of the     *)
(* arguments by the generated operation (scripts/devgen.py).  The stream   *)
(* carries no frame boundary: the server is in step with its client only   *)
(* because it reads of each command exactly what the client wrote.  read   *)
(* returns any part of what is asked for, the client closes or resets the  *)
(* connection at any byte, and rcv_n_bytes returns 0 then, which only      *)
(* read_command takes for an end: the callers of deserialize and recv test *)
(* for a negative result.  A signal makes a read that waits return -1 with *)
(* nothing lost (signal_handler.cpp sets no SA_RESTART), and rcv_n_bytes   *)
(* gives up as it does for a broken connection.                            *)
(*                                                                         *)
(* Bytes are counted, not represented.  A command is the sequence of its   *)
(* argument packs; what a header read out of step holds is arbitrary.  The *)
(* counters requests_num and errors_num, which feed the statistics only,   *)
(* are left out.                                                           *)
(***************************************************************************)
EXTENDS Integers, Sequences, FiniteSets

CONSTANTS HEADER_SIZE,   \* Command::HEADER_SIZE
          LENGTH_SIZE,   \* sizeof(uint32_t), the length before a vector or string
          Command,       \* the commands clients send
          Unknown,       \* those whose operation the server does not know
          NoDevice,      \* of these, the ones whose device is beyond its tables
          Packs,         \* command -> its argument packs [family, size];
                         \* a std::array is read like the scalars
          MaxAlloc,      \* bytes that resize is sure to get
          Scripts        \* sequences of commands a client sends

ASSUME SizesAssumption == HEADER_SIZE \in Nat \ {0} /\ LENGTH_SIZE \in Nat \ {0}
ASSUME CommandAssumption == NoDevice \subseteq Unknown /\ Unknown \subseteq Command
ASSUME PacksAssumption ==
  Packs \in [Command -> Seq([family : {"scalar", "vector", "string"}, size : Nat])]
ASSUME MaxAllocAssumption == MaxAlloc \in Nat
ASSUME ScriptsAssumption == Scripts \subseteq Seq(Command)

VARIABLES
  script,       \* the commands of this client, fixed
  arrived,      \* bytes of the stream that have reached the server's socket
  client,       \* "open", "closed", or "reset": the next read fails
  exit_comm,    \* KServer::exit_comm
  interrupted,  \* a signal has been handled on this thread; one at most
  cut,          \* the number of the command a signal cut short, 0 if none
  pc,           \* what run, or the operation it executes, is doing
  pos,          \* bytes taken from the socket
  need,         \* bytes rcv_n_bytes has still to read
  cmd,          \* the command being executed
  pack,         \* the argument pack being received
  whole,        \* no argument of cmd was cut short
  executed      \* operations called: [cmd, whole]

netVars == <<script, arrived, client, exit_comm, interrupted, cut>>
tsVars == <<netVars, pc, pos, need, cmd, pack, whole, executed>>

\* Bytes of a pack, of a command and of the first n commands of the script.
PackSize(p) == IF p.family = "scalar" THEN p.size ELSE LENGTH_SIZE + p.size

SumUpTo(f, n) ==
  LET sum[i \in 0..n] == IF i = 0 THEN 0 ELSE sum[i - 1] + f[i]
  IN  sum[n]

PacksUpTo(c, n) == SumUpTo([i \in DOMAIN Packs[c] |-> PackSize(Packs[c][i])], n)
CommandSize(c) == HEADER_SIZE + PacksUpTo(c, Len(Packs[c]))

StreamUpTo(n) == SumUpTo([i \in DOMAIN script |-> CommandSize(script[i])], n)
StreamSize == StreamUpTo(Len(script))

TSInit ==
  /\ script \in Scripts
  /\ arrived = 0
  /\ client = "open"
  /\ exit_comm = FALSE /\ interrupted = FALSE /\ cut = 0
  /\ pc = "header" /\ pos = 0 /\ need = HEADER_SIZE
  /\ cmd = CHOOSE c \in Command : TRUE
  /\ pack = 0 /\ whole = TRUE
  /\ executed = << >>
-----------------------------------------------------------------------------
(***************************************************************************)
(* The client, the network and the main thread.                            *)
(***************************************************************************)
Arrive(n) ==
  /\ client = "open" /\ arrived + n <= StreamSize
  /\ arrived' = arrived + n
  /\ UNCHANGED <<script, client, exit_comm, interrupted, cut, pc, pos, need, cmd, pack, whole,
                 executed>>

Close(how) ==
  /\ client = "open"
  /\ client' = how
  /\ UNCHANGED <<script, arrived, exit_comm, interrupted, cut, pc, pos, need, cmd, pack, whole,
                 executed>>

close_listeners ==
  /\ ~exit_comm
  /\ exit_comm' = TRUE
  /\ UNCHANGED <<script, arrived, client, interrupted, cut, pc, pos, need, cmd, pack, whole,
                 executed>>
-----------------------------------------------------------------------------
(***************************************************************************)
(* rcv_n_bytes                                                             *)
(***************************************************************************)
Receiving == pc \in {"header", "args", "length"}

\* read returns n bytes; left are still missing.
Read(n, left) ==
  /\ Receiving /\ need > 0 /\ client # "reset"
  /\ n \in 1..need /\ pos + n <= arrived
  /\ pos' = pos + n
  /\ need' = left
  /\ UNCHANGED <<netVars, pc, cmd, pack, whole, executed>>

\* Mutant of ReadSome: one read is taken for the whole.
ReadOnce(n) == Read(n, 0)

ReadSome(n) == Read(n, need - n)

\* read returns 0, and rcv_n_bytes with it.
ReadsEof == Receiving /\ need > 0 /\ client = "closed" /\ pos = arrived

\* read returns -1: the connection is broken, the error then cleared and the
\* stream at its end; or a signal came while nothing had arrived.
ReadsError ==
  /\ Receiving /\ need > 0 /\ client = "reset"
  /\ client' = "closed" /\ arrived' = pos
  /\ UNCHANGED <<script, exit_comm, interrupted, cut>>

ReadsInterrupted ==
  /\ Receiving /\ need > 0 /\ client = "open" /\ pos = arrived
  /\ ~interrupted /\ interrupted' = TRUE
  /\ cut' = IF pc = "header" THEN 0 ELSE Len(executed) + 1
  /\ UNCHANGED <<script, arrived, client, exit_comm>>
-----------------------------------------------------------------------------
(***************************************************************************)
(* run and read_command                                                    *)
(***************************************************************************)
Returns ==
  /\ pc' = "returned"
  /\ UNCHANGED <<pos, need, cmd, pack, whole, executed>>

\* The loop's test of exit_comm before the read; a thread that is past it
\* waits for its client.
RunSeesExit ==
  /\ pc = "header" /\ need = HEADER_SIZE /\ exit_comm
  /\ Returns /\ UNCHANGED netVars

\* The test after the read: the command is dropped.
HeaderDropped ==
  /\ pc = "header" /\ need = 0 /\ exit_comm
  /\ Returns /\ UNCHANGED netVars

\* Mutant of HeaderEof: the end of the stream is not told from a command.
HeaderEofIgnored ==
  /\ pc = "header" /\ ReadsEof
  /\ UNCHANGED tsVars

\* The client has closed the connection, perhaps in the middle of a header.
HeaderEof ==
  /\ pc = "header" /\ ReadsEof
  /\ Returns /\ UNCHANGED netVars

HeaderError == pc = "header" /\ Returns

\* Where the bytes of the header being decoded begin, and the commands they
\* may be.
Start == pos - HEADER_SIZE
Decoded ==
  IF \E i \in DOMAIN script : StreamUpTo(i - 1) = Start
  THEN {script[i] : i \in {j \in DOMAIN script : StreamUpTo(j - 1) = Start}}
  ELSE Command

\* The next pack of cmd is received: a vector or a string begins with its
\* length.
Receive(c, i) ==
  /\ pack' = i
  /\ IF i > Len(Packs[c])
     THEN pc' = "call" /\ need' = 0
     ELSE IF Packs[c][i].family = "scalar"
          THEN pc' = "args" /\ need' = Packs[c][i].size
          ELSE pc' = "length" /\ need' = LENGTH_SIZE

\* The header of c is complete and the operation looked up: an unknown one fails
\* with its arguments left in the stream.
HeaderRead(c) ==
  /\ pc = "header" /\ need = 0 /\ ~exit_comm
  /\ c \in Decoded
  /\ cmd' = c /\ whole' = TRUE
  /\ IF c \in Unknown
     THEN pc' = "header" /\ need' = HEADER_SIZE /\ pack' = 0
     ELSE Receive(c, 1)
  /\ UNCHANGED <<netVars, pos, executed>>

\* A header may name a device beyond the tables, the client's own or one read
\* out of step: the assertion is compiled out and the tables are indexed out of
\* bounds, which ends the process or finds no operation.
HeaderNoDevice ==
  /\ pc = "header" /\ need = 0 /\ ~exit_comm
  /\ (\A i \in DOMAIN script : StreamUpTo(i - 1) # Start) \/ Decoded \cap NoDevice # {}
  /\ pc' = "crashed"
  /\ UNCHANGED <<netVars, pos, need, cmd, pack, whole, executed>>

-----------------------------------------------------------------------------
(***************************************************************************)
(* The arguments: deserialize, get_pack_length and recv.                   *)
(***************************************************************************)
\* The operation fails, and run reads the next header.
Fails ==
  /\ pc' = "header" /\ need' = HEADER_SIZE /\ pack' = 0
  /\ UNCHANGED <<pos, cmd, whole, executed>>

Crashes == pc' = "crashed" /\ UNCHANGED <<pos, need, cmd, pack, whole, executed>>

\* rcv_n_bytes has read the pack.
PackRead ==
  /\ pc = "args" /\ need = 0
  /\ Receive(cmd, pack + 1)
  /\ UNCHANGED <<netVars, pos, cmd, whole, executed>>

\* rcv_n_bytes returns 0: not negative, so the operation goes on with what
\* its buffer holds.
PackEof ==
  /\ pc = "args" /\ ReadsEof
  /\ Receive(cmd, pack + 1)
  /\ whole' = FALSE
  /\ UNCHANGED <<netVars, pos, cmd, executed>>

PackError == pc = "args" /\ Fails

\* The length just read is one the client wrote as such.
LengthInStep ==
  \E i \in DOMAIN script :
    /\ script[i] = cmd
    /\ pos = StreamUpTo(i - 1) + HEADER_SIZE + PacksUpTo(cmd, pack - 1) + LENGTH_SIZE

\* The length is read and its vector or string received next; a length read
\* out of step is arbitrary.
LengthRead ==
  /\ pc = "length" /\ need = 0
  /\ pc' = "args"
  /\ need' \in IF LengthInStep THEN {Packs[cmd][pack].size} ELSE 0..StreamSize
  /\ UNCHANGED <<netVars, pos, cmd, pack, whole, executed>>

\* Nothing bounds a length, the client's own or one read out of step: resize
\* throws out of the thread when it does not get the memory.
LengthTooLong ==
  /\ pc = "length" /\ need = 0
  /\ LengthInStep => Packs[cmd][pack].size > MaxAlloc
  /\ Crashes /\ UNCHANGED netVars

\* get_pack_length takes the 0 for a success too and returns the length of an
\* uninitialised buffer: resize may throw; otherwise the data is not there.
LengthEof ==
  /\ pc = "length" /\ ReadsEof
  /\ UNCHANGED netVars
  /\ \/ Crashes
     \/ /\ Receive(cmd, pack + 1)
        /\ whole' = FALSE
        /\ UNCHANGED <<pos, cmd, executed>>

\* get_pack_length returns -1.  A string is given up.  A vector divides by the
\* unsigned sizeof(T): with a 64-bit size_t the result is huge, its test for a
\* negative length does not see it and resize throws; with a 32-bit one it is -1
\* for elements of one byte, and 0 for longer ones: the vector is left empty and
\* the operation goes on.
LengthError ==
  /\ pc = "length"
  /\ \/ Fails
     \/ Packs[cmd][pack].family = "vector" /\ Crashes
     \/ /\ Packs[cmd][pack].family = "vector"
        /\ Receive(cmd, pack + 1)
        /\ whole' = FALSE
        /\ UNCHANGED <<pos, cmd, executed>>

\* What becomes of the command when rcv_n_bytes returns -1.
ReadFails == HeaderError \/ PackError \/ LengthError

\* The operation is called and its answer written.  Whether the write fails, the
\* client being gone or a signal coming while it waits, is counted and no more:
\* run reads the next header.
Call ==
  /\ pc = "call"
  /\ executed' = Append(executed, [cmd |-> cmd, whole |-> whole])
  /\ pc' = "header" /\ need' = HEADER_SIZE /\ pack' = 0
  /\ UNCHANGED <<netVars, pos, cmd, whole>>

SessionThread ==
  \/ \E n \in 1..need : ReadSome(n)
  \/ ReadsError /\ ReadFails
  \/ HeaderEof \/ HeaderDropped \/ HeaderNoDevice \/ \E c \in Command : HeaderRead(c)
  \/ PackRead \/ PackEof
  \/ LengthRead \/ LengthTooLong \/ LengthEof \/ Call

Ended == pc \in {"returned", "crashed"} /\ UNCHANGED tsVars

TSNext ==
  \/ \E n \in 1..(StreamSize - arrived) : Arrive(n)
  \/ \E how \in {"closed", "reset"} : Close(how)
  \/ close_listeners
  \/ SessionThread \/ RunSeesExit
  \/ ReadsInterrupted /\ ReadFails
  \/ Ended

TSSpec == TSInit /\ [][TSNext]_tsVars /\ WF_tsVars(SessionThread)
-----------------------------------------------------------------------------
\* The client sends no operation, and names no device, that the server does not
\* have.
WellFormed == \A i \in DOMAIN script : script[i] \notin Unknown

\* The operations called are the client's commands, in order, none twice and
\* none left out; only the last can have been called with arguments that did
\* not arrive, and only because the client has gone.  A signal that interrupts
\* the read of an argument spares the commands before it, and those only.
ExecutedAsSent ==
  WellFormed => \A i \in DOMAIN executed :
    \/ /\ i <= Len(script) /\ executed[i].cmd = script[i]
       /\ ~executed[i].whole => i = Len(executed) /\ client # "open"
    \/ cut # 0 /\ cut <= i

\* The session is at the length of a vector or string that the memory may not
\* hold.
Oversized ==
  /\ pack \in DOMAIN Packs[cmd]
  /\ Packs[cmd][pack].family # "scalar" /\ Packs[cmd][pack].size > MaxAlloc

\* A client that stays connected and sends known operations crashes the server
\* by one thing only, the length of a vector or string that recv resizes to
\* unchecked (kserver_session.hpp:254, 273), unless a signal comes in the middle
\* of a command's arguments.
CrashForCause == WellFormed /\ client = "open" /\ cut = 0 /\ pc = "crashed" => Oversized

\* The session ends when its client closes the connection.
SessionEnds == client # "open" ~> pc \in {"returned", "crashed"}
=============================================================================
