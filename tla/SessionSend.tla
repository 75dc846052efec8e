---------------------------- MODULE SessionSend ----------------------------
(***************************************************************************)
(* The sending side of a session: Session::send (core/kserver_session.hpp) *)
(* builds a message with the session's DynamicSerializer in its            *)
(* send_buffer, then writes it: Session<TCP>::write with one write, the    *)
(* WebSocket (core/websocket.hpp and .cpp) as a frame in its send_buf, with *)
(* as many writes as it takes.  The thread of the session answers its      *)
(* commands this way, any thread that emits an event sends it this way,    *)
(* and no lock covers the buffers.  Threads interleave statement by        *)
(* statement; two sends that overlap race on the buffers: both messages    *)
(* are garbage, scal_size may be left at any value, and a reallocation of  *)
(* send_buffer under the other's feet may end the process.                 *)
(*                                                                         *)
(* A message is the channel or class, the event or function and the        *)
(* arguments of a send.  An argument is a scalar, a std::array or a dynamic *)
(* container (a vector, a string or a C string) of scalars of one type.     *)
(***************************************************************************)
EXTENDS Serializer, SequencesExt

CONSTANTS Thread,                  \* threads that send on this session
          Message,                 \* what they send
          MaxSends,                \* bound: sends in all
          SMALL_STREAM, MEDIUM_STREAM, BIG_STREAM,
          SMALL_OFFSET, MEDIUM_OFFSET, BIG_OFFSET,
          BINARY,                  \* first byte of a frame: (1 << 7) + BINARY_FRAME
          WEBSOCK_SEND_BUF_LEN     \* the size of send_buf

ArgFamily == {"scalar", "array", "container"}

ASSUME BoundsAssumption == MaxSends \in Nat
ASSUME FrameAssumption ==
  /\ SMALL_STREAM \in Nat /\ SMALL_STREAM < MEDIUM_STREAM /\ MEDIUM_STREAM < BIG_STREAM
  /\ MEDIUM_STREAM \in Byte /\ BIG_STREAM \in Byte /\ BINARY \in Byte
  /\ SMALL_OFFSET = 2 /\ MEDIUM_OFFSET = 2 + size_of("u16") /\ BIG_OFFSET = 2 + size_of("u64")
  /\ WEBSOCK_SEND_BUF_LEN \in Nat /\ WEBSOCK_SEND_BUF_LEN < Long

\* The size of a container is sent as a uint32_t.
ASSUME MessageAssumption ==
  \A m \in Message :
    /\ m.class \in 0..(Half - 1) /\ m.func \in 0..(Half - 1)
    /\ m.args \in Seq(Range(m.args))
    /\ \A i \in DOMAIN m.args :
         /\ m.args[i].family \in ArgFamily /\ m.args[i].type \in Type
         /\ m.args[i].values \in Seq(Value(m.args[i].type))
         /\ m.args[i].family = "scalar" => Len(m.args[i].values) = 1
         /\ m.args[i].family = "container" => Len(m.args[i].values) * size_of(m.args[i].type) < Word

\* Two arguments have the same C++ type.
Alike(a, b) ==
  /\ a.family = b.family /\ a.type = b.type
  /\ a.family = "array" => Len(a.values) = Len(b.values)

\* A function or an event has one prototype.
ASSUME PrototypeAssumption ==
  \A m, k \in Message : m.class = k.class /\ m.func = k.func =>
    Len(m.args) = Len(k.args) /\ \A i \in DOMAIN m.args : Alike(m.args[i], k.args[i])

VARIABLES
  kind,                \* "TCP" (or Unix) or "WEBSOCK", fixed
  client,              \* "open", or "gone": every write fails
  send_buffer,         \* Session::send_buffer
  scal_data,           \* the first scal_size bytes of DynamicSerializer::scal_data
  send_buf,            \* what WebSocket::send_buf holds of the frame
  connection_closed,   \* WebSocket::connection_closed
  status,              \* Session::status
  pc,                  \* thread -> what it does
  msg,                 \* thread -> the message it sends
  arg,                 \* thread -> the next argument to serialise
  left,                \* thread -> bytes of the frame send_request has to write
  alone,               \* thread -> no other send has overlapped its own
  overlapped,          \* two sends have overlapped
  sends,               \* sends begun
  cut,                 \* a write was cut short by a signal and not resumed
  sent,                \* the messages of the sends that succeeded, and
  wire                 \* the bytes the client gets, both up to the first
                       \* overlap or cut

threadVars == <<pc, msg, arg, left, alone, overlapped>>
bufVars == <<send_buffer, scal_data, send_buf>>
ssVars == <<kind, client, bufVars, connection_closed, status, threadVars, sends, cut, sent, wire>>

\* What msg holds for a thread that is not sending.
NoMessage == CHOOSE m \in Message : m.args = << >>

SSInit ==
  /\ kind \in {"TCP", "WEBSOCK"}
  /\ client = "open"
  /\ send_buffer = << >> /\ scal_data = << >> /\ send_buf = << >>
  /\ connection_closed = FALSE /\ status = "OPENED"
  /\ pc = [t \in Thread |-> "idle"]
  /\ msg = [t \in Thread |-> NoMessage]
  /\ arg = [t \in Thread |-> 0] /\ left = [t \in Thread |-> 0]
  /\ alone = [t \in Thread |-> TRUE] /\ overlapped = FALSE
  /\ sends = 0 /\ cut = FALSE /\ sent = << >> /\ wire = << >>

Busy == {t \in Thread : pc[t] # "idle"}

ClientLeaves ==
  /\ client = "open"
  /\ client' = "gone"
  /\ UNCHANGED <<kind, bufVars, connection_closed, status, threadVars, sends, cut, sent, wire>>

\* The outcomes of a race: a message of garbage, with or without some left in
\* scal_data, or the end of the process.
Garbage == <<0>>

Race(t) ==
  /\ pc[t] = "args" /\ ~alone[t]
  /\ \/ /\ pc' = [pc EXCEPT ![t] = "write"]
        /\ send_buffer' = Garbage /\ scal_data' \in {<< >>, Garbage}
     \/ /\ pc' = [u \in Thread |-> "crashed"]
        /\ UNCHANGED <<send_buffer, scal_data>>
  /\ UNCHANGED <<kind, client, send_buf, connection_closed, status, msg, arg, left, alone,
                 overlapped, sends, cut, sent, wire>>

\* Bound: what a write of the last k bytes of size may write.  The first write
\* of a message stops after a byte, any write a byte short of the end.
Pieces(k, size) == {n \in 1..k : n >= k - 1 \/ (n = 1 /\ k = size)}

\* The client gets the bytes b.
Gets(b) == wire' = IF overlapped \/ cut THEN wire ELSE wire \o b
-----------------------------------------------------------------------------
(***************************************************************************)
(* DynamicSerializer::build_command                                        *)
(***************************************************************************)
\* The bytes of the values of a in memory: a little-endian machine.
Native(a) ==
  FlattenSeq([i \in DOMAIN a.values |-> Reverse(append(a.type, a.values[i]))])

Header(m) == serialize(<<"u32", "u16", "u16">>, <<0, m.class, m.func>>)

\* The send of m begins with the pack left as scal says.
Build(t, m, scal) ==
  /\ pc[t] = "idle" /\ sends < MaxSends
  /\ send_buffer' = Header(m)
  /\ scal_data' = scal
  /\ pc' = [pc EXCEPT ![t] = IF m.args = << >> THEN "write" ELSE "args"]
  /\ msg' = [msg EXCEPT ![t] = m]
  /\ arg' = [arg EXCEPT ![t] = 1]
  /\ alone' = [u \in Thread |-> IF u = t THEN Busy = {} ELSE alone[u] /\ u \notin Busy]
  /\ overlapped' = (overlapped \/ Busy # {})
  /\ sends' = sends + 1
  /\ UNCHANGED <<kind, client, send_buf, connection_closed, status, left, cut, sent, wire>>

\* Mutant of build_command: scal_size is left to the last dump.
build_command_kept(t, m) == Build(t, m, scal_data)

\* The header is laid down and scal_size set to 0, except by the overload
\* without arguments, which serialises no scalar.
build_command(t, m) == Build(t, m, IF m.args = << >> THEN scal_data ELSE << >>)

\* Mutant of Dumped: the scalars are inserted and scal_size is kept.
DumpedKept == <<send_buffer \o scal_data, scal_data>>

\* dump_scalar_pack: send_buffer and scal_data after it.
Dumped == <<send_buffer \o scal_data, << >> >>

\* dump_container_to_buffer and dump_array_to_buffer.
Contents(a) ==
  IF a.family = "container"
  THEN append("u32", Len(a.values) * size_of(a.type)) \o Native(a)
  ELSE Native(a)

\* One step of command_serializer: a scalar goes to the pack, an array or a
\* container after what the pack holds.
command_serializer(t) ==
  /\ pc[t] = "args" /\ alone[t] /\ arg[t] <= Len(msg[t].args)
  /\ LET a == msg[t].args[arg[t]]
     IN  IF a.family = "scalar"
         THEN /\ scal_data' = scal_data \o append(a.type, a.values[1])
              /\ UNCHANGED send_buffer
         ELSE /\ send_buffer' = Dumped[1] \o Contents(a)
              /\ scal_data' = Dumped[2]
  /\ arg' = [arg EXCEPT ![t] = @ + 1]
  /\ UNCHANGED <<kind, client, send_buf, connection_closed, status, pc, msg, left, alone, overlapped,
                 sends, cut, sent, wire>>

\* The scalars after the last container.
final_dump(t) ==
  /\ pc[t] = "args" /\ alone[t] /\ arg[t] > Len(msg[t].args)
  /\ send_buffer' = Dumped[1] /\ scal_data' = Dumped[2]
  /\ pc' = [pc EXCEPT ![t] = "write"]
  /\ UNCHANGED <<kind, client, send_buf, connection_closed, status, msg, arg, left, alone, overlapped,
                 sends, cut, sent, wire>>
-----------------------------------------------------------------------------
(***************************************************************************)
(* The writes.  send returns to thread t.                                  *)
(***************************************************************************)
Returns(t, ok) ==
  /\ pc' = [pc EXCEPT ![t] = "idle"]
  /\ sent' = IF ok /\ ~overlapped /\ ~cut THEN Append(sent, msg[t]) ELSE sent
  /\ msg' = [msg EXCEPT ![t] = NoMessage] /\ arg' = [arg EXCEPT ![t] = 0]
  /\ left' = [left EXCEPT ![t] = 0]
  /\ UNCHANGED <<kind, client, alone, overlapped, sends>>

\* Session<TCP>::write: one write.  A signal may cut it short (n bytes); a
\* signal or the client's absence make it fail (0 here): each is an error of
\* the send, and the session goes on.  There is at least a header to write,
\* so that write itself does not return 0.
write_tcp(t, n) ==
  /\ pc[t] = "write" /\ kind = "TCP"
  /\ n \in {0} \cup IF client = "open" THEN Pieces(Len(send_buffer), Len(send_buffer)) ELSE {}
  /\ Gets(SubSeq(send_buffer, 1, n))
  /\ cut' = (cut \/ n \in 1..(Len(send_buffer) - 1))
  /\ Returns(t, n = Len(send_buffer))
  /\ UNCHANGED <<bufVars, connection_closed, status>>

\* WebSocket::send when the connection is known to be closed returns 0, and
\* Session::send takes note of it.
send_closed(t) ==
  /\ pc[t] = "write" /\ kind = "WEBSOCK" /\ connection_closed
  /\ status' = "CLOSED"
  /\ Returns(t, FALSE)
  /\ UNCHANGED <<bufVars, connection_closed, cut, wire>>

Fits(n) == n + BIG_OFFSET <= WEBSOCK_SEND_BUF_LEN

\* A message larger than the buffer is not sent.
send_too_large(t) ==
  /\ pc[t] = "write" /\ kind = "WEBSOCK" /\ ~connection_closed
  /\ ~Fits(Len(send_buffer))
  /\ Returns(t, FALSE)
  /\ UNCHANGED <<bufVars, connection_closed, status, cut, wire>>

\* The n bytes of a long length, highest first.
Digits(len, n) ==
  LET shr[k \in 0..n] == IF k = 0 THEN len ELSE Shr(shr[k - 1])
  IN  [i \in 1..n |-> Low(shr[n - i])]

set_send_header(len) ==
  IF len <= SMALL_STREAM THEN <<BINARY, len>>
  ELSE IF len <= Half - 1 THEN <<BINARY, MEDIUM_STREAM>> \o Digits(len, MEDIUM_OFFSET - 2)
  ELSE <<BINARY, BIG_STREAM>> \o Digits(len, BIG_OFFSET - 2)

\* WebSocket::send: the frame is put together in send_buf.
send_frame(t) ==
  /\ pc[t] = "write" /\ kind = "WEBSOCK" /\ ~connection_closed
  /\ Fits(Len(send_buffer))
  /\ send_buf' = set_send_header(Len(send_buffer)) \o send_buffer
  /\ left' = [left EXCEPT ![t] = Len(send_buf')]
  /\ pc' = [pc EXCEPT ![t] = "request"]
  /\ UNCHANGED <<kind, client, send_buffer, scal_data, connection_closed, status, msg, arg,
                 alone, overlapped, sends, cut, sent, wire>>

\* The bytes of send_buf from the offset of t on, n of them.
Unwritten(t, n) ==
  SubSeq(send_buf, Len(send_buf) - left[t] + 1, Len(send_buf) - left[t] + n)

\* The loop of send_request: a write of n bytes; it returns when none is left.
send_request(t, n) ==
  /\ pc[t] = "request" /\ client = "open" /\ n \in Pieces(left[t], Len(send_buf))
  /\ Gets(Unwritten(t, n))
  /\ IF n = left[t] THEN Returns(t, TRUE)
     ELSE /\ left' = [left EXCEPT ![t] = @ - n]
          /\ UNCHANGED <<kind, client, pc, msg, arg, alone, overlapped, sends, sent>>
  /\ UNCHANGED <<bufVars, connection_closed, status, cut>>

\* A write fails, for want of a client or because of a signal: the connection
\* is given up, in the middle of the frame as it may be.
send_request_fails(t) ==
  /\ pc[t] = "request"
  /\ connection_closed' = TRUE
  /\ Returns(t, FALSE)
  /\ UNCHANGED <<bufVars, status, cut, wire>>

SendStep(t) ==
  \/ command_serializer(t) \/ final_dump(t)
  \/ \E n \in 0..Len(send_buffer) : write_tcp(t, n)
  \/ send_closed(t) \/ send_too_large(t) \/ send_frame(t)
  \/ \E n \in 1..left[t] : send_request(t, n)
  \/ send_request_fails(t)

Ended ==
  /\ \A t \in Thread : pc[t] = "crashed" \/ (pc[t] = "idle" /\ sends = MaxSends)
  /\ UNCHANGED ssVars

SSNext ==
  \/ ClientLeaves
  \/ \E t \in Thread : SendStep(t) \/ Race(t) \/ \E m \in Message : build_command(t, m)
  \/ Ended

SSSpec == SSInit /\ [][SSNext]_ssVars
-----------------------------------------------------------------------------
(***************************************************************************)
(* The peer decodes what it gets as the server decodes commands: with the  *)
(* operations of Buffer (core/commands.hpp), which read at a position and  *)
(* move it, and which know the types of the arguments and not their sizes. *)
(***************************************************************************)
\* Buffer::deserialize of one scalar of type t: its value.
Scalar(buff, position, t) == deserialize(<<t>>, SubSeq(buff, position + 1, position + size_of(t)))[1]

\* to_vector, to_string and extract_array: n native values of type t.
Values(buff, position, t, n) ==
  [i \in 1..n |->
     extract(t, Reverse(SubSeq(buff, position + (i - 1) * size_of(t) + 1, position + i * size_of(t))))]

\* One argument like a at position: its values and the position after it.
Received(buff, position, a) ==
  CASE a.family = "scalar"    -> [values |-> <<Scalar(buff, position, a.type)>>,
                                  position |-> position + size_of(a.type)]
    [] a.family = "array"     -> [values |-> Values(buff, position, a.type, Len(a.values)),
                                  position |-> position + Len(a.values) * size_of(a.type)]
    [] a.family = "container" ->
         LET n == Scalar(buff, position, "u32") \div size_of(a.type)
             at == position + size_of("u32")
         IN  [values |-> Values(buff, at, a.type, n), position |-> at + n * size_of(a.type)]

HeaderTypes == <<"u32", "u16", "u16">>
HeaderSize == required_buffer_size(HeaderTypes)

\* The message at position: the values of its arguments, and where it ends.
Decoded(buff, position) ==
  LET head == deserialize(HeaderTypes, SubSeq(buff, position + 1, position + HeaderSize))
      like == (CHOOSE m \in Message : m.class = head[2] /\ m.func = head[3]).args
      read[i \in 0..Len(like)] ==
        IF i = 0 THEN [values |-> << >>, position |-> position + HeaderSize]
        ELSE Received(buff, read[i - 1].position, like[i])
  IN  [class |-> head[2], func |-> head[3],
       values |-> [i \in 1..Len(like) |-> read[i].values],
       end |-> read[Len(like)].position]

Meant(m) == [class |-> m.class, func |-> m.func, values |-> [i \in DOMAIN m.args |-> m.args[i].values]]

\* The header of a frame at position, read as read_header does: where its
\* payload begins, and where it ends.
FrameAt(buff, position) ==
  LET size == buff[position + 2]
      offset == IF size <= SMALL_STREAM THEN SMALL_OFFSET
                ELSE IF size = MEDIUM_STREAM THEN MEDIUM_OFFSET ELSE BIG_OFFSET
      long == SubSeq(buff, position + 3, position + offset)
      len == IF size <= SMALL_STREAM THEN size
             ELSE IF size = MEDIUM_STREAM THEN extract("u16", long) ELSE extract("u64", long)
  IN  [begin |-> position + offset, end |-> position + offset + len]

\* The messages of a sound stream, n of them, from its first byte on.
Stream(n) ==
  LET at[i \in 0..n] ==
        IF i = 0 THEN [end |-> 0]
        ELSE LET from == at[i - 1].end
                 begin == IF kind = "TCP" THEN from ELSE FrameAt(wire, from).begin
                 m == Decoded(wire, begin)
             IN  [class |-> m.class, func |-> m.func, values |-> m.values, end |-> m.end,
                  framed |-> kind = "TCP" \/ m.end = FrameAt(wire, from).end]
  IN  at
-----------------------------------------------------------------------------
\* As long as no two sends overlap and no signal cuts a write of a TCP session
\* short, the client can decode everything the session sent it: message by
\* message the values of the arguments in order, in frames that end where the
\* message does, whatever the sizes of the writes and although the stream of a
\* WebSocket may stop in the middle of a frame.
PeerUnderstands ==
  ~overlapped /\ ~cut =>
    LET n == Len(sent)
        at == Stream(n)
    IN  /\ \A i \in 1..n :
             /\ at[i].framed
             /\ [class |-> at[i].class, func |-> at[i].func, values |-> at[i].values] = Meant(sent[i])
        /\ Busy = {} /\ client = "open" /\ ~connection_closed => Len(wire) = at[n].end

\* Overlapping sends leave nothing behind in the buffers of the session: a
\* later send that is not overlapped serialises exactly its message.
OverlapLeavesNothing ==
  \A t \in Thread : alone[t] /\ pc[t] = "write" =>
    LET d == Decoded(send_buffer, 0)
    IN  /\ d.end = Len(send_buffer)
        /\ [class |-> d.class, func |-> d.func, values |-> d.values] = Meant(msg[t])
=============================================================================
