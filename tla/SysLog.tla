------------------------------- MODULE SysLog -------------------------------
(***************************************************************************)
(* SysLog::print and PubSub::emit of a formatted string (core/syslog.hpp,  *)
(* core/pubsub.tpp) with the writes of Session<TCP> and WebSocket          *)
(* (core/kserver_session.hpp, core/websocket.cpp).  A message of severity  *)
(* INFO or above is sent to every subscriber of SYSLOG_CHANNEL; a write    *)
(* that fails is itself reported with print<ERROR>, so that emit is        *)
(* entered again from within.  Any thread prints, and nothing serialises   *)
(* two prints.  A write waits as long as its socket is full, and a signal  *)
(* makes it fail.  What the messages say, and the fmt_buffer they share,   *)
(* are PubSub's; so is a list of subscribers that changes under an emit.   *)
(***************************************************************************)
EXTENDS Naturals, Sequences, FiniteSets

CONSTANTS Session,      \* sessions subscribed to the channel
          Websock,      \* the WebSocket ones; the others are TCP or Unix
          Order,        \* the subscribers in the order of the vector
          Slow,         \* sessions whose client may stop reading
          Thread,       \* threads that print
          MaxDepth,     \* bound: nested calls of print a thread's stack holds
          MaxPrints     \* bound: prints a thread begins by itself

ASSUME WebsockAssumption ==
  IsFiniteSet(Session) /\ Websock \subseteq Session /\ Slow \subseteq Session
ASSUME OrderAssumption ==
  /\ Order \in Seq(Session)
  /\ \A i, j \in 1..Len(Order) : Order[i] = Order[j] => i = j
ASSUME MaxDepthAssumption == MaxDepth \in Nat /\ MaxPrints \in Nat

VARIABLES
  s_interrupted,
  broken,              \* sessions whose socket refuses a write
  stalled,             \* sessions whose client does not read: the socket is full
  connection_closed,   \* WebSocket::connection_closed
  stack,               \* thread -> its frames of emit, innermost last
  prints,              \* thread -> prints begun
  overflow             \* a thread has exhausted its stack

slVars == <<s_interrupted, broken, stalled, connection_closed, stack, prints, overflow>>

\* A frame of emit: the position of its loop over the subscribers, and what
\* the loop does there.
Frame == [next |-> 1, at |-> "send"]
Top(t) == stack[t][Len(stack[t])]
Here(t) == Order[Top(t).next]

\* In the loop of emit with a subscriber left, about to do what at says.
InLoop(t, at) ==
  /\ ~overflow /\ stack[t] # << >>
  /\ Top(t).at = at /\ Top(t).next <= Len(Order)

\* The frames of t with its innermost one moved on.
Moved(t, next, at) == [stack[t] EXCEPT ![Len(stack[t])] = [next |-> next, at |-> at]]

SLInit ==
  /\ s_interrupted = FALSE
  /\ broken = {}
  /\ stalled = {}
  /\ connection_closed = {}
  /\ stack = [t \in Thread |-> << >>]
  /\ prints = [t \in Thread |-> 0]
  /\ overflow = FALSE
-----------------------------------------------------------------------------
\* Installed without SA_RESTART: the write a thread waits in fails with EINTR.
exit_signal_handler ==
  /\ ~overflow
  /\ s_interrupted' = TRUE
  /\ \/ UNCHANGED stack
     \/ \E t \in Thread :
          /\ InLoop(t, "write")
          /\ stack' = [stack EXCEPT ![t] = Moved(t, Top(t).next, "failed")]
  /\ UNCHANGED <<broken, stalled, connection_closed, prints, overflow>>

\* A client is gone: from now on a write to its socket fails.
ClientBreaks(s) ==
  /\ ~overflow /\ s \notin broken
  /\ broken' = broken \cup {s}
  /\ UNCHANGED <<s_interrupted, stalled, connection_closed, stack, prints, overflow>>

\* A client stops reading until its socket is full, or reads again.
ClientReads(s) ==
  /\ ~overflow /\ s \notin broken
  /\ stalled' = IF s \in stalled THEN stalled \ {s} ELSE stalled \cup {s}
  /\ UNCHANGED <<s_interrupted, broken, connection_closed, stack, prints, overflow>>

\* print enters emit, which returns at once when interrupted: the frames of a
\* thread after it, given those it has when the call returns.
Printing(rest) == IF s_interrupted THEN rest ELSE Append(rest, Frame)

print(t) ==
  /\ ~overflow /\ stack[t] = << >> /\ prints[t] < MaxPrints
  /\ stack' = [stack EXCEPT ![t] = Printing(<< >>)]
  /\ prints' = [prints EXCEPT ![t] = @ + 1]
  /\ UNCHANGED <<s_interrupted, broken, stalled, connection_closed, overflow>>

\* The loop of t goes on with this position and this part of the send.
Moves(t, next, at) ==
  /\ stack' = [stack EXCEPT ![t] = Moved(t, next, at)]
  /\ UNCHANGED <<s_interrupted, broken, stalled, connection_closed, prints, overflow>>

\* Mutant of SendSkips: the send is tried again until it succeeds.
SendRetries(t) ==
  /\ InLoop(t, "send") /\ Here(t) \in connection_closed
  /\ UNCHANGED slVars

\* WebSocket::send_request returns 0 for a connection known to be closed.
SendSkips(t) ==
  /\ InLoop(t, "send") /\ Here(t) \in connection_closed
  /\ Moves(t, Top(t).next + 1, "send")

\* The system call write begins.
SendWrites(t) ==
  /\ InLoop(t, "send") /\ Here(t) \notin connection_closed
  /\ Moves(t, Top(t).next, "write")

\* The socket takes all the bytes; as long as it is full, the thread waits.
WriteSucceeds(t) ==
  /\ InLoop(t, "write") /\ Here(t) \notin broken \cup stalled
  /\ Moves(t, Top(t).next + 1, "send")

\* The write returns 0 or -1, or not all the bytes.
WriteFails(t) ==
  /\ InLoop(t, "write") /\ Here(t) \in broken
  /\ Moves(t, Top(t).next, "failed")

\* The failure is printed once the connections of now are marked closed: a
\* nested emit, or the end of the thread's stack.
ReportWith(t, now) ==
  /\ InLoop(t, "failed")
  /\ connection_closed' = connection_closed \cup now
  /\ IF Len(stack[t]) < MaxDepth
     THEN /\ stack' = [stack EXCEPT ![t] = Printing(Moved(t, Top(t).next + 1, "send"))]
          /\ UNCHANGED overflow
     ELSE overflow' = TRUE /\ UNCHANGED stack
  /\ UNCHANGED <<s_interrupted, broken, stalled, prints>>

\* Mutant of ReportFailure: reported before the connection is marked closed.
ReportBeforeClosing(t) == ReportWith(t, {})

\* A WebSocket is marked closed, then the failure is printed.
ReportFailure(t) == ReportWith(t, {Here(t)} \cap Websock)

\* The loop is over.
emit_returns(t) ==
  /\ ~overflow /\ stack[t] # << >>
  /\ Top(t).at = "send" /\ Top(t).next > Len(Order)
  /\ stack' = [stack EXCEPT ![t] = SubSeq(@, 1, Len(@) - 1)]
  /\ UNCHANGED <<s_interrupted, broken, stalled, connection_closed, prints, overflow>>

ThreadStep(t) ==
  \/ SendSkips(t) \/ SendWrites(t) \/ WriteSucceeds(t) \/ WriteFails(t)
  \/ ReportFailure(t) \/ emit_returns(t)

Ended ==
  /\ overflow \/ \A t \in Thread : stack[t] = << >> /\ prints[t] = MaxPrints
  /\ UNCHANGED slVars

SLNext ==
  \/ exit_signal_handler
  \/ \E s \in Session : ClientBreaks(s)
  \/ \E s \in Slow : ClientReads(s)
  \/ \E t \in Thread : ThreadStep(t) \/ print(t)
  \/ Ended

\* Every thread that can run is scheduled.  Nothing makes a client read: a
\* thread whose subscriber never does stays in its write.
SLSpec == SLInit /\ [][SLNext]_slVars /\ \A t \in Thread : WF_slVars(ThreadStep(t))
-----------------------------------------------------------------------------
\* The reports of failed writes nest as deep as there are broken WebSockets
\* and no deeper, unless the socket of a TCP subscriber is broken: then
\* every report meets the same broken socket again and the recursion does
\* not end.  A write that a signal interrupts adds nothing: emit returns at
\* once from then on.
DepthBounded ==
  \A t \in Thread : broken \subseteq Websock => Len(stack[t]) <= 1 + Cardinality(broken)

\* If from some time on every subscriber reads, then every print returns, or
\* the process has died of the recursion.  A subscriber that never reads again
\* keeps the printing thread in write for good: no timeout is set on the
\* sockets, and nothing else ends the call.
PrintReturns ==
  <>[](stalled = {}) => \A t \in Thread : stack[t] # << >> ~> stack[t] = << >> \/ overflow
=============================================================================
