-------------------------- MODULE ListeningChannel --------------------------
(***************************************************************************)
(* One ListeningChannel<sock_type> (core/kserver.hpp and                   *)
(* core/listening_channel.cpp): the comm thread that accepts connections   *)
(* and the detached thread of each accepted one, statement by statement,   *)
(* with the atomic num_threads and the plain integers of ListenerStats.    *)
(* The three specialisations run the same code with their own limit.  What *)
(* a session does between its first print and the end of run() is one      *)
(* state here; SessionManager and KServer model its entry in the session   *)
(* pool.                                                                   *)
(*                                                                         *)
(* What the threads can wait for is kept: a print emits to the subscribers *)
(* of the log channel and its ::write blocks while one of them does not    *)
(* read; accept fails while the process has no descriptor left; and run()  *)
(* may never return.                                                       *)
(***************************************************************************)
EXTENDS Integers, FiniteSets

CONSTANTS Conn,                \* client connections, each with its session thread
          NoConn,              \* accept's -1
          worker_connections,  \* the channel's limit in the configuration
          MaxFds,              \* size of the process's descriptor table
          MaxRequests          \* bound: requests counted in one session

ASSUME ConnAssumption == IsFiniteSet(Conn) /\ NoConn \notin Conn
ASSUME WorkerConnectionsAssumption == worker_connections \in Nat \ {0}
ASSUME MaxFdsAssumption == MaxFds \in Nat
ASSUME MaxRequestsAssumption == MaxRequests \in Nat

VARIABLES
  exit_comm,    \* KServer::exit_comm, set before the listening socket is shut down
  is_ready,     \* ListeningChannel::is_ready
  comm,         \* program counter of comm_thread_call
  comm_fd,      \* the connection accept returned, or NoConn for -1
  conn,         \* connection -> where its socket is
  stalled,      \* some subscriber of the log does not read: a print blocks
  other_fds,    \* descriptors the rest of the process holds
  num_threads,
  stats,        \* ListenerStats: plain, unsynchronised integers
  thread,       \* connection -> program counter of its session_thread_call
  reg           \* connection -> value its thread loaded from stats

envVars == <<stalled, other_fds>>
commVars == <<is_ready, comm, comm_fd>>
threadVars == <<num_threads, stats, thread, reg>>
lcVars == <<exit_comm, is_ready, comm, comm_fd, conn, stalled, other_fds, num_threads, stats,
            thread, reg>>

Fields == {"opened_sessions_num", "total_sessions_num", "total_requests_num"}

LCInit ==
  /\ exit_comm = FALSE
  /\ is_ready = FALSE
  /\ comm = "start"
  /\ comm_fd = NoConn
  /\ conn = [c \in Conn |-> "away"]
  /\ stalled = FALSE
  /\ other_fds = 0
  /\ num_threads = 0
  /\ stats = [f \in Fields |-> 0]
  /\ thread = [c \in Conn |-> "none"]
  /\ reg = [c \in Conn |-> 0]
-----------------------------------------------------------------------------
(***************************************************************************)
(* The clients and the main thread.                                        *)
(***************************************************************************)
Connect(c) ==
  /\ conn[c] = "away" /\ ~exit_comm
  /\ conn' = [conn EXCEPT ![c] = "backlog"]
  /\ UNCHANGED <<exit_comm, commVars, envVars, threadVars>>

\* A log subscriber stops reading until its socket is full, or reads again
\* or leaves.  From then on, until then, the prints of every thread block.
LogReaders ==
  /\ stalled' = ~stalled
  /\ UNCHANGED <<exit_comm, commVars, conn, other_fds, threadVars>>

\* The connections whose descriptor is open: the served ones, and those that
\* were refused or abandoned, which are never closed.
OpenFds == {c \in Conn : conn[c] \in {"held", "served", "refused", "abandoned"}}
FdsExhausted == other_fds + Cardinality(OpenFds) >= MaxFds

\* The other channels, the devices and the files of the process open and
\* close descriptors of the same table.
OtherOpens ==
  /\ ~FdsExhausted
  /\ other_fds' = other_fds + 1
  /\ UNCHANGED <<exit_comm, commVars, conn, stalled, threadVars>>

OtherCloses ==
  /\ other_fds > 0
  /\ other_fds' = other_fds - 1
  /\ UNCHANGED <<exit_comm, commVars, conn, stalled, threadVars>>

\* KServer::close_listeners: exit_comm.store(true), then shutdown and close
\* of the listening socket, which wakes the accept up.
close_listener ==
  /\ ~exit_comm
  /\ exit_comm' = TRUE
  /\ UNCHANGED <<commVars, conn, envVars, threadVars>>
-----------------------------------------------------------------------------
(***************************************************************************)
(* comm_thread_call                                                        *)
(***************************************************************************)
CommGoto(pc) == comm' = pc

CommStart ==
  /\ comm = "start"
  /\ is_ready' = TRUE
  /\ CommGoto("while")
  /\ UNCHANGED <<exit_comm, comm_fd, conn, envVars, threadVars>>

CommWhile ==
  /\ comm = "while"
  /\ exit_comm => ~stalled   \* the print after the loop
  /\ CommGoto(IF exit_comm THEN "done" ELSE "open_communication")
  /\ UNCHANGED <<exit_comm, is_ready, comm_fd, conn, envVars, threadVars>>

\* accept returns a connection of the backlog.
AcceptConn(c) ==
  /\ comm = "open_communication" /\ conn[c] = "backlog" /\ ~FdsExhausted
  /\ conn' = [conn EXCEPT ![c] = "held"]
  /\ comm_fd' = c
  /\ CommGoto("accepted")
  /\ UNCHANGED <<exit_comm, is_ready, envVars, threadVars>>

\* open_communication returns -1: the connection was aborted before accept
\* returned it, or a socket option could not be set and it is closed.
AcceptFails(c) ==
  /\ comm = "open_communication" /\ conn[c] = "backlog" /\ ~FdsExhausted
  /\ conn' = [conn EXCEPT ![c] = "closed"]
  /\ comm_fd' = NoConn
  /\ CommGoto("accepted")
  /\ UNCHANGED <<exit_comm, is_ready, envVars, threadVars>>

\* accept returns -1 for want of a descriptor (EMFILE): the connection stays
\* in the backlog and the loop comes straight back.
AcceptNoFd ==
  /\ comm = "open_communication" /\ FdsExhausted
  /\ \E c \in Conn : conn[c] = "backlog"
  /\ comm_fd' = NoConn
  /\ CommGoto("accepted")
  /\ UNCHANGED <<exit_comm, is_ready, conn, envVars, threadVars>>

\* accept returns -1 on a listening socket that is shut down.
AcceptShut ==
  /\ comm = "open_communication" /\ exit_comm
  /\ comm_fd' = NoConn
  /\ CommGoto("accepted")
  /\ UNCHANGED <<exit_comm, is_ready, conn, envVars, threadVars>>

\* Mutant of is_max_threads: refuses one connection too early.
is_max_threads_early == num_threads + 1 >= worker_connections

is_max_threads == num_threads + 1 > worker_connections

\* The second exit_comm test, the error test and the limit: on each of these
\* ways out the accepted socket is dropped without being closed, and a
\* message is printed.
DropAndGoto(pc) ==
  /\ comm = "accepted" /\ ~stalled
  /\ exit_comm \/ comm_fd = NoConn \/ is_max_threads
  /\ conn' = IF comm_fd = NoConn THEN conn
             ELSE [conn EXCEPT ![comm_fd] = IF exit_comm THEN "abandoned" ELSE "refused"]
  /\ comm_fd' = NoConn
  /\ CommGoto(pc)
  /\ UNCHANGED <<exit_comm, is_ready, envVars, threadVars>>

\* Mutant of CommDrop: a rejected connection ends the loop.
CommDropBreaks == DropAndGoto("done")

CommDrop == DropAndGoto(IF exit_comm THEN "done" ELSE "while")

\* std::thread sess_thread(...); detach()
CommSpawn ==
  /\ comm = "accepted"
  /\ ~exit_comm /\ comm_fd # NoConn /\ ~is_max_threads
  /\ conn' = [conn EXCEPT ![comm_fd] = "served"]
  /\ thread' = [thread EXCEPT ![comm_fd] = "inc_thread_num"]
  /\ comm_fd' = NoConn
  /\ CommGoto("while")
  /\ UNCHANGED <<exit_comm, is_ready, envVars, num_threads, stats, reg>>

Comm ==
  \/ CommStart \/ CommWhile \/ AcceptNoFd \/ AcceptShut \/ CommDrop \/ CommSpawn
  \/ \E c \in Conn : AcceptConn(c) \/ AcceptFails(c)
-----------------------------------------------------------------------------
(***************************************************************************)
(* session_thread_call.  n++ on a plain int is a load and a store.         *)
(***************************************************************************)
Step(c, from, to) ==
  /\ thread[c] = from
  /\ thread' = [thread EXCEPT ![c] = to]
  /\ UNCHANGED <<exit_comm, commVars, envVars>>

\* num_threads changes by n, atomically.
AddThreads(c, from, to, n) ==
  /\ Step(c, from, to)
  /\ num_threads' = num_threads + n
  /\ UNCHANGED <<conn, stats, reg>>

inc_thread_num(c) == AddThreads(c, "inc_thread_num", "opened_load", 1)

dec_thread_num(c) == AddThreads(c, "dec_thread_num", "closed_load", -1)

Load(c, from, to, field) ==
  /\ Step(c, from, to)
  /\ reg' = [reg EXCEPT ![c] = stats[field]]
  /\ UNCHANGED <<conn, num_threads, stats>>

Store(c, from, to, field, delta) ==
  /\ Step(c, from, to)
  /\ stats' = [stats EXCEPT ![field] = reg[c] + delta]
  /\ reg' = [reg EXCEPT ![c] = 0]
  /\ UNCHANGED <<conn, num_threads>>

CountOpened(c) ==
  \/ Load(c, "opened_load", "opened_store", "opened_sessions_num")
  \/ Store(c, "opened_store", "total_load", "opened_sessions_num", 1)

\* Mutant of CountTotal: forgotten.
CountTotalMissing(c) ==
  /\ Step(c, "total_load", "print_start")
  /\ UNCHANGED <<conn, num_threads, stats, reg>>

CountTotal(c) ==
  \/ Load(c, "total_load", "total_store", "total_sessions_num")
  \/ Store(c, "total_store", "print_start", "total_sessions_num", 1)

\* A step that waits for the log: create_session and the print after it, the
\* print of the closing session.
Prints(c, from, to) ==
  /\ ~stalled
  /\ Step(c, from, to)
  /\ UNCHANGED <<conn, num_threads, stats, reg>>

PrintStart(c) == Prints(c, "print_start", "run")

\* session->run() returns: the client left, a request found exit_comm set, a
\* read failed, the WebSocket refused a frame.  Nothing says that it must: a
\* read blocks, a mutex may be held for ever, a WebSocket session may spin.
RunReturns(c) ==
  /\ Step(c, "run", "print_close")
  /\ UNCHANGED <<conn, num_threads, stats, reg>>

PrintClose(c) == Prints(c, "print_close", "requests_load")

CountRequests(c) ==
  \/ Load(c, "requests_load", "requests_store", "total_requests_num")
  \/ \E request_num \in 0..MaxRequests :
       Store(c, "requests_store", "delete_session", "total_requests_num", request_num)

\* delete_session leaves the socket in state at.  Its mutex may be held by a
\* thread that is printing.
DeleteLeaving(c, at) ==
  /\ ~stalled
  /\ Step(c, "delete_session", "dec_thread_num")
  /\ conn' = [conn EXCEPT ![c] = at]
  /\ UNCHANGED <<num_threads, stats, reg>>

\* Mutant of DeleteSession: the session is dropped, its socket is not closed.
DeleteSessionLeaks(c) == DeleteLeaving(c, "served")

\* session_manager.delete_session(sid) closes the socket.
DeleteSession(c) == DeleteLeaving(c, "closed")

CountClosed(c) ==
  \/ Load(c, "closed_load", "closed_store", "opened_sessions_num")
  \/ Store(c, "closed_store", "done", "opened_sessions_num", -1)

SessionThread(c) ==
  \/ inc_thread_num(c) \/ CountOpened(c) \/ CountTotal(c) \/ PrintStart(c)
  \/ PrintClose(c) \/ CountRequests(c) \/ DeleteSession(c) \/ dec_thread_num(c) \/ CountClosed(c)

Idle == \* nothing is left to do: every session has ended and the listener is closed
  /\ comm = "done" /\ \A c \in Conn : thread[c] \in {"none", "done"}
  /\ UNCHANGED lcVars

LCNext ==
  \/ close_listener
  \/ Comm
  \/ LogReaders \/ OtherOpens \/ OtherCloses
  \/ \E c \in Conn : Connect(c) \/ SessionThread(c) \/ RunReturns(c)
  \/ Idle

\* The scheduler runs every thread that is not blocked; nothing obliges a
\* client to connect, a session to end or a log subscriber to read.
LCFairness ==
  /\ WF_lcVars(Comm)
  /\ \A c \in Conn : WF_lcVars(SessionThread(c))

LCSpec == LCInit /\ [][LCNext]_lcVars /\ LCFairness
-----------------------------------------------------------------------------
\* Sessions being served, from the spawn of their thread on.
Alive == {c \in Conn : thread[c] \notin {"none", "closed_load", "closed_store", "done"}}

\* A connection is refused only when worker_connections sessions are being
\* served at that moment: the count may lag behind, never run ahead.
RefusedOnlyAtLimit ==
  [][\A c \in Conn : conn[c] = "held" /\ conn'[c] = "refused"
       => Cardinality(Alive) >= worker_connections]_lcVars

\* The totals of ListenerStats ("Total number of sessions", "Total number of
\* requests", core/kserver.hpp:39-40) lose updates of threads that overlap
\* (listening_channel.cpp:133, :155), but only ever fall short: they never
\* exceed what has happened, and are not back at zero once it has.
TotalsFallShort ==
  LET begun == {c \in Conn : thread[c] \notin {"none", "inc_thread_num", "opened_load",
                             "opened_store", "total_load", "total_store"}}
      ended == {c \in begun : thread[c] \notin {"print_start", "run", "print_close",
                                          "requests_load", "requests_store"}}
  IN  /\ stats["total_sessions_num"] \in (IF begun = {} THEN 0 ELSE 1)..Cardinality(begun)
      /\ stats["total_requests_num"] \in 0..(MaxRequests * Cardinality(ended))

\* Every connection that reaches the backlog is taken from it: no rejected
\* connection stops the listener.  The exceptions are those of the code: the
\* server shuts down, the comm thread's own print blocks on a log subscriber
\* that does not read, or the descriptors stay exhausted, refused connections
\* being never closed (listening_channel.cpp:183).
BacklogServed ==
  <>[](~stalled /\ ~FdsExhausted)
    => \A c \in Conn : conn[c] = "backlog" ~> (conn[c] # "backlog" \/ exit_comm)

\* Once run() has returned, the socket of the session is closed and its worker
\* slot given back, whatever the other threads do, as long as the log
\* subscribers read: the prints on the way, and the one another thread may be
\* in while it holds the manager's mutex, return.
ServedSocketClosed ==
  <>[]~stalled
    => \A c \in Conn : thread[c] = "print_close" ~> (conn[c] = "closed" /\ thread[c] = "done")
=============================================================================
