------------------------------ MODULE KServer ------------------------------
(***************************************************************************)
(* The server (core/kserver.cpp, core/listening_channel.cpp, the loop of   *)
(* core/kserver_session.hpp, core/main.cpp): the main thread that waits    *)
(* for an interrupt and tears everything down, one comm thread per         *)
(* listening channel and one detached thread per session, over the session *)
(* pool of SessionManager.  What a request does is left out, except what    *)
(* touches this state: SUBSCRIBE_PUBSUB, GET_RUNNING_SESSIONS, the start   *)
(* of a device with a circular dependency, which sets exit_all, and an     *)
(* operation that faults, which crash_signal_handler turns into an         *)
(* interrupt.                                                              *)
(*                                                                         *)
(* delete_all destroys Session objects their threads are still using, so   *)
(* what such a thread does next is undefined: it goes on with the values   *)
(* it finds, it faults, or the process crashes.  The same holds where the  *)
(* pool or a list of subscribers is read without a lock: an emit or a      *)
(* lookup is one step here, and one that another thread's insertion,       *)
(* deletion or subscription overlaps is a separate action (MainRaces,      *)
(* CommRaces, SessionRaces).                                               *)
(*                                                                         *)
(* A write to a subscriber of the log that does not read blocks the thread *)
(* that prints, with the mutexes it holds: while there is one (stalled), no *)
(* thread is promised to get on.                                           *)
(***************************************************************************)
EXTENDS SessionManager, FiniteSetsExt

CONSTANTS Kind,                \* the socket kinds compiled in
          worker_connections,  \* kind -> limit; 0 disables the kind
          Thread,              \* session threads that can exist at a time
          NoFd,                \* accept's -1
          LogStalls            \* whether subscribers of the log may stop reading

ASSUME KindAssumption == worker_connections \in [Kind -> Nat]
ASSUME NoFdAssumption == NoFd \notin Fd
ASSUME LogStallsAssumption == LogStalls \in BOOLEAN

VARIABLES
  proc,          \* the process: "up", "crashed" or "exited"
  stalled,       \* a subscriber of the log does not read
  main,          \* program counter of KServer::run
  doomed,        \* ids delete_all has still to delete
  s_interrupted, exit_all, exit_comm,
  is_ready,      \* kind -> ListeningChannel::is_ready
  comm,          \* kind -> program counter of comm_thread_call
  comm_fd,       \* kind -> descriptor returned by accept
  shut,          \* kinds whose listening socket is shut down
  num_threads,   \* kind -> sessions counted on the channel
  thread,        \* thread -> program counter of session_thread_call
  th_kind, th_fd, th_sid,  \* its channel, its descriptor, its session id
  th_ids,        \* thread -> ids GET_RUNNING_SESSIONS has still to look up
  alive          \* threads whose Session object exists

mainVars == <<main, doomed, exit_comm, shut>>
commVars == <<is_ready, comm, comm_fd>>
threadVars == <<num_threads, thread, th_kind, th_fd, th_sid, th_ids, alive>>
ksVars == <<smVars, proc, stalled, s_interrupted, exit_all, mainVars, commVars, threadVars>>

Enabled == {k \in Kind : worker_connections[k] > 0}
SYSLOG_CHANNEL == 1

KSInit ==
  /\ SMInit
  /\ proc = "up"
  /\ stalled = FALSE
  /\ main = "start"
  /\ doomed = {}
  /\ s_interrupted = FALSE /\ exit_all = FALSE /\ exit_comm = FALSE
  /\ is_ready = [k \in Kind |-> FALSE]
  /\ comm = [k \in Kind |-> "none"]
  /\ comm_fd = [k \in Kind |-> NoFd]
  /\ shut = {}
  /\ num_threads = [k \in Kind |-> 0]
  /\ thread = [t \in Thread |-> "none"]
  /\ th_kind = [t \in Thread |-> CHOOSE k \in Kind : TRUE]
  /\ th_fd = [t \in Thread |-> NoFd]
  /\ th_sid = [t \in Thread |-> 0]
  /\ th_ids = [t \in Thread |-> {}]
  /\ alive = {}

\* SysLog::print at severity INFO or above is emitted on SYSLOG_CHANNEL to the
\* sessions listed, unless interrupted: session_pool.at throws for one that is
\* gone, and nothing catches it.
PrintsTo(list) ==
  proc' = IF ~s_interrupted /\ \E sid \in Range(list) : sid \notin CurrentIds
          THEN "crashed" ELSE proc

Prints == PrintsTo(subscribers[SYSLOG_CHANNEL])

\* The body of delete_session, which also ends the Session object of the thread
\* that runs it.  It prints, with the manager's mutex, when the id is not
\* allocated or the socket cannot be shut down; the session is unsubscribed by
\* then and still in the pool.
DeletesSession(id) ==
  /\ delete_session(id)
  /\ alive' = IF id \in CurrentIds THEN {t \in alive : th_sid[t] # id} ELSE alive
  /\ \/ PrintsTo(subscribers'[SYSLOG_CHANNEL])
     \/ id \in CurrentIds /\ UNCHANGED proc

\* Nobody is in create_session or delete_session.
ManagerFree ==
  /\ main # "deleting"
  /\ \A t \in Thread : thread[t] \notin {"deleting", "faulting_deleting"}
-----------------------------------------------------------------------------
(***************************************************************************)
(* The signals.                                                            *)
(***************************************************************************)
\* The handler may run on a comm thread; its accept then fails with EINTR,
\* since the handlers are installed without SA_RESTART.
exit_signal_handler ==
  /\ proc = "up"
  /\ s_interrupted' = TRUE
  /\ \/ UNCHANGED <<comm, comm_fd>>
     \/ \E k \in Kind :
          /\ comm[k] = "accept"
          /\ comm' = [comm EXCEPT ![k] = "accepted"]
          /\ comm_fd' = [comm_fd EXCEPT ![k] = NoFd]
  /\ UNCHANGED <<smVars, proc, stalled, exit_all, mainVars, is_ready, threadVars>>

\* Clients subscribed to the log stop reading, or read on.
LogReaders ==
  /\ proc = "up" /\ LogStalls
  /\ stalled' = ~stalled
  /\ UNCHANGED <<smVars, proc, s_interrupted, exit_all, mainVars, commVars, threadVars>>
-----------------------------------------------------------------------------
(***************************************************************************)
(* The main thread: KServer::run, delete_all, close_listeners.             *)
(***************************************************************************)
Main(from, to) ==
  /\ proc = "up" /\ main = from /\ main' = to
  /\ UNCHANGED <<stalled, s_interrupted, exit_all, is_ready, comm_fd, num_threads, thread,
                 th_kind, th_fd, th_sid, th_ids>>

start_listeners_workers ==
  /\ Main("start", "run")
  /\ comm' = [k \in Kind |-> IF k \in Enabled THEN "start" ELSE "none"]
  /\ UNCHANGED <<smVars, proc, doomed, exit_comm, shut, alive>>

\* listen() fails on one channel, with the comm threads of others started
\* already: run() returns -1.
start_listeners_fails ==
  /\ Main("start", "returning")
  /\ \E started \in SUBSET Enabled \ {Enabled} :
       comm' = [k \in Kind |-> IF k \in started THEN "start" ELSE "none"]
  /\ UNCHANGED <<smVars, proc, doomed, exit_comm, shut, alive>>

\* main() exits.
ExitsAfterFailure ==
  /\ Main("returning", "returned")
  /\ proc' = "exited"
  /\ UNCHANGED <<smVars, comm, doomed, exit_comm, shut, alive>>

\* The loop of run, with ready_notified false or true.
Loop == {"run", "notified"}

\* One round of the loop that notifies systemd; KServer::is_ready is tested on
\* every round until then.
NotifyReady ==
  /\ Main("run", "notified")
  /\ \A k \in Enabled : is_ready[k]
  /\ Prints
  /\ UNCHANGED <<smVars, comm, doomed, exit_comm, shut, alive>>

\* The interrupt is seen; delete_all takes the ids without the mutex.
SeesInterrupt ==
  /\ main \in Loop /\ Main(main, "delete_all")
  /\ s_interrupted \/ exit_all
  /\ doomed' = CurrentIds
  /\ Prints
  /\ UNCHANGED <<smVars, comm, exit_comm, shut, alive>>

\* One round of delete_all's loop: "Delete session" is printed and the
\* manager's mutex taken.
delete_all_next ==
  /\ Main("delete_all", "deleting")
  /\ doomed # {} /\ ManagerFree
  /\ Prints
  /\ UNCHANGED <<smVars, comm, doomed, exit_comm, shut, alive>>

\* delete_session, in the order of the map's keys.
delete_all_deletes ==
  /\ Main("deleting", "delete_all")
  /\ DeletesSession(Min(doomed))
  /\ doomed' = doomed \ {Min(doomed)}
  /\ UNCHANGED <<comm, exit_comm, shut>>

\* The loop is over; the assertion on num_sess comes next.
delete_all_done ==
  /\ Main("delete_all", "deleted_all")
  /\ doomed = {}
  /\ UNCHANGED <<smVars, proc, comm, doomed, exit_comm, shut, alive>>

\* close_listeners up to the first shutdown of a listening socket.
CloseWith(exit) ==
  /\ Main("deleted_all", "shutdown")
  /\ exit_comm' = exit
  /\ UNCHANGED <<smVars, proc, comm, doomed, shut, alive>>

\* Mutant of close_listeners: the comm threads are not told.
close_listeners_silent == CloseWith(exit_comm)

close_listeners == CloseWith(TRUE)

shutdown_listener(k) ==
  /\ Main("shutdown", "shutdown")
  /\ k \in Enabled \ shut
  /\ shut' = shut \cup {k}
  /\ Prints
  /\ UNCHANGED <<smVars, comm, doomed, exit_comm, alive>>

\* join_listeners_workers, syslog.close, the return from run and exit().
join_listeners_workers ==
  /\ Main("shutdown", "returned")
  /\ shut = Enabled /\ \A k \in Enabled : comm[k] = "done"
  /\ proc' = "exited"
  /\ UNCHANGED <<smVars, comm, doomed, exit_comm, shut, alive>>

MainThread ==
  \/ start_listeners_workers \/ start_listeners_fails \/ ExitsAfterFailure
  \/ NotifyReady \/ SeesInterrupt
  \/ delete_all_next \/ delete_all_deletes \/ delete_all_done \/ close_listeners
  \/ \E k \in Kind : shutdown_listener(k)
  \/ join_listeners_workers
-----------------------------------------------------------------------------
(***************************************************************************)
(* comm_thread_call of one channel.                                        *)
(***************************************************************************)
Comm(k, from, to) ==
  /\ proc = "up" /\ comm[k] = from /\ comm' = [comm EXCEPT ![k] = to]
  /\ UNCHANGED <<stalled, s_interrupted, exit_all, mainVars, num_threads, th_sid, th_ids,
                 alive>>

CommStart(k) ==
  /\ Comm(k, "start", "while")
  /\ is_ready' = [is_ready EXCEPT ![k] = TRUE]
  /\ UNCHANGED <<smVars, proc, comm_fd, thread, th_kind, th_fd>>

CommWhile(k) ==
  /\ Comm(k, "while", IF exit_comm THEN "done" ELSE "accept")
  /\ IF exit_comm THEN Prints ELSE UNCHANGED proc
  /\ UNCHANGED <<smVars, is_ready, comm_fd, thread, th_kind, th_fd>>

\* A client connects and accept returns a free descriptor.
CommAccept(k, fd) ==
  /\ Comm(k, "accept", "accepted")
  /\ k \notin shut
  /\ Accept(fd)
  /\ comm_fd' = [comm_fd EXCEPT ![k] = fd]
  /\ UNCHANGED <<proc, is_ready, thread, th_kind, th_fd>>

\* accept fails: the listening socket is shut down, or no descriptor is free.
CommAcceptFails(k) ==
  /\ Comm(k, "accept", "accepted")
  /\ k \in shut \/ open_fds = Fd
  /\ comm_fd' = [comm_fd EXCEPT ![k] = NoFd]
  /\ UNCHANGED <<smVars, proc, is_ready, thread, th_kind, th_fd>>

\* The options of an accepted socket cannot be set: it is closed again.
CommOptionsFail(k) ==
  /\ Comm(k, "accept", "accepted")
  /\ k \notin shut /\ open_fds # Fd
  /\ comm_fd' = [comm_fd EXCEPT ![k] = NoFd]
  /\ Prints
  /\ UNCHANGED <<smVars, is_ready, thread, th_kind, th_fd>>

is_max_threads(k) == num_threads[k] + 1 > worker_connections[k]

\* An accepted descriptor that is not served is not closed either.
CommDrops(k) ==
  /\ Comm(k, "accepted", IF exit_comm THEN "done" ELSE "while")
  /\ exit_comm \/ comm_fd[k] = NoFd \/ is_max_threads(k)
  /\ comm_fd' = [comm_fd EXCEPT ![k] = NoFd]
  /\ Prints
  /\ UNCHANGED <<smVars, is_ready, thread, th_kind, th_fd>>

\* A detached thread is started for the descriptor; the comm thread goes on
\* at pc, with left as its comm_fd.
SpawnAndGoto(k, t, pc, left) ==
  /\ Comm(k, "accepted", pc)
  /\ ~exit_comm /\ comm_fd[k] # NoFd /\ ~is_max_threads(k)
  /\ thread[t] = "none"
  /\ thread' = [thread EXCEPT ![t] = "inc_thread_num"]
  /\ th_kind' = [th_kind EXCEPT ![t] = k]
  /\ th_fd' = [th_fd EXCEPT ![t] = comm_fd[k]]
  /\ comm_fd' = [comm_fd EXCEPT ![k] = left]
  /\ UNCHANGED <<smVars, proc, is_ready>>

\* Mutant of CommSpawns: the same descriptor is given to a second thread.
CommSpawnsTwice(k, t) == SpawnAndGoto(k, t, "accepted", comm_fd[k])

CommSpawns(k, t) == SpawnAndGoto(k, t, "while", NoFd)

CommThread(k) ==
  \/ CommStart(k) \/ CommWhile(k) \/ CommAcceptFails(k) \/ CommDrops(k)
  \/ \E t \in Thread : CommSpawns(k, t)
-----------------------------------------------------------------------------
(***************************************************************************)
(* session_thread_call and Session::run of one session.                    *)
(***************************************************************************)
Session(t, from, to) ==
  /\ proc = "up" /\ thread[t] = from /\ thread' = [thread EXCEPT ![t] = to]
  /\ UNCHANGED <<stalled, mainVars, commVars, th_kind, th_fd>>

CountThread(t, n) ==
  /\ Session(t, "inc_thread_num", "create_session")
  /\ num_threads' = [num_threads EXCEPT ![th_kind[t]] = @ + n]
  /\ UNCHANGED <<smVars, proc, s_interrupted, exit_all, th_sid, th_ids, alive>>

inc_thread_num(t) == CountThread(t, 1)

CreatesSession(t) ==
  /\ Session(t, "create_session", "get_session")
  /\ ManagerFree
  /\ create_session(th_fd[t])
  /\ th_sid' = [th_sid EXCEPT ![t] = NewId]
  /\ alive' = alive \cup {t}
  /\ UNCHANGED <<proc, s_interrupted, exit_all, num_threads, th_ids>>

\* get_session throws when the session was deleted in between.
get_session(t) ==
  /\ Session(t, "get_session", "read_command")
  /\ IF th_sid[t] \in CurrentIds THEN Prints ELSE proc' = "crashed"
  /\ UNCHANGED <<smVars, s_interrupted, exit_all, num_threads, th_sid, th_ids, alive>>

\* A request is read from the descriptor, whoever is connected to it now.
ReadsCommand(t) ==
  /\ Session(t, "read_command", "execute")
  /\ ~exit_comm /\ th_fd[t] \in open_fds
  /\ UNCHANGED <<smVars, proc, s_interrupted, exit_all, num_threads, th_sid, th_ids, alive>>

\* run returns: the client has closed the connection, delete_session has,
\* exit_comm is seen before or after the read, the read fails, or the
\* WebSocket refuses a frame.
RunReturns(t) ==
  /\ Session(t, "read_command", "delete_session")
  /\ Prints
  /\ UNCHANGED <<smVars, s_interrupted, exit_all, num_threads, th_sid, th_ids, alive>>

\* DeviceManager::execute of a request that leaves this state alone.
Executes(t) ==
  /\ Session(t, "execute", "read_command")
  /\ Prints
  /\ UNCHANGED <<smVars, s_interrupted, exit_all, num_threads, th_sid, th_ids, alive>>

\* KServer::execute holds ks_mutex; only GET_RUNNING_SESSIONS takes several
\* steps under it.
KsMutexFree == \A u \in Thread : thread[u] \notin {"list_sessions", "faulting_listing"}

ExecutesSubscribe(t, arg) ==
  /\ Session(t, "execute", "read_command")
  /\ KsMutexFree
  /\ subscribe(arg, th_sid[t])
  /\ UNCHANGED <<proc, s_interrupted, exit_all, num_threads, th_sid, th_ids, alive>>

\* GET_RUNNING_SESSIONS copies the ids without the manager's mutex, then looks
\* the sessions up one by one, in the order of the map's keys.
ListsSessions(t) ==
  /\ Session(t, "execute", "list_sessions")
  /\ KsMutexFree
  /\ th_ids' = [th_ids EXCEPT ![t] = CurrentIds]
  /\ UNCHANGED <<smVars, proc, s_interrupted, exit_all, num_threads, th_sid, alive>>

\* get_session throws, and nothing catches it, when the session is gone.
LooksUpSession(t) ==
  /\ Session(t, "list_sessions", "list_sessions")
  /\ th_ids[t] # {}
  /\ LET id == Min(th_ids[t])
     IN  IF id \in CurrentIds
         THEN th_ids' = [th_ids EXCEPT ![t] = @ \ {id}] /\ UNCHANGED proc
         ELSE proc' = "crashed" /\ UNCHANGED th_ids
  /\ UNCHANGED <<smVars, s_interrupted, exit_all, num_threads, th_sid, alive>>

\* Every session is listed.  A send that fails does not end the command: its
\* result is kept in an unsigned integer before it is compared with 0.
ListReturns(t) ==
  /\ Session(t, "list_sessions", "read_command")
  /\ th_ids[t] = {}
  /\ UNCHANGED <<smVars, proc, s_interrupted, exit_all, num_threads, th_sid, th_ids, alive>>

\* SIGSEGV or SIGBUS in a device's operation: crash_signal_handler logs,
\* sets s_interrupted and returns to the same instruction, for ever.
ExecutesFault(t) ==
  /\ Session(t, "execute", "faulting")
  /\ s_interrupted' = TRUE
  /\ Prints
  /\ UNCHANGED <<smVars, exit_all, num_threads, th_sid, th_ids, alive>>

\* DeviceManager::alloc_device found a circular dependency.
ExecutesCircular(t) ==
  /\ Session(t, "execute", "read_command")
  /\ exit_all' = TRUE
  /\ Prints
  /\ UNCHANGED <<smVars, s_interrupted, num_threads, th_sid, th_ids, alive>>

\* delete_session takes the manager's mutex.
LocksManager(t) ==
  /\ Session(t, "delete_session", "deleting")
  /\ ManagerFree
  /\ UNCHANGED <<smVars, proc, s_interrupted, exit_all, num_threads, th_sid, th_ids, alive>>

DeletesOwnSession(t) ==
  /\ Session(t, "deleting", "dec_thread_num")
  /\ DeletesSession(th_sid[t])
  /\ UNCHANGED <<s_interrupted, exit_all, num_threads, th_sid, th_ids>>

dec_thread_num(t) ==
  /\ proc = "up" /\ thread[t] = "dec_thread_num"
  /\ thread' = [thread EXCEPT ![t] = "none"]
  /\ num_threads' = [num_threads EXCEPT ![th_kind[t]] = @ - 1]
  /\ th_fd' = [th_fd EXCEPT ![t] = NoFd]
  /\ th_sid' = [th_sid EXCEPT ![t] = 0]
  /\ UNCHANGED <<smVars, proc, stalled, s_interrupted, exit_all, mainVars, commVars, th_kind,
                 th_ids, alive>>

\* Use of the Session object after its deletion: the process aborts, or the
\* thread faults and stays in crash_signal_handler.
UsesFreedSession(t) ==
  /\ proc = "up" /\ t \notin alive
  /\ thread[t] \in {"read_command", "execute", "list_sessions", "delete_session"}
  /\ \/ proc' = "crashed" /\ UNCHANGED <<s_interrupted, thread>>
     \/ /\ thread' = [thread EXCEPT ![t] = IF @ = "list_sessions" THEN "faulting_listing"
                                           ELSE "faulting"]
        /\ s_interrupted' = TRUE
        /\ UNCHANGED proc
  /\ UNCHANGED <<smVars, stalled, exit_all, mainVars, commVars, num_threads, th_kind, th_fd,
                 th_sid, th_ids, alive>>

SessionThread(t) ==
  \/ inc_thread_num(t) \/ CreatesSession(t) \/ get_session(t)
  \/ ReadsCommand(t) \/ RunReturns(t)
  \/ Executes(t) \/ ExecutesCircular(t) \/ \E arg \in ChannelArg : ExecutesSubscribe(t, arg)
  \/ ListsSessions(t) \/ LooksUpSession(t) \/ ListReturns(t) \/ ExecutesFault(t)
  \/ LocksManager(t) \/ DeletesOwnSession(t) \/ dec_thread_num(t) \/ UsesFreedSession(t)
-----------------------------------------------------------------------------
(***************************************************************************)
(* Reads of the pool and of the subscribers without a lock, while another  *)
(* thread changes them: the process aborts, or the reader faults and stays *)
(* in crash_signal_handler with the mutexes it holds.                      *)
(***************************************************************************)
\* A print goes through the list and the pool.
Emits == ~s_interrupted /\ subscribers[SYSLOG_CHANNEL] # << >>

\* Session threads other than those of S that may change them meanwhile.
ChangedBeside(S) == \E u \in Thread \ S : thread[u] # "none"

\* run walks the pool at the beginning of delete_all.
MainRaces ==
  /\ proc = "up" /\ ChangedBeside({})
  /\ \/ main \in Loop
     \/ main \in {"delete_all", "deleting", "shutdown"} /\ Emits
  /\ \/ proc' = "crashed" /\ UNCHANGED <<main, s_interrupted>>
     \/ main' = "faulting" /\ s_interrupted' = TRUE /\ UNCHANGED proc
  /\ UNCHANGED <<smVars, stalled, doomed, exit_comm, shut, exit_all, commVars,
                 threadVars>>

CommRaces(k) ==
  /\ proc = "up" /\ ChangedBeside({}) /\ Emits
  /\ comm[k] \in {"while", "accept", "accepted"}
  /\ \/ proc' = "crashed" /\ UNCHANGED <<comm, s_interrupted>>
     \/ comm' = [comm EXCEPT ![k] = "faulting"] /\ s_interrupted' = TRUE /\ UNCHANGED proc
  /\ UNCHANGED <<smVars, stalled, exit_all, mainVars, is_ready, comm_fd, threadVars>>

\* get_session and GET_RUNNING_SESSIONS look sessions up.
SessionRaces(t) ==
  /\ proc = "up"
  /\ ChangedBeside({t}) \/ main \in {"delete_all", "deleting"}
  /\ \/ thread[t] \in {"get_session", "execute", "list_sessions"}
     \/ thread[t] \in {"read_command", "deleting"} /\ Emits
  /\ \/ proc' = "crashed" /\ UNCHANGED <<thread, s_interrupted>>
     \/ /\ \E pc \in {"faulting", "faulting_listing", "faulting_deleting"} :
             /\ pc = "faulting" => thread[t] \notin {"list_sessions", "deleting"}
             /\ pc = "faulting_listing" => thread[t] \in {"execute", "list_sessions"}
             /\ pc = "faulting_deleting" => thread[t] = "deleting"
             /\ thread' = [thread EXCEPT ![t] = pc]
        /\ s_interrupted' = TRUE /\ UNCHANGED proc
  /\ UNCHANGED <<smVars, stalled, exit_all, mainVars, commVars, num_threads, th_kind, th_fd,
                 th_sid, th_ids, alive>>

Races ==
  \/ MainRaces
  \/ \E k \in Kind : CommRaces(k)
  \/ \E t \in Thread : SessionRaces(t)
-----------------------------------------------------------------------------
Ended == proc # "up" /\ UNCHANGED ksVars

KSNext ==
  \/ exit_signal_handler
  \/ LogReaders
  \/ MainThread
  \/ \E k \in Kind : CommThread(k) \/ CommOptionsFail(k) \/ \E fd \in Fd : CommAccept(k, fd)
  \/ \E t \in Thread : SessionThread(t)
  \/ Races
  \/ Ended

\* The main thread polls, every comm thread runs unless it waits in accept, and
\* a thread in delete_session goes on to its end; but none of them has to
\* while a subscriber does not read what it prints.  Clients and the rest of
\* the session threads owe nothing.  delete_all gets a mutex that is free
\* again and again (std::mutex does not promise it: sessions created and
\* closed without end could starve it).
KSFairness ==
  /\ WF_ksVars(~stalled /\ MainThread)
  /\ SF_ksVars(~stalled /\ delete_all_next)
  /\ \A k \in Kind : WF_ksVars(~stalled /\ CommThread(k))
  /\ \A t \in Thread : WF_ksVars(~stalled /\ DeletesOwnSession(t))

KSSpec == KSInit /\ [][KSNext]_ksVars /\ KSFairness
-----------------------------------------------------------------------------
Serving == main \in {"start"} \cup Loop

\* Where a session thread has a socket but no session yet, and where it uses
\* its session.
Spawned == {"inc_thread_num", "create_session"}
HoldsSession ==
  {"get_session", "read_command", "execute", "list_sessions", "delete_session", "deleting"}

\* While the server serves, every session thread from get_session to
\* delete_session runs the session the pool holds under its id, on its own
\* socket: nobody deletes or replaces a session under its thread's feet.  An
\* open socket has one thread at most, during the shutdown too, as long as
\* its session exists.
ThreadsOwnSessions ==
  /\ Serving => \A t \in Thread :
       thread[t] \in HoldsSession =>
         /\ t \in alive
         /\ th_sid[t] \in CurrentIds
         /\ session_pool[th_sid[t]] = th_fd[t]
  /\ \A t, u \in alive : th_fd[t] = th_fd[u] => t = u

\* A socket is closed by the deletion of its own session and by nothing else,
\* although ids and descriptors are reused and delete_all deletes sessions
\* that their threads delete again: the descriptors in the pool, those the
\* comm threads have just accepted and those of threads about to create their
\* session are open and all different.
SocketsHeld ==
  /\ \A a \in CurrentIds : session_pool[a] \in open_fds
  /\ \A a, b \in CurrentIds : session_pool[a] = session_pool[b] => a = b
  /\ \A k \in Kind : comm_fd[k] # NoFd =>
       /\ comm_fd[k] \in open_fds
       /\ \A a \in CurrentIds : session_pool[a] # comm_fd[k]
       /\ \A j \in Kind : comm_fd[j] = comm_fd[k] => j = k
  /\ \A t \in Thread : thread[t] \in Spawned =>
       /\ th_fd[t] \in open_fds
       /\ \A a \in CurrentIds : session_pool[a] # th_fd[t]
       /\ \A k \in Kind : comm_fd[k] # th_fd[t]
       /\ \A u \in Thread : thread[u] \in Spawned /\ th_fd[u] = th_fd[t] => u = t

\* Whoever deletes a session, its own thread, delete_all or both, the ids stay
\* partitioned and the counter right: no double free of an id.
PoolConsistent == IdsPartitioned /\ SessionsCounted

\* assert(num_sess == 0) at the end of delete_all (session_manager.cpp:138).
DeleteAllEmptiesPool == main = "deleted_all" => num_sess = 0

\* A thread the shutdown waits for has met a race and never leaves
\* crash_signal_handler: the main thread, a comm thread, or a session thread
\* with the manager's mutex.
StuckInHandler ==
  \/ main = "faulting"
  \/ \E k \in Kind : comm[k] = "faulting"
  \/ \E t \in Thread : thread[t] = "faulting_deleting"

\* An interrupt, a fault or a circular dependency ends the process, although
\* clients stay connected and a thread whose operation faulted never leaves
\* crash_signal_handler and may hold ks_mutex.  It does not end as long as a
\* subscriber of the log does not read: the main thread may wait for it in a
\* print, or for the manager's mutex that a thread waiting for it holds.  Nor
\* does it end if a read of the pool without a lock has made a thread fault
\* that the shutdown needs.
ShutdownCompletes ==
  <>[]~stalled => ((s_interrupted \/ exit_all) ~> (proc # "up" \/ StuckInHandler))
=============================================================================
