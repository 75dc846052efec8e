------------------------------- MODULE PubSub -------------------------------
(***************************************************************************)
(* The subscribers of a channel under the threads that use it              *)
(* (core/pubsub.hpp, core/pubsub.tpp), load by load and store by store.    *)
(*                                                                         *)
(* SUBSCRIBE_PUBSUB runs under KServer::ks_mutex, the unsubscription of a  *)
(* deleted session under the mutex of SessionManager, and emit under       *)
(* whatever its caller holds: ks_mutex for PUBSUB_PING, the manager's for  *)
(* the warning of delete_session, nothing for most messages.  So the       *)
(* vector's buffer, its end and fmt_buffer are shared without a lock.  The *)
(* module keeps one vector: the one of SYSLOG_CHANNEL, on which every      *)
(* message is emitted.                                                     *)
(*                                                                         *)
(* Session s is served by thread s.  A buffer of the vector is known by    *)
(* how often the vector has grown; the older ones are freed, and a read    *)
(* there gives anything, a value that is no session's id included.         *)
(***************************************************************************)
EXTENDS Naturals, Sequences, FiniteSets, Functions

CONSTANTS Session,   \* session ids, each with its thread
          Slow,      \* those whose client may stop sending and reading
          Garbage,   \* a value that is no session's id
          None,      \* nobody
          MaxOps     \* bound on the operations, signals and stalls, in all

ASSUME PubSubAssumption ==
    Slow \subseteq Session /\ Garbage \notin Session /\ None \notin Session
    /\ Garbage # None /\ MaxOps \in Nat

VARIABLES
  grown, cells, finish,    \* the vector: its buffer, the cells, how many are used
  fmt_buffer,              \* whose text it holds
  session_pool,            \* sessions that exist
  ks_mutex, mutex,         \* holders of the two mutexes
  s_interrupted,
  stalled,                 \* sessions whose client neither sends nor reads
  pc,                      \* thread -> where it is
  l,                       \* thread -> its local variables, see Fresh
  crashed,                 \* the thread that has crashed the process
  ops,                     \* operations, signals and stalls begun
  subscribed,              \* history: sessions that have subscribed
  clash                    \* history: a subscribe and an unsubscribe overlapped

vector == <<grown, cells, finish>>
locks  == <<ks_mutex, mutex>>
env    == <<s_interrupted, stalled>>
vars == <<vector, locks, env, fmt_buffer, session_pool, pc, l, crashed, ops,
          subscribed, clash>>

\* A thread's locals: where emit returns to; the buffer, the end and the
\* position of a loop; the end or the session id it has loaded.  And, for the
\* properties, what its emit has overlapped, the subscribers when it began
\* and the deliveries since.
Fresh == [ret |-> "idle", b |-> 0, e |-> 0, i |-> 1, loaded |-> None,
          raced |-> {}, before |-> {}, got |-> << >>]

\* The cells of the buffer, and of the one that replaces it when it is full.
Capacity == Len(cells)
Enlarged == IF Capacity = 0 THEN 1 ELSE 2 * Capacity

PSInit ==
  /\ grown = 0 /\ cells = << >> /\ finish = 0
  /\ fmt_buffer = None
  /\ session_pool = Session
  /\ ks_mutex = None /\ mutex = None
  /\ s_interrupted = FALSE /\ stalled = {}
  /\ pc = [t \in Session |-> "idle"]
  /\ l = [t \in Session |-> Fresh]
  /\ crashed = None
  /\ ops = 0
  /\ subscribed = {} /\ clash = FALSE

\* The members of the vector are being replaced by those of a larger buffer.
Growing == \E t \in Session : pc[t] = "grow"

\* What cell n of buffer m may hold when it is read, and the end of a loop.
Reads(m, n) ==
  IF m = grown /\ n \in DOMAIN cells /\ ~Growing THEN {cells[n]}
  ELSE Session \cup {Garbage}
Ends == IF Growing THEN {finish, finish + 1} ELSE {finish}

At(t, from) == crashed = None /\ pc[t] = from
Goto(t, to) == pc' = [pc EXCEPT ![t] = to]
Returns(t) == Goto(t, "idle") /\ l' = [l EXCEPT ![t] = Fresh]
Moves(t) == l' = [l EXCEPT ![t].i = @ + 1]
Loads(t, v) == l' = [l EXCEPT ![t].loaded = v]
Crashes(t) == crashed' = t /\ UNCHANGED pc

Emitting(t) == pc[t] \in {"emit", "send"}
Deleting(t) ==
  \/ pc[t] \in {"unsubscribe", "swap", "pop", "store_pop", "warn", "erase"}
  \/ Emitting(t) /\ l[t].ret = "erase"
Subscribing(t) == pc[t] \in {"find", "push_back", "grow", "store_push"}

\* The locals once thread t does what may disturb the emit of the others.
Overlaps(t, what) ==
  [u \in Session |-> IF u # t /\ Emitting(u) THEN [l[u] EXCEPT !.raced = @ \cup {what}]
                     ELSE l[u]]

-----------------------------------------------------------------------------
\* A client's request, or the end of its connection: the lock is waited for.
Begins(t) ==
  /\ At(t, "idle") /\ t \in session_pool /\ ops < MaxOps
  /\ ops' = ops + 1
  /\ \E op \in {"lock_subscribe", "lock_ping", "lock_delete"} : Goto(t, op)
  /\ UNCHANGED <<vector, locks, env, fmt_buffer, session_pool, l, crashed, subscribed, clash>>

-----------------------------------------------------------------------------
\* KServer::execute takes its lock before SUBSCRIBE_PUBSUB reads the channel.
lock_subscribe(t) ==
  /\ At(t, "lock_subscribe") /\ ks_mutex = None
  /\ ks_mutex' = t
  /\ Goto(t, "read_channel")
  /\ UNCHANGED <<vector, mutex, env, fmt_buffer, session_pool, l, crashed, ops, subscribed, clash>>

\* The channel is read, which blocks while the client does not send it, and
\* Subscribers::subscribe begins: std::find goes from begin to the end it loads.
read_channel(t) ==
  /\ At(t, "read_channel") /\ t \notin stalled
  /\ Goto(t, "find")
  /\ l' = [l EXCEPT ![t] = [Fresh EXCEPT !.b = grown, !.e = finish]]
  /\ clash' = (clash \/ \E u \in Session : Deleting(u))
  /\ UNCHANGED <<vector, locks, env, fmt_buffer, session_pool, crashed, ops, subscribed>>

FindsOrPushes(t, end) ==
  /\ At(t, "find")
  /\ \/ /\ l[t].i > end
        /\ Goto(t, "push_back") /\ UNCHANGED <<l, ks_mutex, subscribed>>
     \/ /\ l[t].i <= end
        /\ \E v \in Reads(l[t].b, l[t].i) :
             IF v = t
             THEN Returns(t) /\ ks_mutex' = None /\ subscribed' = subscribed \cup {t}
             ELSE Moves(t) /\ UNCHANGED <<pc, ks_mutex, subscribed>>
  /\ UNCHANGED <<vector, mutex, env, fmt_buffer, session_pool, crashed, ops, clash>>

\* Mutant of find: a session that has subscribed is added again.
find_nothing(t) == FindsOrPushes(t, 0)

find(t) == FindsOrPushes(t, l[t].e)

\* push_back with room: the cell is written, and the end is loaded to be
\* incremented.
push_back(t) ==
  /\ At(t, "push_back") /\ finish < Capacity
  /\ cells' = [cells EXCEPT ![finish + 1] = t]
  /\ Loads(t, finish)
  /\ Goto(t, "store_push")
  /\ UNCHANGED <<grown, finish, locks, env, fmt_buffer, session_pool, crashed, ops,
                 subscribed, clash>>

\* push_back without room: the elements move to a buffer twice as large, and
\* the old one is freed before the vector's members are set.
push_back_grows(t) ==
  /\ At(t, "push_back") /\ finish = Capacity
  /\ grown' = grown + 1
  /\ cells' = [n \in 1 .. Enlarged |->
                 IF n <= finish THEN cells[n] ELSE IF n = finish + 1 THEN t ELSE Garbage]
  /\ l' = [Overlaps(t, "growth") EXCEPT ![t].loaded = finish]
  /\ Goto(t, "grow")
  /\ UNCHANGED <<finish, locks, env, fmt_buffer, session_pool, crashed, ops, subscribed, clash>>

store_push(t) ==
  /\ At(t, "store_push") \/ At(t, "grow")
  /\ finish' = l[t].loaded + 1
  /\ subscribed' = subscribed \cup {t}
  /\ ks_mutex' = None
  /\ Returns(t)
  /\ UNCHANGED <<grown, cells, mutex, env, fmt_buffer, session_pool, crashed, ops, clash>>

-----------------------------------------------------------------------------
\* SessionManager::delete_session, with Subscribers::unsubscribe inside.
lock_delete(t) ==
  /\ At(t, "lock_delete") /\ mutex = None
  /\ mutex' = t
  /\ Goto(t, "unsubscribe")
  /\ \E end \in Ends :
       l' = [Overlaps(t, "deletion") EXCEPT ![t] = [Fresh EXCEPT !.b = grown, !.e = end]]
  /\ clash' = (clash \/ \E u \in Session : Subscribing(u))
  /\ UNCHANGED <<vector, ks_mutex, env, fmt_buffer, session_pool, crashed, ops, subscribed>>

\* Mutant of unsubscribe: the session is deleted and stays in the list.
unsubscribe_missing(t) ==
  /\ At(t, "unsubscribe")
  /\ Goto(t, "warn")
  /\ UNCHANGED <<vector, locks, env, fmt_buffer, session_pool, l, crashed, ops, subscribed, clash>>

unsubscribe(t) ==
  /\ At(t, "unsubscribe")
  /\ \/ l[t].i > l[t].e /\ Goto(t, "warn") /\ UNCHANGED l
     \/ /\ l[t].i <= l[t].e
        /\ \E v \in Reads(l[t].b, l[t].i) :
             IF v = t THEN Goto(t, "swap") /\ UNCHANGED l
             ELSE Moves(t) /\ UNCHANGED pc
  /\ UNCHANGED <<vector, locks, env, fmt_buffer, session_pool, crashed, ops, subscribed, clash>>

\* swap(*it, s.back()): the element found may be in a buffer freed since, and
\* the program may not survive the write there.
SwapsCells(t, here) ==
  /\ At(t, "swap")
  /\ \/ /\ \E v \in Reads(l[t].b, l[t].i), w \in Reads(grown, finish) :
             cells' = [n \in DOMAIN cells |->
                         IF n = finish THEN v
                         ELSE IF l[t].b = grown /\ n = here THEN w ELSE cells[n]]
        /\ Goto(t, "pop") /\ UNCHANGED crashed
     \/ (l[t].b # grown \/ Growing) /\ Crashes(t) /\ UNCHANGED cells
  /\ UNCHANGED <<grown, finish, locks, env, fmt_buffer, session_pool, l, ops, subscribed, clash>>

\* Mutant of swap: the last element is not kept in the place found.
swap_forgets(t) == SwapsCells(t, 0)

swap(t) == SwapsCells(t, l[t].i)

\* pop_back: the end is loaded and stored.  An end before the beginning, which
\* only a find in freed memory can lead to, lets the next loop run away.
pop(t) ==
  /\ At(t, "pop")
  /\ Loads(t, finish)
  /\ Goto(t, "store_pop")
  /\ UNCHANGED <<vector, locks, env, fmt_buffer, session_pool, crashed, ops, subscribed, clash>>

store_pop(t) ==
  /\ At(t, "store_pop")
  /\ IF l[t].loaded = 0
     THEN Crashes(t) /\ UNCHANGED finish
     ELSE finish' = l[t].loaded - 1 /\ Goto(t, "warn") /\ UNCHANGED crashed
  /\ UNCHANGED <<grown, cells, locks, env, fmt_buffer, session_pool, l, ops, subscribed, clash>>

\* The rest of delete_session, after the warning if there was one.
erase(t) ==
  /\ At(t, "erase")
  /\ session_pool' = session_pool \ {t}
  /\ subscribed' = subscribed \ {t}
  /\ mutex' = None
  /\ Returns(t)
  /\ UNCHANGED <<vector, ks_mutex, env, fmt_buffer, crashed, ops, clash>>

\* create_session, for a client that comes and gets the id again.
create_session(t) ==
  /\ At(t, "idle") /\ t \notin session_pool /\ mutex = None
  /\ session_pool' = session_pool \cup {t}
  /\ UNCHANGED <<vector, locks, env, fmt_buffer, pc, l, crashed, ops, subscribed, clash>>

-----------------------------------------------------------------------------
\* PubSub::emit.

\* For the properties: what an emit of thread t that begins overlaps, and the
\* sessions it has to reach.
Underway(t) ==
  {what \in {"deletion", "growth"} :
     IF what = "growth" THEN Growing ELSE \E v \in Session \ {t} : Deleting(v)}
Receivers(t, next) == IF next = "erase" THEN subscribed \ {t} ELSE subscribed

\* The locals of thread t when its loop begins; its emit returns to next.
Begun(t, next, end) ==
  [ret |-> next, b |-> grown, e |-> end, i |-> 1, loaded |-> None,
   raced |-> Underway(t), before |-> Receivers(t, next), got |-> << >>]

\* The text is formatted into fmt_buffer and the loop begins; or nothing is
\* emitted since the server is interrupted.
EmitThen(t, next) ==
  IF s_interrupted
  THEN Goto(t, next) /\ UNCHANGED <<l, fmt_buffer>>
  ELSE /\ fmt_buffer' = t
       /\ Goto(t, "emit")
       /\ \E end \in Ends : l' = [Overlaps(t, "text") EXCEPT ![t] = Begun(t, next, end)]

\* A message of the session thread, under no lock.
print(t) ==
  /\ At(t, "idle") /\ t \in session_pool /\ ops < MaxOps /\ ~s_interrupted
  /\ ops' = ops + 1
  /\ EmitThen(t, "idle")
  /\ UNCHANGED <<vector, locks, env, session_pool, crashed, subscribed, clash>>

\* PUBSUB_PING holds ks_mutex while it emits.
lock_ping(t) ==
  /\ At(t, "lock_ping") /\ ks_mutex = None
  /\ ks_mutex' = t
  /\ EmitThen(t, "unlock_execute")
  /\ UNCHANGED <<vector, mutex, env, session_pool, crashed, ops, subscribed, clash>>

\* SUBSCRIBE_PUBSUB cannot read its channel, and prints that under the lock.
read_channel_fails(t) ==
  /\ At(t, "read_channel") /\ t \notin stalled
  /\ EmitThen(t, "unlock_execute")
  /\ UNCHANGED <<vector, locks, env, session_pool, crashed, ops, subscribed, clash>>

UnlocksExecute(t, holder) ==
  /\ At(t, "unlock_execute")
  /\ ks_mutex' = holder
  /\ Returns(t)
  /\ UNCHANGED <<vector, mutex, env, fmt_buffer, session_pool, crashed, ops, subscribed, clash>>

\* Mutant of unlock_execute: the mutex is kept.
keep_execute(t) == UnlocksExecute(t, ks_mutex)

unlock_execute(t) == UnlocksExecute(t, None)

\* delete_session warns if the socket cannot be shut down, under its mutex.
warn(t) ==
  /\ At(t, "warn")
  /\ \/ EmitThen(t, "erase")
     \/ Goto(t, "erase") /\ UNCHANGED <<l, fmt_buffer>>
  /\ UNCHANGED <<vector, locks, env, session_pool, crashed, ops, subscribed, clash>>

\* One round: the id is read, and session_pool.at throws if it has no session.
emit(t) ==
  /\ At(t, "emit") /\ l[t].i <= l[t].e
  /\ \E v \in Reads(l[t].b, l[t].i) :
       \/ v \in session_pool /\ Loads(t, v) /\ Goto(t, "send") /\ UNCHANGED crashed
       \/ v \notin session_pool /\ Crashes(t) /\ UNCHANGED l
  /\ UNCHANGED <<vector, locks, env, fmt_buffer, session_pool, ops, subscribed, clash>>

emit_returns(t) ==
  /\ At(t, "emit") /\ l[t].i > l[t].e
  /\ Goto(t, l[t].ret)
  /\ l' = [l EXCEPT ![t] = Fresh]
  /\ UNCHANGED <<vector, locks, env, fmt_buffer, session_pool, crashed, ops, subscribed, clash>>

\* Session::send blocks while the client does not read.  The session may be
\* deleted in the meantime, and the program may not survive that.
send(t) ==
  /\ At(t, "send")
  /\ \/ /\ l[t].loaded \notin stalled \cap session_pool
        /\ l' = [l EXCEPT ![t].got = Append(@, <<l[t].loaded, fmt_buffer>>), ![t].i = @ + 1]
        /\ Goto(t, "emit")
        /\ UNCHANGED crashed
     \/ l[t].loaded \notin session_pool /\ Crashes(t) /\ UNCHANGED l
  /\ UNCHANGED <<vector, locks, env, fmt_buffer, session_pool, ops, subscribed, clash>>

-----------------------------------------------------------------------------
\* The clients and the signal.
client_stalls(s) ==
  /\ crashed = None /\ s \in Slow \ stalled /\ stalled' = stalled \cup {s}
  /\ ops < MaxOps /\ ops' = ops + 1
  /\ UNCHANGED <<vector, locks, s_interrupted, fmt_buffer, session_pool, pc, l, crashed,
                 subscribed, clash>>

client_reads(s) ==
  /\ crashed = None /\ s \in stalled /\ stalled' = stalled \ {s}
  /\ UNCHANGED <<vector, locks, s_interrupted, fmt_buffer, session_pool, pc, l, crashed,
                 ops, subscribed, clash>>

exit_signal_handler ==
  /\ crashed = None /\ ~s_interrupted /\ s_interrupted' = TRUE
  /\ ops < MaxOps /\ ops' = ops + 1
  /\ UNCHANGED <<vector, locks, stalled, fmt_buffer, session_pool, pc, l, crashed,
                 subscribed, clash>>

Thread(t) ==
  \/ lock_subscribe(t) \/ read_channel(t) \/ read_channel_fails(t)
  \/ find(t) \/ push_back(t) \/ push_back_grows(t) \/ store_push(t)
  \/ lock_delete(t) \/ unsubscribe(t) \/ swap(t) \/ pop(t) \/ store_pop(t) \/ erase(t)
  \/ lock_ping(t) \/ unlock_execute(t) \/ warn(t) \/ emit(t) \/ emit_returns(t) \/ send(t)

PSNext ==
  \/ \E t \in Session : Thread(t) \/ Begins(t) \/ print(t) \/ create_session(t)
  \/ \E s \in Session : client_stalls(s) \/ client_reads(s)
  \/ exit_signal_handler

\* A thread that can go on does.
PSFairness == \A t \in Session : WF_vars(Thread(t))

PSSpec == PSInit /\ [][PSNext]_vars /\ PSFairness

-----------------------------------------------------------------------------
(* Properties. *)

Quiet == \A t \in Session : ~Subscribing(t) /\ ~Deleting(t)

(***************************************************************************)
(* The list holds each subscribed session once and nobody else, whenever   *)
(* nobody is changing it, as long as no subscription has overlapped an     *)
(* unsubscription: the two hold different mutexes (pubsub.hpp:37, :53).    *)
(***************************************************************************)
ListExact ==
  Quiet /\ ~clash =>
    /\ {cells[n] : n \in 1 .. finish} = subscribed
    /\ finish = Cardinality(subscribed)

(***************************************************************************)
(* An emit throws or reads freed memory only if it overlapped the deletion *)
(* of a session or the growth of the list, or the list was damaged before: *)
(* a subscription that finds room does it no harm, since push_back writes  *)
(* the cell before it moves the end and the loop has loaded its end        *)
(* (pubsub.tpp:22).  The warning of a deletion meets no dead session either. *)
(***************************************************************************)
CrashOnlyOnOverlap ==
  crashed # None => clash \/ l[crashed].raced \cap {"deletion", "growth"} # {}

(***************************************************************************)
(* An emit that no deletion or growth overlapped sends to each session     *)
(* subscribed when it began exactly once, and to no other, whatever        *)
(* subscriptions come meanwhile; and what it sends is its own text unless  *)
(* another thread has formatted one into the shared fmt_buffer since       *)
(* (pubsub.tpp:42).                                                        *)
(***************************************************************************)
DeliveredOnce ==
  \A t \in Session :
    pc[t] = "emit" /\ l[t].i > l[t].e /\ ~clash
        /\ l[t].raced \cap {"deletion", "growth"} = {} =>
      /\ {l[t].got[n][1] : n \in DOMAIN l[t].got} = l[t].before
      /\ Len(l[t].got) = Cardinality(l[t].before)
      /\ "text" \notin l[t].raced => \A n \in DOMAIN l[t].got : l[t].got[n][2] = t

(***************************************************************************)
(* If every client sends and reads at last, every request and every       *)
(* message ends, or the process has crashed: the two mutexes are given     *)
(* back and never waited for in a circle.  Without that a thread blocked   *)
(* in a client's socket holds ks_mutex, for the channel it has not been    *)
(* sent (kserver_commands.cpp:223) or in an emit, or the manager's mutex   *)
(* for ever (pubsub.tpp:60).                                               *)
(***************************************************************************)
RequestsReturn ==
  <>[](stalled = {}) =>
    \A t \in Session : (pc[t] # "idle") ~> (pc[t] = "idle" \/ crashed # None)

=============================================================================
