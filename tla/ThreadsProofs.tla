---------------------------- MODULE ThreadsProofs ----------------------------
(***************************************************************************)
(* Proofs about the threads that serve clients: ListeningChannel, which    *)
(* makes and counts them, and DeviceManager, where their commands meet.    *)
(*                                                                         *)
(* ListeningChannel, for any number of connections, any limit and any      *)
(* number of requests: num_threads is atomic, so it is the number of       *)
(* threads between their increment and their decrement, all of which are   *)
(* being served; and a total that a thread has loaded and not stored yet   *)
(* is one the counter had, so the store, however late, adds one thread's   *)
(* share to what it was entitled to already.                               *)
(*                                                                         *)
(* DeviceManager, for every set of devices, of threads and of dependency   *)
(* graphs: only the owner of the mutex has frames of alloc_device, they    *)
(* are of distinct devices each got by the constructor below it, and the   *)
(* devices under construction are those of its frames; so a device found   *)
(* under construction is on a dependency cycle, and a constructor that     *)
(* returns has got constructed devices only.                               *)
(***************************************************************************)
EXTENDS ListeningChannel, DeviceManager, SequenceTheorems, FiniteSetTheorems,
        WellFoundedInduction, TLAPS

-----------------------------------------------------------------------------
(* ListeningChannel *)

\* The places of a session thread, in order.
Early == {"none", "inc_thread_num", "opened_load", "opened_store", "total_load", "total_store"}
InSession == {"print_start", "run", "print_close", "requests_load", "requests_store"}
ThreadPc == Early \cup InSession
              \cup {"delete_session", "dec_thread_num", "closed_load", "closed_store", "done"}

\* The threads between the increment and the decrement of num_threads.
Counted == {c \in Conn : thread[c] \notin {"none", "inc_thread_num", "closed_load",
                                           "closed_store", "done"}}

\* The sessions that have been counted in total_sessions_num, and those whose
\* requests have been counted in total_requests_num.
Begun == {c \in Conn : thread[c] \notin Early}
Finished == {c \in Conn : thread[c] \notin Early \cup InSession}

LCTypes ==
  /\ conn \in [Conn -> {"away", "backlog", "held", "served", "closed", "refused", "abandoned"}]
  /\ comm_fd \in Conn \cup {NoConn}
  /\ num_threads \in Int
  /\ stats \in [Fields -> Int]
  /\ thread \in [Conn -> ThreadPc]
  /\ reg \in [Conn -> Int]

\* A connection has no thread before the comm thread has accepted it, and the
\* comm thread holds the connection it is about to serve.
ThreadAfterAccept ==
  /\ comm_fd # NoConn => conn[comm_fd] = "held"
  /\ \A c \in Conn : conn[c] \in {"away", "backlog", "held"} => thread[c] = "none"

\* The atomic counter is exact.
CountExact == num_threads = Cardinality(Counted)

\* Neither the totals nor a value loaded from them exceed what has happened.
TotalsBounded ==
  /\ stats["total_sessions_num"] \in 0..Cardinality(Begun)
  /\ Begun # {} => stats["total_sessions_num"] >= 1
  /\ stats["total_requests_num"] \in 0..(MaxRequests * Cardinality(Finished))
  /\ \A c \in Conn : thread[c] = "total_store" => reg[c] \in 0..Cardinality(Begun)
  /\ \A c \in Conn : thread[c] = "requests_store" =>
       reg[c] \in 0..(MaxRequests * Cardinality(Finished))

\* The inductive invariant.
LCInv == LCTypes /\ ThreadAfterAccept /\ CountExact /\ TotalsBounded
-----------------------------------------------------------------------------
\* Sets of connections are finite.
LEMMA ConnSetsFinite ==
  /\ IsFiniteSet(Counted) /\ Cardinality(Counted) \in Nat
  /\ IsFiniteSet(Begun) /\ Cardinality(Begun) \in Nat
  /\ IsFiniteSet(Finished) /\ Cardinality(Finished) \in Nat
  /\ IsFiniteSet(Alive) /\ Cardinality(Alive) \in Nat
<1>1. ASSUME NEW S \in SUBSET Conn
      PROVE  IsFiniteSet(S) /\ Cardinality(S) \in Nat
  BY ConnAssumption, FS_Subset, FS_CardinalityType
<1> QED BY <1>1 DEF Counted, Begun, Finished, Alive

\* A channel without clients satisfies the invariant.
LEMMA InitLCInv == LCInit => LCInv
<1> SUFFICES ASSUME LCInit PROVE LCInv
  OBVIOUS
<1>1. Counted = {} /\ Begun = {} /\ Finished = {}
  BY DEF LCInit, Counted, Begun, Finished, Early
<1>2. Cardinality({}) = 0
  BY FS_EmptySet
<1>3. LCTypes
  BY DEF LCInit, LCTypes, ThreadPc, Early
<1>4. ThreadAfterAccept
  BY DEF LCInit, ThreadAfterAccept
<1>5. CountExact
  BY <1>1, <1>2 DEF LCInit, CountExact
<1>6. TotalsBounded
  <2>1. MaxRequests * Cardinality(Finished) = 0
    BY <1>1, <1>2, MaxRequestsAssumption
  <2> QED BY <1>1, <1>2, <2>1 DEF LCInit, TotalsBounded, Fields
<1> QED BY <1>3, <1>4, <1>5, <1>6 DEF LCInv

\* Steps that leave the threads and the counters alone.
LEMMA QuietLCInv ==
  ASSUME LCInv, LCTypes', ThreadAfterAccept', UNCHANGED threadVars
  PROVE  LCInv'
<1>1. UNCHANGED <<num_threads, stats, thread, reg>>
  BY DEF threadVars
<1>2. UNCHANGED <<Counted, Begun, Finished>>
  BY <1>1 DEF Counted, Begun, Finished
<1> QED BY <1>1, <1>2 DEF LCInv, CountExact, TotalsBounded

\* The clients, the main thread and the comm thread up to a spawn preserve the
\* invariant.
LEMMA CommLCInv ==
  ASSUME LCInv,
         \/ close_listener \/ LogReaders \/ OtherOpens \/ OtherCloses
         \/ CommStart \/ CommWhile \/ AcceptNoFd \/ AcceptShut \/ CommDrop
         \/ \E c \in Conn : Connect(c) \/ AcceptConn(c) \/ AcceptFails(c)
  PROVE  LCInv'
<1>1. UNCHANGED <<num_threads, stats, thread, reg>>
  BY DEF close_listener, LogReaders, OtherOpens, OtherCloses, CommStart, CommWhile, AcceptNoFd,
     AcceptShut, CommDrop, DropAndGoto, Connect, AcceptConn, AcceptFails, threadVars
<1>2. ASSUME UNCHANGED conn, comm_fd' \in {comm_fd, NoConn}
      PROVE  LCTypes' /\ ThreadAfterAccept'
  BY <1>1, <1>2 DEF LCInv, LCTypes, ThreadAfterAccept
<1>3. LCTypes' /\ ThreadAfterAccept'
  <2>1. CASE \/ close_listener \/ LogReaders \/ OtherOpens \/ OtherCloses
             \/ CommStart \/ CommWhile \/ AcceptNoFd \/ AcceptShut
    BY <1>2, <2>1 DEF close_listener, LogReaders, OtherOpens, OtherCloses, CommStart, CommWhile,
       AcceptNoFd, AcceptShut, commVars
  <2>2. CASE CommDrop
    <3>1. comm_fd' = NoConn /\ (comm_fd = NoConn => conn' = conn)
      BY <2>2 DEF CommDrop, DropAndGoto
    <3>2. CASE comm_fd = NoConn
      BY <1>2, <3>1, <3>2
    <3>3. CASE comm_fd # NoConn
      <4>1. PICK at \in {"abandoned", "refused"} : conn' = [conn EXCEPT ![comm_fd] = at]
        BY <2>2, <3>3 DEF CommDrop, DropAndGoto
      <4> QED BY <1>1, <3>1, <4>1 DEF LCInv, LCTypes, ThreadAfterAccept
    <3> QED BY <3>2, <3>3
  <2>3. ASSUME NEW c \in Conn, Connect(c) \/ AcceptFails(c)
        PROVE  LCTypes' /\ ThreadAfterAccept'
    BY <1>1, <2>3 DEF LCInv, LCTypes, ThreadAfterAccept, Connect, AcceptFails, commVars
  <2>4. ASSUME NEW c \in Conn, AcceptConn(c)
        PROVE  LCTypes' /\ ThreadAfterAccept'
    BY <1>1, <2>4 DEF LCInv, LCTypes, ThreadAfterAccept, AcceptConn
  <2> QED BY <2>1, <2>2, <2>3, <2>4
<1> QED BY <1>1, <1>3, QuietLCInv DEF threadVars

\* A spawned thread is not counted before it has incremented num_threads.
LEMMA SpawnLCInv == LCInv /\ CommSpawn => LCInv'
<1> SUFFICES ASSUME LCInv, CommSpawn PROVE LCInv'
  OBVIOUS
<1>1. /\ comm_fd \in Conn /\ comm_fd' = NoConn
      /\ conn' = [conn EXCEPT ![comm_fd] = "served"]
      /\ thread' = [thread EXCEPT ![comm_fd] = "inc_thread_num"]
      /\ UNCHANGED <<num_threads, stats, reg>>
      /\ thread[comm_fd] = "none"
  BY DEF CommSpawn, LCInv, LCTypes, ThreadAfterAccept
<1>2. LCTypes' /\ ThreadAfterAccept'
  BY <1>1 DEF LCInv, LCTypes, ThreadAfterAccept, ThreadPc, Early
<1>3. \A c \in Conn : thread'[c] = IF c = comm_fd THEN "inc_thread_num" ELSE thread[c]
  BY <1>1 DEF LCInv, LCTypes
<1>4. UNCHANGED <<Counted, Begun, Finished>>
  BY <1>1, <1>3 DEF Counted, Begun, Finished, Early
<1>5. CountExact' /\ TotalsBounded'
  BY <1>1, <1>3, <1>4 DEF LCInv, CountExact, TotalsBounded
<1> QED BY <1>2, <1>5 DEF LCInv
-----------------------------------------------------------------------------
\* A step of the thread of c moves c and nobody else.
LEMMA StepMoves ==
  ASSUME LCInv, NEW c \in Conn, NEW from \in ThreadPc \ {"none"}, NEW to \in ThreadPc \ {"none"},
         Step(c, from, to),
         conn' = conn \/ conn' = [conn EXCEPT ![c] = "closed"]
  PROVE  /\ thread' \in [Conn -> ThreadPc]
         /\ \A d \in Conn : thread'[d] = IF d = c THEN to ELSE thread[d]
         /\ conn' \in [Conn -> {"away", "backlog", "held", "served", "closed", "refused",
                                "abandoned"}]
         /\ comm_fd' = comm_fd
         /\ ThreadAfterAccept'
<1>1. /\ thread[c] = from /\ thread' = [thread EXCEPT ![c] = to]
      /\ comm_fd' = comm_fd
  BY DEF Step, commVars
<1>2. conn[c] \notin {"away", "backlog", "held"}
  BY <1>1 DEF LCInv, ThreadAfterAccept
<1>3. thread' \in [Conn -> ThreadPc] /\ \A d \in Conn : thread'[d] = IF d = c THEN to ELSE thread[d]
  BY <1>1 DEF LCInv, LCTypes
<1>4. conn' \in [Conn -> {"away", "backlog", "held", "served", "closed", "refused", "abandoned"}]
      /\ \A d \in Conn : d # c => conn'[d] = conn[d]
      /\ conn'[c] \notin {"away", "backlog", "held"}
  BY <1>2 DEF LCInv, LCTypes
<1>5. ThreadAfterAccept'
  BY <1>1, <1>2, <1>3, <1>4 DEF LCInv, LCTypes, ThreadAfterAccept
<1> QED BY <1>1, <1>3, <1>4, <1>5

\* inc_thread_num and dec_thread_num keep the atomic counter exact.
LEMMA AddThreadsLCInv ==
  ASSUME LCInv, NEW c \in Conn, inc_thread_num(c) \/ dec_thread_num(c)
  PROVE  LCInv'
<1>1. CASE inc_thread_num(c)
  <2>1. /\ Step(c, "inc_thread_num", "opened_load") /\ thread[c] = "inc_thread_num"
        /\ num_threads' = num_threads + 1 /\ UNCHANGED <<conn, stats, reg>>
    BY <1>1 DEF inc_thread_num, AddThreads, Step
  <2>2. /\ thread' \in [Conn -> ThreadPc]
        /\ \A d \in Conn : thread'[d] = IF d = c THEN "opened_load" ELSE thread[d]
        /\ comm_fd' = comm_fd /\ ThreadAfterAccept'
    BY <2>1, StepMoves DEF ThreadPc, Early
  <2>3. LCTypes'
    BY <2>1, <2>2 DEF LCInv, LCTypes
  <2>4. Counted' = Counted \cup {c} /\ c \notin Counted /\ UNCHANGED <<Begun, Finished>>
    BY <2>1, <2>2 DEF Counted, Begun, Finished, Early
  <2>5. CountExact'
    BY <2>1, <2>4, ConnSetsFinite, FS_AddElement DEF LCInv, CountExact
  <2>6. TotalsBounded'
    BY <2>1, <2>2, <2>4 DEF LCInv, TotalsBounded
  <2> QED BY <2>2, <2>3, <2>5, <2>6 DEF LCInv
<1>2. CASE dec_thread_num(c)
  <2>1. /\ Step(c, "dec_thread_num", "closed_load") /\ thread[c] = "dec_thread_num"
        /\ num_threads' = num_threads + (-1) /\ UNCHANGED <<conn, stats, reg>>
    BY <1>2 DEF dec_thread_num, AddThreads, Step
  <2>2. /\ thread' \in [Conn -> ThreadPc]
        /\ \A d \in Conn : thread'[d] = IF d = c THEN "closed_load" ELSE thread[d]
        /\ comm_fd' = comm_fd /\ ThreadAfterAccept'
    BY <2>1, StepMoves DEF ThreadPc
  <2>3. LCTypes'
    BY <2>1, <2>2 DEF LCInv, LCTypes
  <2>4. Counted' = Counted \ {c} /\ c \in Counted /\ UNCHANGED <<Begun, Finished>>
    BY <2>1, <2>2 DEF Counted, Begun, Finished, Early, InSession
  <2>5. CountExact'
    BY <2>1, <2>4, ConnSetsFinite, FS_RemoveElement DEF LCInv, CountExact
  <2>6. TotalsBounded'
    BY <2>1, <2>2, <2>4 DEF LCInv, TotalsBounded
  <2> QED BY <2>2, <2>3, <2>5, <2>6 DEF LCInv
<1> QED BY <1>1, <1>2

\* Loads preserve the invariant: what is loaded is what the counter holds.
LEMMA LoadLCInv ==
  ASSUME LCInv, NEW c \in Conn,
         \/ Load(c, "opened_load", "opened_store", "opened_sessions_num")
         \/ Load(c, "total_load", "total_store", "total_sessions_num")
         \/ Load(c, "requests_load", "requests_store", "total_requests_num")
         \/ Load(c, "closed_load", "closed_store", "opened_sessions_num")
  PROVE  LCInv'
<1>1. PICK from \in ThreadPc \ {"none"}, to \in ThreadPc \ {"none"}, field \in Fields :
        /\ Step(c, from, to) /\ thread[c] = from
        /\ reg' = [reg EXCEPT ![c] = stats[field]]
        /\ UNCHANGED <<conn, num_threads, stats>>
        /\ to = "total_store" => field = "total_sessions_num"
        /\ to = "requests_store" => field = "total_requests_num"
        /\ \/ from = "opened_load" /\ to = "opened_store"
           \/ from = "total_load" /\ to = "total_store"
           \/ from = "requests_load" /\ to = "requests_store"
           \/ from = "closed_load" /\ to = "closed_store"
  BY DEF Load, Step, ThreadPc, Early, InSession, Fields
<1>2. /\ thread' \in [Conn -> ThreadPc]
      /\ \A d \in Conn : thread'[d] = IF d = c THEN to ELSE thread[d]
      /\ comm_fd' = comm_fd /\ ThreadAfterAccept'
  BY <1>1, StepMoves
<1>3. LCTypes'
  BY <1>1, <1>2 DEF LCInv, LCTypes
<1>4. UNCHANGED <<Counted, Begun, Finished>>
  BY <1>1, <1>2 DEF Counted, Begun, Finished, Early, InSession
<1>5. \A d \in Conn : reg'[d] = IF d = c THEN stats[field] ELSE reg[d]
  BY <1>1 DEF LCInv, LCTypes
<1>6. CountExact' /\ TotalsBounded'
  BY <1>1, <1>2, <1>4, <1>5 DEF LCInv, CountExact, TotalsBounded
<1> QED BY <1>2, <1>3, <1>6 DEF LCInv

\* Stores to the gauge of opened sessions, and steps that count nothing,
\* preserve the invariant.
LEMMA OtherStepLCInv ==
  ASSUME LCInv, NEW c \in Conn,
         \/ Store(c, "opened_store", "total_load", "opened_sessions_num", 1)
         \/ Store(c, "closed_store", "done", "opened_sessions_num", -1)
         \/ PrintStart(c) \/ RunReturns(c) \/ PrintClose(c) \/ DeleteSession(c)
  PROVE  LCInv'
<1>1. PICK from \in ThreadPc \ {"none"}, to \in ThreadPc \ {"none"} :
        /\ Step(c, from, to) /\ thread[c] = from
        /\ num_threads' = num_threads
        /\ \/ from = "opened_store" /\ to = "total_load"
           \/ from = "closed_store" /\ to = "done"
           \/ from = "print_start" /\ to = "run"
           \/ from = "run" /\ to = "print_close"
           \/ from = "print_close" /\ to = "requests_load"
           \/ from = "delete_session" /\ to = "dec_thread_num"
  BY DEF Store, PrintStart, PrintClose, Prints, RunReturns, DeleteSession, DeleteLeaving, Step,
     ThreadPc, Early, InSession
<1>2. conn' = conn \/ conn' = [conn EXCEPT ![c] = "closed"]
  BY DEF Store, PrintStart, PrintClose, Prints, RunReturns, DeleteSession, DeleteLeaving
<1>3. \/ UNCHANGED <<stats, reg>>
      \/ \E v \in Int : /\ stats' = [stats EXCEPT !["opened_sessions_num"] = v]
                        /\ reg' = [reg EXCEPT ![c] = 0]
  BY DEF Store, PrintStart, PrintClose, Prints, RunReturns, DeleteSession, DeleteLeaving, LCInv,
     LCTypes
<1>4. /\ thread' \in [Conn -> ThreadPc]
      /\ \A d \in Conn : thread'[d] = IF d = c THEN to ELSE thread[d]
      /\ conn' \in [Conn -> {"away", "backlog", "held", "served", "closed", "refused", "abandoned"}]
      /\ comm_fd' = comm_fd /\ ThreadAfterAccept'
  BY <1>1, <1>2, StepMoves
<1>5. stats' \in [Fields -> Int] /\ reg' \in [Conn -> Int]
  BY <1>3 DEF LCInv, LCTypes
<1>6. LCTypes'
  BY <1>1, <1>4, <1>5 DEF LCInv, LCTypes
<1>7. UNCHANGED <<Counted, Begun, Finished>>
  BY <1>1, <1>4 DEF Counted, Begun, Finished, Early, InSession
<1>8. /\ stats'["total_sessions_num"] = stats["total_sessions_num"]
      /\ stats'["total_requests_num"] = stats["total_requests_num"]
      /\ \A d \in Conn : d # c => reg'[d] = reg[d]
  BY <1>3 DEF LCInv, LCTypes, Fields
<1>9. CountExact' /\ TotalsBounded'
  BY <1>1, <1>4, <1>7, <1>8 DEF LCInv, CountExact, TotalsBounded
<1> QED BY <1>4, <1>6, <1>9 DEF LCInv

\* The store to total_sessions_num: however old the value loaded, the session
\* itself makes room for one more.
LEMMA StoreTotalLCInv ==
  ASSUME LCInv, NEW c \in Conn, Store(c, "total_store", "print_start", "total_sessions_num", 1)
  PROVE  LCInv'
<1>1. /\ Step(c, "total_store", "print_start") /\ thread[c] = "total_store"
      /\ stats' = [stats EXCEPT !["total_sessions_num"] = reg[c] + 1]
      /\ reg' = [reg EXCEPT ![c] = 0]
      /\ UNCHANGED <<conn, num_threads>>
  BY DEF Store, Step
<1>2. /\ thread' \in [Conn -> ThreadPc]
      /\ \A d \in Conn : thread'[d] = IF d = c THEN "print_start" ELSE thread[d]
      /\ comm_fd' = comm_fd /\ ThreadAfterAccept'
  BY <1>1, StepMoves DEF ThreadPc, Early, InSession
<1>3. LCTypes'
  <2>1. reg[c] + 1 \in Int
    BY DEF LCInv, LCTypes
  <2>2. PICK v \in Int : stats' = [stats EXCEPT !["total_sessions_num"] = v]
    BY <1>1, <2>1
  <2>3. stats' \in [Fields -> Int]
    BY <2>2 DEF LCInv, LCTypes
  <2>4. reg' \in [Conn -> Int]
    BY <1>1 DEF LCInv, LCTypes
  <2> QED BY <1>1, <1>2, <2>3, <2>4 DEF LCInv, LCTypes
<1>4. /\ Begun' = Begun \cup {c} /\ c \notin Begun
      /\ UNCHANGED <<Counted, Finished>>
  BY <1>1, <1>2 DEF Counted, Begun, Finished, Early, InSession
<1>5. Cardinality(Begun') = Cardinality(Begun) + 1 /\ Cardinality(Begun) \in Nat
  BY <1>4, ConnSetsFinite, FS_AddElement
<1>6. /\ stats'["total_sessions_num"] = reg[c] + 1
      /\ stats'["total_requests_num"] = stats["total_requests_num"]
      /\ \A d \in Conn : d # c => reg'[d] = reg[d]
  BY <1>1 DEF LCInv, LCTypes, Fields
<1>7. reg[c] \in 0..Cardinality(Begun)
  BY <1>1 DEF LCInv, TotalsBounded
<1>8. TotalsBounded'
  <2>1. stats'["total_sessions_num"] \in 1..Cardinality(Begun')
    BY <1>5, <1>6, <1>7
  <2>2. \A d \in Conn : thread'[d] = "total_store" => reg'[d] \in 0..Cardinality(Begun')
    BY <1>2, <1>5, <1>6 DEF LCInv, TotalsBounded
  <2>3. \A d \in Conn : thread'[d] = "requests_store" =>
          reg'[d] \in 0..(MaxRequests * Cardinality(Finished'))
    BY <1>2, <1>4, <1>6 DEF LCInv, TotalsBounded
  <2>4. stats'["total_requests_num"] \in 0..(MaxRequests * Cardinality(Finished'))
    BY <1>4, <1>6 DEF LCInv, TotalsBounded
  <2> QED BY <1>5, <2>1, <2>2, <2>3, <2>4 DEF TotalsBounded
<1>9. CountExact'
  BY <1>1, <1>4 DEF LCInv, CountExact
<1> QED BY <1>2, <1>3, <1>8, <1>9 DEF LCInv

\* The store to total_requests_num, in the same way.
LEMMA StoreRequestsLCInv ==
  ASSUME LCInv, NEW c \in Conn, NEW request_num \in 0..MaxRequests,
         Store(c, "requests_store", "delete_session", "total_requests_num", request_num)
  PROVE  LCInv'
<1>1. /\ Step(c, "requests_store", "delete_session") /\ thread[c] = "requests_store"
      /\ stats' = [stats EXCEPT !["total_requests_num"] = reg[c] + request_num]
      /\ reg' = [reg EXCEPT ![c] = 0]
      /\ UNCHANGED <<conn, num_threads>>
  BY DEF Store, Step
<1>2. /\ thread' \in [Conn -> ThreadPc]
      /\ \A d \in Conn : thread'[d] = IF d = c THEN "delete_session" ELSE thread[d]
      /\ comm_fd' = comm_fd /\ ThreadAfterAccept'
  BY <1>1, StepMoves DEF ThreadPc, InSession
<1>3. LCTypes'
  <2>1. reg[c] + request_num \in Int
    BY DEF LCInv, LCTypes
  <2>2. PICK v \in Int : stats' = [stats EXCEPT !["total_requests_num"] = v]
    BY <1>1, <2>1
  <2>3. stats' \in [Fields -> Int]
    BY <2>2 DEF LCInv, LCTypes
  <2>4. reg' \in [Conn -> Int]
    BY <1>1 DEF LCInv, LCTypes
  <2> QED BY <1>1, <1>2, <2>3, <2>4 DEF LCInv, LCTypes
<1>4. /\ Finished' = Finished \cup {c} /\ c \notin Finished
      /\ UNCHANGED <<Counted, Begun>>
  BY <1>1, <1>2 DEF Counted, Begun, Finished, Early, InSession
<1>5. PICK n \in Nat : n = Cardinality(Finished) /\ Cardinality(Finished') = n + 1
  BY <1>4, ConnSetsFinite, FS_AddElement
<1>6. MaxRequests * n \in Nat /\ MaxRequests * (n + 1) = MaxRequests * n + MaxRequests
  BY MaxRequestsAssumption
<1>7. /\ stats'["total_requests_num"] = reg[c] + request_num
      /\ stats'["total_sessions_num"] = stats["total_sessions_num"]
      /\ \A d \in Conn : d # c => reg'[d] = reg[d]
  BY <1>1 DEF LCInv, LCTypes, Fields
<1>8. reg[c] \in 0..(MaxRequests * n)
  BY <1>1, <1>5 DEF LCInv, TotalsBounded
<1>9. TotalsBounded'
  <2>1. stats'["total_requests_num"] \in 0..(MaxRequests * n + MaxRequests)
    BY <1>6, <1>7, <1>8, MaxRequestsAssumption
  <2>2. \A d \in Conn : thread'[d] = "requests_store" => reg'[d] \in 0..(MaxRequests * n)
    BY <1>2, <1>5, <1>7 DEF LCInv, TotalsBounded
  <2>3. \A d \in Conn : thread'[d] = "requests_store" =>
          reg'[d] \in 0..(MaxRequests * n + MaxRequests)
    BY <1>6, <2>2, MaxRequestsAssumption
  <2>4. \A d \in Conn : thread'[d] = "total_store" => reg'[d] \in 0..Cardinality(Begun')
    BY <1>2, <1>4, <1>7 DEF LCInv, TotalsBounded
  <2>5. /\ stats'["total_sessions_num"] \in 0..Cardinality(Begun')
        /\ Begun' # {} => stats'["total_sessions_num"] >= 1
    BY <1>4, <1>7 DEF LCInv, TotalsBounded
  <2>6. MaxRequests * Cardinality(Finished') = MaxRequests * n + MaxRequests
    BY <1>5, <1>6
  <2> QED BY <2>1, <2>3, <2>4, <2>5, <2>6 DEF TotalsBounded
<1>10. CountExact'
  BY <1>1, <1>4 DEF LCInv, CountExact
<1> QED BY <1>2, <1>3, <1>9, <1>10 DEF LCInv

\* Every step of the channel preserves the invariant.
LEMMA NextLCInv == LCInv /\ [LCNext]_lcVars => LCInv'
<1> SUFFICES ASSUME LCInv, [LCNext]_lcVars PROVE LCInv'
  OBVIOUS
<1>1. CASE \/ close_listener \/ LogReaders \/ OtherOpens \/ OtherCloses
           \/ \E c \in Conn : Connect(c)
  BY <1>1, CommLCInv
<1>2. CASE Comm
  BY <1>2, CommLCInv, SpawnLCInv DEF Comm
<1>3. ASSUME NEW c \in Conn, SessionThread(c) \/ RunReturns(c)
      PROVE  LCInv'
  BY <1>3, AddThreadsLCInv, LoadLCInv, OtherStepLCInv, StoreTotalLCInv, StoreRequestsLCInv
     DEF SessionThread, CountOpened, CountTotal, CountRequests, CountClosed
<1>4. CASE UNCHANGED lcVars
  BY <1>4, QuietLCInv DEF lcVars, threadVars, LCInv, LCTypes, ThreadAfterAccept
<1> QED BY <1>1, <1>2, <1>3, <1>4 DEF LCNext, Idle

\* Every state a channel can reach satisfies the invariant.
THEOREM LCInvariance == LCSpec => []LCInv
BY InitLCInv, NextLCInv, PTL DEF LCSpec

\* The totals of ListenerStats lose updates of threads that overlap, but never
\* exceed what has happened, for any number of threads and requests.
THEOREM LCTotalsFallShort == LCSpec => []TotalsFallShort
<1>1. LCInv => TotalsFallShort
  <2> SUFFICES ASSUME LCInv PROVE TotalsFallShort
    OBVIOUS
  <2>1. Begun = {c \in Conn : thread[c] \notin {"none", "inc_thread_num", "opened_load",
                              "opened_store", "total_load", "total_store"}}
    BY DEF Begun, Early
  <2>2. Finished = {c \in Begun : thread[c] \notin {"print_start", "run", "print_close",
                                                  "requests_load", "requests_store"}}
    BY DEF Begun, Finished, InSession
  <2>3. /\ stats["total_sessions_num"] \in (IF Begun = {} THEN 0 ELSE 1)..Cardinality(Begun)
        /\ stats["total_requests_num"] \in 0..(MaxRequests * Cardinality(Finished))
    BY ConnSetsFinite DEF LCInv, TotalsBounded
  <2> QED BY <2>1, <2>2, <2>3, Zenon DEF TotalsFallShort
<1> QED BY <1>1, LCInvariance, PTL

\* A connection is turned away only when the limit is really reached.
LEMMA StepRefusesAtLimit ==
  ASSUME LCInv, LCNext, NEW c \in Conn, conn[c] = "held", conn'[c] = "refused"
  PROVE  Cardinality(Alive) >= worker_connections
<1>1. CommDrop
  <2>1. \/ CommDrop
        \/ conn' = conn
        \/ \E d \in Conn, at \in {"backlog", "held", "closed"} : conn' = [conn EXCEPT ![d] = at]
        \/ CommSpawn
    BY DEF LCNext, close_listener, LogReaders, OtherOpens, OtherCloses, Comm, CommStart,
       CommWhile, AcceptNoFd, AcceptShut, AcceptConn, AcceptFails, Connect, SessionThread, Idle,
       inc_thread_num, dec_thread_num, AddThreads, CountOpened, CountTotal, CountRequests,
       CountClosed, Load, Store, PrintStart, PrintClose, Prints, RunReturns, DeleteSession,
       DeleteLeaving, lcVars
  <2>2. conn \in [Conn -> {"away", "backlog", "held", "served", "closed", "refused", "abandoned"}]
    BY DEF LCInv, LCTypes
  <2>3. CASE CommSpawn
    BY <2>2, <2>3 DEF CommSpawn, LCInv, LCTypes
  <2> QED BY <2>1, <2>2, <2>3
<1>2. ~exit_comm /\ comm_fd # NoConn /\ is_max_threads
  BY <1>1 DEF CommDrop, DropAndGoto, LCInv, LCTypes
<1>3. Cardinality(Counted) >= worker_connections
  BY <1>2, ConnSetsFinite, WorkerConnectionsAssumption DEF is_max_threads, LCInv, CountExact
<1>4. Counted \subseteq Alive
  BY DEF Counted, Alive
<1>5. Cardinality(Counted) <= Cardinality(Alive)
  BY <1>4, ConnSetsFinite, FS_Subset
<1> QED BY <1>3, <1>5, ConnSetsFinite, WorkerConnectionsAssumption

\* num_threads may lag behind the sessions being served and never runs ahead:
\* no connection is refused while fewer than worker_connections are served.
THEOREM LCRefusedOnlyAtLimit == LCSpec => RefusedOnlyAtLimit
<1>1. LCInv /\ [LCNext]_lcVars =>
        [\A c \in Conn : conn[c] = "held" /\ conn'[c] = "refused"
           => Cardinality(Alive) >= worker_connections]_lcVars
  BY StepRefusesAtLimit
<1> QED BY <1>1, LCInvariance, PTL DEF LCSpec, RefusedOnlyAtLimit

-----------------------------------------------------------------------------
(* DeviceManager *)

FrameType == [dev : Device, todo : Seq(Device), unseen : SUBSET AllStores]

DMTypes ==
  /\ deps \in [Device -> Seq(Device)]
  /\ is_started \in SUBSET Device /\ is_starting \in SUBSET Device
  /\ null_refs \in SUBSET Device /\ exit_all \in BOOLEAN
  /\ built \in [Device -> Nat]
  /\ stack \in [Thread -> Seq(FrameType)]

Frames(t) == 1..Len(stack[t])

\* Only the owner of the mutex is in alloc_device.
OneStack == \A t \in Thread : stack[t] # << >> => mutex = t

\* A frame whose constructor has dependencies to get, or waits for one, is
\* marked in is_starting; is_starting marks no other device.
FramesStarting ==
  \A t \in Thread : \A i \in Frames(t) :
    i < Len(stack[t]) \/ stack[t][i].todo # << >> => stack[t][i].dev \in is_starting

StartingFramed ==
  \A d \in is_starting : \E t \in Thread : \E i \in Frames(t) : stack[t][i].dev = d

\* No device has two frames.
FramesDistinct ==
  \A t \in Thread : \A i, j \in Frames(t) : stack[t][i].dev = stack[t][j].dev => i = j

\* A constructor gets only what its device depends on.
FramesChained ==
  \A t \in Thread : \A i \in Frames(t) :
    /\ Range(stack[t][i].todo) \subseteq Range(deps[stack[t][i].dev])
    /\ i < Len(stack[t]) => stack[t][i + 1].dev \in Range(deps[stack[t][i].dev])

\* The stores of alloc_device come after the constructor.
FrameStores ==
  \A t \in Thread : \A i \in Frames(t) :
    /\ stack[t][i].dev \notin is_starting => built[stack[t][i].dev] > 0
    /\ "is_started" \notin stack[t][i].unseen => stack[t][i].dev \in is_started
    /\ "device_list" \notin stack[t][i].unseen => stack[t][i].dev \in device_list
    /\ "devtup" \notin stack[t][i].unseen => stack[t][i].dev \in devtup

\* A device is built once: before is_started is set, and after is_starting is
\* cleared.
BuiltOnce ==
  \A d \in Device :
    /\ built[d] <= 1
    /\ d \in is_started => d \notin is_starting /\ built[d] > 0
    /\ d \in is_starting => built[d] = 0
    /\ built[d] > 0 => d \in is_started
                       \/ \E t \in Thread : stack[t] # << >> /\ Top(t).dev = d

\* What a constructor has got so far is constructed, or is on top of it.
GotInOrder ==
  ~exit_all =>
    \A t \in Thread : \A i \in Frames(t) : \A e \in Range(deps[stack[t][i].dev]) :
      \/ built[e] > 0 \/ e \in Range(stack[t][i].todo)
      \/ i < Len(stack[t]) /\ stack[t][i + 1].dev = e

BuiltInOrder ==
  ~exit_all => \A d \in Device : built[d] > 0 => \A e \in Range(deps[d]) : built[e] > 0

\* Somebody is between the stores of alloc_device of d.
Storing(d) ==
  \E t \in Thread : /\ stack[t] # << >> /\ Top(t).dev = d
                    /\ Top(t).todo = << >> /\ Top(t).unseen # {}

StoresVisible ==
  \A d \in is_started : (d \in device_list /\ d \in devtup) \/ Storing(d)

\* A cycle is found only where there is one, and no device on one is built
\* unless it is found.
CycleFound ==
  /\ exit_all => \E d \in null_refs : OnCycle(d)
  /\ ~exit_all => \A d \in Device : built[d] > 0 => ~OnCycle(d)

AllocInv ==
  /\ DMTypes /\ OneStack /\ FramesStarting /\ StartingFramed /\ FramesDistinct
  /\ FramesChained /\ FrameStores /\ BuiltOnce /\ GotInOrder /\ BuiltInOrder
  /\ StoresVisible /\ CycleFound

CommandPc == {"idle", "start", "execute_dev", "args", "operation", "op_start", "use"}

CommandTypes ==
  /\ pc \in [Thread -> CommandPc]
  /\ cmd_device \in [Thread -> Device \cup {Nobody}]
  /\ wanted \in [Thread -> Device \cup {Nobody}]

\* A thread past its test, or past alloc_device, has a device that is started;
\* in alloc_device its first frame is that of the device.
CommandsStarted ==
  \A t \in Thread :
    /\ pc[t] # "idle" => cmd_device[t] \in Device
    /\ pc[t] \in {"op_start", "use"} => wanted[t] \in Device
    /\ stack[t] # << >> => pc[t] \in {"execute_dev", "use"} /\ stack[t][1].dev = Target(t)
    /\ stack[t] = << >> /\ pc[t] \in {"execute_dev", "use"} => Target(t) \in is_started

DMInv == AllocInv /\ CommandTypes /\ CommandsStarted
-----------------------------------------------------------------------------
(***************************************************************************)
(* What Reaches computes.                                                  *)
(***************************************************************************)
\* A nonempty set of naturals has a least element: how the lemmas below do
\* without an induction rule.
LEMMA LeastNat ==
  ASSUME NEW S \in SUBSET Nat, S # {}
  PROVE  \E m \in S : \A n \in S : m <= n
<1> DEFINE R == {ss \in Nat \X Nat : ss[1] < ss[2]}
<1>1. IsWellFoundedOn(R, Nat)
  BY NatLessThanWellFounded, Zenon DEF OpToRel
<1>2. PICK m \in S : \A n \in S : ~(<<n, m>> \in R)
  <2> HIDE DEF R
  <2> QED BY <1>1, WFMin, Zenon
<1>3. \A n \in S : ~(n < m)
  BY <1>2
<1> QED BY <1>3

\* s holds the devices reached from d in the graph g, by the number of steps.
Grown(g, S) == S \cup UNION {Range(g[e]) : e \in S}
IsSteps(s, g, d, N) ==
  s = [n \in 0..N |-> IF n = 0 THEN Range(g[d]) ELSE Grown(g, s[n - 1])]

\* Reaches, with the graph as a parameter.
Reach(g, d) == (CHOOSE s : IsSteps(s, g, d, Cardinality(Device)))[Cardinality(Device)]

LEMMA ReachesDef == \A d : Reaches(d) = Reach(deps, d)
BY DEF Reaches, Reach, IsSteps, Grown

\* The recursive definition defines a function.
LEMMA StepsExist ==
  ASSUME NEW g, NEW d, NEW N \in Nat
  PROVE  \E s : IsSteps(s, g, d, N)
<1> DEFINE T == {n \in Nat : ~\E s : IsSteps(s, g, d, n)}
<1> SUFFICES ASSUME T # {} PROVE FALSE
  OBVIOUS
<1>1. PICK m \in T : \A n \in T : m <= n
  <2>1. T \in SUBSET Nat
    OBVIOUS
  <2> HIDE DEF T
  <2> QED BY <2>1, LeastNat
<1>2. CASE m = 0
  <2>1. IsSteps([n \in 0..0 |-> Range(g[d])], g, d, 0)
    BY DEF IsSteps
  <2> QED BY <1>1, <1>2, <2>1
<1>3. CASE m # 0
  <2>1. m - 1 \in Nat /\ m \in Nat
    BY <1>1, <1>3
  <2>2. m - 1 \notin T
    BY <1>1, <2>1
  <2>3. PICK s : IsSteps(s, g, d, m - 1)
    BY <2>1, <2>2
  <2> DEFINE h == [n \in 0..m |-> IF n = m THEN Grown(g, s[m - 1]) ELSE s[n]]
  <2>4. \A n \in 0..(m - 1) : s[n] = IF n = 0 THEN Range(g[d]) ELSE Grown(g, s[n - 1])
    BY <2>3 DEF IsSteps
  <2>5. \A n \in 0..m : h[n] = IF n = 0 THEN Range(g[d]) ELSE Grown(g, h[n - 1])
    BY <2>1, <2>4, <1>3
  <2>6. IsSteps(h, g, d, m)
    BY <2>5 DEF IsSteps
  <2> QED BY <1>1, <2>6
<1> QED BY <1>2, <1>3

\* s holds the steps from d, and after the last of them all that is reached.
StepsTo(s, g, d) ==
  LET N == Cardinality(Device)
  IN  /\ N \in Nat /\ s[0] = Range(g[d])
      /\ \A n \in 1..N : s[n] = Grown(g, s[n - 1])
      /\ Reach(g, d) = s[N]

\* The steps of Reach.
LEMMA ReachSteps ==
  ASSUME NEW g, NEW d
  PROVE  \E s : StepsTo(s, g, d)
<1> DEFINE N == Cardinality(Device)
           s == CHOOSE s : IsSteps(s, g, d, N)
<1>1. N \in Nat
  BY DeviceAssumption, FS_CardinalityType
<1>2. IsSteps(s, g, d, N) /\ Reach(g, d) = s[N]
  BY <1>1, StepsExist DEF Reach
<1> HIDE DEF s, N
<1>3. s[0] = Range(g[d]) /\ \A n \in 1..N : s[n] = Grown(g, s[n - 1])
  BY <1>1, <1>2 DEF IsSteps
<1>4. StepsTo(s, g, d)
  BY <1>1, <1>2, <1>3 DEF N, StepsTo
<1> QED BY <1>4

\* What a closed set holds the devices of, it holds all that is reached from.
LEMMA ReachWithin ==
  ASSUME NEW g, NEW d, NEW S,
         Range(g[d]) \subseteq S, \A e \in S : Range(g[e]) \subseteq S
  PROVE  Reach(g, d) \subseteq S
<1> DEFINE N == Cardinality(Device)
<1>1. PICK s : /\ N \in Nat
               /\ s[0] = Range(g[d])
               /\ \A n \in 1..N : s[n] = Grown(g, s[n - 1])
               /\ Reach(g, d) = s[N]
  <2>1. \E s : StepsTo(s, g, d)
    BY ReachSteps
  <2> QED BY <2>1, Zenon DEF StepsTo
<1> HIDE DEF N
<1> DEFINE T == {n \in 0..N : ~(s[n] \subseteq S)}
<1>2. T = {}
  <2> SUFFICES ASSUME T # {} PROVE FALSE
    OBVIOUS
  <2>1. PICK m \in T : \A n \in T : m <= n
    <3>1. T \in SUBSET Nat
      OBVIOUS
    <3> HIDE DEF T
    <3> QED BY <3>1, LeastNat
  <2>2. m # 0
    BY <1>1, <2>1
  <2>3. m \in 1..N /\ m - 1 \in 0..N /\ m - 1 \notin T
    BY <1>1, <2>1, <2>2
  <2>4. s[m - 1] \subseteq S /\ s[m] = Grown(g, s[m - 1])
    BY <1>1, <2>3
  <2>5. s[m] \subseteq S
    BY <2>4 DEF Grown
  <2> QED BY <2>1, <2>5
<1> QED BY <1>1, <1>2

\* The last device of a chain of distinct devices that gets one of the chain
\* is on a cycle.
LEMMA ChainOnCycle ==
  ASSUME NEW g, NEW n \in Nat, NEW p \in [1..n -> Device], NEW j \in 1..n,
         \A i, k \in 1..n : p[i] = p[k] => i = k,
         \A i \in 1..n : i < n => p[i + 1] \in Range(g[p[i]]),
         p[j] \in Range(g[p[n]])
  PROVE  p[n] \in Reach(g, p[n])
<1> DEFINE N == Cardinality(Device)
<1>1. PICK s : /\ N \in Nat
               /\ s[0] = Range(g[p[n]])
               /\ \A m \in 1..N : s[m] = Grown(g, s[m - 1])
               /\ Reach(g, p[n]) = s[N]
  <2>1. \E s : StepsTo(s, g, p[n])
    BY ReachSteps
  <2> QED BY <2>1, Zenon DEF StepsTo
<1>2. n <= N
  <2>1. p \in Injection(1..n, Device)
    BY DEF Injection, IsInjective
  <2>2. Cardinality(1..n) <= N
    BY <2>1, DeviceAssumption, FS_Injection
  <2>3. Cardinality(1..n) = n
    BY FS_Interval
  <2> QED BY <2>2, <2>3
<1> HIDE DEF N
<1> DEFINE q(m) == IF j + m <= n THEN p[j + m] ELSE p[n]
           T == {m \in 0..N : q(m) \notin s[m]}
<1>3. T = {}
  <2> SUFFICES ASSUME T # {} PROVE FALSE
    OBVIOUS
  <2>1. PICK m \in T : \A k \in T : m <= k
    <3>1. T \in SUBSET Nat
      OBVIOUS
    <3> HIDE DEF T
    <3> QED BY <3>1, LeastNat
  <2>2. m # 0
    <3>1. j + 0 = j /\ j <= n
      OBVIOUS
    <3>2. q(0) \in s[0]
      BY <1>1, <3>1
    <3> QED BY <2>1, <3>2
  <2>3. m \in 1..N /\ m - 1 \in 0..N /\ m - 1 \notin T
    BY <1>1, <2>1, <2>2
  <2>4. q(m - 1) \in s[m - 1] /\ s[m] = Grown(g, s[m - 1])
    BY <1>1, <2>3
  <2>5. CASE j + m <= n
    <3>1. j + (m - 1) \in 1..n /\ j + (m - 1) < n /\ (j + (m - 1)) + 1 = j + m
      BY <2>3, <2>5
    <3>2. p[j + m] \in Range(g[p[j + (m - 1)]])
      BY <3>1
    <3>3. q(m - 1) = p[j + (m - 1)] /\ q(m) = p[j + m]
      BY <2>5, <3>1
    <3> QED BY <2>1, <2>4, <3>2, <3>3 DEF Grown
  <2>6. CASE ~(j + m <= n)
    <3>1. q(m) = p[n] /\ q(m - 1) = p[n]
      BY <2>3, <2>6
    <3> QED BY <2>1, <2>4, <3>1 DEF Grown
  <2> QED BY <2>5, <2>6
<1>4. N \in 0..N
  BY <1>1
<1>5. q(N) = p[n]
  BY <1>1, <1>2
<1>6. q(N) \in s[N]
  <2> HIDE DEF q
  <2> QED BY <1>3, <1>4
<1> QED BY <1>1, <1>5, <1>6
-----------------------------------------------------------------------------
(***************************************************************************)
(* alloc_device                                                            *)
(***************************************************************************)
LEMMA TailRange ==
  ASSUME NEW s \in Seq(Device), s # << >>
  PROVE  /\ Head(s) \in Device /\ Tail(s) \in Seq(Device)
         /\ Head(s) \in Range(s) /\ Range(Tail(s)) \subseteq Range(s)
         /\ Range(s) \subseteq Range(Tail(s)) \cup {Head(s)}
<1>1. Len(s) \in Nat /\ Len(s) > 0 /\ DOMAIN s = 1..Len(s) /\ Head(s) = s[1]
  OBVIOUS
<1>2. /\ Tail(s) \in Seq(Device) /\ DOMAIN Tail(s) = 1..(Len(s) - 1)
      /\ \A i \in 1..(Len(s) - 1) : Tail(s)[i] = s[i + 1]
  BY <1>1, HeadTailProperties
<1>3. ASSUME NEW i \in 1..Len(s), i # 1
      PROVE  i - 1 \in 1..(Len(s) - 1) /\ s[i] = Tail(s)[i - 1]
  <2>1. i - 1 \in 1..(Len(s) - 1) /\ (i - 1) + 1 = i
    BY <1>1, <1>3
  <2> QED BY <1>2, <2>1
<1>4. Range(s) \subseteq Range(Tail(s)) \cup {Head(s)}
  <2> SUFFICES ASSUME NEW i \in 1..Len(s), i # 1
               PROVE  s[i] \in Range(Tail(s))
    BY <1>1 DEF Range
  <2>1. i - 1 \in DOMAIN Tail(s) /\ s[i] = Tail(s)[i - 1]
    BY <1>2, <1>3
  <2> QED BY <2>1 DEF Range
<1>5. Range(Tail(s)) \subseteq Range(s)
  <2>1. \A i \in 1..(Len(s) - 1) : i + 1 \in 1..Len(s)
    BY <1>1
  <2> QED BY <1>1, <1>2, <2>1 DEF Range
<1>6. Head(s) \in Range(s) /\ Head(s) \in Device
  <2>1. 1 \in DOMAIN s
    BY <1>1
  <2> QED BY <1>1, <2>1, HeadTailProperties DEF Range
<1> QED BY <1>2, <1>4, <1>5, <1>6

\* A thread that may lock the mutex is the only one with frames.
LEMMA OnlyStack ==
  ASSUME DMTypes, OneStack, NEW t \in Thread, MayLock(t)
  PROVE  \A u \in Thread : u # t => stack[u] = << >>
BY NobodyAssumption DEF OneStack, MayLock

\* t is getting d: the frames of t are those of r again once it is got.
Getting(t, d, r) ==
  /\ MayLock(t)
  /\ r \in Seq(FrameType) /\ Len(r) = Len(stack[t])
  /\ \A i \in 1..Len(r) :
       /\ r[i].dev = stack[t][i].dev /\ r[i].unseen = stack[t][i].unseen
       /\ Range(r[i].todo) \subseteq Range(stack[t][i].todo)
       /\ \A e \in Range(stack[t][i].todo) : e \in Range(r[i].todo) \/ (i = Len(r) /\ e = d)
       /\ i = Len(r) => stack[t][i].todo # << >> /\ d \in Range(stack[t][i].todo)

\* While a constructor gets a device nothing is between its construction and
\* the end of its stores.
LEMMA GettingFacts ==
  ASSUME AllocInv, NEW t \in Thread, NEW d \in Device, NEW r, Getting(t, d, r)
  PROVE  /\ Len(r) \in Nat
         /\ \A u \in Thread : u # t => stack[u] = << >>
         /\ \A i \in 1..Len(r) : r[i] \in FrameType /\ stack[t][i] \in FrameType
                                /\ stack[t][i].dev \in is_starting
         /\ \A e \in is_started : e \in device_list /\ e \in devtup
         /\ \A e \in Device : built[e] > 0 => e \in is_started
<1>1. \A u \in Thread : u # t => stack[u] = << >>
  BY OnlyStack DEF AllocInv, Getting
<1>2. stack[t] \in Seq(FrameType) /\ Len(r) \in Nat /\ Len(r) = Len(stack[t])
  BY DEF AllocInv, DMTypes, Getting
<1>3. \A i \in 1..Len(r) : r[i] \in FrameType /\ stack[t][i] \in FrameType
  <2>1. r \in Seq(FrameType)
    BY DEF Getting
  <2> HIDE DEF FrameType
  <2> QED BY <1>2, <2>1
<1>4. \A i \in 1..Len(r) : stack[t][i].dev \in is_starting
  <2> TAKE i \in 1..Len(r)
  <2>1. i < Len(stack[t]) \/ stack[t][i].todo # << >>
    BY <1>2 DEF Getting
  <2> QED BY <1>2, <2>1 DEF AllocInv, FramesStarting, Frames
<1>5. stack[t] # << >> => Top(t).todo # << >> /\ Top(t).dev \in is_starting
  <2> HAVE stack[t] # << >>
  <2>1. Len(r) \in 1..Len(r)
    BY <1>2
  <2> QED BY <1>2, <1>4, <2>1 DEF Getting, Top
<1>6. \A e \in is_started : e \in device_list /\ e \in devtup
  BY <1>1, <1>5 DEF AllocInv, StoresVisible, Storing
<1>7. \A e \in Device : built[e] > 0 => e \in is_started
  <2> TAKE e \in Device
  <2> HAVE built[e] > 0
  <2>1. e \notin is_starting
    BY DEF AllocInv, BuiltOnce
  <2> QED BY <1>1, <1>5, <2>1 DEF AllocInv, BuiltOnce
<1> QED BY <1>1, <1>2, <1>3, <1>4, <1>6, <1>7

LEMMA OnCycleDef ==
  /\ \A d : OnCycle(d) <=> d \in Reach(deps, d)
  /\ deps' = deps => \A d : OnCycle(d)' <=> OnCycle(d)
<1>1. \A d : Reaches(d)' = Reach(deps', d)
  BY DEF Reaches, Reach, IsSteps, Grown
<1>2. \A d : OnCycle(d)' <=> d \in Reach(deps', d)
  BY <1>1 DEF OnCycle
<1> QED BY <1>2, ReachesDef DEF OnCycle

\* alloc_device returns at once: d is started, or being started.
LEMMA GotKeeps ==
  ASSUME AllocInv, NEW t \in Thread, NEW d \in Device, NEW r, Getting(t, d, r),
         stack' = [stack EXCEPT ![t] = r],
         mutex' = (IF stack'[t] = << >> THEN Nobody ELSE t),
         UNCHANGED <<deps, stores, is_starting, built>>,
         exit_all' \in BOOLEAN, ~exit_all' => ~exit_all /\ d \in is_started,
         null_refs' \in SUBSET Device, CycleFound'
  PROVE  AllocInv'
<1> DEFINE n == Len(r)
<1>1. /\ n \in Nat
      /\ \A u \in Thread : u # t => stack[u] = << >>
      /\ \A i \in 1..n : r[i] \in FrameType /\ stack[t][i] \in FrameType
                        /\ stack[t][i].dev \in is_starting
      /\ \A e \in is_started : e \in device_list /\ e \in devtup
      /\ \A e \in Device : built[e] > 0 => e \in is_started
  BY GettingFacts
<1>2. UNCHANGED <<deps, is_started, device_list, devtup, is_starting, built>>
  BY DEF stores
<1>3. /\ stack' \in [Thread -> Seq(FrameType)]
      /\ stack'[t] = r
      /\ \A u \in Thread : u # t => stack'[u] = << >>
  BY <1>1 DEF AllocInv, DMTypes, Getting
<1>3a. Frames(t)' = 1..n /\ \A u \in Thread : u # t => Frames(u)' = {}
  BY <1>1, <1>3 DEF Frames
<1>4. DMTypes'
  BY <1>2, <1>3 DEF AllocInv, DMTypes
<1>5. OneStack'
  BY <1>3 DEF OneStack
<1>6. n = Len(stack[t]) /\ \A i \in 1..n : r[i].dev = stack[t][i].dev
  BY DEF Getting
<1>7. FramesStarting' /\ StartingFramed' /\ FramesDistinct'
  <2>1. FramesStarting'
    BY <1>1, <1>2, <1>3, <1>6 DEF FramesStarting, Frames
  <2>2. StartingFramed'
    BY <1>1, <1>2, <1>3, <1>6 DEF AllocInv, StartingFramed, Frames
  <2>3. FramesDistinct'
    BY <1>1, <1>3, <1>6 DEF AllocInv, FramesDistinct, Frames
  <2> QED BY <2>1, <2>2, <2>3
<1>8. FramesChained'
  <2> SUFFICES ASSUME NEW i \in 1..n
               PROVE  /\ Range(r[i].todo) \subseteq Range(deps[r[i].dev])
                      /\ i < n => r[i + 1].dev \in Range(deps[r[i].dev])
    BY <1>2, <1>3, <1>3a DEF FramesChained
  <2>1. /\ Range(stack[t][i].todo) \subseteq Range(deps[stack[t][i].dev])
        /\ i < n => stack[t][i + 1].dev \in Range(deps[stack[t][i].dev])
    BY <1>6 DEF AllocInv, FramesChained, Frames
  <2>2. i < n => i + 1 \in 1..n
    BY <1>1
  <2> QED BY <1>6, <2>1, <2>2 DEF Getting
<1>9. FrameStores'
  <2> SUFFICES ASSUME NEW i \in 1..n
               PROVE  /\ r[i].dev \notin is_starting => built[r[i].dev] > 0
                      /\ "is_started" \notin r[i].unseen => r[i].dev \in is_started
                      /\ "device_list" \notin r[i].unseen => r[i].dev \in device_list
                      /\ "devtup" \notin r[i].unseen => r[i].dev \in devtup
    BY <1>2, <1>3, <1>3a DEF FrameStores
  <2> QED BY <1>1, <1>6 DEF AllocInv, FrameStores, Frames, Getting
<1>10. BuiltOnce'
  BY <1>1, <1>2 DEF AllocInv, BuiltOnce
<1>11. GotInOrder'
  <2> SUFFICES ASSUME ~exit_all', NEW i \in 1..n, NEW e \in Range(deps[r[i].dev])
               PROVE  \/ built[e] > 0 \/ e \in Range(r[i].todo)
                      \/ i < n /\ r[i + 1].dev = e
    BY <1>2, <1>3, <1>3a DEF GotInOrder
  <2>1. \/ built[e] > 0 \/ e \in Range(stack[t][i].todo)
        \/ i < n /\ stack[t][i + 1].dev = e
    BY <1>6 DEF AllocInv, GotInOrder, Frames
  <2>2. i < n => i + 1 \in 1..n
    BY <1>1
  <2>3. built[d] > 0
    BY DEF AllocInv, BuiltOnce
  <2> QED BY <1>6, <2>1, <2>2, <2>3 DEF Getting
<1>12. BuiltInOrder'
  BY <1>2 DEF AllocInv, BuiltInOrder
<1>13. StoresVisible'
  BY <1>1, <1>2 DEF StoresVisible
<1> QED BY <1>4, <1>5, <1>7, <1>8, <1>9, <1>10, <1>11, <1>12, <1>13 DEF AllocInv

\* alloc_device enters the constructor of d.
LEMMA PushKeeps ==
  ASSUME AllocInv, NEW t \in Thread, NEW d \in Device, NEW r, Getting(t, d, r),
         d \notin is_started, d \notin is_starting,
         stack' = [stack EXCEPT ![t] = Append(r, Frame(d))],
         mutex' = (IF stack'[t] = << >> THEN Nobody ELSE t),
         is_starting' = is_starting \cup {d},
         UNCHANGED <<deps, stores, built, exit_all, null_refs>>
  PROVE  AllocInv'
<1> DEFINE n == Len(r)
           q == Append(r, Frame(d))
<1>1. /\ n \in Nat
      /\ \A u \in Thread : u # t => stack[u] = << >>
      /\ \A i \in 1..n : r[i] \in FrameType /\ stack[t][i] \in FrameType
                        /\ stack[t][i].dev \in is_starting
      /\ \A e \in is_started : e \in device_list /\ e \in devtup
      /\ \A e \in Device : built[e] > 0 => e \in is_started
  BY GettingFacts
<1>2. UNCHANGED <<deps, is_started, device_list, devtup, built, exit_all, null_refs>>
  BY DEF stores
<1>3. /\ Frame(d) \in FrameType
      /\ Frame(d).dev = d /\ Frame(d).todo = deps[d] /\ Frame(d).unseen = AllStores
  BY DEF Frame, FrameType, AllocInv, DMTypes
<1>4. /\ q \in Seq(FrameType) /\ Len(q) = n + 1 /\ q # << >>
      /\ \A i \in 1..n : q[i] = r[i]
      /\ q[n + 1] = Frame(d)
  <2>1. r \in Seq(FrameType)
    BY DEF Getting
  <2> QED BY <1>3, <2>1, AppendProperties
<1>5. /\ stack' \in [Thread -> Seq(FrameType)]
      /\ stack'[t] = q
      /\ \A u \in Thread : u # t => stack'[u] = << >>
  <2> HIDE DEF q
  <2> QED BY <1>1, <1>4 DEF AllocInv, DMTypes, q
<1>5a. Frames(t)' = 1..Len(q) /\ \A u \in Thread : u # t => Frames(u)' = {}
  BY <1>5 DEF Frames
<1>6. n = Len(stack[t]) /\ \A i \in 1..n : r[i].dev = stack[t][i].dev
  BY DEF Getting
<1>7. \A i \in 1..n : q[i].dev = stack[t][i].dev /\ q[i].dev \in is_starting /\ q[i].dev # d
  BY <1>1, <1>4, <1>6
<1>8. q[n + 1].dev = d
  BY <1>3, <1>4
<1> HIDE DEF q
<1>9. \A i \in 1..Len(q) : i \in 1..n \/ i = n + 1
  BY <1>1, <1>4
<1>10. DMTypes'
  BY <1>2, <1>5 DEF AllocInv, DMTypes
<1>11. OneStack'
  BY <1>4, <1>5 DEF OneStack
<1>12. FramesStarting'
  BY <1>4, <1>5, <1>5a, <1>7, <1>8, <1>9 DEF FramesStarting
<1>13. StartingFramed'
  <2> SUFFICES ASSUME NEW e \in is_starting \cup {d}
               PROVE  \E i \in 1..Len(q) : q[i].dev = e
    <3>1. ASSUME NEW e \in is_starting', \E i \in 1..Len(q) : q[i].dev = e
          PROVE  \E u \in Thread : \E i \in Frames(u)' : stack'[u][i].dev = e
      BY <1>5, <1>5a, <3>1, Zenon
    <3> QED BY <3>1 DEF StartingFramed
  <2>1. CASE e = d
    <3>1. n + 1 \in 1..Len(q)
      BY <1>1, <1>4
    <3> QED BY <1>8, <2>1, <3>1
  <2>2. CASE e \in is_starting
    <3>1. PICK i \in 1..n : stack[t][i].dev = e
      BY <1>1, <1>6, <2>2 DEF AllocInv, StartingFramed, Frames
    <3>2. i \in 1..Len(q)
      BY <1>1, <1>4
    <3> QED BY <1>7, <3>1, <3>2
  <2> QED BY <2>1, <2>2
<1>14. FramesDistinct'
  <2> SUFFICES ASSUME NEW i \in 1..Len(q), NEW j \in 1..Len(q), q[i].dev = q[j].dev
               PROVE  i = j
    BY <1>5, <1>5a DEF FramesDistinct
  <2>1. CASE i \in 1..n /\ j \in 1..n
    BY <1>6, <1>7, <2>1 DEF AllocInv, FramesDistinct, Frames
  <2> QED BY <1>7, <1>8, <1>9, <2>1
<1>15. FramesChained'
  <2> SUFFICES ASSUME NEW i \in 1..Len(q)
               PROVE  /\ Range(q[i].todo) \subseteq Range(deps[q[i].dev])
                      /\ i < Len(q) => q[i + 1].dev \in Range(deps[q[i].dev])
    BY <1>2, <1>5, <1>5a DEF FramesChained
  <2>1. CASE i = n + 1
    BY <1>1, <1>3, <1>4, <2>1
  <2>2. CASE i \in 1..n
    <3>1. /\ Range(stack[t][i].todo) \subseteq Range(deps[stack[t][i].dev])
          /\ i < n => stack[t][i + 1].dev \in Range(deps[stack[t][i].dev])
      BY <1>6, <2>2 DEF AllocInv, FramesChained, Frames
    <3>2. i < n => i + 1 \in 1..n
      BY <1>1
    <3>3. i = n => d \in Range(stack[t][i].todo)
      BY <2>2 DEF Getting
    <3>4. Range(q[i].todo) \subseteq Range(stack[t][i].todo)
      BY <1>4, <2>2 DEF Getting
    <3>5. i < n \/ i = n
      BY <1>1, <2>2
    <3> QED BY <1>7, <1>8, <2>2, <3>1, <3>2, <3>3, <3>4, <3>5
  <2> QED BY <1>9, <2>1, <2>2
<1>16. FrameStores'
  <2> SUFFICES ASSUME NEW i \in 1..Len(q)
               PROVE  /\ q[i].dev \in is_starting'
                      /\ "is_started" \notin q[i].unseen => q[i].dev \in is_started
                      /\ "device_list" \notin q[i].unseen => q[i].dev \in device_list
                      /\ "devtup" \notin q[i].unseen => q[i].dev \in devtup
    BY <1>2, <1>5, <1>5a DEF FrameStores
  <2>1. CASE i = n + 1
    BY <1>3, <1>4, <2>1 DEF AllStores
  <2>2. CASE i \in 1..n
    <3>1. q[i].dev = stack[t][i].dev /\ q[i].unseen = stack[t][i].unseen
      BY <1>4, <1>7, <2>2 DEF Getting
    <3> QED BY <1>6, <1>7, <2>2, <3>1 DEF AllocInv, FrameStores, Frames
  <2> QED BY <1>9, <2>1, <2>2
<1>17. BuiltOnce'
  <2>1. built[d] = 0
    BY <1>1 DEF AllocInv, DMTypes
  <2> QED BY <1>1, <1>2, <2>1 DEF AllocInv, BuiltOnce
<1>18. GotInOrder'
  <2> SUFFICES ASSUME ~exit_all', NEW u \in Thread, NEW i \in Frames(u)',
                      NEW e \in Range(deps'[stack'[u][i].dev])
               PROVE  \/ built'[e] > 0 \/ e \in Range(stack'[u][i].todo)
                      \/ i < Len(stack'[u]) /\ stack'[u][i + 1].dev = e
    BY DEF GotInOrder
  <2>0. /\ ~exit_all /\ i \in 1..Len(q) /\ stack'[u] = q /\ built'[e] = built[e]
        /\ e \in Range(deps[q[i].dev])
    BY <1>2, <1>5, <1>5a
  <2>1. CASE i = n + 1
    BY <1>3, <1>4, <2>0, <2>1
  <2>2. CASE i \in 1..n
    <3>1. \/ built[e] > 0 \/ e \in Range(stack[t][i].todo)
          \/ i < n /\ stack[t][i + 1].dev = e
      BY <1>6, <1>7, <2>0, <2>2 DEF AllocInv, GotInOrder, Frames
    <3>2. /\ i < n => i + 1 \in 1..n
          /\ i < Len(q)
      BY <1>1, <1>4, <2>2
    <3>3. e \in Range(stack[t][i].todo) => e \in Range(q[i].todo) \/ (i = n /\ e = d)
      BY <1>4, <2>2 DEF Getting
    <3> QED BY <1>7, <1>8, <2>0, <3>1, <3>2, <3>3
  <2> QED BY <1>9, <2>0, <2>1, <2>2
<1>19. BuiltInOrder'
  BY <1>2 DEF AllocInv, BuiltInOrder
<1>20. StoresVisible'
  BY <1>1, <1>2 DEF StoresVisible
<1>21. CycleFound'
  BY <1>2, OnCycleDef DEF AllocInv, CycleFound
<1> QED BY <1>10, <1>11, <1>12, <1>13, <1>14, <1>15, <1>16, <1>17, <1>18, <1>19, <1>20, <1>21
        DEF AllocInv

\* alloc_device, whatever it finds.
LEMMA AllocKeeps ==
  ASSUME AllocInv, NEW t \in Thread, NEW d \in Device, NEW r, Getting(t, d, r),
         alloc_device(t, d, r), deps' = deps
  PROVE  AllocInv'
<1>1. CASE /\ d \in is_started
           /\ stack' = [stack EXCEPT ![t] = r]
           /\ UNCHANGED <<is_starting, exit_all, null_refs>>
  <2>1. CycleFound' /\ null_refs' \in SUBSET Device /\ exit_all' \in BOOLEAN
    <3>1. built' = built
      BY DEF alloc_device, AllocWith
    <3> QED BY <1>1, <3>1, OnCycleDef DEF AllocInv, DMTypes, CycleFound
  <2> QED BY <1>1, <2>1, GotKeeps DEF alloc_device, AllocWith
<1>2. CASE /\ d \notin is_started /\ Circular(d)
           /\ stack' = [stack EXCEPT ![t] = r]
           /\ exit_all' = (exit_all \/ TRUE)
           /\ null_refs' = (IF r = << >> THEN {} ELSE {Top(t).dev}) \cup null_refs
           /\ UNCHANGED is_starting
  <2> DEFINE n == Len(r)
             p == [i \in 1..n |-> stack[t][i].dev]
  <2>1. /\ n \in Nat /\ n = Len(stack[t])
        /\ \A u \in Thread : u # t => stack[u] = << >>
        /\ \A i \in 1..n : stack[t][i] \in FrameType
    BY GettingFacts DEF Getting
  <2>2. PICK j \in 1..n : stack[t][j].dev = d
    BY <1>2, <2>1 DEF AllocInv, StartingFramed, Frames, Circular
  <2>3. p \in [1..n -> Device]
    BY <2>1 DEF FrameType
  <2>4. \A i, k \in 1..n : p[i] = p[k] => i = k
    BY <2>1 DEF AllocInv, FramesDistinct, Frames
  <2>5. \A i \in 1..n : i < n => p[i + 1] \in Range(deps[p[i]])
    <3> TAKE i \in 1..n
    <3> HAVE i < n
    <3>1. i + 1 \in 1..n
      BY <2>1
    <3>2. stack[t][i + 1].dev \in Range(deps[stack[t][i].dev])
      BY <2>1 DEF AllocInv, FramesChained, Frames
    <3> QED BY <3>1, <3>2
  <2>6. n \in 1..n /\ r # << >>
    BY <2>1, <2>2
  <2>7. p[j] \in Range(deps[p[n]])
    <3>1. d \in Range(stack[t][n].todo)
      BY <2>6 DEF Getting
    <3>2. Range(stack[t][n].todo) \subseteq Range(deps[stack[t][n].dev])
      BY <2>1, <2>6 DEF AllocInv, FramesChained, Frames
    <3> QED BY <2>2, <2>6, <3>1, <3>2
  <2>8. p[n] \in Reach(deps, p[n])
    <3> HIDE DEF p
    <3> QED BY <2>1, <2>3, <2>4, <2>5, <2>7, ChainOnCycle
  <2>9. Top(t).dev = p[n] /\ Top(t).dev \in Device
    BY <2>1, <2>3, <2>6 DEF Top
  <2>10. OnCycle(Top(t).dev)
    BY <2>8, <2>9, OnCycleDef
  <2>11. exit_all' = TRUE /\ null_refs' = {Top(t).dev} \cup null_refs
    BY <1>2, <2>6
  <2>12. CycleFound'
    <3>1. PICK c \in Device : c = Top(t).dev
      BY <2>9
    <3>2. c \in null_refs' /\ OnCycle(c)'
      BY <2>10, <2>11, <3>1, OnCycleDef
    <3> QED BY <2>11, <3>2 DEF CycleFound
  <2>13. null_refs' \in SUBSET Device
    BY <2>9, <2>11 DEF AllocInv, DMTypes
  <2> QED BY <1>2, <2>11, <2>12, <2>13, GotKeeps DEF alloc_device, AllocWith
<1>3. CASE /\ d \notin is_started /\ ~Circular(d)
           /\ stack' = [stack EXCEPT ![t] = Append(r, Frame(d))]
           /\ is_starting' = is_starting \cup {d}
           /\ UNCHANGED <<exit_all, null_refs>>
  BY <1>3, PushKeeps DEF alloc_device, AllocWith, Circular
<1> QED BY <1>1, <1>2, <1>3 DEF alloc_device, AllocWith
-----------------------------------------------------------------------------
LEMMA FramesTyped ==
  ASSUME AllocInv, NEW t \in Thread, NEW i \in Frames(t)
  PROVE  stack[t][i] \in FrameType /\ stack[t][i].dev \in Device
<1>1. stack[t] \in Seq(FrameType)
  BY DEF AllocInv, DMTypes
<1>2. stack[t][i] \in FrameType
  <2> HIDE DEF FrameType
  <2> QED BY <1>1 DEF Frames
<1> QED BY <1>2 DEF FrameType

\* The frame on top of the stack of the thread in alloc_device.
LEMMA TopFrame ==
  ASSUME AllocInv, NEW t \in Thread, stack[t] # << >>
  PROVE  /\ Len(stack[t]) \in Nat /\ Len(stack[t]) \in Frames(t)
         /\ stack[t] \in Seq(FrameType) /\ Top(t) = stack[t][Len(stack[t])]
         /\ Top(t) \in FrameType /\ Top(t).dev \in Device
         /\ Top(t).todo \in Seq(Device) /\ Top(t).unseen \in SUBSET AllStores
         /\ mutex = t /\ MayLock(t)
         /\ \A u \in Thread : u # t => stack[u] = << >>
<1>1. stack[t] \in Seq(FrameType) /\ Len(stack[t]) \in Nat /\ Len(stack[t]) \in Frames(t)
  <2>1. stack[t] \in Seq(FrameType)
    BY DEF AllocInv, DMTypes
  <2> HIDE DEF FrameType
  <2> QED BY <2>1 DEF Frames
<1>2. Top(t) \in FrameType
  <2> HIDE DEF FrameType
  <2> QED BY <1>1 DEF Top, Frames
<1>3. mutex = t /\ MayLock(t)
  BY DEF AllocInv, OneStack, MayLock
<1>4. \A u \in Thread : u # t => stack[u] = << >>
  BY <1>3, OnlyStack DEF AllocInv
<1> QED BY <1>1, <1>2, <1>3, <1>4 DEF Top, FrameType

\* A constructor that returns: its device is built, and can be on no cycle
\* unless one was found.
LEMMA CtorReturnsKeeps ==
  ASSUME AllocInv, NEW t \in Thread, CtorReturns(t)
  PROVE  AllocInv'
<1> DEFINE n == Len(stack[t])
<1>1. PICK d \in Device : d = Top(t).dev
  BY TopFrame DEF CtorReturns
<1>2. /\ stack[t] # << >> /\ Top(t).todo = << >> /\ d \in is_starting
      /\ is_starting' = is_starting \ {d}
      /\ built' = [built EXCEPT ![d] = built[d] + 1]
      /\ UNCHANGED <<deps, is_started, device_list, devtup, exit_all, null_refs, mutex, stack>>
  BY <1>1 DEF CtorReturns, stores
<1>3. /\ n \in Nat /\ n \in Frames(t) /\ Top(t) = stack[t][n] /\ stack[t][n].dev = d
      /\ \A u \in Thread : u # t => Frames(u) = {}
  BY <1>1, <1>2, TopFrame DEF Frames
<1>4. built \in [Device -> Nat] /\ built[d] = 0
  BY <1>2 DEF AllocInv, DMTypes, BuiltOnce
<1>5. built' \in [Device -> Nat] /\ built'[d] = 1 /\ \A e \in Device : e # d => built'[e] = built[e]
  BY <1>2, <1>4
<1>6. \A e \in Device : built[e] > 0 => built'[e] > 0
  BY <1>4, <1>5
<1>7. DMTypes'
  BY <1>2, <1>5 DEF AllocInv, DMTypes
<1>8. OneStack' /\ FramesDistinct' /\ FramesChained'
  BY <1>2 DEF AllocInv, OneStack, FramesDistinct, FramesChained, Frames
<1>9. FramesStarting'
  <2> SUFFICES ASSUME NEW i \in Frames(t), i < n \/ stack[t][i].todo # << >>
               PROVE  stack[t][i].dev \in is_starting /\ stack[t][i].dev # d
    BY <1>2, <1>3 DEF FramesStarting, Frames
  <2>1. i # n
    BY <1>2, <1>3
  <2> QED BY <1>3, <2>1 DEF AllocInv, FramesStarting, FramesDistinct
<1>10. StartingFramed'
  BY <1>2 DEF AllocInv, StartingFramed, Frames
<1>11. FrameStores'
  <2> SUFFICES ASSUME NEW i \in Frames(t)
               PROVE  stack[t][i].dev \notin is_starting' => built'[stack[t][i].dev] > 0
    BY <1>2, <1>3 DEF AllocInv, FrameStores, Frames
  <2>1. stack[t][i].dev \in Device
    BY FramesTyped
  <2> QED BY <1>2, <1>5, <1>6, <2>1 DEF AllocInv, FrameStores
<1>12. BuiltOnce'
  <2> SUFFICES ASSUME NEW e \in Device
               PROVE  /\ built'[e] <= 1
                      /\ e \in is_started => e \notin is_starting' /\ built'[e] > 0
                      /\ e \in is_starting' => built'[e] = 0
                      /\ built'[e] > 0 => e \in is_started
                            \/ \E u \in Thread : stack[u] # << >> /\ Top(u).dev = e
    BY <1>2 DEF BuiltOnce, Top
  <2>1. CASE e = d
    BY <1>1, <1>2, <1>5, <2>1 DEF AllocInv, BuiltOnce
  <2>2. CASE e # d
    BY <1>2, <1>5, <2>2 DEF AllocInv, BuiltOnce
  <2> QED BY <2>1, <2>2
<1>13. GotInOrder'
  <2> SUFFICES ASSUME ~exit_all, NEW i \in Frames(t), NEW e \in Range(deps[stack[t][i].dev])
               PROVE  \/ built'[e] > 0 \/ e \in Range(stack[t][i].todo)
                      \/ i < n /\ stack[t][i + 1].dev = e
    BY <1>2, <1>3 DEF GotInOrder, Frames
  <2>1. stack[t][i].dev \in Device
    BY FramesTyped
  <2>2. e \in Device
    BY <2>1 DEF AllocInv, DMTypes, Range
  <2> QED BY <1>6, <2>2 DEF AllocInv, GotInOrder
<1>14. ASSUME ~exit_all, NEW e \in Range(deps[d])
       PROVE  e \in Device /\ built[e] > 0
  <2>1. e \in Device
    BY DEF AllocInv, DMTypes, Range
  <2>2. e \notin Range(stack[t][n].todo)
    BY <1>2, <1>3 DEF Range
  <2> QED BY <1>3, <1>14, <2>1, <2>2 DEF AllocInv, GotInOrder
<1>15. BuiltInOrder'
  <2> SUFFICES ASSUME ~exit_all, NEW c \in Device, built'[c] > 0, NEW e \in Range(deps[c])
               PROVE  built'[e] > 0
    BY <1>2 DEF BuiltInOrder
  <2>1. e \in Device
    BY DEF AllocInv, DMTypes, Range
  <2>2. built[e] > 0
    BY <1>5, <1>14 DEF AllocInv, BuiltInOrder
  <2> QED BY <1>6, <2>1, <2>2
<1>16. StoresVisible'
  BY <1>2 DEF AllocInv, StoresVisible, Storing, Top
<1>17. ASSUME ~exit_all PROVE ~OnCycle(d)
  <2> DEFINE S == {e \in Device : built[e] > 0}
  <2>1. Range(deps[d]) \subseteq S
    BY <1>14, <1>17
  <2>2. \A e \in S : Range(deps[e]) \subseteq S
    <3> SUFFICES ASSUME NEW e \in S, NEW x \in Range(deps[e]) PROVE x \in S
      OBVIOUS
    <3>1. x \in Device
      BY DEF AllocInv, DMTypes, Range
    <3> QED BY <1>17, <3>1 DEF AllocInv, BuiltInOrder
  <2>3. d \notin S
    BY <1>4
  <2> HIDE DEF S
  <2>4. Reach(deps, d) \subseteq S
    BY <2>1, <2>2, ReachWithin
  <2> QED BY <2>3, <2>4, OnCycleDef
<1>18. CycleFound'
  <2>1. \A c : OnCycle(c)' <=> OnCycle(c)
    BY <1>2, OnCycleDef
  <2>2. exit_all => \E c \in null_refs : OnCycle(c)
    BY DEF AllocInv, CycleFound
  <2>3. ~exit_all => \A c \in Device : built'[c] > 0 => ~OnCycle(c)
    BY <1>5, <1>17 DEF AllocInv, CycleFound
  <2> QED BY <1>2, <2>1, <2>2, <2>3 DEF CycleFound
<1> QED BY <1>7, <1>8, <1>9, <1>10, <1>11, <1>12, <1>13, <1>15, <1>16, <1>18 DEF AllocInv

\* The frames of t once the store s of its innermost alloc_device is seen.
LEMMA StoreSeenFrames ==
  ASSUME AllocInv, NEW t \in Thread, NEW s \in AllStores, StoreSeen(t, s)
  PROVE  \E q \in Seq(FrameType) :
           /\ stack' = [stack EXCEPT ![t] = q] /\ Len(q) = Len(stack[t])
           /\ \A i \in Frames(t) : /\ q[i].dev = stack[t][i].dev /\ q[i].todo = stack[t][i].todo
                                   /\ i # Len(stack[t]) => q[i].unseen = stack[t][i].unseen
           /\ q[Len(stack[t])].unseen = Top(t).unseen \ {s}
<1> DEFINE n == Len(stack[t])
           f == [Top(t) EXCEPT !.unseen = @ \ {s}]
           q == [stack[t] EXCEPT ![n] = f]
<1>1. /\ n \in Nat /\ n \in 1..n /\ stack[t] \in Seq(FrameType) /\ Top(t) = stack[t][n]
      /\ Top(t) \in FrameType
  BY TopFrame DEF StoreSeen, Frames
<1>2. f \in FrameType /\ f.dev = Top(t).dev /\ f.todo = Top(t).todo
      /\ f.unseen = Top(t).unseen \ {s}
  BY <1>1 DEF FrameType
<1>3. stack' = [stack EXCEPT ![t] = q]
  BY <1>1 DEF StoreSeen, Top
<1> HIDE DEF f
<1>4. /\ q \in Seq(FrameType) /\ Len(q) = n
      /\ \A i \in 1..n : q[i] = IF i = n THEN f ELSE stack[t][i]
  BY <1>1, <1>2, ExceptSeq
<1> HIDE DEF q
<1> QED BY <1>1, <1>2, <1>3, <1>4 DEF Frames

\* A store of alloc_device is seen by the other threads.
LEMMA StoreSeenKeeps ==
  ASSUME AllocInv, NEW t \in Thread, NEW s \in AllStores, StoreSeen(t, s)
  PROVE  AllocInv'
<1> DEFINE n == Len(stack[t])
<1>1. PICK d \in Device : d = Top(t).dev
  BY TopFrame DEF StoreSeen
<1>2. /\ stack[t] # << >> /\ Top(t).todo = << >> /\ d \notin is_starting /\ s \in Top(t).unseen
      /\ devtup' = (IF s = "devtup" THEN devtup \cup {d} ELSE devtup)
      /\ device_list' = (IF s = "device_list" THEN device_list \cup {d} ELSE device_list)
      /\ is_started' = (IF s = "is_started" THEN is_started \cup {d} ELSE is_started)
      /\ UNCHANGED <<deps, is_starting, exit_all, null_refs, built, mutex>>
  BY <1>1 DEF StoreSeen
<1>3. PICK q \in Seq(FrameType) :
        /\ stack' = [stack EXCEPT ![t] = q] /\ Len(q) = n
        /\ \A i \in Frames(t) : /\ q[i].dev = stack[t][i].dev /\ q[i].todo = stack[t][i].todo
                                /\ i # n => q[i].unseen = stack[t][i].unseen
        /\ q[n].unseen = Top(t).unseen \ {s}
  BY StoreSeenFrames
<1>4. /\ n \in Nat /\ n \in Frames(t) /\ Top(t) = stack[t][n] /\ stack[t][n].dev = d
      /\ Frames(t) = 1..n /\ mutex = t
      /\ \A u \in Thread : u # t => stack[u] = << >>
  BY <1>1, <1>2, TopFrame DEF Frames
<1>5. /\ stack' \in [Thread -> Seq(FrameType)] /\ stack'[t] = q
      /\ \A u \in Thread : u # t => stack'[u] = << >>
      /\ Frames(t)' = Frames(t) /\ \A u \in Thread : u # t => Frames(u)' = {}
  BY <1>3, <1>4 DEF AllocInv, DMTypes, Frames
<1>6. built[d] > 0
  BY <1>2, <1>4 DEF AllocInv, FrameStores
<1>7. DMTypes'
  BY <1>2, <1>5 DEF AllocInv, DMTypes
<1>8. OneStack'
  BY <1>2, <1>4, <1>5 DEF OneStack
<1>9. FramesStarting'
  <2> SUFFICES ASSUME NEW i \in Frames(t), i < n \/ q[i].todo # << >>
               PROVE  q[i].dev \in is_starting
    BY <1>2, <1>3, <1>5 DEF FramesStarting
  <2> QED BY <1>3 DEF AllocInv, FramesStarting
<1>10. StartingFramed'
  BY <1>2, <1>3, <1>4, <1>5 DEF AllocInv, StartingFramed, Frames
<1>11. FramesDistinct'
  BY <1>3, <1>5 DEF AllocInv, FramesDistinct
<1>12. FramesChained'
  <2> SUFFICES ASSUME NEW i \in Frames(t)
               PROVE  /\ Range(q[i].todo) \subseteq Range(deps[q[i].dev])
                      /\ i < n => q[i + 1].dev \in Range(deps[q[i].dev])
    <3>1. Frames(t)' = Frames(t) /\ \A u \in Thread : u # t => Frames(u)' = {}
      BY <1>5
    <3>2. stack'[t] = q /\ Len(q) = n /\ deps' = deps
      BY <1>2, <1>3, <1>5
    <3> QED BY <3>1, <3>2 DEF FramesChained
  <2>1. i < n => i + 1 \in Frames(t)
    BY <1>4
  <2> QED BY <1>3, <2>1 DEF AllocInv, FramesChained
<1>13. ASSUME NEW i \in Frames(t)
       PROVE  /\ q[i].dev \notin is_starting => built[q[i].dev] > 0
              /\ "is_started" \notin q[i].unseen => q[i].dev \in is_started'
              /\ "device_list" \notin q[i].unseen => q[i].dev \in device_list'
              /\ "devtup" \notin q[i].unseen => q[i].dev \in devtup'
  <2>1. CASE i # n
    BY <1>2, <1>3, <2>1 DEF AllocInv, FrameStores
  <2>2. CASE i = n
    <3>1. q[i].dev = d /\ q[i].unseen = stack[t][n].unseen \ {s}
      BY <1>3, <1>4, <2>2
    <3> QED BY <1>2, <1>4, <1>6, <3>1 DEF AllocInv, FrameStores
  <2> QED BY <2>1, <2>2
<1>14. FrameStores'
  BY <1>2, <1>5, <1>13 DEF FrameStores
<1>15. BuiltOnce'
  <2> SUFFICES ASSUME NEW e \in Device
               PROVE  /\ built[e] <= 1
                      /\ e \in is_started' => e \notin is_starting /\ built[e] > 0
                      /\ e \in is_starting => built[e] = 0
                      /\ built[e] > 0 =>
                           e \in is_started' \/ (stack'[t] # << >> /\ Top(t)'.dev = e)
    BY <1>2 DEF BuiltOnce
  <2>1. stack'[t] # << >> /\ Top(t)' = q[n]
    BY <1>3, <1>4, <1>5 DEF Top
  <2>3. Top(t)'.dev = d
    BY <1>3, <1>4, <2>1
  <2>2. built[e] > 0 => e \in is_started \/ e = d
    BY <1>1, <1>4 DEF AllocInv, BuiltOnce
  <2>4. /\ built[e] <= 1
        /\ e \in is_started => e \notin is_starting /\ built[e] > 0
        /\ e \in is_starting => built[e] = 0
    BY DEF AllocInv, BuiltOnce
  <2>5. e \in is_started' => e \in is_started \/ e = d
    BY <1>2
  <2>6. e \in is_started => e \in is_started'
    BY <1>2
  <2>7. e \in is_started' => e \notin is_starting /\ built[e] > 0
    BY <1>2, <1>6, <2>4, <2>5
  <2>8. built[e] > 0 => e \in is_started' \/ Top(t)'.dev = e
    BY <2>2, <2>3, <2>6
  <2> QED BY <2>1, <2>4, <2>7, <2>8
<1>16. GotInOrder'
  <2> SUFFICES ASSUME ~exit_all, NEW i \in Frames(t), NEW e \in Range(deps[q[i].dev])
               PROVE  \/ built[e] > 0 \/ e \in Range(q[i].todo)
                      \/ i < n /\ q[i + 1].dev = e
    BY <1>2, <1>3, <1>5 DEF GotInOrder
  <2>1. i < n => i + 1 \in Frames(t)
    BY <1>4
  <2> QED BY <1>3, <2>1 DEF AllocInv, GotInOrder
<1>17. BuiltInOrder'
  BY <1>2 DEF AllocInv, BuiltInOrder
<1>18. StoresVisible'
  <2> SUFFICES ASSUME NEW e \in is_started', ~(e \in device_list' /\ e \in devtup')
               PROVE  Storing(e)'
    BY DEF StoresVisible
  <2>1. e = d
    <3> SUFFICES ASSUME e # d PROVE FALSE
      OBVIOUS
    <3>1. e \in is_started /\ ~(e \in device_list /\ e \in devtup)
      BY <1>2
    <3>2. Storing(e)
      BY <3>1 DEF AllocInv, StoresVisible
    <3> QED BY <1>1, <1>4, <3>2 DEF Storing
  <2>2. q[n].unseen # {}
    <3>1. q[n].dev = d
      BY <1>3, <1>4
    <3> QED BY <1>4, <1>13, <2>1, <3>1
  <2>3. /\ stack'[t] # << >> /\ Top(t)' = q[n]
    BY <1>3, <1>4, <1>5 DEF Top
  <2>4. Top(t)'.dev = e /\ Top(t)'.todo = << >> /\ Top(t)'.unseen # {}
    BY <1>2, <1>3, <1>4, <2>1, <2>2, <2>3
  <2> QED BY <2>3, <2>4 DEF Storing
<1>19. CycleFound'
  BY <1>2, OnCycleDef DEF AllocInv, CycleFound
<1> QED BY <1>7, <1>8, <1>9, <1>10, <1>11, <1>12, <1>14, <1>15, <1>16, <1>17, <1>18, <1>19
        DEF AllocInv

\* alloc_device returns.
LEMMA AllocReturnsKeeps ==
  ASSUME AllocInv, NEW t \in Thread, AllocReturns(t)
  PROVE  /\ AllocInv'
         /\ Top(t).dev \in is_started
         /\ Len(stack'[t]) = Len(stack[t]) - 1
         /\ \A i \in 1..(Len(stack[t]) - 1) : stack'[t][i] = stack[t][i]
<1> DEFINE n == Len(stack[t])
           q == SubSeq(stack[t], 1, n - 1)
<1>1. PICK d \in Device : d = Top(t).dev
  BY TopFrame DEF AllocReturns, ReturnLeaving
<1>2. /\ stack[t] # << >> /\ Top(t).unseen = {}
      /\ stack' = [stack EXCEPT ![t] = q]
      /\ mutex' = (IF n = 1 THEN Nobody ELSE t)
      /\ UNCHANGED <<deps, is_started, device_list, devtup, is_starting, exit_all, null_refs, built>>
  BY DEF AllocReturns, ReturnLeaving, stores
<1>3. /\ n \in Nat /\ n \in Frames(t) /\ Top(t) = stack[t][n] /\ stack[t][n].dev = d
      /\ Frames(t) = 1..n /\ mutex = t /\ stack[t] \in Seq(FrameType)
      /\ \A u \in Thread : u # t => stack[u] = << >>
  BY <1>1, <1>2, TopFrame DEF Frames
<1>4. /\ q \in Seq(FrameType) /\ Len(q) = n - 1
      /\ \A i \in 1..(n - 1) : q[i] = stack[t][i]
  <2>1. \A i \in 1..(n - 1) : stack[t][i] \in FrameType
    BY <1>3, FramesTyped
  <2>2. n - 1 \in Nat
    BY <1>3
  <2> HIDE DEF FrameType
  <2> QED BY <1>3, <2>1, <2>2, SubSeqProperties
<1> HIDE DEF q
<1>5. /\ stack' \in [Thread -> Seq(FrameType)] /\ stack'[t] = q
      /\ \A u \in Thread : u # t => stack'[u] = << >>
      /\ Frames(t)' = 1..(n - 1) /\ \A u \in Thread : u # t => Frames(u)' = {}
  BY <1>2, <1>3, <1>4 DEF AllocInv, DMTypes, Frames
<1>6. d \in is_started /\ d \in device_list /\ d \in devtup /\ d \notin is_starting /\ built[d] > 0
  BY <1>2, <1>3 DEF AllocInv, FrameStores, BuiltOnce
<1>7. \A i \in 1..(n - 1) : i \in Frames(t) /\ i < n /\ i + 1 \in Frames(t) /\ stack'[t][i] = stack[t][i]
  BY <1>3, <1>4, <1>5
<1>8. DMTypes'
  BY <1>2, <1>5 DEF AllocInv, DMTypes
<1>9. OneStack'
  <2>1. n = 1 => stack'[t] = << >>
    BY <1>4, <1>5
  <2> QED BY <1>2, <1>5, <2>1 DEF OneStack
<1>10. FramesStarting'
  BY <1>2, <1>5, <1>7 DEF AllocInv, FramesStarting
<1>11. StartingFramed'
  <2> SUFFICES ASSUME NEW e \in is_starting
               PROVE  \E i \in 1..(n - 1) : stack[t][i].dev = e
    BY <1>2, <1>5, <1>7 DEF StartingFramed
  <2>1. PICK i \in 1..n : stack[t][i].dev = e
    BY <1>3 DEF AllocInv, StartingFramed, Frames
  <2>2. i # n
    BY <1>3, <1>6, <2>1
  <2>3. i \in 1..(n - 1)
    BY <1>3, <2>2
  <2> QED BY <2>1, <2>3
<1>12. FramesDistinct'
  BY <1>5, <1>7 DEF AllocInv, FramesDistinct
<1>13. FramesChained'
  <2> SUFFICES ASSUME NEW i \in 1..(n - 1)
               PROVE  /\ Range(stack[t][i].todo) \subseteq Range(deps[stack[t][i].dev])
                      /\ i < n - 1 => stack'[t][i + 1].dev \in Range(deps[stack[t][i].dev])
    BY <1>2, <1>4, <1>5, <1>7 DEF FramesChained
  <2>1. i < n - 1 => i + 1 \in 1..(n - 1)
    BY <1>3
  <2> QED BY <1>7, <2>1 DEF AllocInv, FramesChained
<1>14. FrameStores'
  BY <1>2, <1>5, <1>7 DEF AllocInv, FrameStores
<1>15. BuiltOnce'
  <2>1. \A e \in Device : built[e] > 0 => e \in is_started
    BY <1>1, <1>3, <1>6 DEF AllocInv, BuiltOnce
  <2> QED BY <1>2, <2>1 DEF AllocInv, BuiltOnce
<1>16. GotInOrder'
  <2> SUFFICES ASSUME ~exit_all, NEW i \in 1..(n - 1), NEW e \in Range(deps[stack[t][i].dev])
               PROVE  \/ built[e] > 0 \/ e \in Range(stack[t][i].todo)
                      \/ i < n - 1 /\ stack'[t][i + 1].dev = e
    BY <1>2, <1>4, <1>5, <1>7 DEF GotInOrder
  <2>1. \/ built[e] > 0 \/ e \in Range(stack[t][i].todo)
        \/ stack[t][i + 1].dev = e
    BY <1>7 DEF AllocInv, GotInOrder
  <2>2. CASE i = n - 1
    <3>1. i + 1 = n
      BY <1>3, <2>2
    <3> QED BY <1>3, <1>6, <2>1, <3>1
  <2>3. CASE i # n - 1
    <3>1. i + 1 \in 1..(n - 1) /\ i < n - 1
      BY <1>3, <2>3
    <3> QED BY <1>7, <2>1, <3>1
  <2> QED BY <2>2, <2>3
<1>17. BuiltInOrder'
  BY <1>2 DEF AllocInv, BuiltInOrder
<1>18. StoresVisible'
  <2>1. \A e \in is_started : e \in device_list /\ e \in devtup
    BY <1>2, <1>3 DEF AllocInv, StoresVisible, Storing
  <2> QED BY <1>2, <2>1 DEF StoresVisible
<1>19. CycleFound'
  BY <1>2, OnCycleDef DEF AllocInv, CycleFound
<1>20. AllocInv'
  BY <1>8, <1>9, <1>10, <1>11, <1>12, <1>13, <1>14, <1>15, <1>16, <1>17, <1>18, <1>19
     DEF AllocInv
<1> QED BY <1>1, <1>4, <1>5, <1>6, <1>7, <1>20

\* A command that starts its device has no frames yet.
LEMMA StartGetting ==
  ASSUME AllocInv, NEW t \in Thread, NEW d \in Device, stack[t] = << >>, MayLock(t)
  PROVE  Getting(t, d, << >>) /\ is_starting = {}
<1>1. \A u \in Thread : stack[u] = << >>
  BY OnlyStack DEF AllocInv
<1>2. is_starting = {}
  BY <1>1 DEF AllocInv, StartingFramed, Frames
<1> QED BY <1>2 DEF Getting

\* A constructor gets the first of the dependencies it has left.
LEMMA CtorGetting ==
  ASSUME AllocInv, NEW t \in Thread, stack[t] # << >>, Top(t).todo # << >>
  PROVE  LET d == Head(Top(t).todo)
             r == [stack[t] EXCEPT ![Len(stack[t])].todo = Tail(@)]
         IN  d \in Device /\ Getting(t, d, r)
<1> DEFINE n == Len(stack[t])
           d == Head(Top(t).todo)
           f == [Top(t) EXCEPT !.todo = Tail(@)]
           r == [stack[t] EXCEPT ![n] = f]
<1>1. /\ n \in Nat /\ n \in 1..n /\ stack[t] \in Seq(FrameType) /\ Top(t) = stack[t][n]
      /\ Top(t) \in FrameType /\ Top(t).todo \in Seq(Device) /\ MayLock(t)
  BY TopFrame DEF Frames
<1>2. /\ d \in Device /\ Tail(Top(t).todo) \in Seq(Device)
      /\ d \in Range(Top(t).todo) /\ Range(Tail(Top(t).todo)) \subseteq Range(Top(t).todo)
      /\ Range(Top(t).todo) \subseteq Range(Tail(Top(t).todo)) \cup {d}
  BY <1>1, TailRange
<1> HIDE DEF d
<1>3. f \in FrameType /\ f.dev = Top(t).dev /\ f.unseen = Top(t).unseen
      /\ f.todo = Tail(Top(t).todo)
  BY <1>1, <1>2 DEF FrameType
<1>4. [stack[t] EXCEPT ![n].todo = Tail(@)] = r
  BY <1>1
<1> HIDE DEF f
<1>5. /\ r \in Seq(FrameType) /\ Len(r) = n
      /\ \A i \in 1..n : r[i] = IF i = n THEN f ELSE stack[t][i]
  BY <1>1, <1>3, ExceptSeq
<1> HIDE DEF r
<1>6. ASSUME NEW i \in 1..n
      PROVE  /\ r[i].dev = stack[t][i].dev /\ r[i].unseen = stack[t][i].unseen
             /\ Range(r[i].todo) \subseteq Range(stack[t][i].todo)
             /\ \A e \in Range(stack[t][i].todo) : e \in Range(r[i].todo) \/ (i = n /\ e = d)
             /\ i = n => stack[t][i].todo # << >> /\ d \in Range(stack[t][i].todo)
  <2>1. CASE i = n
    BY <1>1, <1>2, <1>3, <1>5, <2>1
  <2>2. CASE i # n
    BY <1>5, <2>2
  <2> QED BY <2>1, <2>2
<1>7. Getting(t, d, r)
  BY <1>1, <1>5, <1>6 DEF Getting
<1> QED BY <1>2, <1>4, <1>7 DEF d
-----------------------------------------------------------------------------
(***************************************************************************)
(* Every step keeps the invariant.                                         *)
(***************************************************************************)
LEMMA AllocUnchanged ==
  ASSUME AllocInv, UNCHANGED <<deps, allocVars>>
  PROVE  AllocInv'
<1>1. UNCHANGED <<deps, is_started, device_list, devtup, is_starting, exit_all, null_refs, built,
                  mutex, stack>>
  BY DEF allocVars, stores
<1>2. DMTypes' /\ OneStack' /\ BuiltInOrder'
  BY <1>1 DEF AllocInv, DMTypes, OneStack, BuiltInOrder
<1>3. FramesStarting' /\ StartingFramed' /\ FramesDistinct' /\ FramesChained'
  BY <1>1 DEF AllocInv, FramesStarting, StartingFramed, FramesDistinct, FramesChained, Frames
<1>4. FrameStores' /\ BuiltOnce' /\ GotInOrder' /\ StoresVisible'
  BY <1>1 DEF AllocInv, FrameStores, BuiltOnce, GotInOrder, StoresVisible, Storing, Frames, Top
<1>5. CycleFound'
  BY <1>1, OnCycleDef DEF AllocInv, CycleFound
<1> QED BY <1>2, <1>3, <1>4, <1>5 DEF AllocInv

\* The frames of t change while it is in alloc_device.
LEMMA FramesKeepCommands ==
  ASSUME CommandTypes, CommandsStarted, NEW t \in Thread, stack[t] # << >>,
         UNCHANGED <<pc, cmd_device, wanted>>, is_started \subseteq is_started',
         \A u \in Thread : u # t => stack'[u] = stack[u],
         stack'[t] # << >> => stack'[t][1].dev = stack[t][1].dev,
         stack'[t] = << >> => stack[t][1].dev \in is_started'
  PROVE  CommandTypes' /\ CommandsStarted'
BY DEF CommandTypes, CommandsStarted, Target

\* t enters alloc_device for the device it is about to use.
LEMMA StartKeepsCommands ==
  ASSUME AllocInv, CommandTypes, CommandsStarted, NEW t \in Thread, NEW d \in Device,
         stack[t] = << >>, alloc_device(t, d, << >>),
         pc[t] \in {"start", "op_start"}, pc' \in [Thread -> CommandPc],
         UNCHANGED <<cmd_device, wanted>>,
         \A u \in Thread : u # t => pc'[u] = pc[u],
         \/ pc'[t] = "execute_dev" /\ d = cmd_device[t]
         \/ pc'[t] = "use" /\ d = wanted[t]
  PROVE  CommandTypes' /\ CommandsStarted'
<1>1. is_starting = {} /\ stack \in [Thread -> Seq(FrameType)]
  BY StartGetting DEF alloc_device, AllocWith, AllocInv, DMTypes
<1>2. is_started' = is_started
  BY DEF alloc_device, AllocWith, stores
<1>3. CommandTypes'
  BY DEF CommandTypes
<1>4. \/ d \in is_started /\ stack'[t] = << >>
      \/ stack'[t] # << >> /\ stack'[t][1].dev = d
  <2>1. Frame(d).dev = d
    BY DEF Frame
  <2>2. Append(<< >>, Frame(d)) # << >> /\ Append(<< >>, Frame(d))[1] = Frame(d)
    OBVIOUS
  <2>3. \/ d \in is_started /\ stack' = [stack EXCEPT ![t] = << >>]
        \/ stack' = [stack EXCEPT ![t] = Append(<< >>, Frame(d))]
    BY <1>1 DEF alloc_device, AllocWith, Circular
  <2>4. \/ d \in is_started /\ stack'[t] = << >>
        \/ stack'[t] = Append(<< >>, Frame(d))
    BY <1>1, <2>3
  <2> QED BY <2>1, <2>2, <2>4
<1>5. \A u \in Thread : u # t => stack'[u] = stack[u]
  BY <1>1 DEF alloc_device, AllocWith
<1>6. Target(t)' = d /\ \A u \in Thread : u # t => Target(u)' = Target(u)
  BY DEF Target
<1>7. cmd_device[t] \in Device
  BY DEF CommandsStarted
<1>8. pc'[t] = "use" => wanted[t] \in Device
  OBVIOUS
<1> QED BY <1>2, <1>3, <1>4, <1>5, <1>6, <1>7, <1>8 DEF CommandsStarted

\* A step of execute that takes no part in alloc_device.
LEMMA CommandStepKeeps ==
  ASSUME DMInv, NEW t \in Thread, NEW d \in Device,
         \/ CtorUsesNull(t) \/ OpUsesNull(t) \/ execute(t, d) \/ OpGet(t, d)
         \/ execute_dev(t) \/ execute_dev_null(t) \/ ReadArgs(t) \/ ArgsFail(t)
         \/ OpUses(t) \/ OpReturns(t)
  PROVE  CommandTypes' /\ CommandsStarted' /\ UNCHANGED <<deps, allocVars>>
<1>1. UNCHANGED <<deps, allocVars>>
  BY DEF CtorUsesNull, OpUsesNull, execute, OpGet, execute_dev, execute_dev_null, ReadArgs,
     ArgsFail, OpUses, OpReturns, ReturnFrom
<1>2. UNCHANGED <<stack, is_started>>
  BY <1>1 DEF allocVars, stores
<1>3. CASE CtorUsesNull(t)
  BY <1>1, <1>2, <1>3 DEF CtorUsesNull, DMInv, CommandTypes, CommandsStarted, Target, cmdVars
<1>4. CASE OpUsesNull(t) \/ execute_dev(t) \/ execute_dev_null(t) \/ ReadArgs(t) \/ OpUses(t)
  <2>1. /\ pc \in [Thread -> CommandPc]
        /\ stack[t] = << >> /\ UNCHANGED <<cmd_device, wanted>>
        /\ pc[t] # "idle" /\ pc' = [pc EXCEPT ![t] = pc'[t]]
        /\ pc'[t] \in {pc[t], "args", "operation"}
    BY <1>4 DEF OpUsesNull, execute_dev, execute_dev_null, ReadArgs, OpUses, At, DMInv,
       CommandTypes, CommandPc
  <2>2. pc' \in [Thread -> CommandPc]
    BY <2>1 DEF CommandPc
  <2>3. /\ pc'[t] \in {"args", "operation"} \/ pc' = pc
        /\ \A u \in Thread : u # t => pc'[u] = pc[u]
    BY <2>1
  <2>4. CommandsStarted /\ CommandTypes
    BY DEF DMInv
  <2> QED BY <1>1, <1>2, <2>1, <2>2, <2>3, <2>4 DEF CommandTypes, CommandsStarted, Target
<1>5. CASE execute(t, d)
  BY <1>1, <1>2, <1>5 DEF execute, At, DMInv, CommandTypes, CommandPc, CommandsStarted, Target
<1>6. CASE OpGet(t, d)
  BY <1>1, <1>2, <1>6 DEF OpGet, At, DMInv, CommandTypes, CommandPc, CommandsStarted, Target
<1>7. CASE ArgsFail(t) \/ OpReturns(t)
  BY <1>1, <1>2, <1>7 DEF ArgsFail, OpReturns, ReturnFrom, At, DMInv, CommandTypes, CommandPc,
     CommandsStarted, Target
<1> QED BY <1>3, <1>4, <1>5, <1>6, <1>7

LEMMA NextKeepsInv ==
  ASSUME DMInv, [DMNext]_dmVars
  PROVE  DMInv'
<1>0. AllocInv /\ CommandTypes /\ CommandsStarted
  BY DEF DMInv
<1>1. ASSUME NEW t \in Thread, CtorGets(t)
      PROVE  DMInv'
  <2> DEFINE n == Len(stack[t])
             d == Head(Top(t).todo)
             r == [stack[t] EXCEPT ![n].todo = Tail(@)]
  <2>1. /\ stack[t] # << >> /\ Top(t).todo # << >> /\ alloc_device(t, d, r) /\ deps' = deps
        /\ UNCHANGED <<pc, cmd_device, wanted>>
    BY <1>1 DEF CtorGets, cmdVars
  <2>2. d \in Device /\ Getting(t, d, r)
    BY <1>0, <2>1, CtorGetting
  <2>3. stack \in [Thread -> Seq(FrameType)] /\ n \in Nat /\ n \in 1..n
    BY <1>0, <2>1, TopFrame DEF AllocInv, DMTypes, Frames
  <2> HIDE DEF d, r
  <2>4. AllocInv'
    BY <1>0, <2>1, <2>2, AllocKeeps
  <2>5. /\ r \in Seq(FrameType) /\ Len(r) = n /\ r[1].dev = stack[t][1].dev
    BY <2>2, <2>3 DEF Getting
  <2>6. PICK q : /\ stack' = [stack EXCEPT ![t] = q]
                 /\ q = r \/ q = Append(r, Frame(d))
    BY <2>1 DEF alloc_device, AllocWith
  <2>7. q # << >> /\ q[1] = r[1]
    <3>1. CASE q = r
      BY <2>3, <2>5, <3>1
    <3>2. CASE q = Append(r, Frame(d))
      <4> HIDE DEF FrameType
      <4> QED BY <2>3, <2>5, <3>2
    <3> QED BY <2>6, <3>1, <3>2
  <2>8. stack'[t] = q /\ \A u \in Thread : u # t => stack'[u] = stack[u]
    BY <2>3, <2>6
  <2>9. is_started' = is_started
    BY <2>1 DEF alloc_device, AllocWith, stores
  <2>10. CommandTypes' /\ CommandsStarted'
    BY <1>0, <2>1, <2>5, <2>7, <2>8, <2>9, FramesKeepCommands
  <2> QED BY <2>4, <2>10 DEF DMInv
<1>2. ASSUME NEW t \in Thread, CtorReturns(t)
      PROVE  DMInv'
  <2>1. AllocInv'
    BY <1>0, <1>2, CtorReturnsKeeps
  <2>2. UNCHANGED <<pc, cmd_device, wanted, stack, is_started>>
    BY <1>2 DEF CtorReturns, cmdVars, stores
  <2> QED BY <1>0, <2>1, <2>2 DEF DMInv, CommandTypes, CommandsStarted, Target
<1>3. ASSUME NEW t \in Thread, NEW s \in AllStores, StoreSeen(t, s)
      PROVE  DMInv'
  <2>1. AllocInv'
    BY <1>0, <1>3, StoreSeenKeeps
  <2>2. stack[t] # << >> /\ UNCHANGED <<pc, cmd_device, wanted>> /\ is_started \subseteq is_started'
    BY <1>3 DEF StoreSeen, cmdVars
  <2>3. PICK q \in Seq(FrameType) :
          /\ stack' = [stack EXCEPT ![t] = q] /\ Len(q) = Len(stack[t])
          /\ \A i \in Frames(t) : q[i].dev = stack[t][i].dev
    BY <1>0, <1>3, StoreSeenFrames
  <2>4. stack \in [Thread -> Seq(FrameType)] /\ 1 \in Frames(t) /\ Len(stack[t]) > 0
    BY <1>0, <2>2, TopFrame DEF AllocInv, DMTypes, Frames
  <2>5. /\ stack'[t] = q /\ q # << >> /\ q[1].dev = stack[t][1].dev
        /\ \A u \in Thread : u # t => stack'[u] = stack[u]
    BY <2>3, <2>4
  <2>6. CommandTypes' /\ CommandsStarted'
    BY <1>0, <2>2, <2>5, FramesKeepCommands
  <2> QED BY <2>1, <2>6 DEF DMInv
<1>4. ASSUME NEW t \in Thread, AllocReturns(t)
      PROVE  DMInv'
  <2> DEFINE n == Len(stack[t])
  <2>1. /\ AllocInv' /\ Top(t).dev \in is_started /\ Len(stack'[t]) = n - 1
        /\ \A i \in 1..(n - 1) : stack'[t][i] = stack[t][i]
    BY <1>0, <1>4, AllocReturnsKeeps
  <2>2. stack[t] # << >> /\ UNCHANGED <<pc, cmd_device, wanted, is_started>>
    BY <1>4 DEF AllocReturns, ReturnLeaving, cmdVars, stores
  <2>3. stack \in [Thread -> Seq(FrameType)] /\ n \in Nat /\ n > 0 /\ Top(t) = stack[t][n]
    BY <1>0, <2>2, TopFrame DEF AllocInv, DMTypes, Frames
  <2>4. \A u \in Thread : u # t => stack'[u] = stack[u]
    BY <1>4, <2>3 DEF AllocReturns, ReturnLeaving
  <2>5. stack'[t] \in Seq(FrameType)
    BY <2>1 DEF AllocInv, DMTypes
  <2>6. CASE n = 1
    <3>1. stack'[t] = << >>
      BY <2>1, <2>5, <2>6
    <3> QED BY <1>0, <2>1, <2>2, <2>3, <2>4, <2>6, <3>1, FramesKeepCommands DEF DMInv
  <2>7. CASE n # 1
    <3>1. 1 \in 1..(n - 1)
      <4>1. n \in Nat /\ n > 0 /\ n # 1
        BY <2>3, <2>7
      <4> HIDE DEF n
      <4> QED BY <4>1
    <3>2. stack'[t] # << >> /\ stack'[t][1] = stack[t][1]
      BY <2>1, <3>1
    <3> QED BY <1>0, <2>1, <2>2, <2>4, <3>2, FramesKeepCommands DEF DMInv
  <2> QED BY <2>6, <2>7
<1>5. ASSUME NEW t \in Thread, start(t)
      PROVE  DMInv'
  <2>1. PICK d \in Device : d = cmd_device[t]
    BY <1>0, <1>5 DEF start, At, CommandsStarted
  <2>2. /\ stack[t] = << >> /\ pc[t] = "start" /\ alloc_device(t, d, << >>) /\ deps' = deps
        /\ pc' = [pc EXCEPT ![t] = "execute_dev"] /\ UNCHANGED <<cmd_device, wanted>>
        /\ MayLock(t)
    BY <1>5, <2>1 DEF start, At, alloc_device, AllocWith
  <2>3. AllocInv'
    BY <1>0, <2>2, StartGetting, AllocKeeps
  <2>4. /\ pc' \in [Thread -> CommandPc]
        /\ pc'[t] = "execute_dev" /\ \A u \in Thread : u # t => pc'[u] = pc[u]
    BY <1>0, <2>2 DEF CommandTypes, CommandPc
  <2>5. CommandTypes' /\ CommandsStarted'
    BY <1>0, <2>1, <2>2, <2>4, StartKeepsCommands
  <2> QED BY <2>3, <2>5 DEF DMInv
<1>6. ASSUME NEW t \in Thread, OpStart(t)
      PROVE  DMInv'
  <2>1. PICK d \in Device : d = wanted[t]
    BY <1>0, <1>6 DEF OpStart, At, CommandsStarted
  <2>2. /\ stack[t] = << >> /\ pc[t] = "op_start" /\ alloc_device(t, d, << >>) /\ deps' = deps
        /\ pc' = [pc EXCEPT ![t] = "use"] /\ UNCHANGED <<cmd_device, wanted>>
        /\ MayLock(t)
    BY <1>6, <2>1 DEF OpStart, At, alloc_device, AllocWith
  <2>3. AllocInv'
    BY <1>0, <2>2, StartGetting, AllocKeeps
  <2>4. /\ pc' \in [Thread -> CommandPc]
        /\ pc'[t] = "use" /\ \A u \in Thread : u # t => pc'[u] = pc[u]
    BY <1>0, <2>2 DEF CommandTypes, CommandPc
  <2>5. CommandTypes' /\ CommandsStarted'
    BY <1>0, <2>1, <2>2, <2>4, StartKeepsCommands
  <2> QED BY <2>3, <2>5 DEF DMInv
<1>7. ASSUME NEW t \in Thread,
             \/ CtorUsesNull(t) \/ OpUsesNull(t) \/ execute_dev(t) \/ execute_dev_null(t)
             \/ ReadArgs(t) \/ ArgsFail(t) \/ OpUses(t) \/ OpReturns(t)
      PROVE  DMInv'
  <2>1. \E d : d \in Device
    <3>1. CASE CtorUsesNull(t)
      BY <1>0, <3>1, TopFrame DEF CtorUsesNull
    <3>2. CASE ~CtorUsesNull(t)
      <4>1. pc[t] # "idle"
        BY <1>7, <3>2 DEF OpUsesNull, execute_dev, execute_dev_null, ReadArgs, ArgsFail, OpUses,
           OpReturns, ReturnFrom, At
      <4>2. cmd_device[t] \in Device
        BY <1>0, <4>1 DEF CommandsStarted
      <4> QED BY <4>2
    <3> QED BY <3>1, <3>2
  <2> QED BY <1>0, <1>7, <2>1, CommandStepKeeps, AllocUnchanged DEF DMInv
<1>8. ASSUME NEW t \in Thread, NEW d \in Device, execute(t, d) \/ OpGet(t, d)
      PROVE  DMInv'
  BY <1>0, <1>8, CommandStepKeeps, AllocUnchanged DEF DMInv
<1>9. CASE UNCHANGED dmVars \/ \E t \in Thread : SocketOf(t)
  <2>1. UNCHANGED <<deps, allocVars, stack, is_started, pc, cmd_device, wanted>>
    BY <1>9 DEF SocketOf, dmVars, allocVars, cmdVars, stores
  <2>2. AllocInv'
    BY <1>0, <2>1, AllocUnchanged
  <2> QED BY <1>0, <2>1, <2>2 DEF DMInv, CommandTypes, CommandsStarted, Target
<1> QED BY <1>1, <1>2, <1>3, <1>4, <1>5, <1>6, <1>7, <1>8, <1>9 DEF DMNext, ThreadStep, Ended

LEMMA InitInv == DMInit => DMInv
<1> SUFFICES ASSUME DMInit PROVE DMInv
  OBVIOUS
<1>1. DMTypes
  <2>1. deps \in [Device -> Seq(Device)]
    BY DepGraphsAssumption DEF DMInit
  <2>2. stack \in [Thread -> Seq(FrameType)]
    BY DEF DMInit
  <2>3. built \in [Device -> Nat]
    BY DEF DMInit
  <2> QED BY <2>1, <2>2, <2>3 DEF DMInit, DMTypes
<1>2. \A t \in Thread : stack[t] = << >> /\ Frames(t) = {}
  BY DEF DMInit, Frames
<1>3. /\ OneStack /\ FramesStarting /\ StartingFramed /\ FramesDistinct /\ FramesChained
      /\ FrameStores /\ GotInOrder
  BY <1>2 DEF DMInit, OneStack, FramesStarting, StartingFramed, FramesDistinct, FramesChained,
              FrameStores, GotInOrder
<1>4. BuiltOnce /\ BuiltInOrder /\ StoresVisible /\ CycleFound
  BY DEF DMInit, BuiltOnce, BuiltInOrder, StoresVisible, CycleFound
<1>5. CommandTypes /\ CommandsStarted
  BY <1>2 DEF DMInit, CommandTypes, CommandPc, CommandsStarted
<1> QED BY <1>1, <1>3, <1>4, <1>5 DEF DMInv, AllocInv
-----------------------------------------------------------------------------
\* DeviceManager::alloc_device and execute keep the invariant: one thread in
\* alloc_device, its frames a chain of distinct dependencies, and every thread
\* past its test of is_started with a started device.
THEOREM DMInvariance == DMSpec => []DMInv
<1>1. DMInv /\ [DMNext]_dmVars => DMInv'
  BY NextKeepsInv
<1> QED BY <1>1, InitInv, PTL DEF DMSpec

\* alloc_device: no driver is constructed twice, by one thread or by two, and
\* unless a circular dependency has been found every driver is given
\* constructed ones only.
THEOREM DMConstructedOnceInOrder == DMSpec => []ConstructedOnceInOrder
<1>1. DMInv => ConstructedOnceInOrder
  BY DEF DMInv, AllocInv, BuiltOnce, BuiltInOrder, ConstructedOnceInOrder
<1> QED BY <1>1, DMInvariance, PTL

\* DevicesContainer::alloc: is_starting finds every dependency cycle that is
\* entered, on any graph, and takes nothing else for one.
THEOREM DMCircularExact == DMSpec => []CircularExact
<1>1. DMInv => CircularExact
  <2> SUFFICES ASSUME DMInv PROVE CircularExact
    OBVIOUS
  <2>1. CycleFound /\ null_refs \in SUBSET Device
    BY DEF DMInv, AllocInv, DMTypes
  <2>2. ASSUME exit_all
        PROVE  \E d \in Device : OnCycle(d) /\ d \in is_starting \cup is_started \cup null_refs
    <3>1. PICK d \in null_refs : OnCycle(d)
      BY <2>1, <2>2 DEF CycleFound
    <3> QED BY <2>1, <3>1
  <2>3. \A d \in Device : OnCycle(d) /\ built[d] > 0 => exit_all
    BY <2>1 DEF CycleFound
  <2> QED BY <2>2, <2>3 DEF CircularExact
<1> QED BY <1>1, DMInvariance, PTL

\* execute and get, which test is_started without the mutex: a null device is
\* met only while another thread is between the stores of alloc_device of
\* that very device.
THEOREM DMNullOnlyDuringStores == DMSpec => NullOnlyDuringStores
<1> DEFINE A == proc' = "null_device" /\ proc = "up"
                  => \E t, u \in Thread :
                       /\ pc[u] \in {"execute_dev", "use"} /\ stack[t] # << >>
                       /\ Top(t).dev = Target(u) /\ Top(t).todo = << >> /\ Top(t).unseen # {}
<1>1. DMInv /\ [DMNext]_dmVars => [A]_dmVars
  <2> SUFFICES ASSUME DMInv, DMNext, proc' = "null_device", proc = "up"
               PROVE  \E t, u \in Thread :
                        /\ pc[u] \in {"execute_dev", "use"} /\ stack[t] # << >>
                        /\ Top(t).dev = Target(u) /\ Top(t).todo = << >> /\ Top(t).unseen # {}
    OBVIOUS
  <2>1. PICK t \in Thread : execute_dev_null(t) \/ (OpUses(t) /\ wanted[t] \notin devtup)
    BY DEF DMNext, ThreadStep, Ended, CtorGets, CtorReturns, StoreSeen, AllocReturns,
           ReturnLeaving, CtorUsesNull, OpUsesNull, execute, start, execute_dev, ReadArgs,
           ArgsFail, SocketOf, OpGet, OpStart, OpUses, OpReturns, ReturnFrom, dmVars
  <2>2. /\ stack[t] = << >> /\ pc[t] \in {"execute_dev", "use"}
        /\ Target(t) \notin device_list \/ Target(t) \notin devtup
    BY <2>1 DEF execute_dev_null, OpUses, At, Target
  <2>3. Target(t) \in is_started
    BY <2>2 DEF DMInv, CommandsStarted
  <2>4. Storing(Target(t))
    BY <2>2, <2>3 DEF DMInv, AllocInv, StoresVisible
  <2> QED BY <2>2, <2>4 DEF Storing
<1>2. DMSpec => [][A]_dmVars
  BY <1>1, DMInvariance, PTL DEF DMSpec
<1> QED BY <1>2 DEF NullOnlyDuringStores
===============================================================================
