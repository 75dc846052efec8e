---------------------------- MODULE PubSubProofs ----------------------------
(***************************************************************************)
(* Proofs about PubSub, for any number of sessions.  PSInv is inductive:   *)
(* which thread holds each mutex, whose text fmt_buffer has and, as long   *)
(* as no subscription has overlapped an unsubscription, that the list is   *)
(* exact, what the thread that changes it has found out, and what an emit  *)
(* that no deletion or growth has overlapped has sent.                     *)
(***************************************************************************)
EXTENDS PubSub, SequenceTheorems, FunctionTheorems, FiniteSetTheorems, TLAPS

Pc == {"idle", "lock_subscribe", "read_channel", "find", "push_back", "grow", "store_push",
       "lock_delete", "unsubscribe", "swap", "pop", "store_pop", "warn", "erase",
       "lock_ping", "unlock_execute", "emit", "send"}

\* To whom, and whose text.
Delivery == Session \X (Session \cup {None})

Locals == [ret : {"idle", "unlock_execute", "erase"}, b : Nat, e : Nat, i : Nat \ {0},
           loaded : Session \cup Nat \cup {None},
           raced : SUBSET {"deletion", "growth", "text"},
           before : SUBSET Session,
           got : Seq(Delivery)]

\* The types of the variables, and of what a thread has loaded.
PSType ==
  /\ grown \in Nat /\ cells \in Seq(Session \cup {Garbage}) /\ finish \in Nat
  /\ fmt_buffer \in Session \cup {None}
  /\ session_pool \subseteq Session
  /\ ks_mutex \in Session \cup {None} /\ mutex \in Session \cup {None}
  /\ s_interrupted \in BOOLEAN /\ stalled \subseteq Slow
  /\ pc \in [Session -> Pc] /\ l \in [Session -> Locals]
  /\ crashed \in Session \cup {None}
  /\ ops \in Nat
  /\ subscribed \subseteq Session /\ clash \in BOOLEAN

LoadedType ==
  \A t \in Session :
    /\ pc[t] \in {"store_push", "grow", "store_pop"} => l[t].loaded \in Nat
    /\ pc[t] = "send" => l[t].loaded \in Session

\* Thread t runs a command under ks_mutex.
InCommand(t) ==
  \/ Subscribing(t) \/ pc[t] \in {"read_channel", "unlock_execute"}
  \/ (Emitting(t) /\ l[t].ret = "unlock_execute")

\* Each mutex is held by the thread that is in its critical section.
Locked ==
  \A t \in Session : /\ (ks_mutex = t <=> InCommand(t))
                     /\ (mutex = t <=> Deleting(t))

\* The sessions that act exist, and so do those that have subscribed.
Exist ==
  /\ \A t \in Session : pc[t] # "idle" => t \in session_pool
  /\ subscribed \subseteq session_pool

\* No subscription overlaps an unsubscription.
Apart == \A t, u \in Session : ~(Subscribing(t) /\ Deleting(u))

\* Session t is off the list, and not erased yet.
Gone(t) == pc[t] \in {"warn", "erase"} \/ (Emitting(t) /\ l[t].ret = "erase")

InCells(s, k) == \E n \in 1 .. k : cells[n] = s

\* The cells in use hold each subscribed session once.
Listed ==
  /\ finish <= Len(cells)
  /\ \A m, n \in 1 .. finish : cells[m] = cells[n] => m = n
  /\ \A n \in 1 .. finish : cells[n] \in subscribed
  /\ \A s \in subscribed : InCells(s, finish) <=> ~Gone(s)

\* What the thread that changes the list has found out or done.
Searches(t) ==
  /\ l[t].b = grown /\ l[t].e = finish
  /\ \A n \in 1 .. finish : n < l[t].i => cells[n] # t
Stage(t) ==
  /\ pc[t] \in {"find", "unsubscribe"} => Searches(t)
  /\ pc[t] = "push_back" => ~InCells(t, finish)
  /\ pc[t] \in {"store_push", "grow"} =>
       /\ l[t].loaded = finish /\ finish < Len(cells) /\ cells[finish + 1] = t
       /\ ~InCells(t, finish)
  /\ pc[t] = "swap" => l[t].b = grown /\ l[t].i <= finish /\ cells[l[t].i] = t
  /\ pc[t] \in {"pop", "store_pop"} => finish # 0 /\ cells[finish] = t
  /\ pc[t] = "store_pop" => l[t].loaded = finish

\* Nothing has disturbed the loop of an emit.
Undisturbed(t) ==
  /\ \A u \in Session : (u # t => ~Deleting(u)) /\ pc[u] # "grow"
  /\ l[t].b = grown /\ l[t].e <= finish /\ l[t].i <= l[t].e + 1
  /\ l[t].before \subseteq session_pool
  /\ \A n \in 1 .. l[t].e : cells[n] \in l[t].before
  /\ \A s \in l[t].before : InCells(s, l[t].e)
  /\ Len(l[t].got) = l[t].i - 1
  /\ \A n \in 1 .. (l[t].i - 1) : l[t].got[n][1] = cells[n]
  /\ pc[t] = "send" => l[t].i <= l[t].e /\ l[t].loaded = cells[l[t].i]

Unraced(t) == Emitting(t) /\ "deletion" \notin l[t].raced /\ "growth" \notin l[t].raced

\* As long as no other thread formats, fmt_buffer holds the text of the emit.
OwnText ==
  \A t \in Session : Emitting(t) /\ "text" \notin l[t].raced =>
    /\ fmt_buffer = t
    /\ \A n \in DOMAIN l[t].got : l[t].got[n][2] = t

Intact ==
  /\ Apart
  /\ Listed
  /\ \A t \in Session : Stage(t)
  /\ \A t \in Session : Unraced(t) => Undisturbed(t)

\* The inductive invariant.
PSInv ==
  /\ PSType /\ LoadedType /\ Locked /\ Exist /\ OwnText
  /\ ~clash => Intact
  /\ CrashOnlyOnOverlap

-----------------------------------------------------------------------------
(* The locals.  A step sets those of its thread, and of the others at most  *)
(* what their emit has overlapped.                                          *)

\* Thread u has not moved, and its emit may have been overlapped.
Same(u) ==
  /\ pc'[u] = pc[u]
  /\ l'[u].ret = l[u].ret /\ l'[u].b = l[u].b /\ l'[u].e = l[u].e /\ l'[u].i = l[u].i
  /\ l'[u].loaded = l[u].loaded /\ l'[u].before = l[u].before /\ l'[u].got = l[u].got
  /\ l[u].raced \subseteq l'[u].raced

LocalStep(t) ==
  /\ l' \in [Session -> Locals]
  /\ \A u \in Session : u # t /\ pc'[u] = pc[u] => Same(u)

\* A thread's locals when it does nothing are well typed.
LEMMA FreshType == Fresh \in Locals
  BY EmptySeq DEF Fresh, Locals

\* What a loop reads is a session's id or no id.
LEMMA ReadsType ==
  ASSUME PSType
  PROVE  \A m, n : Reads(m, n) \subseteq Session \cup {Garbage}
<1> SUFFICES ASSUME NEW m, NEW n, NEW v \in Reads(m, n) PROVE v \in Session \cup {Garbage}
  OBVIOUS
<1>1. CASE m = grown /\ n \in DOMAIN cells /\ ~Growing
  BY <1>1, ElementOfSeq DEF PSType, Reads
<1>2. CASE ~(m = grown /\ n \in DOMAIN cells /\ ~Growing)
  BY <1>2 DEF Reads
<1> QED
  BY <1>1, <1>2

\* The locals of one thread are set.
LEMMA LocalSet ==
  ASSUME PSType, NEW t \in Session
  PROVE  \A r \in Locals : l' = [l EXCEPT ![t] = r] => LocalStep(t)
<1> SUFFICES ASSUME NEW r \in Locals, l' = [l EXCEPT ![t] = r] PROVE LocalStep(t)
  OBVIOUS
<1>1. l' \in [Session -> Locals] /\ \A u \in Session : u # t => l'[u] = l[u]
  BY DEF PSType
<1> QED
  BY <1>1 DEF LocalStep, Same

\* The locals of one thread are set, and the emits of the others overlapped.
LEMMA LocalOverlap ==
  ASSUME PSType, NEW t \in Session
  PROVE  \A r \in Locals, what \in {"deletion", "growth", "text"} :
           l' = [Overlaps(t, what) EXCEPT ![t] = r] => LocalStep(t)
<1> SUFFICES ASSUME NEW r \in Locals, NEW what \in {"deletion", "growth", "text"},
                    l' = [Overlaps(t, what) EXCEPT ![t] = r]
             PROVE  LocalStep(t)
  OBVIOUS
<1>1. ASSUME NEW u \in Session
      PROVE  [l[u] EXCEPT !.raced = @ \cup {what}] \in Locals
  BY DEF PSType, Locals
<1>2. Overlaps(t, what) \in [Session -> Locals]
  BY <1>1 DEF Overlaps, PSType
<1>3. l' \in [Session -> Locals] /\ \A u \in Session : u # t => l'[u] = Overlaps(t, what)[u]
  BY <1>2
<1>4. ASSUME NEW u \in Session, u # t, pc'[u] = pc[u] PROVE Same(u)
  <2>1. l'[u] = IF Emitting(u) THEN [l[u] EXCEPT !.raced = @ \cup {what}] ELSE l[u]
    BY <1>3, <1>4 DEF Overlaps
  <2>2. l[u] \in Locals
    BY DEF PSType
  <2> DEFINE y == [l[u] EXCEPT !.raced = @ \cup {what}]
  <2>3. l'[u] = l[u] \/ l'[u] = y
    BY <2>1
  <2>4. /\ y.ret = l[u].ret /\ y.b = l[u].b /\ y.e = l[u].e /\ y.i = l[u].i
        /\ y.loaded = l[u].loaded /\ y.before = l[u].before /\ y.got = l[u].got
        /\ l[u].raced \subseteq y.raced
    BY <2>2 DEF Locals
  <2> HIDE DEF y
  <2> QED
    BY <1>4, <2>3, <2>4, Zenon DEF Same
<1> QED
  BY <1>3, <1>4 DEF LocalStep

\* The locals of one thread once one of their fields has changed.
LEMMA FieldType ==
  ASSUME NEW r \in Locals
  PROVE  /\ [r EXCEPT !.i = @ + 1] \in Locals
         /\ \A v \in Session \cup Nat \cup {None} : [r EXCEPT !.loaded = v] \in Locals
         /\ \A b, e \in Nat : [Fresh EXCEPT !.b = b, !.e = e] \in Locals
         /\ \A p \in Delivery :
              [r EXCEPT !.got = Append(@, p), !.i = @ + 1] \in Locals
<1>1. ASSUME NEW q \in Locals PROVE [q EXCEPT !.i = @ + 1] \in Locals
  <2>1. q.i + 1 \in Nat \ {0}
    BY DEF Locals
  <2>2. \A k \in Nat \ {0} : [q EXCEPT !.i = k] \in Locals
    BY DEF Locals
  <2> QED
    BY <2>1, <2>2
<1>2. \A v \in Session \cup Nat \cup {None} : [r EXCEPT !.loaded = v] \in Locals
  BY DEF Locals
<1>3. \A b, e \in Nat : [Fresh EXCEPT !.b = b, !.e = e] \in Locals
  BY FreshType DEF Locals
<1>4. ASSUME NEW p \in Delivery
      PROVE  [r EXCEPT !.got = Append(@, p), !.i = @ + 1] \in Locals
  <2>1. Append(r.got, p) \in Seq(Delivery)
    BY AppendProperties DEF Locals
  <2>2. \A g \in Seq(Delivery) : [r EXCEPT !.got = g] \in Locals
    BY DEF Locals
  <2>4. [r EXCEPT !.got = Append(@, p), !.i = @ + 1]
          = [[r EXCEPT !.got = Append(r.got, p)] EXCEPT !.i = @ + 1]
    BY DEF Locals
  <2> QED
    BY <2>1, <2>2, <1>1, <2>4
<1> QED
  BY <1>1, <1>2, <1>3, <1>4

-----------------------------------------------------------------------------
(* Types. *)

\* A step of thread t.
StepOf(t) == Thread(t) \/ Begins(t) \/ print(t) \/ create_session(t)

\* Only thread t moves.
PcStep(t) ==
  /\ pc' \in [Session -> Pc]
  /\ \A u \in Session : u # t => pc'[u] = pc[u]

\* A thread goes to one of its places, and no other does.
LEMMA GotoStep ==
  ASSUME PSType, NEW t \in Session
  PROVE  \A to \in Pc : Goto(t, to) => PcStep(t)
  BY DEF PSType, Goto, PcStep

\* Every step of thread t moves that thread alone.
LEMMA PcOfStep ==
  ASSUME PSType, NEW t \in Session, StepOf(t)
  PROVE  PcStep(t)
<1>1. UNCHANGED pc => PcStep(t)
  BY DEF PSType, PcStep
<1>3. CASE read_channel(t)
  BY <1>3, <1>1, GotoStep DEF read_channel, Pc
<1>ls. CASE lock_subscribe(t)
  BY <1>ls, <1>1, GotoStep DEF lock_subscribe, Pc
<1>rf. CASE read_channel_fails(t)
  BY <1>rf, <1>1, GotoStep DEF read_channel_fails, EmitThen, Pc
<1>4. CASE find(t)
  BY <1>4, <1>1, GotoStep DEF find, FindsOrPushes, Returns, Pc
<1>5. CASE push_back(t)
  BY <1>5, <1>1, GotoStep DEF push_back, Pc
<1>6. CASE push_back_grows(t)
  BY <1>6, <1>1, GotoStep DEF push_back_grows, Pc
<1>7. CASE store_push(t)
  BY <1>7, <1>1, GotoStep DEF store_push, Returns, Pc
<1>8. CASE lock_delete(t)
  BY <1>8, <1>1, GotoStep DEF lock_delete, Pc
<1>9. CASE unsubscribe(t)
  BY <1>9, <1>1, GotoStep DEF unsubscribe, Pc
<1>10. CASE swap(t)
  BY <1>10, <1>1, GotoStep DEF swap, SwapsCells, Crashes, Pc
<1>11. CASE pop(t)
  BY <1>11, <1>1, GotoStep DEF pop, Pc
<1>12. CASE store_pop(t)
  BY <1>12, <1>1, GotoStep DEF store_pop, Crashes, Pc
<1>13. CASE erase(t)
  BY <1>13, <1>1, GotoStep DEF erase, Returns, Pc
<1>14. CASE lock_ping(t)
  BY <1>14, <1>1, GotoStep DEF lock_ping, EmitThen, Pc
<1>15. CASE unlock_execute(t)
  BY <1>15, <1>1, GotoStep DEF unlock_execute, UnlocksExecute, Returns, Pc
<1>16. CASE warn(t)
  BY <1>16, <1>1, GotoStep DEF warn, EmitThen, Pc
<1>17. CASE emit(t)
  BY <1>17, <1>1, GotoStep DEF emit, Crashes, Pc
<1>18. CASE emit_returns(t)
  BY <1>18, <1>1, GotoStep DEF emit_returns, Locals, PSType, Pc
<1>19. CASE send(t)
  BY <1>19, <1>1, GotoStep DEF send, Crashes, Pc
<1>20. CASE Begins(t)
  BY <1>20, <1>1, GotoStep DEF Begins, Pc
<1>21. CASE print(t)
  BY <1>21, <1>1, GotoStep DEF print, EmitThen, Pc
<1>22. CASE create_session(t)
  BY <1>22, <1>1, GotoStep DEF create_session, Pc
<1> QED
  BY <1>ls, <1>rf, <1>3, <1>4, <1>5, <1>6, <1>7, <1>8, <1>9, <1>10, <1>11, <1>12, <1>13, <1>14, <1>15, <1>16,
     <1>17, <1>18, <1>19, <1>20, <1>21, <1>22 DEF StepOf, Thread

\* An end that is loaded is a number.
LEMMA EndsType == ASSUME PSType PROVE Ends \subseteq Nat
  BY DEF PSType, Ends

\* The fields of the locals r of an emit that begins.
BegunFields(t, next, end, r) ==
  /\ r \in Locals
  /\ r.ret = next /\ r.b = grown /\ r.e = end /\ r.i = 1 /\ r.loaded = None
  /\ r.before = Receivers(t, next) /\ r.raced = Underway(t) /\ r.got = << >>

LEMMA BegunIs ==
  ASSUME PSType, NEW t \in Session, NEW next \in {"idle", "unlock_execute", "erase"}
  PROVE  \A end \in Nat : BegunFields(t, next, end, Begun(t, next, end))
<1> SUFFICES ASSUME NEW end \in Nat PROVE BegunFields(t, next, end, Begun(t, next, end))
  OBVIOUS
<1>1. /\ Underway(t) \in SUBSET {"deletion", "growth", "text"}
      /\ Receivers(t, next) \in SUBSET Session
      /\ grown \in Nat
  BY DEF PSType, Underway, Receivers
<1>2. << >> \in Seq(Delivery)
  BY EmptySeq
<1>3. Begun(t, next, end) \in Locals
  BY <1>1, <1>2 DEF Locals, Begun
<1> QED
  BY <1>3 DEF BegunFields, Begun

\* What EmitThen does to the locals.
LEMMA EmitLocals ==
  ASSUME PSType, NEW t \in Session, NEW next \in {"idle", "unlock_execute", "erase"},
         EmitThen(t, next), ~s_interrupted
  PROVE  /\ LocalStep(t)
         /\ \E end \in Ends : BegunFields(t, next, end, l'[t])
         /\ \A u \in Session : u # t /\ Emitting(u) => "text" \in l'[u].raced
<1>1. PICK end \in Ends : l' = [Overlaps(t, "text") EXCEPT ![t] = Begun(t, next, end)]
  BY DEF EmitThen
<1>2. end \in Nat
  BY <1>1, EndsType
<1>3. BegunFields(t, next, end, Begun(t, next, end))
  BY <1>2, BegunIs
<1>4. LocalStep(t)
  BY <1>1, <1>3, LocalOverlap DEF BegunFields
<1>5. l'[t] = Begun(t, next, end)
  BY <1>1 DEF Overlaps
<1>6. ASSUME NEW u \in Session, u # t, Emitting(u) PROVE "text" \in l'[u].raced
  <2>1. l'[u] = [l[u] EXCEPT !.raced = @ \cup {"text"}]
    BY <1>1, <1>6 DEF Overlaps
  <2>2. l[u] \in Locals
    BY DEF PSType
  <2> QED
    BY <2>1, <2>2 DEF Locals
<1> QED
  BY <1>3, <1>4, <1>5, <1>6

\* Every step of thread t sets the locals of that thread alone, but for what
\* the emits of others have overlapped.
LEMMA LocalOfStep ==
  ASSUME PSType, LoadedType, NEW t \in Session, StepOf(t)
  PROVE  LocalStep(t)
<1>a. l \in [Session -> Locals] /\ l[t] \in Locals /\ grown \in Nat /\ finish \in Nat
  BY DEF PSType
<1>b. UNCHANGED l => LocalStep(t)
  BY <1>a DEF LocalStep, Same
<1>c. l' = [l EXCEPT ![t] = Fresh] => LocalStep(t)
  BY LocalSet, FreshType
<1>d. Moves(t) => LocalStep(t)
  <2>1. Moves(t) => l' = [l EXCEPT ![t] = [l[t] EXCEPT !.i = @ + 1]]
    BY <1>a DEF Moves
  <2> QED
    BY <1>a, <2>1, LocalSet, FieldType
<1>e. \A v \in Session \cup Nat : Loads(t, v) => LocalStep(t)
  <2> SUFFICES ASSUME NEW v \in Session \cup Nat, Loads(t, v) PROVE LocalStep(t)
    OBVIOUS
  <2>1. l' = [l EXCEPT ![t] = [l[t] EXCEPT !.loaded = v]]
    BY <1>a DEF Loads
  <2> QED
    BY <1>a, <2>1, LocalSet, FieldType
<1>f. \A e \in Nat : [Fresh EXCEPT !.b = grown, !.e = e] \in Locals
  BY <1>a, FieldType
<1>g. \A next \in {"idle", "unlock_execute", "erase"} : EmitThen(t, next) => LocalStep(t)
  <2> SUFFICES ASSUME NEW next \in {"idle", "unlock_execute", "erase"}, EmitThen(t, next)
               PROVE  LocalStep(t)
    OBVIOUS
  <2>1. CASE s_interrupted
    BY <2>1, <1>b DEF EmitThen
  <2>2. CASE ~s_interrupted
    BY <2>2, EmitLocals
  <2> QED
    BY <2>1, <2>2
<1>1. CASE read_channel(t)
  BY <1>1, <1>a, <1>f, LocalSet DEF read_channel
<1>ls. CASE lock_subscribe(t)
  BY <1>ls, <1>b DEF lock_subscribe
<1>rf. CASE read_channel_fails(t)
  BY <1>rf, <1>g DEF read_channel_fails
<1>2. CASE find(t)
  BY <1>2, <1>b, <1>c, <1>d DEF find, FindsOrPushes, Returns
<1>3. CASE push_back(t)
  BY <1>3, <1>a, <1>e DEF push_back
<1>4. CASE push_back_grows(t)
  <2>1. l' = [Overlaps(t, "growth") EXCEPT ![t] = [l[t] EXCEPT !.loaded = finish]]
    BY <1>4, <1>a DEF push_back_grows, Overlaps
  <2> QED
    BY <1>a, <2>1, FieldType, LocalOverlap
<1>5. CASE store_push(t)
  BY <1>5, <1>c DEF store_push, Returns
<1>6. CASE lock_delete(t)
  <2>1. PICK end \in Ends :
          l' = [Overlaps(t, "deletion") EXCEPT ![t] = [Fresh EXCEPT !.b = grown, !.e = end]]
    BY <1>6 DEF lock_delete
  <2>2. [Fresh EXCEPT !.b = grown, !.e = end] \in Locals
    BY <1>f, EndsType
  <2> QED
    BY <2>1, <2>2, LocalOverlap
<1>7. CASE unsubscribe(t)
  BY <1>7, <1>b, <1>d DEF unsubscribe
<1>8. CASE swap(t)
  BY <1>8, <1>b DEF swap, SwapsCells
<1>9. CASE pop(t)
  BY <1>9, <1>a, <1>e DEF pop
<1>10. CASE store_pop(t)
  BY <1>10, <1>b DEF store_pop
<1>11. CASE erase(t)
  BY <1>11, <1>c DEF erase, Returns
<1>12. CASE lock_ping(t)
  BY <1>12, <1>g DEF lock_ping
<1>13. CASE unlock_execute(t)
  BY <1>13, <1>c DEF unlock_execute, UnlocksExecute, Returns
<1>14. CASE warn(t)
  BY <1>14, <1>b, <1>g DEF warn
<1>15. CASE emit(t)
  BY <1>15, <1>b, <1>e DEF emit, PSType
<1>16. CASE emit_returns(t)
  BY <1>16, <1>c DEF emit_returns
<1>17. CASE send(t)
  <2>1. CASE UNCHANGED l
    BY <2>1, <1>b
  <2>2. CASE l' = [l EXCEPT ![t].got = Append(@, <<l[t].loaded, fmt_buffer>>), ![t].i = @ + 1]
    <3>1. <<l[t].loaded, fmt_buffer>> \in Delivery
      BY <1>17 DEF send, At, LoadedType, PSType, Delivery
    <3>2. l' = [l EXCEPT ![t] = [l[t] EXCEPT !.got = Append(@, <<l[t].loaded, fmt_buffer>>),
                                             !.i = @ + 1]]
      BY <2>2, <1>a
    <3> QED
      BY <1>a, <3>1, <3>2, FieldType, LocalSet
  <2> QED
    BY <1>17, <2>1, <2>2 DEF send
<1>18. CASE Begins(t)
  BY <1>18, <1>b DEF Begins
<1>19. CASE print(t)
  BY <1>19, <1>g DEF print
<1>20. CASE create_session(t)
  BY <1>20, <1>b DEF create_session
<1> QED
  BY <1>ls, <1>rf, <1>1, <1>2, <1>3, <1>4, <1>5, <1>6, <1>7, <1>8, <1>9, <1>10, <1>11, <1>12, <1>13,
     <1>14, <1>15, <1>16, <1>17, <1>18, <1>19, <1>20 DEF StepOf, Thread

\* The steps that leave the vector alone.
Reader(t) ==
  \/ lock_subscribe(t) \/ read_channel(t) \/ read_channel_fails(t) \/ find(t)
  \/ lock_delete(t) \/ unsubscribe(t) \/ pop(t) \/ erase(t)
  \/ lock_ping(t) \/ unlock_execute(t) \/ warn(t) \/ emit(t) \/ emit_returns(t) \/ send(t)
  \/ Begins(t) \/ print(t) \/ create_session(t)

LEMMA ReaderKeeps == ASSUME NEW t \in Session, Reader(t) PROVE UNCHANGED vector
  BY DEF Reader, lock_subscribe, read_channel, read_channel_fails, find, lock_delete, unsubscribe,
     pop, erase, lock_ping,
     unlock_execute, warn, emit, emit_returns, send, Begins, print, create_session, FindsOrPushes,
     UnlocksExecute, vector

LEMMA StepCases ==
  ASSUME NEW t \in Session, StepOf(t)
  PROVE  Reader(t) \/ push_back(t) \/ push_back_grows(t) \/ store_push(t) \/ swap(t) \/ store_pop(t)
  BY DEF StepOf, Thread, Reader

\* A cell more, in the buffer or in a larger one.
LEMMA CellsPush ==
  ASSUME PSType, NEW t \in Session, push_back(t)
  PROVE  /\ cells' \in Seq(Session \cup {Garbage}) /\ Len(cells') = Len(cells)
         /\ finish < Len(cells) /\ cells'[finish + 1] = t
         /\ \A n \in 1 .. finish : cells'[n] = cells[n]
         /\ UNCHANGED <<grown, finish>>
<1>1. finish \in Nat /\ finish < Len(cells) /\ cells \in Seq(Session \cup {Garbage})
  BY DEF PSType, push_back, Capacity
<1>2. finish + 1 \in 1 .. Len(cells)
  BY <1>1, LenProperties
<1>3. cells' = [cells EXCEPT ![finish + 1] = t] /\ UNCHANGED <<grown, finish>>
  BY DEF push_back
<1>4. DOMAIN cells = 1 .. Len(cells) /\ Len(cells) \in Nat
  BY <1>1, LenProperties
<1>5. cells' \in Seq(Session \cup {Garbage}) /\ Len(cells') = Len(cells)
  BY <1>1, <1>2, <1>3, ExceptSeq
<1> QED
  BY <1>1, <1>2, <1>3, <1>4, <1>5

LEMMA CellsGrow ==
  ASSUME PSType, NEW t \in Session, push_back_grows(t)
  PROVE  /\ cells' \in Seq(Session \cup {Garbage}) /\ finish < Len(cells')
         /\ cells'[finish + 1] = t
         /\ \A n \in 1 .. finish : cells'[n] = cells[n]
         /\ UNCHANGED finish /\ grown' = grown + 1
<1>1. finish \in Nat /\ finish = Len(cells) /\ cells \in Seq(Session \cup {Garbage})
  BY DEF PSType, push_back_grows, Capacity
<1>2. Enlarged \in Nat /\ finish < Enlarged
  BY <1>1 DEF Enlarged, Capacity
<1>3. cells' = [n \in 1 .. Enlarged |->
                  IF n <= finish THEN cells[n] ELSE IF n = finish + 1 THEN t ELSE Garbage]
  BY DEF push_back_grows
<1>4. \A n \in 1 .. finish : cells[n] \in Session \cup {Garbage}
  BY <1>1, ElementOfSeq
<1>5. /\ cells' \in [1 .. Enlarged -> Session \cup {Garbage}]
      /\ \A n \in 1 .. finish : cells'[n] = cells[n]
      /\ cells'[finish + 1] = t
  BY <1>1, <1>2, <1>3, <1>4
<1>6. cells' \in Seq(Session \cup {Garbage}) /\ Len(cells') = Enlarged
  BY <1>2, <1>5, SeqDef, LenProperties
<1> QED
  BY <1>2, <1>5, <1>6 DEF push_back_grows

\* Two cells are written.
LEMMA CellsSwap ==
  ASSUME PSType, NEW t \in Session, swap(t)
  PROVE  /\ cells' \in Seq(Session \cup {Garbage}) /\ Len(cells') = Len(cells)
         /\ UNCHANGED <<grown, finish>>
<1>1. cells \in Seq(Session \cup {Garbage}) /\ Len(cells) \in Nat /\ DOMAIN cells = 1 .. Len(cells)
  BY LenProperties DEF PSType
<1>2. CASE UNCHANGED cells
  BY <1>1, <1>2 DEF swap, SwapsCells
<1>3. CASE ~UNCHANGED cells
  <2>1. PICK v \in Reads(l[t].b, l[t].i), w \in Reads(grown, finish) :
          cells' = [n \in DOMAIN cells |->
                      IF n = finish THEN v
                      ELSE IF l[t].b = grown /\ n = l[t].i THEN w ELSE cells[n]]
    BY <1>3 DEF swap, SwapsCells
  <2>2. v \in Session \cup {Garbage} /\ w \in Session \cup {Garbage}
    BY <2>1, ReadsType
  <2>3. \A n \in 1 .. Len(cells) : cells[n] \in Session \cup {Garbage}
    BY <1>1, ElementOfSeq
  <2>4. cells' \in [1 .. Len(cells) -> Session \cup {Garbage}]
    BY <1>1, <2>1, <2>2, <2>3
  <2> QED
    BY <1>1, <2>4, SeqDef, LenProperties DEF swap, SwapsCells
<1> QED
  BY <1>2, <1>3

\* The variables keep their types.
LEMMA TypeOfStep ==
  ASSUME PSType, LoadedType, NEW t \in Session, StepOf(t)
  PROVE  PSType'
<1>1. pc' \in [Session -> Pc] /\ l' \in [Session -> Locals]
  BY PcOfStep, LocalOfStep DEF PcStep, LocalStep
<1>2. grown' \in Nat /\ cells' \in Seq(Session \cup {Garbage}) /\ finish' \in Nat
  <2>1. CASE Reader(t)
    BY <2>1, ReaderKeeps DEF vector, PSType
  <2>2. CASE push_back(t)
    BY <2>2, CellsPush DEF PSType
  <2>3. CASE push_back_grows(t)
    BY <2>3, CellsGrow DEF PSType
  <2>4. CASE store_push(t)
    BY <2>4 DEF PSType, LoadedType, store_push, At
  <2>5. CASE swap(t)
    BY <2>5, CellsSwap DEF PSType
  <2>6. CASE store_pop(t)
    BY <2>6 DEF PSType, LoadedType, store_pop, At
  <2> QED
    BY <2>1, <2>2, <2>3, <2>4, <2>5, <2>6, StepCases
<1>3. PSType'
  <2>1. CASE read_channel(t)
    BY <2>1, <1>1, <1>2 DEF read_channel, PSType, locks, env
  <2>ls. CASE lock_subscribe(t)
    BY <2>ls, <1>1, <1>2 DEF lock_subscribe, PSType, locks, env
  <2>rf. CASE read_channel_fails(t)
    BY <2>rf, <1>1, <1>2 DEF read_channel_fails, EmitThen, PSType, locks, env
  <2>2. CASE find(t)
    BY <2>2, <1>1, <1>2 DEF find, FindsOrPushes, PSType, locks, env
  <2>3. CASE push_back(t)
    BY <2>3, <1>1, <1>2 DEF push_back, PSType, locks, env
  <2>4. CASE push_back_grows(t)
    BY <2>4, <1>1, <1>2 DEF push_back_grows, PSType, locks, env
  <2>5. CASE store_push(t)
    BY <2>5, <1>1, <1>2 DEF store_push, PSType, locks, env
  <2>6. CASE lock_delete(t)
    BY <2>6, <1>1, <1>2 DEF lock_delete, PSType, locks, env
  <2>7. CASE unsubscribe(t)
    BY <2>7, <1>1, <1>2 DEF unsubscribe, PSType, locks, env
  <2>8. CASE swap(t)
    BY <2>8, <1>1, <1>2 DEF swap, SwapsCells, Crashes, PSType, locks, env
  <2>9. CASE pop(t)
    BY <2>9, <1>1, <1>2 DEF pop, PSType, locks, env
  <2>10. CASE store_pop(t)
    BY <2>10, <1>1, <1>2 DEF store_pop, Crashes, PSType, locks, env
  <2>11. CASE erase(t)
    BY <2>11, <1>1, <1>2 DEF erase, PSType, locks, env
  <2>12. CASE lock_ping(t)
    BY <2>12, <1>1, <1>2 DEF lock_ping, EmitThen, PSType, locks, env
  <2>13. CASE unlock_execute(t)
    BY <2>13, <1>1, <1>2 DEF unlock_execute, UnlocksExecute, PSType, locks, env
  <2>14. CASE warn(t)
    BY <2>14, <1>1, <1>2 DEF warn, EmitThen, PSType, locks, env
  <2>15. CASE emit(t)
    BY <2>15, <1>1, <1>2 DEF emit, Crashes, PSType, locks, env
  <2>16. CASE emit_returns(t)
    BY <2>16, <1>1, <1>2 DEF emit_returns, PSType, locks, env
  <2>17. CASE send(t)
    BY <2>17, <1>1, <1>2 DEF send, Crashes, PSType, locks, env
  <2>18. CASE Begins(t)
    BY <2>18, <1>1, <1>2 DEF Begins, PSType, locks, env
  <2>19. CASE print(t)
    BY <2>19, <1>1, <1>2 DEF print, EmitThen, PSType, locks, env
  <2>20. CASE create_session(t)
    BY <2>20, <1>1, <1>2 DEF create_session, PSType, locks, env
  <2> QED
    BY <2>ls, <2>rf, <2>1, <2>2, <2>3, <2>4, <2>5, <2>6, <2>7, <2>8, <2>9, <2>10, <2>11, <2>12, <2>13, <2>14,
       <2>15, <2>16, <2>17, <2>18, <2>19, <2>20 DEF StepOf, Thread
<1> QED
  BY <1>3

\* The threads other than t.
LEMMA Frame ==
  ASSUME PSType, LoadedType, NEW t \in Session, StepOf(t)
  PROVE  \A u \in Session : u # t => Same(u)
  BY PcOfStep, LocalOfStep DEF PcStep, LocalStep

\* Where thread t goes.
LEMMA GotoIs ==
  ASSUME PSType, NEW t \in Session
  PROVE  \A to : Goto(t, to) => pc'[t] = to
  BY DEF PSType, Goto

\* An emit that begins goes to its loop, or where it returns to.
LEMMA EmitGoes ==
  ASSUME PSType, NEW t \in Session, NEW next \in {"idle", "unlock_execute", "erase"},
         EmitThen(t, next)
  PROVE  \/ s_interrupted /\ pc'[t] = next /\ UNCHANGED <<l, fmt_buffer>>
         \/ /\ ~s_interrupted /\ pc'[t] = "emit" /\ l'[t].ret = next /\ fmt_buffer' = t
            /\ l'[t].got = << >>
<1>1. CASE s_interrupted
  BY <1>1, GotoIs DEF EmitThen
<1>2. CASE ~s_interrupted
  BY <1>2, GotoIs, EmitLocals DEF EmitThen, BegunFields
<1> QED
  BY <1>1, <1>2

\* What a thread has loaded keeps its type.
LEMMA LoadedOfStep ==
  ASSUME PSType, LoadedType, NEW t \in Session, StepOf(t)
  PROVE  LoadedType'
<1>0. l \in [Session -> Locals] /\ l[t] \in Locals /\ pc \in [Session -> Pc]
  BY DEF PSType
<1>a. ASSUME NEW u \in Session, u # t
      PROVE  /\ pc'[u] \in {"store_push", "grow", "store_pop"} => l'[u].loaded \in Nat
             /\ pc'[u] = "send" => l'[u].loaded \in Session
  BY <1>a, Frame DEF Same, LoadedType
<1> DEFINE Own == /\ pc'[t] \in {"store_push", "grow", "store_pop"} => l'[t].loaded \in Nat
                  /\ pc'[t] = "send" => l'[t].loaded \in Session
<1>b. Own => LoadedType'
  BY <1>a DEF LoadedType
<1>c. UNCHANGED <<pc, l>> => Own
  BY DEF LoadedType
<1>d. pc'[t] \notin {"store_push", "grow", "store_pop", "send"} => Own
  OBVIOUS
<1> HIDE DEF Own
<1>e. SUFFICES Own
  BY <1>b
<1>1. CASE read_channel(t)
  BY <1>1, GotoIs, <1>d DEF read_channel, Fresh
<1>ls. CASE lock_subscribe(t)
  BY <1>ls, GotoIs, <1>d DEF lock_subscribe
<1>rf. CASE read_channel_fails(t)
  BY <1>rf, EmitGoes, <1>d DEF read_channel_fails
<1>2. CASE find(t)
  <2>1. pc'[t] \in {"find", "push_back", "idle"}
    BY <1>2, <1>0, GotoIs DEF find, FindsOrPushes, At, Returns
  <2> QED
    BY <2>1, <1>d
<1>3. CASE push_back(t)
  <2>1. l'[t].loaded = finish /\ pc'[t] = "store_push"
    BY <1>3, <1>0, GotoIs DEF push_back, Loads, Locals
  <2> QED
    BY <2>1 DEF Own, PSType
<1>4. CASE push_back_grows(t)
  <2>1. l'[t].loaded = finish /\ pc'[t] = "grow"
    BY <1>4, <1>0, GotoIs DEF push_back_grows, Overlaps, Locals
  <2> QED
    BY <2>1 DEF Own, PSType
<1>5. CASE store_push(t)
  BY <1>5, GotoIs, <1>d DEF store_push, Returns, Fresh
<1>6. CASE lock_delete(t)
  BY <1>6, GotoIs, <1>d DEF lock_delete, Overlaps, Fresh
<1>7. CASE unsubscribe(t)
  <2>1. pc'[t] \in {"unsubscribe", "swap", "warn"}
    BY <1>7, <1>0, GotoIs DEF unsubscribe, At
  <2> QED
    BY <2>1, <1>d
<1>8. CASE swap(t)
  <2>1. pc'[t] \in {"pop", "swap"}
    BY <1>8, <1>0, GotoIs DEF swap, SwapsCells, At, Crashes
  <2> QED
    BY <2>1, <1>d
<1>9. CASE pop(t)
  <2>1. l'[t].loaded = finish /\ pc'[t] = "store_pop"
    BY <1>9, <1>0, GotoIs DEF pop, Loads, Locals
  <2> QED
    BY <2>1 DEF Own, PSType
<1>10. CASE store_pop(t)
  <2>1. CASE UNCHANGED pc
    BY <1>10, <2>1, <1>c DEF store_pop
  <2>2. CASE Goto(t, "warn")
    BY <2>2, GotoIs, <1>d
  <2> QED
    BY <1>10, <2>1, <2>2 DEF store_pop, Crashes
<1>11. CASE erase(t)
  BY <1>11, GotoIs, <1>d DEF erase, Returns, Fresh
<1>12. CASE lock_ping(t)
  BY <1>12, EmitGoes, <1>d DEF lock_ping
<1>13. CASE unlock_execute(t)
  BY <1>13, GotoIs, <1>d DEF unlock_execute, UnlocksExecute, Returns, Fresh
<1>14. CASE warn(t)
  BY <1>14, EmitGoes, GotoIs, <1>d DEF warn
<1>15. CASE emit(t)
  <2>1. CASE UNCHANGED <<pc, l>>
    BY <2>1, <1>c
  <2>2. CASE ~UNCHANGED <<pc, l>>
    <3>1. PICK v \in session_pool : Loads(t, v) /\ Goto(t, "send")
      BY <1>15, <2>2 DEF emit, Crashes
    <3>2. l'[t].loaded = v /\ pc'[t] = "send"
      BY <3>1, <1>0, GotoIs DEF Loads, Locals
    <3> QED
      BY <3>2 DEF Own, PSType
  <2> QED
    BY <2>1, <2>2
<1>16. CASE emit_returns(t)
  <2>1. pc'[t] \in {"idle", "unlock_execute", "erase"}
    BY <1>16, <1>0, GotoIs DEF emit_returns, Locals
  <2> QED
    BY <2>1, <1>d
<1>17. CASE send(t)
  <2>1. CASE UNCHANGED <<pc, l>>
    BY <2>1, <1>c
  <2>2. CASE Goto(t, "emit")
    BY <2>2, GotoIs, <1>d
  <2> QED
    BY <1>17, <2>1, <2>2 DEF send, Crashes
<1>18. CASE Begins(t)
  BY <1>18, GotoIs, <1>d DEF Begins
<1>19. CASE print(t)
  BY <1>19, EmitGoes, <1>d DEF print
<1>20. CASE create_session(t)
  BY <1>20, <1>c DEF create_session
<1> QED
  BY <1>ls, <1>rf, <1>1, <1>2, <1>3, <1>4, <1>5, <1>6, <1>7, <1>8, <1>9, <1>10, <1>11, <1>12, <1>13, <1>14,
     <1>15, <1>16, <1>17, <1>18, <1>19, <1>20 DEF StepOf, Thread

\* Where thread t is before and after each of its steps.
LEMMA Places ==
  ASSUME PSType, NEW t \in Session
  PROVE  /\ lock_subscribe(t) => pc[t] = "lock_subscribe" /\ pc'[t] = "read_channel"
         /\ read_channel(t) => pc[t] = "read_channel" /\ pc'[t] = "find"
         /\ read_channel_fails(t) => pc[t] = "read_channel" /\ pc'[t] \in {"unlock_execute", "emit"}
         /\ find(t) => pc[t] = "find" /\ pc'[t] \in {"find", "push_back", "idle"}
         /\ push_back(t) => pc[t] = "push_back" /\ pc'[t] = "store_push"
         /\ push_back_grows(t) => pc[t] = "push_back" /\ pc'[t] = "grow"
         /\ store_push(t) => pc[t] \in {"store_push", "grow"} /\ pc'[t] = "idle"
         /\ lock_delete(t) => pc[t] = "lock_delete" /\ pc'[t] = "unsubscribe"
         /\ unsubscribe(t) => pc[t] = "unsubscribe" /\ pc'[t] \in {"unsubscribe", "swap", "warn"}
         /\ swap(t) => pc[t] = "swap" /\ pc'[t] \in {"swap", "pop"}
         /\ pop(t) => pc[t] = "pop" /\ pc'[t] = "store_pop"
         /\ store_pop(t) => pc[t] = "store_pop" /\ pc'[t] \in {"store_pop", "warn"}
         /\ erase(t) => pc[t] = "erase" /\ pc'[t] = "idle"
         /\ lock_ping(t) => pc[t] = "lock_ping" /\ pc'[t] \in {"unlock_execute", "emit"}
         /\ unlock_execute(t) => pc[t] = "unlock_execute" /\ pc'[t] = "idle"
         /\ warn(t) => pc[t] = "warn" /\ pc'[t] \in {"erase", "emit"}
         /\ emit(t) => pc[t] = "emit" /\ pc'[t] \in {"emit", "send"}
         /\ emit_returns(t) => pc[t] = "emit" /\ pc'[t] = l[t].ret
         /\ send(t) => pc[t] = "send" /\ pc'[t] \in {"emit", "send"}
         /\ Begins(t) => pc[t] = "idle" /\ pc'[t] \in {"lock_subscribe", "lock_ping", "lock_delete"}
         /\ print(t) => pc[t] = "idle" /\ pc'[t] = "emit"
         /\ create_session(t) => pc[t] = "idle" /\ pc'[t] = "idle"
<1>ls. lock_subscribe(t) => pc[t] = "lock_subscribe" /\ pc'[t] = "read_channel"
  BY GotoIs DEF lock_subscribe, At
<1>rf. read_channel_fails(t) => pc[t] = "read_channel" /\ pc'[t] \in {"unlock_execute", "emit"}
  BY GotoIs, EmitGoes DEF read_channel_fails, At
<1>1. read_channel(t) => pc[t] = "read_channel" /\ pc'[t] = "find"
  BY GotoIs DEF read_channel, At
<1>2. find(t) => pc[t] = "find" /\ pc'[t] \in {"find", "push_back", "idle"}
  BY GotoIs DEF find, At, FindsOrPushes, Returns
<1>3. push_back(t) => pc[t] = "push_back" /\ pc'[t] = "store_push"
  BY GotoIs DEF push_back, At
<1>4. push_back_grows(t) => pc[t] = "push_back" /\ pc'[t] = "grow"
  BY GotoIs DEF push_back_grows, At
<1>5. store_push(t) => pc[t] \in {"store_push", "grow"} /\ pc'[t] = "idle"
  BY GotoIs DEF store_push, At, Returns
<1>6. lock_delete(t) => pc[t] = "lock_delete" /\ pc'[t] = "unsubscribe"
  BY GotoIs DEF lock_delete, At
<1>7. unsubscribe(t) => pc[t] = "unsubscribe" /\ pc'[t] \in {"unsubscribe", "swap", "warn"}
  BY GotoIs DEF unsubscribe, At
<1>8. swap(t) => pc[t] = "swap" /\ pc'[t] \in {"swap", "pop"}
  BY GotoIs DEF swap, At, SwapsCells, Crashes
<1>9. pop(t) => pc[t] = "pop" /\ pc'[t] = "store_pop"
  BY GotoIs DEF pop, At
<1>10. store_pop(t) => pc[t] = "store_pop" /\ pc'[t] \in {"store_pop", "warn"}
  BY GotoIs DEF store_pop, At, Crashes
<1>11. erase(t) => pc[t] = "erase" /\ pc'[t] = "idle"
  BY GotoIs DEF erase, At, Returns
<1>12. lock_ping(t) => pc[t] = "lock_ping" /\ pc'[t] \in {"unlock_execute", "emit"}
  BY GotoIs, EmitGoes DEF lock_ping, At
<1>13. unlock_execute(t) => pc[t] = "unlock_execute" /\ pc'[t] = "idle"
  BY GotoIs DEF unlock_execute, At, UnlocksExecute, Returns
<1>14. warn(t) => pc[t] = "warn" /\ pc'[t] \in {"erase", "emit"}
  BY GotoIs, EmitGoes DEF warn, At
<1>15. emit(t) => pc[t] = "emit" /\ pc'[t] \in {"emit", "send"}
  BY GotoIs DEF emit, At, Crashes
<1>16. emit_returns(t) => pc[t] = "emit" /\ pc'[t] = l[t].ret
  BY GotoIs DEF emit_returns, At
<1>17. send(t) => pc[t] = "send" /\ pc'[t] \in {"emit", "send"}
  BY GotoIs DEF send, At, Crashes
<1>18. Begins(t) => pc[t] = "idle" /\ pc'[t] \in {"lock_subscribe", "lock_ping", "lock_delete"}
  BY GotoIs DEF Begins, At
<1>19. print(t) => pc[t] = "idle" /\ pc'[t] = "emit"
  BY GotoIs, EmitGoes DEF print, At
<1>20. create_session(t) => pc[t] = "idle" /\ pc'[t] = "idle"
  BY GotoIs DEF create_session, At
<1> QED
  BY <1>ls, <1>rf, <1>1, <1>2, <1>3, <1>4, <1>5, <1>6, <1>7, <1>8, <1>9, <1>10, <1>11, <1>12, <1>13, <1>14,
     <1>15, <1>16, <1>17, <1>18, <1>19, <1>20

\* Where the emit of thread t returns to is set when it begins.
LEMMA RetOfStep ==
  ASSUME PSType, NEW t \in Session
  PROVE  /\ emit(t) \/ send(t) => l'[t].ret = l[t].ret
         /\ lock_ping(t) /\ pc'[t] = "emit" => l'[t].ret = "unlock_execute"
         /\ read_channel_fails(t) /\ pc'[t] = "emit" => l'[t].ret = "unlock_execute"
         /\ warn(t) /\ pc'[t] = "emit" => l'[t].ret = "erase"
         /\ print(t) => l'[t].ret = "idle"
<1>0. l \in [Session -> Locals] /\ l[t] \in Locals
  BY DEF PSType
<1>1. emit(t) => l'[t].ret = l[t].ret
  BY <1>0 DEF emit, Loads, Locals
<1>2. send(t) => l'[t].ret = l[t].ret
  BY <1>0 DEF send, Locals
<1>3. lock_ping(t) /\ pc'[t] = "emit" => l'[t].ret = "unlock_execute"
  BY EmitGoes DEF lock_ping
<1>rf. read_channel_fails(t) /\ pc'[t] = "emit" => l'[t].ret = "unlock_execute"
  BY EmitGoes DEF read_channel_fails
<1>4. warn(t) /\ pc'[t] = "emit" => l'[t].ret = "erase"
  BY EmitGoes, GotoIs DEF warn
<1>5. print(t) => l'[t].ret = "idle"
  BY EmitGoes DEF print
<1> QED
  BY <1>rf, <1>1, <1>2, <1>3, <1>4, <1>5

\* What the sections of the threads other than t are.
LEMMA FrameSections ==
  ASSUME PSType, LoadedType, NEW t \in Session, StepOf(t)
  PROVE  \A u \in Session : u # t =>
           /\ (InCommand(u)' <=> InCommand(u)) /\ (Deleting(u)' <=> Deleting(u))
           /\ (Subscribing(u)' <=> Subscribing(u)) /\ (Emitting(u)' <=> Emitting(u))
           /\ (Gone(u)' <=> Gone(u))
  BY Frame DEF Same, InCommand, Deleting, Subscribing, Emitting, Gone

\* A mutex of thread t is taken, given back or left alone with its section.
KsStep(t) ==
  \/ UNCHANGED ks_mutex /\ (InCommand(t)' <=> InCommand(t))
  \/ ks_mutex = None /\ ks_mutex' = t /\ InCommand(t)'
  \/ InCommand(t) /\ ks_mutex' = None /\ ~InCommand(t)'

MutexStep(t) ==
  \/ UNCHANGED mutex /\ (Deleting(t)' <=> Deleting(t))
  \/ mutex = None /\ mutex' = t /\ Deleting(t)'
  \/ Deleting(t) /\ mutex' = None /\ ~Deleting(t)'

LEMMA LocksOfStep ==
  ASSUME PSType, LoadedType, NEW t \in Session, StepOf(t)
  PROVE  KsStep(t) /\ MutexStep(t)
<1> USE DEF InCommand, Deleting, Subscribing, Emitting
<1>1. CASE read_channel(t)
  BY <1>1, Places, RetOfStep DEF read_channel, At, locks, KsStep, MutexStep
<1>ls. CASE lock_subscribe(t)
  BY <1>ls, Places, RetOfStep DEF lock_subscribe, At, locks, KsStep, MutexStep
<1>rf. CASE read_channel_fails(t)
  BY <1>rf, Places, RetOfStep DEF read_channel_fails, At, locks, KsStep, MutexStep
<1>2. CASE find(t)
  <2>1. pc[t] = "find" /\ UNCHANGED mutex
    BY <1>2 DEF find, FindsOrPushes, At
  <2>2. \/ UNCHANGED ks_mutex /\ pc'[t] \in {"find", "push_back"}
        \/ ks_mutex' = None /\ pc'[t] = "idle"
    BY <1>2, <2>1, GotoIs DEF find, FindsOrPushes, Returns
  <2> QED
    BY <2>1, <2>2 DEF KsStep, MutexStep
<1>3. CASE push_back(t)
  BY <1>3, Places, RetOfStep DEF push_back, At, locks, KsStep, MutexStep
<1>4. CASE push_back_grows(t)
  BY <1>4, Places, RetOfStep DEF push_back_grows, At, locks, KsStep, MutexStep
<1>5. CASE store_push(t)
  BY <1>5, Places, RetOfStep DEF store_push, At, locks, KsStep, MutexStep
<1>6. CASE lock_delete(t)
  BY <1>6, Places, RetOfStep DEF lock_delete, At, locks, KsStep, MutexStep
<1>7. CASE unsubscribe(t)
  BY <1>7, Places, RetOfStep DEF unsubscribe, At, locks, KsStep, MutexStep
<1>8. CASE swap(t)
  BY <1>8, Places, RetOfStep DEF swap, At, SwapsCells, locks, KsStep, MutexStep
<1>9. CASE pop(t)
  BY <1>9, Places, RetOfStep DEF pop, At, locks, KsStep, MutexStep
<1>10. CASE store_pop(t)
  BY <1>10, Places, RetOfStep DEF store_pop, At, locks, KsStep, MutexStep
<1>11. CASE erase(t)
  BY <1>11, Places, RetOfStep DEF erase, At, locks, KsStep, MutexStep
<1>12. CASE lock_ping(t)
  BY <1>12, Places, RetOfStep DEF lock_ping, At, EmitThen, locks, KsStep, MutexStep
<1>13. CASE unlock_execute(t)
  BY <1>13, Places, RetOfStep DEF unlock_execute, At, UnlocksExecute, locks, KsStep, MutexStep
<1>14. CASE warn(t)
  BY <1>14, Places, RetOfStep DEF warn, At, locks, KsStep, MutexStep
<1>15. CASE emit(t)
  BY <1>15, Places, RetOfStep DEF emit, At, locks, KsStep, MutexStep
<1>16. CASE emit_returns(t)
  <2>1. l[t].ret \in {"idle", "unlock_execute", "erase"} /\ UNCHANGED locks
    BY <1>16 DEF emit_returns, PSType, Locals
  <2> QED
    BY <1>16, <2>1, Places DEF locks, KsStep, MutexStep
<1>17. CASE send(t)
  BY <1>17, Places, RetOfStep DEF send, At, locks, KsStep, MutexStep
<1>18. CASE Begins(t)
  BY <1>18, Places, RetOfStep DEF Begins, At, locks, KsStep, MutexStep
<1>19. CASE print(t)
  BY <1>19, Places, RetOfStep DEF print, At, locks, KsStep, MutexStep
<1>20. CASE create_session(t)
  BY <1>20, Places, RetOfStep DEF create_session, At, locks, KsStep, MutexStep
<1> QED
  BY <1>ls, <1>rf, <1>1, <1>2, <1>3, <1>4, <1>5, <1>6, <1>7, <1>8, <1>9, <1>10, <1>11, <1>12, <1>13, <1>14,
     <1>15, <1>16, <1>17, <1>18, <1>19, <1>20 DEF StepOf, Thread

\* The mutexes are held in their sections.
LEMMA LockedOfStep ==
  ASSUME PSType, LoadedType, Locked, NEW t \in Session, StepOf(t)
  PROVE  Locked'
<1>1. KsStep(t) /\ MutexStep(t)
  BY LocksOfStep
<1>2. ASSUME NEW u \in Session PROVE ks_mutex' = u <=> InCommand(u)'
  <2>1. CASE u = t
    BY <1>1, <2>1, PubSubAssumption DEF KsStep, Locked
  <2>2. CASE u # t
    BY <1>1, <2>2, FrameSections, PubSubAssumption DEF KsStep, Locked
  <2> QED
    BY <2>1, <2>2
<1>3. ASSUME NEW u \in Session PROVE mutex' = u <=> Deleting(u)'
  <2>1. CASE u = t
    BY <1>1, <2>1, PubSubAssumption DEF MutexStep, Locked
  <2>2. CASE u # t
    BY <1>1, <2>2, FrameSections, PubSubAssumption DEF MutexStep, Locked
  <2> QED
    BY <2>1, <2>2
<1> QED
  BY <1>2, <1>3 DEF Locked

\* The sessions that act or have subscribed exist.
LEMMA ExistOfStep ==
  ASSUME PSType, LoadedType, Exist, NEW t \in Session, StepOf(t)
  PROVE  Exist'
<1>1. \A u \in Session : u # t => pc'[u] = pc[u]
  BY Frame DEF Same
<1>2. CASE erase(t)
  BY <1>1, <1>2, Places DEF erase, Exist
<1>3. CASE create_session(t)
  BY <1>1, <1>3, Places DEF create_session, Exist
<1>4. CASE ~erase(t) /\ ~create_session(t)
  <2>1. /\ UNCHANGED session_pool
        /\ subscribed' \subseteq subscribed \cup {t}
        /\ t \in session_pool
    <3>1. CASE read_channel(t)
      BY <3>1, Places DEF read_channel, Exist
    <3>ls. CASE lock_subscribe(t)
      BY <3>ls, Places DEF lock_subscribe, Exist
    <3>rf. CASE read_channel_fails(t)
      BY <3>rf, Places DEF read_channel_fails, Exist
    <3>2. CASE find(t)
      BY <3>2, Places DEF find, FindsOrPushes, Exist
    <3>3. CASE push_back(t)
      BY <3>3, Places DEF push_back, Exist
    <3>4. CASE push_back_grows(t)
      BY <3>4, Places DEF push_back_grows, Exist
    <3>5. CASE store_push(t)
      BY <3>5, Places DEF store_push, Exist
    <3>6. CASE lock_delete(t)
      BY <3>6, Places DEF lock_delete, Exist
    <3>7. CASE unsubscribe(t)
      BY <3>7, Places DEF unsubscribe, Exist
    <3>8. CASE swap(t)
      BY <3>8, Places DEF swap, SwapsCells, Exist
    <3>9. CASE pop(t)
      BY <3>9, Places DEF pop, Exist
    <3>10. CASE store_pop(t)
      BY <3>10, Places DEF store_pop, Exist
    <3>11. CASE lock_ping(t)
      BY <3>11, Places DEF lock_ping, Exist
    <3>12. CASE unlock_execute(t)
      BY <3>12, Places DEF unlock_execute, UnlocksExecute, Exist
    <3>13. CASE warn(t)
      BY <3>13, Places DEF warn, Exist
    <3>14. CASE emit(t)
      BY <3>14, Places DEF emit, Exist
    <3>15. CASE emit_returns(t)
      BY <3>15, Places DEF emit_returns, Exist
    <3>16. CASE send(t)
      BY <3>16, Places DEF send, Exist
    <3>17. CASE Begins(t)
      BY <3>17, Places DEF Begins, At, Exist
    <3>18. CASE print(t)
      BY <3>18, Places DEF print, At, Exist
    <3> QED
      BY <1>4, <3>ls, <3>rf, <3>1, <3>2, <3>3, <3>4, <3>5, <3>6, <3>7, <3>8, <3>9, <3>10, <3>11, <3>12, <3>13,
         <3>14, <3>15, <3>16, <3>17, <3>18 DEF StepOf, Thread
  <2> QED
    BY <1>1, <2>1 DEF Exist
<1> QED
  BY <1>2, <1>3, <1>4

\* A text that is formatted spoils those of the emits that are underway.
LEMMA TextOfStep ==
  ASSUME PSType, NEW t \in Session, StepOf(t)
  PROVE  \/ UNCHANGED fmt_buffer
         \/ /\ fmt_buffer' = t /\ l'[t].got = << >>
            /\ \A u \in Session : u # t /\ Emitting(u) => "text" \in l'[u].raced
<1>1. ASSUME NEW next \in {"idle", "unlock_execute", "erase"}, EmitThen(t, next)
      PROVE  \/ UNCHANGED fmt_buffer
             \/ /\ fmt_buffer' = t /\ l'[t].got = << >>
                /\ \A u \in Session : u # t /\ Emitting(u) => "text" \in l'[u].raced
  BY <1>1, EmitGoes, EmitLocals
<1>2. CASE lock_ping(t)
  BY <1>1, <1>2 DEF lock_ping
<1>rf. CASE read_channel_fails(t)
  BY <1>1, <1>rf DEF read_channel_fails
<1>3. CASE print(t)
  BY <1>1, <1>3 DEF print
<1>4. CASE warn(t)
  BY <1>1, <1>4 DEF warn
<1>5. CASE ~lock_ping(t) /\ ~read_channel_fails(t) /\ ~print(t) /\ ~warn(t)
  <2>1. UNCHANGED fmt_buffer
    BY <1>5 DEF StepOf, Thread, lock_subscribe, read_channel, find, push_back, push_back_grows, store_push,
       lock_delete, unsubscribe, swap, pop, store_pop, erase, unlock_execute, emit, emit_returns,
       send, Begins, create_session, FindsOrPushes,
                UnlocksExecute, SwapsCells
  <2> QED
    BY <2>1
<1> QED
  BY <1>rf, <1>2, <1>3, <1>4, <1>5

\* What an emit has sent.
LEMMA GotOfStep ==
  ASSUME PSType, LoadedType, NEW t \in Session, StepOf(t), Emitting(t)'
  PROVE  \/ /\ Emitting(t) /\ UNCHANGED fmt_buffer
            /\ l'[t].got = l[t].got /\ l'[t].raced = l[t].raced
         \/ /\ send(t) /\ Emitting(t) /\ UNCHANGED fmt_buffer /\ l'[t].raced = l[t].raced
            /\ l'[t].got = Append(l[t].got, <<l[t].loaded, fmt_buffer>>)
         \/ fmt_buffer' = t /\ l'[t].got = << >>
<1>0. l \in [Session -> Locals] /\ l[t] \in Locals
  BY DEF PSType
<1>1. CASE emit(t)
  BY <1>0, <1>1, Places DEF emit, Emitting, Loads, Locals
<1>2. CASE send(t)
  <2>1. Emitting(t) /\ UNCHANGED fmt_buffer
    BY <1>2 DEF send, At, Emitting
  <2>2. \/ UNCHANGED l
        \/ l' = [l EXCEPT ![t].got = Append(@, <<l[t].loaded, fmt_buffer>>), ![t].i = @ + 1]
    BY <1>2 DEF send
  <2>3. l'[t].raced = l[t].raced
    BY <1>0, <2>2 DEF Locals
  <2>4. l'[t].got = l[t].got \/ l'[t].got = Append(l[t].got, <<l[t].loaded, fmt_buffer>>)
    BY <1>0, <2>2 DEF Locals
  <2> QED
    BY <1>2, <2>1, <2>3, <2>4
<1>3. CASE lock_ping(t) \/ read_channel_fails(t) \/ print(t) \/ warn(t)
  BY <1>3, EmitGoes, GotoIs DEF lock_ping, read_channel_fails, print, warn, Emitting
<1>4. emit(t) \/ send(t) \/ lock_ping(t) \/ read_channel_fails(t) \/ print(t) \/ warn(t)
  <2>1. CASE emit_returns(t)
    <3>1. l[t].ret \in {"idle", "unlock_execute", "erase"}
      BY <1>0 DEF Locals
    <3> QED
      BY <2>1, <3>1, Places DEF Emitting
  <2> QED
    BY <2>1, Places DEF StepOf, Thread, Emitting
<1> QED
  BY <1>1, <1>2, <1>3, <1>4

\* fmt_buffer holds the text of an emit that no other has overlapped.
LEMMA OwnTextOfStep ==
  ASSUME PSType, LoadedType, OwnText, NEW t \in Session, StepOf(t)
  PROVE  OwnText'
<1> SUFFICES ASSUME NEW u \in Session, Emitting(u)', "text" \notin l'[u].raced
             PROVE  /\ fmt_buffer' = u
                    /\ \A n \in DOMAIN l'[u].got : l'[u].got[n][2] = u
  BY DEF OwnText
<1>1. CASE u # t
  <2>1. Same(u) /\ Emitting(u)
    BY <1>1, Frame, FrameSections
  <2>2. "text" \notin l[u].raced
    BY <2>1 DEF Same
  <2>3. UNCHANGED fmt_buffer
    BY <1>1, <2>1, TextOfStep
  <2> QED
    BY <2>1, <2>2, <2>3 DEF OwnText, Same
<1>2. CASE u = t
  <2>1. CASE fmt_buffer' = t /\ l'[t].got = << >>
    BY <1>2, <2>1
  <2>2. CASE Emitting(t) /\ UNCHANGED fmt_buffer /\ l'[t].got = l[t].got /\ l'[t].raced = l[t].raced
    BY <1>2, <2>2 DEF OwnText
  <2>3. CASE /\ Emitting(t) /\ UNCHANGED fmt_buffer /\ l'[t].raced = l[t].raced
             /\ l'[t].got = Append(l[t].got, <<l[t].loaded, fmt_buffer>>)
    <3>1. fmt_buffer = t /\ \A n \in DOMAIN l[t].got : l[t].got[n][2] = t
      BY <1>2, <2>3 DEF OwnText
    <3>2. l[t].got \in Seq(Delivery)
      BY DEF PSType, Locals
    <3>3. ASSUME NEW n \in DOMAIN l'[t].got PROVE l'[t].got[n][2] = t
      <4>1. CASE n \in DOMAIN l[t].got
        BY <2>3, <3>1, <3>2, <4>1
      <4>2. CASE n \notin DOMAIN l[t].got
        <5>1. n = Len(l[t].got) + 1
          BY <2>3, <3>2, <4>2
        <5>2. l'[t].got[n] = <<l[t].loaded, fmt_buffer>>
          BY <2>3, <3>2, <5>1
        <5> QED
          BY <3>1, <5>2
      <4> QED
        BY <4>1, <4>2
    <3> QED
      BY <1>2, <2>3, <3>1, <3>3
  <2> QED
    BY <1>2, <2>1, <2>2, <2>3, GotOfStep
<1> QED
  BY <1>1, <1>2

-----------------------------------------------------------------------------
(* The list, as long as no subscription overlaps an unsubscription. *)

Good == PSType /\ LoadedType /\ Locked /\ Exist /\ Intact

\* A clash is never forgotten.
LEMMA ClashOfStep ==
  ASSUME PSType, NEW t \in Session, StepOf(t), ~clash'
  PROVE  ~clash
<1>1. CASE read_channel(t) \/ lock_delete(t)
  BY <1>1 DEF read_channel, lock_delete
<1>2. CASE ~read_channel(t) /\ ~lock_delete(t)
  BY <1>2 DEF StepOf, Thread, lock_subscribe, read_channel_fails, find, push_back, push_back_grows, store_push, unsubscribe, swap,
     pop, store_pop, erase, lock_ping, unlock_execute, warn, emit, emit_returns, send, Begins, print,
     create_session,
       FindsOrPushes, UnlocksExecute, SwapsCells
<1> QED
  BY <1>1, <1>2

\* How thread t comes to subscribe, and to delete.
LEMMA SectionsOfStep ==
  ASSUME PSType, NEW t \in Session, StepOf(t)
  PROVE  /\ Subscribing(t)' => Subscribing(t) \/ read_channel(t)
         /\ Deleting(t)' => Deleting(t) \/ lock_delete(t)
<1>0. l[t].ret \in {"idle", "unlock_execute", "erase"}
  BY DEF PSType, Locals
<1> USE DEF Subscribing, Deleting, Emitting
<1>1. CASE read_channel(t)
  BY <1>1, Places, RetOfStep
<1>ls. CASE lock_subscribe(t)
  BY <1>ls, Places, RetOfStep
<1>rf. CASE read_channel_fails(t)
  BY <1>rf, Places, RetOfStep
<1>2. CASE find(t)
  BY <1>2, Places, RetOfStep
<1>3. CASE push_back(t)
  BY <1>3, Places, RetOfStep
<1>4. CASE push_back_grows(t)
  BY <1>4, Places, RetOfStep
<1>5. CASE store_push(t)
  BY <1>5, Places, RetOfStep
<1>6. CASE lock_delete(t)
  BY <1>6, Places, RetOfStep
<1>7. CASE unsubscribe(t)
  BY <1>7, Places, RetOfStep
<1>8. CASE swap(t)
  BY <1>8, Places, RetOfStep
<1>9. CASE pop(t)
  BY <1>9, Places, RetOfStep
<1>10. CASE store_pop(t)
  BY <1>10, Places, RetOfStep
<1>11. CASE erase(t)
  BY <1>11, Places, RetOfStep
<1>12. CASE lock_ping(t)
  BY <1>12, Places, RetOfStep
<1>13. CASE unlock_execute(t)
  BY <1>13, Places, RetOfStep
<1>14. CASE warn(t)
  BY <1>14, Places, RetOfStep
<1>15. CASE emit(t)
  BY <1>15, Places, RetOfStep
<1>16. CASE emit_returns(t)
  BY <1>16, <1>0, Places, RetOfStep
<1>17. CASE send(t)
  BY <1>17, Places, RetOfStep
<1>18. CASE Begins(t)
  BY <1>18, Places, RetOfStep
<1>19. CASE print(t)
  BY <1>19, Places, RetOfStep
<1>20. CASE create_session(t)
  BY <1>20, Places, RetOfStep
<1> QED
  BY <1>ls, <1>rf, <1>1, <1>2, <1>3, <1>4, <1>5, <1>6, <1>7, <1>8, <1>9, <1>10, <1>11, <1>12, <1>13, <1>14,
     <1>15, <1>16, <1>17, <1>18, <1>19, <1>20 DEF StepOf, Thread

\* No subscription has overlapped an unsubscription.
LEMMA ApartOfStep ==
  ASSUME PSType, LoadedType, Apart, NEW t \in Session, StepOf(t), ~clash'
  PROVE  Apart'
<1> SUFFICES ASSUME NEW u \in Session, NEW v \in Session, Subscribing(u)', Deleting(v)'
             PROVE  FALSE
  BY DEF Apart
<1>1. u # t => Subscribing(u)
  BY FrameSections
<1>2. v # t => Deleting(v)
  BY FrameSections
<1>3. CASE read_channel(t)
  <2>1. ~Deleting(v)
    BY <1>3 DEF read_channel
  <2> QED
    BY <1>2, <1>3, <2>1, Places DEF Deleting, Emitting
<1>4. CASE lock_delete(t)
  <2>1. ~Subscribing(u)
    BY <1>4 DEF lock_delete
  <2> QED
    BY <1>1, <1>4, <2>1, Places DEF Subscribing
<1>5. CASE ~read_channel(t) /\ ~lock_delete(t)
  BY <1>1, <1>2, <1>5, SectionsOfStep DEF Apart
<1> QED
  BY <1>3, <1>4, <1>5

\* Two threads do not change the list.
LEMMA OneWriter ==
  ASSUME Good, NEW t \in Session, NEW u \in Session, u # t
  PROVE  ~((Subscribing(t) \/ Deleting(t)) /\ (Subscribing(u) \/ Deleting(u)))
<1>1. Subscribing(t) /\ Subscribing(u) => FALSE
  BY DEF Good, Locked, InCommand
<1>2. Deleting(t) /\ Deleting(u) => FALSE
  BY DEF Good, Locked
<1> QED
  BY <1>1, <1>2 DEF Good, Intact, Apart

\* The list grows only while a session subscribes.
LEMMA NoGrowth ==
  ASSUME Good, NEW t \in Session, Subscribing(t) \/ Deleting(t), pc[t] # "grow"
  PROVE  ~Growing
  BY OneWriter DEF Growing, Subscribing

\* What a cell of the current buffer holds.
LEMMA ReadsHere ==
  ASSUME Good, ~Growing
  PROVE  \A n \in 1 .. finish : Reads(grown, n) = {cells[n]}
<1>1. DOMAIN cells = 1 .. Len(cells) /\ finish <= Len(cells) /\ finish \in Nat /\ Len(cells) \in Nat
  BY LenProperties DEF Good, PSType, Intact, Listed
<1> QED
  BY <1>1 DEF Reads

\* The steps that change the vector are taken by a thread that subscribes or
\* deletes.
LEMMA WriterSections ==
  ASSUME PSType, NEW t \in Session, StepOf(t), ~Reader(t)
  PROVE  Subscribing(t) \/ Deleting(t)
  BY StepCases, Places DEF Subscribing, Deleting

\* The stage of a thread that has not moved.
LEMMA StageOther ==
  ASSUME Good, NEW t \in Session, NEW u \in Session, u # t, StepOf(t)
  PROVE  Stage(u)'
<1>1. Same(u) /\ Stage(u) /\ pc \in [Session -> Pc]
  BY Frame DEF Good, Intact, PSType
<1>2. CASE ~Subscribing(u) /\ ~Deleting(u)
  BY <1>1, <1>2 DEF Same, Stage, Subscribing, Deleting
<1>3. CASE Subscribing(u) \/ Deleting(u)
  <2>1. Reader(t)
    BY <1>3, OneWriter, WriterSections DEF Good
  <2>2. UNCHANGED vector
    BY <2>1, ReaderKeeps
  <2> QED
    BY <1>1, <2>2 DEF Same, Stage, Searches, InCells, vector
<1> QED
  BY <1>2, <1>3

\* A loop that reads another cell.
LEMMA MovesFields ==
  ASSUME PSType, NEW t \in Session, Moves(t)
  PROVE  /\ l'[t].b = l[t].b /\ l'[t].e = l[t].e /\ l'[t].i = l[t].i + 1
         /\ l[t].i \in Nat \ {0} /\ l[t].e \in Nat
<1>1. l \in [Session -> Locals] /\ l[t] \in Locals
  BY DEF PSType
<1>2. l' = [l EXCEPT ![t] = [l[t] EXCEPT !.i = @ + 1]]
  BY <1>1 DEF Moves
<1> QED
  BY <1>1, <1>2 DEF Locals

\* A search that has gone through the list has not found the session.
LEMMA SearchEnds ==
  ASSUME PSType, NEW t \in Session, Searches(t), l[t].i > l[t].e
  PROVE  ~InCells(t, finish)
<1>1. finish \in Nat /\ l[t].i \in Nat
  BY DEF PSType, Locals
<1> QED
  BY <1>1 DEF Searches, InCells

\* A search that reads a cell and goes on.
LEMMA SearchGoesOn ==
  ASSUME Good, NEW t \in Session, pc[t] \in {"find", "unsubscribe"}, l[t].i <= l[t].e,
         NEW v \in Reads(l[t].b, l[t].i)
  PROVE  /\ v = cells[l[t].i] /\ l[t].b = grown /\ l[t].i \in 1 .. finish
         /\ v # t /\ Moves(t) /\ UNCHANGED vector => Searches(t)'
<1>1. Searches(t) /\ PSType
  BY DEF Good, Intact, Stage
<1>2. l[t].i \in Nat \ {0} /\ l[t].e \in Nat /\ finish \in Nat
  BY <1>1 DEF PSType, Locals
<1>3. l[t].i \in 1 .. finish /\ l[t].b = grown
  BY <1>1, <1>2 DEF Searches
<1>4. ~Growing
  BY NoGrowth DEF Subscribing, Deleting
<1>5. v = cells[l[t].i]
  BY <1>3, <1>4, ReadsHere
<1>6. ASSUME v # t, Moves(t), UNCHANGED vector PROVE Searches(t)'
  <2>1. l'[t].b = l[t].b /\ l'[t].e = l[t].e /\ l'[t].i = l[t].i + 1
    BY <1>1, <1>6, MovesFields
  <2> QED
    BY <1>1, <1>2, <1>5, <1>6, <2>1 DEF Searches, vector
<1> QED
  BY <1>3, <1>5, <1>6

\* The places that Stage says something of.
Staged == {"find", "push_back", "store_push", "grow", "unsubscribe", "swap", "pop", "store_pop"}

LEMMA NotStaged == ASSUME NEW t \in Session, pc'[t] \notin Staged PROVE Stage(t)'
  BY DEF Stage, Staged

\* The locals of a search that begins.
LEMMA SearchBegins ==
  ASSUME PSType, NEW t \in Session, UNCHANGED vector,
         l'[t] = [Fresh EXCEPT !.b = grown, !.e = finish]
  PROVE  Searches(t)'
<1>1. l'[t].b = grown /\ l'[t].e = finish /\ l'[t].i = 1
  BY DEF Fresh
<1> QED
  BY <1>1 DEF PSType, Searches, vector

\* The loop of swap finds what the search has found, and the last element.
LEMMA SwapIs ==
  ASSUME Good, NEW t \in Session, swap(t)
  PROVE  /\ pc'[t] = "pop" /\ UNCHANGED crashed
         /\ l[t].i \in 1 .. finish /\ cells[l[t].i] = t
         /\ DOMAIN cells' = DOMAIN cells
         /\ \A n \in 1 .. finish :
              cells'[n] = IF n = finish THEN t ELSE IF n = l[t].i THEN cells[finish] ELSE cells[n]
<1>1. pc[t] = "swap" /\ PSType
  BY Places DEF Good
<1>2. l[t].i \in Nat \ {0} /\ finish \in Nat
  BY <1>1 DEF PSType, Locals
<1>3. l[t].b = grown /\ l[t].i \in 1 .. finish /\ cells[l[t].i] = t
  BY <1>1, <1>2 DEF Good, Intact, Stage
<1>4. ~Growing
  BY <1>1, NoGrowth DEF Deleting
<1>5. Reads(l[t].b, l[t].i) = {t} /\ Reads(grown, finish) = {cells[finish]}
  BY <1>2, <1>3, <1>4, ReadsHere
<1>6. /\ \E v \in Reads(l[t].b, l[t].i), w \in Reads(grown, finish) :
           cells' = [n \in DOMAIN cells |->
                       IF n = finish THEN v
                       ELSE IF l[t].b = grown /\ n = l[t].i THEN w ELSE cells[n]]
      /\ Goto(t, "pop") /\ UNCHANGED crashed
  BY <1>3, <1>4 DEF swap, SwapsCells
<1>7. cells' = [n \in DOMAIN cells |->
                  IF n = finish THEN t ELSE IF n = l[t].i THEN cells[finish] ELSE cells[n]]
  BY <1>3, <1>5, <1>6
<1>8. 1 .. finish \subseteq DOMAIN cells
  BY <1>1, <1>2, LenProperties DEF PSType, Good, Intact, Listed
<1> QED
  BY <1>1, <1>3, <1>6, <1>7, <1>8, GotoIs

\* The stage of the thread that moves.
LEMMA StageOwn ==
  ASSUME Good, NEW t \in Session, StepOf(t), ~clash'
  PROVE  Stage(t)'
<1>0. /\ PSType /\ Stage(t) /\ l \in [Session -> Locals] /\ l[t] \in Locals /\ finish \in Nat
      /\ grown \in Nat
  BY DEF Good, Intact, PSType
<1>1. CASE read_channel(t)
  <2>1. pc'[t] = "find" /\ UNCHANGED vector
    BY <1>0, <1>1, Places DEF read_channel
  <2>2. l'[t] = [Fresh EXCEPT !.b = grown, !.e = finish]
    BY <1>0, <1>1 DEF read_channel
  <2> QED
    BY <1>0, <2>1, <2>2, SearchBegins DEF Stage
<1>2. CASE find(t)
  <2>1. pc[t] = "find" /\ UNCHANGED vector
    BY <1>2 DEF find, FindsOrPushes, At
  <2>2. CASE l[t].i > l[t].e /\ Goto(t, "push_back")
    <3>1. ~InCells(t, finish)
      BY <1>0, <2>1, <2>2, SearchEnds DEF Stage
    <3> QED
      BY <1>0, <2>1, <2>2, <3>1, GotoIs DEF Stage, InCells, vector
  <2>3. CASE Goto(t, "idle")
    BY <1>0, <2>3, GotoIs, NotStaged DEF Staged
  <2>4. CASE /\ l[t].i <= l[t].e /\ UNCHANGED pc
             /\ \E v \in Reads(l[t].b, l[t].i) : v # t /\ Moves(t)
    BY <2>1, <2>4, SearchGoesOn DEF Stage
  <2> QED
    BY <1>2, <2>2, <2>3, <2>4 DEF find, FindsOrPushes, Returns
<1>3. CASE push_back(t)
  <2>1. pc[t] = "push_back" /\ pc'[t] = "store_push" /\ l'[t].loaded = finish
    BY <1>0, <1>3, Places DEF push_back, Loads, Locals
  <2> QED
    BY <1>0, <1>3, <2>1, CellsPush DEF Stage, InCells
<1>4. CASE push_back_grows(t)
  <2>1. pc[t] = "push_back" /\ pc'[t] = "grow" /\ l'[t].loaded = finish
    BY <1>0, <1>4, Places DEF push_back_grows, Overlaps, Locals
  <2> QED
    BY <1>0, <1>4, <2>1, CellsGrow DEF Stage, InCells
<1>5. CASE store_push(t)
  BY <1>0, <1>5, Places, NotStaged DEF Staged
<1>6. CASE lock_delete(t)
  <2>1. pc'[t] = "unsubscribe" /\ UNCHANGED vector
    BY <1>0, <1>6, Places DEF lock_delete
  <2>2. ~Growing
    BY <1>6 DEF lock_delete, Growing, Subscribing
  <2>3. l'[t] = [Fresh EXCEPT !.b = grown, !.e = finish]
    BY <1>0, <1>6, <2>2 DEF lock_delete, Ends, Overlaps
  <2> QED
    BY <1>0, <2>1, <2>3, SearchBegins DEF Stage
<1>7. CASE unsubscribe(t)
  <2>1. pc[t] = "unsubscribe" /\ UNCHANGED vector
    BY <1>7 DEF unsubscribe, At
  <2>2. CASE Goto(t, "warn")
    BY <1>0, <2>2, GotoIs, NotStaged DEF Staged
  <2>3. CASE /\ l[t].i <= l[t].e /\ UNCHANGED pc
             /\ \E v \in Reads(l[t].b, l[t].i) : v # t /\ Moves(t)
    BY <2>1, <2>3, SearchGoesOn DEF Stage
  <2>4. CASE /\ l[t].i <= l[t].e /\ Goto(t, "swap") /\ UNCHANGED l
             /\ \E v \in Reads(l[t].b, l[t].i) : v = t
    <3>1. l[t].b = grown /\ l[t].i \in 1 .. finish /\ cells[l[t].i] = t
      BY <2>1, <2>4, SearchGoesOn
    <3>2. pc'[t] = "swap"
      BY <1>0, <2>4, GotoIs
    <3> QED
      BY <1>0, <2>1, <2>4, <3>1, <3>2 DEF Stage, vector
  <2> QED
    BY <1>7, <2>2, <2>3, <2>4 DEF unsubscribe
<1>8. CASE swap(t)
  <2>1. UNCHANGED finish
    BY <1>0, <1>8, CellsSwap
  <2>2. pc'[t] = "pop" /\ finish # 0 /\ cells'[finish] = t
    BY <1>0, <1>8, SwapIs
  <2> QED
    BY <2>1, <2>2 DEF Stage
<1>9. CASE pop(t)
  <2>1. pc[t] = "pop" /\ pc'[t] = "store_pop" /\ l'[t].loaded = finish /\ UNCHANGED vector
    BY <1>0, <1>9, Places DEF pop, Loads, Locals
  <2> QED
    BY <1>0, <2>1 DEF Stage, vector
<1>10. CASE store_pop(t)
  <2>1. l[t].loaded # 0
    BY <1>0, <1>10, Places DEF Stage
  <2>2. pc'[t] = "warn"
    BY <1>0, <1>10, <2>1, GotoIs DEF store_pop
  <2> QED
    BY <2>2, NotStaged DEF Staged
<1>11. CASE emit_returns(t)
  <2>1. l[t].ret \in {"idle", "unlock_execute", "erase"}
    BY <1>0 DEF Locals
  <2> QED
    BY <1>0, <1>11, <2>1, Places, NotStaged DEF Staged
<1>12. CASE \/ erase(t) \/ lock_ping(t) \/ unlock_execute(t) \/ warn(t) \/ emit(t) \/ send(t)
            \/ Begins(t) \/ print(t) \/ create_session(t)
            \/ lock_subscribe(t) \/ read_channel_fails(t)
  <2>1. pc'[t] \notin Staged
    BY <1>0, <1>12, Places DEF Staged
  <2> QED
    BY <2>1, NotStaged
<1> QED
  BY <1>1, <1>2, <1>3, <1>4, <1>5, <1>6, <1>7, <1>8, <1>9, <1>10, <1>11, <1>12
     DEF StepOf, Thread

\* The sessions that are off the list, but for the one that moves.
LEMMA GoneOfStep ==
  ASSUME PSType, LoadedType, NEW t \in Session, StepOf(t)
  PROVE  /\ \A u \in Session : u # t => (Gone(u)' <=> Gone(u))
         /\ ~(unsubscribe(t) \/ store_pop(t) \/ erase(t)) => (Gone(t)' <=> Gone(t))
         /\ erase(t) => Gone(t) /\ ~Gone(t)'
         /\ unsubscribe(t) \/ store_pop(t) => ~Gone(t) /\ (Gone(t)' <=> pc'[t] = "warn")
<1>1. l[t].ret \in {"idle", "unlock_execute", "erase"}
  BY DEF PSType, Locals
<1>2. ~(unsubscribe(t) \/ store_pop(t) \/ erase(t)) => (Gone(t)' <=> Gone(t))
  BY <1>1, Places, RetOfStep DEF StepOf, Thread, Gone, Emitting
<1>3. erase(t) => Gone(t) /\ ~Gone(t)'
  BY Places DEF Gone, Emitting
<1>4. unsubscribe(t) \/ store_pop(t) => ~Gone(t) /\ (Gone(t)' <=> pc'[t] = "warn")
  BY Places DEF Gone, Emitting
<1> QED
  BY <1>2, <1>3, <1>4, FrameSections

\* The sessions that have subscribed change in three steps.
LEMMA SubscribedKept ==
  ASSUME NEW t \in Session, StepOf(t), ~(find(t) \/ store_push(t) \/ erase(t))
  PROVE  UNCHANGED subscribed
  BY DEF StepOf, Thread, lock_subscribe, read_channel, read_channel_fails, push_back, push_back_grows, lock_delete, unsubscribe,
         swap, SwapsCells, pop, store_pop, lock_ping, unlock_execute, UnlocksExecute, warn, emit,
         emit_returns, send, Begins, print, create_session

\* The list is the same when its cells and its sessions are.
LEMMA ListedKept ==
  ASSUME PSType, Listed, finish' = finish, finish <= Len(cells'),
         \A n \in 1 .. finish : cells'[n] = cells[n],
         UNCHANGED subscribed, \A u \in Session : Gone(u)' <=> Gone(u)
  PROVE  Listed'
<1>1. \A s : InCells(s, finish) <=> InCells(s, finish)'
  BY DEF InCells
<1> QED
  BY <1>1 DEF PSType, Listed

\* A session is added at the end.
LEMMA ListedPush ==
  ASSUME Good, NEW t \in Session, store_push(t)
  PROVE  Listed'
<1>0. PSType /\ LoadedType /\ Listed /\ StepOf(t)
  BY DEF Good, Intact, StepOf, Thread
<1>1. /\ finish \in Nat /\ finish' = finish + 1 /\ finish < Len(cells) /\ Len(cells) \in Nat
      /\ cells[finish + 1] = t /\ ~InCells(t, finish)
  BY <1>0, Places DEF Good, Intact, Stage, PSType, store_push
<1>2. UNCHANGED cells /\ subscribed' = subscribed \cup {t}
  BY DEF store_push
<1>3. \A u \in Session : Gone(u)' <=> Gone(u)
  BY <1>0, GoneOfStep, Places
<1>4. ~Gone(t)
  BY <1>0, Places DEF Gone, Emitting
<1>5. \A n \in 1 .. finish' : n \in 1 .. finish \/ n = finish + 1
  BY <1>1
<1>6. finish' <= Len(cells') /\ \A m, n \in 1 .. finish' : cells'[m] = cells'[n] => m = n
  BY <1>0, <1>1, <1>2, <1>5 DEF Listed, InCells
<1>7. ASSUME NEW n \in 1 .. finish' PROVE cells'[n] \in subscribed'
  BY <1>0, <1>1, <1>2, <1>5 DEF Listed
<1>8. ASSUME NEW s \in subscribed' PROVE InCells(s, finish)' <=> ~Gone(s)'
  <2>1. CASE s = t
    <3>1. finish + 1 \in 1 .. finish'
      BY <1>1
    <3> QED
      BY <1>1, <1>2, <1>3, <1>4, <2>1, <3>1 DEF InCells
  <2>2. CASE s # t
    <3>1. s \in subscribed /\ s \in Session
      BY <1>0, <1>2, <2>2 DEF PSType
    <3>2. 1 .. finish \subseteq 1 .. finish'
      BY <1>1
    <3>3. InCells(s, finish)' <=> InCells(s, finish)
      BY <1>1, <1>2, <1>5, <2>2, <3>2 DEF InCells
    <3> QED
      BY <1>0, <1>3, <3>1, <3>3 DEF Listed
  <2> QED
    BY <2>1, <2>2
<1> QED
  BY <1>6, <1>7, <1>8 DEF Listed

\* The session that is deleted changes places with the last.
LEMMA ListedSwap ==
  ASSUME Good, NEW t \in Session, swap(t)
  PROVE  Listed'
<1>0. PSType /\ LoadedType /\ Listed /\ StepOf(t)
  BY DEF Good, Intact, StepOf, Thread
<1>1. /\ finish \in Nat /\ finish' = finish /\ Len(cells') = Len(cells)
      /\ UNCHANGED subscribed
  BY <1>0, CellsSwap DEF PSType, swap, SwapsCells
<1> DEFINE k == l[t].i
<1>2. /\ k \in 1 .. finish /\ cells[k] = t
      /\ \A n \in 1 .. finish :
           cells'[n] = IF n = finish THEN t ELSE IF n = k THEN cells[finish] ELSE cells[n]
  BY SwapIs
<1> HIDE DEF k
<1>3. \A u \in Session : Gone(u)' <=> Gone(u)
  BY <1>0, GoneOfStep, Places
<1>4. finish \in 1 .. finish
  BY <1>1, <1>2
<1>5. \A m, n \in 1 .. finish : cells[m] = cells[n] => m = n
  BY <1>0 DEF Listed
<1>6. ASSUME NEW m \in 1 .. finish, NEW n \in 1 .. finish, cells'[m] = cells'[n] PROVE m = n
  <2>1. \A j \in 1 .. finish : cells'[j] = cells[IF j = finish THEN k ELSE IF j = k THEN finish ELSE j]
    BY <1>2
  <2>2. \A j \in 1 .. finish : (IF j = finish THEN k ELSE IF j = k THEN finish ELSE j) \in 1 .. finish
    BY <1>2, <1>4
  <2>3. (IF m = finish THEN k ELSE IF m = k THEN finish ELSE m)
          = (IF n = finish THEN k ELSE IF n = k THEN finish ELSE n)
    BY <1>5, <1>6, <2>1, <2>2
  <2> QED
    BY <2>3
<1>7. ASSUME NEW n \in 1 .. finish PROVE \E j \in 1 .. finish : cells'[n] = cells[j]
  BY <1>2, <1>4
<1>8. ASSUME NEW s \in subscribed PROVE InCells(s, finish)' <=> ~Gone(s)'
  <2>1. ASSUME InCells(s, finish) PROVE InCells(s, finish)'
    <3>1. PICK j \in 1 .. finish : cells[j] = s
      BY <2>1 DEF InCells
    <3>2. \E n \in 1 .. finish : cells'[n] = s
      <4>1. CASE j = k
        BY <1>2, <1>4, <3>1, <4>1
      <4>2. CASE j # k /\ j = finish
        BY <1>2, <1>4, <3>1, <4>2
      <4>3. CASE j # k /\ j # finish
        BY <1>2, <3>1, <4>3
      <4> QED
        BY <4>1, <4>2, <4>3
    <3> QED
      BY <1>1, <3>2 DEF InCells
  <2>2. InCells(s, finish)' => InCells(s, finish)
    BY <1>1, <1>7 DEF InCells
  <2> QED
    BY <1>0, <1>3, <2>1, <2>2 DEF Listed, PSType
<1>9. \A n \in 1 .. finish : cells'[n] \in subscribed
  BY <1>0, <1>7 DEF Listed
<1> QED
  BY <1>0, <1>1, <1>6, <1>8, <1>9 DEF Listed

\* The last element is dropped: it is the session that is deleted.
LEMMA ListedPop ==
  ASSUME Good, NEW t \in Session, store_pop(t)
  PROVE  Listed'
<1>0. PSType /\ LoadedType /\ Listed /\ StepOf(t) /\ Stage(t)
  BY DEF Good, Intact, StepOf, Thread
<1>1. pc[t] = "store_pop" /\ finish # 0 /\ cells[finish] = t /\ l[t].loaded = finish
  BY <1>0, Places DEF Stage
<1>2. finish \in Nat \ {0} /\ finish' = finish - 1 /\ pc'[t] = "warn"
  BY <1>0, <1>1, GotoIs DEF PSType, store_pop
<1>3. UNCHANGED <<cells, subscribed>>
  BY DEF store_pop
<1>4. (\A u \in Session : u # t => (Gone(u)' <=> Gone(u))) /\ Gone(t)' /\ ~Gone(t)
  BY <1>0, <1>2, GoneOfStep
<1>5. /\ \A n \in 1 .. finish' : n \in 1 .. finish /\ n # finish
      /\ \A n \in 1 .. finish : n # finish => n \in 1 .. finish'
      /\ finish \in 1 .. finish
  BY <1>2
<1>6. finish' <= Len(cells)
  BY <1>0, <1>2 DEF Listed, PSType
<1>7. \A n \in 1 .. finish' : cells[n] \in subscribed /\ cells[n] # t
  BY <1>0, <1>1, <1>5 DEF Listed
<1>8. ASSUME NEW s \in subscribed PROVE InCells(s, finish)' <=> ~Gone(s)'
  <2>1. CASE s = t
    BY <1>3, <1>4, <1>7, <2>1 DEF InCells
  <2>2. CASE s # t
    <3>1. InCells(s, finish)' <=> InCells(s, finish)
      BY <1>1, <1>3, <1>5, <2>2 DEF InCells
    <3> QED
      BY <1>0, <1>4, <2>2, <3>1 DEF Listed, PSType
  <2> QED
    BY <2>1, <2>2
<1> QED
  BY <1>0, <1>3, <1>5, <1>6, <1>7, <1>8 DEF Listed

\* The list is exact after every step.
LEMMA ListedOfStep ==
  ASSUME Good, NEW t \in Session, StepOf(t)
  PROVE  Listed'
<1>0. PSType /\ LoadedType /\ Listed /\ Stage(t)
  BY DEF Good, Intact
<1>k. ASSUME UNCHANGED vector, UNCHANGED subscribed, \A u \in Session : Gone(u)' <=> Gone(u)
      PROVE  Listed'
  BY <1>0, <1>k, ListedKept DEF vector, Listed
<1>1. CASE find(t)
  <2>1. /\ UNCHANGED vector /\ pc[t] = "find"
        /\ \A u \in Session : Gone(u)' <=> Gone(u)
    BY <1>0, <1>1, GoneOfStep, Places DEF find, FindsOrPushes
  <2>2. CASE UNCHANGED subscribed
    BY <1>k, <2>1, <2>2
  <2>3. CASE ~UNCHANGED subscribed
    <3>1. /\ l[t].i <= l[t].e /\ t \in Reads(l[t].b, l[t].i)
          /\ subscribed' = subscribed \cup {t}
      BY <1>1, <2>3 DEF find, FindsOrPushes
    <3>2. l[t].i \in 1 .. finish /\ cells[l[t].i] = t
      BY <2>1, <3>1, SearchGoesOn
    <3>3. t \in subscribed
      BY <1>0, <3>2 DEF Listed
    <3> QED
      BY <2>3, <3>1, <3>3
  <2> QED
    BY <2>2, <2>3
<1>2. CASE store_push(t)
  BY <1>2, ListedPush
<1>3. CASE swap(t)
  BY <1>3, ListedSwap
<1>4. CASE store_pop(t)
  BY <1>4, ListedPop
<1>5. CASE erase(t)
  <2>1. UNCHANGED vector /\ subscribed' = subscribed \ {t}
    BY <1>5 DEF erase
  <2>2. Gone(t) /\ ~Gone(t)' /\ \A u \in Session : u # t => (Gone(u)' <=> Gone(u))
    BY <1>0, <1>5, GoneOfStep
  <2>3. \A s : InCells(s, finish) <=> InCells(s, finish)'
    BY <2>1 DEF InCells, vector
  <2>4. \A n \in 1 .. finish : cells[n] # t
    BY <1>0, <2>2 DEF Listed, InCells
  <2> QED
    BY <1>0, <2>1, <2>2, <2>3, <2>4 DEF Listed, PSType, vector
<1>6. CASE unsubscribe(t)
  <2>1. UNCHANGED vector /\ UNCHANGED subscribed /\ pc[t] = "unsubscribe"
    BY <1>0, <1>6, Places DEF unsubscribe
  <2>2. CASE pc'[t] # "warn"
    BY <1>0, <1>6, <1>k, <2>1, <2>2, GoneOfStep
  <2>3. CASE pc'[t] = "warn"
    <3>1. l[t].i > l[t].e
      BY <1>0, <1>6, <2>1, <2>3, GotoIs DEF unsubscribe
    <3>2. ~InCells(t, finish)
      BY <1>0, <2>1, <3>1, SearchEnds DEF Stage
    <3>3. Gone(t)' /\ ~Gone(t) /\ \A u \in Session : u # t => (Gone(u)' <=> Gone(u))
      BY <1>0, <1>6, <2>3, GoneOfStep
    <3>4. \A s : InCells(s, finish) <=> InCells(s, finish)'
      BY <2>1 DEF InCells, vector
    <3>5. ASSUME NEW s \in subscribed PROVE InCells(s, finish)' <=> ~Gone(s)'
      <4>1. CASE s = t
        BY <3>2, <3>3, <3>4, <4>1
      <4>2. CASE s # t
        BY <1>0, <3>3, <3>4, <4>2 DEF Listed, PSType
      <4> QED
        BY <4>1, <4>2
    <3> QED
      BY <1>0, <2>1, <3>5 DEF Listed, vector
  <2> QED
    BY <2>2, <2>3
<1>7. CASE push_back(t)
  <2>1. UNCHANGED subscribed /\ \A u \in Session : Gone(u)' <=> Gone(u)
    BY <1>0, <1>7, GoneOfStep, Places DEF push_back
  <2> QED
    BY <1>0, <1>7, <2>1, CellsPush, ListedKept DEF PSType
<1>8. CASE push_back_grows(t)
  <2>1. UNCHANGED subscribed /\ \A u \in Session : Gone(u)' <=> Gone(u)
    BY <1>0, <1>8, GoneOfStep, Places DEF push_back_grows
  <2>2. finish <= Len(cells')
    BY <1>0, <1>8, CellsGrow, LenProperties DEF PSType
  <2> QED
    BY <1>0, <1>8, <2>1, <2>2, CellsGrow, ListedKept
<1>9. CASE ~(\/ find(t) \/ store_push(t) \/ swap(t) \/ store_pop(t) \/ erase(t) \/ unsubscribe(t)
             \/ push_back(t) \/ push_back_grows(t))
  <2>1. Reader(t)
    BY <1>9, StepCases
  <2> QED
    BY <1>0, <1>9, <1>k, <2>1, ReaderKeeps, SubscribedKept, GoneOfStep
<1> QED
  BY <1>1, <1>2, <1>3, <1>4, <1>5, <1>6, <1>7, <1>8, <1>9

\* What the steps of thread t that disturb an emit leave with it.
LEMMA RacesOfStep ==
  ASSUME PSType, NEW t \in Session, NEW u \in Session, u # t, Emitting(u)
  PROVE  /\ lock_delete(t) => "deletion" \in l'[u].raced
         /\ push_back_grows(t) => "growth" \in l'[u].raced
<1>0. l[u] \in Locals
  BY DEF PSType
<1>1. ASSUME lock_delete(t) PROVE "deletion" \in l'[u].raced
  <2>1. l'[u] = [l[u] EXCEPT !.raced = @ \cup {"deletion"}]
    BY <1>1 DEF lock_delete, Overlaps
  <2> QED
    BY <1>0, <2>1 DEF Locals
<1>2. ASSUME push_back_grows(t) PROVE "growth" \in l'[u].raced
  <2>1. l'[u] = [l[u] EXCEPT !.raced = @ \cup {"growth"}]
    BY <1>2 DEF push_back_grows, Overlaps
  <2> QED
    BY <1>0, <2>1 DEF Locals
<1> QED
  BY <1>1, <1>2

\* The cells up to e are those that a loop began with.
Steady(e) ==
  /\ grown' = grown /\ e <= finish'
  /\ \A n \in 1 .. e : cells'[n] = cells[n]

\* A step of a thread that does not delete, and does not grow the list, leaves
\* a loop its cells.
LEMMA SteadyOfStep ==
  ASSUME Good, NEW t \in Session, StepOf(t), ~Deleting(t), ~push_back_grows(t)
  PROVE  \A e \in Nat : e <= finish /\ pc[t] # "grow" => Steady(e)
<1> SUFFICES ASSUME NEW e \in Nat, e <= finish, pc[t] # "grow" PROVE Steady(e)
  OBVIOUS
<1>0. PSType /\ finish \in Nat
  BY DEF Good, PSType
<1>1. CASE Reader(t)
  BY <1>0, <1>1, ReaderKeeps DEF vector, Steady
<1>2. CASE push_back(t)
  BY <1>0, <1>2, CellsPush DEF Steady
<1>3. CASE store_push(t)
  <2>1. finish' = finish + 1 /\ UNCHANGED <<grown, cells>>
    BY <1>0, <1>3, Places DEF Good, Intact, Stage, store_push
  <2> QED
    BY <1>0, <2>1 DEF Steady
<1>4. ~swap(t) /\ ~store_pop(t)
  BY <1>0, Places DEF Deleting
<1> QED
  BY <1>1, <1>2, <1>3, <1>4, StepCases

\* An emit of another thread that this step does not disturb.
LEMMA UndisturbedOther ==
  ASSUME Good, NEW t \in Session, NEW u \in Session, u # t, StepOf(t), Unraced(u)'
  PROVE  Undisturbed(u)'
<1>0. PSType /\ LoadedType /\ Same(u) /\ l[u] \in Locals
  BY Frame DEF Good, PSType
<1>1. Emitting(u) /\ "deletion" \notin l'[u].raced /\ "growth" \notin l'[u].raced
  BY <1>0, FrameSections DEF Unraced
<1>2. Undisturbed(u)
  BY <1>0, <1>1 DEF Unraced, Same, Good, Intact
<1>3. ~lock_delete(t) /\ ~push_back_grows(t) /\ ~Deleting(t) /\ pc[t] # "grow"
  BY <1>0, <1>1, <1>2, RacesOfStep DEF Undisturbed
<1>4. ~Deleting(t)' /\ pc'[t] # "grow"
  <2>1. ~Deleting(t)'
    BY <1>0, <1>3, SectionsOfStep
  <2>2. l[t].ret \in {"idle", "unlock_execute", "erase"}
    BY <1>0 DEF PSType, Locals
  <2>3. pc'[t] # "grow"
    BY <1>0, <1>3, <2>2, Places DEF StepOf, Thread
  <2> QED
    BY <2>1, <2>3
<1>5. \A v \in Session : (v # u => ~Deleting(v)') /\ pc'[v] # "grow"
  BY <1>0, <1>2, <1>4, Frame, FrameSections DEF Undisturbed, Same
<1>6. l[u].e \in Nat /\ l[u].i \in Nat \ {0} /\ l[u].e <= finish /\ l[u].i <= l[u].e + 1
  BY <1>0, <1>2 DEF Undisturbed, Locals
<1>7. Steady(l[u].e)
  BY <1>3, <1>6, SteadyOfStep
<1>8. l[u].before \subseteq session_pool'
  <2>1. session_pool \subseteq session_pool'
    <3>1. ~erase(t)
      BY <1>0, <1>3, Places DEF Deleting
    <3> QED
      BY <3>1 DEF StepOf, Thread, lock_subscribe, read_channel, read_channel_fails, find, FindsOrPushes, push_back, push_back_grows,
                  store_push, lock_delete, unsubscribe, swap, SwapsCells, pop, store_pop, lock_ping,
                  unlock_execute, UnlocksExecute, warn, emit, emit_returns, send, Begins, print,
                  create_session
  <2> QED
    BY <1>2, <2>1 DEF Undisturbed
<1>9. \A s : InCells(s, l[u].e) => InCells(s, l[u].e)'
  BY <1>0, <1>7 DEF InCells, Steady, Same
<1>10. /\ l'[u].b = grown' /\ l'[u].e <= finish' /\ l'[u].i <= l'[u].e + 1
       /\ l'[u].before \subseteq session_pool'
       /\ Len(l'[u].got) = l'[u].i - 1
  BY <1>0, <1>2, <1>7, <1>8 DEF Same, Steady, Undisturbed
<1>11. /\ \A n \in 1 .. l'[u].e : cells'[n] \in l'[u].before
       /\ \A s \in l'[u].before : InCells(s, l[u].e)'
  BY <1>0, <1>2, <1>7, <1>9 DEF Same, Steady, Undisturbed
<1>12. /\ \A n \in 1 .. (l'[u].i - 1) : l'[u].got[n][1] = cells'[n]
       /\ pc'[u] = "send" => l'[u].i <= l'[u].e /\ l'[u].loaded = cells'[l'[u].i]
  <2>1. \A n \in 1 .. (l[u].i - 1) : n \in 1 .. l[u].e
    BY <1>6
  <2>2. \A n \in 1 .. (l'[u].i - 1) : l'[u].got[n][1] = cells'[n]
    BY <1>0, <1>2, <1>7, <2>1 DEF Same, Steady, Undisturbed
  <2>3. pc[u] = "send" => l[u].i \in 1 .. l[u].e
    BY <1>2, <1>6 DEF Undisturbed
  <2> QED
    BY <1>0, <1>2, <1>7, <2>2, <2>3 DEF Same, Steady, Undisturbed
<1> QED
  BY <1>5, <1>10, <1>11, <1>12 DEF Undisturbed

\* An emit that begins while nothing disturbs it.
LEMMA UndisturbedBegins ==
  ASSUME Good, NEW t \in Session, StepOf(t), NEW next \in {"idle", "unlock_execute", "erase"},
         EmitThen(t, next), ~s_interrupted, UNCHANGED <<vector, session_pool>>,
         next = "erase" <=> Gone(t), Unraced(t)'
  PROVE  Undisturbed(t)'
<1>0. PSType /\ LoadedType /\ Listed /\ finish \in Nat
  BY DEF Good, Intact, PSType
<1>1. PICK end \in Ends : BegunFields(t, next, end, l'[t])
  BY <1>0, EmitLocals
<1>2. ~Growing /\ \A v \in Session : v # t => ~Deleting(v)
  <2>1. "deletion" \notin Underway(t) /\ "growth" \notin Underway(t)
    BY <1>1 DEF BegunFields, Unraced
  <2>2. ~Growing
    BY <2>1 DEF Underway
  <2>3. ~(\E v \in Session \ {t} : Deleting(v))
    BY <2>1 DEF Underway
  <2> QED
    BY <2>2, <2>3
<1>3. end = finish
  BY <1>1, <1>2 DEF Ends
<1>4. /\ l'[t].b = grown' /\ l'[t].e = finish /\ l'[t].i = 1 /\ l'[t].got = << >>
      /\ l'[t].before = Receivers(t, next) /\ finish' = finish /\ cells' = cells
  BY <1>1, <1>3 DEF BegunFields, vector
<1>5. pc'[t] = "emit"
  BY <1>0, EmitGoes
<1>6. \A v \in Session : (v # t => ~Deleting(v)') /\ pc'[v] # "grow"
  BY <1>0, <1>2, <1>5, Frame, FrameSections DEF Growing, Same
<1>7. ASSUME NEW n \in 1 .. finish PROVE cells[n] \in Receivers(t, next)
  <2>1. cells[n] \in subscribed /\ InCells(cells[n], finish)
    BY <1>0 DEF Listed, InCells
  <2>2. cells[n] = t => next # "erase"
    BY <1>0, <2>1 DEF Listed
  <2> QED
    BY <2>1, <2>2 DEF Receivers
<1>8. ASSUME NEW s \in Receivers(t, next) PROVE InCells(s, finish)
  <2>1. s \in subscribed /\ s \in Session /\ (next = "erase" => s # t)
    BY <1>0 DEF Receivers, PSType
  <2>2. ~Gone(s)
    <3>1. CASE s = t
      BY <2>1, <3>1
    <3>2. CASE s # t
      BY <1>2, <2>1, <3>2 DEF Gone, Deleting
    <3> QED
      BY <3>1, <3>2
  <2> QED
    BY <1>0, <2>1, <2>2 DEF Listed
<1>9. l'[t].before \subseteq session_pool'
  BY <1>4 DEF Receivers, Good, Exist
<1>10. /\ \A n \in 1 .. l'[t].e : cells'[n] \in l'[t].before
       /\ \A s \in l'[t].before : InCells(s, l[t].e)'
  BY <1>4, <1>7, <1>8 DEF InCells
<1>11. /\ Len(l'[t].got) = l'[t].i - 1 /\ l'[t].e <= finish' /\ l'[t].i <= l'[t].e + 1
       /\ \A n \in 1 .. (l'[t].i - 1) : l'[t].got[n][1] = cells'[n]
  BY <1>0, <1>4
<1> QED
  BY <1>4, <1>5, <1>6, <1>9, <1>10, <1>11 DEF Undisturbed

\* An undisturbed emit reads the subscribers, who exist.
LEMMA UndisturbedReads ==
  ASSUME Good, NEW t \in Session, Undisturbed(t), l[t].i <= l[t].e
  PROVE  Reads(l[t].b, l[t].i) = {cells[l[t].i]} /\ cells[l[t].i] \in session_pool
<1>1. l[t].i \in Nat \ {0} /\ l[t].e \in Nat /\ finish \in Nat /\ l[t].e <= finish /\ l[t].b = grown
  BY DEF Good, PSType, Locals, Undisturbed
<1>2. ~Growing
  BY DEF Growing, Undisturbed
<1>3. Reads(grown, l[t].i) = {cells[l[t].i]}
  BY <1>1, <1>2, ReadsHere
<1>4. cells[l[t].i] \in session_pool
  BY <1>1 DEF Undisturbed
<1> QED
  BY <1>1, <1>3, <1>4

\* The round of an undisturbed emit.
LEMMA UndisturbedRound ==
  ASSUME Good, NEW t \in Session, emit(t) \/ send(t), Unraced(t)'
  PROVE  Unraced(t) /\ Undisturbed(t) /\ Undisturbed(t)'
<1>0. PSType /\ LoadedType /\ l \in [Session -> Locals] /\ l[t] \in Locals /\ StepOf(t)
  BY DEF Good, PSType, StepOf, Thread
<1>1. /\ l'[t].raced = l[t].raced /\ l'[t].b = l[t].b /\ l'[t].e = l[t].e
      /\ l'[t].before = l[t].before
  <2>1. CASE emit(t)
    BY <1>0, <2>1 DEF emit, Loads, Locals
  <2>2. CASE send(t)
    <3>1. \/ UNCHANGED l
          \/ l' = [l EXCEPT ![t].got = Append(@, <<l[t].loaded, fmt_buffer>>), ![t].i = @ + 1]
      BY <2>2 DEF send
    <3> QED
      BY <1>0, <3>1 DEF Locals
  <2> QED
    BY <2>1, <2>2
<1>2. Unraced(t) /\ Undisturbed(t)
  <2>1. Emitting(t)
    BY <1>0, Places DEF Emitting
  <2> QED
    BY <1>1, <2>1 DEF Unraced, Good, Intact
<1>3. UNCHANGED <<vector, session_pool>>
  BY DEF emit, send
<1>4. \A v \in Session : (v # t => ~Deleting(v)') /\ pc'[v] # "grow"
  BY <1>0, <1>2, Frame, FrameSections, Places DEF Undisturbed, Same
<1>5. l[t].i \in Nat \ {0} /\ l[t].e \in Nat /\ l[t].got \in Seq(Delivery)
  BY <1>0 DEF Locals
<1>6. \A s : InCells(s, l[t].e) => InCells(s, l[t].e)'
  BY <1>1, <1>3 DEF InCells, vector
<1>7. /\ l'[t].b = grown' /\ l'[t].e <= finish' /\ l'[t].before \subseteq session_pool'
      /\ \A n \in 1 .. l'[t].e : cells'[n] \in l'[t].before
      /\ \A s \in l'[t].before : InCells(s, l[t].e)'
  BY <1>1, <1>2, <1>3, <1>6 DEF Undisturbed, vector
<1>8. /\ l'[t].i <= l'[t].e + 1 /\ Len(l'[t].got) = l'[t].i - 1
      /\ \A n \in 1 .. (l'[t].i - 1) : l'[t].got[n][1] = cells'[n]
      /\ pc'[t] = "send" => l'[t].i <= l'[t].e /\ l'[t].loaded = cells'[l'[t].i]
  <2>1. CASE UNCHANGED <<l, pc>>
    BY <1>2, <1>3, <2>1 DEF Undisturbed, vector
  <2>2. CASE emit(t) /\ ~UNCHANGED <<l, pc>>
    <3>1. PICK v \in Reads(l[t].b, l[t].i) : Loads(t, v) /\ Goto(t, "send")
      BY <2>2 DEF emit, Crashes
    <3>2. l[t].i <= l[t].e
      BY <2>2 DEF emit
    <3>3. v = cells[l[t].i]
      BY <1>2, <3>1, <3>2, UndisturbedReads
    <3>4. l'[t].loaded = v /\ l'[t].i = l[t].i /\ l'[t].got = l[t].got
      BY <1>0, <3>1 DEF Loads, Locals
    <3> QED
      BY <1>1, <1>2, <1>3, <3>2, <3>3, <3>4 DEF Undisturbed, vector
  <2>3. CASE send(t) /\ ~UNCHANGED <<l, pc>>
    <3>1. /\ l' = [l EXCEPT ![t].got = Append(@, <<l[t].loaded, fmt_buffer>>), ![t].i = @ + 1]
          /\ Goto(t, "emit") /\ pc[t] = "send"
      BY <2>3 DEF send, Crashes, At
    <3>2. l' = [l EXCEPT ![t] = [l[t] EXCEPT !.got = Append(@, <<l[t].loaded, fmt_buffer>>),
                                             !.i = @ + 1]]
      BY <1>0, <3>1
    <3>3. l'[t].i = l[t].i + 1 /\ l'[t].got = Append(l[t].got, <<l[t].loaded, fmt_buffer>>)
      BY <1>0, <3>2 DEF Locals
    <3>4. /\ l[t].i <= l[t].e /\ l[t].loaded = cells[l[t].i] /\ Len(l[t].got) = l[t].i - 1
          /\ \A n \in 1 .. (l[t].i - 1) : l[t].got[n][1] = cells[n]
      BY <1>2, <3>1 DEF Undisturbed
    <3>5. Len(l'[t].got) = l[t].i /\ l'[t].i <= l'[t].e + 1
      BY <1>1, <1>5, <3>3, <3>4
    <3>6. ASSUME NEW n \in 1 .. (l'[t].i - 1) PROVE l'[t].got[n][1] = cells'[n]
      <4>1. n \in 1 .. (l[t].i - 1) \/ n = l[t].i
        BY <1>5, <3>3
      <4>2. CASE n \in 1 .. (l[t].i - 1)
        <5>1. l'[t].got[n] = l[t].got[n]
          BY <1>5, <3>3, <3>4, <4>2
        <5> QED
          BY <1>3, <3>4, <4>2, <5>1 DEF vector
      <4>3. CASE n = l[t].i
        <5>1. l'[t].got[n] = <<l[t].loaded, fmt_buffer>>
          BY <1>5, <3>3, <3>4, <4>3
        <5> QED
          BY <1>3, <3>4, <4>3, <5>1 DEF vector
      <4> QED
        BY <4>1, <4>2, <4>3
    <3>7. pc'[t] = "emit"
      BY <1>0, <3>1, GotoIs
    <3> QED
      BY <1>5, <3>3, <3>5, <3>6, <3>7
  <2> QED
    BY <2>1, <2>2, <2>3
<1> QED
  BY <1>2, <1>4, <1>7, <1>8 DEF Undisturbed

\* The emit of the thread that moves.
LEMMA UndisturbedOwn ==
  ASSUME Good, NEW t \in Session, StepOf(t), Unraced(t)'
  PROVE  Undisturbed(t)'
<1>0. PSType /\ l[t].ret \in {"idle", "unlock_execute", "erase"}
  BY DEF Good, PSType, Locals
<1>1. CASE emit(t) \/ send(t)
  BY <1>1, UndisturbedRound
<1>2. CASE lock_ping(t) \/ read_channel_fails(t)
  <2>1. EmitThen(t, "unlock_execute") /\ UNCHANGED <<vector, session_pool>> /\ ~Gone(t)
    BY <1>0, <1>2, Places DEF lock_ping, read_channel_fails, Gone, Emitting
  <2>2. ~s_interrupted
    BY <1>0, <2>1, EmitGoes DEF Unraced, Emitting
  <2> QED
    BY <2>1, <2>2, UndisturbedBegins
<1>3. CASE print(t)
  <2>1. /\ EmitThen(t, "idle") /\ UNCHANGED <<vector, session_pool>> /\ ~Gone(t)
        /\ ~s_interrupted
    BY <1>0, <1>3, Places DEF print, Gone, Emitting
  <2> QED
    BY <2>1, UndisturbedBegins
<1>4. CASE warn(t)
  <2>1. UNCHANGED <<vector, session_pool>> /\ Gone(t)
    BY <1>0, <1>4, Places DEF warn, Gone
  <2>2. EmitThen(t, "erase")
    BY <1>0, <1>4, GotoIs DEF warn, Unraced, Emitting
  <2>3. ~s_interrupted
    BY <1>0, <2>2, EmitGoes DEF Unraced, Emitting
  <2> QED
    BY <2>1, <2>2, <2>3, UndisturbedBegins
<1>5. emit(t) \/ send(t) \/ lock_ping(t) \/ read_channel_fails(t) \/ print(t) \/ warn(t)
  BY <1>0, Places DEF StepOf, Thread, Unraced, Emitting
<1> QED
  BY <1>1, <1>2, <1>3, <1>4, <1>5

\* Every step of a thread keeps the list intact until a clash.
LEMMA IntactOfStep ==
  ASSUME Good, NEW t \in Session, StepOf(t), ~clash'
  PROVE  Intact'
<1>1. PSType /\ LoadedType /\ Apart
  BY DEF Good, Intact
<1>2. Apart'
  BY <1>1, ApartOfStep
<1>3. \A u \in Session : Stage(u)'
  BY StageOther, StageOwn
<1>4. \A u \in Session : Unraced(u)' => Undisturbed(u)'
  BY UndisturbedOther, UndisturbedOwn
<1> QED
  BY <1>2, <1>3, <1>4, ListedOfStep DEF Intact

\* A step crashes only an emit that was overlapped, as long as the list is
\* intact.
LEMMA CrashOfStep ==
  ASSUME Good, CrashOnlyOnOverlap, NEW t \in Session, StepOf(t), ~clash'
  PROVE  CrashOnlyOnOverlap'
<1>0. PSType /\ LoadedType /\ Stage(t) /\ l[t] \in Locals
  BY DEF Good, Intact, PSType
<1>1. crashed = None
  BY DEF StepOf, Thread, At, lock_subscribe, read_channel, read_channel_fails, find, FindsOrPushes, push_back, push_back_grows,
         store_push, lock_delete, unsubscribe, swap, SwapsCells, pop, store_pop, erase, lock_ping,
         unlock_execute, UnlocksExecute, warn, emit, emit_returns, send, Begins, print, create_session
<1>2. CASE emit(t) \/ send(t)
  <2>1. SUFFICES ASSUME crashed' # None
                 PROVE  l'[crashed'].raced \cap {"deletion", "growth"} # {}
    BY DEF CrashOnlyOnOverlap
  <2>2. crashed' = t /\ UNCHANGED <<l, pc>>
    BY <1>1, <1>2, <2>1 DEF emit, send, Crashes
  <2>3. ASSUME Unraced(t) PROVE FALSE
    <3>1. Unraced(t)' /\ Undisturbed(t)
      BY <2>2, <2>3 DEF Unraced, Emitting, Good, Intact
    <3>2. CASE emit(t)
      <4>1. l[t].i <= l[t].e
        BY <3>2 DEF emit
      <4>2. Reads(l[t].b, l[t].i) = {cells[l[t].i]} /\ cells[l[t].i] \in session_pool
        BY <3>1, <4>1, UndisturbedReads
      <4> QED
        BY <1>1, <2>1, <3>2, <4>2 DEF emit
    <3>3. CASE send(t)
      <4>1. l[t].i <= l[t].e /\ l[t].loaded = cells[l[t].i]
        BY <1>0, <3>1, <3>3, Places DEF Undisturbed
      <4>2. cells[l[t].i] \in session_pool
        BY <3>1, <4>1, UndisturbedReads
      <4> QED
        BY <1>1, <2>1, <3>3, <4>1, <4>2 DEF send
    <3> QED
      BY <1>2, <3>2, <3>3
  <2>4. Emitting(t)
    BY <1>0, <1>2, Places DEF Emitting
  <2> QED
    BY <2>2, <2>3, <2>4 DEF Unraced
<1>3. CASE swap(t)
  BY <1>1, <1>3, SwapIs DEF CrashOnlyOnOverlap
<1>4. CASE store_pop(t)
  <2>1. l[t].loaded # 0
    BY <1>0, <1>4, Places DEF Stage
  <2> QED
    BY <1>1, <1>4, <2>1 DEF store_pop, CrashOnlyOnOverlap
<1>5. CASE ~(emit(t) \/ send(t) \/ swap(t) \/ store_pop(t))
  <2>1. UNCHANGED crashed
    BY <1>5 DEF StepOf, Thread, lock_subscribe, read_channel, read_channel_fails, find, FindsOrPushes, push_back, push_back_grows,
         store_push, lock_delete, unsubscribe, pop, erase, lock_ping, unlock_execute, UnlocksExecute,
         warn, emit_returns, Begins, print, create_session
  <2> QED
    BY <1>1, <2>1 DEF CrashOnlyOnOverlap
<1> QED
  BY <1>2, <1>3, <1>4, <1>5

-----------------------------------------------------------------------------
(* The invariant. *)

\* An empty list, and nobody does anything.
LEMMA InitHasInv == PSInit => PSInv
<1> SUFFICES ASSUME PSInit PROVE PSInv
  OBVIOUS
<1>1. \A t \in Session : pc[t] = "idle" /\ l[t] = Fresh
  BY DEF PSInit
<1>2. PSType
  <2>1. l \in [Session -> Locals]
    BY FreshType DEF PSInit
  <2>2. cells \in Seq(Session \cup {Garbage})
    BY EmptySeq DEF PSInit
  <2> QED
    BY <2>1, <2>2 DEF PSInit, PSType, Pc
<1>3. LoadedType /\ Locked /\ Exist /\ OwnText
  <2>1. LoadedType /\ OwnText
    BY <1>1 DEF LoadedType, OwnText, Emitting
  <2>2. Locked
    BY <1>1, PubSubAssumption DEF PSInit, Locked, InCommand, Subscribing, Deleting, Emitting
  <2>3. Exist
    BY <1>1 DEF PSInit, Exist
  <2> QED
    BY <2>1, <2>2, <2>3
<1>4. Intact
  <2>1. Apart /\ \A t \in Session : Stage(t) /\ ~Unraced(t)
    BY <1>1 DEF Apart, Subscribing, Stage, Unraced, Emitting
  <2>2. finish = 0 /\ subscribed = {} /\ Len(cells) = 0
    BY DEF PSInit
  <2>3. Listed
    BY <2>2 DEF Listed
  <2> QED
    BY <2>1, <2>3 DEF Intact
<1> QED
  BY <1>2, <1>3, <1>4 DEF PSInv, PSInit, CrashOnlyOnOverlap

\* A step of a client, a signal, or none.
LEMMA InvOfEnv ==
  ASSUME PSInv, UNCHANGED <<vector, locks, fmt_buffer, session_pool, pc, l, crashed,
                            subscribed, clash>>,
         s_interrupted' \in BOOLEAN, stalled' \subseteq Slow, ops' \in Nat
  PROVE  PSInv'
<1>1. PSType'
  BY DEF PSInv, PSType, vector, locks
<1>2. LoadedType' /\ Locked' /\ Exist' /\ OwnText'
  BY DEF PSInv, LoadedType, Locked, InCommand, Subscribing, Deleting, Emitting, Exist, OwnText, locks
<1>3. Apart' <=> Apart
  BY DEF Apart, Subscribing, Deleting, Emitting
<1>4. Listed' <=> Listed
  BY DEF Listed, InCells, Gone, Emitting, vector
<1>5. \A t \in Session : Stage(t)' <=> Stage(t)
  BY DEF Stage, Searches, InCells, vector
<1>6. \A t \in Session : (Unraced(t)' <=> Unraced(t)) /\ (Undisturbed(t)' <=> Undisturbed(t))
  BY DEF Unraced, Undisturbed, Deleting, Emitting, InCells, vector
<1>7. Intact' <=> Intact
  BY <1>3, <1>4, <1>5, <1>6 DEF Intact
<1> QED
  BY <1>1, <1>2, <1>7 DEF PSInv, CrashOnlyOnOverlap

\* The invariant is inductive.
LEMMA NextKeepsPSInv == PSInv /\ [PSNext]_vars => PSInv'
<1> SUFFICES ASSUME PSInv, [PSNext]_vars PROVE PSInv'
  OBVIOUS
<1>0. PSType /\ LoadedType /\ Locked /\ Exist /\ OwnText /\ CrashOnlyOnOverlap
  BY DEF PSInv
<1>1. ASSUME NEW t \in Session, StepOf(t) PROVE PSInv'
  <2>1. PSType' /\ LoadedType' /\ Locked' /\ Exist' /\ OwnText'
    BY <1>0, <1>1, TypeOfStep, LoadedOfStep, LockedOfStep, ExistOfStep, OwnTextOfStep
  <2>2. CASE clash'
    BY <2>1, <2>2 DEF PSInv, CrashOnlyOnOverlap
  <2>3. CASE ~clash'
    <3>1. ~clash
      BY <1>0, <1>1, <2>3, ClashOfStep
    <3>2. Good
      BY <1>0, <3>1 DEF PSInv, Good
    <3> QED
      BY <1>0, <1>1, <2>1, <2>3, <3>2, IntactOfStep, CrashOfStep DEF PSInv
  <2> QED
    BY <2>2, <2>3
<1>2. ASSUME NEW s \in Session, client_stalls(s) PROVE PSInv'
  BY <1>0, <1>2, InvOfEnv DEF client_stalls, PSType
<1>3. ASSUME NEW s \in Session, client_reads(s) PROVE PSInv'
  BY <1>0, <1>3, InvOfEnv DEF client_reads, PSType
<1>4. CASE exit_signal_handler
  BY <1>0, <1>4, InvOfEnv DEF exit_signal_handler, PSType
<1>5. CASE UNCHANGED vars
  BY <1>0, <1>5, InvOfEnv DEF vars, env, PSType
<1> QED
  BY <1>1, <1>2, <1>3, <1>4, <1>5 DEF PSNext, StepOf

LEMMA PSInvHolds == PSSpec => []PSInv
  BY InitHasInv, NextKeepsPSInv, PTL DEF PSSpec

\* The variables of the channel keep their types, whatever clashes: the end of
\* the list is never negative, and what a thread has loaded and stores is a
\* number (pubsub.hpp:48, :61).
THEOREM ChannelTypes == PSSpec => [](PSType /\ LoadedType)
<1>1. PSInv => PSType /\ LoadedType
  BY DEF PSInv
<1> QED
  BY <1>1, PSInvHolds, PTL

\* Distinct cells hold as many sessions.
LEMMA CellsCount ==
  ASSUME NEW c, NEW k \in Nat, \A m, n \in 1 .. k : c[m] = c[n] => m = n
  PROVE  Cardinality({c[n] : n \in 1 .. k}) = k
<1> DEFINE S == {c[n] : n \in 1 .. k}
           f == [n \in 1 .. k |-> c[n]]
<1>0. /\ f \in [1 .. k -> S]
      /\ \A m, n \in 1 .. k : f[m] = f[n] => m = n
      /\ \A s \in S : \E n \in 1 .. k : f[n] = s
  OBVIOUS
<1>1. f \in Bijection(1 .. k, S)
  <2> HIDE DEF S, f
  <2> QED
    BY <1>0, Fun_IsBij
<1>2. ExistsBijection(1 .. k, S)
  BY <1>1 DEF ExistsBijection
<1> HIDE DEF S
<1>3. Cardinality(S) = k
  BY <1>2, FS_CountingElements
<1> QED
  BY <1>3 DEF S

\* Whenever nobody is changing the list it holds each subscribed session once
\* and nobody else, until a subscription overlaps an unsubscription, for any
\* number of sessions and of threads that emit meanwhile (pubsub.hpp:37, :53).
THEOREM ListIsExact == PSSpec => []ListExact
<1>1. PSInv => ListExact
  <2> SUFFICES ASSUME PSInv, Quiet, ~clash
               PROVE  /\ {cells[n] : n \in 1 .. finish} = subscribed
                      /\ finish = Cardinality(subscribed)
    BY DEF ListExact
  <2>1. Listed /\ finish \in Nat /\ subscribed \subseteq Session
    BY DEF PSInv, Intact, PSType
  <2>2. \A s \in Session : ~Gone(s)
    BY DEF Quiet, Deleting, Gone
  <2>3. {cells[n] : n \in 1 .. finish} = subscribed
    BY <2>1, <2>2 DEF Listed, InCells
  <2>4. PICK c : c = cells
    OBVIOUS
  <2>5. PICK k : k = finish
    OBVIOUS
  <2>6. Cardinality({c[n] : n \in 1 .. k}) = k
    BY <2>1, <2>4, <2>5, CellsCount DEF Listed
  <2> QED
    BY <2>3, <2>4, <2>5, <2>6
<1> QED
  BY <1>1, PSInvHolds, PTL

\* An emit throws or reads freed memory only if a deletion or a growth of the
\* list overlapped it, or the list was damaged before (pubsub.tpp:22).
THEOREM CrashesOnlyOnOverlap == PSSpec => []CrashOnlyOnOverlap
<1>1. PSInv => CrashOnlyOnOverlap
  BY DEF PSInv
<1> QED
  BY <1>1, PSInvHolds, PTL

\* An emit that no deletion or growth overlaps sends to each of the sessions
\* subscribed when it began once and to no other, and its own text unless
\* another thread formats one meanwhile (pubsub.tpp:42, :57).
THEOREM DeliversOnce == PSSpec => []DeliveredOnce
<1>1. PSInv => DeliveredOnce
  <2> SUFFICES ASSUME PSInv, NEW t \in Session, pc[t] = "emit", l[t].i > l[t].e, ~clash,
                      l[t].raced \cap {"deletion", "growth"} = {}
               PROVE  /\ {l[t].got[n][1] : n \in DOMAIN l[t].got} = l[t].before
                      /\ Len(l[t].got) = Cardinality(l[t].before)
                      /\ "text" \notin l[t].raced => \A n \in DOMAIN l[t].got : l[t].got[n][2] = t
    BY DEF DeliveredOnce
  <2>1. Unraced(t) /\ Undisturbed(t) /\ Listed
    BY DEF Unraced, Emitting, PSInv, Intact
  <2>2. /\ l[t].i \in Nat \ {0} /\ l[t].e \in Nat /\ finish \in Nat /\ l[t].e <= finish
        /\ l[t].got \in Seq(Delivery)
    BY <2>1 DEF PSInv, PSType, Locals, Undisturbed
  <2>3. l[t].i - 1 = l[t].e /\ Len(l[t].got) = l[t].e /\ DOMAIN l[t].got = 1 .. l[t].e
    BY <2>1, <2>2 DEF Undisturbed
  <2>4. {l[t].got[n][1] : n \in DOMAIN l[t].got} = {cells[n] : n \in 1 .. l[t].e}
    BY <2>1, <2>3 DEF Undisturbed
  <2>5. {cells[n] : n \in 1 .. l[t].e} = l[t].before
    BY <2>1 DEF Undisturbed, InCells
  <2>6. PICK c : c = cells
    OBVIOUS
  <2>7. PICK k : k = l[t].e
    OBVIOUS
  <2>8. \A m, n \in 1 .. k : c[m] = c[n] => m = n
    BY <2>1, <2>2, <2>6, <2>7 DEF Listed
  <2>9. Cardinality({c[n] : n \in 1 .. k}) = k
    BY <2>2, <2>7, <2>8, CellsCount
  <2>10. Len(l[t].got) = Cardinality(l[t].before)
    BY <2>3, <2>5, <2>6, <2>7, <2>9
  <2>11. "text" \notin l[t].raced => \A n \in DOMAIN l[t].got : l[t].got[n][2] = t
    BY DEF PSInv, OwnText, Emitting
  <2> QED
    BY <2>4, <2>5, <2>10, <2>11
<1> QED
  BY <1>1, PSInvHolds, PTL
=============================================================================
