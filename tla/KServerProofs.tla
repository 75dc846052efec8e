---------------------------- MODULE KServerProofs ----------------------------
(***************************************************************************)
(* Proofs about SessionManager and about KServer, which extends it.        *)
(*                                                                         *)
(* SessionManager, for every set of descriptors and channel numbers: the   *)
(* ids issued so far are an interval split between the pool and the stack, *)
(* hence a new id is neither live nor on the stack, hence map::insert      *)
(* never drops a session, hence the counter and the sockets stay right.    *)
(*                                                                         *)
(* KServer, for any number of channels, descriptors and session threads:   *)
(* an open socket has one holder, which is the comm thread that accepted   *)
(* it, then the thread spawned for it, then the session in the pool; a     *)
(* session object belongs to one thread; and until delete_all begins       *)
(* nobody but that thread deletes it.                                      *)
(***************************************************************************)
EXTENDS KServer, SequenceTheorems, FiniteSetTheorems, TLAPS

-----------------------------------------------------------------------------
(* SessionManager. *)

Injective(s) == \A i, j \in DOMAIN s : s[i] = s[j] => i = j

\* push_back of a new element.
LEMMA PushBack ==
  ASSUME NEW s \in Seq(Nat), NEW x \in Nat, Injective(s), x \notin Range(s)
  PROVE  /\ Append(s, x) \in Seq(Nat)
         /\ Len(Append(s, x)) = Len(s) + 1
         /\ Range(Append(s, x)) = Range(s) \cup {x}
         /\ Injective(Append(s, x))
<1> DEFINE t == Append(s, x)
<1>1. t \in Seq(Nat) /\ Len(t) = Len(s) + 1 /\ t[Len(s) + 1] = x
      /\ \A i \in 1..Len(s) : t[i] = s[i]
  BY AppendProperties
<1>2. DOMAIN s = 1..Len(s) /\ DOMAIN t = 1..(Len(s) + 1) /\ Len(s) \in Nat
  BY <1>1
<1> HIDE DEF t
<1>3. Range(t) = Range(s) \cup {x}
  BY <1>1, <1>2 DEF Range
<1>4. Injective(t)
  <2>1. \A i \in 1..Len(s) : s[i] # x
    BY <1>2 DEF Range
  <2>2. \A i, j \in 1..Len(s) : s[i] = s[j] => i = j
    BY <1>2 DEF Injective
  <2>3. ASSUME NEW i \in 1..(Len(s) + 1), NEW j \in 1..(Len(s) + 1), t[i] = t[j]
        PROVE  i = j
    <3>1. /\ i = Len(s) + 1 \/ i \in 1..Len(s)
          /\ j = Len(s) + 1 \/ j \in 1..Len(s)
      BY <1>2
    <3> HIDE DEF Injective
    <3> QED BY <1>1, <2>1, <2>2, <2>3, <3>1, Zenon
  <2> QED BY <1>2, <2>3 DEF Injective
<1> QED BY <1>1, <1>3, <1>4 DEF t

\* Subscribers::subscribe adds the session and keeps the vector free of
\* duplicates.
LEMMA SubscribeToProperties ==
  ASSUME NEW s \in Seq(Nat), NEW sid \in Nat, Injective(s)
  PROVE  /\ SubscribeTo(s, sid) \in Seq(Nat)
         /\ Range(SubscribeTo(s, sid)) = Range(s) \cup {sid}
         /\ Injective(SubscribeTo(s, sid))
<1>1. CASE sid \in Range(s)
  BY <1>1 DEF SubscribeTo
<1>2. CASE sid \notin Range(s)
  <2>1. SubscribeTo(s, sid) = Append(s, sid)
    BY <1>2 DEF SubscribeTo
  <2> QED BY <1>2, <2>1, PushBack
<1> QED BY <1>1, <1>2

\* std::find returns a position that holds the element.
LEMMA FirstIndexFound ==
  ASSUME NEW s \in Seq(Nat), NEW sid \in Range(s), Injective(s)
  PROVE  FirstIndex(s, sid) \in 1..Len(s) /\ s[FirstIndex(s, sid)] = sid
<1>1. DOMAIN s = 1..Len(s)
  OBVIOUS
<1>2. PICK i \in DOMAIN s : s[i] = sid
  BY DEF Range
<1>3. \A j \in 1..(i - 1) : s[j] # sid
  BY <1>1, <1>2 DEF Injective
<1> QED BY <1>1, <1>2, <1>3 DEF FirstIndex

\* Overwriting position k by the last element and dropping the last position
\* removes exactly the element at k.
LEMMA SwapWithBackAndPop ==
  ASSUME NEW s, NEW t, NEW n \in Nat, NEW k \in 1..n,
         DOMAIN s = 1..n, DOMAIN t = 1..(n - 1), Injective(s),
         \A i \in 1..(n - 1) : t[i] = IF i = k THEN s[n] ELSE s[i]
  PROVE  Range(t) = Range(s) \ {s[k]} /\ Injective(t)
<1>0. \A i, j \in 1..n : s[i] = s[j] => i = j
  BY DEF Injective
<1>1. \A i \in 1..(n - 1) : t[i] \in Range(s) \ {s[k]}
  <2> TAKE i \in 1..(n - 1)
  <2>1. t[i] # s[k]
    BY <1>0
  <2>2. t[i] \in Range(s)
    BY DEF Range
  <2> QED BY <2>1, <2>2
<1>2. \A j \in 1..n : s[j] # s[k] => \E i \in 1..(n - 1) : t[i] = s[j]
  <2> TAKE j \in 1..n
  <2> HAVE s[j] # s[k]
  <2>1. CASE j = n
    <3>1. k \in 1..(n - 1) /\ t[k] = s[j]
      BY <2>1
    <3> QED BY <3>1
  <2>2. CASE j # n
    <3>1. j \in 1..(n - 1) /\ t[j] = s[j]
      BY <2>2
    <3> QED BY <3>1
  <2> QED BY <2>1, <2>2
<1>3. Range(t) = Range(s) \ {s[k]}
  <2>1. /\ \A i \in DOMAIN t : t[i] \in Range(s) \ {s[k]}
        /\ \A j \in DOMAIN s : s[j] # s[k] => \E i \in DOMAIN t : t[i] = s[j]
    BY <1>1, <1>2, Zenon
  <2>2. ASSUME NEW x \in Range(t)
        PROVE  x \in Range(s) \ {s[k]}
    BY <2>1 DEF Range
  <2>3. ASSUME NEW x \in Range(s), x # s[k]
        PROVE  x \in Range(t)
    <3>1. PICK j \in DOMAIN s : x = s[j]
      BY DEF Range
    <3>2. PICK i \in DOMAIN t : t[i] = s[j]
      BY <2>1, <2>3, <3>1
    <3> QED BY <3>1, <3>2 DEF Range
  <2> QED BY <2>2, <2>3
<1>4. ASSUME NEW i \in 1..(n - 1), NEW j \in 1..(n - 1), t[i] = t[j]
      PROVE  i = j
  <2>1. i \in 1..n /\ j \in 1..n /\ n \in 1..n /\ i # n /\ j # n
    OBVIOUS
  <2>2. CASE i = k /\ j # k
    <3>1. t[i] = s[n] /\ t[j] = s[j]
      BY <2>2
    <3> QED BY <1>0, <1>4, <2>1, <3>1
  <2>3. CASE i # k /\ j = k
    <3>1. t[j] = s[n] /\ t[i] = s[i]
      BY <2>3
    <3> QED BY <1>0, <1>4, <2>1, <3>1
  <2>4. CASE i # k /\ j # k
    <3>1. t[i] = s[i] /\ t[j] = s[j]
      BY <2>4
    <3> QED BY <1>0, <1>4, <2>1, <3>1
  <2> QED BY <2>2, <2>3, <2>4
<1> QED BY <1>3, <1>4 DEF Injective

\* Subscribers::unsubscribe removes the session and nobody else.
LEMMA UnsubscribeFromProperties ==
  ASSUME NEW s \in Seq(Nat), NEW sid \in Nat, Injective(s)
  PROVE  /\ UnsubscribeFrom(s, sid) \in Seq(Nat)
         /\ Range(UnsubscribeFrom(s, sid)) = Range(s) \ {sid}
         /\ Injective(UnsubscribeFrom(s, sid))
<1>1. CASE sid \notin Range(s)
  BY <1>1 DEF UnsubscribeFrom
<1>2. CASE sid \in Range(s)
  <2>1. PICK n \in Nat : n = Len(s) /\ s \in [1..n -> Nat] /\ DOMAIN s = 1..n
    BY LenProperties
  <2>2. PICK k \in 1..n : k = FirstIndex(s, sid) /\ s[k] = sid
    BY <1>2, <2>1, FirstIndexFound
  <2>3. PICK t \in [1..(n - 1) -> Nat] :
          /\ t = UnsubscribeFrom(s, sid)
          /\ \A i \in 1..(n - 1) : t[i] = IF i = k THEN s[n] ELSE s[i]
    <3> DEFINE t == [i \in 1..(n - 1) |-> IF i = k THEN s[n] ELSE s[i]]
    <3>1. t = UnsubscribeFrom(s, sid)
      BY <1>2, <2>1, <2>2, Zenon DEF UnsubscribeFrom
    <3>2. t \in [1..(n - 1) -> Nat]
      BY <2>1, <2>2
    <3>3. \A i \in 1..(n - 1) : t[i] = IF i = k THEN s[n] ELSE s[i]
      OBVIOUS
    <3> QED BY <3>1, <3>2, <3>3, Zenon
  <2>4. n - 1 \in Nat /\ DOMAIN t = 1..(n - 1)
    BY <2>2, <2>3
  <2>5. Range(t) = Range(s) \ {s[k]} /\ Injective(t)
    <3>1. \A i \in 1..(n - 1) : t[i] = IF i = k THEN s[n] ELSE s[i]
      BY <2>3
    <3>2. DOMAIN s = 1..n
      BY <2>1
    <3>3. DOMAIN t = 1..(n - 1)
      BY <2>4
    <3> QED BY ONLY <3>1, <3>2, <3>3, n \in Nat, k \in 1..n, Injective(s), SwapWithBackAndPop
  <2>6. t \in Seq(Nat)
    BY <2>3, <2>4, SeqDef, Zenon
  <2> QED BY <2>2, <2>3, <2>5, <2>6, Zenon
<1> QED BY <1>1, <1>2

\* pop_back removes exactly the last element.
LEMMA PopBack ==
  ASSUME NEW s \in Seq(Nat), s # << >>, Injective(s)
  PROVE  /\ s[Len(s)] \in Range(s)
         /\ SubSeq(s, 1, Len(s) - 1) \in Seq(Nat)
         /\ Len(SubSeq(s, 1, Len(s) - 1)) = Len(s) - 1
         /\ Range(SubSeq(s, 1, Len(s) - 1)) = Range(s) \ {s[Len(s)]}
         /\ Injective(SubSeq(s, 1, Len(s) - 1))
<1>1. PICK n \in Nat : n = Len(s) /\ DOMAIN s = 1..n /\ n \in 1..n
  BY EmptySeq, LenProperties
<1>2. PICK t \in Seq(Nat) :
        /\ t = SubSeq(s, 1, n - 1)
        /\ Len(t) = n - 1
        /\ DOMAIN t = 1..(n - 1)
        /\ \A i \in 1..(n - 1) : t[i] = s[i]
  <2> DEFINE t == SubSeq(s, 1, n - 1)
  <2>1. t \in Seq(Nat) /\ Len(t) = n - 1 /\ \A i \in 1..(n - 1) : t[i] = s[i]
    BY <1>1
  <2>2. DOMAIN t = 1..(n - 1)
    BY <2>1
  <2> QED BY <2>1, <2>2, Zenon
<1>3. \A i \in 1..(n - 1) : t[i] = IF i = n THEN s[n] ELSE s[i]
  BY <1>2
<1>4. DOMAIN s = 1..n /\ DOMAIN t = 1..(n - 1)
  BY <1>1, <1>2
<1>5. Range(t) = Range(s) \ {s[n]} /\ Injective(t)
  BY ONLY <1>3, <1>4, n \in Nat, n \in 1..n, Injective(s), SwapWithBackAndPop
<1>6. s[n] \in Range(s)
  BY <1>1 DEF Range
<1> QED BY <1>1, <1>2, <1>5, <1>6, Zenon
-----------------------------------------------------------------------------
\* The part of the invariant that is about the pool alone.
PoolInv ==
  /\ CurrentIds \subseteq Nat
  /\ session_pool \in [CurrentIds -> Fd]
  /\ reusable_ids \in Seq(Nat)
  /\ num_sess \in Nat
  /\ IdsPartitioned
  /\ SessionsCounted

\* create_session takes an id that is free, so that the new session is really
\* inserted; the ids issued stay an interval.
LEMMA CreateSessionPool ==
  ASSUME PoolInv, NEW fd \in Fd, create_session(fd)
  PROVE  /\ NewId \in Nat \ CurrentIds
         /\ CurrentIds' = CurrentIds \cup {NewId}
         /\ session_pool' \in [CurrentIds' -> Fd]
         /\ session_pool'[NewId] = fd
         /\ \A id \in CurrentIds : session_pool'[id] = session_pool[id]
         /\ Issued' = IF NewId \in 0..(Issued - 1) THEN Issued ELSE Issued + 1
         /\ NewId = Issued => CurrentIds = 0..(Issued - 1)
         /\ NewId \in 0..Issued
         /\ PoolInv'
<1> DEFINE stack == reusable_ids
<1>1. Injective(stack) /\ Len(stack) \in Nat
  BY DEF PoolInv, IdsPartitioned, Injective
<1>2. ASSUME NewId \in Nat \ CurrentIds
      PROVE  /\ CurrentIds' = CurrentIds \cup {NewId}
             /\ session_pool' \in [CurrentIds' -> Fd]
             /\ session_pool'[NewId] = fd
             /\ \A id \in CurrentIds : session_pool'[id] = session_pool[id]
             /\ num_sess' \in Nat
             /\ SessionsCounted'
  <2>1. session_pool' = [i \in CurrentIds \cup {NewId} |->
                           IF i \in CurrentIds THEN session_pool[i] ELSE fd]
    BY DEF create_session, MapInsert, CurrentIds
  <2>2. CurrentIds' = CurrentIds \cup {NewId}
    BY <2>1 DEF CurrentIds
  <2>3. session_pool' \in [CurrentIds' -> Fd]
    BY <2>1, <2>2 DEF PoolInv
  <2>4. IsFiniteSet(CurrentIds') /\ Cardinality(CurrentIds') = Cardinality(CurrentIds) + 1
    BY <1>2, <2>2, FS_AddElement DEF PoolInv, SessionsCounted
  <2>5. num_sess' = num_sess + 1
    BY DEF create_session
  <2>6. session_pool'[NewId] = fd
    BY <1>2, <2>1
  <2>7. \A id \in CurrentIds : session_pool'[id] = session_pool[id]
    BY <2>1
  <2> QED BY <2>2, <2>3, <2>4, <2>5, <2>6, <2>7 DEF PoolInv, SessionsCounted
<1>3. CASE stack = << >>
  <2>1. NewId = num_sess /\ Issued = num_sess /\ CurrentIds = 0..(num_sess - 1)
    BY <1>3 DEF NewId, Issued, PoolInv, IdsPartitioned, Range
  <2>2. NewId \in Nat \ CurrentIds
    BY <2>1 DEF PoolInv
  <2>3. reusable_ids' = << >> /\ num_sess' = num_sess + 1 /\ Issued' = num_sess + 1
    BY <1>3 DEF create_session, Issued, PoolInv
  <2>4. IdsPartitioned'
    BY <1>2, <2>1, <2>2, <2>3 DEF PoolInv, IdsPartitioned, Range
  <2>5. CurrentIds' \subseteq Nat
    BY <1>2, <2>2 DEF PoolInv
  <2> QED BY <1>2, <2>1, <2>2, <2>3, <2>4, <2>5 DEF PoolInv
<1>4. CASE stack # << >>
  <2>1. NewId = stack[Len(stack)] /\ stack' = SubSeq(stack, 1, Len(stack) - 1)
    BY <1>4 DEF NewId, create_session
  <2>2. /\ NewId \in Range(stack)
        /\ stack' \in Seq(Nat)
        /\ Len(stack') = Len(stack) - 1
        /\ Range(stack') = Range(stack) \ {NewId}
        /\ Injective(stack')
    BY <1>1, <1>4, <2>1, PopBack DEF PoolInv
  <2>3. NewId \in Nat \ CurrentIds /\ NewId \in 0..(Issued - 1)
    BY <2>2 DEF PoolInv, IdsPartitioned
  <2>4. Issued' = Issued /\ Issued \in Nat
    <3>1. num_sess' = num_sess + 1 /\ num_sess \in Nat
      BY DEF create_session, PoolInv
    <3> QED BY <1>1, <2>2, <3>1 DEF Issued
  <2>5. IdsPartitioned'
    BY <1>2, <2>2, <2>3, <2>4 DEF PoolInv, IdsPartitioned, Injective
  <2>6. CurrentIds' \subseteq Nat
    BY <1>2, <2>3 DEF PoolInv
  <2> QED BY <1>2, <2>2, <2>3, <2>4, <2>5, <2>6 DEF PoolInv
<1> QED BY <1>3, <1>4

\* delete_session moves the id from the pool to the stack.
LEMMA DeleteSessionPool ==
  ASSUME PoolInv, NEW id \in CurrentIds, delete_session(id)
  PROVE  /\ CurrentIds' = CurrentIds \ {id}
         /\ session_pool' \in [CurrentIds' -> Fd]
         /\ \A i \in CurrentIds' : session_pool'[i] = session_pool[i]
         /\ Issued' = Issued
         /\ PoolInv'
<1>1. /\ session_pool' = [i \in CurrentIds \ {id} |-> session_pool[i]]
      /\ reusable_ids' = Append(reusable_ids, id)
      /\ num_sess' = num_sess - 1
  BY DEF delete_session, MapErase, CurrentIds
<1>2. CurrentIds' = CurrentIds \ {id}
  BY <1>1 DEF CurrentIds
<1>3. session_pool' \in [CurrentIds' -> Fd]
  BY <1>1, <1>2 DEF PoolInv
<1>4. \A i \in CurrentIds' : session_pool'[i] = session_pool[i]
  BY <1>1, <1>2
<1>5. /\ reusable_ids' \in Seq(Nat)
      /\ Len(reusable_ids') = Len(reusable_ids) + 1
      /\ Range(reusable_ids') = Range(reusable_ids) \cup {id}
      /\ Injective(reusable_ids')
  <2>1. id \in Nat /\ id \notin Range(reusable_ids) /\ Injective(reusable_ids)
    BY DEF PoolInv, IdsPartitioned, Injective
  <2> QED BY <1>1, <2>1, PushBack DEF PoolInv
<1>6. IsFiniteSet(CurrentIds') /\ Cardinality(CurrentIds') = Cardinality(CurrentIds) - 1
  BY <1>2, FS_RemoveElement DEF PoolInv, SessionsCounted
<1>7. SessionsCounted' /\ num_sess' \in Nat
  <2>1. Cardinality(CurrentIds') \in Nat
    BY <1>6, FS_CardinalityType
  <2> QED BY <1>1, <1>6, <2>1 DEF PoolInv, SessionsCounted
<1>8. Issued' = Issued
  <2>1. Len(reusable_ids) \in Nat
    BY DEF PoolInv
  <2> QED BY <1>1, <1>5, <2>1 DEF Issued, PoolInv
<1>9. IdsPartitioned'
  <2>1. Injective(reusable_ids')
    BY <1>5
  <2> QED BY <1>2, <1>5, <1>8, <2>1 DEF PoolInv, IdsPartitioned, Injective
<1> QED BY <1>2, <1>3, <1>4, <1>5, <1>7, <1>8, <1>9 DEF PoolInv
-----------------------------------------------------------------------------
\* A channel lists a session once at most, live or not.
SubscribersDistinct == \A c \in Channels : Injective(subscribers[c])

\* The inductive invariant.
SMInv ==
  /\ SMTypeOK
  /\ IdsPartitioned
  /\ SessionsCounted
  /\ SocketsOwned
  /\ SubscribersDistinct

\* The part of the invariant about the pool and the ids.
LEMMA SMInvPoolInv == SMInv => PoolInv
BY DEF SMInv, SMTypeOK, PoolInv

\* A manager without sessions satisfies the invariant.
LEMMA InitSMInv == SMInit => SMInv
<1> SUFFICES ASSUME SMInit PROVE SMInv
  OBVIOUS
<1>1. CurrentIds = {} /\ Range(session_pool) = {} /\ Range(reusable_ids) = {}
  BY DEF SMInit, CurrentIds, Range
<1>2. IdsPartitioned
  BY <1>1 DEF SMInit, IdsPartitioned, Issued
<1>3. SessionsCounted
  BY <1>1, FS_EmptySet DEF SMInit, SessionsCounted
<1>4. \A c \in Channels : subscribers[c] = << >>
  BY DEF SMInit
<1>5. SubscribersDistinct
  BY <1>4 DEF SubscribersDistinct, Injective
<1>6. SocketsOwned
  BY <1>1 DEF SocketsOwned
<1>7. SMTypeOK
  BY <1>1, <1>4 DEF SMInit, SMTypeOK
<1> QED BY <1>2, <1>3, <1>5, <1>6, <1>7 DEF SMInv

\* SessionManager::create_session preserves the invariant.
LEMMA CreateSMInv ==
  ASSUME SMInv, NEW fd \in Fd, fd \in open_fds \ Range(session_pool),
         create_session(fd)
  PROVE  SMInv'
<1>1. /\ NewId \in Nat \ CurrentIds
      /\ CurrentIds' = CurrentIds \cup {NewId}
      /\ session_pool' \in [CurrentIds' -> Fd]
      /\ session_pool'[NewId] = fd
      /\ \A id \in CurrentIds : session_pool'[id] = session_pool[id]
      /\ PoolInv'
  BY SMInvPoolInv, CreateSessionPool
<1>2. subscribers' = subscribers /\ open_fds' = open_fds
  BY DEF create_session
<1>3. SMTypeOK'
  BY <1>1, <1>2 DEF SMInv, SMTypeOK, PoolInv
<1>4. SocketsOwned'
  <2>1. \A id \in CurrentIds : session_pool[id] \in Range(session_pool)
    BY DEF Range, CurrentIds
  <2>2. \A id \in CurrentIds : session_pool'[id] \in open_fds /\ session_pool'[id] # fd
    BY <1>1, <2>1 DEF SMInv, SocketsOwned
  <2>3. \A id \in CurrentIds' : session_pool'[id] \in open_fds'
    BY <1>1, <1>2, <2>2
  <2>4. Range(session_pool') \subseteq open_fds'
    BY <2>3 DEF Range, CurrentIds
  <2>5. \A a, b \in CurrentIds' : session_pool'[a] = session_pool'[b] => a = b
    BY <1>1, <2>2 DEF SMInv, SocketsOwned
  <2> QED BY <2>4, <2>5 DEF SocketsOwned
<1>5. SubscribersDistinct'
  BY <1>2 DEF SMInv, SubscribersDistinct
<1> QED BY <1>1, <1>3, <1>4, <1>5 DEF SMInv, PoolInv

\* SessionManager::delete_session preserves the invariant.
LEMMA DeleteSMInv ==
  ASSUME SMInv, NEW id \in CurrentIds, delete_session(id)
  PROVE  SMInv'
<1>1. /\ CurrentIds' = CurrentIds \ {id}
      /\ session_pool' \in [CurrentIds' -> Fd]
      /\ \A i \in CurrentIds' : session_pool'[i] = session_pool[i]
      /\ PoolInv'
  BY SMInvPoolInv, DeleteSessionPool
<1>2. /\ subscribers' = [c \in Channels |-> UnsubscribeFrom(subscribers[c], id)]
      /\ open_fds' = open_fds \ {session_pool[id]}
  BY DEF delete_session
<1>3. \A c \in Channels :
        /\ subscribers'[c] \in Seq(Nat)
        /\ Range(subscribers'[c]) = Range(subscribers[c]) \ {id}
        /\ Injective(subscribers'[c])
  <2> TAKE c \in Channels
  <2>1. subscribers'[c] = UnsubscribeFrom(subscribers[c], id)
    BY <1>2
  <2>2. subscribers[c] \in Seq(Nat) /\ id \in Nat /\ Injective(subscribers[c])
    BY DEF SMInv, SMTypeOK, SubscribersDistinct
  <2> QED BY ONLY <2>1, <2>2, UnsubscribeFromProperties
<1>4. subscribers' \in [Channels -> Seq(Nat)]
  <2>1. \A c \in Channels : UnsubscribeFrom(subscribers[c], id) \in Seq(Nat)
    BY <1>2, <1>3, Zenon
  <2> QED BY <1>2, <2>1, Zenon
<1>5. SMTypeOK'
  BY <1>1, <1>2, <1>4 DEF SMInv, SMTypeOK, PoolInv
<1>6. SocketsOwned'
  <2>1. \A i \in CurrentIds' : session_pool'[i] \in open_fds'
    <3> TAKE i \in CurrentIds'
    <3>1. session_pool[i] \in open_fds /\ session_pool[i] # session_pool[id]
      BY <1>1 DEF SMInv, SocketsOwned, Range, CurrentIds
    <3> QED BY <1>1, <1>2, <3>1
  <2>2. Range(session_pool') \subseteq open_fds'
    BY <2>1 DEF Range, CurrentIds
  <2> QED BY <1>1, <2>2 DEF SMInv, SocketsOwned
<1>7. SubscribersDistinct'
  BY <1>3, Zenon DEF SubscribersDistinct
<1> QED BY <1>1, <1>5, <1>6, <1>7 DEF SMInv, PoolInv

\* The operation SUBSCRIBE_PUBSUB preserves the invariant.
LEMMA SubscribeSMInv ==
  ASSUME SMInv, NEW sid \in Nat, NEW arg \in ChannelArg, subscribe(arg, sid)
  PROVE  SMInv'
<1> DEFINE ch == arg % (2 ^ 16)
<1>1. /\ UNCHANGED <<session_pool, reusable_ids, num_sess, open_fds>>
      /\ CurrentIds' = CurrentIds
  BY DEF subscribe, poolVars, CurrentIds
<1>2. \A c \in Channels :
        /\ subscribers'[c] \in Seq(Nat)
        /\ Injective(subscribers'[c])
  <2> TAKE c \in Channels
  <2>1. /\ subscribers[c] \in Seq(Nat) /\ Injective(subscribers[c]) /\ sid \in Nat
        /\ subscribers \in [Channels -> Seq(Nat)]
    BY DEF SMInv, SMTypeOK, SubscribersDistinct
  <2>2. subscribers'[c] = subscribers[c] \/ subscribers'[c] = SubscribeTo(subscribers[c], sid)
    BY <2>1 DEF subscribe
  <2>3. /\ SubscribeTo(subscribers[c], sid) \in Seq(Nat)
        /\ Range(SubscribeTo(subscribers[c], sid)) = Range(subscribers[c]) \cup {sid}
        /\ Injective(SubscribeTo(subscribers[c], sid))
    BY ONLY <2>1, SubscribeToProperties
  <2> QED BY <2>1, <2>2, <2>3
<1>3. subscribers' \in [Channels -> Seq(Nat)]
  <2>1. subscribers' = [c \in Channels |-> subscribers'[c]]
    BY DEF subscribe, SMInv, SMTypeOK
  <2> QED BY <1>2, <2>1, Zenon
<1>4. SMTypeOK'
  BY <1>1, <1>3 DEF SMInv, SMTypeOK
<1>5. SubscribersDistinct'
  BY <1>2, Zenon DEF SubscribersDistinct
<1>6. IdsPartitioned' /\ SessionsCounted' /\ SocketsOwned'
  BY <1>1 DEF SMInv, IdsPartitioned, SessionsCounted, SocketsOwned, Issued
<1> QED BY <1>4, <1>5, <1>6 DEF SMInv

\* A new connection preserves the invariant.
LEMMA AcceptSMInv ==
  ASSUME SMInv, NEW fd \in Fd, Accept(fd)
  PROVE  SMInv'
<1>1. /\ UNCHANGED <<session_pool, reusable_ids, num_sess, subscribers>>
      /\ CurrentIds' = CurrentIds /\ open_fds' = open_fds \cup {fd}
  BY DEF Accept, poolVars, CurrentIds
<1>2. SMTypeOK'
  BY <1>1 DEF SMInv, SMTypeOK
<1>3. IdsPartitioned' /\ SessionsCounted' /\ SocketsOwned' /\ SubscribersDistinct'
  BY <1>1 DEF SMInv, IdsPartitioned, SessionsCounted, SocketsOwned, SubscribersDistinct, Issued
<1> QED BY <1>2, <1>3 DEF SMInv

\* A step of something else preserves the invariant.
LEMMA UnchangedSMInv == SMInv /\ UNCHANGED smVars => SMInv'
BY DEF SMInv, SMTypeOK, IdsPartitioned, SessionsCounted, SocketsOwned,
       SubscribersDistinct, Issued, CurrentIds, smVars

\* An id that was issued is a number.
LEMMA IssuedAreNat ==
  ASSUME SMInv
  PROVE  CurrentIds \cup Range(reusable_ids) \subseteq Nat
<1>1. CurrentIds \cup Range(reusable_ids) = 0..(Issued - 1) /\ Issued \in Nat
  BY DEF SMInv, SMTypeOK, IdsPartitioned, Issued
<1> QED BY <1>1

\* Every step of the manager preserves the invariant.
LEMMA NextSMInv == SMInv /\ [SMNext]_smVars => SMInv'
<1> SUFFICES ASSUME SMInv, [SMNext]_smVars PROVE SMInv'
  OBVIOUS
<1>1. CASE \E fd \in Fd : Accept(fd)
  BY <1>1, AcceptSMInv
<1>2. CASE Create
  <2>1. PICK fd \in open_fds \ Range(session_pool) : create_session(fd)
    BY <1>2 DEF Create
  <2>2. fd \in Fd
    BY DEF SMInv, SMTypeOK
  <2> QED BY <2>1, <2>2, CreateSMInv
<1>3. CASE Delete
  <2>1. PICK id \in CurrentIds \cup Range(reusable_ids) : delete_session(id)
    BY <1>3 DEF Delete
  <2>2. CASE id \in CurrentIds
    BY <2>1, <2>2, DeleteSMInv
  <2>3. CASE id \notin CurrentIds
    BY <2>1, <2>3, UnchangedSMInv DEF delete_session
  <2> QED BY <2>2, <2>3
<1>4. CASE Subscribe
  <2>1. PICK sid \in CurrentIds \cup Range(reusable_ids), arg \in ChannelArg : subscribe(arg, sid)
    BY <1>4 DEF Subscribe
  <2>2. sid \in Nat
    BY IssuedAreNat
  <2> QED BY <2>1, <2>2, SubscribeSMInv
<1>5. CASE UNCHANGED smVars
  BY <1>5, UnchangedSMInv
<1> QED BY <1>1, <1>2, <1>3, <1>4, <1>5 DEF SMNext

\* Every state that create_session, delete_session and subscribe can reach
\* satisfies the invariant, for any number of sockets and sessions.
THEOREM SMInvariance == SMSpec => []SMInv
BY InitSMInv, NextSMInv, PTL DEF SMSpec

\* SessionManager's pool, counter and vectors keep their types.
THEOREM SMTypeCorrect == SMSpec => []SMTypeOK
<1>1. SMInv => SMTypeOK
  BY DEF SMInv
<1> QED BY <1>1, SMInvariance, PTL

\* The live ids and the reusable ids partition the ids issued (the assert in
\* SessionManager::get_current_ids).
THEOREM SMIdsPartitioned == SMSpec => []IdsPartitioned
<1>1. SMInv => IdsPartitioned
  BY DEF SMInv
<1> QED BY <1>1, SMInvariance, PTL

\* num_sess is the size of the pool (the assert in SessionManager::delete_all).
THEOREM SMSessionsCounted == SMSpec => []SessionsCounted
<1>1. SMInv => SessionsCounted
  BY DEF SMInv
<1> QED BY <1>1, SMInvariance, PTL

\* delete_session closes the socket of the session it deletes and no other's.
THEOREM SMSocketsOwned == SMSpec => []SocketsOwned
<1>1. SMInv => SocketsOwned
  BY DEF SMInv
<1> QED BY <1>1, SMInvariance, PTL

\* Closing a session unsubscribes nobody else, and neither does any other step.
LEMMA NextKeepsSubscriptions ==
  ASSUME SMInv, SMNext
  PROVE  \A c \in Channels :
           Range(subscribers[c]) \cap CurrentIds' \subseteq Range(subscribers'[c])
<1>1. \A c \in Channels : subscribers[c] \in Seq(Nat) /\ Injective(subscribers[c])
  BY DEF SMInv, SMTypeOK, SubscribersDistinct, Injective
<1>2. CurrentIds \subseteq Nat /\ subscribers \in [Channels -> Seq(Nat)]
  BY DEF SMInv, SMTypeOK
<1>3. ASSUME subscribers' = subscribers
      PROVE  \A c \in Channels :
               Range(subscribers[c]) \cap CurrentIds' \subseteq Range(subscribers'[c])
  BY <1>3
<1>4. CASE \E fd \in Fd : Accept(fd)
  BY <1>3, <1>4 DEF Accept
<1>5. CASE Create
  BY <1>3, <1>5 DEF Create, create_session
<1>6. CASE Delete
  <2>1. PICK id \in CurrentIds \cup Range(reusable_ids) : delete_session(id)
    BY <1>6 DEF Delete
  <2>2. CASE id \in CurrentIds
    <3> TAKE c \in Channels
    <3>1. subscribers'[c] = UnsubscribeFrom(subscribers[c], id)
      BY <2>1, <2>2 DEF delete_session
    <3>2. CurrentIds' = CurrentIds \ {id}
      BY <2>1, <2>2, SMInvPoolInv, DeleteSessionPool
    <3>3. Range(subscribers'[c]) = Range(subscribers[c]) \ {id}
      BY <1>1, <1>2, <2>2, <3>1, UnsubscribeFromProperties
    <3> QED BY <3>2, <3>3
  <2>3. CASE id \notin CurrentIds
    BY <1>3, <2>1, <2>3 DEF delete_session, smVars
  <2> QED BY <2>2, <2>3
<1>7. CASE Subscribe
  <2>1. PICK sid \in CurrentIds \cup Range(reusable_ids), arg \in ChannelArg : subscribe(arg, sid)
    BY <1>7 DEF Subscribe
  <2> sid \in Nat
    BY IssuedAreNat
  <2> TAKE c \in Channels
  <2>2. subscribers'[c] = subscribers[c] \/ subscribers'[c] = SubscribeTo(subscribers[c], sid)
    BY <1>2, <2>1 DEF subscribe
  <2>3. Range(SubscribeTo(subscribers[c], sid)) = Range(subscribers[c]) \cup {sid}
    BY <1>1, <1>2, SubscribeToProperties
  <2> QED BY <2>2, <2>3
<1> QED BY <1>4, <1>5, <1>6, <1>7 DEF SMNext

\* No step of the manager drops the subscription of a session that lives on:
\* the swap with the last element in Subscribers::unsubscribe loses nobody.
THEOREM SMOthersKeepSubscription == SMSpec => OthersKeepSubscription
BY SMInvariance, NextKeepsSubscriptions, PTL DEF SMSpec, OthersKeepSubscription
-----------------------------------------------------------------------------
\* No id is issued at the start.
LEMMA RefineInit == SMInit => Ids!IdsInit
BY DEF SMInit, Ids!IdsInit, CurrentIds, Issued

\* create_session issues a new id only when none can be reused.
LEMMA RefineCreate ==
  ASSUME PoolInv, NEW fd \in Fd, create_session(fd)
  PROVE  Ids!IdsNext
<1>1. /\ NewId \in Nat \ CurrentIds
      /\ CurrentIds' = CurrentIds \cup {NewId}
      /\ Issued' = IF NewId \in 0..(Issued - 1) THEN Issued ELSE Issued + 1
      /\ NewId = Issued => CurrentIds = 0..(Issued - 1)
      /\ NewId \in 0..Issued
  BY CreateSessionPool
<1>2. Issued \in Nat
  BY DEF PoolInv, Issued
<1>3. CASE NewId \in 0..(Issued - 1)
  <2>1. Ids!Reuse(NewId)
    BY <1>1, <1>3 DEF Ids!Reuse
  <2> QED BY <1>3, <2>1 DEF Ids!IdsNext
<1>4. CASE NewId \notin 0..(Issued - 1)
  <2>1. NewId = Issued
    BY <1>1, <1>2, <1>4
  <2>2. Ids!Issue
    BY <1>1, <1>4, <2>1 DEF Ids!Issue
  <2> QED BY <2>2 DEF Ids!IdsNext
<1> QED BY <1>3, <1>4

\* delete_session frees one live id, or none.
LEMMA RefineDelete ==
  ASSUME PoolInv, NEW id \in CurrentIds, delete_session(id)
  PROVE  Ids!IdsNext
<1>1. CurrentIds' = CurrentIds \ {id} /\ Issued' = Issued
  BY DeleteSessionPool
<1>2. id \in 0..(Issued - 1)
  BY DEF PoolInv, IdsPartitioned
<1>3. Ids!Free(id)
  BY <1>1 DEF Ids!Free
<1> QED BY <1>2, <1>3 DEF Ids!IdsNext

\* Every step of the manager is a step of SessionIds or a stutter.
LEMMA RefineNext == SMInv /\ [SMNext]_smVars => [Ids!IdsNext]_(Ids!idVars)
<1> SUFFICES ASSUME SMInv, [SMNext]_smVars PROVE [Ids!IdsNext]_(Ids!idVars)
  OBVIOUS
<1>1. ASSUME UNCHANGED poolVars
      PROVE  UNCHANGED Ids!idVars
  BY <1>1 DEF poolVars, Ids!idVars, CurrentIds, Issued
<1>2. CASE \E fd \in Fd : Accept(fd)
  BY <1>1, <1>2 DEF Accept
<1>3. CASE Create
  <2>1. PICK fd \in open_fds \ Range(session_pool) : create_session(fd)
    BY <1>3 DEF Create
  <2>2. fd \in Fd
    BY DEF SMInv, SMTypeOK
  <2> QED BY <2>1, <2>2, SMInvPoolInv, RefineCreate
<1>4. CASE Delete
  <2>1. PICK id \in CurrentIds \cup Range(reusable_ids) : delete_session(id)
    BY <1>4 DEF Delete
  <2>2. CASE id \in CurrentIds
    BY <2>1, <2>2, SMInvPoolInv, RefineDelete
  <2>3. CASE id \notin CurrentIds
    BY <1>1, <2>1, <2>3 DEF delete_session, smVars, poolVars
  <2> QED BY <2>2, <2>3
<1>5. CASE Subscribe
  BY <1>1, <1>5 DEF Subscribe, subscribe
<1>6. CASE UNCHANGED smVars
  BY <1>1, <1>6 DEF smVars, poolVars
<1> QED BY <1>2, <1>3, <1>4, <1>5, <1>6 DEF SMNext

\* SessionManager hands out ids as SessionIds says: never one that is in use,
\* and a new one only when all are.
THEOREM SMRefinesSessionIds == SMSpec => IdsRefined
<1>1. SMInit => Ids!IdsInit
  BY RefineInit
<1>2. SMInv /\ [SMNext]_smVars => [Ids!IdsNext]_(Ids!idVars)
  BY RefineNext
<1> QED BY <1>1, <1>2, SMInvariance, PTL DEF SMSpec, IdsRefined, Ids!IdsSpec

-----------------------------------------------------------------------------
(* KServer. *)

\* Where the session object of a thread can exist, and where threads can be.
Living == HoldsSession \cup {"faulting", "faulting_listing", "faulting_deleting"}
ThreadPc == {"none", "dec_thread_num"} \cup Spawned \cup Living
CommPc == {"none", "start", "while", "accept", "accepted", "done", "faulting"}

\* Types of what the argument is about.
KSTypes ==
  /\ open_fds \subseteq Fd
  /\ subscribers \in [Channels -> Seq(Nat)]
  /\ \A c \in Channels : Injective(subscribers[c])
  /\ comm \in [Kind -> CommPc]
  /\ comm_fd \in [Kind -> Fd \cup {NoFd}]
  /\ thread \in [Thread -> ThreadPc]
  /\ th_fd \in [Thread -> Fd \cup {NoFd}]
  /\ th_sid \in [Thread -> Nat]
  /\ alive \subseteq Thread

\* A session object is in the pool, on its thread's socket, and belongs to one
\* thread.
SessionsHeld ==
  /\ \A t \in alive :
       /\ thread[t] \in Living
       /\ th_sid[t] \in CurrentIds
       /\ session_pool[th_sid[t]] = th_fd[t]
  /\ \A t, u \in alive : th_sid[t] = th_sid[u] => t = u

\* Until delete_all begins, a thread that uses its session has it.
HeldWhileServing ==
  Serving => \A t \in Thread : thread[t] \in HoldsSession => t \in alive

\* The inductive invariant.
KSInv ==
  /\ PoolInv
  /\ KSTypes
  /\ SocketsHeld
  /\ SessionsHeld
  /\ HeldWhileServing
-----------------------------------------------------------------------------
\* The server before its first step satisfies the invariant.
LEMMA InitKSInv == KSInit => KSInv
<1> SUFFICES ASSUME KSInit PROVE KSInv
  OBVIOUS
<1>1. SMInv
  BY InitSMInv DEF KSInit
<1>2. PoolInv /\ CurrentIds = {}
  BY <1>1, SMInvPoolInv DEF KSInit, SMInit, CurrentIds
<1>3. KSTypes
  <2>1. open_fds \subseteq Fd /\ subscribers \in [Channels -> Seq(Nat)]
    BY <1>1 DEF SMInv, SMTypeOK
  <2>2. \A c \in Channels : Injective(subscribers[c])
    BY <1>1 DEF SMInv, SubscribersDistinct, Injective
  <2> QED BY <2>1, <2>2 DEF KSInit, KSTypes, CommPc, ThreadPc
<1>4. SocketsHeld
  BY <1>2 DEF KSInit, SocketsHeld, Spawned
<1>5. SessionsHeld
  BY DEF KSInit, SessionsHeld
<1>6. HeldWhileServing
  BY DEF KSInit, HeldWhileServing, HoldsSession
<1> QED BY <1>2, <1>3, <1>4, <1>5, <1>6 DEF KSInv
-----------------------------------------------------------------------------
\* What most steps do: the pool, the channels and the sockets stay as they are,
\* no thread takes a socket or a session it did not have, and none loses the
\* session it has.
QuietStep ==
  /\ UNCHANGED <<session_pool, reusable_ids, num_sess, subscribers, open_fds, alive>>
  /\ \A k \in Kind : comm_fd'[k] \in {comm_fd[k], NoFd}
  /\ \A t \in Thread : thread'[t] \in Spawned => thread[t] \in Spawned /\ th_fd'[t] = th_fd[t]
  /\ \A t \in Thread : thread'[t] \in HoldsSession => thread[t] \in HoldsSession
  /\ \A t \in alive :
       thread'[t] \in Living /\ th_fd'[t] = th_fd[t] /\ th_sid'[t] = th_sid[t]
  /\ Serving' => Serving

\* A quiet step keeps what the invariant says of pool, sockets and sessions.
LEMMA QuietKeeps ==
  ASSUME KSInv, QuietStep
  PROVE  PoolInv' /\ SocketsHeld' /\ SessionsHeld' /\ HeldWhileServing'
<1>1. /\ UNCHANGED <<session_pool, reusable_ids, num_sess, subscribers, open_fds, alive>>
      /\ CurrentIds' = CurrentIds
  BY DEF QuietStep, CurrentIds
<1>2. PoolInv'
  BY <1>1 DEF KSInv, PoolInv, IdsPartitioned, SessionsCounted, Issued
<1>3. SocketsHeld'
  <2>1. NoFd \notin open_fds
    BY NoFdAssumption DEF KSInv, KSTypes
  <2>2. \A k \in Kind : comm_fd'[k] # NoFd => comm_fd'[k] = comm_fd[k]
    BY DEF QuietStep
  <2>3. \A t \in Thread : thread'[t] \in Spawned => thread[t] \in Spawned /\ th_fd'[t] = th_fd[t]
    BY DEF QuietStep
  <2>4. \A t \in Thread : thread'[t] \in Spawned => \A k \in Kind : comm_fd'[k] # th_fd'[t]
    BY <2>1, <2>2, <2>3 DEF KSInv, SocketsHeld
  <2> QED BY <1>1, <2>2, <2>3, <2>4 DEF KSInv, SocketsHeld
<1>4. SessionsHeld'
  BY <1>1 DEF KSInv, SessionsHeld, QuietStep
<1>5. HeldWhileServing'
  BY <1>1 DEF KSInv, HeldWhileServing, QuietStep
<1> QED BY <1>2, <1>3, <1>4, <1>5
-----------------------------------------------------------------------------
\* exit_signal_handler preserves the invariant.
LEMMA SignalKSInv == KSInv /\ exit_signal_handler => KSInv'
<1> SUFFICES ASSUME KSInv, exit_signal_handler PROVE KSInv'
  OBVIOUS
<1>1. /\ UNCHANGED <<session_pool, reusable_ids, num_sess, subscribers, open_fds, alive>>
      /\ UNCHANGED <<thread, th_fd, th_sid, main, proc>>
  BY DEF exit_signal_handler, smVars, mainVars, threadVars
<1>2. KSTypes'
  BY <1>1 DEF KSInv, KSTypes, CommPc, exit_signal_handler
<1>3. QuietStep
  BY <1>1 DEF KSInv, KSTypes, SessionsHeld, QuietStep, exit_signal_handler, Serving
<1> QED BY <1>2, <1>3, QuietKeeps DEF KSInv

\* The main thread's steps up to the deletion of the sessions and after it
\* preserve the invariant: it leaves the serving state for good.
LEMMA MainQuietKSInv ==
  ASSUME KSInv,
         \/ start_listeners_workers \/ start_listeners_fails \/ ExitsAfterFailure
         \/ NotifyReady \/ SeesInterrupt
         \/ delete_all_next \/ delete_all_done \/ close_listeners
         \/ \E k \in Kind : shutdown_listener(k)
         \/ join_listeners_workers
  PROVE  KSInv'
<1> USE DEF start_listeners_workers, start_listeners_fails, ExitsAfterFailure, NotifyReady,
            SeesInterrupt, delete_all_next, delete_all_done, close_listeners, CloseWith, shutdown_listener,
            join_listeners_workers, Main
<1>1. /\ proc = "up" /\ UNCHANGED <<comm_fd, thread, th_fd, th_sid>>
      /\ UNCHANGED <<session_pool, reusable_ids, num_sess, subscribers, open_fds, alive>>
  BY DEF smVars
<1>2. Serving' => Serving
  BY DEF Serving, Loop
<1>3. \/ comm' = comm
      \/ \E S \in SUBSET Enabled : comm' = [k \in Kind |-> IF k \in S THEN "start" ELSE "none"]
  OBVIOUS
<1>4. QuietStep
  BY <1>1, <1>2 DEF KSInv, KSTypes, SessionsHeld, QuietStep
<1>5. KSTypes'
  BY <1>1, <1>3 DEF KSInv, KSTypes, CommPc
<1> QED BY <1>4, <1>5, QuietKeeps DEF KSInv

\* The comm threads' steps, but for accept and spawn, preserve the invariant.
LEMMA CommQuietKSInv ==
  ASSUME KSInv, NEW k \in Kind,
         \/ CommStart(k) \/ CommWhile(k) \/ CommAcceptFails(k) \/ CommOptionsFail(k)
         \/ CommDrops(k)
  PROVE  KSInv'
<1> USE DEF CommStart, CommWhile, CommAcceptFails, CommOptionsFail, CommDrops, Comm
<1>1. /\ proc = "up" /\ UNCHANGED <<main, thread, th_fd, th_sid>>
      /\ UNCHANGED <<session_pool, reusable_ids, num_sess, subscribers, open_fds, alive>>
  BY DEF smVars, mainVars
<1>2. Serving' = Serving
  BY <1>1 DEF Serving
<1>3. comm_fd' = comm_fd \/ comm_fd' = [comm_fd EXCEPT ![k] = NoFd]
  OBVIOUS
<1>4. PICK pc \in {"while", "accept", "accepted", "done"} : comm' = [comm EXCEPT ![k] = pc]
  OBVIOUS
<1>5. QuietStep
  BY <1>1, <1>2, <1>3 DEF KSInv, KSTypes, SessionsHeld, QuietStep
<1>6. KSTypes'
  BY <1>1, <1>3, <1>4 DEF KSInv, KSTypes, CommPc
<1> QED BY <1>5, <1>6, QuietKeeps DEF KSInv

\* accept returns a descriptor nobody holds.
LEMMA CommAcceptKSInv ==
  ASSUME KSInv, NEW k \in Kind, NEW fd \in Fd, CommAccept(k, fd)
  PROVE  KSInv'
<1>1. /\ UNCHANGED <<session_pool, reusable_ids, num_sess, subscribers, alive, thread,
                     th_fd, th_sid, main, proc>>
      /\ CurrentIds' = CurrentIds
      /\ proc = "up"
      /\ Serving' = Serving
      /\ fd \notin open_fds /\ open_fds' = open_fds \cup {fd}
      /\ comm[k] = "accept" /\ comm' = [comm EXCEPT ![k] = "accepted"]
      /\ comm_fd' = [comm_fd EXCEPT ![k] = fd]
  BY DEF CommAccept, Comm, Accept, poolVars, mainVars, CurrentIds, Serving
<1>2. KSTypes'
  BY <1>1 DEF KSInv, KSTypes, CommPc
<1>3. PoolInv'
  BY <1>1 DEF KSInv, PoolInv, IdsPartitioned, SessionsCounted, Issued
<1>4. SocketsHeld'
  <2>1. comm_fd'[k] = fd /\ \A j \in Kind : j # k => comm_fd'[j] = comm_fd[j]
    BY <1>1 DEF KSInv, KSTypes
  <2>2. fd # NoFd
    BY NoFdAssumption
  <2> QED BY <1>1, <2>1, <2>2 DEF KSInv, SocketsHeld
<1>5. SessionsHeld' /\ HeldWhileServing'
  BY <1>1 DEF KSInv, SessionsHeld, HeldWhileServing
<1> QED BY <1>2, <1>3, <1>4, <1>5 DEF KSInv

\* The comm thread hands its descriptor over to the thread it starts.
LEMMA CommSpawnsKSInv ==
  ASSUME KSInv, NEW k \in Kind, NEW t \in Thread, CommSpawns(k, t)
  PROVE  KSInv'
<1>1. /\ UNCHANGED <<session_pool, reusable_ids, num_sess, subscribers, open_fds, alive,
                     th_sid, main, proc>>
      /\ CurrentIds' = CurrentIds
      /\ proc = "up"
      /\ Serving' = Serving
      /\ comm[k] = "accepted" /\ comm' = [comm EXCEPT ![k] = "while"]
      /\ comm_fd[k] # NoFd /\ comm_fd' = [comm_fd EXCEPT ![k] = NoFd]
      /\ thread[t] = "none" /\ thread' = [thread EXCEPT ![t] = "inc_thread_num"]
      /\ th_fd' = [th_fd EXCEPT ![t] = comm_fd[k]]
  BY DEF CommSpawns, SpawnAndGoto, Comm, smVars, mainVars, CurrentIds, Serving
<1>2. KSTypes'
  BY <1>1 DEF KSInv, KSTypes, CommPc, ThreadPc, Spawned
<1>3. PoolInv'
  BY <1>1 DEF KSInv, PoolInv, IdsPartitioned, SessionsCounted, Issued
<1>4. /\ comm_fd'[k] = NoFd /\ \A j \in Kind : j # k => comm_fd'[j] = comm_fd[j]
      /\ thread'[t] = "inc_thread_num" /\ th_fd'[t] = comm_fd[k]
      /\ \A u \in Thread : u # t => thread'[u] = thread[u] /\ th_fd'[u] = th_fd[u]
  BY <1>1 DEF KSInv, KSTypes
<1>5. SocketsHeld'
  <2>1. NoFd \notin open_fds
    BY NoFdAssumption DEF KSInv, KSTypes
  <2>2. \A j \in Kind : comm_fd'[j] # th_fd'[t]
    BY <1>1, <1>4 DEF KSInv, SocketsHeld
  <2>3. /\ th_fd'[t] \in open_fds
        /\ \A a \in CurrentIds : session_pool[a] # th_fd'[t]
        /\ \A u \in Thread : thread'[u] \in Spawned /\ th_fd'[u] = th_fd'[t] => u = t
    BY <1>1, <1>4 DEF KSInv, SocketsHeld
  <2>4. ASSUME NEW u \in Thread, u # t, thread'[u] \in Spawned
        PROVE  /\ th_fd'[u] \in open_fds
               /\ \A a \in CurrentIds : session_pool[a] # th_fd'[u]
               /\ \A j \in Kind : comm_fd'[j] # th_fd'[u]
               /\ \A v \in Thread : thread'[v] \in Spawned /\ th_fd'[v] = th_fd'[u] => v = u
    BY <1>4, <2>1, <2>3, <2>4 DEF KSInv, SocketsHeld
  <2>5. \A j \in Kind : comm_fd'[j] # NoFd =>
          /\ comm_fd'[j] \in open_fds
          /\ \A a \in CurrentIds : session_pool[a] # comm_fd'[j]
          /\ \A i \in Kind : comm_fd'[i] = comm_fd'[j] => i = j
    BY <1>4 DEF KSInv, SocketsHeld
  <2> QED BY <1>1, <2>2, <2>3, <2>4, <2>5 DEF KSInv, SocketsHeld
<1>6. SessionsHeld' /\ HeldWhileServing'
  <2>1. t \notin alive
    BY <1>1 DEF KSInv, SessionsHeld, Living, HoldsSession
  <2>2. thread'[t] \notin HoldsSession
    BY <1>4 DEF HoldsSession
  <2> QED BY <1>1, <1>4, <2>1, <2>2 DEF KSInv, KSTypes, SessionsHeld, HeldWhileServing
<1> QED BY <1>2, <1>3, <1>5, <1>6 DEF KSInv
-----------------------------------------------------------------------------
\* Steps of a session thread that leave the pool and the channels alone: they
\* go from one place to another where the thread holds what it held.
LEMMA SessionQuietKSInv ==
  ASSUME KSInv, NEW t \in Thread,
         \/ inc_thread_num(t) \/ get_session(t) \/ ReadsCommand(t) \/ RunReturns(t)
         \/ Executes(t) \/ ExecutesCircular(t) \/ ListsSessions(t) \/ LooksUpSession(t)
         \/ ListReturns(t) \/ ExecutesFault(t) \/ LocksManager(t)
  PROVE  KSInv'
<1> USE DEF inc_thread_num, CountThread, get_session, ReadsCommand, RunReturns, Executes,
            ExecutesCircular, ListsSessions, LooksUpSession, ListReturns, ExecutesFault, LocksManager,
            Session
<1>1. /\ proc = "up"
      /\ UNCHANGED <<main, comm, comm_fd, th_fd, th_sid, alive>>
      /\ UNCHANGED <<session_pool, reusable_ids, num_sess, subscribers, open_fds>>
      /\ CurrentIds' = CurrentIds
      /\ Serving' = Serving
  BY DEF smVars, mainVars, commVars, CurrentIds, Serving
<1>2. PICK from \in ThreadPc, to \in ThreadPc :
        /\ thread[t] = from /\ thread' = [thread EXCEPT ![t] = to]
        /\ \/ from \in Spawned /\ to \in Spawned
           \/ from \in HoldsSession /\ to \in HoldsSession \cup {"faulting"}
  <2>1. CASE inc_thread_num(t)
    BY <2>1 DEF ThreadPc, Spawned
  <2>2. CASE ~inc_thread_num(t)
    <3>1. /\ thread[t] \in HoldsSession
          /\ \E to \in HoldsSession \cup {"faulting"} : thread' = [thread EXCEPT ![t] = to]
      BY <2>2 DEF HoldsSession
    <3>2. HoldsSession \cup {"faulting"} \subseteq ThreadPc
      BY DEF ThreadPc, Living
    <3> QED BY <3>1, <3>2
  <2> QED BY <2>1, <2>2
<1>3. \A u \in Thread : thread'[u] = IF u = t THEN to ELSE thread[u]
  BY <1>2 DEF KSInv, KSTypes
<1>4. QuietStep
  <2>1. t \in alive => from \in Living
    BY <1>2 DEF KSInv, SessionsHeld
  <2>2. Spawned \cap Living = {} /\ "faulting" \in Living \ HoldsSession
        /\ HoldsSession \subseteq Living
    BY DEF Spawned, Living, HoldsSession
  <2> QED BY <1>1, <1>2, <1>3, <2>1, <2>2 DEF KSInv, KSTypes, SessionsHeld, QuietStep
<1>5. KSTypes'
  <2>1. thread' \in [Thread -> ThreadPc]
    BY <1>2 DEF KSInv, KSTypes
  <2> QED BY <1>1, <2>1 DEF KSInv, KSTypes
<1> QED BY <1>4, <1>5, QuietKeeps DEF KSInv

\* The last step of a session thread: its session object is gone already.
LEMMA DecThreadNumKSInv ==
  ASSUME KSInv, NEW t \in Thread, dec_thread_num(t)
  PROVE  KSInv'
<1>1. /\ proc = "up"
      /\ UNCHANGED <<proc, main, comm, comm_fd, alive>>
      /\ UNCHANGED <<session_pool, reusable_ids, num_sess, subscribers, open_fds>>
      /\ Serving' = Serving
      /\ thread[t] = "dec_thread_num" /\ thread' = [thread EXCEPT ![t] = "none"]
      /\ th_fd' = [th_fd EXCEPT ![t] = NoFd] /\ th_sid' = [th_sid EXCEPT ![t] = 0]
  BY DEF dec_thread_num, smVars, mainVars, commVars, Serving
<1>2. t \notin alive
  BY <1>1 DEF KSInv, SessionsHeld, Living, HoldsSession
<1>3. QuietStep
  <2>1. "none" \notin Spawned \cup HoldsSession
    BY DEF Spawned, HoldsSession
  <2> QED BY <1>1, <1>2, <2>1 DEF KSInv, KSTypes, SessionsHeld, QuietStep
<1>4. KSTypes'
  BY <1>1 DEF KSInv, KSTypes, ThreadPc
<1> QED BY <1>3, <1>4, QuietKeeps DEF KSInv

\* A thread that uses a freed session faults or aborts the process.
LEMMA UsesFreedSessionKSInv ==
  ASSUME KSInv, NEW t \in Thread, UsesFreedSession(t)
  PROVE  KSInv'
<1>1. /\ proc = "up" /\ t \notin alive /\ thread[t] \in HoldsSession
      /\ UNCHANGED <<main, comm, comm_fd, th_fd, th_sid, alive>>
      /\ UNCHANGED <<session_pool, reusable_ids, num_sess, subscribers, open_fds>>
      /\ Serving' = Serving
  BY DEF UsesFreedSession, smVars, mainVars, commVars, HoldsSession, Serving
<1>3. \/ thread' = thread
      \/ \E pc \in {"faulting", "faulting_listing"} : thread' = [thread EXCEPT ![t] = pc]
  BY DEF UsesFreedSession
<1>4. QuietStep
  BY <1>1, <1>3 DEF KSInv, KSTypes, SessionsHeld, QuietStep, Spawned, HoldsSession
<1>5. KSTypes'
  BY <1>1, <1>3 DEF KSInv, KSTypes, ThreadPc, Living
<1> QED BY <1>4, <1>5, QuietKeeps DEF KSInv

\* A thread that a race makes fault keeps its session and its sockets.
LEMMA RacesKSInv ==
  ASSUME KSInv, Races
  PROVE  KSInv'
<1>1. /\ UNCHANGED <<session_pool, reusable_ids, num_sess, subscribers, open_fds, alive>>
      /\ UNCHANGED <<comm_fd, th_fd, th_sid>>
      /\ Serving' => Serving
  BY DEF Races, MainRaces, CommRaces, SessionRaces, smVars, mainVars, commVars, threadVars,
            Serving, Loop
<1>2. comm' \in [Kind -> CommPc]
  <2>1. \/ comm' = comm
        \/ \E k \in Kind : comm' = [comm EXCEPT ![k] = "faulting"]
    BY DEF Races, MainRaces, CommRaces, SessionRaces, commVars
  <2> QED BY <2>1 DEF KSInv, KSTypes, CommPc
<1>3. \/ thread' = thread
      \/ \E t \in Thread, pc \in {"faulting", "faulting_listing", "faulting_deleting"} :
           thread[t] \in HoldsSession /\ thread' = [thread EXCEPT ![t] = pc]
  BY DEF Races, MainRaces, CommRaces, SessionRaces, threadVars, HoldsSession
<1>4. QuietStep
  BY <1>1, <1>3 DEF KSInv, KSTypes, SessionsHeld, QuietStep, Spawned, HoldsSession, Living
<1>5. KSTypes'
  BY <1>1, <1>2, <1>3 DEF KSInv, KSTypes, ThreadPc, Living
<1> QED BY <1>4, <1>5, QuietKeeps DEF KSInv
-----------------------------------------------------------------------------
\* A session thread puts the socket it was given into the pool, under an id
\* that nobody has.
LEMMA CreatesSessionKSInv ==
  ASSUME KSInv, NEW t \in Thread, CreatesSession(t)
  PROVE  KSInv'
<1>1. /\ UNCHANGED <<proc, main, comm, comm_fd, th_fd>>
      /\ UNCHANGED <<subscribers, open_fds>>
      /\ proc = "up"
      /\ Serving' = Serving
      /\ thread[t] = "create_session" /\ thread' = [thread EXCEPT ![t] = "get_session"]
      /\ create_session(th_fd[t])
      /\ th_sid' = [th_sid EXCEPT ![t] = NewId]
      /\ alive' = alive \cup {t}
  BY DEF CreatesSession, Session, create_session, mainVars, commVars, Serving
<1>2. /\ th_fd[t] \in open_fds /\ th_fd[t] \in Fd
      /\ \A a \in CurrentIds : session_pool[a] # th_fd[t]
      /\ \A k \in Kind : comm_fd[k] # th_fd[t]
      /\ \A u \in Thread : thread[u] \in Spawned /\ th_fd[u] = th_fd[t] => u = t
  BY <1>1 DEF KSInv, KSTypes, SocketsHeld, Spawned
<1>3. /\ NewId \in Nat \ CurrentIds
      /\ CurrentIds' = CurrentIds \cup {NewId}
      /\ session_pool'[NewId] = th_fd[t]
      /\ \A id \in CurrentIds : session_pool'[id] = session_pool[id]
      /\ PoolInv'
  BY <1>1, <1>2, CreateSessionPool DEF KSInv
<1>4. /\ thread'[t] = "get_session" /\ th_sid'[t] = NewId
      /\ \A u \in Thread : u # t => thread'[u] = thread[u] /\ th_sid'[u] = th_sid[u]
  BY <1>1 DEF KSInv, KSTypes
<1>5. KSTypes'
  BY <1>1, <1>3 DEF KSInv, KSTypes, ThreadPc, Living, HoldsSession
<1>6. SocketsHeld'
  <2>1. \A u \in Thread : thread'[u] \in Spawned => thread[u] \in Spawned /\ u # t
    BY <1>4 DEF Spawned
  <2>2. \A a \in CurrentIds' : session_pool'[a] \in open_fds
    BY <1>2, <1>3 DEF KSInv, SocketsHeld
  <2>3. \A a, b \in CurrentIds' : session_pool'[a] = session_pool'[b] => a = b
    BY <1>2, <1>3 DEF KSInv, SocketsHeld
  <2>4. \A k \in Kind : comm_fd[k] # NoFd => \A a \in CurrentIds' : session_pool'[a] # comm_fd[k]
    BY <1>2, <1>3 DEF KSInv, SocketsHeld
  <2>5. \A u \in Thread : thread'[u] \in Spawned =>
          \A a \in CurrentIds' : session_pool'[a] # th_fd[u]
    BY <1>2, <1>3, <2>1 DEF KSInv, SocketsHeld
  <2> QED BY <1>1, <2>1, <2>2, <2>3, <2>4, <2>5 DEF KSInv, SocketsHeld
<1>7. SessionsHeld'
  <2>1. t \notin alive
    BY <1>1 DEF KSInv, SessionsHeld, Living, HoldsSession
  <2>2. \A u \in alive : u \in Thread /\ u # t
    BY <2>1 DEF KSInv, KSTypes
  <2>3. "get_session" \in Living
    BY DEF Living, HoldsSession
  <2> QED BY <1>1, <1>3, <1>4, <2>2, <2>3 DEF KSInv, SessionsHeld
<1>8. HeldWhileServing'
  BY <1>1, <1>3, <1>4 DEF KSInv, HeldWhileServing
<1> QED BY <1>3, <1>5, <1>6, <1>7, <1>8 DEF KSInv

\* What a deletion keeps of the pool, the sockets and the sessions, whoever
\* deletes: a live id, or one that was deleted before.
LEMMA DeletesSessionKeeps ==
  ASSUME KSInv, NEW id \in Nat, DeletesSession(id),
         UNCHANGED <<comm_fd, th_fd, th_sid>>,
         \A t \in Thread : thread'[t] \in Spawned => thread[t] \in Spawned,
         \A t \in alive' : thread'[t] \in Living
  PROVE  /\ PoolInv' /\ SocketsHeld' /\ SessionsHeld'
         /\ open_fds' \subseteq Fd /\ alive' \subseteq Thread
         /\ subscribers' \in [Channels -> Seq(Nat)]
         /\ \A c \in Channels : Injective(subscribers'[c])
         /\ \A t \in alive : th_sid[t] # id => t \in alive'
<1>1. CASE id \notin CurrentIds
  <2>1. /\ UNCHANGED <<session_pool, reusable_ids, num_sess, subscribers, open_fds, alive>>
        /\ CurrentIds' = CurrentIds
    BY <1>1 DEF DeletesSession, delete_session, smVars, CurrentIds
  <2>2. PoolInv'
    BY <2>1 DEF KSInv, PoolInv, IdsPartitioned, SessionsCounted, Issued
  <2>3. SocketsHeld' /\ SessionsHeld'
    BY <2>1 DEF KSInv, SocketsHeld, SessionsHeld
  <2> QED BY <2>1, <2>2, <2>3 DEF KSInv, KSTypes
<1>2. CASE id \in CurrentIds
  <2>1. /\ delete_session(id)
        /\ subscribers' = [c \in Channels |-> UnsubscribeFrom(subscribers[c], id)]
        /\ open_fds' = open_fds \ {session_pool[id]}
        /\ alive' = {t \in alive : th_sid[t] # id}
    BY <1>2 DEF DeletesSession, delete_session
  <2>2. /\ CurrentIds' = CurrentIds \ {id}
        /\ \A i \in CurrentIds' : session_pool'[i] = session_pool[i]
        /\ PoolInv'
    BY <1>2, <2>1, DeleteSessionPool DEF KSInv
  <2>3. \A c \in Channels :
          /\ UnsubscribeFrom(subscribers[c], id) \in Seq(Nat)
          /\ Range(UnsubscribeFrom(subscribers[c], id)) = Range(subscribers[c]) \ {id}
          /\ Injective(UnsubscribeFrom(subscribers[c], id))
    BY UnsubscribeFromProperties DEF KSInv, KSTypes
  <2>4. \A c \in Channels : subscribers'[c] = UnsubscribeFrom(subscribers[c], id)
    BY <2>1
  <2>5. subscribers' \in [Channels -> Seq(Nat)]
    BY <2>1, <2>3, Zenon
  <2>6. SocketsHeld'
    <3>1. \A a \in CurrentIds' : session_pool[a] \in open_fds'
      BY <1>2, <2>1, <2>2 DEF KSInv, SocketsHeld
    <3>2. \A k \in Kind : comm_fd[k] # NoFd => comm_fd[k] \in open_fds'
      BY <1>2, <2>1 DEF KSInv, SocketsHeld
    <3>3. \A t \in Thread : thread[t] \in Spawned => th_fd[t] \in open_fds'
      BY <1>2, <2>1 DEF KSInv, SocketsHeld
    <3> QED BY <2>2, <3>1, <3>2, <3>3 DEF KSInv, SocketsHeld
  <2>7. SessionsHeld'
    BY <2>1, <2>2 DEF KSInv, SessionsHeld
  <2>8. open_fds' \subseteq Fd /\ alive' \subseteq Thread
    BY <2>1 DEF KSInv, KSTypes
  <2>9. \A c \in Channels : Injective(subscribers'[c])
    BY <2>3, <2>4, Zenon
  <2> QED BY <2>1, <2>2, <2>5, <2>6, <2>7, <2>8, <2>9
<1> QED BY <1>1, <1>2

\* A session thread deletes its own session; while the server serves, the id
\* is still its own and no other thread loses its session.
LEMMA DeletesOwnSessionKSInv ==
  ASSUME KSInv, NEW t \in Thread, DeletesOwnSession(t)
  PROVE  KSInv'
<1>1. /\ UNCHANGED <<main, comm, comm_fd, th_fd, th_sid>>
      /\ proc = "up"
      /\ Serving' = Serving
      /\ thread[t] = "deleting" /\ thread' = [thread EXCEPT ![t] = "dec_thread_num"]
      /\ DeletesSession(th_sid[t])
  BY DEF DeletesOwnSession, Session, mainVars, commVars, Serving
<1>2. th_sid[t] \in Nat
  BY DEF KSInv, KSTypes
<1>3. \A u \in Thread : thread'[u] = IF u = t THEN "dec_thread_num" ELSE thread[u]
  BY <1>1 DEF KSInv, KSTypes
<1>4. \A u \in Thread : thread'[u] \in Spawned => thread[u] \in Spawned
  BY <1>3 DEF Spawned
<1>5. \A u \in alive' : u \in alive /\ u # t
  <2>1. t \in alive => th_sid[t] \in CurrentIds
    BY DEF KSInv, SessionsHeld
  <2> QED BY <1>1, <2>1 DEF DeletesSession
<1>6. \A u \in alive' : thread'[u] \in Living
  BY <1>3, <1>5 DEF KSInv, KSTypes, SessionsHeld
<1>7. /\ PoolInv' /\ SocketsHeld' /\ SessionsHeld'
      /\ open_fds' \subseteq Fd /\ alive' \subseteq Thread
      /\ subscribers' \in [Channels -> Seq(Nat)]
      /\ \A c \in Channels : Injective(subscribers'[c])
      /\ \A u \in alive : th_sid[u] # th_sid[t] => u \in alive'
  BY <1>1, <1>2, <1>4, <1>6, DeletesSessionKeeps
<1>8. KSTypes'
  BY <1>1, <1>7 DEF KSInv, KSTypes, ThreadPc
<1>9. HeldWhileServing'
  <2> SUFFICES ASSUME Serving'
               PROVE  \A u \in Thread : thread'[u] \in HoldsSession => u \in alive'
    BY DEF HeldWhileServing
  <2>1. t \in alive
    BY <1>1 DEF KSInv, HeldWhileServing, HoldsSession
  <2>2. \A u \in Thread : thread'[u] \in HoldsSession => u # t /\ thread[u] \in HoldsSession
    BY <1>3 DEF HoldsSession
  <2>3. \A u \in Thread : thread'[u] \in HoldsSession => u \in alive /\ th_sid[u] # th_sid[t]
    BY <1>1, <2>1, <2>2 DEF KSInv, HeldWhileServing, SessionsHeld
  <2> QED BY <1>7, <2>3
<1> QED BY <1>7, <1>8, <1>9 DEF KSInv

\* One round of delete_all, which runs only once the server has stopped
\* serving.
LEMMA DeleteAllDeletesKSInv ==
  ASSUME KSInv, delete_all_deletes
  PROVE  KSInv'
<1>1. /\ UNCHANGED <<comm, comm_fd, thread, th_fd, th_sid>>
      /\ ~Serving' /\ main' # "start"
      /\ DeletesSession(Min(doomed))
  BY DEF delete_all_deletes, Main, Serving, Loop
<1>2. PICK id : id = Min(doomed) /\ DeletesSession(id)
  BY <1>1
<1>3. \A u \in alive' : thread'[u] \in Living
  BY <1>1 DEF DeletesSession, KSInv, SessionsHeld
<1>4. /\ PoolInv' /\ SocketsHeld' /\ SessionsHeld'
      /\ open_fds' \subseteq Fd /\ alive' \subseteq Thread
      /\ subscribers' \in [Channels -> Seq(Nat)]
      /\ \A c \in Channels : Injective(subscribers'[c])
  <2>1. CASE id \in Nat
    BY <1>1, <1>2, <1>3, <2>1, DeletesSessionKeeps
  <2>2. CASE id \notin Nat
    <3>1. /\ UNCHANGED <<session_pool, reusable_ids, num_sess, subscribers, open_fds, alive>>
          /\ CurrentIds' = CurrentIds
      BY <1>2, <2>2 DEF DeletesSession, delete_session, smVars, CurrentIds, KSInv, PoolInv
    <3>2. PoolInv'
      BY <3>1 DEF KSInv, PoolInv, IdsPartitioned, SessionsCounted, Issued
    <3> QED BY <1>1, <3>1, <3>2 DEF KSInv, KSTypes, SocketsHeld, SessionsHeld
  <2> QED BY <2>1, <2>2
<1>5. KSTypes'
  BY <1>1, <1>4 DEF KSInv, KSTypes
<1>6. HeldWhileServing'
  BY <1>1 DEF HeldWhileServing
<1> QED BY <1>4, <1>5, <1>6 DEF KSInv

\* SUBSCRIBE_PUBSUB lists the session's own id, live or not.
LEMMA ExecutesSubscribeKSInv ==
  ASSUME KSInv, NEW t \in Thread, NEW arg \in ChannelArg, ExecutesSubscribe(t, arg)
  PROVE  KSInv'
<1>1. /\ UNCHANGED <<main, comm, comm_fd, th_fd, th_sid, alive>>
      /\ UNCHANGED <<session_pool, reusable_ids, num_sess, open_fds, proc>>
      /\ CurrentIds' = CurrentIds
      /\ proc = "up"
      /\ Serving' = Serving
      /\ thread[t] = "execute" /\ thread' = [thread EXCEPT ![t] = "read_command"]
      /\ subscribe(arg, th_sid[t])
  BY DEF ExecutesSubscribe, Session, subscribe, poolVars, mainVars, commVars, CurrentIds, Serving
<1>2. subscribers \in [Channels -> Seq(Nat)] /\ th_sid[t] \in Nat
  BY DEF KSInv, KSTypes
<1>3. \A c \in Channels :
        /\ subscribers'[c] \in Seq(Nat)
        /\ Range(subscribers'[c]) \subseteq Range(subscribers[c]) \cup {th_sid[t]}
        /\ Injective(subscribers'[c])
  <2> TAKE c \in Channels
  <2>1. subscribers[c] \in Seq(Nat) /\ Injective(subscribers[c])
    BY DEF KSInv, KSTypes
  <2>2. subscribers'[c] = subscribers[c] \/ subscribers'[c] = SubscribeTo(subscribers[c], th_sid[t])
    BY <1>1, <1>2 DEF subscribe
  <2>3. /\ SubscribeTo(subscribers[c], th_sid[t]) \in Seq(Nat)
        /\ Range(SubscribeTo(subscribers[c], th_sid[t])) = Range(subscribers[c]) \cup {th_sid[t]}
        /\ Injective(SubscribeTo(subscribers[c], th_sid[t]))
    BY ONLY <1>2, <2>1, SubscribeToProperties
  <2> QED BY <2>1, <2>2, <2>3
<1>4. subscribers' \in [Channels -> Seq(Nat)]
  <2>1. subscribers' = [c \in Channels |-> subscribers'[c]]
    BY <1>1, <1>2 DEF subscribe
  <2> QED BY <1>3, <2>1, Zenon
<1>5. KSTypes'
  <2>1. thread' \in [Thread -> ThreadPc]
    BY <1>1 DEF KSInv, KSTypes, ThreadPc, Living, HoldsSession
  <2>2. \A c \in Channels : Injective(subscribers'[c])
    BY <1>3, Zenon
  <2> QED BY <1>1, <1>4, <2>1, <2>2 DEF KSInv, KSTypes
<1>6. \A u \in Thread : thread'[u] = IF u = t THEN "read_command" ELSE thread[u]
  BY <1>1 DEF KSInv, KSTypes
<1>7. PoolInv'
  BY <1>1 DEF KSInv, PoolInv, IdsPartitioned, SessionsCounted, Issued
<1>8. \A u \in Thread : thread'[u] \in Spawned => thread[u] \in Spawned
  BY <1>6 DEF Spawned
<1>9. SocketsHeld'
  BY <1>1, <1>8 DEF KSInv, SocketsHeld
<1>10. SessionsHeld'
  <2>1. "read_command" \in Living
    BY DEF Living, HoldsSession
  <2> QED BY <1>1, <1>6, <2>1 DEF KSInv, KSTypes, SessionsHeld
<1>11. HeldWhileServing'
  <2>1. \A u \in Thread : thread'[u] \in HoldsSession => thread[u] \in HoldsSession
    BY <1>1, <1>6 DEF HoldsSession
  <2> QED BY <1>1, <2>1 DEF KSInv, HeldWhileServing
<1> QED BY <1>5, <1>7, <1>9, <1>10, <1>11 DEF KSInv
-----------------------------------------------------------------------------
\* Every step of every thread, and of a signal handler, preserves the
\* invariant.
LEMMA NextKSInv == KSInv /\ [KSNext]_ksVars => KSInv'
<1> SUFFICES ASSUME KSInv, [KSNext]_ksVars PROVE KSInv'
  OBVIOUS
<1>1. CASE exit_signal_handler
  BY <1>1, SignalKSInv
<1>2. CASE MainThread
  BY <1>2, MainQuietKSInv, DeleteAllDeletesKSInv DEF MainThread
<1>3. ASSUME NEW k \in Kind,
             CommThread(k) \/ CommOptionsFail(k) \/ \E fd \in Fd : CommAccept(k, fd)
      PROVE  KSInv'
  BY <1>3, CommQuietKSInv, CommSpawnsKSInv, CommAcceptKSInv DEF CommThread
<1>4. ASSUME NEW t \in Thread, SessionThread(t)
      PROVE  KSInv'
  <2>1. CASE CreatesSession(t)
    BY <2>1, CreatesSessionKSInv
  <2>2. CASE \E arg \in ChannelArg : ExecutesSubscribe(t, arg)
    BY <2>2, ExecutesSubscribeKSInv
  <2>3. CASE DeletesOwnSession(t)
    BY <2>3, DeletesOwnSessionKSInv
  <2>4. CASE dec_thread_num(t)
    BY <2>4, DecThreadNumKSInv
  <2>5. CASE UsesFreedSession(t)
    BY <2>5, UsesFreedSessionKSInv
  <2> QED BY <1>4, <2>1, <2>2, <2>3, <2>4, <2>5, SessionQuietKSInv DEF SessionThread
<1>5. CASE UNCHANGED ksVars
  <2>1. /\ UNCHANGED <<session_pool, reusable_ids, num_sess, subscribers, open_fds, alive>>
        /\ UNCHANGED <<main, comm, comm_fd>>
        /\ UNCHANGED <<thread, th_fd, th_sid>>
        /\ CurrentIds' = CurrentIds /\ Serving' = Serving
    BY <1>5 DEF ksVars, smVars, mainVars, commVars, threadVars, CurrentIds, Serving
  <2>2. QuietStep
    BY <2>1 DEF KSInv, KSTypes, SessionsHeld, QuietStep
  <2>3. KSTypes'
    BY <2>1 DEF KSInv, KSTypes
  <2> QED BY <2>2, <2>3, QuietKeeps DEF KSInv
<1>6. CASE LogReaders
  <2>1. UNCHANGED <<smVars, mainVars, commVars, threadVars>>
    BY <1>6 DEF LogReaders
  <2>2. /\ UNCHANGED <<session_pool, reusable_ids, num_sess, subscribers, open_fds, alive>>
        /\ UNCHANGED <<main, comm, comm_fd>>
        /\ UNCHANGED <<thread, th_fd, th_sid>>
        /\ CurrentIds' = CurrentIds /\ Serving' = Serving
    BY <2>1 DEF smVars, mainVars, commVars, threadVars, CurrentIds, Serving
  <2>3. QuietStep
    BY <2>2 DEF KSInv, KSTypes, SessionsHeld, QuietStep
  <2>4. KSTypes'
    BY <2>2 DEF KSInv, KSTypes
  <2> QED BY <2>3, <2>4, QuietKeeps DEF KSInv
<1>7. CASE Races
  BY <1>7, RacesKSInv
<1> QED BY <1>1, <1>2, <1>3, <1>4, <1>5, <1>6, <1>7 DEF KSNext, Ended

\* Every state the server can reach satisfies the invariant, for any number of
\* channels, connections and session threads.
THEOREM KSInvariance == KSSpec => []KSInv
BY InitKSInv, NextKSInv, PTL DEF KSSpec

\* A session thread runs its own session on its own socket: until delete_all
\* nobody deletes or replaces a session under its thread's feet, and no two
\* session objects share a socket even during the shutdown.
THEOREM KSThreadsOwnSessions == KSSpec => []ThreadsOwnSessions
<1>1. KSInv => ThreadsOwnSessions
  <2> SUFFICES ASSUME KSInv PROVE ThreadsOwnSessions
    OBVIOUS
  <2>1. Serving => \A t \in Thread : thread[t] \in HoldsSession =>
          t \in alive /\ th_sid[t] \in CurrentIds /\ session_pool[th_sid[t]] = th_fd[t]
    BY DEF KSInv, HeldWhileServing, SessionsHeld
  <2>2. \A t, u \in alive : th_fd[t] = th_fd[u] => t = u
    BY DEF KSInv, SessionsHeld, SocketsHeld
  <2> QED BY <2>1, <2>2 DEF ThreadsOwnSessions, HoldsSession
<1> QED BY <1>1, KSInvariance, PTL

\* A socket is closed by the deletion of its own session only: what is in the
\* pool, accepted or about to be is open, on descriptors that all differ.
THEOREM KSSocketsHeld == KSSpec => []SocketsHeld
<1>1. KSInv => SocketsHeld
  BY DEF KSInv
<1> QED BY <1>1, KSInvariance, PTL

\* Session threads and delete_all together never free an id twice nor lose
\* count of the sessions.
THEOREM KSPoolConsistent == KSSpec => []PoolConsistent
<1>1. KSInv => PoolConsistent
  BY DEF KSInv, PoolInv, PoolConsistent
<1> QED BY <1>1, KSInvariance, PTL
-----------------------------------------------------------------------------
\* A step of the server creates a session, deletes one, or leaves the pool
\* alone; on the pool it is a step of SessionIds or a stutter.
LEMMA KSRefineNext == KSInv /\ [KSNext]_ksVars => [Ids!IdsNext]_(Ids!idVars)
<1> SUFFICES ASSUME KSInv, [KSNext]_ksVars PROVE [Ids!IdsNext]_(Ids!idVars)
  OBVIOUS
<1>1. ASSUME UNCHANGED poolVars
      PROVE  UNCHANGED Ids!idVars
  BY <1>1 DEF poolVars, Ids!idVars, CurrentIds, Issued
<1>2. ASSUME NEW id, DeletesSession(id)
      PROVE  [Ids!IdsNext]_(Ids!idVars)
  <2>1. CASE id \in CurrentIds
    BY <1>2, <2>1, RefineDelete DEF DeletesSession, KSInv
  <2>2. CASE id \notin CurrentIds
    BY <1>1, <1>2, <2>2 DEF DeletesSession, delete_session, smVars, poolVars
  <2> QED BY <2>1, <2>2
<1>3. CASE exit_signal_handler
  BY <1>1, <1>3 DEF exit_signal_handler, smVars, poolVars
<1>4. CASE MainThread
  <2>1. CASE delete_all_deletes
    BY <1>2, <2>1 DEF delete_all_deletes
  <2>2. CASE ~delete_all_deletes
    <3>1. UNCHANGED smVars
      BY <1>4, <2>2 DEF MainThread, start_listeners_workers, start_listeners_fails,
           ExitsAfterFailure, NotifyReady, SeesInterrupt, delete_all_next, delete_all_done, close_listeners, CloseWith,
           shutdown_listener, join_listeners_workers
    <3> QED BY <1>1, <3>1 DEF smVars, poolVars
  <2> QED BY <2>1, <2>2
<1>5. ASSUME NEW k \in Kind,
             CommThread(k) \/ CommOptionsFail(k) \/ \E fd \in Fd : CommAccept(k, fd)
      PROVE  UNCHANGED poolVars
  BY <1>5 DEF CommThread, CommStart, CommWhile, CommAcceptFails, CommOptionsFail, CommDrops,
       CommSpawns,       SpawnAndGoto, CommAccept, Accept, smVars, poolVars
<1>6. ASSUME NEW t \in Thread, SessionThread(t)
      PROVE  [Ids!IdsNext]_(Ids!idVars)
  <2>1. CASE CreatesSession(t)
    <3>1. th_fd[t] \in Fd
      BY <2>1 DEF KSInv, KSTypes, SocketsHeld, Spawned, CreatesSession, Session
    <3> QED BY <2>1, <3>1, RefineCreate DEF CreatesSession, KSInv
  <2>2. CASE DeletesOwnSession(t)
    BY <1>2, <2>2 DEF DeletesOwnSession
  <2>3. CASE ~CreatesSession(t) /\ ~DeletesOwnSession(t)
    <3>1. UNCHANGED poolVars
      BY <1>6, <2>3 DEF SessionThread, inc_thread_num, CountThread, get_session, ReadsCommand,
           RunReturns, Executes, ExecutesCircular, ExecutesSubscribe, subscribe, ListsSessions,
           LooksUpSession, ListReturns, ExecutesFault, LocksManager, dec_thread_num,
           UsesFreedSession, smVars, poolVars
    <3> QED BY <1>1, <3>1
  <2> QED BY <2>1, <2>2, <2>3
<1>7. CASE UNCHANGED ksVars
  BY <1>1, <1>7 DEF ksVars, smVars, poolVars
<1>8. CASE LogReaders \/ Races
  BY <1>1, <1>8 DEF LogReaders, Races, MainRaces, CommRaces, SessionRaces, smVars, poolVars
<1> QED BY <1>1, <1>3, <1>4, <1>5, <1>6, <1>7, <1>8 DEF KSNext, Ended

\* With all its threads and its shutdown, the server hands out session ids as
\* SessionIds says.
THEOREM KSRefinesSessionIds == KSSpec => IdsRefined
<1>1. KSInit => Ids!IdsInit
  BY RefineInit DEF KSInit
<1> QED BY <1>1, KSRefineNext, KSInvariance, PTL DEF KSSpec, IdsRefined, Ids!IdsSpec
=============================================================================
