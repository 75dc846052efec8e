--------------------------- MODULE SessionManager ---------------------------
(***************************************************************************)
(* class SessionManager (core/session_manager.hpp and .cpp) with the       *)
(* subscriber lists it cleans up (core/pubsub.hpp) and the sockets it      *)
(* closes.  create_session and delete_session hold the manager's mutex     *)
(* from their first to their last statement, so each is one action.        *)
(* SUBSCRIBE_PUBSUB holds another mutex: that each call is whole is an      *)
(* assumption here about the subscriber lists, and PubSub has what happens  *)
(* to a list when it fails.  The pool, the ids and the sockets are not      *)
(* touched by a subscription.                                              *)
(***************************************************************************)
EXTENDS Integers, Sequences, FiniteSets, Subscribers

CONSTANTS Fd,          \* file descriptors the kernel can return from accept
          ChannelArg   \* channel numbers a client sends with SUBSCRIBE_PUBSUB

ASSUME FdAssumption == IsFiniteSet(Fd)
ASSUME ChannelArgAssumption == ChannelArg \subseteq Nat

VARIABLES session_pool,   \* std::map<SessID, Session>: id -> the session's comm_fd
          reusable_ids,   \* std::vector<SessID>, used as a stack
          num_sess,
          subscribers,    \* channel -> std::vector<SessID>
          open_fds        \* connected sockets not yet closed by the server

poolVars == <<session_pool, reusable_ids, num_sess>>
smVars == <<session_pool, reusable_ids, num_sess, subscribers, open_fds>>

\* PubSub::Channels: SERVER_CHANNEL, SYSLOG_CHANNEL, DEVICES_CHANNEL.
channels_count == 3
Channels == 0..(channels_count - 1)

CurrentIds == DOMAIN session_pool

SMInit ==
  /\ session_pool = << >>
  /\ reusable_ids = << >>
  /\ num_sess = 0
  /\ subscribers = [c \in Channels |-> << >>]
  /\ open_fds = {}
-----------------------------------------------------------------------------
\* The kernel returns from accept a descriptor that is not in use.
Accept(fd) ==
  /\ fd \notin open_fds
  /\ open_fds' = open_fds \cup {fd}
  /\ UNCHANGED <<poolVars, subscribers>>

\* std::map::insert: an existing entry is kept.
MapInsert(map, id, fd) ==
  [i \in DOMAIN map \cup {id} |-> IF i \in DOMAIN map THEN map[i] ELSE fd]

\* Mutant of MapErase: the entry stays.
MapEraseMissing(map, id) == map

\* std::map::erase
MapErase(map, id) == [i \in DOMAIN map \ {id} |-> map[i]]

\* Mutant of NewId: the id is taken from the bottom of the vector while the
\* pop is at the top.
NewIdFront == IF reusable_ids = << >> THEN num_sess ELSE reusable_ids[1]

\* The id create_session gives: the top of the stack, or the session count.
NewId ==
  IF reusable_ids = << >> THEN num_sess ELSE reusable_ids[Len(reusable_ids)]

create_session(fd) ==
  /\ reusable_ids' = IF reusable_ids = << >> THEN reusable_ids
                     ELSE SubSeq(reusable_ids, 1, Len(reusable_ids) - 1)
  /\ session_pool' = MapInsert(session_pool, NewId, fd)
  /\ num_sess' = num_sess + 1
  /\ UNCHANGED <<subscribers, open_fds>>

\* Mutant of delete_session: no look whether the id is still allocated.
delete_session_unchecked(id) ==
  /\ subscribers' = [c \in Channels |-> UnsubscribeFrom(subscribers[c], id)]
  /\ open_fds' = IF id \in CurrentIds THEN open_fds \ {session_pool[id]} ELSE open_fds
  /\ session_pool' = MapErase(session_pool, id)
  /\ reusable_ids' = Append(reusable_ids, id)
  /\ num_sess' = num_sess - 1

\* delete_session of an id that is not allocated only logs.
delete_session(id) ==
  IF id \in CurrentIds
  THEN /\ subscribers' = [c \in Channels |-> UnsubscribeFrom(subscribers[c], id)]
       /\ open_fds' = open_fds \ {session_pool[id]}
       /\ session_pool' = MapErase(session_pool, id)
       /\ reusable_ids' = Append(reusable_ids, id)
       /\ num_sess' = num_sess - 1
  ELSE UNCHANGED smVars

\* KServer::execute_op<SUBSCRIBE_PUBSUB>: the channel is read as a uint32_t
\* and narrowed to the uint16_t parameter of PubSub::subscribe; a channel out
\* of range after the narrowing is refused with -1.
subscribe(arg, sid) ==
  LET channel == arg % (2 ^ 16)
  IN  /\ subscribers' = IF channel < channels_count
                        THEN [subscribers EXCEPT ![channel] = SubscribeTo(@, sid)]
                        ELSE subscribers
      /\ UNCHANGED <<poolVars, open_fds>>
-----------------------------------------------------------------------------
\* A session thread creates its session from a socket just accepted.
Create == \E fd \in open_fds \ Range(session_pool) : create_session(fd)

\* A session's own thread or delete_all deletes it; another caller may have
\* been there before.
Delete == \E id \in CurrentIds \cup Range(reusable_ids) : delete_session(id)

\* A session thread executes SUBSCRIBE_PUBSUB, with nothing that says its
\* session is still there: delete_all may have deleted it already, and the id
\* may be free or another session's by now.
Subscribe ==
  \E sid \in CurrentIds \cup Range(reusable_ids), arg \in ChannelArg : subscribe(arg, sid)

SMNext ==
  \/ \E fd \in Fd : Accept(fd)
  \/ Create
  \/ Delete
  \/ Subscribe

SMSpec == SMInit /\ [][SMNext]_smVars
-----------------------------------------------------------------------------
\* Type invariant.
SMTypeOK ==
  /\ CurrentIds \subseteq Nat
  /\ session_pool \in [CurrentIds -> Fd]
  /\ reusable_ids \in Seq(Nat)
  /\ num_sess \in Nat
  /\ subscribers \in [Channels -> Seq(Nat)]
  /\ open_fds \in SUBSET Fd

\* The number of ids issued so far.
Issued == num_sess + Len(reusable_ids)

\* The ids issued so far are split without overlap between the live sessions
\* and the stack of reusable ids (the assert of get_current_ids), and no id
\* is on the stack twice: otherwise two sessions would get the same id, the
\* second be dropped by map::insert and its thread run the first one's.
IdsPartitioned ==
  /\ CurrentIds \cup Range(reusable_ids) = 0..(Issued - 1)
  /\ CurrentIds \cap Range(reusable_ids) = {}
  /\ \A i, j \in DOMAIN reusable_ids : reusable_ids[i] = reusable_ids[j] => i = j

\* num_sess counts the sessions of the pool (the assert of delete_all): a
\* session whose insertion was dropped would make it one too many.
SessionsCounted ==
  IsFiniteSet(CurrentIds) /\ num_sess = Cardinality(CurrentIds)

\* Every session owns an open socket of its own: deleting one session never
\* closes the socket another one is served on.
SocketsOwned ==
  /\ Range(session_pool) \subseteq open_fds
  /\ \A a, b \in CurrentIds : session_pool[a] = session_pool[b] => a = b

\* Closing a session removes nobody else from a channel (the swap with the
\* last element moves it, it must not drop it).
OthersKeepSubscription ==
  [][\A c \in Channels :
       Range(subscribers[c]) \cap CurrentIds' \subseteq Range(subscribers'[c])]_smVars

\* The id discipline of session_pool and reusable_ids is that of SessionIds.
Ids == INSTANCE SessionIds WITH live <- CurrentIds, issued <- Issued
IdsRefined == Ids!IdsSpec
=============================================================================
