---------------------------- MODULE Subscribers ----------------------------
(***************************************************************************)
(* The operations of struct Subscribers (core/pubsub.hpp) on one channel's *)
(* std::vector<SessID>, as operators on sequences.  Each runs to           *)
(* completion here, although subscribe is called under KServer::ks_mutex    *)
(* and unsubscribe under the mutex of SessionManager.                      *)
(***************************************************************************)
EXTENDS Naturals, Sequences, Functions

\* std::find: the position of the first sid of the vector s; s holds one.
FirstIndex(s, sid) ==
  CHOOSE i \in DOMAIN s : s[i] = sid /\ \A j \in 1..(i - 1) : s[j] # sid

\* Subscribers::subscribe on one vector: at the back, unless already there.
SubscribeTo(s, sid) == IF sid \in Range(s) THEN s ELSE Append(s, sid)

\* Mutant of UnsubscribeFrom: the last element is popped without the swap.
UnsubscribeNoSwap(s, sid) ==
  IF sid \in Range(s) THEN SubSeq(s, 1, Len(s) - 1) ELSE s

\* Subscribers::unsubscribe on one vector: swap the element found with the
\* last one and pop it, which changes the order of the others.
UnsubscribeFrom(s, sid) ==
  IF sid \in Range(s)
  THEN [i \in 1..(Len(s) - 1) |-> IF i = FirstIndex(s, sid) THEN s[Len(s)] ELSE s[i]]
  ELSE s
=============================================================================
