----------------------------- MODULE SessionIds -----------------------------
(***************************************************************************)
(* What SessionManager promises about session identifiers, without the     *)
(* free list: an id is handed out to at most one live session at a time,   *)
(* and the ids are dense: an id never used before is issued only when      *)
(* every id issued so far is live.                                         *)
(***************************************************************************)
EXTENDS Naturals

VARIABLES live,    \* the ids of the live sessions
          issued   \* how many ids were ever issued: they are 0 .. issued - 1

idVars == <<live, issued>>

IdsInit == live = {} /\ issued = 0

\* An id freed by a closed session is given to a new one.
Reuse(id) ==
  /\ id \in 0..(issued - 1)
  /\ id \notin live
  /\ live' = live \cup {id}
  /\ UNCHANGED issued

\* A new id, only when none is free.
Issue ==
  /\ live = 0..(issued - 1)
  /\ live' = live \cup {issued}
  /\ issued' = issued + 1

Free(id) ==
  /\ id \in live
  /\ live' = live \ {id}
  /\ UNCHANGED issued

IdsNext ==
  \/ Issue
  \/ \E id \in 0..(issued - 1) : Reuse(id) \/ Free(id)

IdsSpec == IdsInit /\ [][IdsNext]_idVars
=============================================================================
