------------------------------- MODULE Ticket -------------------------------
(***************************************************************************)
(* What a store of one-time records promises, whatever the commands that     *)
(* implement it: a record is issued once with a content that never changes,  *)
(* and it ends either because it lapses or because one holder takes it.      *)
(* Nobody takes a record that has ended, and nothing brings one back.        *)
(***************************************************************************)
CONSTANTS Ids, Holders, None

VARIABLES
  live,      \* id -> the content of a record that can be taken, or None
  ended,     \* ids of the records that cannot be taken any more
  taker      \* id -> who took it, or None

vars == <<live, ended, taker>>

Init ==
  /\ live = [i \in Ids |-> None]
  /\ ended = {}
  /\ taker = [i \in Ids |-> None]

Issue(i) ==
  /\ live[i] = None /\ i \notin ended
  /\ live'[i] # None
  /\ live' = [live EXCEPT ![i] = live'[i]]
  /\ UNCHANGED <<ended, taker>>

Take(i, h) ==
  /\ live[i] # None
  /\ live' = [live EXCEPT ![i] = None]
  /\ ended' = ended \cup {i}
  /\ taker' = [taker EXCEPT ![i] = h]

Lapse(i) ==
  /\ live[i] # None
  /\ live' = [live EXCEPT ![i] = None]
  /\ ended' = ended \cup {i}
  /\ UNCHANGED taker

Next == \E i \in Ids : Issue(i) \/ Lapse(i) \/ \E h \in Holders : Take(i, h)

Spec == Init /\ [][Next]_vars
=============================================================================
