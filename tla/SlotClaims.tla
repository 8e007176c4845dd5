----------------------------- MODULE SlotClaims -----------------------------
(***************************************************************************)
(* What slot admission promises, without saying how: a node that is in     *)
(* sync may claim a slot that no conflicting node holds, keeps it, and     *)
(* gives it up only when it loses the sync.                                *)
(***************************************************************************)
EXTENDS Integers

CONSTANTS
  Node,
  Slot,      \* 0 stands for no slot
  Conflict   \* pairs of nodes that may not share a slot

VARIABLES
  claim,     \* the slot of each node
  synced     \* the nodes in sync

vars == <<claim, synced>>

Free(n, s) == \A m \in Node :
  <<m, n>> \in Conflict \/ <<n, m>> \in Conflict => claim[m] # s

Init ==
  /\ claim = [n \in Node |-> 0]
  /\ synced = {}

(* An admitted node takes a slot for good. *)
Join(n, s) ==
  /\ n \in synced /\ claim[n] = 0
  /\ s # 0 /\ Free(n, s)
  /\ claim' = [claim EXCEPT ![n] = s]
  /\ UNCHANGED synced

Sync(n) ==
  /\ n \notin synced
  /\ synced' = synced \cup {n}
  /\ UNCHANGED claim

(* The master has its slot as soon as it is in sync. *)
SyncMaster(n, s) ==
  /\ n \notin synced
  /\ s # 0 /\ Free(n, s)
  /\ synced' = synced \cup {n}
  /\ claim' = [claim EXCEPT ![n] = s]

Lose(n) ==
  /\ synced' = synced \ {n}
  /\ claim' = [claim EXCEPT ![n] = 0]

Next ==
  \E n \in Node :
    \/ Sync(n) \/ Lose(n)
    \/ \E s \in Slot : Join(n, s) \/ SyncMaster(n, s)

Spec == Init /\ [][Next]_vars

=============================================================================
