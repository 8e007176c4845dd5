---------------------------- MODULE SlotSchedule ----------------------------
(* What the slot admission relies on when it calls a slot of the superframe  *)
(* its own: every superframe runs some of its slots in their order.  A slot  *)
(* may run a second time, directly after the first (an event left by the     *)
(* superframe before may come just when the slot begins), and never a third. *)
EXTENDS Integers, Sequences

CONSTANT NSlots

VARIABLE ran   \* the slots that have run in this superframe, oldest first

NewSuperframe == ran' = <<>>

RunSlot(i) ==
  /\ \A k \in DOMAIN ran : ran[k] <= i
  /\ \A j, k \in DOMAIN ran : ran[j] = i /\ ran[k] = i => j = k
  /\ ran' = Append(ran, i)

Init == ran = <<>>

Next == NewSuperframe \/ \E i \in 1 .. NSlots - 1 : RunSlot(i)

Spec == Init /\ [][Next]_ran
=============================================================================
