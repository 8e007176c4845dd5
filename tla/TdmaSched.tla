----------------------------- MODULE TdmaSched -----------------------------
(***************************************************************************)
(* The slot scheduler of one node: firmware/lib/rtls_tdma/src/tdma.c.      *)
(*                                                                         *)
(* A CCP packet sets the epoch and queues the event of the superframe.     *)
(* Its callback starts one timer per slot; a timer's interrupt queues the  *)
(* event of its slot.  One task of low priority runs the events in turn    *)
(* and drops a slot that comes too late.  Time is the 32-bit counter of    *)
(* the cputime clock, here of Wrap ticks.                                  *)
(***************************************************************************)
EXTENDS Integers, Sequences

CONSTANTS
  NSlots,      \* TDMA_NSLOTS
  Wrap,        \* 2^32
  SlotTicks,   \* ccp->period / nslots
  Latency,     \* OS_LATENCY
  MaxDelay,    \* TDMA_MAX_SLOT_DELAY_US
  IrqDelay,    \* the most an epoch lies before the callback that sets it
  MaxBusy      \* bound on the time an event keeps the task from the next one

ASSUME TimeAssumption ==
  /\ NSlots \in Nat \ {0}
  /\ Wrap \in Nat \ {0}
  /\ SlotTicks \in Nat /\ Latency \in Nat /\ MaxDelay \in Nat
  /\ IrqDelay \in Nat /\ MaxBusy \in Nat

(* A slot is longer than the delay it is allowed, and the clock has at least *)
(* twice the length of all that is compared: of a superframe, and of the     *)
(* time an event may wait for the task with all the events before it.        *)
ASSUME MarginAssumption ==
  /\ MaxDelay < SlotTicks
  /\ 2 * IrqDelay <= NSlots * SlotTicks
  /\ 2 * (NSlots * SlotTicks) <= Wrap
  /\ IrqDelay + Latency + 2 * ((2 * NSlots + 1) * MaxBusy) < Wrap \div 2

(* The task gets through with the events of a superframe, one for each slot  *)
(* and its own, and with what it was doing, before the next one begins; and  *)
(* the last slot begins before the next packet may come.                     *)
Fits ==
  /\ 2 * IrqDelay + (NSlots + 2) * MaxBusy < NSlots * SlotTicks
  /\ IrqDelay <= SlotTicks + Latency

VARIABLES
  now,       \* dpl_cputime_get32
  os_epoch,  \* tdma->os_epoch
  start,     \* cputime_slot_start of each slot
  armed,     \* the slots whose timer runs
  queue,     \* tdma->eventq
  pc,        \* where tdma_task is
  ev,        \* the event it handles
  armidx,    \* i of the loop in tdma_superframe_slot_cb
  busy,      \* ticks since it took the event
  early,     \* the last epoch came before the end of a superframe
  steady,    \* history: no epoch has come before the end of a superframe
  ran        \* history: the slots that have run in this superframe

task == <<pc, ev, armidx, busy>>
vars == <<now, os_epoch, start, armed, queue, task, early, steady, ran>>

Slot == 0 .. NSlots - 1

Superframe == -1     \* superframe_slot, whose idx is 0

Tick32 == 0 .. Wrap - 1

Later(t, d) == (t + d) % Wrap

(* Mutant of Put: the event is queued whether or not it is queued already. *)
PutAlways(q, e) == Append(q, e)

(* dpl_eventq_put *)
Put(q, e) == IF \E k \in DOMAIN q : q[k] = e THEN q ELSE Append(q, e)

(* A timer whose time is past fires at once. *)
Due(i) == (now - start[i]) % Wrap < Wrap \div 2

(* Mutant of Quiet: the slot timers are callouts, served by a task like the  *)
(* others.                                                                   *)
QuietCallouts == TRUE

(* Interrupts come before any task. *)
Quiet == \A i \in armed : ~Due(i)

-----------------------------------------------------------------------------
(* Nothing is left of the superframe: any time may pass. *)
Idle == armed = {} /\ queue = <<>> /\ pc = "get"

(* The next packet of the master is a superframe away.  Only a master that   *)
(* hears another one and becomes its slave gets a packet at any time.        *)
CcpExpected ==
  Idle \/ (now - os_epoch) % Wrap >= NSlots * SlotTicks - IrqDelay

(* superframe_cb, called by the driver's task, which preempts tdma_task. *)
SuperframeCb ==
  /\ Quiet
  /\ CcpExpected \/ (~early /\ (now - os_epoch) % Wrap > IrqDelay)
  /\ early' = ~CcpExpected /\ steady' = (steady /\ CcpExpected)
  /\ \E d \in 0 .. IrqDelay : os_epoch' = Later(now, -d)
  /\ queue' = Put(queue, Superframe)
  /\ UNCHANGED <<now, start, armed, task, ran>>

(* slot_timer_cb; the timer of superframe_slot only counts a missed CCP. *)
SlotTimerCb(i) ==
  /\ i \in armed /\ Due(i)
  /\ armed' = armed \ {i}
  /\ queue' = Put(queue, i)
  /\ UNCHANGED <<now, os_epoch, start, task, early, steady, ran>>

-----------------------------------------------------------------------------
(* tdma_task *)

Get ==
  /\ Quiet
  /\ pc = "get" /\ queue # <<>>
  /\ ev' = Head(queue) /\ queue' = Tail(queue)
  /\ pc' = "judge"
  /\ busy' = 0
  /\ UNCHANGED <<now, os_epoch, early, steady, start, armed, armidx, ran>>

(* Mutant of TooLate: no slot is dropped. *)
NeverTooLate(i) == FALSE

(* Mutant of TooLate: the delay of a slot that has not begun is negative. *)
TooLateSigned(i) == i # 0 /\ (now - start[i]) % Wrap > MaxDelay /\ Due(i)

(* The delay is unsigned: a slot that has not begun is too late as well. *)
TooLate(i) == i # 0 /\ (now - start[i]) % Wrap > MaxDelay

(* The event is dropped or its callback begins; slot_cb of rtls_tdma runs    *)
(* until RunEnds.  The first thing the superframe's callback does is to stop *)
(* all timers.                                                               *)
Judge ==
  /\ Quiet
  /\ pc = "judge"
  /\ \/ /\ ev = Superframe
        /\ armed' = {}
        /\ pc' = "arm" /\ armidx' = 0
        /\ ran' = <<>>
     \/ /\ ev \in Slot /\ TooLate(ev)
        /\ pc' = "get"
        /\ UNCHANGED <<armed, armidx, ran>>
     \/ /\ ev \in Slot /\ ~TooLate(ev)
        /\ pc' = "run"
        /\ ran' = IF ev = 0 THEN ran ELSE Append(ran, ev)
        /\ UNCHANGED <<armed, armidx>>
  /\ UNCHANGED <<now, os_epoch, early, steady, start, queue, ev, busy>>

(* One round of the loop in tdma_superframe_slot_cb. *)
Arm ==
  /\ Quiet
  /\ pc = "arm"
  /\ start' = [start EXCEPT ![armidx] = Later(os_epoch, armidx * SlotTicks - Latency)]
  /\ armed' = armed \cup {armidx}
  /\ IF armidx + 1 < NSlots
     THEN armidx' = armidx + 1 /\ UNCHANGED pc
     ELSE pc' = "get" /\ armidx' = 0
  /\ UNCHANGED <<now, os_epoch, early, steady, queue, ev, busy, ran>>

RunEnds ==
  /\ Quiet
  /\ pc = "run" /\ pc' = "get"
  /\ UNCHANGED <<now, os_epoch, early, steady, start, armed, queue, ev, armidx, busy, ran>>

(* Time passes; the task gets on within MaxBusy.  How long nothing at all    *)
(* happens makes no difference.                                              *)
Tick ==
  /\ Quiet
  /\ ~Idle
  /\ now' = Later(now, 1)
  /\ IF pc = "get" /\ queue = <<>> THEN busy' = 0
     ELSE busy < MaxBusy /\ busy' = busy + 1
  /\ UNCHANGED <<os_epoch, early, steady, start, armed, queue, pc, ev, armidx, ran>>

-----------------------------------------------------------------------------
Init ==
  /\ now = 0 /\ os_epoch = 0
  /\ start = [i \in Slot |-> 0]
  /\ armed = {}
  /\ queue = <<>>
  /\ pc = "get" /\ ev = Superframe /\ armidx = 0 /\ busy = 0
  /\ early = FALSE /\ steady = TRUE
  /\ ran = <<>>

Next ==
  \/ SuperframeCb
  \/ \E i \in Slot : SlotTimerCb(i)
  \/ Get \/ Judge \/ Arm \/ RunEnds
  \/ Tick

Spec == Init /\ [][Next]_vars

-----------------------------------------------------------------------------
(* Properties. *)

Schedule == INSTANCE SlotSchedule

(* The slots of a superframe run in their order, whatever the queue holds    *)
(* when the superframe begins; none runs a third time.  tdma_task runs the   *)
(* events that slot_timer_cb queues and drops those too late.                *)
ScheduleSpec == Schedule!Spec

(* What the slot admission takes for granted: a slot runs once in a          *)
(* superframe, although events of slots and of superframes queue up behind a *)
(* task that is delayed.  It takes a master whose packets come a superframe  *)
(* apart, and a task that is not overloaded.                                 *)
RunOnce ==
  Fits /\ steady => \A j, k \in DOMAIN ran : j < k => ran[j] < ran[k]

TypeOK ==
  /\ now \in Tick32 /\ os_epoch \in Tick32
  /\ start \in [Slot -> Tick32]
  /\ armed \in SUBSET Slot
  /\ queue \in Seq(Slot \cup {Superframe})
  /\ \A j, k \in DOMAIN queue : queue[j] = queue[k] => j = k
  /\ pc \in {"get", "judge", "run", "arm"}
  /\ ev \in Slot \cup {Superframe}
  /\ armidx \in Slot
  /\ busy \in 0 .. MaxBusy
  /\ early \in BOOLEAN /\ steady \in BOOLEAN
  /\ ran \in Seq(Slot \ {0})
=============================================================================
