------------------------------ MODULE RtlsCcp ------------------------------
(***************************************************************************)
(* Clock synchronisation and the election of the master:                   *)
(* firmware/lib/rtls_ccp/src/rtls_ccp.c, on all nodes of a network.        *)
(*                                                                         *)
(* On every node two tasks and two interrupts work on one instance.  The   *)
(* task of the library (ccp_task) serves a queue with two events and waits *)
(* on a semaphore for the end of the transmission or reception it has      *)
(* started.  The callbacks of the radio driver release the semaphore; they *)
(* run in a task of lower priority, so they run only while ccp_task waits, *)
(* and ccp_task preempts them as soon as they wake it.  The timer's        *)
(* interrupt only queues an event; the radio works on its own.             *)
(***************************************************************************)
EXTENDS Integers, Sequences, FiniteSets

CONSTANTS
  Node,
  Candidate,   \* nodes started with CCP_ROLE_MASTER; tags are not
  Relay,       \* nodes started with CCP_ROLE_RELAY
  MaxRpt,      \* UWB_CCP_MAX_CASCADE_RPTS
  Threshold,   \* UWB_RX_TIMEOUT_THRESH + euid % UWB_RX_TIMEOUT_THRESH
  Rounds,      \* UWB_CCP_PERIOD / 10000: request rounds
  MaxFaults    \* bound on failures of the radio and losses of power

ASSUME NodeAssumption ==
  Candidate \subseteq Node /\ Relay \subseteq Node

ASSUME BoundAssumption ==
  /\ MaxRpt \in Nat /\ Rounds \in Nat /\ MaxFaults \in Nat
  /\ Threshold \in [Node -> Nat]

VARIABLES
  ccp,      \* the instance of each node, with the state of its two tasks
  radio,    \* what the radio of each node does, and its pending interrupt
  powered,  \* the nodes that have power
  faults    \* failures so far

vars == <<ccp, radio, powered, faults>>

CcpRole == {"MASTER", "SLAVE"}

NoNode == "none"

(* A CCP frame; euid is the node it originates from, also when relayed. *)
Frame ==
  [kind : {"SYNC", "REQT"}, euid : Node, rpt : 0 .. MaxRpt]

NoFrame == [kind |-> "none", euid |-> NoNode, rpt |-> 0]

CcpFrame(kind, n) == [kind |-> kind, euid |-> n, rpt |-> 0]

Event == {"timer", "change"}   \* master_slave_event, change_role_event

(* The events in ccp->eventq: each is in it at most once. *)
Queue == {<<>>, <<"timer">>, <<"change">>, <<"timer", "change">>, <<"change", "timer">>}

(* pc is where ccp_task is: waiting for an event, waiting on the semaphore   *)
(* in ccp_send, in ccp_listen of the slave, in ccp_listen of a request round, *)
(* or running between two rounds.  drv is where the driver's task is: "exit"  *)
(* is the label of rx_complete_cb.                                            *)
Instance ==
  [role : CcpRole, request : BOOLEAN, enabled : BOOLEAN, sem : {0, 1},
   timer : BOOLEAN, queue : Queue, handler : CcpRole, acc : Nat, rx_timeout_error : BOOLEAN,
   pc : {"idle", "send", "listen", "round", "asking"}, cnt : 0 .. Rounds,
   drv : {"idle", "exit"}]

(* rtls_ccp_start_role: the change of role is queued. *)
BootInstance ==
  [role |-> "SLAVE", request |-> FALSE, enabled |-> FALSE, sem |-> 1,
   timer |-> FALSE, queue |-> <<"change">>, handler |-> "SLAVE", acc |-> 0,
   rx_timeout_error |-> FALSE, pc |-> "idle", cnt |-> 0, drv |-> "idle"]

(* What the radio does, and what it has finished but the driver has not yet  *)
(* reported to the callbacks.                                                *)
RadioOp(what, frame) == [what |-> what, frame |-> frame]

RadioOff == RadioOp("off", NoFrame)

RadioState ==
  [op : [what : {"off", "rx", "tx"}, frame : Frame \cup {NoFrame}],
   irq : [what : {"off", "rx", "tx", "timeout", "error"}, frame : Frame \cup {NoFrame}]]

Spend == faults < MaxFaults /\ faults' = faults + 1

(* uwb_phy_forcetrxoff ends what the radio does.  The interrupt of something *)
(* that has ended before may or may not get lost with it.                    *)
ForcedOff(r) == {[op |-> RadioOff, irq |-> i] : i \in {r.irq, RadioOff}}

-----------------------------------------------------------------------------
(* The event queue and the scheduler. *)

Queued(q, e) == \E k \in DOMAIN q : q[k] = e

(* dpl_eventq_put: an event that is queued already is not queued again. *)
Put(q, e) == IF Queued(q, e) THEN q ELSE Append(q, e)

Waits(c) == c.pc \in {"send", "listen", "round"}

(* ccp_task has something to do: the callbacks do not run. *)
Runnable(c) ==
  \/ c.pc = "asking"
  \/ Waits(c) /\ c.sem = 1
  \/ c.pc = "idle" /\ c.queue # <<>>

-----------------------------------------------------------------------------
(* ccp_task: from one point where it waits to the next. *)

(* uwb_ccp_start and CCP_SYNC_SYED: the timer runs out at once.  The event    *)
(* gets the new handler; dpl_event_init has no queue to take it out of, so   *)
(* an event of the old timer that is still queued is served by it as well.   *)
Start(c, role) ==
  [c EXCEPT !.enabled = TRUE, !.role = role, !.handler = role, !.timer = TRUE,
            !.pc = "idle"]

(* uwb_ccp_change_role up to the request rounds. *)
ChangeRole(c) ==
  LET stopped == [c EXCEPT !.enabled = FALSE, !.timer = FALSE, !.request = FALSE]
  IN IF c.role = "MASTER"
     THEN [stopped EXCEPT !.request = TRUE, !.cnt = 0, !.pc = "asking"]
     ELSE Start(stopped, "SLAVE")

(* Mutant of SlaveHeard: the timer is not started again after a miss. *)
SlaveHeardNoTimer(c, n) ==
  LET missed == c.acc + 1
  IN IF ~c.rx_timeout_error
     THEN [c EXCEPT !.acc = 0, !.timer = TRUE, !.pc = "idle"]
     ELSE IF missed > Threshold[n]
     THEN ChangeRole([c EXCEPT !.acc = 0,
                        !.role = IF n \in Candidate THEN "MASTER" ELSE "SLAVE"])
     ELSE [c EXCEPT !.acc = missed, !.pc = "idle"]

(* Mutant of SlaveHeard: every miss starts the count again. *)
SlaveHeardForgets(c, n) ==
  IF 1 > Threshold[n] /\ c.rx_timeout_error
  THEN ChangeRole([c EXCEPT !.acc = 0,
                     !.role = IF n \in Candidate THEN "MASTER" ELSE "SLAVE"])
  ELSE [c EXCEPT !.acc = 0, !.timer = TRUE, !.pc = "idle"]

(* ccp_slave_timer_ev_cb after its listen.  Everything but a time-out counts *)
(* as a packet, also an error.  Too many misses in a row change the role.    *)
SlaveHeard(c, n) ==
  LET missed == c.acc + 1
  IN IF ~c.rx_timeout_error
     THEN [c EXCEPT !.acc = 0, !.timer = TRUE, !.pc = "idle"]
     ELSE IF missed > Threshold[n]
     THEN ChangeRole([c EXCEPT !.acc = 0,
                        !.role = IF n \in Candidate THEN "MASTER" ELSE "SLAVE"])
     ELSE [c EXCEPT !.acc = missed, !.timer = TRUE, !.pc = "idle"]

(* Mutant of Transact: the semaphore is not released if the radio fails. *)
TransactKeeps(n, c, pc, op, after) ==
  \E off \in ForcedOff(radio[n]) :
    /\ c.sem = 1
    /\ \/ /\ ccp' = [ccp EXCEPT ![n] = [c EXCEPT !.sem = 0, !.pc = pc]]
          /\ radio' = [radio EXCEPT ![n] = [off EXCEPT !.op = op]]
          /\ UNCHANGED faults
       \/ /\ Spend
          /\ ccp' = [ccp EXCEPT ![n] = [after EXCEPT !.sem = 0]]
          /\ radio' = [radio EXCEPT ![n] = off]

(* The radio is started and ccp_task pends on the semaphore it has taken, or *)
(* the radio does not start: then it is released again and after is what     *)
(* ccp_task does next.                                                       *)
Transact(n, c, pc, op, after) ==
  \E off \in ForcedOff(radio[n]) :
    /\ c.sem = 1
    /\ \/ /\ ccp' = [ccp EXCEPT ![n] = [c EXCEPT !.sem = 0, !.pc = pc]]
          /\ radio' = [radio EXCEPT ![n] = [off EXCEPT !.op = op]]
          /\ UNCHANGED faults
       \/ /\ Spend
          /\ ccp' = [ccp EXCEPT ![n] = after]
          /\ radio' = [radio EXCEPT ![n] = off]

(* ccp_listen resets rx_timeout_error before it starts the radio. *)
ListenFor(n, c, pc, after) ==
  Transact(n, c, pc, RadioOp("rx", NoFrame), after)

MasterTimerEv(n, c) ==
  Transact(n, c, "send", RadioOp("tx", CcpFrame("SYNC", n)), [c EXCEPT !.timer = TRUE])

(* A delayed reception that starts too late is followed by a long one: both  *)
(* are one listen here, which fails if both fail.                            *)
SlaveTimerEv(n, c) ==
  LET heard == [c EXCEPT !.rx_timeout_error = FALSE]
  IN ListenFor(n, heard, "listen", SlaveHeard(heard, n))

(* dpl_eventq_run in ccp_task. *)
RunEvent(n) ==
  LET c == [ccp[n] EXCEPT !.queue = Tail(@)]
  IN /\ ccp[n].pc = "idle" /\ ccp[n].queue # <<>>
     /\ \/ /\ Head(ccp[n].queue) = "change"
           /\ ccp' = [ccp EXCEPT ![n] = ChangeRole(c)]
           /\ UNCHANGED <<radio, faults>>
        \/ /\ Head(ccp[n].queue) = "timer"
           /\ IF ~c.enabled
              THEN ccp' = [ccp EXCEPT ![n] = c] /\ UNCHANGED <<radio, faults>>
              ELSE IF c.handler = "MASTER" THEN MasterTimerEv(n, c)
              ELSE SlaveTimerEv(n, c)

(* ccp_send returns: ccp_master_timer_ev_cb starts the timer again. *)
SendReturns(n) ==
  /\ ccp[n].pc = "send" /\ ccp[n].sem = 1
  /\ ccp' = [ccp EXCEPT ![n].pc = "idle", ![n].timer = TRUE]
  /\ UNCHANGED <<radio, faults>>

(* ccp_listen returns to ccp_slave_timer_ev_cb, which stops the timer first. *)
ListenReturns(n) ==
  /\ ccp[n].pc = "listen" /\ ccp[n].sem = 1
  /\ ccp' = [ccp EXCEPT ![n] = SlaveHeard([@ EXCEPT !.timer = FALSE], n)]
  /\ UNCHANGED <<radio, faults>>

(* The loop of uwb_ccp_change_role: a listen, then a request, as long as     *)
(* nobody else is heard.  If the listen does not start, nobody waits for it. *)
Ask(n) ==
  LET c    == ccp[n]
      next == [c EXCEPT !.cnt = @ + 1, !.rx_timeout_error = FALSE]
  IN /\ c.pc = "asking"
     /\ IF c.cnt < Rounds /\ c.request
        THEN ListenFor(n, next, "round", [next EXCEPT !.pc = "round"])
        ELSE /\ ccp' = [ccp EXCEPT ![n] = Start(c, IF c.request THEN "MASTER" ELSE "SLAVE")]
             /\ UNCHANGED <<radio, faults>>

(* The request is sent whatever the listen heard; nobody waits for its end,  *)
(* nor asks whether its transmission has started.                            *)
RoundReturns(n) ==
  /\ ccp[n].pc = "round" /\ ccp[n].sem = 1
  /\ ccp' = [ccp EXCEPT ![n].pc = "asking"]
  /\ \/ /\ radio' = [radio EXCEPT ![n].op = RadioOp("tx", CcpFrame("REQT", n))]
        /\ UNCHANGED faults
     \/ Spend /\ UNCHANGED radio

Task(n) ==
  /\ n \in powered
  /\ RunEvent(n) \/ SendReturns(n) \/ ListenReturns(n) \/ Ask(n) \/ RoundReturns(n)
  /\ UNCHANGED powered

(* ccp_timer_irq *)
TimerIrq(n) ==
  /\ n \in powered
  /\ ccp[n].timer
  /\ ccp' = [ccp EXCEPT ![n].timer = FALSE, ![n].queue = Put(@, "timer")]
  /\ UNCHANGED <<radio, powered, faults>>

-----------------------------------------------------------------------------
(* The callbacks: what they do to the instance. *)

(* Mutant of Release: without the test of the count. *)
ReleaseAlways(c) == [c EXCEPT !.sem = @ + 1]
Release(c) == IF c.sem = 0 THEN [c EXCEPT !.sem = 1] ELSE c

(* Mutant of MasterHears: the flag of the request stays set. *)
MasterHearsKeepsFlag(c, n, frame) ==
  [(IF c.request THEN c
    ELSE [c EXCEPT !.role = "SLAVE", !.queue = Put(@, "change")])
   EXCEPT !.drv = "exit"]

(* Mutant of MasterHears: the change of role is not queued. *)
MasterHearsNoEvent(c, n, frame) ==
  [(IF c.request THEN [c EXCEPT !.request = (frame.euid = n)]
    ELSE [c EXCEPT !.role = "SLAVE"])
   EXCEPT !.drv = "exit"]

(* Mutant of MasterHears: no goto exit after a change of role. *)
MasterHearsNoExit(c, n, frame) ==
  IF c.request THEN [c EXCEPT !.request = (frame.euid = n), !.drv = "exit"]
  ELSE [c EXCEPT !.role = "SLAVE", !.queue = Put(@, "change")]

(* rx_complete_cb of a master, up to the label exit.  The flag is set before *)
(* the request rounds and stays set when the node has become master.         *)
MasterHears(c, n, frame) ==
  [(IF c.request THEN [c EXCEPT !.request = (frame.euid = n)]
    ELSE [c EXCEPT !.role = "SLAVE", !.queue = Put(@, "change")])
   EXCEPT !.drv = "exit"]

Relayed(frame) == [frame EXCEPT !.rpt = @ + 1]

(* rx_complete_cb for a CCP frame.  A slave stops the radio, perhaps relays  *)
(* the frame, and releases the semaphore.                                    *)
RxComplete(n, c, frame, r) ==
  \/ /\ c.role = "MASTER"
     /\ ccp' = [ccp EXCEPT ![n] = MasterHears(c, n, frame)]
     /\ radio' = [radio EXCEPT ![n] = r]
  \/ /\ c.role = "SLAVE" /\ c.sem = 1
     /\ radio' = [radio EXCEPT ![n] = r]
     /\ UNCHANGED ccp
  \/ /\ c.role = "SLAVE" /\ c.sem = 0
     /\ ccp' = [ccp EXCEPT ![n] = Release([c EXCEPT !.rx_timeout_error = FALSE])]
     /\ \/ radio' = [radio EXCEPT ![n] = [r EXCEPT !.op = RadioOff]]
        \/ /\ n \in Relay /\ frame.rpt < MaxRpt
           /\ radio' = [radio EXCEPT ![n] =
                [r EXCEPT !.op = RadioOp("tx", Relayed(frame))]]

(* tx_complete_cb, also for a request whose end is reported late. *)
TxComplete(c) == IF c.role = "MASTER" THEN Release(c) ELSE c

(* rx_timeout_cb *)
RxTimeout(c) ==
  IF c.sem = 0 THEN Release([c EXCEPT !.rx_timeout_error = TRUE]) ELSE c

(* The driver reports the pending interrupt to the callbacks of the library. *)
Driver(n) ==
  LET c == ccp[n]
      i == radio[n].irq
      r == [radio[n] EXCEPT !.irq = RadioOff]
  IN /\ n \in powered
     /\ ~Runnable(c) /\ c.drv = "idle"
     /\ \/ i.what = "rx" /\ RxComplete(n, c, i.frame, r)
        \/ /\ i.what \in {"tx", "timeout", "error"}
           /\ ccp' = [ccp EXCEPT ![n] = CASE i.what = "tx"      -> TxComplete(c)
                                          [] i.what = "timeout" -> RxTimeout(c)
                                          [] i.what = "error"   -> Release(c)]
           /\ radio' = [radio EXCEPT ![n] = r]
     /\ UNCHANGED <<powered, faults>>

(* The rest of rx_complete_cb, from the label exit. *)
RxExit(n) ==
  /\ n \in powered
  /\ ~Runnable(ccp[n]) /\ ccp[n].drv = "exit"
  /\ ccp' = [ccp EXCEPT ![n] = Release([@ EXCEPT !.drv = "idle"])]
  /\ UNCHANGED <<radio, powered, faults>>

-----------------------------------------------------------------------------
(* The radio and the power. *)

(* Nodes that may hear a frame of n: those listening for the CCP, and all    *)
(* that do not transmit, as other libraries listen as well.                  *)
Receptive(n) ==
  {m \in powered \ {n} : radio[m].irq = RadioOff /\ radio[m].op.what # "tx"}

(* A frame has been sent; some of those in range hear it. *)
Transmitted(n) ==
  LET r == radio[n]
  IN /\ n \in powered
     /\ r.op.what = "tx" /\ r.irq = RadioOff
     /\ \E H \in SUBSET Receptive(n) :
          radio' = [m \in Node |->
            IF m = n THEN [op |-> RadioOff, irq |-> RadioOp("tx", NoFrame)]
            ELSE IF m \in H THEN [radio[m] EXCEPT !.irq = RadioOp("rx", r.op.frame)]
            ELSE radio[m]]
     /\ UNCHANGED <<ccp, powered, faults>>

(* The radio ends a reception by its time-out. *)
RadioTimeout(n) ==
  /\ n \in powered
  /\ radio[n].op.what = "rx" /\ radio[n].irq = RadioOff
  /\ radio' = [radio EXCEPT ![n] = [op |-> RadioOff, irq |-> RadioOp("timeout", NoFrame)]]
  /\ UNCHANGED <<ccp, powered, faults>>

(* The radio ends an operation with an error. *)
RadioError(n) ==
  /\ n \in powered
  /\ Spend
  /\ radio[n].op.what # "off" /\ radio[n].irq = RadioOff
  /\ radio' = [radio EXCEPT ![n] = [op |-> RadioOff, irq |-> RadioOp("error", NoFrame)]]
  /\ UNCHANGED <<ccp, powered>>

RadioIdle == [op |-> RadioOff, irq |-> RadioOff]

PowerOff(n) ==
  /\ Spend
  /\ n \in powered /\ powered' = powered \ {n}
  /\ ccp' = [ccp EXCEPT ![n] = BootInstance]
  /\ radio' = [radio EXCEPT ![n] = RadioIdle]

PowerOn(n) ==
  /\ n \notin powered /\ powered' = powered \cup {n}
  /\ UNCHANGED <<ccp, radio, faults>>

-----------------------------------------------------------------------------
Init ==
  /\ ccp = [n \in Node |-> BootInstance]
  /\ radio = [n \in Node |-> RadioIdle]
  /\ powered = Node
  /\ faults = 0

Next ==
  \E n \in Node :
    \/ Task(n) \/ TimerIrq(n) \/ Driver(n) \/ RxExit(n)
    \/ Transmitted(n) \/ RadioTimeout(n) \/ RadioError(n)
    \/ PowerOff(n) \/ PowerOn(n)

Spec == Init /\ [][Next]_vars

(* Both tasks run, timer and radio come to an end.  Nothing is assumed about *)
(* who hears whom.                                                           *)
Fairness ==
  \A n \in Node :
    /\ WF_vars(Task(n)) /\ WF_vars(TimerIrq(n))
    /\ WF_vars(Driver(n)) /\ WF_vars(RxExit(n))
    /\ WF_vars(Transmitted(n)) /\ WF_vars(RadioTimeout(n))

FairSpec == Spec /\ Fairness

-----------------------------------------------------------------------------
(* Properties. *)

(* Type correctness of the instances; in particular no event is queued twice *)
(* and the semaphore never counts further than one.                          *)
TypeOK ==
  /\ ccp \in [Node -> Instance]
  /\ radio \in [Node -> RadioState]
  /\ powered \in SUBSET Node
  /\ faults \in Nat

(* Every dpl_sem_pend that takes the semaphore succeeds at once, whatever    *)
(* callback ended the transaction before: the semaphore is taken exactly by  *)
(* a task that waits for its end.                                            *)
TakenWhileWaiting ==
  \A n \in Node : ccp[n].sem = 0 => Waits(ccp[n])

(* What releases the semaphore for a task that waits.  tx_complete_cb does   *)
(* not do it for a node that is no master any more, so a send depends on the *)
(* callback that changed the role in the middle of it.                       *)
SendEnds(n) ==
  \/ ccp[n].drv = "exit"
  \/ ccp[n].role = "MASTER" /\ "tx" \in {radio[n].op.what, radio[n].irq.what}
  \/ radio[n].irq.what \in {"timeout", "error"}

ListenEnds(n) ==
  \/ ccp[n].drv = "exit"
  \/ radio[n].op.what = "rx"
  \/ radio[n].irq.what \in {"timeout", "error"}

Sound(n) ==
  Waits(ccp[n]) /\ ccp[n].sem = 0 =>
    IF ccp[n].pc = "send" THEN SendEnds(n) ELSE ListenEnds(n)

(* The comment of ccp_send on its dpl_sem_pend with DPL_TIMEOUT_NEVER, "Wait *)
(* for completion of transactions": what it waits for is on its way.         *)
WaitEnds == \A n \in Node : Sound(n)

(* A master has just heard that it is none, and serves an event of the timer *)
(* before the change of role.                                                *)
StaleTimer(n) ==
  /\ ccp[n].pc = "idle" /\ ccp[n].handler = "MASTER" /\ ccp[n].role = "SLAVE"
  /\ Head(ccp[n].queue) = "timer"

(* There is one way only into a wait that nothing ends, whatever the radio,  *)
(* the callbacks, the timer and the role do in the middle of a transaction:  *)
(* a timer's event queued before the change of role that ends the master.    *)
OneWayToBlock ==
  [][\A n \in Node : Sound(n) /\ ~Sound(n)' => StaleTimer(n)]_vars

(* The chain of timer, event and handler never breaks, although the role     *)
(* changes at any point of it.                                               *)
CycleAlive ==
  \A n \in Node : ccp[n].pc = "idle" => ccp[n].timer \/ ccp[n].queue # <<>>

(* A node whose role and handler disagree is about to change: a master that  *)
(* heard another one does not go on sending.                                 *)
HandlerFollowsRole ==
  \A n \in Node : ccp[n].pc # "asking" /\ ccp[n].pc # "round" /\ ccp[n].handler # ccp[n].role =>
    Queued(ccp[n].queue, "change")

Master(n) == n \in powered /\ ccp[n].handler = "MASTER" /\ ccp[n].enabled

(* Only one master will be active: a node whose callback is given packets of *)
(* other nodes again and again does not stay master, although the first of   *)
(* them only clears the flag of its own request.                             *)
HearsRival(n) ==
  Driver(n) /\ radio[n].irq.what = "rx" /\ radio[n].irq.frame.euid # n

MasterYields ==
  \A n \in Candidate : []<><<HearsRival(n)>>_vars => ~ <>[]Master(n)

(* firmware.tex:177 of the master state: if a node "receives any ccp or ccp   *)
(* request packet in the master state, it will also immediately turn into    *)
(* the slave state".  rx_complete_cb does so only if the flag of the node's  *)
(* own request is clear.                                                     *)
YieldsAtOnce ==
  [][\A n \in Node : HearsRival(n) /\ Master(n) => ccp'[n].role = "SLAVE"]_vars

(* There is no single point of failure: a candidate that is left alone, and  *)
(* that is not stuck in a wait, becomes master and stays it.                 *)
TakesOver ==
  \A n \in Candidate : (<>[](powered = {n} /\ Sound(n))) => (<>[]Master(n))
=============================================================================
