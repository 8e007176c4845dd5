--------------------------- MODULE RtlsCcp_proofs ---------------------------
(* Theorems about RtlsCcp, for any set of nodes, candidates and relays, any  *)
(* thresholds and any number of failures.                                    *)
EXTENDS RtlsCcp, SequenceTheorems, TLAPS

-----------------------------------------------------------------------------
(* The event queue. *)

(* What is in each of the queues. *)
LEMMA QueuedFacts ==
  ASSUME NEW e
  PROVE  /\ ~ Queued(<<>>, e)
         /\ Queued(<<"timer">>, e) <=> e = "timer"
         /\ Queued(<<"change">>, e) <=> e = "change"
         /\ Queued(<<"timer", "change">>, e) <=> e \in Event
         /\ Queued(<<"change", "timer">>, e) <=> e \in Event
  BY DEF Queued, Event

(* The queue of two events. *)
LEMMA AppendOne ==
  ASSUME NEW x \in Event, NEW y \in Event
  PROVE  Append(<<x>>, y) = <<x, y>>
<1>1. <<x>> \in Seq(Event) /\ <<x, y>> \in Seq(Event)
  OBVIOUS
<1>2. Append(<<x>>, y) \in Seq(Event) /\ Len(Append(<<x>>, y)) = 2
  BY <1>1
<1>3. \A i \in 1 .. 2 : Append(<<x>>, y)[i] = <<x, y>>[i]
  BY <1>1
<1>. QED
  BY <1>1, <1>2, <1>3, SeqEqual

(* What a put keeps and adds: an event already queued keeps its place. *)
LEMMA PutFacts ==
  ASSUME NEW q \in Queue, NEW e \in Event
  PROVE  /\ Put(q, e) \in Queue /\ Put(q, e) # <<>>
         /\ Queued(Put(q, e), e)
         /\ \A x \in Event : Queued(q, x) => Queued(Put(q, e), x)
         /\ \A x \in Event : x # e /\ Queued(Put(q, e), x) => Queued(q, x)
         /\ q = <<>> => Put(q, e) = <<e>>
         /\ q # <<>> => Head(Put(q, e)) = Head(q)
<1>1. Append(<<>>, e) = <<e>>
  OBVIOUS
<1>4. /\ Append(<<"timer">>, "change") = <<"timer", "change">>
      /\ Append(<<"change">>, "timer") = <<"change", "timer">>
  BY AppendOne DEF Event
<1>7. /\ Head(<<"timer">>) = "timer" /\ Head(<<"timer", "change">>) = "timer"
      /\ Head(<<"change">>) = "change" /\ Head(<<"change", "timer">>) = "change"
  OBVIOUS
<1>2. CASE Queued(q, e)
  BY <1>2, QueuedFacts DEF Put
<1>3. CASE q = <<>>
  BY <1>1, <1>3, QueuedFacts DEF Put, Queue, Event
<1>5. CASE q = <<"timer">> /\ e = "change"
  BY <1>4, <1>5, <1>7, QueuedFacts DEF Put, Queue, Event
<1>6. CASE q = <<"change">> /\ e = "timer"
  BY <1>4, <1>6, <1>7, QueuedFacts DEF Put, Queue, Event
<1>. QED
  BY <1>2, <1>3, <1>5, <1>6, QueuedFacts DEF Queue, Event

(* Taking the first event leaves the others. *)
LEMMA TailFacts ==
  ASSUME NEW q \in Queue, q # <<>>
  PROVE  /\ Head(q) \in Event /\ Tail(q) \in Queue
         /\ Queued(q, Head(q)) /\ ~ Queued(Tail(q), Head(q))
         /\ \A x \in Event : x # Head(q) /\ Queued(q, x) => Queued(Tail(q), x)
<1>1. CASE q = <<"timer">>
  BY <1>1, QueuedFacts DEF Queue, Event
<1>2. CASE q = <<"change">>
  BY <1>2, QueuedFacts DEF Queue, Event
<1>3. CASE q = <<"timer", "change">>
  BY <1>3, QueuedFacts DEF Queue, Event
<1>4. CASE q = <<"change", "timer">>
  BY <1>4, QueuedFacts DEF Queue, Event
<1>. QED
  BY <1>1, <1>2, <1>3, <1>4 DEF Queue

-----------------------------------------------------------------------------
(* The inductive invariant of one node.  The instance alone: the semaphore,  *)
(* the chain of timer and event, and the role against the handler at each    *)
(* point where ccp_task waits.                                               *)

InstanceInv(c) ==
  /\ c \in Instance
  /\ c.sem = 0 => Waits(c)
  /\ c.pc = "idle" => c.timer \/ c.queue # <<>>
  /\ ~c.enabled => \/ c.pc \in {"asking", "round"}
                   \/ c.pc = "idle" /\ c.queue = <<"change">> /\ ~c.timer
  /\ c.pc = "send" => c.handler = "MASTER"
  /\ c.pc = "listen" => c.handler = "SLAVE"
  /\ c.pc \in {"idle", "listen"} /\ c.handler = "SLAVE" => c.role = "SLAVE"
  /\ c.pc \in {"idle", "send"} /\ c.handler = "MASTER" /\ c.role = "SLAVE" =>
       Queued(c.queue, "change")

(* What the radio is sending or has received is a frame. *)
RadioInv(r) ==
  /\ r \in RadioState
  /\ r.op.what = "tx" => r.op.frame \in Frame
  /\ r.irq.what = "rx" => r.irq.frame \in Frame

NodeInv(c, r) == InstanceInv(c) /\ RadioInv(r)

IInv ==
  /\ ccp \in [Node -> Instance]
  /\ radio \in [Node -> RadioState]
  /\ powered \in SUBSET Node
  /\ faults \in Nat
  /\ \A n \in Node : NodeInv(ccp[n], radio[n])

(* What ends the wait of a task, as Sound has it, in one formula.            *)
EndOf(c, r) ==
  \/ c.drv = "exit"
  \/ r.irq.what \in {"timeout", "error"}
  \/ c.pc = "send" /\ c.role = "MASTER" /\ "tx" \in {r.op.what, r.irq.what}
  \/ c.pc # "send" /\ r.op.what = "rx"

SoundInv(c, r) == Waits(c) /\ c.sem = 0 => EndOf(c, r)

(* StaleTimer, of an instance. *)
Stale(c) ==
  c.pc = "idle" /\ c.handler = "MASTER" /\ c.role = "SLAVE" /\ Head(c.queue) = "timer"

(* No step leads a node into a wait without end but from a stale timer.      *)
StaysSound ==
  \A n \in Node : SoundInv(ccp[n], radio[n]) /\ ~Stale(ccp[n]) => SoundInv(ccp'[n], radio'[n])

Stepped == IInv' /\ StaysSound

-----------------------------------------------------------------------------
(* What the operations of ccp_task make of an instance. *)

(* The frames a node sends are frames, and no frame is none. *)
LEMMA FrameFacts ==
  ASSUME NEW n \in Node
  PROVE  /\ CcpFrame("SYNC", n) \in Frame /\ CcpFrame("REQT", n) \in Frame
         /\ NoFrame \notin Frame
  BY BoundAssumption DEF CcpFrame, Frame, NoFrame

(* uwb_ccp_start leaves a sound instance, in either role. *)
LEMMA StartInv ==
  ASSUME NEW c \in Instance, NEW role \in CcpRole, c.sem = 1
  PROVE  InstanceInv(Start(c, role)) /\ Start(c, role).sem = 1
<1>. DEFINE d == Start(c, role)
<1>1. /\ d \in Instance /\ d.sem = 1 /\ d.pc = "idle" /\ d.timer /\ d.enabled
      /\ d.role = role /\ d.handler = role
  BY DEF Start, Instance
<1>. HIDE DEF d
<1>2. InstanceInv(d)
  BY <1>1 DEF InstanceInv, CcpRole
<1>. QED
  BY <1>1, <1>2 DEF d

(* A change of role begins with everything stopped. *)
LEMMA ChangeRoleInv ==
  ASSUME NEW c \in Instance, c.sem = 1
  PROVE  InstanceInv(ChangeRole(c)) /\ ChangeRole(c).sem = 1
<1>. DEFINE stopped == [c EXCEPT !.enabled = FALSE, !.timer = FALSE, !.request = FALSE]
            d == [stopped EXCEPT !.request = TRUE, !.cnt = 0, !.pc = "asking"]
<1>1. stopped \in Instance /\ stopped.sem = 1 /\ ~stopped.timer
  BY DEF Instance
<1>2. /\ d \in Instance /\ d.sem = 1 /\ d.pc = "asking" /\ ~d.timer
  <2>. HIDE DEF stopped
  <2>1. 0 \in 0 .. Rounds
    BY BoundAssumption
  <2>. QED
    BY <1>1, <2>1 DEF Instance
<1>3. CASE c.role = "MASTER"
  <2>1. ChangeRole(c) = d
    BY <1>3 DEF ChangeRole
  <2>. HIDE DEF d
  <2>2. InstanceInv(d)
    BY <1>2 DEF InstanceInv
  <2>. QED
    BY <1>2, <2>1, <2>2
<1>4. CASE c.role # "MASTER"
  <2>1. ChangeRole(c) = Start(stopped, "SLAVE")
    BY <1>4 DEF ChangeRole
  <2>. HIDE DEF stopped
  <2>. QED
    BY <1>1, <2>1, StartInv DEF CcpRole
<1>. QED
  BY <1>3, <1>4

(* A slave's listen is over, or has not begun. *)
LEMMA SlaveHeardInv ==
  ASSUME NEW c \in Instance, NEW n \in Node, c.sem = 1, c.enabled,
         c.role = "SLAVE", c.handler = "SLAVE"
  PROVE  InstanceInv(SlaveHeard(c, n)) /\ SlaveHeard(c, n).sem = 1
<1>. DEFINE d(k) == [c EXCEPT !.acc = k, !.timer = TRUE, !.pc = "idle"]
            e == [c EXCEPT !.acc = 0, !.role = IF n \in Candidate THEN "MASTER" ELSE "SLAVE"]
<1>1. ASSUME NEW k \in Nat
      PROVE  InstanceInv(d(k)) /\ d(k).sem = 1
  <2>1. /\ d(k) \in Instance /\ d(k).sem = 1 /\ d(k).pc = "idle" /\ d(k).timer
        /\ d(k).enabled /\ d(k).role = "SLAVE" /\ d(k).handler = "SLAVE"
    BY <1>1 DEF Instance
  <2>. HIDE DEF d
  <2>. QED
    BY <2>1 DEF InstanceInv
<1>2. e \in Instance /\ e.sem = 1
  BY DEF Instance, CcpRole
<1>3. InstanceInv(ChangeRole(e)) /\ ChangeRole(e).sem = 1
  <2>. HIDE DEF e
  <2>. QED
    BY <1>2, ChangeRoleInv
<1>4. SlaveHeard(c, n) \in {d(0), d(c.acc + 1), ChangeRole(e)}
  BY DEF SlaveHeard
<1>5. 0 \in Nat /\ c.acc + 1 \in Nat
  BY DEF Instance
<1>. HIDE DEF d, e
<1>6. \A s \in {d(0), d(c.acc + 1)} : InstanceInv(s) /\ s.sem = 1
  BY <1>1, <1>5
<1>. QED
  BY <1>3, <1>4, <1>6

-----------------------------------------------------------------------------
(* The invariant of the network from that of the node that takes a step. *)

(* A step of one node keeps the invariant of all if it keeps its own, and    *)
(* leaves all sound if it does not lead the node into a wait without end.    *)
LEMMA Lift ==
  ASSUME IInv, NEW n \in Node, NEW c, NEW r,
         ccp' = [ccp EXCEPT ![n] = c], radio' = [radio EXCEPT ![n] = r],
         NodeInv(c, r),
         SoundInv(ccp[n], radio[n]) /\ ~Stale(ccp[n]) => SoundInv(c, r),
         powered' \in SUBSET Node, faults' \in Nat
  PROVE  Stepped
<1>1. c \in Instance /\ r \in RadioState
  BY DEF NodeInv, InstanceInv, RadioInv
<1>2. ccp' \in [Node -> Instance] /\ radio' \in [Node -> RadioState]
  BY <1>1 DEF IInv
<1>3. ASSUME NEW m \in Node
      PROVE  /\ NodeInv(ccp'[m], radio'[m])
             /\ SoundInv(ccp[m], radio[m]) /\ ~Stale(ccp[m]) => SoundInv(ccp'[m], radio'[m])
  <2>1. CASE m = n
    <3>1. ccp'[m] = c /\ radio'[m] = r
      BY <2>1 DEF IInv
    <3>. QED
      BY <2>1, <3>1
  <2>2. CASE m # n
    <3>1. ccp'[m] = ccp[m] /\ radio'[m] = radio[m]
      BY <2>2 DEF IInv
    <3>. QED
      BY <3>1 DEF IInv
  <2>. QED
    BY <2>1, <2>2
<1>. QED
  BY <1>2, <1>3 DEF IInv, Stepped, StaysSound

(* Whose semaphore is free waits for nothing. *)
LEMMA SemFree ==
  ASSUME NEW c, NEW r, c.sem = 1
  PROVE  SoundInv(c, r)
BY DEF SoundInv

(* The count of faults. *)
LEMMA SpendNat ==
  ASSUME IInv, Spend \/ UNCHANGED faults
  PROVE  faults' \in Nat
BY DEF IInv, Spend

(* What the invariant says of one node. *)
LEMMA NodeFacts ==
  ASSUME IInv, NEW n \in Node
  PROVE  /\ ccp[n] \in Instance /\ radio[n] \in RadioState
         /\ ccp = [ccp EXCEPT ![n] = ccp[n]]
         /\ radio = [radio EXCEPT ![n] = radio[n]]
         /\ InstanceInv(ccp[n]) /\ RadioInv(radio[n])
BY DEF IInv, NodeInv

(* What the radio may be told to do. *)
LEMMA RadioFacts ==
  ASSUME NEW r, RadioInv(r), NEW n \in Node
  PROVE  /\ \A off \in ForcedOff(r) :
              /\ RadioInv(off)
              /\ RadioInv([off EXCEPT !.op = RadioOp("rx", NoFrame)])
              /\ [off EXCEPT !.op = RadioOp("rx", NoFrame)].op.what = "rx"
              /\ \A f \in Frame :
                   /\ RadioInv([off EXCEPT !.op = RadioOp("tx", f)])
                   /\ [off EXCEPT !.op = RadioOp("tx", f)].op.what = "tx"
         /\ \A f \in Frame : RadioInv([r EXCEPT !.op = RadioOp("tx", f)])
         /\ RadioInv(RadioIdle)
<1>. USE FrameFacts DEF RadioInv, RadioState, RadioOp, RadioOff, RadioIdle
<1>1. ASSUME NEW off \in ForcedOff(r)
      PROVE  off.op = RadioOff /\ off.irq \in {r.irq, RadioOff} /\ RadioInv(off)
  BY <1>1 DEF ForcedOff
<1>. QED
  BY <1>1 DEF ForcedOff

(* A transaction: ccp_task waits for what the radio has been told, or goes   *)
(* on if the radio does not start.                                           *)
LEMMA TransactInv ==
  ASSUME IInv, NEW n \in Node, NEW c, NEW pc, NEW op, NEW after,
         powered' = powered,
         Transact(n, c, pc, op, after),
         \A off \in ForcedOff(radio[n]) :
           /\ NodeInv([c EXCEPT !.sem = 0, !.pc = pc], [off EXCEPT !.op = op])
           /\ ~Stale(ccp[n]) => SoundInv([c EXCEPT !.sem = 0, !.pc = pc], [off EXCEPT !.op = op])
           /\ NodeInv(after, off) /\ after.sem = 1
  PROVE  Stepped
<1>1. PICK off \in ForcedOff(radio[n]) :
        \/ /\ ccp' = [ccp EXCEPT ![n] = [c EXCEPT !.sem = 0, !.pc = pc]]
           /\ radio' = [radio EXCEPT ![n] = [off EXCEPT !.op = op]]
           /\ UNCHANGED faults
        \/ /\ Spend
           /\ ccp' = [ccp EXCEPT ![n] = after]
           /\ radio' = [radio EXCEPT ![n] = off]
  BY DEF Transact
<1>2. powered' \in SUBSET Node
  BY DEF IInv
<1>3. faults' \in Nat
  BY <1>1, SpendNat
<1>4. CASE /\ ccp' = [ccp EXCEPT ![n] = [c EXCEPT !.sem = 0, !.pc = pc]]
           /\ radio' = [radio EXCEPT ![n] = [off EXCEPT !.op = op]]
  <2>. DEFINE d == [c EXCEPT !.sem = 0, !.pc = pc]
              s == [off EXCEPT !.op = op]
  <2>1. ccp' = [ccp EXCEPT ![n] = d] /\ radio' = [radio EXCEPT ![n] = s]
    BY <1>4
  <2>2. NodeInv(d, s) /\ (~Stale(ccp[n]) => SoundInv(d, s))
    OBVIOUS
  <2>. HIDE DEF d, s
  <2>. QED
    BY <1>2, <1>3, <2>1, <2>2, Lift
<1>5. CASE ccp' = [ccp EXCEPT ![n] = after] /\ radio' = [radio EXCEPT ![n] = off]
  BY <1>2, <1>3, <1>5, Lift, SemFree
<1>. QED
  BY <1>1, <1>4, <1>5

-----------------------------------------------------------------------------
(* ccp_task. *)

(* The handler of any event of the queue. *)
LEMMA RunEventInv ==
  ASSUME IInv, NEW n \in Node, RunEvent(n), powered' = powered
  PROVE  Stepped
<1>. DEFINE old == ccp[n]
            q == old.queue
            c == [old EXCEPT !.queue = Tail(q)]
            r == radio[n]
<1>1. /\ old \in Instance /\ InstanceInv(old) /\ RadioInv(r)
      /\ radio = [radio EXCEPT ![n] = r]
  BY NodeFacts
<1>2. /\ old.pc = "idle" /\ q \in Queue /\ q # <<>> /\ old.sem = 1
  BY <1>1 DEF RunEvent, Instance, InstanceInv, Waits
<1>3. /\ Head(q) \in Event /\ Tail(q) \in Queue
      /\ ~ Queued(Tail(q), Head(q))
      /\ \A x \in Event : x # Head(q) /\ Queued(q, x) => Queued(Tail(q), x)
      /\ Queued(q, Head(q))
  BY <1>2, TailFacts
<1>4. c \in Instance /\ c.sem = 1
  BY <1>1, <1>2, <1>3 DEF Instance
<1>5. powered' \in SUBSET Node
  BY DEF IInv
<1>6. CASE Head(q) = "change"
  <2>1. /\ ccp' = [ccp EXCEPT ![n] = ChangeRole(c)]
        /\ UNCHANGED <<radio, faults>>
    BY <1>6 DEF RunEvent
  <2>. HIDE DEF c, r
  <2>2. NodeInv(ChangeRole(c), r) /\ SoundInv(ChangeRole(c), r)
    BY <1>1, <1>4, ChangeRoleInv, SemFree DEF NodeInv
  <2>. QED
    BY <1>1, <1>5, <2>1, <2>2, Lift, SpendNat DEF r
<1>7. CASE Head(q) = "timer"
  <2>1. old.enabled
    <3>1. Head(<<"change">>) # "timer"
      OBVIOUS
    <3>. QED
      BY <1>1, <1>2, <1>7, <3>1 DEF InstanceInv
  <2>2. /\ c.enabled /\ c.pc = "idle" /\ c.handler = old.handler /\ c.role = old.role
        /\ c.queue = Tail(q) /\ c.timer = old.timer /\ c.cnt = old.cnt /\ c.drv = old.drv
    BY <1>1, <1>2, <2>1 DEF Instance
  <2>3. c.handler = "MASTER" /\ c.role = "SLAVE" => Queued(c.queue, "change")
    BY <1>1, <1>2, <1>3, <1>7, <2>2 DEF InstanceInv, Event
  <2>4. c.handler = "MASTER" /\ c.role = "SLAVE" => Stale(old)
    BY <1>2, <1>7, <2>2 DEF Stale
  <2>5. IF c.handler = "MASTER" THEN MasterTimerEv(n, c) ELSE SlaveTimerEv(n, c)
    BY <1>7, <2>1, <2>2 DEF RunEvent
  <2>6. CASE c.handler = "MASTER"
    <3>. DEFINE after == [c EXCEPT !.timer = TRUE]
                d == [c EXCEPT !.sem = 0, !.pc = "send"]
                op == RadioOp("tx", CcpFrame("SYNC", n))
    <3>1. Transact(n, c, "send", op, after)
      BY <2>5, <2>6 DEF MasterTimerEv
    <3>2. ASSUME NEW off \in ForcedOff(r)
          PROVE  /\ NodeInv(d, [off EXCEPT !.op = op])
                 /\ ~Stale(old) => SoundInv(d, [off EXCEPT !.op = op])
                 /\ NodeInv(after, off) /\ after.sem = 1
      <4>. DEFINE s == [off EXCEPT !.op = op]
      <4>1. RadioInv(off) /\ RadioInv(s) /\ s.op.what = "tx"
        BY <1>1, RadioFacts, FrameFacts
      <4>2. /\ d \in Instance /\ d.sem = 0 /\ d.pc = "send" /\ d.enabled
            /\ d.handler = "MASTER" /\ d.role = c.role /\ d.queue = c.queue
            /\ d.timer = c.timer
        BY <1>4, <2>2, <2>6 DEF Instance
      <4>3. /\ after \in Instance /\ after.sem = 1 /\ after.pc = "idle" /\ after.enabled
            /\ after.handler = "MASTER" /\ after.role = c.role /\ after.queue = c.queue
            /\ after.timer
        BY <1>4, <2>2, <2>6 DEF Instance
      <4>4. c.role \in {"MASTER", "SLAVE"}
        BY <1>4 DEF Instance, CcpRole
      <4>. HIDE DEF c, d, after, s, old
      <4>5. InstanceInv(d)
        BY <2>3, <2>6, <4>2, <4>4 DEF InstanceInv, Waits
      <4>6. InstanceInv(after)
        BY <2>3, <2>6, <4>3, <4>4 DEF InstanceInv
      <4>7. ~Stale(old) => SoundInv(d, s)
        BY <2>4, <2>6, <4>1, <4>2, <4>4 DEF SoundInv, EndOf
      <4>. QED
        BY <4>1, <4>3, <4>5, <4>6, <4>7 DEF NodeInv, s
    <3>. HIDE DEF c, d, after, op
    <3>. QED
      BY <3>1, <3>2, TransactInv DEF d
  <2>7. CASE c.handler # "MASTER"
    <3>. DEFINE heard == [c EXCEPT !.rx_timeout_error = FALSE]
                after == SlaveHeard(heard, n)
                d == [heard EXCEPT !.sem = 0, !.pc = "listen"]
                op == RadioOp("rx", NoFrame)
    <3>1. Transact(n, heard, "listen", op, after)
      BY <2>5, <2>7 DEF SlaveTimerEv, ListenFor
    <3>2. c.handler = "SLAVE" /\ c.role = "SLAVE"
      BY <1>1, <1>2, <2>2, <2>7 DEF InstanceInv, Instance, CcpRole
    <3>3. /\ heard \in Instance /\ heard.sem = 1 /\ heard.enabled
          /\ heard.role = "SLAVE" /\ heard.handler = "SLAVE" /\ heard.queue = c.queue
          /\ heard.timer = c.timer
      BY <1>4, <2>2, <3>2 DEF Instance
    <3>4. ASSUME NEW off \in ForcedOff(r)
          PROVE  /\ NodeInv(d, [off EXCEPT !.op = op]) /\ SoundInv(d, [off EXCEPT !.op = op])
                 /\ NodeInv(after, off) /\ after.sem = 1
      <4>. DEFINE s == [off EXCEPT !.op = op]
      <4>1. RadioInv(off) /\ RadioInv(s) /\ s.op.what = "rx"
        BY <1>1, RadioFacts
      <4>2. /\ d \in Instance /\ d.sem = 0 /\ d.pc = "listen" /\ d.enabled
            /\ d.handler = "SLAVE" /\ d.role = "SLAVE" /\ d.queue = c.queue
            /\ d.timer = c.timer
        BY <3>3 DEF Instance
      <4>. HIDE DEF c, d, heard, s
      <4>3. InstanceInv(d) /\ SoundInv(d, s)
        BY <4>1, <4>2 DEF InstanceInv, SoundInv, EndOf, Waits
      <4>4. InstanceInv(after) /\ after.sem = 1
        BY <3>3, SlaveHeardInv
      <4>. QED
        BY <4>1, <4>3, <4>4 DEF NodeInv, s
    <3>. HIDE DEF c, heard, d, after, op
    <3>. QED
      BY <3>1, <3>4, TransactInv DEF d
  <2>. QED
    BY <2>6, <2>7
<1>. QED
  BY <1>3, <1>6, <1>7 DEF Event

(* The master after ccp_send. *)
LEMMA SendReturnsInv ==
  ASSUME IInv, NEW n \in Node, SendReturns(n), powered' = powered
  PROVE  Stepped
<1>. DEFINE c == ccp[n]
            d == [c EXCEPT !.pc = "idle", !.timer = TRUE]
            r == radio[n]
<1>1. /\ c \in Instance /\ InstanceInv(c) /\ RadioInv(r)
      /\ radio = [radio EXCEPT ![n] = r]
  BY NodeFacts
<1>2. c.pc = "send" /\ c.sem = 1 /\ c.queue \in Queue
  BY <1>1 DEF SendReturns, Instance
<1>3. ccp' = [ccp EXCEPT ![n] = d] /\ UNCHANGED <<radio, faults>>
  BY DEF SendReturns, IInv
<1>4. /\ d \in Instance /\ d.sem = 1 /\ d.pc = "idle" /\ d.timer
      /\ d.enabled = c.enabled /\ d.handler = c.handler /\ d.role = c.role
      /\ d.queue = c.queue
  BY <1>1, <1>2 DEF Instance
<1>. HIDE DEF d, c, r
<1>5. InstanceInv(d)
  BY <1>1, <1>2, <1>4 DEF InstanceInv
<1>7. NodeInv(d, r) /\ SoundInv(d, r)
  BY <1>1, <1>4, <1>5, SemFree DEF NodeInv
<1>8. powered' \in SUBSET Node
  BY DEF IInv
<1>. QED
  BY <1>1, <1>3, <1>7, <1>8, Lift, SpendNat DEF r

(* The slave after ccp_listen. *)
LEMMA ListenReturnsInv ==
  ASSUME IInv, NEW n \in Node, ListenReturns(n), powered' = powered
  PROVE  Stepped
<1>. DEFINE c == ccp[n]
            d == [c EXCEPT !.timer = FALSE]
            r == radio[n]
<1>1. /\ c \in Instance /\ InstanceInv(c) /\ RadioInv(r)
      /\ radio = [radio EXCEPT ![n] = r]
  BY NodeFacts
<1>2. c.pc = "listen" /\ c.sem = 1
  BY DEF ListenReturns
<1>3. ccp' = [ccp EXCEPT ![n] = SlaveHeard(d, n)] /\ UNCHANGED <<radio, faults>>
  BY DEF ListenReturns, IInv
<1>4. c.enabled /\ c.handler = "SLAVE" /\ c.role = "SLAVE"
  BY <1>1, <1>2 DEF InstanceInv
<1>6. /\ d \in Instance /\ d.sem = 1 /\ d.enabled
      /\ d.handler = "SLAVE" /\ d.role = "SLAVE" /\ d.queue = c.queue
  BY <1>1, <1>2, <1>4 DEF Instance
<1>. HIDE DEF d, c, r
<1>7. NodeInv(SlaveHeard(d, n), r) /\ SoundInv(SlaveHeard(d, n), r)
  BY <1>1, <1>6, SlaveHeardInv, SemFree DEF NodeInv
<1>8. powered' \in SUBSET Node
  BY DEF IInv
<1>. QED
  BY <1>1, <1>3, <1>7, <1>8, Lift, SpendNat DEF r

(* A round of requests begins, or the rounds are over. *)
LEMMA AskInv ==
  ASSUME IInv, NEW n \in Node, Ask(n), powered' = powered
  PROVE  Stepped
<1>. DEFINE c == ccp[n]
            r == radio[n]
<1>1. /\ c \in Instance /\ InstanceInv(c) /\ RadioInv(r)
      /\ radio = [radio EXCEPT ![n] = r]
  BY NodeFacts
<1>2. c.pc = "asking" /\ c.sem = 1
  BY <1>1 DEF Ask, InstanceInv, Instance, Waits
<1>3. powered' \in SUBSET Node
  BY DEF IInv
<1>4. CASE c.cnt < Rounds /\ c.request
  <2>. DEFINE next  == [c EXCEPT !.cnt = @ + 1, !.rx_timeout_error = FALSE]
              after == [next EXCEPT !.pc = "round"]
              d     == [next EXCEPT !.sem = 0, !.pc = "round"]
              op    == RadioOp("rx", NoFrame)
  <2>1. Transact(n, next, "round", op, after)
    BY <1>4 DEF Ask, ListenFor
  <2>2. next \in Instance /\ next.sem = 1 /\ next.timer = c.timer /\ next.queue = c.queue
    <3>1. c.cnt + 1 \in 0 .. Rounds
      BY <1>1, <1>4, BoundAssumption DEF Instance
    <3>. QED
      BY <1>1, <1>2, <3>1 DEF Instance
  <2>3. /\ after \in Instance /\ after.sem = 1 /\ after.pc = "round"
        /\ after.timer = c.timer /\ after.queue = c.queue
        /\ d \in Instance /\ d.sem = 0 /\ d.pc = "round"
        /\ d.timer = c.timer /\ d.queue = c.queue
    <3>. HIDE DEF next
    <3>. QED
      BY <2>2 DEF Instance
  <2>4. ASSUME NEW off \in ForcedOff(r)
        PROVE  /\ NodeInv(d, [off EXCEPT !.op = op]) /\ SoundInv(d, [off EXCEPT !.op = op])
               /\ NodeInv(after, off) /\ after.sem = 1
    <3>. DEFINE s == [off EXCEPT !.op = op]
    <3>1. RadioInv(off) /\ RadioInv(s) /\ s.op.what = "rx"
      BY <1>1, RadioFacts
    <3>. HIDE DEF c, next, after, d, s
    <3>2. InstanceInv(d) /\ InstanceInv(after)
      BY <2>3 DEF InstanceInv, Waits
    <3>3. SoundInv(d, s)
      BY <2>3, <3>1 DEF SoundInv, EndOf
    <3>. QED
      BY <2>3, <3>1, <3>2, <3>3 DEF NodeInv, s
  <2>. HIDE DEF next, after, d, op
  <2>. QED
    BY <2>1, <2>4, TransactInv DEF d
<1>5. CASE ~(c.cnt < Rounds /\ c.request)
  <2>. DEFINE role == IF c.request THEN "MASTER" ELSE "SLAVE"
  <2>1. ccp' = [ccp EXCEPT ![n] = Start(c, role)] /\ UNCHANGED <<radio, faults>>
    BY <1>5 DEF Ask
  <2>2. role \in CcpRole
    BY DEF CcpRole
  <2>. HIDE DEF role, c, r
  <2>3. NodeInv(Start(c, role), r) /\ SoundInv(Start(c, role), r)
    BY <1>1, <1>2, <2>2, StartInv, SemFree DEF NodeInv
  <2>. QED
    BY <1>1, <1>3, <2>1, <2>3, Lift, SpendNat DEF r
<1>. QED
  BY <1>4, <1>5

(* The listen of a round returns, with or without an answer. *)
LEMMA RoundReturnsInv ==
  ASSUME IInv, NEW n \in Node, RoundReturns(n), powered' = powered
  PROVE  Stepped
<1>. DEFINE c == ccp[n]
            d == [c EXCEPT !.pc = "asking"]
            r == radio[n]
            s == [r EXCEPT !.op = RadioOp("tx", CcpFrame("REQT", n))]
<1>1. /\ c \in Instance /\ InstanceInv(c) /\ RadioInv(r)
      /\ radio = [radio EXCEPT ![n] = r]
  BY NodeFacts
<1>2. c.pc = "round" /\ c.sem = 1
  BY DEF RoundReturns
<1>3. /\ ccp' = [ccp EXCEPT ![n] = d]
      /\ \/ radio' = [radio EXCEPT ![n] = s] /\ UNCHANGED faults
         \/ Spend /\ UNCHANGED radio
  BY DEF RoundReturns, IInv
<1>4. d \in Instance /\ d.sem = 1 /\ d.pc = "asking"
  BY <1>1, <1>2 DEF Instance
<1>5. RadioInv(s)
  BY <1>1, RadioFacts, FrameFacts
<1>. HIDE DEF c, d, s
<1>6. InstanceInv(d)
  BY <1>4 DEF InstanceInv
<1>7. SoundInv(d, r) /\ SoundInv(d, s)
  BY <1>4, SemFree
<1>8. NodeInv(d, r) /\ NodeInv(d, s)
  BY <1>1, <1>5, <1>6 DEF NodeInv
<1>9. powered' \in SUBSET Node /\ faults' \in Nat
  BY <1>3, SpendNat DEF IInv
<1>. HIDE DEF r
<1>10. radio' = [radio EXCEPT ![n] = s] \/ radio' = [radio EXCEPT ![n] = r]
  BY <1>1, <1>3
<1>. QED
  BY <1>3, <1>7, <1>8, <1>9, <1>10, Lift

-----------------------------------------------------------------------------
(* The interrupt of the timer and the callbacks of the driver. *)

(* The timer's interrupt adds its event to the queue. *)
LEMMA TimerIrqInv ==
  ASSUME IInv, NEW n \in Node, TimerIrq(n)
  PROVE  Stepped
<1>. DEFINE c == ccp[n]
            q == Put(c.queue, "timer")
            d == [c EXCEPT !.timer = FALSE, !.queue = q]
            r == radio[n]
<1>1. /\ c \in Instance /\ InstanceInv(c) /\ RadioInv(r)
      /\ radio = [radio EXCEPT ![n] = r]
  BY NodeFacts
<1>2. c.timer /\ c.queue \in Queue
  BY <1>1 DEF TimerIrq, Instance
<1>3. ccp' = [ccp EXCEPT ![n] = d] /\ UNCHANGED <<radio, powered, faults>>
  BY DEF TimerIrq, IInv
<1>4. /\ q \in Queue /\ q # <<>>
      /\ Queued(c.queue, "change") => Queued(q, "change")
  BY <1>2, PutFacts DEF Event
<1>5. /\ d \in Instance /\ d.sem = c.sem /\ d.pc = c.pc /\ ~d.timer
      /\ d.enabled = c.enabled /\ d.handler = c.handler /\ d.role = c.role
      /\ d.queue = q /\ d.drv = c.drv
  BY <1>1, <1>4 DEF Instance
<1>. HIDE DEF d, c, q, r
<1>7. InstanceInv(d)
  BY <1>1, <1>2, <1>4, <1>5 DEF InstanceInv, Waits
<1>8. SoundInv(c, r) => SoundInv(d, r)
  BY <1>5 DEF SoundInv, EndOf, Waits
<1>9. NodeInv(d, r)
  BY <1>1, <1>7 DEF NodeInv
<1>10. powered' \in SUBSET Node
  BY <1>3 DEF IInv
<1>. QED
  BY <1>1, <1>3, <1>8, <1>9, <1>10, Lift, SpendNat DEF r, c

(* A callback that releases the semaphore ends every wait. *)
LEMMA ReleaseInv ==
  ASSUME NEW c, InstanceInv(c), NEW b \in BOOLEAN, NEW x \in {"idle", "exit"}
  PROVE  LET d == Release([c EXCEPT !.rx_timeout_error = b, !.drv = x])
         IN InstanceInv(d) /\ d.sem = 1
<1>. DEFINE d == Release([c EXCEPT !.rx_timeout_error = b, !.drv = x])
<1>1. c \in Instance
  BY DEF InstanceInv
<1>2. /\ d \in Instance /\ d.sem = 1 /\ d.pc = c.pc /\ d.timer = c.timer
      /\ d.enabled = c.enabled /\ d.handler = c.handler /\ d.role = c.role
      /\ d.queue = c.queue
  BY <1>1 DEF Release, Instance
<1>. HIDE DEF d
<1>3. InstanceInv(d)
  BY <1>2 DEF InstanceInv
<1>. QED
  BY <1>2, <1>3 DEF d

(* A master hears a frame while ccp_task waits: for an event, then the change *)
(* of role is the only one, or for the radio, then the label exit follows.    *)
LEMMA MasterHearsInv ==
  ASSUME NEW c, InstanceInv(c), ~Runnable(c), NEW s, NEW n \in Node, NEW frame
  PROVE  LET d == MasterHears(c, n, frame)
         IN InstanceInv(d) /\ SoundInv(d, s)
<1>. DEFINE d == MasterHears(c, n, frame)
            q == Put(c.queue, "change")
<1>1. c \in Instance /\ c.queue \in Queue
  BY DEF InstanceInv, Instance
<1>2. /\ c.pc = "idle" => c.queue = <<>>
      /\ c.pc # "asking"
  BY DEF Runnable
<1>3. CASE c.request
  <2>1. /\ d \in Instance /\ d.sem = c.sem /\ d.pc = c.pc /\ d.timer = c.timer
        /\ d.enabled = c.enabled /\ d.handler = c.handler /\ d.role = c.role
        /\ d.queue = c.queue /\ d.drv = "exit"
    BY <1>1, <1>3 DEF MasterHears, Instance
  <2>. HIDE DEF d
  <2>2. InstanceInv(d)
    BY <2>1 DEF InstanceInv, Waits
  <2>3. SoundInv(d, s)
    BY <2>1 DEF SoundInv, EndOf
  <2>. QED
    BY <2>2, <2>3 DEF d
<1>4. CASE ~c.request
  <2>1. /\ q \in Queue /\ q # <<>> /\ Queued(q, "change")
        /\ c.queue = <<>> => q = <<"change">>
    BY <1>1, PutFacts DEF Event
  <2>2. /\ d \in Instance /\ d.sem = c.sem /\ d.pc = c.pc /\ d.timer = c.timer
        /\ d.enabled = c.enabled /\ d.handler = c.handler /\ d.role = "SLAVE"
        /\ d.queue = q /\ d.drv = "exit"
    BY <1>1, <1>4, <2>1 DEF MasterHears, Instance, CcpRole
  <2>3. c.enabled \/ c.pc \in {"asking", "round"}
    <3>1. <<"change">> # <<>>
      OBVIOUS
    <3>. QED
      BY <1>2, <3>1 DEF InstanceInv
  <2>. HIDE DEF d, q
  <2>5. InstanceInv(d)
    BY <2>1, <2>2, <2>3 DEF InstanceInv, Waits
  <2>6. SoundInv(d, s)
    BY <2>2 DEF SoundInv, EndOf
  <2>. QED
    BY <2>5, <2>6 DEF d
<1>. QED
  BY <1>3, <1>4

(* Every callback of the driver's task. *)
LEMMA DriverInv ==
  ASSUME IInv, NEW n \in Node, Driver(n)
  PROVE  Stepped
<1>. DEFINE c == ccp[n]
            r == radio[n]
            i == r.irq
            s == [r EXCEPT !.irq = RadioOff]
<1>1. /\ c \in Instance /\ InstanceInv(c) /\ RadioInv(r) /\ r \in RadioState
      /\ ccp = [ccp EXCEPT ![n] = c]
  BY NodeFacts
<1>2. /\ ~Runnable(c) /\ c.drv = "idle"
      /\ \/ i.what = "rx" /\ RxComplete(n, c, i.frame, s)
         \/ /\ i.what \in {"tx", "timeout", "error"}
            /\ ccp' = [ccp EXCEPT ![n] = CASE i.what = "tx"      -> TxComplete(c)
                                           [] i.what = "timeout" -> RxTimeout(c)
                                           [] i.what = "error"   -> Release(c)]
            /\ radio' = [radio EXCEPT ![n] = s]
  BY DEF Driver
<1>3. powered' \in SUBSET Node /\ faults' \in Nat
  BY DEF Driver, IInv
<1>4. RadioInv(s) /\ s.op = r.op /\ s.irq = RadioOff /\ RadioInv([s EXCEPT !.op = RadioOff])
  BY <1>1 DEF RadioInv, RadioState, RadioOff, RadioOp
<1>5. s.irq.what = "off"
  BY <1>4 DEF RadioOff, RadioOp
<1>7. ASSUME NEW t, RadioInv(t), NEW b \in BOOLEAN
      PROVE  LET d == Release([c EXCEPT !.rx_timeout_error = b])
             IN NodeInv(d, t) /\ SoundInv(d, t)
  <2>. DEFINE d == [c EXCEPT !.rx_timeout_error = b, !.drv = "idle"]
  <2>1. d = [c EXCEPT !.rx_timeout_error = b]
    BY <1>1, <1>2 DEF Instance
  <2>2. InstanceInv(Release(d)) /\ Release(d).sem = 1
    BY <1>1, ReleaseInv
  <2>. HIDE DEF d
  <2>. QED
    BY <1>7, <2>1, <2>2, SemFree DEF NodeInv
<1>8. ASSUME NEW t, RadioInv(t)
      PROVE  NodeInv(Release(c), t) /\ SoundInv(Release(c), t)
  <2>1. c = [c EXCEPT !.rx_timeout_error = c.rx_timeout_error] /\ c.rx_timeout_error \in BOOLEAN
    BY <1>1 DEF Instance
  <2>. HIDE DEF c
  <2>. QED
    BY <1>7, <1>8, <2>1
<1>9. /\ NodeInv(c, s)
      /\ c.sem = 1 \/ (i.what = "tx" /\ c.role # "MASTER") =>
           (SoundInv(c, r) => SoundInv(c, s))
  <2>. HIDE DEF c, r, s
  <2>1. NodeInv(c, s)
    BY <1>1, <1>4 DEF NodeInv
  <2>. QED
    BY <1>2, <1>4, <1>5, <2>1 DEF SoundInv, EndOf, i
<1>10. CASE i.what = "rx" /\ RxComplete(n, c, i.frame, s)
  <2>1. i.frame \in Frame
    BY <1>1, <1>10 DEF RadioInv
  <2>2. CASE /\ ccp' = [ccp EXCEPT ![n] = MasterHears(c, n, i.frame)]
             /\ radio' = [radio EXCEPT ![n] = s]
    <3>1. NodeInv(MasterHears(c, n, i.frame), s) /\ SoundInv(MasterHears(c, n, i.frame), s)
      <4>. HIDE DEF c, r, s
      <4>. QED
        BY <1>1, <1>2, <1>4, MasterHearsInv DEF NodeInv
    <3>. HIDE DEF c, r, s
    <3>. QED
      BY <1>3, <2>2, <3>1, Lift
  <2>3. CASE c.sem = 1 /\ radio' = [radio EXCEPT ![n] = s] /\ UNCHANGED ccp
    <3>1. ccp' = [ccp EXCEPT ![n] = c] /\ radio' = [radio EXCEPT ![n] = s]
      BY <1>1, <2>3
    <3>2. NodeInv(c, s) /\ SoundInv(c, s)
      BY <1>9, <2>3, SemFree
    <3>. HIDE DEF c, r, s
    <3>. QED
      BY <1>3, <3>1, <3>2, Lift
  <2>4. CASE /\ ccp' = [ccp EXCEPT ![n] = Release([c EXCEPT !.rx_timeout_error = FALSE])]
             /\ \/ radio' = [radio EXCEPT ![n] = [s EXCEPT !.op = RadioOff]]
                \/ /\ i.frame.rpt < MaxRpt
                   /\ radio' = [radio EXCEPT ![n] =
                        [s EXCEPT !.op = RadioOp("tx", Relayed(i.frame))]]
    <3>1. i.frame.rpt < MaxRpt => Relayed(i.frame) \in Frame
      BY <2>1, BoundAssumption DEF Relayed, Frame
    <3>2. PICK t : radio' = [radio EXCEPT ![n] = t] /\ RadioInv(t)
      <4>. HIDE DEF c, r, s, i
      <4>. QED
        BY <1>4, <2>4, <3>1, RadioFacts
    <3>. DEFINE d == Release([c EXCEPT !.rx_timeout_error = FALSE])
    <3>3. NodeInv(d, t) /\ SoundInv(d, t)
      BY <1>7, <3>2
    <3>. HIDE DEF c, r, s
    <3>. QED
      BY <1>3, <2>4, <3>2, <3>3, Lift
  <2>. QED
    BY <1>10, <2>2, <2>3, <2>4 DEF RxComplete
<1>11. CASE /\ i.what \in {"tx", "timeout", "error"}
            /\ ccp' = [ccp EXCEPT ![n] = CASE i.what = "tx"      -> TxComplete(c)
                                           [] i.what = "timeout" -> RxTimeout(c)
                                           [] i.what = "error"   -> Release(c)]
            /\ radio' = [radio EXCEPT ![n] = s]
  <2>1. c.sem \in {0, 1}
    BY <1>1 DEF Instance
  <2>. DEFINE e == Release([c EXCEPT !.rx_timeout_error = TRUE])
  <2>2. /\ NodeInv(Release(c), s) /\ SoundInv(Release(c), s)
        /\ NodeInv(e, s) /\ SoundInv(e, s)
    BY <1>4, <1>7, <1>8
  <2>3. PICK d : /\ ccp' = [ccp EXCEPT ![n] = d] /\ NodeInv(d, s)
                 /\ SoundInv(c, r) => SoundInv(d, s)
    <3>. HIDE DEF c, r, s, i
    <3>1. CASE i.what = "tx"
      <4>1. ccp' = [ccp EXCEPT ![n] = TxComplete(c)]
        BY <1>11, <3>1
      <4>2. TxComplete(c) = (IF c.role = "MASTER" THEN Release(c) ELSE c)
        BY DEF TxComplete
      <4>. QED
        BY <1>9, <2>2, <3>1, <4>1, <4>2
    <3>2. CASE i.what = "timeout"
      BY <1>9, <1>11, <2>1, <2>2, <3>2 DEF RxTimeout
    <3>3. CASE i.what = "error"
      BY <1>11, <2>2, <3>3
    <3>. QED
      BY <1>11, <3>1, <3>2, <3>3
  <2>4. SoundInv(ccp[n], radio[n]) => SoundInv(d, s)
    BY <2>3
  <2>. HIDE DEF c, r, s
  <2>. QED
    BY <1>3, <1>11, <2>3, <2>4, Lift
<1>. QED
  BY <1>2, <1>10, <1>11

(* The label exit of rx_complete_cb releases what still waits. *)
LEMMA RxExitInv ==
  ASSUME IInv, NEW n \in Node, RxExit(n)
  PROVE  Stepped
<1>. DEFINE c == ccp[n]
            r == radio[n]
            b == c.rx_timeout_error
            d == [c EXCEPT !.rx_timeout_error = b, !.drv = "idle"]
<1>1. /\ c \in Instance /\ InstanceInv(c) /\ RadioInv(r) /\ b \in BOOLEAN
      /\ radio = [radio EXCEPT ![n] = r]
  BY NodeFacts DEF Instance
<1>2. InstanceInv(Release(d)) /\ Release(d).sem = 1
  BY <1>1, ReleaseInv
<1>3. d = [c EXCEPT !.drv = "idle"]
  BY <1>1 DEF Instance
<1>. HIDE DEF d
<1>4. ccp' = [ccp EXCEPT ![n] = Release(d)] /\ UNCHANGED <<radio, powered, faults>>
  BY <1>3 DEF RxExit, IInv
<1>5. powered' \in SUBSET Node
  BY <1>4 DEF IInv
<1>6. NodeInv(Release(d), r) /\ SoundInv(Release(d), r)
  BY <1>1, <1>2, SemFree DEF NodeInv
<1>. HIDE DEF r
<1>. QED
  BY <1>1, <1>4, <1>5, <1>6, Lift, SpendNat DEF r

-----------------------------------------------------------------------------
(* The radio and the power. *)

(* An interrupt of the radio where there was none: whoever waits for the end *)
(* of the operation still has it coming.                                     *)
LEMMA IrqInv ==
  ASSUME NEW c, NEW r, NodeInv(c, r), r.irq = RadioOff,
         NEW s, RadioInv(s),
         \/ s.irq.what \in {"timeout", "error"}
         \/ r.op.what = "tx" /\ s.irq.what = "tx"
         \/ s.op = r.op
  PROVE  NodeInv(c, s) /\ (SoundInv(c, r) => SoundInv(c, s))
<1>1. r.irq.what = "off"
  BY DEF RadioOff, RadioOp
<1>2. SoundInv(c, r) => SoundInv(c, s)
  BY <1>1 DEF SoundInv, EndOf
<1>. QED
  BY <1>2 DEF NodeInv

(* The end of a transmission, at the sender and at every receiver. *)
LEMMA TransmittedInv ==
  ASSUME IInv, NEW n \in Node, Transmitted(n)
  PROVE  Stepped
<1>. DEFINE r == radio[n]
<1>1. /\ UNCHANGED <<ccp, powered, faults>>
      /\ r.op.what = "tx" /\ r.irq = RadioOff
  BY DEF Transmitted
<1>2. PICK H \in SUBSET Receptive(n) :
        radio' = [m \in Node |->
            IF m = n THEN [op |-> RadioOff, irq |-> RadioOp("tx", NoFrame)]
            ELSE IF m \in H THEN [radio[m] EXCEPT !.irq = RadioOp("rx", r.op.frame)]
            ELSE radio[m]]
  BY DEF Transmitted
<1>3. r.op.frame \in Frame
  BY <1>1, NodeFacts DEF RadioInv
<1>4. ASSUME NEW m \in Node
      PROVE  /\ NodeInv(ccp[m], radio'[m])
             /\ SoundInv(ccp[m], radio[m]) => SoundInv(ccp[m], radio'[m])
  <2>1. NodeInv(ccp[m], radio[m]) /\ RadioInv(radio[m]) /\ radio[m] \in RadioState
    BY NodeFacts DEF IInv
  <2>2. CASE m = n
    <3>. DEFINE s == [op |-> RadioOff, irq |-> RadioOp("tx", NoFrame)]
    <3>1. radio'[m] = s
      BY <1>2, <2>2
    <3>2. RadioInv(s) /\ s.irq.what = "tx"
      BY DEF RadioInv, RadioState, RadioOff, RadioOp
    <3>. HIDE DEF s
    <3>. QED
      BY <1>1, <2>1, <2>2, <3>1, <3>2, IrqInv
  <2>3. CASE m # n /\ m \in H
    <3>. DEFINE s == [radio[m] EXCEPT !.irq = RadioOp("rx", r.op.frame)]
    <3>1. radio'[m] = s
      BY <1>2, <2>3
    <3>2. RadioInv(s) /\ s.op = radio[m].op
      BY <1>3, <2>1 DEF RadioInv, RadioState, RadioOp
    <3>3. radio[m].irq = RadioOff
      BY <2>3 DEF Receptive
    <3>. HIDE DEF s
    <3>. QED
      BY <2>1, <3>1, <3>2, <3>3, IrqInv
  <2>4. CASE m # n /\ m \notin H
    BY <1>2, <2>1, <2>4
  <2>. QED
    BY <2>2, <2>3, <2>4
<1>5. radio' \in [Node -> RadioState]
  <2>1. \A m \in Node : radio'[m] \in RadioState
    BY <1>4 DEF NodeInv, RadioInv
  <2>. QED
    BY <1>2, <2>1
<1>. QED
  BY <1>1, <1>4, <1>5 DEF IInv, Stepped, StaysSound

(* A reception that ends by its time-out, or an error. *)
LEMMA RadioEndsInv ==
  ASSUME IInv, NEW n \in Node, RadioTimeout(n) \/ RadioError(n)
  PROVE  Stepped
<1>. DEFINE s(what) == [op |-> RadioOff, irq |-> RadioOp(what, NoFrame)]
<1>1. /\ ccp = [ccp EXCEPT ![n] = ccp[n]] /\ NodeInv(ccp[n], radio[n])
      /\ radio[n].irq = RadioOff
  BY NodeFacts DEF IInv, RadioTimeout, RadioError
<1>2. PICK what \in {"timeout", "error"} : radio' = [radio EXCEPT ![n] = s(what)]
  BY DEF RadioTimeout, RadioError
<1>3. RadioInv(s(what)) /\ s(what).irq.what = what
  BY <1>2 DEF RadioInv, RadioState, RadioOff, RadioOp
<1>4. ccp' = [ccp EXCEPT ![n] = ccp[n]] /\ powered' \in SUBSET Node /\ faults' \in Nat
  BY <1>1, SpendNat DEF RadioTimeout, RadioError, IInv
<1>. HIDE DEF s
<1>5. NodeInv(ccp[n], s(what)) /\ (SoundInv(ccp[n], radio[n]) => SoundInv(ccp[n], s(what)))
  BY <1>1, <1>2, <1>3, IrqInv
<1>. QED
  BY <1>2, <1>4, <1>5, Lift

(* A node that boots is sound. *)
LEMMA BootInv == NodeInv(BootInstance, RadioIdle) /\ SoundInv(BootInstance, RadioIdle)
<1>1. /\ BootInstance \in Instance /\ BootInstance.sem = 1 /\ BootInstance.pc = "idle"
      /\ BootInstance.queue = <<"change">> /\ BootInstance.handler = "SLAVE"
      /\ BootInstance.role = "SLAVE" /\ ~BootInstance.timer /\ ~BootInstance.enabled
  BY BoundAssumption DEF BootInstance, Instance, CcpRole, Queue
<1>2. RadioInv(RadioIdle)
  BY DEF RadioInv, RadioIdle, RadioState, RadioOff, RadioOp
<1>3. <<"change">> # <<>>
  OBVIOUS
<1>4. InstanceInv(BootInstance)
  BY <1>1, <1>3 DEF InstanceInv
<1>5. SoundInv(BootInstance, RadioIdle)
  BY <1>1, SemFree
<1>. QED
  BY <1>2, <1>4, <1>5 DEF NodeInv

(* Losing and regaining power. *)
LEMMA PowerInv ==
  ASSUME IInv, NEW n \in Node, PowerOff(n) \/ PowerOn(n)
  PROVE  Stepped
<1>1. CASE PowerOff(n)
  <2>1. /\ ccp' = [ccp EXCEPT ![n] = BootInstance] /\ radio' = [radio EXCEPT ![n] = RadioIdle]
        /\ powered' \in SUBSET Node /\ Spend
    BY <1>1 DEF PowerOff, IInv
  <2>. QED
    BY <2>1, BootInv, Lift, SpendNat
<1>2. CASE PowerOn(n)
  BY <1>2 DEF PowerOn, IInv, Stepped, StaysSound
<1>. QED
  BY <1>1, <1>2

-----------------------------------------------------------------------------
(* The invariant of the specification. *)

(* All nodes boot. *)
LEMMA InitInv == Init => IInv
BY BootInv DEF Init, IInv, NodeInv, InstanceInv, RadioInv

(* Every step keeps the invariant, and leads nobody into a wait without end  *)
(* but by a stale timer.                                                     *)
LEMMA NextInv == IInv /\ [Next]_vars => Stepped
<1>. SUFFICES ASSUME IInv, [Next]_vars PROVE Stepped
  OBVIOUS
<1>1. CASE UNCHANGED vars
  BY <1>1 DEF vars, IInv, Stepped, StaysSound
<1>2. ASSUME NEW n \in Node, Task(n)
      PROVE  Stepped
  <2>1. powered' = powered
    BY <1>2 DEF Task
  <2>. QED
    BY <1>2, <2>1, RunEventInv, SendReturnsInv, ListenReturnsInv, AskInv, RoundReturnsInv DEF Task
<1>. QED
  BY <1>1, <1>2, TimerIrqInv, DriverInv, RxExitInv, TransmittedInv, RadioEndsInv, PowerInv DEF Next

(* The invariant holds, for any number of nodes and faults. *)
LEMMA IInvSafe == Spec => []IInv
<1>1. IInv /\ [Next]_vars => IInv'
  BY NextInv DEF Stepped
<1>. QED
  BY <1>1, InitInv, PTL DEF Spec

(* Type correctness: no event is queued twice and the semaphore never counts *)
(* further than one, for any number of nodes and failures.                   *)
THEOREM TypeCorrect == Spec => []TypeOK
<1>1. IInv => TypeOK
  BY DEF IInv, TypeOK
<1>. QED
  BY <1>1, IInvSafe, PTL

(* The semaphore is taken only by a task that waits for the radio, so every  *)
(* dpl_sem_pend of uwb_ccp_send and uwb_ccp_listen takes it at once.         *)
THEOREM TakenSafe == Spec => []TakenWhileWaiting
<1>1. IInv => TakenWhileWaiting
  BY DEF IInv, NodeInv, InstanceInv, TakenWhileWaiting
<1>. QED
  BY <1>1, IInvSafe, PTL

(* The timer runs or an event is queued whenever ccp_task waits for an event: *)
(* the cycle of timer, event and handler never breaks.                       *)
THEOREM CycleSafe == Spec => []CycleAlive
<1>1. IInv => CycleAlive
  BY DEF IInv, NodeInv, InstanceInv, CycleAlive
<1>. QED
  BY <1>1, IInvSafe, PTL

(* A node whose role is not that of its handler has the change of role       *)
(* queued, whatever packets it is given and whoever loses power.             *)
THEOREM HandlerSafe == Spec => []HandlerFollowsRole
<1>1. ASSUME NEW c, InstanceInv(c), c.pc # "asking", c.pc # "round", c.handler # c.role
      PROVE  Queued(c.queue, "change")
  <2>1. /\ c.pc \in {"idle", "send", "listen"}
        /\ c.handler \in {"MASTER", "SLAVE"} /\ c.role \in {"MASTER", "SLAVE"}
    BY <1>1 DEF InstanceInv, Instance, CcpRole
  <2>. QED
    BY <1>1, <2>1 DEF InstanceInv
<1>2. IInv => HandlerFollowsRole
  BY <1>1 DEF IInv, NodeInv, HandlerFollowsRole
<1>. QED
  BY <1>2, IInvSafe, PTL

(* A task of a network of any size that waits for the radio has something    *)
(* coming that releases it, unless it has served a stale event of its timer  *)
(* in between: whatever the callbacks do to the role in the middle of a      *)
(* transaction, and whatever fails.                                          *)
THEOREM BlocksOnlySo == Spec => OneWayToBlock
<1>. DEFINE Here(n) == SoundInv(ccp[n], radio[n])
<1>1. ASSUME NEW n \in Node
      PROVE  Sound(n) <=> Here(n)
  BY DEF Sound, SendEnds, ListenEnds, SoundInv, EndOf
<1>2. ASSUME NEW n \in Node
      PROVE  Sound(n)' <=> Here(n)'
  BY DEF Sound, SendEnds, ListenEnds, SoundInv, EndOf, Waits
<1>3. ASSUME NEW n \in Node
      PROVE  StaleTimer(n) <=> Stale(ccp[n])
  BY DEF StaleTimer, Stale
<1>4. IInv /\ [Next]_vars => [\A n \in Node : Sound(n) /\ ~Sound(n)' => StaleTimer(n)]_vars
  <2>. SUFFICES ASSUME IInv, [Next]_vars, NEW n \in Node, Sound(n), ~Sound(n)'
                PROVE  StaleTimer(n)
    OBVIOUS
  <2>1. StaysSound
    BY NextInv DEF Stepped
  <2>2. SoundInv(ccp[n], radio[n]) /\ ~SoundInv(ccp'[n], radio'[n])
    BY <1>1, <1>2
  <2>. QED
    BY <1>3, <2>1, <2>2 DEF StaysSound
<1>. QED
  BY <1>4, IInvSafe, PTL DEF Spec, OneWayToBlock
=============================================================================
