-------------------------- MODULE TdmaSched_proofs --------------------------
(* Theorems about TdmaSched, for any number of slots and any clock that is   *)
(* long enough.                                                              *)
EXTENDS TdmaSched, CommonLemmas

Event == Slot \cup {Superframe}

In(x, q) == \E k \in DOMAIN q : q[k] = x

Distinct(q) == \A j, k \in DOMAIN q : q[j] = q[k] => j = k

(* The constants are numbers, and Superframe is no slot.                     *)
LEMMA ConstFacts ==
  /\ NSlots \in Int /\ NSlots > 0 /\ Wrap \in Int /\ Wrap > 0
  /\ SlotTicks \in Int /\ SlotTicks >= 0 /\ Latency \in Int /\ Latency >= 0
  /\ MaxDelay \in Int /\ MaxDelay >= 0 /\ IrqDelay \in Int /\ IrqDelay >= 0
  /\ MaxBusy \in Int /\ MaxBusy >= 0
  /\ Superframe \notin Slot
  /\ \A i \in Slot : i \in Int /\ 0 <= i /\ i < NSlots
BY TimeAssumption DEF Slot, Superframe

-----------------------------------------------------------------------------
(* The queue. *)

(* An event is queued once.                                                  *)
LEMMA PutFacts ==
  ASSUME NEW q \in Seq(Event), Distinct(q), NEW e \in Event
  PROVE  /\ Put(q, e) \in Seq(Event) /\ Distinct(Put(q, e))
         /\ \A x : In(x, Put(q, e)) <=> In(x, q) \/ x = e
<1>1. CASE In(e, q)
  BY <1>1 DEF Put, In
<1>2. CASE ~In(e, q)
  <2>. DEFINE s == Append(q, e)
              n == Len(q)
  <2>1. n \in Nat /\ DOMAIN q = 1 .. n /\ s \in Seq(Event) /\ DOMAIN s = 1 .. n + 1
        /\ s[n + 1] = e /\ \A k \in 1 .. n : s[k] = q[k]
    OBVIOUS
  <2>2. Put(q, e) = s
    BY <1>2 DEF Put, In
  <2>. HIDE DEF s, n
  <2>3. \A k \in DOMAIN s : k \in DOMAIN q \/ k = n + 1
    BY <2>1
  <2>4. \A k \in DOMAIN q : k \in DOMAIN s /\ s[k] = q[k]
    BY <2>1
  <2>5. n + 1 \in DOMAIN s
    BY <2>1
  <2>6. Distinct(s)
    BY <1>2, <2>1, <2>3, <2>4 DEF Distinct, In
  <2>7. \A x : In(x, s) <=> In(x, q) \/ x = e
    BY <2>1, <2>3, <2>4, <2>5 DEF In
  <2>. QED
    BY <2>1, <2>2, <2>6, <2>7
<1>. QED
  BY <1>1, <1>2

(* The first event is taken.                                                 *)
LEMMA TailFacts ==
  ASSUME NEW q \in Seq(Event), Distinct(q), q # <<>>
  PROVE  /\ Tail(q) \in Seq(Event) /\ Distinct(Tail(q)) /\ Head(q) \in Event
         /\ In(Head(q), q)
         /\ \A x : In(x, Tail(q)) <=> In(x, q) /\ x # Head(q)
<1>. DEFINE t == Tail(q)
            n == Len(q)
<1>1. n \in Nat /\ n > 0 /\ DOMAIN q = 1 .. n /\ t \in Seq(Event) /\ DOMAIN t = 1 .. n - 1
      /\ Head(q) = q[1] /\ Head(q) \in Event /\ \A k \in 1 .. n - 1 : t[k] = q[k + 1]
  OBVIOUS
<1>. HIDE DEF t, n
<1>2. \A k \in DOMAIN t : k \in Int /\ k + 1 \in DOMAIN q /\ k + 1 # 1 /\ t[k] = q[k + 1]
  BY <1>1
<1>3. \A k \in DOMAIN q : k # 1 => k - 1 \in DOMAIN t /\ t[k - 1] = q[k]
  <2>1. \A k \in DOMAIN q : k # 1 => k - 1 \in 1 .. n - 1 /\ (k - 1) + 1 = k
    BY <1>1
  <2>. QED
    BY <1>1, <2>1
<1>4. 1 \in DOMAIN q
  BY <1>1
<1>5. Distinct(t)
  <2>. SUFFICES ASSUME NEW j \in DOMAIN t, NEW k \in DOMAIN t, t[j] = t[k]
                PROVE  j = k
    BY DEF Distinct
  <2>1. j + 1 = k + 1
    BY <1>2 DEF Distinct
  <2>. QED
    BY <1>2, <2>1
<1>6. \A x : In(x, t) <=> In(x, q) /\ x # Head(q)
  <2>1. ASSUME NEW x, In(x, t)
        PROVE  In(x, q) /\ x # Head(q)
    BY <1>1, <1>2, <1>4, <2>1 DEF In, Distinct
  <2>2. ASSUME NEW x, In(x, q), x # Head(q)
        PROVE  In(x, t)
    BY <1>1, <1>3, <2>2 DEF In
  <2>. QED
    BY <2>1, <2>2
<1>. QED
  BY <1>1, <1>4, <1>5, <1>6 DEF In, t

-----------------------------------------------------------------------------
(* The events that are left of a superframe. *)

(* The slots whose timer runs or is about to be started. *)
Pending == armed \cup (IF pc = "arm" THEN armidx .. NSlots - 1 ELSE {})

(* How often the slot may still run in this superframe, or has run. *)
One(b) == IF b THEN 1 ELSE 0

Chances(i) ==
  Hits(ran, {i}) + One(In(i, queue)) + One(pc = "judge" /\ ev = i) + One(i \in Pending)

(* A slot has its timer and at most one event of the superframe before: it   *)
(* is in the queue, or the task has just taken it.                           *)
TwiceInv ==
  /\ pc = "arm" => ran = <<>> /\ \A i \in armed : i < armidx
  /\ \A i \in 1 .. NSlots - 1 : Chances(i) <= 2

(* The parts of the type invariant that need a proof of their own.           *)
LEMMA TypeFacts ==
  ASSUME TypeOK
  PROVE  /\ queue \in Seq(Event) /\ Distinct(queue) /\ ran \in Seq(Slot \ {0})
         /\ now \in Int /\ os_epoch \in Int /\ \A i \in Slot : start[i] \in Int
         /\ armed \subseteq Slot /\ ev \in Event /\ armidx \in Slot /\ armidx \in Int
         /\ busy \in Int /\ 0 <= busy /\ busy <= MaxBusy
         /\ Pending \subseteq Slot
         /\ \A i : Hits(ran, {i}) \in Nat
<1>1. Pending \subseteq Slot
  BY TimeAssumption DEF TypeOK, Pending, Slot
<1>2. queue \in Seq(Event) /\ Distinct(queue) /\ ran \in Seq(Slot \ {0})
  BY DEF TypeOK, Distinct, Event
<1>3. \A i : Hits(ran, {i}) \in Nat
  BY <1>2, HitsFacts
<1>4. now \in Int /\ os_epoch \in Int /\ \A i \in Slot : start[i] \in Int
  <2>1. Tick32 \subseteq Int
    BY ConstFacts DEF Tick32
  <2>. QED
    BY <2>1 DEF TypeOK
<1>5. armed \subseteq Slot /\ ev \in Event /\ armidx \in Slot /\ armidx \in Int
  BY ConstFacts DEF TypeOK, Event
<1>6. busy \in Int /\ 0 <= busy /\ busy <= MaxBusy
  BY ConstFacts DEF TypeOK
<1>. QED
  BY <1>1, <1>2, <1>3, <1>4, <1>5, <1>6

(* A time of the clock.                                                      *)
LEMMA LaterType ==
  ASSUME NEW x \in Int, NEW d \in Int
  PROVE  Later(x, d) \in Tick32
BY TimeAssumption DEF Later, Tick32

(* Every step keeps the types.                                               *)
LEMMA TypeNext == TypeOK /\ [Next]_vars => TypeOK'
<1>. SUFFICES ASSUME TypeOK, [Next]_vars
              PROVE  TypeOK'
  OBVIOUS
<1>. USE DEF vars, task
<1>0. /\ queue \in Seq(Event) /\ Distinct(queue) /\ ran \in Seq(Slot \ {0})
      /\ now \in Int /\ os_epoch \in Int
  BY TypeFacts
<1>1. CASE SuperframeCb
  <2>1. queue' \in Seq(Event) /\ Distinct(queue')
    BY <1>0, <1>1, PutFacts DEF SuperframeCb, Event
  <2>2. os_epoch' \in Tick32
    <3>1. PICK d \in 0 .. IrqDelay : os_epoch' = Later(now, -d)
      BY <1>1 DEF SuperframeCb
    <3>2. -d \in Int
      BY <3>1, ConstFacts
    <3>. QED
      BY <1>0, <3>1, <3>2, LaterType
  <2>3. early' \in BOOLEAN /\ steady' \in BOOLEAN
    <3>1. early' = ~CcpExpected /\ steady' = (steady /\ CcpExpected)
      BY <1>1 DEF SuperframeCb
    <3>2. (~CcpExpected) \in BOOLEAN /\ (steady /\ CcpExpected) \in BOOLEAN
      OBVIOUS
    <3>. QED
      BY <3>1, <3>2
  <2>. QED
    BY <1>1, <2>1, <2>2, <2>3 DEF TypeOK, SuperframeCb, Distinct, Event
<1>2. CASE \E i \in Slot : SlotTimerCb(i)
  <2>1. PICK i \in Slot : SlotTimerCb(i)
    BY <1>2
  <2>2. queue' \in Seq(Event) /\ Distinct(queue')
    BY <1>0, <2>1, PutFacts DEF SlotTimerCb, Event
  <2>. QED
    BY <2>1, <2>2 DEF TypeOK, SlotTimerCb, Distinct, Event
<1>3. CASE Get
  <2>1. queue' \in Seq(Event) /\ Distinct(queue') /\ ev' \in Event
    BY <1>0, <1>3, TailFacts DEF Get
  <2>2. busy' \in 0 .. MaxBusy
    BY <1>3, ConstFacts DEF Get
  <2>. QED
    BY <1>3, <2>1, <2>2 DEF TypeOK, Get, Distinct, Event
<1>4. CASE Judge
  <2>1. ran' \in Seq(Slot \ {0})
    <3>1. CASE ran' = <<>>
      BY <3>1
    <3>2. CASE ran' = ran
      BY <1>0, <3>2
    <3>3. CASE ev \in Slot \ {0} /\ ran' = Append(ran, ev)
      BY <1>0, <3>3, AppendProperties
    <3>. QED
      BY <1>4, <3>1, <3>2, <3>3 DEF Judge
  <2>2. armed' \in SUBSET Slot /\ armidx' \in Slot /\ pc' \in {"get", "judge", "run", "arm"}
    <3>1. 0 \in Slot
      BY ConstFacts DEF Slot
    <3>2. armed \in SUBSET Slot /\ armidx \in Slot
      BY DEF TypeOK
    <3>3. armed' \in {armed, {}} /\ armidx' \in {armidx, 0} /\ pc' \in {"get", "run", "arm"}
      BY <1>4 DEF Judge
    <3>. QED
      BY <3>1, <3>2, <3>3
  <2>. QED
    BY <1>4, <2>1, <2>2 DEF TypeOK, Judge
<1>5. CASE Arm
  <2>1. start' \in [Slot -> Tick32]
    <3>1. armidx * SlotTicks - Latency \in Int
      BY ConstFacts, TypeFacts
    <3>2. Later(os_epoch, armidx * SlotTicks - Latency) \in Tick32
      BY <1>0, <3>1, LaterType
    <3>. QED
      BY <1>5, <3>2 DEF Arm, TypeOK
  <2>2. armidx' \in Slot /\ pc' \in {"get", "judge", "run", "arm"} /\ armed' \in SUBSET Slot
    BY <1>5, ConstFacts DEF Arm, TypeOK, Slot
  <2>. QED
    BY <1>5, <2>1, <2>2 DEF TypeOK, Arm
<1>6. CASE RunEnds
  BY <1>6 DEF TypeOK, RunEnds
<1>7. CASE Tick
  <2>1. now' \in Tick32
    BY <1>0, <1>7, LaterType DEF Tick
  <2>2. busy' \in 0 .. MaxBusy
    BY <1>7, ConstFacts DEF Tick, TypeOK
  <2>. QED
    BY <1>7, <2>1, <2>2 DEF TypeOK, Tick
<1>8. CASE UNCHANGED vars
  BY <1>8 DEF TypeOK
<1>. QED
  BY <1>1, <1>2, <1>3, <1>4, <1>5, <1>6, <1>7, <1>8 DEF Next

(* The initial state has the types.                                          *)
LEMMA TypeInit == Init => TypeOK
<1>. SUFFICES ASSUME Init
              PROVE  TypeOK
  OBVIOUS
<1>1. 0 \in Tick32 /\ 0 \in Slot /\ 0 \in 0 .. MaxBusy
  BY ConstFacts DEF Tick32, Slot
<1>2. queue \in Seq(Slot \cup {Superframe}) /\ ran \in Seq(Slot \ {0}) /\ DOMAIN queue = {}
  BY DEF Init
<1>. QED
  BY <1>1, <1>2 DEF Init, TypeOK

(* All variables keep their types, and no event is queued twice.             *)
THEOREM TypeCorrect == Spec => []TypeOK
BY TypeInit, TypeNext, PTL DEF Spec

-----------------------------------------------------------------------------
(* The chances of a slot are numbers.                                        *)
LEMMA ChancesFacts ==
  ASSUME TypeOK, NEW i
  PROVE  /\ Hits(ran, {i}) \in Nat /\ One(In(i, queue)) \in Nat
         /\ One(pc = "judge" /\ ev = i) \in Nat /\ One(i \in Pending) \in Nat
BY TypeFacts DEF One

(* So is their sum, before and after a step.                                 *)
ChancesSane == \A i : Chances(i) \in Int

LEMMA ChancesInt == TypeOK => ChancesSane
BY ChancesFacts DEF Chances, ChancesSane

LEMMA ChancesIntNext == TypeOK' => ChancesSane'
BY ChancesInt, PTL

(* The timer of a slot fires.                                                *)
LEMMA TimerFacts ==
  ASSUME TypeOK, TwiceInv, NEW i \in Slot, SlotTimerCb(i)
  PROVE  /\ i \in Pending /\ i \notin Pending' /\ Pending' = Pending \ {i}
         /\ \A x : In(x, queue') <=> In(x, queue) \/ x = i
<1>1. \A x : In(x, queue') <=> In(x, queue) \/ x = i
  BY PutFacts, TypeFacts DEF SlotTimerCb, Event
<1>2. i \in armed /\ armed' = armed \ {i} /\ UNCHANGED <<pc, armidx>>
  BY DEF SlotTimerCb, task
<1>3. CASE pc = "arm"
  <2>1. i < armidx /\ armidx \in Int
    BY <1>2, <1>3, TypeFacts DEF TwiceInv
  <2>2. i \notin armidx .. NSlots - 1
    BY <2>1, ConstFacts
  <2>. QED
    BY <1>1, <1>2, <1>3, <2>2 DEF Pending
<1>4. CASE pc # "arm"
  BY <1>1, <1>2, <1>4 DEF Pending
<1>. QED
  BY <1>3, <1>4

(* One round of the loop leaves the same slots pending.                      *)
LEMMA ArmFacts ==
  ASSUME TypeOK, TwiceInv, Arm
  PROVE  /\ Pending' = Pending
         /\ \A i \in armed' : i < armidx + 1
         /\ pc' = "arm" => armidx' = armidx + 1
         /\ pc' # "arm" => pc' = "get" /\ armidx + 1 = NSlots
<1>1. /\ pc = "arm" /\ armed' = armed \cup {armidx}
      /\ \/ armidx + 1 < NSlots /\ pc' = "arm" /\ armidx' = armidx + 1
         \/ ~(armidx + 1 < NSlots) /\ pc' = "get"
  BY DEF Arm
<1>2. armidx \in Int /\ 0 <= armidx /\ armidx < NSlots /\ NSlots \in Int
  BY TypeFacts, ConstFacts
<1>3. \A i \in armed : i < armidx /\ i \in Int
  BY <1>1, TypeFacts, ConstFacts DEF TwiceInv
<1>4. \A i \in armed' : i < armidx + 1
  BY <1>1, <1>2, <1>3
<1>5. Pending' = Pending
  <2>1. CASE armidx + 1 < NSlots
    <3>1. armidx .. NSlots - 1 = {armidx} \cup (armidx + 1 .. NSlots - 1)
      BY <1>2, <2>1
    <3>. QED
      BY <1>1, <2>1, <3>1 DEF Pending
  <2>2. CASE ~(armidx + 1 < NSlots)
    <3>1. armidx .. NSlots - 1 = {armidx}
      BY <1>2, <2>2
    <3>. QED
      BY <1>1, <2>2, <3>1 DEF Pending
  <2>. QED
    BY <2>1, <2>2
<1>. QED
  BY <1>1, <1>2, <1>4, <1>5

(* The superframe begins: every slot has its timer, and at most one event.   *)
LEMMA TwiceBegin ==
  ASSUME TypeOK, Judge, ev = Superframe
  PROVE  TwiceInv'
<1>1. pc' = "arm" /\ armed' = {} /\ ran' = <<>> /\ queue' = queue
  BY ConstFacts DEF Judge
<1>2. \A i : Hits(ran', {i}) = 0
  <2>1. <<>> \in Seq(Slot)
    OBVIOUS
  <2>. QED
    BY <1>1, <2>1, HitsFacts
<1>3. \A i \in 1 .. NSlots - 1 : Chances(i)' <= 2
  BY <1>1, <1>2 DEF Chances, One
<1>. QED
  BY <1>1, <1>3 DEF TwiceInv

(* Between two superframes no slot gets another chance.                      *)
LEMMA ChancesNext ==
  ASSUME TypeOK, TypeOK', TwiceInv, [Next]_vars, ~(Judge /\ ev = Superframe)
  PROVE  \A i \in 1 .. NSlots - 1 : Chances(i)' <= Chances(i)
<1>. SUFFICES ASSUME NEW i \in 1 .. NSlots - 1
              PROVE  Chances(i)' <= Chances(i)
  OBVIOUS
<1>0. i \in Slot
  BY ConstFacts DEF Slot
<1>1. /\ Hits(ran, {i}) \in Nat /\ One(In(i, queue)) \in Nat
      /\ One(pc = "judge" /\ ev = i) \in Nat /\ One(i \in Pending) \in Nat
  BY ChancesFacts
<1>2. /\ Hits(ran', {i}) \in Nat /\ One(In(i, queue')) \in Nat
      /\ One(pc' = "judge" /\ ev' = i) \in Nat /\ One((i \in Pending)') \in Nat
  <2>1. ran' \in Seq(Slot \ {0})
    BY DEF TypeOK
  <2>. QED
    BY <2>1, HitsFacts DEF One
<1>3. CASE SuperframeCb \/ Tick \/ RunEnds \/ UNCHANGED vars
  <2>1. /\ UNCHANGED <<armed, armidx, ran, ev>>
        /\ pc' = pc \/ (pc = "run" /\ pc' = "get")
        /\ queue' \in {queue, Put(queue, Superframe)}
    BY <1>3 DEF SuperframeCb, Tick, RunEnds, vars, task
  <2>2. In(i, queue') <=> In(i, queue)
    <3>1. \A x : In(x, Put(queue, Superframe)) <=> In(x, queue) \/ x = Superframe
      BY PutFacts, TypeFacts DEF Event
    <3>. QED
      BY <1>0, <2>1, <3>1, ConstFacts
  <2>3. Pending' = Pending
    BY <2>1 DEF Pending
  <2>4. (pc' = "judge" /\ ev' = i) <=> (pc = "judge" /\ ev = i)
    BY <2>1
  <2>5. Chances(i)' = Chances(i)
    BY <2>1, <2>2, <2>3, <2>4 DEF Chances, One
  <2>. QED
    BY <1>1, <2>5 DEF Chances
<1>4. CASE \E j \in Slot : SlotTimerCb(j)
  <2>1. PICK j \in Slot : SlotTimerCb(j)
    BY <1>4
  <2>2. UNCHANGED <<pc, ev, ran>>
    BY <2>1 DEF SlotTimerCb, task
  <2>3. One(In(i, queue')) + One((i \in Pending)') <= One(In(i, queue)) + One(i \in Pending)
    BY <2>1, TimerFacts DEF One
  <2>4. Hits(ran', {i}) = Hits(ran, {i}) /\ One(pc' = "judge" /\ ev' = i) = One(pc = "judge" /\ ev = i)
    BY <2>2
  <2>. QED
    BY <1>1, <1>2, <2>3, <2>4 DEF Chances
<1>5. CASE Get
  <2>1. /\ UNCHANGED <<armed, armidx, ran>> /\ pc = "get" /\ pc' = "judge" /\ ev' = Head(queue)
        /\ queue # <<>> /\ queue' = Tail(queue)
    BY <1>5 DEF Get
  <2>2. In(ev', queue) /\ \A x : In(x, queue') <=> In(x, queue) /\ x # ev'
    BY <2>1, TailFacts, TypeFacts
  <2>3. Pending' = Pending
    BY <2>1 DEF Pending
  <2>4. One(In(i, queue')) + One(pc' = "judge" /\ ev' = i) <= One(In(i, queue)) + One(pc = "judge" /\ ev = i)
    BY <2>1, <2>2 DEF One
  <2>5. Hits(ran', {i}) = Hits(ran, {i}) /\ One((i \in Pending)') = One(i \in Pending)
    BY <2>1, <2>3
  <2>. QED
    BY <1>1, <1>2, <2>4, <2>5 DEF Chances
<1>6. CASE Judge /\ ev \in Slot
  <2>1. /\ UNCHANGED <<armed, armidx, queue, ev>> /\ pc = "judge" /\ pc' \in {"get", "run"}
        /\ ran' = ran \/ (ev # 0 /\ ran' = Append(ran, ev))
    BY <1>6, ConstFacts DEF Judge
  <2>2. Pending' = Pending
    BY <2>1 DEF Pending
  <2>3. Hits(ran', {i}) + One(pc' = "judge" /\ ev' = i) <= Hits(ran, {i}) + One(pc = "judge" /\ ev = i)
    <3>1. CASE ran' = ran
      BY <1>1, <2>1, <3>1 DEF One
    <3>2. CASE ev # 0 /\ ran' = Append(ran, ev)
      <4>1. ran \in Seq(Slot \ {0}) /\ ev \in Slot \ {0}
        BY <1>6, <3>2, TypeFacts
      <4>2. Hits(Append(ran, ev), {i}) = Hits(ran, {i}) + (IF ev \in {i} THEN 1 ELSE 0)
        BY <4>1, HitsAppend
      <4>. QED
        BY <1>1, <2>1, <3>2, <4>2 DEF One
    <3>. QED
      BY <2>1, <3>1, <3>2
  <2>4. One(In(i, queue')) = One(In(i, queue)) /\ One((i \in Pending)') = One(i \in Pending)
    BY <2>1, <2>2
  <2>. QED
    BY <1>1, <1>2, <2>3, <2>4 DEF Chances
<1>7. CASE Arm
  <2>1. UNCHANGED <<queue, ev, ran>> /\ pc = "arm" /\ pc' # "judge"
    BY <1>7 DEF Arm
  <2>2. Pending' = Pending
    BY <1>7, ArmFacts
  <2>3. Chances(i)' = Chances(i)
    BY <2>1, <2>2 DEF Chances, One
  <2>. QED
    BY <1>1, <2>3 DEF Chances
<1>. QED
  BY <1>3, <1>4, <1>5, <1>6, <1>7 DEF Next, Judge

(* Every step keeps the bound on the chances.                                *)
LEMMA TwiceNext ==
  ASSUME TypeOK, TypeOK', TwiceInv, [Next]_vars
  PROVE  TwiceInv'
<1>1. CASE Judge /\ ev = Superframe
  BY <1>1, TwiceBegin
<1>2. CASE ~(Judge /\ ev = Superframe)
  <2>1. \A i \in 1 .. NSlots - 1 : Chances(i)' <= 2
    <3>1. \A i \in 1 .. NSlots - 1 : Chances(i)' <= Chances(i) /\ Chances(i) <= 2
      BY <1>2, ChancesNext DEF TwiceInv
    <3>. QED
      BY <3>1, ChancesInt, ChancesIntNext DEF ChancesSane
  <2>2. pc' = "arm" => ran' = <<>> /\ \A i \in armed' : i < armidx'
    <3>1. CASE Arm
      BY <3>1, ArmFacts DEF Arm, TwiceInv
    <3>2. CASE ~Arm
      <4>1. pc' = "arm" => pc = "arm" /\ UNCHANGED <<ran, armidx>> /\ armed' \subseteq armed
        BY <1>2, <3>2 DEF Next, SuperframeCb, SlotTimerCb, Get, Judge, RunEnds, Tick, vars, task
      <4>. QED
        BY <4>1 DEF TwiceInv
    <3>. QED
      BY <3>1, <3>2
  <2>. QED
    BY <2>1, <2>2 DEF TwiceInv
<1>. QED
  BY <1>1, <1>2

-----------------------------------------------------------------------------
(* The clock without its wrap. *)

(* How long the events before one of them may keep the task. *)
Load(n) == n * MaxBusy

Busiest == Load(2 * NSlots)

(* How far into the superframe a slot begins. *)
Offset(i) == i * SlotTicks

Full == NSlots * SlotTicks

(* The longest an event waits from the begin of its slot, and the time it    *)
(* takes itself.                                                             *)
Bound == IrqDelay + Latency + 2 * Busiest + MaxBusy

(* Sums of loads.                                                            *)
LEMMA LoadFacts ==
  /\ Busiest \in Int /\ Busiest >= 0 /\ Bound \in Int /\ Full \in Int
  /\ 2 * (Bound + MaxBusy) < Wrap /\ Bound + MaxBusy < Wrap \div 2
  /\ \A n \in 0 .. 2 * NSlots : Load(n) \in Int /\ 0 <= Load(n) /\ Load(n) <= Busiest
  /\ \A n \in 0 .. 2 * NSlots : n > 0 => Load(n - 1) = Load(n) - MaxBusy
  /\ \A m, n \in 0 .. 2 * NSlots : m <= n => Load(m) <= Load(n)
<1>0. NSlots \in Int /\ NSlots > 0 /\ MaxBusy \in Int /\ MaxBusy >= 0
  BY ConstFacts
<1>1. \A n \in Nat : Load(n) \in Int /\ 0 <= Load(n)
  BY <1>0 DEF Load
<1>2. \A m, n \in Nat : m <= n => Load(m) <= Load(n)
  <2>. SUFFICES ASSUME NEW m \in Nat, NEW n \in Nat, m <= n
                PROVE  Load(m) <= Load(n)
    OBVIOUS
  <2>1. n - m \in Nat /\ (n - m) * MaxBusy \in Int /\ (n - m) * MaxBusy >= 0
    BY <1>0
  <2>2. (n - m) * MaxBusy = n * MaxBusy - m * MaxBusy /\ n * MaxBusy \in Int /\ m * MaxBusy \in Int
    BY <1>0, Distributive
  <2>. QED
    BY <2>1, <2>2 DEF Load
<1>3. \A n \in Nat : n > 0 => Load(n - 1) = Load(n) - MaxBusy
  <2>. SUFFICES ASSUME NEW n \in Nat, n > 0
                PROVE  Load(n - 1) = Load(n) - MaxBusy
    OBVIOUS
  <2>1. (n - 1) * MaxBusy = n * MaxBusy - 1 * MaxBusy
    BY <1>0, Distributive
  <2>. QED
    BY <1>0, <2>1 DEF Load
<1>4. 2 * NSlots \in Nat /\ 0 .. 2 * NSlots \subseteq Nat /\ \A n \in 0 .. 2 * NSlots : n <= 2 * NSlots
  BY <1>0
<1>5. Busiest \in Int /\ Busiest >= 0 /\ Bound \in Int /\ Full \in Int
  <2>1. Busiest \in Int /\ Busiest >= 0
    BY <1>1, <1>4 DEF Busiest
  <2>2. Full \in Int
    BY ConstFacts DEF Full
  <2>. QED
    BY <2>1, <2>2, ConstFacts DEF Bound
<1>6. 2 * (Bound + MaxBusy) < Wrap /\ Bound + MaxBusy < Wrap \div 2
  <2>. DEFINE p == 2 * NSlots
  <2>1. (p + 1) * MaxBusy = p * MaxBusy + 1 * MaxBusy /\ p \in Int
    BY <1>0, Distributive
  <2>2. (2 * NSlots + 1) * MaxBusy = Busiest + MaxBusy
    BY <1>0, <2>1 DEF Busiest, Load
  <2>3. IrqDelay + Latency + 2 * (Busiest + MaxBusy) < Wrap \div 2
    BY <2>2, MarginAssumption
  <2>4. Wrap \div 2 \in Int /\ 2 * (Wrap \div 2) <= Wrap
    BY ConstFacts
  <2>. QED
    BY <1>5, <2>3, <2>4, ConstFacts DEF Bound
<1>7. \A n \in 0 .. 2 * NSlots : Load(n) <= Busiest
  BY <1>2, <1>4 DEF Busiest
<1>8. \A n \in 0 .. 2 * NSlots : Load(n) \in Int /\ 0 <= Load(n)
  BY <1>1, <1>4
<1>. QED
  BY <1>2, <1>3, <1>4, <1>5, <1>6, <1>7, <1>8

(* The slots begin one after the other, within a superframe.                 *)
LEMMA OffsetFacts ==
  /\ \A i \in Slot : Offset(i) \in Int /\ 0 <= Offset(i) /\ Offset(i) <= Full
  /\ \A i, j \in Slot : i < j => Offset(i) + SlotTicks <= Offset(j)
<1>0. NSlots \in Int /\ SlotTicks \in Int /\ SlotTicks >= 0 /\ \A i \in Slot : i \in Int /\ 0 <= i /\ i < NSlots
  BY ConstFacts
<1>1. ASSUME NEW i \in Int, NEW j \in Int, 0 <= i, i < j
      PROVE  /\ i * SlotTicks \in Int /\ 0 <= i * SlotTicks /\ j * SlotTicks \in Int
             /\ i * SlotTicks + SlotTicks <= j * SlotTicks
  <2>1. (j - i) * SlotTicks = j * SlotTicks - i * SlotTicks /\ j * SlotTicks \in Int /\ i * SlotTicks \in Int
    BY <1>0, Distributive
  <2>2. j - i - 1 \in Nat
    BY <1>1
  <2>3. (j - i - 1) * SlotTicks >= 0
    BY <1>0, <2>2
  <2>4. ((j - i) - 1) * SlotTicks = (j - i) * SlotTicks - 1 * SlotTicks
    BY <1>0, <1>1, Distributive
  <2>5. 0 <= i * SlotTicks
    BY <1>0, <1>1
  <2>. QED
    BY <1>0, <2>1, <2>3, <2>4, <2>5
<1>2. \A i \in Slot : i * SlotTicks \in Int /\ 0 <= i * SlotTicks /\ i * SlotTicks <= NSlots * SlotTicks
  BY <1>0, <1>1
<1>3. \A i, j \in Slot : i < j => i * SlotTicks + SlotTicks <= j * SlotTicks
  BY <1>0, <1>1
<1>. QED
  BY <1>2, <1>3 DEF Offset, Full

(* A difference of two times of the clock, as far as the clock can tell it.  *)
LEMMA ClockFacts ==
  ASSUME NEW x \in Int, NEW y \in Int
  PROVE  /\ ((x % Wrap) - (y % Wrap)) % Wrap = (x - y) % Wrap
         /\ ((x % Wrap) + y) % Wrap = (x + y) % Wrap
         /\ 0 <= x - y /\ x - y < Wrap => (x - y) % Wrap = x - y
         /\ 0 <= y - x - 1 /\ y - x <= Wrap => (x - y) % Wrap = x - y + Wrap
<1>0. Wrap \in Int /\ Wrap > 0
  BY ConstFacts
<1>1. ((x % Wrap) + y) % Wrap = (x + y) % Wrap
  BY <1>0, ReducedSum
<1>2. PICK p \in Int, u \in Int : x = p * Wrap + u /\ 0 <= u /\ u < Wrap /\ x % Wrap = u
  BY <1>0, Division
<1>3. PICK q \in Int, v \in Int : y = q * Wrap + v /\ 0 <= v /\ v < Wrap /\ y % Wrap = v
  BY <1>0, Division
<1>4. (u - v) % Wrap = (x - y) % Wrap
  <2>1. (p - q) * Wrap = p * Wrap - q * Wrap /\ p * Wrap \in Int /\ q * Wrap \in Int
    BY <1>0, Distributive
  <2>2. x - y = (u - v) + (p - q) * Wrap
    BY <1>2, <1>3, <2>1
  <2>. DEFINE a == x - y
              b == u - v
              k == p - q
  <2>3. a \in Int /\ b \in Int /\ k \in Int /\ a = b + k * Wrap
    BY <2>2
  <2>. HIDE DEF a, b, k
  <2>4. a % Wrap = b % Wrap
    BY <1>0, <2>3, Congruent
  <2>. QED
    BY <2>4 DEF a, b
<1>5. ASSUME 0 <= x - y, x - y < Wrap
      PROVE  (x - y) % Wrap = x - y
  <2>1. x - y = 0 * Wrap + (x - y)
    BY <1>0
  <2>. QED
    BY <1>0, <1>5, <2>1, Remainder
<1>6. ASSUME 0 <= y - x - 1, y - x <= Wrap
      PROVE  (x - y) % Wrap = x - y + Wrap
  <2>1. x - y = (-1) * Wrap + (x - y + Wrap)
    BY <1>0
  <2>2. 0 <= x - y + Wrap /\ x - y + Wrap < Wrap /\ x - y + Wrap \in Int
    BY <1>0, <1>6
  <2>. QED
    BY <1>0, <2>1, <2>2, Remainder
<1>. QED
  BY <1>1, <1>2, <1>3, <1>4, <1>5, <1>6

-----------------------------------------------------------------------------
(* The times behind the clock: t of now, e of os_epoch, s of the slots.      *)

Waiting == {i \in Slot : In(i, queue)}

(* The events of slots that are still to come. *)
Out == Cardinality(Pending) + Cardinality(Waiting)

(* The begin of the slot is that of this superframe. *)
Set(i) == pc = "arm" => i < armidx

Live(i) == i \in armed \/ In(i, queue) \/ (pc = "judge" /\ ev = i)

Handling == pc = "arm" \/ (pc = "judge" /\ ev = Superframe)

(* The clock shows these times. *)
Shown(t, e, s) ==
  /\ now = t % Wrap /\ os_epoch = e % Wrap
  /\ \A i \in Slot : start[i] = s[i] % Wrap
  /\ e <= t

(* The slots begin in their order, also while their timers are started.      *)
Spaced(e, s) ==
  /\ \A i, j \in Slot : i < j /\ Set(j) => s[i] + SlotTicks <= s[j]
  /\ pc = "arm" => \A i \in Slot : i < armidx => s[i] <= e + Offset(i) - Latency

(* A slot that has run has begun.                                            *)
Begun(t, s) == \A k \in DOMAIN ran : s[ran[k]] <= t

(* The epoch of a superframe that waits, or is handled, is not long ago.     *)
EpochFresh(t, e) ==
  /\ In(Superframe, queue) =>
       t - e <= IrqDelay + busy + (IF Handling THEN 0 ELSE Busiest - Load(Out))
  /\ Handling => t - e <= IrqDelay + Busiest + MaxBusy + busy

(* Neither is the begin of a slot that may still be judged.                  *)
BeginFresh(t, s) ==
  ~(pc = "judge" /\ ev = Superframe) =>
    \A i \in Slot : Live(i) /\ Set(i) =>
      s[i] <= t + Full /\ t - s[i] <= Bound - Load(Out) + busy

Times(t, e, s) ==
  Shown(t, e, s) /\ Spaced(e, s) /\ Begun(t, s) /\ EpochFresh(t, e) /\ BeginFresh(t, s)

TimeInv == \E t, e \in Int : \E s \in [Slot -> Int] : Times(t, e, s)

IInv == TypeOK /\ TwiceInv /\ TimeInv

OutSane ==
  /\ IsFiniteSet(Pending) /\ IsFiniteSet(Waiting)
  /\ Cardinality(Pending) \in Nat /\ Cardinality(Waiting) \in Nat
  /\ Out \in 0 .. 2 * NSlots
  /\ Load(Out) \in Int /\ 0 <= Load(Out) /\ Load(Out) <= Busiest

(* There are at most two events of each slot.                                *)
LEMMA OutFacts == TypeOK => OutSane
<1>. SUFFICES ASSUME TypeOK
              PROVE  OutSane
  OBVIOUS
<1>1. IsFiniteSet(Slot) /\ Cardinality(Slot) = NSlots
  <2>1. 0 \in Int /\ NSlots - 1 \in Int /\ ~(0 > NSlots - 1)
    BY ConstFacts
  <2>. QED
    BY <2>1, ConstFacts, FS_Interval DEF Slot
<1>2. Pending \in SUBSET Slot /\ Waiting \in SUBSET Slot
  BY TypeFacts DEF Waiting
<1>3. IsFiniteSet(Pending) /\ Cardinality(Pending) <= NSlots
  BY ONLY <1>1, <1>2, FS_Subset
<1>4. IsFiniteSet(Waiting) /\ Cardinality(Waiting) <= NSlots
  BY ONLY <1>1, <1>2, FS_Subset
<1>5. Cardinality(Pending) \in Nat /\ Cardinality(Waiting) \in Nat
  BY <1>3, <1>4, FS_CardinalityType
<1>6. Out \in 0 .. 2 * NSlots
  BY <1>3, <1>4, <1>5, ConstFacts DEF Out
<1>. QED
  BY <1>3, <1>4, <1>5, <1>6, LoadFacts DEF OutSane

(* The same after a step.                                                    *)
LEMMA OutFactsNext == TypeOK' => OutSane'
BY OutFacts, PTL

(* Events that do not become more do not become more load.                   *)
LEMMA OutLess ==
  ASSUME TypeOK, TypeOK', Out' <= Out
  PROVE  Load(Out)' <= Load(Out)
<1>1. Out \in 0 .. 2 * NSlots
  BY OutFacts DEF OutSane
<1>2. Out' \in 0 .. 2 * NSlots
  BY OutFactsNext DEF OutSane
<1>3. \A m, n \in 0 .. 2 * NSlots : m <= n => Load(m) <= Load(n)
  BY LoadFacts
<1>4. Load(Out)' = Load(Out')
  BY DEF Load
<1>. QED
  BY <1>1, <1>2, <1>3, <1>4

-----------------------------------------------------------------------------
(* Every step keeps the times. *)

(* A packet sets an epoch that lies a little before it.                      *)
LEMMA CallbackTimes ==
  ASSUME TypeOK, TypeOK', NEW t \in Int, NEW e \in Int, NEW s \in [Slot -> Int], Times(t, e, s),
         SuperframeCb
  PROVE  \E x \in Int : Times(t, x, s)' /\ t - x <= IrqDelay
<1>1. PICK d \in 0 .. IrqDelay : os_epoch' = Later(now, -d)
  BY DEF SuperframeCb
<1>2. d \in Int /\ 0 <= d /\ d <= IrqDelay
  BY <1>1, ConstFacts
<1>. DEFINE x == t - d
<1>3. /\ UNCHANGED <<now, start, armed, pc, ev, armidx, busy, ran>>
      /\ \A y : In(y, queue') <=> In(y, queue) \/ y = Superframe
  <2>1. queue' = Put(queue, Superframe) /\ Superframe \in Event
    BY DEF SuperframeCb, Event
  <2>2. queue \in Seq(Event) /\ Distinct(queue)
    BY TypeFacts
  <2>3. \A y : In(y, Put(queue, Superframe)) <=> In(y, queue) \/ y = Superframe
    BY <2>1, <2>2, PutFacts
  <2>4. UNCHANGED <<now, start, armed, pc, ev, armidx, busy, ran>>
    BY DEF SuperframeCb, task
  <2>. QED
    BY <2>1, <2>3, <2>4
<1>4. Waiting' = Waiting /\ Pending' = Pending
  BY <1>3, ConstFacts DEF Waiting, Pending
<1>5. Out' = Out /\ Load(Out)' = Load(Out)
  BY <1>4 DEF Out, Load
<1>6. x \in Int /\ x <= t /\ t - x = d /\ os_epoch' = x % Wrap
  <2>1. os_epoch' = ((t % Wrap) + (-d)) % Wrap
    BY <1>1 DEF Times, Shown, Later
  <2>2. ((t % Wrap) + (-d)) % Wrap = (t + (-d)) % Wrap
    BY <1>2, ClockFacts
  <2>. QED
    BY <1>2, <2>1, <2>2
<1>7. Shown(t, x, s)'
  BY <1>3, <1>6 DEF Times, Shown
<1>8. pc = "arm" => e <= x
  <2>. SUFFICES ASSUME pc = "arm"
                PROVE  e <= x
    OBVIOUS
  <2>1. 0 <= t - e /\ t - e <= IrqDelay + Busiest + MaxBusy + busy
    BY DEF Times, Shown, EpochFresh, Handling
  <2>2. t - e < Wrap
    <3>1. 2 * (Bound + MaxBusy) < Wrap /\ Busiest \in Int /\ Busiest >= 0
      BY LoadFacts
    <3>2. /\ IrqDelay \in Int /\ IrqDelay >= 0 /\ Latency \in Int /\ Latency >= 0
          /\ MaxBusy \in Int /\ MaxBusy >= 0 /\ Wrap \in Int
          /\ busy \in Int /\ busy <= MaxBusy
      BY ConstFacts, TypeFacts
    <3>. QED
      BY <2>1, <3>1, <3>2 DEF Bound
  <2>3. (now - os_epoch) % Wrap = t - e
    BY <2>1, <2>2, ClockFacts DEF Times, Shown
  <2>4. (now - os_epoch) % Wrap >= Full - IrqDelay \/ (now - os_epoch) % Wrap > IrqDelay
    BY DEF SuperframeCb, CcpExpected, Idle, Full
  <2>5. 2 * IrqDelay <= Full
    BY MarginAssumption DEF Full
  <2>. QED
    BY <1>2, <1>6, <2>3, <2>4, <2>5, ConstFacts, LoadFacts
<1>9. Spaced(x, s)'
  <2>1. \A i, j \in Slot : i < j /\ Set(j)' => s[i] + SlotTicks <= s[j]
    BY <1>3 DEF Times, Spaced, Set
  <2>2. ASSUME pc = "arm", NEW i \in Slot, i < armidx
        PROVE  s[i] <= x + Offset(i) - Latency
    <3>1. s[i] <= e + Offset(i) - Latency /\ e <= x /\ s[i] \in Int
      BY <1>8, <2>2 DEF Times, Spaced
    <3>. QED
      BY <1>6, <3>1, OffsetFacts, ConstFacts
  <2>. QED
    BY <1>3, <2>1, <2>2 DEF Spaced, Set
<1>10. EpochFresh(t, x)'
  <2>1. t - x <= IrqDelay /\ busy \in Int /\ busy >= 0
    BY <1>2, <1>6, TypeFacts
  <2>2. Load(Out) \in Int /\ 0 <= Load(Out) /\ Load(Out) <= Busiest /\ Busiest \in Int
    BY OutFacts, LoadFacts DEF OutSane
  <2>. QED
    BY <1>3, <1>5, <1>6, <2>1, <2>2, ConstFacts DEF EpochFresh, Handling
<1>11. Begun(t, s)'
  BY <1>3 DEF Times, Begun
<1>12. BeginFresh(t, s)'
  <2>1. \A i \in Slot : Live(i)' <=> Live(i)
    BY <1>3, ConstFacts DEF Live
  <2>. QED
    BY <1>3, <1>5, <2>1 DEF Times, BeginFresh, Set
<1>. HIDE DEF x
<1>. QED
  BY <1>2, <1>6, <1>7, <1>9, <1>10, <1>11, <1>12 DEF Times

(* A step that changes neither times nor what is left of the superframe.     *)
LEMMA SameTimes ==
  ASSUME NEW t \in Int, NEW e \in Int, NEW s \in [Slot -> Int], Times(t, e, s),
         UNCHANGED <<now, os_epoch, start, armed, queue, ev, armidx, busy, ran>>,
         pc' = pc \/ (pc = "run" /\ pc' = "get")
  PROVE  Times(t, e, s)'
<1>1. Waiting' = Waiting /\ Pending' = Pending
  BY DEF Waiting, Pending
<1>2. Out' = Out /\ Load(Out)' = Load(Out)
  BY <1>1 DEF Out, Load
<1>3. Shown(t, e, s)' /\ Spaced(e, s)' /\ Begun(t, s)'
  BY DEF Times, Shown, Spaced, Begun, Set
<1>4. EpochFresh(t, e)' /\ BeginFresh(t, s)'
  BY <1>2 DEF Times, EpochFresh, BeginFresh, Handling, Live, Set
<1>. QED
  BY <1>3, <1>4 DEF Times

(* A timer fires: an event takes its place.                                  *)
LEMMA TimerTimes ==
  ASSUME TypeOK, TypeOK', TwiceInv,
         NEW t \in Int, NEW e \in Int, NEW s \in [Slot -> Int], Times(t, e, s),
         NEW i \in Slot, SlotTimerCb(i)
  PROVE  Times(t, e, s)'
<1>1. /\ UNCHANGED <<now, os_epoch, start, pc, ev, armidx, busy, ran>>
      /\ i \in armed /\ armed' = armed \ {i}
  BY DEF SlotTimerCb, task
<1>2. /\ i \in Pending /\ Pending' = Pending \ {i}
      /\ \A x : In(x, queue') <=> In(x, queue) \/ x = i
  BY TimerFacts
<1>3. Waiting' = Waiting \cup {i}
  BY <1>2 DEF Waiting
<1>4. Out' <= Out
  <2>1. IsFiniteSet(Pending) /\ IsFiniteSet(Waiting) /\ Cardinality(Pending) \in Nat /\ Cardinality(Waiting) \in Nat
    BY OutFacts DEF OutSane
  <2>2. Cardinality(Pending \ {i}) = Cardinality(Pending) - 1
    BY <1>2, <2>1, FS_RemoveElement
  <2>3. Cardinality(Waiting \cup {i}) <= Cardinality(Waiting) + 1
    <3>1. Cardinality(Waiting \cup {i}) = IF i \in Waiting THEN Cardinality(Waiting) ELSE Cardinality(Waiting) + 1
      BY <2>1, FS_AddElement
    <3>. QED
      BY <2>1, <3>1
  <2>4. Cardinality(Waiting \cup {i}) \in Nat /\ Cardinality(Pending \ {i}) \in Nat
    BY <1>2, <1>3, OutFactsNext DEF OutSane
  <2>. QED
    BY <1>2, <1>3, <2>1, <2>2, <2>3, <2>4 DEF Out
<1>5. /\ Load(Out)' <= Load(Out) /\ Load(Out)' \in Int /\ Load(Out) \in Int /\ 0 <= Load(Out)'
  BY <1>4, OutLess, OutFacts, OutFactsNext DEF OutSane
<1>6. Shown(t, e, s)' /\ Spaced(e, s)' /\ Begun(t, s)'
  BY <1>1 DEF Times, Shown, Spaced, Begun, Set
<1>7. EpochFresh(t, e)'
  <2>1. In(Superframe, queue') <=> In(Superframe, queue)
    BY <1>2, ConstFacts
  <2>2. Busiest \in Int /\ busy \in Int /\ IrqDelay \in Int
    BY LoadFacts, TypeFacts, ConstFacts
  <2>3. Handling' <=> Handling
    BY <1>1 DEF Handling
  <2>4. EpochFresh(t, e)
    BY DEF Times
  <2>. QED
    BY <1>1, <1>5, <2>1, <2>2, <2>3, <2>4 DEF EpochFresh
<1>8. BeginFresh(t, s)'
  <2>1. \A j \in Slot : Live(j)' => Live(j)
    BY <1>1, <1>2 DEF Live
  <2>2. \A j \in Slot : Set(j)' <=> Set(j)
    BY <1>1 DEF Set
  <2>. SUFFICES ASSUME ~(pc = "judge" /\ ev = Superframe), NEW j \in Slot, Live(j)', Set(j)'
                PROVE  s[j] <= t + Full /\ t - s[j] <= Bound - Load(Out)' + busy
    BY <1>1 DEF BeginFresh
  <2>3. s[j] <= t + Full /\ t - s[j] <= Bound - Load(Out) + busy /\ s[j] \in Int
    BY <2>1, <2>2 DEF Times, BeginFresh
  <2>4. Bound \in Int /\ busy \in Int
    BY LoadFacts, TypeFacts
  <2>. QED
    BY <1>5, <2>3, <2>4
<1>. QED
  BY <1>6, <1>7, <1>8 DEF Times

(* The event of a slot is taken: there is one less to wait for.              *)
LEMMA GetLoad ==
  ASSUME TypeOK, TypeOK', Get, ev' \in Slot
  PROVE  Load(Out)' = Load(Out) - MaxBusy
<1>1. UNCHANGED <<armed, armidx>> /\ pc = "get" /\ pc' = "judge" /\ ev' = Head(queue)
      /\ queue # <<>> /\ queue' = Tail(queue)
  BY DEF Get
<1>2. In(ev', queue) /\ \A x : In(x, queue') <=> In(x, queue) /\ x # ev'
  BY <1>1, TailFacts, TypeFacts
<1>3. Pending' = Pending /\ Waiting' = Waiting \ {ev'} /\ ev' \in Waiting
  BY <1>1, <1>2 DEF Pending, Waiting
<1>4. /\ Out \in 0 .. 2 * NSlots /\ Out' \in 0 .. 2 * NSlots
      /\ IsFiniteSet(Waiting) /\ Cardinality(Waiting) \in Nat /\ Cardinality(Pending) \in Nat
  BY OutFacts, OutFactsNext DEF OutSane
<1>5. Cardinality(Waiting \ {ev'}) = Cardinality(Waiting) - 1
  BY <1>3, <1>4, FS_RemoveElement
<1>6. Out' = Out - 1 /\ Out > 0
  BY <1>3, <1>4, <1>5 DEF Out
<1>7. Load(Out - 1) = Load(Out) - MaxBusy
  BY <1>4, <1>6, LoadFacts
<1>. QED
  BY <1>6, <1>7 DEF Load

(* The task takes an event: the time of the next one begins.                 *)
LEMMA GetTimes ==
  ASSUME TypeOK, TypeOK',
         NEW t \in Int, NEW e \in Int, NEW s \in [Slot -> Int], Times(t, e, s), Get
  PROVE  Times(t, e, s)'
<1>1. /\ UNCHANGED <<now, os_epoch, start, armed, armidx, ran>>
      /\ pc = "get" /\ pc' = "judge" /\ ev' = Head(queue) /\ busy' = 0
      /\ queue # <<>> /\ queue' = Tail(queue)
  BY DEF Get
<1>2. /\ In(ev', queue) /\ ev' \in Event
      /\ \A x : In(x, queue') <=> In(x, queue) /\ x # ev'
  BY <1>1, TailFacts, TypeFacts
<1>3. Pending' = Pending /\ Waiting' = Waiting \ {ev'}
  BY <1>1, <1>2 DEF Pending, Waiting
<1>4. /\ busy \in Int /\ busy <= MaxBusy /\ MaxBusy \in Int /\ IrqDelay \in Int
      /\ Busiest \in Int /\ Bound \in Int
  BY TypeFacts, ConstFacts, LoadFacts
<1>5. /\ Load(Out) \in Int /\ Load(Out)' \in Int /\ 0 <= Load(Out)
      /\ Out \in 0 .. 2 * NSlots /\ Out' \in 0 .. 2 * NSlots
      /\ IsFiniteSet(Waiting) /\ Cardinality(Waiting) \in Nat /\ Cardinality(Pending) \in Nat
  BY OutFacts, OutFactsNext DEF OutSane
<1>6. Shown(t, e, s)' /\ Spaced(e, s)' /\ Begun(t, s)'
  BY <1>1 DEF Times, Shown, Spaced, Begun, Set
<1>7. EpochFresh(t, e) /\ BeginFresh(t, s) /\ ~Handling
  BY <1>1 DEF Times, Handling
<1>8. CASE ev' = Superframe
  <2>1. EpochFresh(t, e)'
    <3>1. t - e <= IrqDelay + busy + (Busiest - Load(Out))
      BY <1>2, <1>7, <1>8 DEF EpochFresh
    <3>2. ~In(Superframe, queue')
      BY <1>2, <1>8
    <3>3. t - e <= IrqDelay + Busiest + MaxBusy + busy'
      <4>. DEFINE load == Load(Out)
      <4>1. load \in Int /\ 0 <= load /\ t - e <= IrqDelay + busy + (Busiest - load)
        BY <1>5, <3>1
      <4>2. t - e <= IrqDelay + Busiest + MaxBusy
        <5>. HIDE DEF load
        <5>. QED
          BY <1>4, <4>1
      <4>. QED
        BY <1>1, <1>4, <4>2
    <3>. QED
      BY <3>2, <3>3 DEF EpochFresh
  <2>2. BeginFresh(t, s)'
    BY <1>1, <1>8 DEF BeginFresh
  <2>. QED
    BY <1>6, <2>1, <2>2 DEF Times
<1>9. CASE ev' \in Slot
  <2>1. Load(Out)' = Load(Out) - MaxBusy
    BY <1>9, GetLoad
  <2>2. ~Handling' /\ ev' # Superframe
    BY <1>1, <1>9, ConstFacts DEF Handling
  <2>3. EpochFresh(t, e)'
    <3>1. In(Superframe, queue') => t - e <= IrqDelay + busy + (Busiest - Load(Out))
      BY <1>2, <1>7 DEF EpochFresh
    <3>2. In(Superframe, queue') => t - e <= IrqDelay + 0 + (Busiest - Load(Out)')
      BY <1>4, <1>5, <2>1, <3>1
    <3>. QED
      BY <1>1, <2>2, <3>2 DEF EpochFresh
  <2>4. BeginFresh(t, s)'
    <3>. SUFFICES ASSUME NEW i \in Slot, Live(i)'
                  PROVE  s[i] <= t + Full /\ t - s[i] <= Bound - Load(Out)' + 0
      BY <1>1 DEF BeginFresh
    <3>1. Live(i) /\ Set(i)
      BY <1>1, <1>2 DEF Live, Set
    <3>2. s[i] <= t + Full /\ t - s[i] <= Bound - Load(Out) + busy /\ s[i] \in Int
      BY <1>1, <1>7, <3>1 DEF BeginFresh
    <3>. QED
      BY <1>4, <1>5, <2>1, <3>2
  <2>. QED
    BY <1>6, <2>3, <2>4 DEF Times
<1>. QED
  BY <1>2, <1>8, <1>9 DEF Event

(* A slot that the task judges has begun when it is not too late, and not    *)
(* longer ago than MaxDelay: the clock does not deceive it.                  *)
LEMMA JudgedInTime ==
  ASSUME TypeOK, NEW t \in Int, NEW e \in Int, NEW s \in [Slot -> Int], Times(t, e, s),
         pc = "judge", ev \in Slot, ev # 0, ~TooLate(ev)
  PROVE  0 <= t - s[ev] /\ t - s[ev] <= MaxDelay
<1>1. s[ev] \in Int /\ ev # Superframe
  BY ConstFacts
<1>2. s[ev] <= t + Full /\ t - s[ev] <= Bound - Load(Out) + busy
  BY <1>1 DEF Times, BeginFresh, Live, Set
<1>3. t - s[ev] < Wrap /\ 2 * Full <= Wrap /\ Full \in Int /\ Wrap \in Int /\ Wrap > 0
  <2>1. Load(Out) \in Int /\ 0 <= Load(Out)
    BY OutFacts DEF OutSane
  <2>2. busy \in Int /\ busy <= MaxBusy /\ 0 <= busy /\ MaxBusy \in Int /\ Bound \in Int
        /\ 2 * (Bound + MaxBusy) < Wrap /\ Wrap \in Int /\ Wrap > 0
    BY TypeFacts, LoadFacts, ConstFacts
  <2>3. 2 * Full <= Wrap /\ Full \in Int
    BY MarginAssumption, LoadFacts DEF Full
  <2>. QED
    BY <1>1, <1>2, <2>1, <2>2, <2>3
<1>4. (now - start[ev]) % Wrap = (t - s[ev]) % Wrap
  BY <1>1, ClockFacts DEF Times, Shown
<1>5. (t - s[ev]) % Wrap <= MaxDelay
  <2>1. (t - s[ev]) % Wrap \in Int /\ MaxDelay \in Int
    BY <1>1, <1>3, ConstFacts
  <2>. QED
    BY <1>4, <2>1 DEF TooLate
<1>6. CASE t - s[ev] < 0
  <2>1. (t - s[ev]) % Wrap = t - s[ev] + Wrap
    <3>1. 0 <= s[ev] - t - 1 /\ s[ev] - t <= Wrap
      BY <1>1, <1>2, <1>3, <1>6
    <3>. QED
      BY <1>1, <3>1, ClockFacts
  <2>2. MaxDelay < Full
    <3>1. 1 * SlotTicks <= Full
      <4>1. 0 \in Slot /\ Offset(0) + SlotTicks <= Full
        BY ConstFacts DEF Slot, Offset, Full
      <4>. QED
        BY <4>1, ConstFacts DEF Offset
    <3>. QED
      BY <1>3, <3>1, ConstFacts, MarginAssumption
  <2>. QED
    BY <1>1, <1>2, <1>3, <1>5, <2>1, <2>2, ConstFacts
<1>7. CASE 0 <= t - s[ev]
  <2>1. (t - s[ev]) % Wrap = t - s[ev]
    BY <1>1, <1>3, <1>7, ClockFacts
  <2>. QED
    BY <1>5, <1>7, <2>1
<1>. QED
  BY <1>1, <1>6, <1>7

(* The task drops the event, runs the slot, or begins with the superframe.   *)
LEMMA JudgeTimes ==
  ASSUME TypeOK, TypeOK',
         NEW t \in Int, NEW e \in Int, NEW s \in [Slot -> Int], Times(t, e, s), Judge
  PROVE  Times(t, e, s)'
<1>1. UNCHANGED <<now, os_epoch, start, queue, ev, busy>> /\ pc = "judge"
  BY DEF Judge
<1>2. CASE ev = Superframe
  <2>1. pc' = "arm" /\ armidx' = 0 /\ ran' = <<>>
    BY <1>2, ConstFacts DEF Judge
  <2>2. Handling /\ Handling'
    BY <1>1, <1>2, <2>1 DEF Handling
  <2>3. \A i \in Slot : ~Set(i)' /\ ~(i < armidx')
    BY <2>1, ConstFacts DEF Set
  <2>4. Shown(t, e, s)' /\ Spaced(e, s)' /\ Begun(t, s)'
    BY <1>1, <2>1, <2>3 DEF Times, Shown, Spaced, Begun
  <2>5. EpochFresh(t, e)' /\ BeginFresh(t, s)'
    BY <1>1, <2>2, <2>3 DEF Times, EpochFresh, BeginFresh
  <2>. QED
    BY <2>4, <2>5 DEF Times
<1>3. CASE ev \in Slot
  <2>1. /\ UNCHANGED <<armed, armidx>> /\ pc' \in {"get", "run"} /\ ev # Superframe
        /\ \/ ran' = ran
           \/ ev # 0 /\ ~TooLate(ev) /\ ran' = Append(ran, ev)
    BY <1>3, ConstFacts DEF Judge
  <2>2. ~Handling /\ ~Handling' /\ Pending' = Pending /\ Waiting' = Waiting
    BY <1>1, <2>1 DEF Handling, Pending, Waiting
  <2>3. Out' = Out /\ Load(Out)' = Load(Out)
    BY <2>2 DEF Out, Load
  <2>4. Shown(t, e, s)' /\ Spaced(e, s)' /\ EpochFresh(t, e)'
    BY <1>1, <2>1, <2>2, <2>3 DEF Times, Shown, Spaced, EpochFresh, Set
  <2>5. BeginFresh(t, s)'
    <3>1. \A i \in Slot : Live(i)' => Live(i)
      BY <1>1, <2>1 DEF Live
    <3>2. \A i \in Slot : Set(i)
      BY <1>1 DEF Set
    <3>. QED
      BY <1>1, <2>1, <2>3, <3>1, <3>2 DEF Times, BeginFresh
  <2>6. Begun(t, s)'
    <3>1. CASE ran' = ran
      BY <3>1 DEF Times, Begun
    <3>2. CASE ev # 0 /\ ~TooLate(ev) /\ ran' = Append(ran, ev)
      <4>1. s[ev] <= t
        <5>1. 0 <= t - s[ev] /\ s[ev] \in Int
          BY <1>1, <1>3, <3>2, JudgedInTime
        <5>. QED
          BY <5>1
      <4>2. \A k \in DOMAIN ran' : (k \in DOMAIN ran /\ ran'[k] = ran[k]) \/ ran'[k] = ev
        <5>1. ran \in Seq(Slot \ {0})
          BY TypeFacts
        <5>. QED
          BY <3>2, <5>1
      <4>. QED
        BY <4>1, <4>2 DEF Times, Begun
    <3>. QED
      BY <2>1, <3>1, <3>2
  <2>. QED
    BY <2>4, <2>5, <2>6 DEF Times
<1>. QED
  BY <1>2, <1>3, TypeFacts DEF Event

(* A timer is started: its slot begins after those before it.                *)
LEMMA ArmTimes ==
  ASSUME TypeOK, TypeOK', TwiceInv,
         NEW t \in Int, NEW e \in Int, NEW s \in [Slot -> Int], Times(t, e, s), Arm
  PROVE  \E x \in [Slot -> Int] :
           /\ Times(t, e, x)'
           /\ x[armidx] = e + Offset(armidx) - Latency
           /\ \A i \in Slot : i # armidx => x[i] = s[i]
<1>1. /\ UNCHANGED <<now, os_epoch, queue, ev, busy, ran>> /\ pc = "arm"
      /\ start' = [start EXCEPT ![armidx] = Later(os_epoch, Offset(armidx) - Latency)]
      /\ armed' = armed \cup {armidx} /\ ran = <<>>
  BY DEF Arm, TwiceInv, Offset
<1>2. /\ Pending' = Pending
      /\ pc' = "arm" => armidx' = armidx + 1
      /\ pc' # "arm" => pc' = "get" /\ armidx + 1 = NSlots
      /\ pc' # "judge"
  BY ArmFacts
<1>3. Waiting' = Waiting /\ Out' = Out /\ Load(Out)' = Load(Out)
  BY <1>1, <1>2 DEF Waiting, Out, Load
<1>4. /\ armidx \in Slot /\ armidx \in Int /\ NSlots \in Int
      /\ Offset(armidx) \in Int /\ 0 <= Offset(armidx) /\ Offset(armidx) <= Full /\ Full \in Int
      /\ Latency \in Int /\ 0 <= Latency /\ SlotTicks \in Int
      /\ \A i \in Slot : i \in Int /\ i < NSlots
  BY TypeFacts, OffsetFacts, ConstFacts, LoadFacts
<1>5. PICK b \in Int : b = e + Offset(armidx) - Latency
  BY <1>4
<1>6. PICK x \in [Slot -> Int] : x[armidx] = b /\ \A i \in Slot : i # armidx => x[i] = s[i]
  <2>. DEFINE y == [s EXCEPT ![armidx] = b]
  <2>1. y \in [Slot -> Int] /\ y[armidx] = b /\ \A i \in Slot : i # armidx => y[i] = s[i]
    BY <1>4
  <2>. QED
    BY <2>1
<1>7. \A i \in Slot : Set(i)' => i < armidx + 1
  BY <1>2, <1>4 DEF Set
<1>8. Shown(t, e, x)'
  <2>1. start'[armidx] = b % Wrap
    <3>. DEFINE o == Offset(armidx) - Latency
    <3>1. o \in Int /\ e + o = b
      BY <1>4, <1>5
    <3>2. start'[armidx] = Later(os_epoch, o)
      BY <1>1, <1>4 DEF TypeOK
    <3>. HIDE DEF o
    <3>3. Later(os_epoch, o) = ((e % Wrap) + o) % Wrap
      BY DEF Later, Times, Shown
    <3>4. ((e % Wrap) + o) % Wrap = (e + o) % Wrap
      BY <3>1, ClockFacts
    <3>. QED
      BY <3>1, <3>2, <3>3, <3>4
  <2>2. \A i \in Slot : i # armidx => start'[i] = start[i]
    BY <1>1, <1>4 DEF TypeOK
  <2>3. \A i \in Slot : start'[i] = x[i] % Wrap
    BY <1>6, <2>1, <2>2 DEF Times, Shown
  <2>. QED
    BY <1>1, <2>3 DEF Times, Shown
<1>9. Spaced(e, x)'
  <2>0. \A i \in Slot : i < armidx => s[i] <= e + Offset(i) - Latency /\ s[i] \in Int
    BY <1>1 DEF Times, Spaced
  <2>1. ASSUME NEW i \in Slot, NEW j \in Slot, i < j, j < armidx + 1
        PROVE  x[i] + SlotTicks <= x[j]
    <3>1. CASE j = armidx
      <4>1. i # armidx /\ x[i] = s[i] /\ s[i] <= e + Offset(i) - Latency /\ s[i] \in Int /\ x[j] = b
        BY <1>4, <1>6, <2>0, <2>1, <3>1
      <4>2. Offset(i) + SlotTicks <= Offset(armidx) /\ Offset(i) \in Int
        BY <1>4, <2>1, <3>1, OffsetFacts
      <4>. QED
        BY <1>4, <1>5, <4>1, <4>2
    <3>2. CASE j # armidx
      <4>1. j < armidx /\ i # armidx
        BY <1>4, <2>1, <3>2
      <4>2. s[i] + SlotTicks <= s[j]
        BY <1>1, <2>1, <4>1 DEF Times, Spaced, Set
      <4>. QED
        BY <1>6, <3>2, <4>1, <4>2
    <3>. QED
      BY <3>1, <3>2
  <2>2. ASSUME pc' = "arm", NEW i \in Slot, i < armidx'
        PROVE  x[i] <= e + Offset(i) - Latency
    <3>1. CASE i = armidx
      BY <1>4, <1>5, <1>6, <3>1
    <3>2. CASE i # armidx
      <4>1. i < armidx
        BY <1>2, <1>4, <2>2, <3>2
      <4>. QED
        BY <1>6, <2>0, <3>2, <4>1
    <3>. QED
      BY <3>1, <3>2
  <2>. QED
    BY <1>7, <2>1, <2>2 DEF Spaced
<1>10. Begun(t, x)'
  BY <1>1 DEF Begun
<1>11. /\ 0 <= t - e /\ t - e <= IrqDelay + Busiest + MaxBusy + busy
       /\ In(Superframe, queue) => t - e <= IrqDelay + busy
  <2>1. Handling /\ e <= t
    BY <1>1 DEF Handling, Times, Shown
  <2>2. /\ t - e <= IrqDelay + Busiest + MaxBusy + busy
        /\ In(Superframe, queue) => t - e <= IrqDelay + busy + 0
    BY <2>1 DEF Times, EpochFresh
  <2>. QED
    BY <2>1, <2>2, TypeFacts, ConstFacts
<1>12. /\ Load(Out) \in Int /\ 0 <= Load(Out) /\ Load(Out) <= Busiest /\ Busiest \in Int
       /\ IrqDelay \in Int /\ busy \in Int /\ MaxBusy \in Int /\ Bound \in Int
  BY OutFacts, LoadFacts, ConstFacts, TypeFacts DEF OutSane
<1>13. EpochFresh(t, e)'
  <2>1. In(Superframe, queue) =>
          t - e <= IrqDelay + busy + (IF Handling' THEN 0 ELSE Busiest - Load(Out))
    BY <1>11, <1>12
  <2>. QED
    BY <1>1, <1>3, <1>11, <2>1 DEF EpochFresh
<1>14. BeginFresh(t, x)'
  <2>. SUFFICES ASSUME NEW i \in Slot, Live(i)', Set(i)'
                PROVE  x[i] <= t + Full /\ t - x[i] <= Bound - Load(Out) + busy
    BY <1>1, <1>3 DEF BeginFresh
  <2>1. CASE i = armidx
    <3>1. x[i] = b
      BY <1>6, <2>1
    <3>2. t - b = (t - e) - Offset(armidx) + Latency
      BY <1>4, <1>5
    <3>3. Bound = IrqDelay + Latency + 2 * Busiest + MaxBusy
      BY DEF Bound
    <3>4. b <= t + Full
      BY <1>4, <1>5, <1>11, <3>2
    <3>5. t - b <= Bound - Load(Out) + busy
      BY <1>4, <1>11, <1>12, <3>2, <3>3
    <3>. QED
      BY <3>1, <3>4, <3>5
  <2>2. CASE i # armidx
    <3>1. i < armidx
      BY <1>4, <1>7, <2>2
    <3>2. Live(i) /\ Set(i) /\ pc # "judge"
      BY <1>1, <1>2, <2>2, <3>1 DEF Live, Set
    <3>. QED
      BY <1>6, <2>2, <3>2 DEF Times, BeginFresh
  <2>. QED
    BY <2>1, <2>2
<1>. QED
  BY <1>5, <1>6, <1>8, <1>9, <1>10, <1>13, <1>14 DEF Times

(* A timer that is not due lies ahead: no time has passed that the clock     *)
(* cannot tell.                                                              *)
LEMMA NotDue ==
  ASSUME TypeOK, NEW t \in Int, NEW e \in Int, NEW s \in [Slot -> Int], Times(t, e, s), Quiet,
         NEW i \in armed, Set(i), ~(pc = "judge" /\ ev = Superframe)
  PROVE  t < s[i]
<1>1. i \in Slot /\ s[i] \in Int /\ Live(i)
  BY TypeFacts DEF Live
<1>2. t - s[i] <= Bound - Load(Out) + busy
  BY <1>1 DEF Times, BeginFresh
<1>3. /\ Load(Out) \in Int /\ 0 <= Load(Out) /\ busy \in Int /\ busy <= MaxBusy /\ MaxBusy \in Int
      /\ Bound \in Int /\ Wrap \in Int /\ Wrap > 0 /\ 2 * (Bound + MaxBusy) < Wrap
      /\ Bound + MaxBusy < Wrap \div 2 /\ Wrap \div 2 \in Int
  BY OutFacts, LoadFacts, ConstFacts, TypeFacts DEF OutSane
<1>. SUFFICES ASSUME 0 <= t - s[i]
              PROVE  FALSE
  BY <1>1
<1>4. t - s[i] < Wrap /\ t - s[i] < Wrap \div 2
  BY <1>1, <1>2, <1>3
<1>5. (now - start[i]) % Wrap = t - s[i]
  <2>1. now = t % Wrap /\ start[i] = s[i] % Wrap
    BY <1>1 DEF Times, Shown
  <2>2. ((t % Wrap) - (s[i] % Wrap)) % Wrap = (t - s[i]) % Wrap /\ (t - s[i]) % Wrap = t - s[i]
    BY <1>1, <1>4, ClockFacts
  <2>. QED
    BY <2>1, <2>2
<1>. QED
  BY <1>4, <1>5 DEF Quiet, Due

(* Time passes: the task is busy for longer, or it waits and no timer is     *)
(* due.                                                                      *)
LEMMA TickTimes ==
  ASSUME TypeOK, TypeOK',
         NEW t \in Int, NEW e \in Int, NEW s \in [Slot -> Int], Times(t, e, s), Tick
  PROVE  Times(t + 1, e, s)'
<1>1. /\ UNCHANGED <<os_epoch, start, armed, queue, pc, ev, armidx, ran>>
      /\ now' = Later(now, 1) /\ Quiet
      /\ (pc = "get" /\ queue = <<>> /\ busy' = 0) \/ (busy' = busy + 1)
  BY DEF Tick
<1>2. Pending' = Pending /\ Waiting' = Waiting
  BY <1>1 DEF Pending, Waiting
<1>3. Out' = Out /\ Load(Out)' = Load(Out)
  BY <1>2 DEF Out, Load
<1>4. /\ Load(Out) \in Int /\ 0 <= Load(Out) /\ Load(Out) <= Busiest /\ Busiest \in Int
      /\ IrqDelay \in Int /\ busy \in Int /\ 0 <= busy /\ busy <= MaxBusy /\ MaxBusy \in Int
      /\ Bound \in Int /\ Full \in Int /\ Wrap \in Int /\ Wrap > 0 /\ 2 * (Bound + MaxBusy) < Wrap
      /\ Bound + MaxBusy < Wrap \div 2 /\ Wrap \div 2 \in Int
      /\ Latency \in Int /\ 0 <= Latency /\ 0 <= IrqDelay
  BY OutFacts, LoadFacts, ConstFacts, TypeFacts DEF OutSane
<1>5. Shown(t + 1, e, s)'
  <2>1. now' = (t + 1) % Wrap
    <3>1. Later(now, 1) = ((t % Wrap) + 1) % Wrap
      BY DEF Later, Times, Shown
    <3>. QED
      BY <1>1, <3>1, ClockFacts
  <2>. QED
    BY <1>1, <2>1 DEF Times, Shown
<1>6. Spaced(e, s)'
  BY <1>1 DEF Times, Spaced, Set
<1>7. Begun(t + 1, s)'
  <2>1. \A k \in DOMAIN ran : ran[k] \in Slot
    BY TypeFacts
  <2>. QED
    BY <1>1, <2>1 DEF Times, Begun
<1>8. CASE busy' = busy + 1
  <2>1. EpochFresh(t + 1, e)'
    <3>1. Handling' <=> Handling
      BY <1>1 DEF Handling
    <3>2. EpochFresh(t, e)
      BY DEF Times
    <3>. QED
      BY <1>1, <1>3, <1>4, <1>8, <3>1, <3>2 DEF EpochFresh
  <2>2. BeginFresh(t + 1, s)'
    <3>1. \A i \in Slot : (Live(i)' <=> Live(i)) /\ (Set(i)' <=> Set(i))
      BY <1>1 DEF Live, Set
    <3>. SUFFICES ASSUME ~(pc = "judge" /\ ev = Superframe), NEW i \in Slot, Live(i), Set(i)
                  PROVE  s[i] <= t + 1 + Full /\ t + 1 - s[i] <= Bound - Load(Out) + (busy + 1)
      BY <1>1, <1>3, <1>8, <3>1 DEF BeginFresh
    <3>2. s[i] <= t + Full /\ t - s[i] <= Bound - Load(Out) + busy /\ s[i] \in Int
      BY DEF Times, BeginFresh
    <3>. QED
      BY <1>4, <3>2
  <2>. QED
    BY <1>5, <1>6, <1>7, <2>1, <2>2 DEF Times
<1>9. CASE pc = "get" /\ queue = <<>> /\ busy' = 0
  <2>1. ~Handling' /\ \A y : ~In(y, queue')
    BY <1>1, <1>9 DEF Handling, In
  <2>2. EpochFresh(t + 1, e)'
    BY <2>1 DEF EpochFresh
  <2>3. BeginFresh(t + 1, s)'
    <3>. SUFFICES ASSUME NEW i \in Slot, Live(i)'
                  PROVE  s[i] <= t + 1 + Full /\ t + 1 - s[i] <= Bound - Load(Out) + 0
      BY <1>3, <1>9 DEF BeginFresh
    <3>1. i \in armed /\ Live(i) /\ Set(i)
      BY <1>1, <1>9, <2>1 DEF Live, Set
    <3>2. s[i] <= t + Full /\ t - s[i] <= Bound - Load(Out) + busy /\ s[i] \in Int
      BY <1>9, <3>1 DEF Times, BeginFresh
    <3>3. t < s[i]
      BY <1>1, <1>9, <3>1, NotDue
    <3>4. 0 <= Bound - Load(Out)
      BY <1>4 DEF Bound
    <3>. QED
      BY <1>4, <3>2, <3>3, <3>4
  <2>. QED
    BY <1>5, <1>6, <1>7, <2>2, <2>3 DEF Times
<1>. QED
  BY <1>1, <1>8, <1>9

(* Every step keeps the times.                                               *)
LEMMA TimeNext ==
  ASSUME TypeOK, TypeOK', TwiceInv, TimeInv, [Next]_vars
  PROVE  TimeInv'
<1>1. PICK t \in Int, e \in Int : \E s \in [Slot -> Int] : Times(t, e, s)
  BY DEF TimeInv
<1>2. PICK s \in [Slot -> Int] : Times(t, e, s)
  BY <1>1
<1>. SUFFICES \E x, y \in Int : \E z \in [Slot -> Int] : Times(x, y, z)'
  BY DEF TimeInv
<1>3. CASE SuperframeCb
  BY <1>2, <1>3, CallbackTimes
<1>4. CASE \E i \in Slot : SlotTimerCb(i)
  BY <1>2, <1>4, TimerTimes
<1>5. CASE Get
  BY <1>2, <1>5, GetTimes
<1>6. CASE Judge
  BY <1>2, <1>6, JudgeTimes
<1>7. CASE Arm
  BY <1>2, <1>7, ArmTimes
<1>8. CASE RunEnds \/ UNCHANGED vars
  <2>1. Times(t, e, s)'
    BY <1>2, <1>8, SameTimes DEF RunEnds, vars, task
  <2>. QED
    BY <2>1
<1>9. CASE Tick
  <2>1. Times(t + 1, e, s)'
    BY <1>2, <1>9, TickTimes
  <2>2. t + 1 \in Int
    OBVIOUS
  <2>. QED
    BY <2>1, <2>2
<1>. QED
  BY <1>3, <1>4, <1>5, <1>6, <1>7, <1>8, <1>9 DEF Next

(* The clock starts at 0 before anything is scheduled.                       *)
LEMMA TimeInit == Init => TwiceInv /\ TimeInv
<1>. SUFFICES ASSUME Init
              PROVE  TwiceInv /\ TimeInv
  OBVIOUS
<1>0. Wrap \in Int /\ Wrap > 0 /\ SlotTicks \in Int /\ SlotTicks >= 0
  BY ConstFacts
<1>1. TwiceInv
  <2>1. \A i : Hits(ran, {i}) = 0
    <3>1. <<>> \in Seq(Slot)
      OBVIOUS
    <3>. QED
      BY <3>1, HitsFacts DEF Init
  <2>2. \A i : ~In(i, queue) /\ i \notin Pending /\ pc = "get"
    BY DEF Init, In, Pending
  <2>3. \A i \in 1 .. NSlots - 1 : Chances(i) = 0
    BY <2>1, <2>2 DEF Chances, One
  <2>. QED
    BY <2>2, <2>3 DEF TwiceInv
<1>2. PICK s \in [Slot -> Int] : \A i \in Slot : s[i] = Offset(i) * Wrap
  <2>. DEFINE y == [i \in Slot |-> Offset(i) * Wrap]
  <2>1. y \in [Slot -> Int] /\ \A i \in Slot : y[i] = Offset(i) * Wrap
    BY <1>0, OffsetFacts
  <2>. QED
    BY <2>1
<1>3. \A x \in Int : (x * Wrap) % Wrap = 0
  <2>1. \A x \in Int : x * Wrap \in Int /\ x * Wrap = x * Wrap + 0
    BY <1>0
  <2>. QED
    BY <1>0, <2>1, Remainder
<1>4. Shown(0, 0, s)
  <2>1. 0 % Wrap = 0
    BY <1>0
  <2>2. \A i \in Slot : s[i] % Wrap = 0
    BY <1>2, <1>3, OffsetFacts
  <2>. QED
    BY <2>1, <2>2 DEF Init, Shown
<1>5. Spaced(0, s)
  <2>. SUFFICES ASSUME NEW i \in Slot, NEW j \in Slot, i < j
                PROVE  s[i] + SlotTicks <= s[j]
    BY DEF Init, Spaced
  <2>. DEFINE a == Offset(i)
              b == Offset(j)
  <2>1. a \in Int /\ b \in Int /\ a + SlotTicks <= b
    BY OffsetFacts
  <2>2. s[i] = a * Wrap /\ s[j] = b * Wrap
    BY <1>2
  <2>. HIDE DEF a, b
  <2>3. (b - a) * Wrap = b * Wrap - a * Wrap /\ b * Wrap \in Int /\ a * Wrap \in Int
    BY <1>0, <2>1, Distributive
  <2>4. b - a <= (b - a) * Wrap
    <3>1. b - a \in Nat /\ Wrap - 1 \in Nat
      BY <1>0, <2>1
    <3>2. (b - a) * (Wrap - 1) \in Nat
      BY <3>1
    <3>3. (Wrap - 1) * (b - a) = Wrap * (b - a) - 1 * (b - a)
      BY <1>0, <2>1, Distributive
    <3>. QED
      BY <1>0, <2>1, <3>2, <3>3
  <2>. QED
    BY <1>0, <2>1, <2>2, <2>3, <2>4
<1>6. Begun(0, s) /\ EpochFresh(0, 0) /\ BeginFresh(0, s)
  <2>1. ~In(Superframe, queue) /\ ~Handling /\ \A i : ~Live(i)
    BY DEF Init, In, Handling, Live
  <2>. QED
    BY <2>1 DEF Init, Begun, EpochFresh, BeginFresh
<1>7. TimeInv
  BY <1>4, <1>5, <1>6 DEF TimeInv, Times
<1>. QED
  BY <1>1, <1>7

(* The invariant holds.                                                      *)
THEOREM IInvSafe == Spec => []IInv
<1>1. Init => IInv
  BY TypeInit, TimeInit DEF IInv
<1>2. IInv /\ [Next]_vars => IInv'
  BY TypeNext, TwiceNext, TimeNext DEF IInv
<1>. QED
  BY <1>1, <1>2, PTL DEF Spec

(* A slot runs after all that have run in this superframe, unless it has run *)
(* just before.                                                              *)
LEMMA RunInOrder ==
  ASSUME IInv, pc = "judge", ev \in Slot, ev # 0, ~TooLate(ev)
  PROVE  /\ \A k \in DOMAIN ran : ran[k] <= ev
         /\ \A j, k \in DOMAIN ran : ran[j] = ev /\ ran[k] = ev => j = k
         /\ ev \in 1 .. NSlots - 1
<1>0. ev \in 1 .. NSlots - 1 /\ ev \in Int
  BY ConstFacts
<1>1. PICK t \in Int, e \in Int : \E s \in [Slot -> Int] : Times(t, e, s)
  BY DEF IInv, TimeInv
<1>2. PICK s \in [Slot -> Int] : Times(t, e, s)
  BY <1>1
<1>3. 0 <= t - s[ev] /\ t - s[ev] <= MaxDelay /\ s[ev] \in Int
  BY <1>2, JudgedInTime DEF IInv
<1>4. ASSUME NEW k \in DOMAIN ran
      PROVE  ran[k] <= ev
  <2>. DEFINE j == ran[k]
  <2>1. j \in Slot /\ s[j] \in Int /\ j \in Int
    <3>1. j \in Slot
      BY TypeFacts DEF IInv
    <3>. QED
      BY <3>1, ConstFacts
  <2>2. s[j] <= t
    BY <1>2 DEF Times, Begun
  <2>. SUFFICES ASSUME ev < j
                PROVE  FALSE
    BY <1>0, <2>1
  <2>3. s[ev] + SlotTicks <= s[j]
    BY <1>2, <2>1 DEF Times, Spaced, Set
  <2>. HIDE DEF j
  <2>. QED
    BY <1>3, <2>1, <2>2, <2>3, ConstFacts, MarginAssumption
<1>5. \A j, k \in DOMAIN ran : ran[j] = ev /\ ran[k] = ev => j = k
  <2>1. Chances(ev) <= 2
    BY <1>0 DEF IInv, TwiceInv
  <2>2. Hits(ran, {ev}) \in Nat /\ One(In(ev, queue)) \in Nat /\ One(ev \in Pending) \in Nat
    BY ChancesFacts DEF IInv
  <2>3. One(pc = "judge" /\ ev = ev) = 1
    BY DEF One
  <2>4. Hits(ran, {ev}) <= 1
    BY <2>1, <2>2, <2>3 DEF Chances
  <2>. DEFINE P == {k \in DOMAIN ran : ran[k] \in {ev}}
  <2>5. IsFiniteSet(P)
    BY TypeFacts, HitsFacts DEF IInv
  <2>6. Cardinality(P) \in {0, 1}
    BY <2>2, <2>4 DEF Hits
  <2>7. P = {} \/ \E x : P = {x}
    <3>. HIDE DEF P
    <3>. QED
      BY <2>5, <2>6, FS_EmptySet, FS_Singleton
  <2>. QED
    BY <2>7
<1>. QED
  BY <1>0, <1>4, <1>5

(* A step of the scheduler begins a superframe, runs the next slot, or does  *)
(* nothing that the schedule sees.                                           *)
LEMMA ScheduleStep == IInv /\ [Next]_vars => [Schedule!Next]_ran
<1>. SUFFICES ASSUME IInv, [Next]_vars, ran' # ran
              PROVE  Schedule!Next
  OBVIOUS
<1>1. Judge
  BY DEF Next, SuperframeCb, SlotTimerCb, Get, Arm, RunEnds, Tick, vars
<1>2. CASE ran' = <<>>
  BY <1>2 DEF Schedule!Next, Schedule!NewSuperframe
<1>3. CASE pc = "judge" /\ ev \in Slot /\ ev # 0 /\ ~TooLate(ev) /\ ran' = Append(ran, ev)
  <2>1. Schedule!RunSlot(ev) /\ ev \in 1 .. NSlots - 1
    BY <1>3, RunInOrder DEF Schedule!RunSlot
  <2>. QED
    BY <2>1 DEF Schedule!Next
<1>. QED
  BY <1>1, <1>2, <1>3 DEF Judge

(* The scheduler keeps the schedule: after any history of packets, delays    *)
(* and drops the slots of a superframe run in their order.                   *)
THEOREM ScheduleSafe == Spec => ScheduleSpec
<1>1. Init => Schedule!Init
  BY DEF Init, Schedule!Init
<1>. QED
  BY <1>1, ScheduleStep, IInvSafe, PTL DEF Spec, ScheduleSpec, Schedule!Spec

-----------------------------------------------------------------------------
(* A superframe without an early packet: RunOnce.                            *)

(* A slot has a timer or an event, not both, and a superframe is begun when  *)
(* nothing is left of the one before.                                        *)
OneEach ==
  /\ \A i \in 1 .. NSlots - 1 : Chances(i) <= 1
  /\ In(Superframe, queue) => armed = {} /\ ~Handling /\ queue[Len(queue)] = Superframe
  /\ pc = "judge" /\ ev = Superframe => armed = {} /\ queue = <<>>

(* The timers are those of the last epoch, and an epoch waits for the events *)
(* of one superframe at most.                                                *)
Timely(t, e, s) ==
  /\ \A i \in armed : s[i] <= e + Offset(i) - Latency
  /\ In(Superframe, queue) => t - e <= IrqDelay + busy + Load(NSlots) - Load(Out)
  /\ Handling => t - e <= IrqDelay + Load(NSlots) + MaxBusy + busy

Smooth == Fits /\ steady

OnceTimes ==
  \E t, e \in Int : \E s \in [Slot -> Int] : Times(t, e, s) /\ (Smooth => Timely(t, e, s))

OnceInv == IInv /\ (Smooth => OneEach) /\ OnceTimes /\ RunOnce

(* The load of one superframe fits into it.                                  *)
LEMMA FitsFacts ==
  /\ Load(NSlots) \in Int /\ 0 <= Load(NSlots)
  /\ Fits => 2 * IrqDelay + Load(NSlots) + 2 * MaxBusy < Full
  /\ \A i \in Slot : Offset(i) + SlotTicks <= Full
<1>0. NSlots \in Int /\ NSlots > 0 /\ MaxBusy \in Int /\ SlotTicks \in Int /\ SlotTicks >= 0
  BY ConstFacts
<1>1. Load(NSlots) \in Int /\ 0 <= Load(NSlots)
  <2>1. NSlots \in 0 .. 2 * NSlots
    BY <1>0
  <2>. QED
    BY <2>1, LoadFacts
<1>2. (NSlots + 2) * MaxBusy = NSlots * MaxBusy + 2 * MaxBusy
  BY <1>0, Distributive
<1>3. Fits => 2 * IrqDelay + Load(NSlots) + 2 * MaxBusy < Full
  <2>1. (NSlots + 2) * MaxBusy = Load(NSlots) + 2 * MaxBusy
    BY <1>2 DEF Load
  <2>2. Fits => 2 * IrqDelay + (Load(NSlots) + 2 * MaxBusy) < Full
    BY <2>1 DEF Fits, Full
  <2>. QED
    BY <1>0, <1>1, <2>2, ConstFacts, LoadFacts
<1>4. ASSUME NEW i \in Slot
      PROVE  Offset(i) + SlotTicks <= Full
  <2>. DEFINE r == NSlots - i - 1
  <2>1. i \in Int /\ r \in Nat /\ r \in Int /\ NSlots = (i + 1) + r
    BY ConstFacts
  <2>2. r * SlotTicks >= 0 /\ r * SlotTicks \in Int
    BY <1>0, <2>1
  <2>. HIDE DEF r
  <2>3. ((i + 1) + r) * SlotTicks = (i + 1) * SlotTicks + r * SlotTicks
    BY <1>0, <2>1, Distributive
  <2>4. (i + 1) * SlotTicks = i * SlotTicks + 1 * SlotTicks
    BY <1>0, <2>1, Distributive
  <2>5. i * SlotTicks \in Int /\ 1 * SlotTicks = SlotTicks
    BY <1>0, <2>1
  <2>6. NSlots * SlotTicks = (i * SlotTicks + SlotTicks) + r * SlotTicks
    BY <2>1, <2>3, <2>4, <2>5
  <2>. QED
    BY <1>0, <2>2, <2>5, <2>6 DEF Offset, Full
<1>. QED
  BY <1>1, <1>3, <1>4

(* Without a pending slot only one event of each is left.                    *)
LEMMA OutOnce ==
  ASSUME TypeOK, Pending = {}
  PROVE  Load(Out) <= Load(NSlots)
<1>1. IsFiniteSet(Slot) /\ Cardinality(Slot) = NSlots
  <2>1. 0 \in Int /\ NSlots - 1 \in Int /\ ~(0 > NSlots - 1)
    BY ConstFacts
  <2>. QED
    BY <2>1, ConstFacts, FS_Interval DEF Slot
<1>2. Waiting \in SUBSET Slot
  BY DEF Waiting
<1>3. Cardinality(Waiting) <= NSlots
  BY ONLY <1>1, <1>2, FS_Subset
<1>4. Cardinality(Pending) = 0
  BY FS_EmptySet
<1>5. Out <= NSlots /\ Out \in 0 .. 2 * NSlots /\ NSlots \in 0 .. 2 * NSlots
  BY <1>3, <1>4, OutFacts, ConstFacts DEF Out, OutSane
<1>. QED
  BY <1>5, LoadFacts

(* The next packet finds the superframe over: no timer runs, and the task is *)
(* not at the event of an earlier packet.                                    *)
LEMMA PacketComes ==
  ASSUME TypeOK, TwiceInv, NEW t \in Int, NEW e \in Int, NEW s \in [Slot -> Int], Times(t, e, s),
         Fits, OneEach, Timely(t, e, s), Quiet, CcpExpected
  PROVE  armed = {} /\ ~Handling /\ ~In(Superframe, queue)
<1>1. CASE Idle
  BY <1>1 DEF Idle, Handling, In
<1>2. CASE ~Idle
  <2>1. Full - IrqDelay <= t - e /\ 0 <= t - e
    <3>1. (now - os_epoch) % Wrap = (t - e) % Wrap /\ 0 <= t - e
      BY ClockFacts DEF Times, Shown
    <3>2. (now - os_epoch) % Wrap >= Full - IrqDelay
      BY <1>2 DEF CcpExpected, Full
    <3>3. (t - e) % Wrap <= t - e
      <4>1. PICK q \in Int, u \in Int :
              t - e = q * Wrap + u /\ 0 <= u /\ u < Wrap /\ (t - e) % Wrap = u
        <5>1. t - e \in Int /\ Wrap \in Int /\ Wrap > 0
          BY ConstFacts
        <5>. QED
          BY <5>1, Division
      <4>2. CASE q >= 0
        <5>1. q * Wrap >= 0 /\ q * Wrap \in Int
          BY <4>2, ConstFacts
        <5>. QED
          BY <4>1, <5>1
      <4>3. CASE q < 0
        <5>1. -q - 1 \in Nat /\ Wrap \in Nat
          BY <4>3, ConstFacts
        <5>2. (-q - 1) * Wrap >= 0 /\ (-q - 1) * Wrap \in Int
          BY <5>1
        <5>3. ((-q) - 1) * Wrap = (-q) * Wrap - 1 * Wrap /\ (0 - q) * Wrap = 0 * Wrap - q * Wrap
          BY ConstFacts, Distributive
        <5>4. q * Wrap <= - Wrap
          BY <5>2, <5>3, ConstFacts
        <5>. QED
          BY <3>1, <4>1, <5>4, ConstFacts
      <4>. QED
        BY <4>2, <4>3
    <3>4. (t - e) % Wrap \in Int
      BY ConstFacts
    <3>. QED
      BY <3>1, <3>2, <3>3, <3>4, ConstFacts, LoadFacts
  <2>2. /\ Load(NSlots) \in Int /\ 0 <= Load(NSlots) /\ Load(Out) \in Int /\ 0 <= Load(Out)
        /\ busy \in Int /\ busy <= MaxBusy /\ MaxBusy \in Int /\ MaxBusy >= 0
        /\ IrqDelay \in Int /\ IrqDelay >= 0 /\ Full \in Int
        /\ 2 * IrqDelay + Load(NSlots) + 2 * MaxBusy < Full
    BY FitsFacts, OutFacts, TypeFacts, ConstFacts, LoadFacts DEF OutSane
  <2>3. ~Handling
    <3>1. Handling => t - e <= IrqDelay + Load(NSlots) + MaxBusy + busy
      BY DEF Timely
    <3>. QED
      BY <2>1, <2>2, <3>1
  <2>4. ~In(Superframe, queue)
    <3>1. In(Superframe, queue) => t - e <= IrqDelay + busy + Load(NSlots) - Load(Out)
      BY DEF Timely
    <3>. QED
      BY <2>1, <2>2, <3>1
  <2>5. armed = {}
    <3>. SUFFICES ASSUME NEW i \in armed
                  PROVE  FALSE
      OBVIOUS
    <3>1. i \in Slot /\ s[i] \in Int
      BY TypeFacts
    <3>2. t < s[i]
      BY <2>3, NotDue DEF Handling, Set
    <3>3. s[i] <= e + Offset(i) - Latency
      BY DEF Timely
    <3>4. Offset(i) \in Int /\ Offset(i) + SlotTicks <= Full /\ SlotTicks \in Int /\ Latency \in Int
      BY <3>1, OffsetFacts, FitsFacts, ConstFacts
    <3>5. IrqDelay <= SlotTicks + Latency
      BY DEF Fits
    <3>. QED
      BY <2>1, <2>2, <3>1, <3>2, <3>3, <3>4, <3>5
  <2>. QED
    BY <2>3, <2>4, <2>5
<1>. QED
  BY <1>1, <1>2

(* An event that is queued last is taken last.                               *)
LEMMA LastFacts ==
  ASSUME NEW q \in Seq(Event), Distinct(q), q # <<>>, NEW x, q[Len(q)] = x
  PROVE  /\ Head(q) = x => Tail(q) = <<>>
         /\ In(x, Tail(q)) => Tail(q)[Len(Tail(q))] = x
<1>. DEFINE t == Tail(q)
            n == Len(q)
<1>1. n \in Nat /\ n > 0 /\ DOMAIN q = 1 .. n /\ t \in Seq(Event) /\ Len(t) = n - 1
      /\ Head(q) = q[1] /\ q[n] = x /\ \A k \in 1 .. n - 1 : t[k] = q[k + 1]
  OBVIOUS
<1>. HIDE DEF t, n
<1>2. Head(q) = x => t = <<>>
  <2>. SUFFICES ASSUME q[1] = q[n]
                PROVE  t = <<>>
    BY <1>1
  <2>1. 1 = n
    BY <1>1 DEF Distinct
  <2>. QED
    BY <1>1, <2>1, EmptySeq
<1>3. In(x, t) => t[n - 1] = x
  <2>. SUFFICES ASSUME NEW k \in DOMAIN t
                PROVE  t[n - 1] = x
    BY DEF In
  <2>1. n - 1 \in 1 .. n - 1 /\ (n - 1) + 1 = n
    BY <1>1
  <2>. QED
    BY <1>1, <2>1
<1>. QED
  BY <1>1, <1>2, <1>3 DEF t

(* Every step keeps each slot to its one chance.                             *)
LEMMA OneEachNext ==
  ASSUME TypeOK, TypeOK', TwiceInv, NEW t \in Int, NEW e \in Int, NEW s \in [Slot -> Int],
         Times(t, e, s), Smooth => OneEach /\ Timely(t, e, s), Smooth', [Next]_vars
  PROVE  Smooth /\ OneEach'
<1>0. Smooth
  BY DEF Smooth, Next, SuperframeCb, SlotTimerCb, Get, Judge, Arm, RunEnds, Tick, vars
<1>1. OneEach /\ Timely(t, e, s)
  BY <1>0
<1>2. \A i \in 1 .. NSlots - 1 : Chances(i)' <= 1
  <2>1. CASE Judge /\ ev = Superframe
    <3>1. ran' = <<>> /\ queue' = <<>> /\ pc' = "arm"
      BY <1>1, <2>1, ConstFacts DEF Judge, OneEach
    <3>2. \A i : Hits(ran', {i}) = 0
      <4>1. <<>> \in Seq(Slot)
        OBVIOUS
      <4>. QED
        BY <3>1, <4>1, HitsFacts
    <3>3. \A i : ~In(i, queue')
      BY <3>1 DEF In
    <3>. QED
      BY <3>1, <3>2, <3>3 DEF Chances, One
  <2>2. CASE ~(Judge /\ ev = Superframe)
    <3>1. \A i \in 1 .. NSlots - 1 : Chances(i)' <= Chances(i) /\ Chances(i) <= 1
      BY <1>1, <2>2, ChancesNext DEF OneEach
    <3>. QED
      BY <3>1, ChancesInt, ChancesIntNext DEF ChancesSane
  <2>. QED
    BY <2>1, <2>2
<1>. DEFINE Q == In(Superframe, queue) => armed = {} /\ ~Handling /\ queue[Len(queue)] = Superframe
            J == pc = "judge" /\ ev = Superframe => armed = {} /\ queue = <<>>
<1>3. Q' /\ J'
  <2>0. Q /\ J
    BY <1>1 DEF OneEach
  <2>1. CASE SuperframeCb
    <3>1. Quiet /\ CcpExpected /\ queue' = Put(queue, Superframe) /\ UNCHANGED <<armed, pc, ev>>
      BY <2>1 DEF SuperframeCb, Smooth, task
    <3>2. armed = {} /\ ~Handling /\ ~In(Superframe, queue)
      BY <1>0, <1>1, <3>1, PacketComes DEF Smooth
    <3>3. queue' = Append(queue, Superframe)
      BY <3>1, <3>2 DEF Put, In
    <3>4. queue'[Len(queue')] = Superframe
      <4>1. queue \in Seq(Event)
        BY TypeFacts
      <4>. QED
        BY <3>3, <4>1
    <3>. QED
      BY <3>1, <3>2, <3>4 DEF Handling
  <2>2. CASE \E i \in Slot : SlotTimerCb(i)
    <3>1. PICK i \in Slot : SlotTimerCb(i)
      BY <2>2
    <3>2. i \in armed /\ queue' = Put(queue, i) /\ UNCHANGED <<pc, ev>>
      BY <3>1 DEF SlotTimerCb, task
    <3>3. ~In(Superframe, queue) /\ ~(pc = "judge" /\ ev = Superframe)
      BY <2>0, <3>2
    <3>4. ~In(Superframe, queue')
      <4>1. In(Superframe, queue') <=> In(Superframe, queue) \/ Superframe = i
        BY <3>2, PutFacts, TypeFacts DEF Event
      <4>. QED
        BY <3>3, <4>1, ConstFacts
    <3>. QED
      BY <3>2, <3>3, <3>4
  <2>3. CASE Get
    <3>1. /\ pc = "get" /\ pc' = "judge" /\ ev' = Head(queue) /\ armed' = armed
          /\ queue # <<>> /\ queue' = Tail(queue)
      BY <2>3 DEF Get
    <3>2. In(ev', queue) /\ \A x : In(x, queue') <=> In(x, queue) /\ x # ev'
      BY <3>1, TailFacts, TypeFacts
    <3>3. queue[Len(queue)] = Superframe =>
            /\ ev' = Superframe => queue' = <<>>
            /\ In(Superframe, queue') => queue'[Len(queue')] = Superframe
      BY <3>1, LastFacts, TypeFacts
    <3>4. Q'
      BY <2>0, <3>1, <3>2, <3>3 DEF Handling
    <3>5. J'
      BY <2>0, <3>1, <3>2, <3>3
    <3>. QED
      BY <3>4, <3>5
  <2>4. CASE Judge
    <3>1. CASE ev = Superframe
      <4>1. queue' = <<>> /\ pc' = "arm"
        BY <2>0, <2>4, <3>1, ConstFacts DEF Judge
      <4>. QED
        BY <4>1 DEF In
    <3>2. CASE ev # Superframe
      <4>1. UNCHANGED <<armed, queue>> /\ pc' \in {"get", "run"}
        BY <2>4, <3>2 DEF Judge
      <4>. QED
        BY <2>0, <4>1 DEF Handling
    <3>. QED
      BY <3>1, <3>2
  <2>5. CASE Arm
    <3>1. Handling /\ queue' = queue /\ pc' # "judge"
      BY <2>5 DEF Arm, Handling
    <3>. QED
      BY <2>0, <3>1
  <2>6. CASE RunEnds \/ Tick \/ UNCHANGED vars
    <3>1. UNCHANGED <<armed, queue, ev>> /\ (pc' = pc \/ (pc = "run" /\ pc' = "get"))
      BY <2>6 DEF RunEnds, Tick, vars, task
    <3>. QED
      BY <2>0, <3>1 DEF Handling
  <2>. QED
    BY <2>1, <2>2, <2>3, <2>4, <2>5, <2>6 DEF Next
<1>. QED
  BY <1>0, <1>2, <1>3 DEF OneEach

(* Every step keeps the times of such a superframe.                          *)
LEMMA TimelyNext ==
  ASSUME TypeOK, TypeOK', TwiceInv, NEW t \in Int, NEW e \in Int, NEW s \in [Slot -> Int],
         Times(t, e, s), Smooth, OneEach, OneEach', Timely(t, e, s), Smooth', [Next]_vars
  PROVE  \E x, y \in Int : \E z \in [Slot -> Int] : Times(x, y, z)' /\ Timely(x, y, z)'
<1>0. /\ Load(NSlots) \in Int /\ 0 <= Load(NSlots)
      /\ Load(Out) \in Int /\ 0 <= Load(Out) /\ Load(Out)' \in Int
      /\ busy \in Int /\ 0 <= busy /\ busy <= MaxBusy /\ MaxBusy \in Int
      /\ IrqDelay \in Int /\ Latency \in Int /\ \A i \in Slot : Offset(i) \in Int
  BY FitsFacts, OutFacts, OutFactsNext, TypeFacts, ConstFacts, OffsetFacts DEF OutSane
<1>1. CASE SuperframeCb
  <2>1. PICK x \in Int : Times(t, x, s)' /\ t - x <= IrqDelay
    BY <1>1, CallbackTimes
  <2>2. Quiet /\ CcpExpected /\ queue' = Put(queue, Superframe)
        /\ UNCHANGED <<armed, armidx, pc, ev, busy>>
    BY <1>1 DEF SuperframeCb, Smooth, task
  <2>3. armed = {} /\ ~Handling
    BY <2>2, PacketComes DEF Smooth
  <2>4. Pending = {} /\ Pending' = Pending
    BY <2>2, <2>3 DEF Pending, Handling
  <2>5. Load(Out)' = Load(Out)
    <3>1. \A y : In(y, queue') <=> In(y, queue) \/ y = Superframe
      BY <2>2, PutFacts, TypeFacts DEF Event
    <3>2. Waiting' = Waiting
      BY <3>1, ConstFacts DEF Waiting
    <3>. QED
      BY <2>4, <3>2 DEF Out, Load
  <2>6. Load(Out) <= Load(NSlots)
    BY <2>4, OutOnce
  <2>7. Timely(t, x, s)'
    <3>1. t - x <= IrqDelay + busy + Load(NSlots) - Load(Out)
      BY <1>0, <2>1, <2>6
    <3>2. armed' = {} /\ ~Handling'
      BY <2>2, <2>3 DEF Handling
    <3>3. t - x <= IrqDelay + busy' + Load(NSlots) - Load(Out)'
      BY <2>2, <2>5, <3>1
    <3>. QED
      BY <3>2, <3>3 DEF Timely
  <2>. QED
    BY <2>1, <2>7
<1>2. CASE \E i \in Slot : SlotTimerCb(i)
  <2>1. PICK i \in Slot : SlotTimerCb(i)
    BY <1>2
  <2>2. i \in armed /\ armed' \subseteq armed /\ UNCHANGED <<pc, ev, busy>>
    BY <2>1 DEF SlotTimerCb, task
  <2>3. ~In(Superframe, queue')
    <3>1. ~In(Superframe, queue) /\ Superframe # i
      BY <2>2, ConstFacts DEF OneEach
    <3>2. In(Superframe, queue') <=> In(Superframe, queue) \/ Superframe = i
      BY <2>1, TimerFacts
    <3>. QED
      BY <3>1, <3>2
  <2>4. Timely(t, e, s)'
    BY <2>2, <2>3 DEF Timely, Handling
  <2>5. Times(t, e, s)'
    BY <2>1, TimerTimes
  <2>. QED
    BY <2>4, <2>5
<1>3. CASE Get
  <2>1. UNCHANGED armed /\ pc = "get" /\ pc' = "judge" /\ busy' = 0
    BY <1>3 DEF Get
  <2>2. ev' \in Event /\ In(ev', queue) /\ \A x : In(x, queue') <=> In(x, queue) /\ x # ev'
    BY <1>3, TailFacts, TypeFacts DEF Get
  <2>3. Timely(t, e, s)'
    <3>1. CASE ev' = Superframe
      <4>1. t - e <= IrqDelay + busy + Load(NSlots) - Load(Out) /\ ~In(Superframe, queue')
        BY <2>2, <3>1 DEF Timely
      <4>2. t - e <= IrqDelay + Load(NSlots) + MaxBusy + busy'
        BY <1>0, <2>1, <4>1
      <4>. QED
        BY <2>1, <4>1, <4>2 DEF Timely
    <3>2. CASE ev' \in Slot
      <4>1. Load(Out)' = Load(Out) - MaxBusy
        BY <1>3, <3>2, GetLoad
      <4>2. ~Handling'
        BY <2>1, <3>2, ConstFacts DEF Handling
      <4>3. In(Superframe, queue') => t - e <= IrqDelay + busy + Load(NSlots) - Load(Out)
        BY <2>2 DEF Timely
      <4>4. In(Superframe, queue') => t - e <= IrqDelay + busy' + Load(NSlots) - Load(Out)'
        BY <1>0, <2>1, <4>1, <4>3
      <4>. QED
        BY <2>1, <4>2, <4>4 DEF Timely
    <3>. QED
      BY <2>2, <3>1, <3>2 DEF Event
  <2>4. Times(t, e, s)'
    BY <1>3, GetTimes
  <2>. QED
    BY <2>3, <2>4
<1>4. CASE Judge
  <2>1. pc = "judge" /\ UNCHANGED <<queue, ev, busy>>
    BY <1>4 DEF Judge
  <2>2. Timely(t, e, s)'
    <3>1. CASE ev = Superframe
      <4>1. armed' = {} /\ ~In(Superframe, queue') /\ Handling
        <5>1. queue' = <<>>
          BY <2>1, <3>1 DEF OneEach
        <5>. QED
          BY <1>4, <2>1, <3>1, <5>1, ConstFacts DEF Judge, In, Handling
      <4>. QED
        BY <2>1, <4>1 DEF Timely
    <3>2. CASE ev # Superframe
      <4>1. UNCHANGED <<armed, armidx>> /\ pc' \in {"get", "run"}
        BY <1>4, <3>2 DEF Judge
      <4>2. Pending' = Pending /\ Waiting' = Waiting /\ ~Handling'
        BY <2>1, <4>1 DEF Pending, Waiting, Handling
      <4>3. Load(Out)' = Load(Out)
        BY <4>2 DEF Out, Load
      <4>. QED
        BY <2>1, <4>1, <4>2, <4>3 DEF Timely
    <3>. QED
      BY <3>1, <3>2
  <2>3. Times(t, e, s)'
    BY <1>4, JudgeTimes
  <2>. QED
    BY <2>2, <2>3
<1>5. CASE Arm
  <2>1. PICK x \in [Slot -> Int] : /\ Times(t, e, x)'
                                   /\ x[armidx] = e + Offset(armidx) - Latency
                                   /\ \A i \in Slot : i # armidx => x[i] = s[i]
    BY <1>5, ArmTimes
  <2>2. pc = "arm" /\ armed' = armed \cup {armidx} /\ UNCHANGED <<queue, ev, busy>> /\ Handling
    BY <1>5 DEF Arm, Handling
  <2>3. ~In(Superframe, queue')
    BY <2>2 DEF OneEach
  <2>4. \A i \in armed' : x[i] <= e + Offset(i) - Latency
    <3>. SUFFICES ASSUME NEW i \in armed'
                  PROVE  x[i] <= e + Offset(i) - Latency
      OBVIOUS
    <3>1. CASE i = armidx
      BY <1>0, <2>1, <3>1, TypeFacts
    <3>2. CASE i # armidx
      <4>1. i \in armed /\ i \in Slot
        BY <2>2, <3>2, TypeFacts
      <4>2. s[i] <= e + Offset(i) - Latency
        BY <4>1 DEF Timely
      <4>. QED
        BY <2>1, <3>2, <4>1, <4>2
    <3>. QED
      BY <3>1, <3>2
  <2>5. Timely(t, e, x)'
    BY <2>2, <2>3, <2>4 DEF Timely
  <2>. QED
    BY <2>1, <2>5
<1>6. CASE RunEnds \/ UNCHANGED vars
  <2>1. UNCHANGED <<now, os_epoch, start, armed, queue, ev, armidx, busy, ran>>
        /\ (pc' = pc \/ (pc = "run" /\ pc' = "get"))
    BY <1>6 DEF RunEnds, vars, task
  <2>2. Times(t, e, s)'
    BY <2>1, SameTimes
  <2>3. Pending' = Pending /\ Waiting' = Waiting /\ (Handling' <=> Handling)
    BY <2>1 DEF Pending, Waiting, Handling
  <2>4. Load(Out)' = Load(Out)
    BY <2>3 DEF Out, Load
  <2>5. Timely(t, e, s)'
    BY <2>1, <2>3, <2>4 DEF Timely
  <2>. QED
    BY <2>2, <2>5
<1>7. CASE Tick
  <2>1. /\ UNCHANGED <<armed, queue, pc, ev, armidx>>
        /\ (pc = "get" /\ queue = <<>>) \/ (busy' = busy + 1)
    BY <1>7 DEF Tick
  <2>2. Pending' = Pending /\ Waiting' = Waiting /\ (Handling' <=> Handling)
    BY <2>1 DEF Pending, Waiting, Handling
  <2>3. Load(Out)' = Load(Out)
    BY <2>2 DEF Out, Load
  <2>4. Timely(t + 1, e, s)'
    <3>1. CASE pc = "get" /\ queue = <<>>
      <4>1. ~In(Superframe, queue') /\ ~Handling'
        BY <2>1, <3>1 DEF In, Handling
      <4>. QED
        BY <2>1, <4>1 DEF Timely
    <3>2. CASE busy' = busy + 1
      <4>1. /\ In(Superframe, queue) => t - e <= IrqDelay + busy + Load(NSlots) - Load(Out)
            /\ Handling => t - e <= IrqDelay + Load(NSlots) + MaxBusy + busy
        BY DEF Timely
      <4>2. /\ In(Superframe, queue) => (t + 1) - e <= IrqDelay + (busy + 1) + Load(NSlots) - Load(Out)
            /\ Handling => (t + 1) - e <= IrqDelay + Load(NSlots) + MaxBusy + (busy + 1)
        BY <1>0, <4>1
      <4>3. \A i \in armed' : s[i] <= e + Offset(i) - Latency
        BY <2>1 DEF Timely
      <4>. QED
        BY <2>1, <2>2, <2>3, <3>2, <4>2, <4>3 DEF Timely
    <3>. QED
      BY <2>1, <3>1, <3>2
  <2>5. Times(t + 1, e, s)' /\ t + 1 \in Int
    BY <1>7, TickTimes
  <2>. QED
    BY <2>4, <2>5
<1>. QED
  BY <1>1, <1>2, <1>3, <1>4, <1>5, <1>6, <1>7 DEF Next

(* A slot that runs has not run in this superframe.                          *)
LEMMA RunOnceNext ==
  ASSUME IInv, Smooth => OneEach, RunOnce, Smooth' => Smooth, [Next]_vars
  PROVE  RunOnce'
<1>. SUFFICES ASSUME Smooth', NEW j \in DOMAIN ran', NEW k \in DOMAIN ran', j < k
              PROVE  ran'[j] < ran'[k]
  BY DEF RunOnce, Smooth
<1>1. OneEach /\ \A m, n \in DOMAIN ran : m < n => ran[m] < ran[n]
  BY DEF RunOnce, Smooth
<1>2. CASE ran' = ran
  BY <1>1, <1>2
<1>3. CASE ran' = <<>>
  BY <1>3
<1>4. CASE pc = "judge" /\ ev \in Slot /\ ev # 0 /\ ~TooLate(ev) /\ ran' = Append(ran, ev)
  <2>1. (\A m \in DOMAIN ran : ran[m] <= ev) /\ ev \in 1 .. NSlots - 1
    BY <1>4, RunInOrder
  <2>2. \A m \in DOMAIN ran : ran[m] # ev
    <3>1. Chances(ev) <= 1
      BY <1>1, <2>1 DEF OneEach
    <3>2. Hits(ran, {ev}) \in Nat /\ One(In(ev, queue)) \in Nat /\ One(ev \in Pending) \in Nat
      BY ChancesFacts DEF IInv
    <3>3. One(pc = "judge" /\ ev = ev) = 1
      BY <1>4 DEF One
    <3>4. Hits(ran, {ev}) = 0
      BY <3>1, <3>2, <3>3 DEF Chances
    <3>. DEFINE P == {m \in DOMAIN ran : ran[m] \in {ev}}
    <3>5. IsFiniteSet(P) /\ Cardinality(P) = 0
      BY <3>4, TypeFacts, HitsFacts DEF IInv, Hits
    <3>6. P = {}
      <4>. HIDE DEF P
      <4>. QED
        BY <3>5, FS_EmptySet
    <3>. QED
      BY <3>6
  <2>3. ran \in Seq(Slot \ {0}) /\ \A i \in Slot : i \in Int
    BY TypeFacts, ConstFacts DEF IInv
  <2>4. \A m \in DOMAIN ran' : m \in DOMAIN ran \/ m = Len(ran) + 1
    BY <1>4, <2>3
  <2>5. /\ \A m \in DOMAIN ran : ran'[m] = ran[m] /\ ran[m] \in Int /\ m \in 1 .. Len(ran)
        /\ ran'[Len(ran) + 1] = ev /\ Len(ran) \in Nat
    BY <1>4, <2>3
  <2>6. j \in DOMAIN ran
    BY <2>4, <2>5
  <2>7. CASE k \in DOMAIN ran
    BY <1>1, <2>5, <2>6, <2>7
  <2>8. CASE k = Len(ran) + 1
    <3>1. ran[j] <= ev /\ ran[j] # ev /\ ran[j] \in Int /\ ev \in Int
      BY <2>1, <2>2, <2>5, <2>6
    <3>. QED
      BY <2>5, <2>6, <2>8, <3>1
  <2>. QED
    BY <2>4, <2>7, <2>8
<1>5. ran' # ran => Judge
  BY DEF Next, SuperframeCb, SlotTimerCb, Get, Arm, RunEnds, Tick, vars
<1>. QED
  BY <1>2, <1>3, <1>4, <1>5 DEF Judge

(* Every step keeps the invariant of a superframe without an early packet.   *)
LEMMA OnceNext == OnceInv /\ [Next]_vars => OnceInv'
<1>. SUFFICES ASSUME OnceInv, [Next]_vars
              PROVE  OnceInv'
  OBVIOUS
<1>1. TypeOK /\ TwiceInv /\ TimeInv /\ IInv /\ (Smooth => OneEach) /\ RunOnce
  BY DEF OnceInv, IInv
<1>2. TypeOK' /\ TwiceInv' /\ TimeInv'
  BY <1>1, TypeNext, TwiceNext, TimeNext
<1>3. PICK t \in Int, e \in Int :
        \E s \in [Slot -> Int] : Times(t, e, s) /\ (Smooth => Timely(t, e, s))
  BY DEF OnceInv, OnceTimes
<1>4. PICK s \in [Slot -> Int] : Times(t, e, s) /\ (Smooth => Timely(t, e, s))
  BY <1>3
<1>5. Smooth' => Smooth /\ OneEach'
  BY <1>1, <1>2, <1>4, OneEachNext
<1>6. OnceTimes'
  <2>1. CASE Smooth'
    <3>1. \E x, y \in Int : \E z \in [Slot -> Int] : Times(x, y, z)' /\ Timely(x, y, z)'
      BY <1>1, <1>2, <1>4, <1>5, <2>1, TimelyNext
    <3>. QED
      BY <3>1 DEF OnceTimes
  <2>2. CASE ~Smooth'
    BY <1>2, <2>2 DEF OnceTimes, TimeInv
  <2>. QED
    BY <2>1, <2>2
<1>7. RunOnce'
  BY <1>1, <1>5, RunOnceNext
<1>. QED
  BY <1>2, <1>5, <1>6, <1>7 DEF OnceInv, IInv

(* Initially there is nothing to run.                                        *)
LEMMA OnceInit == Init => OnceInv
<1>. SUFFICES ASSUME Init
              PROVE  OnceInv
  OBVIOUS
<1>1. TypeOK /\ TwiceInv /\ TimeInv
  BY TypeInit, TimeInit
<1>2. armed = {} /\ ~In(Superframe, queue) /\ ~Handling /\ pc = "get"
  BY DEF Init, In, Handling
<1>3. PICK t \in Int, e \in Int : \E s \in [Slot -> Int] : Times(t, e, s)
  BY <1>1 DEF TimeInv
<1>4. PICK s \in [Slot -> Int] : Times(t, e, s)
  BY <1>3
<1>5. Timely(t, e, s)
  BY <1>2 DEF Timely
<1>6. OneEach
  <2>1. \A i : Hits(ran, {i}) = 0
    <3>1. <<>> \in Seq(Slot)
      OBVIOUS
    <3>. QED
      BY <3>1, HitsFacts DEF Init
  <2>2. \A i : ~In(i, queue) /\ i \notin Pending
    BY DEF Init, In, Pending
  <2>3. \A i : Chances(i) = 0
    BY <1>2, <2>1, <2>2 DEF Chances, One
  <2>. QED
    BY <1>2, <2>3 DEF OneEach
<1>7. RunOnce
  BY DEF Init, RunOnce
<1>. QED
  BY <1>1, <1>4, <1>5, <1>6, <1>7 DEF OnceInv, OnceTimes, IInv

(* A slot runs once in a superframe, and the slots in their order, as long   *)
(* as the packets come a superframe apart and the task is not overloaded.    *)
THEOREM RunOnceSafe == Spec => []RunOnce
<1>1. OnceInv => RunOnce
  BY DEF OnceInv
<1>. QED
  BY <1>1, OnceInit, OnceNext, PTL DEF Spec
=============================================================================
