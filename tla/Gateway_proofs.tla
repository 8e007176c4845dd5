---------------------------- MODULE Gateway_proofs --------------------------
(* Theorems about Gateway, for any size of the rings and of the pools, any   *)
(* length of a frame and any number of inputs.                               *)
EXTENDS Gateway, SequenceTheorems, TLAPS

-----------------------------------------------------------------------------
(* A ring: how far head is ahead of tail, and where an index is from tail on *)
(* and from head backwards.                                                  *)

Fill(r) ==
  IF r.head >= r.tail THEN r.head - r.tail ELSE RbufSize + r.head - r.tail

Offset(r, i) == IF i >= r.tail THEN i - r.tail ELSE RbufSize + i - r.tail

Age(r, i) == IF i < r.head THEN r.head - 1 - i ELSE RbufSize + r.head - 1 - i

(* The index after another wraps around at the end of the ring. *)
LEMMA FollowingFacts ==
  ASSUME NEW i \in Index
  PROVE  Following(i) \in Index /\ Following(i) = IF i = RbufSize - 1 THEN 0 ELSE i + 1
BY RbufAssumption DEF Index, Following

(* Fill, offsets and the tests of rbuf.c on any ring. *)
LEMMA RingFacts ==
  ASSUME NEW r \in Rbuf
  PROVE  /\ r.head \in Index /\ r.tail \in Index /\ r.full \in BOOLEAN
         /\ r.buffer \in [Index -> Nat]
         /\ Fill(r) \in Index /\ Offset(r, r.head) = Fill(r) /\ Offset(r, r.tail) = 0
         /\ rbuf_size(r) = IF r.full THEN RbufSize ELSE Fill(r)
         /\ rbuf_empty(r) <=> ~r.full /\ Fill(r) = 0
         /\ r.head = r.tail <=> Fill(r) = 0
         /\ \A i \in Index : /\ Offset(r, i) \in Index /\ Age(r, i) \in Index
                             /\ Offset(r, i) = 0 <=> i = r.tail
                             /\ Offset(r, i) = Fill(r) <=> i = r.head
<1>1. /\ r.head \in Index /\ r.tail \in Index /\ r.full \in BOOLEAN
      /\ r.buffer \in [Index -> Nat]
  BY DEF Rbuf
<1>2. Fill(r) \in Index /\ (r.head = r.tail <=> Fill(r) = 0)
  BY <1>1, RbufAssumption DEF Index, Fill
<1>3. ASSUME NEW i \in Index
      PROVE  /\ Offset(r, i) \in Index /\ Age(r, i) \in Index
             /\ Offset(r, i) = 0 <=> i = r.tail
             /\ Offset(r, i) = Fill(r) <=> i = r.head
  <2>1. /\ r.head \in Int /\ r.tail \in Int /\ i \in Int /\ RbufSize \in Int
        /\ 0 <= r.head /\ r.head < RbufSize /\ 0 <= r.tail /\ r.tail < RbufSize
        /\ 0 <= i /\ i < RbufSize
    BY <1>1, RbufAssumption DEF Index
  <2>2. Offset(r, i) \in Index /\ (Offset(r, i) = 0 <=> i = r.tail)
    BY <2>1 DEF Index, Offset
  <2>3. Age(r, i) \in Index
    BY <2>1 DEF Index, Age
  <2>4. Offset(r, i) = Fill(r) <=> i = r.head
    BY <2>1 DEF Fill, Offset
  <2>. QED
    BY <2>2, <2>3, <2>4
<1>4. /\ rbuf_size(r) = IF r.full THEN RbufSize ELSE Fill(r)
      /\ rbuf_empty(r) <=> ~r.full /\ Fill(r) = 0
  BY <1>2 DEF Fill, rbuf_size, rbuf_empty
<1>. QED
  BY <1>1, <1>2, <1>3, <1>4

(* A store moves head by one and makes every other character one older. *)
LEMMA StoreFacts ==
  ASSUME NEW r \in Rbuf, NEW c \in Nat,
         NEW s, s = Store(r, c)
  PROVE  /\ s \in Rbuf /\ s.full = r.full /\ s.tail = r.tail
         /\ Fill(s) = IF Fill(r) = RbufSize - 1 THEN 0 ELSE Fill(r) + 1
         /\ \A i \in Index :
              /\ s.buffer[i] = IF i = r.head THEN c ELSE r.buffer[i]
              /\ Offset(s, i) = Offset(r, i)
              /\ Age(s, i) = IF i = r.head THEN 0 ELSE Age(r, i) + 1
<1>1. /\ r.head \in Index /\ r.tail \in Index /\ r.full \in BOOLEAN
      /\ r.buffer \in [Index -> Nat]
  BY DEF Rbuf
<1>2. Following(r.head) \in Index
      /\ Following(r.head) = IF r.head = RbufSize - 1 THEN 0 ELSE r.head + 1
  BY <1>1, FollowingFacts
<1>3. /\ s \in Rbuf /\ s.full = r.full /\ s.tail = r.tail /\ s.head = Following(r.head)
      /\ \A i \in Index : s.buffer[i] = IF i = r.head THEN c ELSE r.buffer[i]
  <2>. DEFINE b == [r.buffer EXCEPT ![r.head] = c]
  <2>1. b \in [Index -> Nat] /\ \A i \in Index : b[i] = IF i = r.head THEN c ELSE r.buffer[i]
    BY <1>1
  <2>2. s = [r EXCEPT !.buffer = b, !.head = Following(r.head)]
    BY DEF Store
  <2>. HIDE DEF b
  <2>3. s \in Rbuf /\ s.buffer = b /\ s.full = r.full /\ s.tail = r.tail /\ s.head = Following(r.head)
    BY <1>2, <2>1, <2>2 DEF Rbuf
  <2>. QED
    BY <2>1, <2>3
<1>4. /\ Fill(s) = IF Fill(r) = RbufSize - 1 THEN 0 ELSE Fill(r) + 1
      /\ \A i \in Index : Offset(s, i) = Offset(r, i)
  <2>1. /\ r.head \in Int /\ r.tail \in Int /\ RbufSize \in Int
        /\ 0 <= r.head /\ r.head < RbufSize /\ 0 <= r.tail /\ r.tail < RbufSize
        /\ s.head = IF r.head = RbufSize - 1 THEN 0 ELSE r.head + 1
        /\ s.tail = r.tail
    BY <1>1, <1>2, <1>3, RbufAssumption DEF Index
  <2>2. Fill(s) = IF Fill(r) = RbufSize - 1 THEN 0 ELSE Fill(r) + 1
    BY <2>1 DEF Fill
  <2>. QED
    BY <2>1, <2>2 DEF Offset
<1>5. ASSUME NEW i \in Index
      PROVE  Age(s, i) = IF i = r.head THEN 0 ELSE Age(r, i) + 1
  <2>1. /\ r.head \in Int /\ i \in Int /\ RbufSize \in Int
        /\ 0 <= r.head /\ r.head < RbufSize /\ 0 <= i /\ i < RbufSize
        /\ s.head = IF r.head = RbufSize - 1 THEN 0 ELSE r.head + 1
    BY <1>1, <1>2, <1>3, RbufAssumption DEF Index
  <2>. QED
    BY <2>1 DEF Age
<1>. QED
  BY <1>3, <1>4, <1>5

(* rbuf_put of a handler sets full exactly when head reaches tail. *)
LEMMA PutFacts ==
  ASSUME NEW r \in Rbuf, NEW c \in Nat, ~r.full,
         NEW s, s = Put(r, c)
  PROVE  /\ s \in Rbuf /\ s.tail = r.tail
         /\ s.full <=> Fill(r) = RbufSize - 1
         /\ Fill(s) = IF Fill(r) = RbufSize - 1 THEN 0 ELSE Fill(r) + 1
         /\ \A i \in Index :
              /\ s.buffer[i] = IF i = r.head THEN c ELSE r.buffer[i]
              /\ Offset(s, i) = Offset(r, i)
<1>. DEFINE t == Store(r, c)
<1>1. s = [t EXCEPT !.full = (t.head = t.tail)]
  BY DEF Put
<1>2. /\ t \in Rbuf /\ t.full = r.full /\ t.tail = r.tail
      /\ Fill(t) = IF Fill(r) = RbufSize - 1 THEN 0 ELSE Fill(r) + 1
      /\ \A i \in Index :
           /\ t.buffer[i] = IF i = r.head THEN c ELSE r.buffer[i]
           /\ Offset(t, i) = Offset(r, i)
  BY StoreFacts
<1>3. Fill(r) \in Index /\ (t.head = t.tail <=> Fill(t) = 0)
  BY <1>2, RingFacts
<1>. HIDE DEF t
<1>4. /\ s \in Rbuf /\ (s.full <=> t.head = t.tail) /\ s.tail = t.tail /\ s.head = t.head
      /\ s.buffer = t.buffer
  BY <1>1, <1>2 DEF Rbuf
<1>5. Fill(s) = Fill(t) /\ \A i \in Index : Offset(s, i) = Offset(t, i)
  BY <1>4 DEF Fill, Offset
<1>6. s.full <=> Fill(r) = RbufSize - 1
  BY <1>2, <1>3, <1>4, RbufAssumption DEF Index
<1>. QED
  BY <1>2, <1>4, <1>5, <1>6

(* Moving tail takes one off the offset of every remaining character. *)
LEMMA AdvanceFacts ==
  ASSUME NEW r \in Rbuf, NEW s, s.head = r.head, s.tail = Following(r.tail)
  PROVE  /\ Fill(s) = IF Fill(r) = 0 THEN RbufSize - 1 ELSE Fill(r) - 1
         /\ \A i \in Index :
              /\ Offset(s, i) = IF i = r.tail THEN RbufSize - 1 ELSE Offset(r, i) - 1
              /\ Age(s, i) = Age(r, i)
<1>1. r.head \in Index /\ r.tail \in Index
  BY DEF Rbuf
<1>2. Following(r.tail) = IF r.tail = RbufSize - 1 THEN 0 ELSE r.tail + 1
  BY <1>1, FollowingFacts
<1>3. /\ r.head \in Int /\ r.tail \in Int /\ RbufSize \in Int
      /\ 0 <= r.head /\ r.head < RbufSize /\ 0 <= r.tail /\ r.tail < RbufSize
      /\ s.tail = IF r.tail = RbufSize - 1 THEN 0 ELSE r.tail + 1
      /\ s.head = r.head
  BY <1>1, <1>2, RbufAssumption DEF Index
<1>4. Fill(s) = IF Fill(r) = 0 THEN RbufSize - 1 ELSE Fill(r) - 1
  BY <1>3 DEF Fill
<1>5. ASSUME NEW i \in Index
      PROVE  Offset(s, i) = IF i = r.tail THEN RbufSize - 1 ELSE Offset(r, i) - 1
  <2>1. i \in Int /\ 0 <= i /\ i < RbufSize
    BY RbufAssumption DEF Index
  <2>. QED
    BY <1>3, <2>1 DEF Offset
<1>6. \A i \in Index : Age(s, i) = Age(r, i)
  BY DEF Age
<1>. QED
  BY <1>4, <1>5, <1>6

-----------------------------------------------------------------------------
(* The invariant. *)

(* Every mbuf is free, in a queue, lost, or the one the uplink task writes.  *)
MbufInv ==
  /\ down.free + Len(down.queue) + lost["down"] = NumMbufs
  /\ up.free + Len(up.queue) + lost["up"]
       + (IF ul.pc \in {"put", "compare", "full"} THEN 1 ELSE 0) = NumMbufs
  /\ ul.pc \in {"compare", "full"} => ul.chars > 0

(* The downlink task is on the way to a character it has a token for. *)
Going == IF dl = "get" THEN 1 ELSE 0

(* The characters rbuf_get will still find: between its two assignments the  *)
(* flag full says nothing.                                                   *)
Content == IF dl = "clear" THEN Fill(rbuf_rx) ELSE rbuf_size(rbuf_rx)

TokenInv ==
  /\ Content <= sem_rx + Going
  /\ dl = "clear" => rbuf_size(rbuf_rx) <= sem_rx + 1
  /\ ~filled => ~rbuf_rx.full /\ Fill(rbuf_rx) = sem_rx + Going

(* From tail to head the ring holds characters in the order of the line, all *)
(* of them later than those that were read.                                  *)
OrderInv ==
  /\ dl # "clear" /\ rbuf_rx.full => Fill(rbuf_rx) = 0
  /\ lastRead <= received
  /\ \A i \in Index : Offset(rbuf_rx, i) < Content =>
       lastRead < rbuf_rx.buffer[i] /\ rbuf_rx.buffer[i] <= received
  /\ \A i, j \in Index :
       Offset(rbuf_rx, i) < Offset(rbuf_rx, j) /\ Offset(rbuf_rx, j) < Content =>
         rbuf_rx.buffer[i] < rbuf_rx.buffer[j]

(* Before head the ring holds the last characters that were written. *)
Recent(r, w) ==
  \A i \in Index : r.buffer[i] = IF Age(r, i) < w THEN w - Age(r, i) ELSE 0

(* The characters not yet transmitted, of w written ones, are in the ring:   *)
(* if head has reached tail it is full, or the task is about to say so.      *)
Due(r, w, l, racing) ==
  w - l <= IF Fill(r) # 0 THEN Fill(r) ELSE IF r.full \/ racing THEN RbufSize ELSE 0

Racing == ul.pc = "compare" \/ (ul.pc = "full" /\ ul.same)

SendInv ==
  /\ ul.pc \in {"compare", "full"} => ~rbuf_tx.full
  /\ lastSent <= written
  /\ Recent(rbuf_tx, written)
  /\ Due(rbuf_tx, written, lastSent, Racing)

IInv == TypeOK /\ MbufInv /\ TokenInv /\ OrderInv /\ SendInv

-----------------------------------------------------------------------------
(* Transmission. *)

(* The character at tail is the oldest in the ring. *)
LEMMA TailAge ==
  ASSUME NEW r \in Rbuf
  PROVE  Age(r, r.tail) = IF Fill(r) = 0 THEN RbufSize - 1 ELSE Fill(r) - 1
<1>1. r.head \in Index /\ r.tail \in Index
  BY DEF Rbuf
<1>. QED
  BY <1>1, RbufAssumption DEF Index, Age, Fill

(* The oldest character in the ring is at most the next one to transmit. *)
LEMMA GetSends ==
  ASSUME NEW r \in Rbuf, NEW w \in Nat, NEW l \in Nat, l <= w, NEW racing \in BOOLEAN,
         Recent(r, w), Due(r, w, l, racing), ~rbuf_empty(r),
         NEW m, m = IF Char(r) > l THEN Char(r) ELSE l
  PROVE  /\ Get(r) \in Rbuf /\ ~Get(r).full
         /\ m \in Nat /\ l <= m /\ m <= w /\ m <= l + 1
         /\ Recent(Get(r), w)
         /\ \A any \in BOOLEAN : Due(Get(r), w, m, any)
<1>. DEFINE s == Get(r)
            f == Fill(r)
            c == Char(r)
            a == Age(r, r.tail)
<1>0. /\ r.head \in Index /\ r.tail \in Index /\ r.full \in BOOLEAN
      /\ r.buffer \in [Index -> Nat] /\ f \in Index /\ (r.head = r.tail <=> f = 0)
  BY RingFacts
<1>1. /\ s \in Rbuf /\ ~s.full /\ s.buffer = r.buffer
      /\ Fill(s) = IF f = 0 THEN RbufSize - 1 ELSE f - 1
      /\ \A i \in Index : Age(s, i) = Age(r, i)
  <2>1. /\ s \in Rbuf /\ ~s.full /\ s.buffer = r.buffer
        /\ s.head = r.head /\ s.tail = Following(r.tail)
    BY <1>0, FollowingFacts DEF Get, Advance, Rbuf
  <2>. HIDE DEF s
  <2>. QED
    BY <2>1, AdvanceFacts
<1>2. /\ f \in Nat /\ f <= RbufSize - 1 /\ RbufSize \in Nat \ {0}
      /\ (f = 0 => r.full) /\ r.tail \in Index
  <2>1. f = 0 => r.full
    BY <1>0 DEF rbuf_empty
  <2>. HIDE DEF f
  <2>. QED
    BY <1>0, <2>1, RbufAssumption DEF Index
<1>3. a \in Nat /\ a = IF f = 0 THEN RbufSize - 1 ELSE f - 1
  <2>1. a = IF f = 0 THEN RbufSize - 1 ELSE f - 1
    BY TailAge
  <2>. HIDE DEF a, f
  <2>. QED
    BY <1>2, <2>1
<1>4. c = IF a < w THEN w - a ELSE 0
  <2>1. \A i \in Index : r.buffer[i] = IF Age(r, i) < w THEN w - Age(r, i) ELSE 0
    BY DEF Recent
  <2>2. r.tail \in Index
    BY <1>2
  <2>. QED
    BY <2>1, <2>2, Zenon DEF Char
<1>5. w - l <= a + 1
  BY <1>2, <1>3 DEF Due
<1>. HIDE DEF s, f, c, a
<1>6. m \in Nat /\ l <= m /\ m <= w /\ m <= l + 1 /\ w - m <= a
  <2>1. m = IF c > l THEN c ELSE l
    BY DEF c
  <2>. QED
    BY <1>3, <1>4, <1>5, <2>1
<1>7. Fill(s) = a
  BY <1>1, <1>3
<1>8. ASSUME NEW any \in BOOLEAN
      PROVE  Due(s, w, m, any)
  BY <1>2, <1>3, <1>6, <1>7 DEF Due
<1>9. Recent(s, w)
  BY <1>1 DEF Recent
<1>. QED
  BY <1>1, <1>6, <1>8, <1>9 DEF s

(* The type invariant, field by field. *)
LEMMA TypeFacts ==
  TypeOK <=>
    /\ rbuf_rx \in Rbuf /\ rbuf_tx \in Rbuf
    /\ sem_rx \in Nat /\ uart \in BOOLEAN /\ filled \in BOOLEAN
    /\ received \in Nat /\ written \in Nat /\ lastRead \in Nat /\ lastSent \in Nat
    /\ dl \in {"pend", "get", "clear", "parse"}
    /\ mesh \in {"wait", "loop"}
    /\ ul \in [pc : {"wait", "loop", "put", "compare", "full"}, frames : 0 .. 2,
               chars : 0 .. FrameLen, same : BOOLEAN]
    /\ down \in [free : 0 .. NumMbufs, queue : Seq(Kinds), event : BOOLEAN]
    /\ up \in [free : 0 .. NumMbufs, queue : Seq(Kinds), event : BOOLEAN]
    /\ inputs \in 0 .. MaxInputs
    /\ lost \in [Directions -> Nat]
BY DEF TypeOK, LineTypeOK

(* One character of the transmitter keeps what holds of rbuf_tx. *)
LEMMA TxCharSends ==
  ASSUME TypeOK, SendInv, TxChar
  PROVE  /\ rbuf_tx' \in Rbuf /\ ~rbuf_tx'.full
         /\ lastSent' \in Nat /\ lastSent <= lastSent' /\ lastSent' <= lastSent + 1
         /\ lastSent' <= written /\ written' = written
         /\ Recent(rbuf_tx', written)
         /\ \A any \in BOOLEAN : Due(rbuf_tx', written, lastSent', any)
<1>1. /\ rbuf_tx \in Rbuf /\ written \in Nat /\ lastSent \in Nat /\ Racing \in BOOLEAN
  BY TypeFacts DEF Racing
<1>2. /\ lastSent <= written /\ Recent(rbuf_tx, written)
      /\ Due(rbuf_tx, written, lastSent, Racing)
  BY DEF SendInv
<1>3. /\ ~rbuf_empty(rbuf_tx) /\ rbuf_tx' = Get(rbuf_tx) /\ written' = written
      /\ lastSent' = IF Char(rbuf_tx) > lastSent THEN Char(rbuf_tx) ELSE lastSent
  BY DEF TxChar
<1>. QED
  BY <1>1, <1>2, <1>3, GetSends

(* A character the task puts into a ring that is not full. *)
LEMMA StoreKeeps ==
  ASSUME NEW r \in Rbuf, ~r.full, NEW w \in Nat, NEW l \in Nat, l <= w, NEW racing \in BOOLEAN,
         Recent(r, w), Due(r, w, l, FALSE)
  PROVE  LET s == Store(r, w + 1)
         IN /\ s \in Rbuf /\ ~s.full
            /\ Recent(s, w + 1) /\ Due(s, w + 1, l, TRUE)
<1>. DEFINE s == Store(r, w + 1)
<1>1. /\ s \in Rbuf /\ s.full = r.full
      /\ Fill(s) = IF Fill(r) = RbufSize - 1 THEN 0 ELSE Fill(r) + 1
      /\ \A i \in Index :
           /\ s.buffer[i] = IF i = r.head THEN w + 1 ELSE r.buffer[i]
           /\ Age(s, i) = IF i = r.head THEN 0 ELSE Age(r, i) + 1
  <2>1. w + 1 \in Nat
    OBVIOUS
  <2>. DEFINE c == w + 1
  <2>2. c \in Nat /\ s = Store(r, c)
    BY <2>1
  <2>. HIDE DEF c, s
  <2>3. /\ s \in Rbuf /\ s.full = r.full
        /\ Fill(s) = IF Fill(r) = RbufSize - 1 THEN 0 ELSE Fill(r) + 1
        /\ \A i \in Index :
             /\ s.buffer[i] = IF i = r.head THEN c ELSE r.buffer[i]
             /\ Age(s, i) = IF i = r.head THEN 0 ELSE Age(r, i) + 1
    BY <2>2, StoreFacts
  <2>. QED
    BY <2>3 DEF c
<1>2. Fill(r) \in Index /\ \A i \in Index : Age(r, i) \in Index
  BY RingFacts
<1>. HIDE DEF s
<1>3. ASSUME NEW i \in Index
      PROVE  s.buffer[i] = IF Age(s, i) < w + 1 THEN (w + 1) - Age(s, i) ELSE 0
  <2>1. Age(r, i) \in Nat
    <3>1. Age(r, i) \in Index /\ \A x \in Index : x \in Nat
      BY <1>2, RbufAssumption DEF Index
    <3>. QED
      BY <3>1
  <2>2. CASE i = r.head
    <3>1. s.buffer[i] = w + 1 /\ Age(s, i) = 0
      BY <1>1, <2>2
    <3>. QED
      BY <3>1
  <2>3. CASE i # r.head
    <3>1. s.buffer[i] = r.buffer[i] /\ Age(s, i) = Age(r, i) + 1
      BY <1>1, <2>3
    <3>2. r.buffer[i] = IF Age(r, i) < w THEN w - Age(r, i) ELSE 0
      BY DEF Recent
    <3>. QED
      BY <2>1, <3>1, <3>2
  <2>. QED
    BY <2>2, <2>3
<1>5. Recent(s, w + 1)
  BY <1>3 DEF Recent
<1>4. Due(s, w + 1, l, TRUE)
  <2>1. Fill(r) \in Nat /\ RbufSize \in Nat
    BY <1>2, RbufAssumption DEF Index
  <2>2. w - l <= Fill(r)
    BY <2>1 DEF Due
  <2>. QED
    BY <1>1, <2>1, <2>2 DEF Due
<1>. QED
  BY <1>1, <1>4, <1>5 DEF s

(* Steps that leave rbuf_tx alone and end no comparison. *)
LEMMA SendUnchanged ==
  ASSUME SendInv, UNCHANGED <<rbuf_tx, written, lastSent>>,
         ul'.pc \notin {"compare", "full"}, ul.pc \notin {"compare", "full"}
  PROVE  SendInv'
BY DEF SendInv, Racing, Recent, Due, Fill, Age

(* Every step keeps SendInv and passes over no character. *)
LEMMA SendNext ==
  ASSUME TypeOK, SendInv, [Next]_vars
  PROVE  SendInv' /\ lastSent' <= lastSent + 1
<1>1. /\ rbuf_tx \in Rbuf /\ written \in Nat /\ lastSent \in Nat /\ Racing \in BOOLEAN
      /\ ul \in [pc : {"wait", "loop", "put", "compare", "full"}, frames : 0 .. 2,
                 chars : 0 .. FrameLen, same : BOOLEAN]
      /\ rbuf_tx.full \in BOOLEAN
  BY TypeFacts, RingFacts DEF Racing
<1>2. CASE UNCHANGED <<ul, rbuf_tx, written, lastSent>>
  BY <1>1, <1>2 DEF SendInv, Racing, Recent, Due, Fill, Age
<1>3. CASE Irq
  <2>1. CASE TxChar
    <3>1. UNCHANGED ul
      BY <1>3 DEF Irq, gwvars
    <3>2. Racing' \in BOOLEAN
      BY <1>1, <3>1 DEF Racing
    <3>. QED
      BY <2>1, <3>1, <3>2, TxCharSends DEF SendInv
  <2>2. CASE ~TxChar
    BY <1>2, <1>3, <2>2 DEF Irq, UartIrq, gwvars
  <2>. QED
    BY <2>1, <2>2
<1>4. CASE UlRun \/ UlLoop
  <2>1. /\ UNCHANGED <<rbuf_tx, written, lastSent>>
        /\ ul'.pc \notin {"compare", "full"} /\ ul.pc \notin {"compare", "full"}
    BY <1>1, <1>4 DEF UlRun, UlLoop, linevars, txvars
  <2>. QED
    BY <1>1, <2>1, SendUnchanged
<1>5. CASE UlPut
  <2>1. CASE rbuf_tx.full
    <3>1. /\ UNCHANGED <<rbuf_tx, written, lastSent>>
          /\ ul'.pc \notin {"compare", "full"} /\ ul.pc \notin {"compare", "full"}
      BY <1>1, <1>5, <2>1 DEF UlPut, linevars, txvars
    <3>. QED
      BY <1>1, <3>1, SendUnchanged
  <2>2. CASE ~rbuf_tx.full
    <3>1. /\ rbuf_tx' = Store(rbuf_tx, written + 1) /\ written' = written + 1
          /\ lastSent' = lastSent /\ ul'.pc = "compare" /\ ul.pc = "put"
      BY <1>1, <1>5, <2>2 DEF UlPut, TaskStore
    <3>2. /\ lastSent <= written /\ Recent(rbuf_tx, written)
          /\ Due(rbuf_tx, written, lastSent, FALSE)
      BY <3>1 DEF SendInv, Racing, Due
    <3>3. /\ ~rbuf_tx'.full /\ Recent(rbuf_tx', written') /\ Due(rbuf_tx', written', lastSent', TRUE)
      BY <1>1, <2>2, <3>1, <3>2, StoreKeeps
    <3>4. Racing'
      BY <3>1 DEF Racing
    <3>5. Due(rbuf_tx', written', lastSent', Racing')
      BY <3>3, <3>4 DEF Due
    <3>6. lastSent' <= written'
      BY <1>1, <3>1, <3>2
    <3>. QED
      BY <1>1, <3>1, <3>3, <3>5, <3>6 DEF SendInv
  <2>. QED
    BY <2>1, <2>2
<1>6. CASE UlCompare
  <2>1. /\ UNCHANGED <<rbuf_tx, written, lastSent>> /\ ul.pc = "compare" /\ ul'.pc = "full"
        /\ ul'.same = (rbuf_tx.head = rbuf_tx.tail)
    BY <1>1, <1>6 DEF UlCompare, linevars, txvars
  <2>2. Fill(rbuf_tx) = 0 => Racing'
    BY <1>1, <2>1, RingFacts DEF Racing
  <2>3. Due(rbuf_tx', written', lastSent', Racing')
    <3>0. Due(rbuf_tx, written, lastSent, TRUE)
      BY <2>1 DEF SendInv, Due, Racing
    <3>1. Due(rbuf_tx, written, lastSent, Racing')
      <4>1. CASE Racing'
        BY <3>0, <4>1 DEF Due
      <4>2. CASE Fill(rbuf_tx) # 0
        BY <3>0, <4>2 DEF Due
      <4>. QED
        BY <2>2, <4>1, <4>2
    <3>. QED
      BY <2>1, <3>1 DEF Due, Fill
  <2>. QED
    BY <1>1, <2>1, <2>3 DEF SendInv
<1>7. CASE UlSetFull
  <2>1. /\ rbuf_tx' = [rbuf_tx EXCEPT !.full = ul.same] /\ UNCHANGED <<written, lastSent>>
        /\ ul.pc = "full" /\ ul'.pc = "put"
    BY <1>1, <1>7 DEF UlSetFull, TaskSetFull
  <2>2. /\ rbuf_tx'.head = rbuf_tx.head /\ rbuf_tx'.tail = rbuf_tx.tail
        /\ rbuf_tx'.buffer = rbuf_tx.buffer /\ (rbuf_tx'.full <=> ul.same)
    BY <1>1, <2>1 DEF Rbuf
  <2>3. Recent(rbuf_tx', written')
    BY <2>1, <2>2 DEF SendInv, Recent, Age
  <2>4. /\ Fill(rbuf_tx') = Fill(rbuf_tx)
        /\ ~Racing' /\ ~rbuf_tx.full /\ (Racing <=> ul.same)
    <3>1. Fill(rbuf_tx') = Fill(rbuf_tx)
      BY <2>2 DEF Fill
    <3>. QED
      BY <2>1, <3>1 DEF Racing, SendInv
  <2>5. Due(rbuf_tx', written', lastSent', Racing')
    BY <2>1, <2>2, <2>4 DEF SendInv, Due
  <2>. QED
    BY <1>1, <2>1, <2>3, <2>5 DEF SendInv
<1>8. CASE UlStart
  <2>0. ul'.pc \in {"put", "loop"} /\ ul.pc = "put"
    BY <1>1, <1>8 DEF UlStart
  <2>1. CASE TxChar
    <3>1. Racing' \in BOOLEAN
      BY <2>0 DEF Racing
    <3>. QED
      BY <2>0, <2>1, <3>1, TxCharSends DEF SendInv
  <2>2. CASE ~TxChar
    <3>1. UNCHANGED <<rbuf_tx, written, lastSent>>
      BY <1>8, <2>2 DEF UlStart, StartTx, linevars, txvars
    <3>. QED
      BY <1>1, <2>0, <3>1, SendUnchanged
  <2>. QED
    BY <2>1, <2>2
<1>9. CASE Receive \/ \E kind \in Kinds : Status(kind)
  BY <1>2, <1>9 DEF Receive, RxChar, Status, linevars, txvars
<1>10. CASE Downlink
  BY <1>2, <1>10 DEF Downlink, DlPend, DlGet, DlClear, DlParse, Pend, TaskTake, TaskClearFull,
    linevars, txvars
<1>11. CASE Mesh \/ UNCHANGED vars
  BY <1>2, <1>11 DEF Mesh, MeshRun, MeshLoop, linevars, txvars, vars, gwvars
<1>. QED
  BY <1>3, <1>4, <1>5, <1>6, <1>7, <1>8, <1>9, <1>10, <1>11 DEF Next, Uplink

-----------------------------------------------------------------------------
(* Reception. *)

(* Steps that leave rbuf_rx and the downlink task alone. *)
LEMMA RxUnchanged ==
  ASSUME TokenInv, OrderInv, UNCHANGED <<rxvars, dl>>
  PROVE  TokenInv' /\ OrderInv' /\ lastRead' = lastRead
BY DEF TokenInv, OrderInv, rxvars, Going, Content, Fill, Offset, rbuf_size

(* serial_rx_char: a full ring, and a character that fits. *)
LEMMA RxCharNext ==
  ASSUME TypeOK, TokenInv, OrderInv, RxChar, UNCHANGED dl
  PROVE  TokenInv' /\ OrderInv'
<1>. DEFINE r == rbuf_rx
            s == rbuf_rx'
            c == received + 1
<1>1. /\ r \in Rbuf /\ r.full \in BOOLEAN /\ sem_rx \in Nat /\ received \in Nat /\ lastRead \in Nat
      /\ filled \in BOOLEAN /\ Fill(r) \in Index
      /\ rbuf_size(r) = IF r.full THEN RbufSize ELSE Fill(r)
      /\ \A i \in Index : Offset(r, i) \in Index /\ r.buffer[i] \in Nat
  BY TypeFacts, RingFacts
<1>2. /\ sem_rx' = sem_rx + 1 /\ received' = c /\ s = Put(r, c)
      /\ filled' = (filled \/ s.full) /\ UNCHANGED <<lastRead, dl>>
      /\ Going' = Going /\ Going \in {0, 1}
  BY DEF RxChar, Going
<1>3. RbufSize \in Nat /\ \A x \in Index : x \in Nat /\ x <= RbufSize - 1
  BY RbufAssumption DEF Index
<1>4. CASE r.full
  <2>1. s = r
    BY <1>2, <1>4 DEF Put
  <2>2. filled
    BY <1>4 DEF TokenInv
  <2>3. Content' = Content /\ Fill(rbuf_rx') = Fill(r) /\ rbuf_size(rbuf_rx') = rbuf_size(r) /\ filled'
    BY <1>2, <2>1, <2>2 DEF Content, Fill, rbuf_size
  <2>4. Content \in Nat /\ rbuf_size(r) \in Nat
    BY <1>1, <1>3 DEF Content
  <2>5. TokenInv'
    BY <1>1, <1>2, <2>3, <2>4 DEF TokenInv
  <2>6. \A i \in Index : Offset(s, i) = Offset(r, i) /\ s.buffer[i] = r.buffer[i]
    BY <2>1 DEF Offset
  <2>7. OrderInv'
    BY <1>1, <1>2, <2>1, <2>3, <2>6 DEF OrderInv
  <2>. QED
    BY <2>5, <2>7
<1>5. CASE ~r.full
  <2>1. /\ s \in Rbuf /\ s.tail = r.tail
        /\ s.full <=> Fill(r) = RbufSize - 1
        /\ Fill(s) = IF Fill(r) = RbufSize - 1 THEN 0 ELSE Fill(r) + 1
        /\ \A i \in Index :
             /\ s.buffer[i] = IF i = r.head THEN c ELSE r.buffer[i]
             /\ Offset(s, i) = Offset(r, i)
    BY <1>1, <1>2, <1>5, PutFacts
  <2>2. /\ rbuf_size(r) = Fill(r) /\ Content = Fill(r)
        /\ rbuf_size(s) = IF s.full THEN RbufSize ELSE Fill(s)
    BY <1>1, <1>5, <2>1, RingFacts DEF Content
  <2>3. Fill(r) \in Nat /\ Fill(r) <= RbufSize - 1
    BY <1>1, <1>3
  <2>4. rbuf_size(s) = Fill(r) + 1 /\ Content' \in {0, Fill(r) + 1}
    BY <1>3, <2>1, <2>2, <2>3 DEF Content
  <2>5. TokenInv'
    <3>0. /\ Fill(r) <= sem_rx + Going /\ Going \in Nat
          /\ sem_rx' + Going' = sem_rx + Going + 1
      BY <1>1, <1>2, <2>2 DEF TokenInv
    <3>1. Content' <= sem_rx' + Going'
      BY <1>1, <2>3, <2>4, <3>0
    <3>2. rbuf_size(s) <= sem_rx' + Going'
      BY <1>1, <2>3, <2>4, <3>0
    <3>3. dl' = "clear" => rbuf_size(s) <= sem_rx' + 1
      <4>. SUFFICES ASSUME dl' = "clear" PROVE rbuf_size(s) <= sem_rx' + 1
        OBVIOUS
      <4>1. Going' = 0 /\ sem_rx' \in Nat
        BY <1>1, <1>2 DEF Going
      <4>. QED
        BY <2>3, <2>4, <3>2, <4>1
    <3>4. ASSUME ~filled'
          PROVE  ~s.full /\ Fill(s) = sem_rx' + Going'
      <4>1. ~filled /\ ~s.full
        BY <1>2, <3>4
      <4>2. Fill(r) = sem_rx + Going /\ Fill(s) = Fill(r) + 1
        BY <2>1, <4>1 DEF TokenInv
      <4>. QED
        BY <3>0, <4>1, <4>2
    <3>. QED
      BY <3>1, <3>3, <3>4 DEF TokenInv
  <2>6. OrderInv'
    <3>1. dl' # "clear" /\ s.full => Fill(s) = 0
      BY <2>1
    <3>2. lastRead' <= received'
      BY <1>1, <1>2 DEF OrderInv
    <3>3. \A i \in Index : Offset(r, i) = Fill(r) <=> i = r.head
      BY <1>1, RingFacts
    <3>4. ASSUME NEW i \in Index, Offset(s, i) < Content'
          PROVE  lastRead' < s.buffer[i] /\ s.buffer[i] <= received'
      <4>1. Offset(r, i) \in Nat /\ Offset(r, i) <= Fill(r)
        BY <1>1, <1>3, <2>1, <2>3, <2>4, <3>4
      <4>2. CASE i = r.head
        BY <1>1, <1>2, <2>1, <4>2 DEF OrderInv
      <4>3. CASE i # r.head
        <5>1. Offset(r, i) < Content
          BY <2>2, <2>3, <3>3, <4>1, <4>3
        <5>2. lastRead < r.buffer[i] /\ r.buffer[i] <= received
          BY <5>1 DEF OrderInv
        <5>3. s.buffer[i] = r.buffer[i] /\ r.buffer[i] \in Nat
          BY <1>1, <2>1, <4>3
        <5>. QED
          BY <1>1, <1>2, <5>2, <5>3
      <4>. QED
        BY <4>2, <4>3
    <3>5. ASSUME NEW i \in Index, NEW j \in Index,
                 Offset(s, i) < Offset(s, j), Offset(s, j) < Content'
          PROVE  s.buffer[i] < s.buffer[j]
      <4>1. /\ Offset(r, i) \in Nat /\ Offset(r, j) \in Nat
            /\ Offset(r, i) < Offset(r, j) /\ Offset(r, j) <= Fill(r)
        BY <1>1, <1>3, <2>1, <2>3, <2>4, <3>5
      <4>2. Offset(r, i) < Content /\ i # r.head
        BY <2>2, <2>3, <3>3, <4>1
      <4>3. s.buffer[i] = r.buffer[i] /\ r.buffer[i] \in Nat /\ r.buffer[i] <= received
        BY <1>1, <2>1, <4>2 DEF OrderInv
      <4>4. CASE j = r.head
        <5>1. s.buffer[j] = c
          BY <2>1, <4>4
        <5>. QED
          BY <1>1, <4>3, <5>1
      <4>5. CASE j # r.head
        <5>1. Offset(r, j) < Content /\ s.buffer[j] = r.buffer[j]
          BY <2>1, <2>2, <2>3, <3>3, <4>1, <4>5
        <5>. QED
          BY <4>1, <4>3, <5>1 DEF OrderInv
      <4>. QED
        BY <4>4, <4>5
    <3>. QED
      BY <3>1, <3>2, <3>4, <3>5 DEF OrderInv
  <2>. QED
    BY <2>5, <2>6
<1>. QED
  BY <1>1, <1>4, <1>5

(* rbuf_get up to the flag: the oldest character is read.                     *)
LEMMA TakeNext ==
  ASSUME TypeOK, TokenInv, OrderInv, dl = "get", dl' = "clear", ~rbuf_empty(rbuf_rx), TaskTake
  PROVE  TokenInv' /\ OrderInv' /\ lastRead < lastRead'
<1>. DEFINE r == rbuf_rx
            s == rbuf_rx'
            f == Fill(r)
<1>1. /\ r \in Rbuf /\ r.full \in BOOLEAN /\ sem_rx \in Nat /\ received \in Nat /\ lastRead \in Nat
      /\ r.head \in Index /\ r.tail \in Index /\ r.buffer \in [Index -> Nat]
      /\ f \in Index /\ Offset(r, r.tail) = 0
      /\ rbuf_size(r) = IF r.full THEN RbufSize ELSE f
      /\ rbuf_empty(r) <=> ~r.full /\ f = 0
      /\ \A i \in Index : Offset(r, i) \in Index /\ (Offset(r, i) = 0 <=> i = r.tail)
  BY TypeFacts, RingFacts
<1>2. /\ s = Advance(r) /\ lastRead' = r.buffer[r.tail] /\ UNCHANGED <<sem_rx, received, filled>>
      /\ Going = 1 /\ Going' = 0
  BY DEF TaskTake, Char, Going
<1>3. /\ RbufSize \in Nat \ {0} /\ \A x \in Index : x \in Nat /\ x <= RbufSize - 1
  BY RbufAssumption DEF Index
<1>4. /\ s \in Rbuf /\ s.full = r.full /\ s.buffer = r.buffer /\ s.head = r.head
      /\ s.tail = Following(r.tail)
  BY <1>1, <1>2, FollowingFacts DEF Advance, Rbuf
<1>5. /\ Fill(s) = IF f = 0 THEN RbufSize - 1 ELSE f - 1
      /\ \A i \in Index : Offset(s, i) = IF i = r.tail THEN RbufSize - 1 ELSE Offset(r, i) - 1
  BY <1>1, <1>4, AdvanceFacts
<1>6. /\ f \in Nat /\ f <= RbufSize - 1 /\ (~r.full => f # 0) /\ (r.full => f = 0)
      /\ Content = IF r.full THEN RbufSize ELSE f
      /\ Content' = Fill(s) /\ rbuf_size(s) = IF r.full THEN RbufSize ELSE Fill(s)
  <2>1. f \in Nat /\ f <= RbufSize - 1
    BY <1>1, <1>3
  <2>2. (~r.full => f # 0) /\ (r.full => f = 0)
    BY <1>1 DEF OrderInv
  <2>3. Content' = Fill(s) /\ Content = rbuf_size(r)
    BY DEF Content
  <2>4. rbuf_size(s) = IF s.full THEN RbufSize ELSE Fill(s)
    BY <1>4, RingFacts
  <2>. QED
    BY <1>1, <1>4, <2>1, <2>2, <2>3, <2>4
<1>7. Content' = Content - 1 /\ Content \in Nat /\ Content >= 1
  BY <1>3, <1>5, <1>6
<1>8. TokenInv'
  <2>1. Content <= sem_rx + 1
    BY <1>2 DEF TokenInv
  <2>2. Content' <= sem_rx' + Going'
    BY <1>1, <1>2, <1>7, <2>1
  <2>3. rbuf_size(s) <= sem_rx' + 1
    BY <1>1, <1>2, <1>3, <1>5, <1>6, <2>1
  <2>4. ASSUME ~filled'
        PROVE  ~s.full /\ Fill(s) = sem_rx' + Going'
    <3>1. ~r.full /\ f = sem_rx + 1
      BY <1>2, <2>4 DEF TokenInv
    <3>. QED
      BY <1>1, <1>2, <1>4, <1>5, <1>6, <3>1
  <2>. QED
    BY <2>2, <2>3, <2>4 DEF TokenInv
<1>9. lastRead < lastRead' /\ lastRead' <= received
  <2>1. r.tail \in Index /\ Offset(r, r.tail) < Content
    BY <1>1, <1>7
  <2>. QED
    BY <1>2, <2>1 DEF OrderInv
<1>10. OrderInv'
  <2>1. ASSUME NEW i \in Index, Offset(s, i) < Content'
        PROVE  /\ i # r.tail /\ Offset(r, i) \in Nat /\ Offset(s, i) = Offset(r, i) - 1
               /\ Offset(r, i) < Content
    <3>1. i # r.tail
      BY <1>3, <1>5, <1>6, <1>7, <2>1
    <3>2. Offset(r, i) \in Nat /\ Offset(s, i) = Offset(r, i) - 1
      BY <1>1, <1>3, <1>5, <3>1
    <3>. QED
      BY <1>7, <2>1, <3>1, <3>2
  <2>2. ASSUME NEW i \in Index, Offset(s, i) < Content'
        PROVE  lastRead' < s.buffer[i] /\ s.buffer[i] <= received'
    <3>1. i # r.tail /\ Offset(r, i) \in Nat /\ Offset(r, i) < Content
      BY <2>1, <2>2
    <3>2. Offset(r, r.tail) < Offset(r, i)
      BY <1>1, <3>1
    <3>. QED
      BY <1>1, <1>2, <1>4, <3>1, <3>2 DEF OrderInv
  <2>3. ASSUME NEW i \in Index, NEW j \in Index,
               Offset(s, i) < Offset(s, j), Offset(s, j) < Content'
        PROVE  s.buffer[i] < s.buffer[j]
    <3>1. /\ j # r.tail /\ Offset(r, j) \in Nat /\ Offset(s, j) = Offset(r, j) - 1
          /\ Offset(r, j) < Content
      BY <2>1, <2>3
    <3>2. Offset(r, i) \in Nat
      BY <1>1, <1>3
    <3>3. i # r.tail
      BY <1>3, <1>5, <1>6, <1>7, <2>3, <3>1
    <3>4. Offset(r, i) < Offset(r, j)
      BY <1>5, <2>3, <3>1, <3>2, <3>3
    <3>. QED
      BY <1>4, <3>1, <3>4 DEF OrderInv
  <2>. QED
    BY <1>2, <1>9, <2>2, <2>3 DEF OrderInv
<1>. QED
  BY <1>8, <1>9, <1>10

(* The end of rbuf_get: full is reset, and says again what the ring holds. *)
LEMMA ClearNext ==
  ASSUME TypeOK, TokenInv, OrderInv, dl = "clear", dl' = "parse", TaskClearFull
  PROVE  TokenInv' /\ OrderInv' /\ lastRead' = lastRead
<1>1. /\ rbuf_rx \in Rbuf /\ rbuf_rx' = [rbuf_rx EXCEPT !.full = FALSE]
      /\ UNCHANGED <<sem_rx, received, filled, lastRead>>
      /\ Going = 0 /\ Going' = 0
  BY TypeFacts DEF TaskClearFull, Going
<1>2. /\ rbuf_rx'.head = rbuf_rx.head /\ rbuf_rx'.tail = rbuf_rx.tail
      /\ rbuf_rx'.buffer = rbuf_rx.buffer /\ ~rbuf_rx'.full
  BY <1>1 DEF Rbuf
<1>3. /\ Fill(rbuf_rx') = Fill(rbuf_rx)
      /\ \A i \in Index : Offset(rbuf_rx', i) = Offset(rbuf_rx, i)
  BY <1>2 DEF Fill, Offset
<1>4. Content' = Content
  <2>1. Content' = rbuf_size(rbuf_rx') /\ Content = Fill(rbuf_rx)
    BY DEF Content
  <2>. QED
    BY <1>2, <2>1 DEF rbuf_size, Fill
<1>5. TokenInv'
  BY <1>1, <1>2, <1>3, <1>4 DEF TokenInv
<1>6. OrderInv'
  BY <1>1, <1>2, <1>3, <1>4 DEF OrderInv
<1>. QED
  BY <1>1, <1>5, <1>6

(* The steps of the downlink task that leave the ring alone. *)
LEMMA DownlinkNext ==
  ASSUME TypeOK, TokenInv, OrderInv, DlPend \/ (DlGet /\ rbuf_empty(rbuf_rx)) \/ DlParse
  PROVE  TokenInv' /\ OrderInv' /\ lastRead' = lastRead
<1>1. /\ UNCHANGED <<rbuf_rx, received, filled, lastRead>> /\ dl # "clear" /\ dl' # "clear"
  BY DEF DlPend, DlGet, DlParse, Pend, linevars, rxvars
<1>2. /\ Content = rbuf_size(rbuf_rx) /\ Content' = Content
      /\ Fill(rbuf_rx') = Fill(rbuf_rx) /\ rbuf_rx'.full = rbuf_rx.full
      /\ \A i \in Index : Offset(rbuf_rx', i) = Offset(rbuf_rx, i)
  BY <1>1 DEF Content, Fill, Offset, rbuf_size
<1>3. OrderInv'
  BY <1>1, <1>2 DEF OrderInv
<1>4. sem_rx \in Nat
  BY TypeFacts
<1>5. CASE DlPend
  <2>1. sem_rx' + Going' = sem_rx + Going
    BY <1>4, <1>5 DEF DlPend, Pend, Going
  <2>. QED
    BY <1>1, <1>2, <1>3, <2>1 DEF TokenInv
<1>6. CASE DlGet /\ rbuf_empty(rbuf_rx)
  <2>1. sem_rx' = sem_rx /\ Going = 1 /\ Going' = 0
    BY <1>6 DEF DlGet, Going, linevars, rxvars
  <2>2. ~rbuf_rx.full /\ Fill(rbuf_rx) = 0 /\ Content = 0
    BY <1>2, <1>6, RingFacts, TypeFacts
  <2>3. filled
    BY <1>4, <2>1, <2>2 DEF TokenInv
  <2>. QED
    BY <1>1, <1>2, <1>3, <1>4, <2>1, <2>2, <2>3 DEF TokenInv
<1>7. CASE DlParse
  <2>1. sem_rx' = sem_rx /\ Going = 0 /\ Going' = 0
    BY <1>7 DEF DlParse, Going, linevars, rxvars
  <2>. QED
    BY <1>1, <1>2, <1>3, <2>1 DEF TokenInv
<1>. QED
  BY <1>5, <1>6, <1>7

(* Every step keeps TokenInv and OrderInv and reads in order. *)
LEMMA ReceiveNext ==
  ASSUME TypeOK, TokenInv, OrderInv, [Next]_vars
  PROVE  /\ TokenInv' /\ OrderInv'
         /\ lastRead' # lastRead => lastRead' > lastRead
<1>1. CASE UNCHANGED <<rxvars, dl>>
  BY <1>1, RxUnchanged
<1>2. CASE Receive
  <2>1. RxChar /\ UNCHANGED dl /\ lastRead' = lastRead
    BY <1>2 DEF Receive, RxChar
  <2>. QED
    BY <2>1, RxCharNext
<1>3. CASE DlGet /\ ~rbuf_empty(rbuf_rx)
  <2>1. dl = "get" /\ dl' = "clear" /\ TaskTake
    BY <1>3 DEF DlGet
  <2>2. lastRead \in Nat /\ lastRead' \in Nat
    <3>1. rbuf_rx.buffer \in [Index -> Nat] /\ rbuf_rx.tail \in Index /\ lastRead \in Nat
      BY TypeFacts, RingFacts
    <3>. QED
      BY <2>1, <3>1 DEF TaskTake, Char
  <2>. QED
    BY <1>3, <2>1, <2>2, TakeNext
<1>4. CASE DlClear
  BY <1>4, ClearNext DEF DlClear
<1>5. CASE DlPend \/ (DlGet /\ rbuf_empty(rbuf_rx)) \/ DlParse
  BY <1>5, DownlinkNext
<1>6. CASE Irq \/ \E kind \in Kinds : Status(kind)
  BY <1>1, <1>6 DEF Irq, UartIrq, TxChar, gwvars, Status, linevars, rxvars
<1>7. CASE Mesh \/ UNCHANGED vars
  BY <1>1, <1>7 DEF Mesh, MeshRun, MeshLoop, vars, linevars, rxvars, gwvars
<1>8. CASE Uplink
  BY <1>1, <1>8 DEF Uplink, UlRun, UlLoop, UlPut, UlCompare, UlSetFull, UlStart, TaskStore,
    TaskSetFull, StartTx, TxChar, linevars, rxvars
<1>. QED
  BY <1>2, <1>3, <1>4, <1>5, <1>6, <1>7, <1>8 DEF Next, Downlink

-----------------------------------------------------------------------------
(* Types and mbufs. *)

(* The part of the type invariant about the serial line. *)
LEMMA LineType ==
  ASSUME TypeOK, SendInv, [Next]_vars
  PROVE  LineTypeOK'
<1>1. /\ rbuf_rx \in Rbuf /\ rbuf_tx \in Rbuf
      /\ sem_rx \in Nat /\ uart \in BOOLEAN /\ filled \in BOOLEAN
      /\ received \in Nat /\ written \in Nat /\ lastRead \in Nat /\ lastSent \in Nat
      /\ ul.same \in BOOLEAN
  BY TypeFacts
<1>2. /\ rbuf_rx.full \in BOOLEAN
      /\ rbuf_rx.tail \in Index /\ rbuf_rx.buffer \in [Index -> Nat]
  BY <1>1, RingFacts
<1>3. CASE UNCHANGED linevars
  BY <1>1, <1>3 DEF linevars, rxvars, txvars, LineTypeOK
<1>4. CASE RxChar
  <2>1. CASE rbuf_rx.full
    <3>1. rbuf_rx' = rbuf_rx
      BY <1>4, <2>1 DEF RxChar, Put
    <3>. QED
      BY <1>1, <1>2, <1>4, <3>1 DEF RxChar, txvars, LineTypeOK
  <2>2. CASE ~rbuf_rx.full
    <3>1. rbuf_rx' \in Rbuf
      BY <1>1, <1>4, <2>2, PutFacts DEF RxChar
    <3>2. rbuf_rx'.full \in BOOLEAN
      BY <3>1 DEF Rbuf
    <3>. QED
      BY <1>1, <1>4, <3>1, <3>2 DEF RxChar, txvars, LineTypeOK
  <2>. QED
    BY <2>1, <2>2
<1>5. CASE TxChar /\ uart' \in BOOLEAN
  BY <1>1, <1>5, TxCharSends DEF TxChar, rxvars, LineTypeOK
<1>6. CASE UartIrq
  <2>1. CASE TxChar
    BY <1>1, <1>5, <1>6, <2>1 DEF UartIrq
  <2>2. CASE ~TxChar
    BY <1>1, <1>6, <2>2 DEF UartIrq, rxvars, LineTypeOK
  <2>. QED
    BY <2>1, <2>2
<1>7. CASE StartTx
  BY <1>3, <1>5, <1>7 DEF StartTx
<1>8. CASE TaskStore
  <2>1. rbuf_tx' \in Rbuf
    BY <1>1, <1>8, StoreFacts DEF TaskStore
  <2>. QED
    BY <1>1, <1>8, <2>1 DEF TaskStore, rxvars, LineTypeOK
<1>9. CASE TaskSetFull(ul.same)
  <2>1. rbuf_tx' \in Rbuf
    BY <1>1, <1>9 DEF TaskSetFull, Rbuf
  <2>. QED
    BY <1>1, <1>9, <2>1 DEF TaskSetFull, rxvars, LineTypeOK
<1>10. CASE TaskTake
  <2>1. rbuf_rx' \in Rbuf /\ lastRead' \in Nat
    BY <1>1, <1>2, <1>10, FollowingFacts DEF TaskTake, Advance, Char, Rbuf
  <2>. QED
    BY <1>1, <1>10, <2>1 DEF TaskTake, txvars, LineTypeOK
<1>11. CASE TaskClearFull
  <2>1. rbuf_rx' \in Rbuf
    BY <1>1, <1>11 DEF TaskClearFull, Rbuf
  <2>. QED
    BY <1>1, <1>11, <2>1 DEF TaskClearFull, txvars, LineTypeOK
<1>12. CASE Pend
  <2>1. sem_rx' \in Nat
    BY <1>1, <1>12 DEF Pend
  <2>. QED
    BY <1>1, <1>12, <2>1 DEF Pend, txvars, LineTypeOK
<1>13. CASE Downlink
  BY <1>3, <1>10, <1>11, <1>12, <1>13 DEF Downlink, DlPend, DlGet, DlClear, DlParse
<1>14. CASE Uplink
  BY <1>3, <1>7, <1>8, <1>9, <1>14 DEF Uplink, UlRun, UlLoop, UlPut, UlCompare, UlSetFull, UlStart
<1>15. CASE Receive \/ Irq \/ Mesh \/ (\E kind \in Kinds : Status(kind)) \/ UNCHANGED vars
  BY <1>3, <1>4, <1>6, <1>15 DEF Receive, Irq, Mesh, MeshRun, MeshLoop, Status, vars
<1>. QED
  BY <1>13, <1>14, <1>15 DEF Next

(* A pool and its queue when an mbuf is queued, taken or freed. *)
LEMMA MbufFacts ==
  ASSUME NEW d \in [free : 0 .. NumMbufs, queue : Seq(Kinds), event : BOOLEAN]
  PROVE  /\ Len(d.queue) \in Nat /\ d.free \in Nat
         /\ \A kind \in Kinds : d.free > 0 =>
              /\ Enqueue(d, kind) \in [free : 0 .. NumMbufs, queue : Seq(Kinds), event : BOOLEAN]
              /\ Enqueue(d, kind).free = d.free - 1
              /\ Len(Enqueue(d, kind).queue) = Len(d.queue) + 1
         /\ d.queue # <<>> =>
              /\ Tail(d.queue) \in Seq(Kinds) /\ Head(d.queue) \in Kinds
              /\ Len(Tail(d.queue)) = Len(d.queue) - 1
         /\ d.free < NumMbufs =>
              Release(d) \in [free : 0 .. NumMbufs, queue : Seq(Kinds), event : BOOLEAN]
<1>1. NumMbufs \in Nat
  BY GatewayAssumption
<1>2. /\ d.queue \in Seq(Kinds) /\ d.free \in 0 .. NumMbufs /\ d.event \in BOOLEAN
      /\ Len(d.queue) \in Nat
  OBVIOUS
<1>3. d.free \in Nat /\ d.free <= NumMbufs
  BY <1>1, <1>2
<1>4. ASSUME NEW kind \in Kinds, d.free > 0
      PROVE  /\ Enqueue(d, kind) \in [free : 0 .. NumMbufs, queue : Seq(Kinds), event : BOOLEAN]
             /\ Enqueue(d, kind).free = d.free - 1
             /\ Len(Enqueue(d, kind).queue) = Len(d.queue) + 1
  <2>1. Append(d.queue, kind) \in Seq(Kinds) /\ Len(Append(d.queue, kind)) = Len(d.queue) + 1
    BY <1>2
  <2>2. d.free - 1 \in 0 .. NumMbufs
    BY <1>1, <1>3, <1>4
  <2>. QED
    BY <2>1, <2>2 DEF Enqueue
<1>5. ASSUME d.queue # <<>>
      PROVE  /\ Tail(d.queue) \in Seq(Kinds) /\ Head(d.queue) \in Kinds
             /\ Len(Tail(d.queue)) = Len(d.queue) - 1
  BY <1>2, <1>5, HeadTailProperties
<1>6. ASSUME d.free < NumMbufs
      PROVE  Release(d) \in [free : 0 .. NumMbufs, queue : Seq(Kinds), event : BOOLEAN]
  <2>1. d.free + 1 \in 0 .. NumMbufs
    BY <1>1, <1>3, <1>6
  <2>. QED
    BY <1>2, <2>1 DEF Release
<1>. QED
  BY <1>2, <1>3, <1>4, <1>5, <1>6

(* Every step keeps the types, and every mbuf has one place. *)
LEMMA TypeNext ==
  ASSUME TypeOK, MbufInv, SendInv, [Next]_vars
  PROVE  TypeOK' /\ MbufInv'
<1>. DEFINE D == [free : 0 .. NumMbufs, queue : Seq(Kinds), event : BOOLEAN]
            U == [pc : {"wait", "loop", "put", "compare", "full"}, frames : 0 .. 2,
                  chars : 0 .. FrameLen, same : BOOLEAN]
            Rest == /\ dl \in {"pend", "get", "clear", "parse"}
                    /\ mesh \in {"wait", "loop"}
                    /\ ul \in U /\ down \in D /\ up \in D
                    /\ inputs \in 0 .. MaxInputs
                    /\ lost \in [Directions -> Nat]
            Hand(u) == IF u.pc \in {"put", "compare", "full"} THEN 1 ELSE 0
<1>1. TypeOK <=> LineTypeOK /\ Rest
  BY DEF TypeOK
<1>2. LineTypeOK' /\ Rest
  BY <1>1, LineType
<1>3. /\ NumMbufs \in Nat /\ FrameLen \in Nat /\ MaxInputs \in Nat
      /\ down.free \in Nat /\ up.free \in Nat /\ Len(down.queue) \in Nat /\ Len(up.queue) \in Nat
      /\ lost["down"] \in Nat /\ lost["up"] \in Nat /\ Hand(ul) \in Nat
  BY <1>2, GatewayAssumption, MbufFacts DEF Directions
<1>4. MbufInv <=> /\ down.free + Len(down.queue) + lost["down"] = NumMbufs
                  /\ up.free + Len(up.queue) + lost["up"] + Hand(ul) = NumMbufs
                  /\ ul.pc \in {"compare", "full"} => ul.chars > 0
  BY DEF MbufInv
<1>5. /\ down.free \in Nat /\ Len(down.queue) \in Nat /\ lost["down"] \in Nat
       /\ up.free \in Nat /\ Len(up.queue) \in Nat /\ lost["up"] \in Nat /\ Hand(ul) \in Nat
  BY <1>3
<1>6. /\ down.free + Len(down.queue) + lost["down"] = NumMbufs
       /\ up.free + Len(up.queue) + lost["up"] + Hand(ul) = NumMbufs
  BY <1>4
<1>7. SUFFICES Rest' /\ MbufInv'
  BY <1>1, <1>2 DEF TypeOK
<1>8. CASE UNCHANGED <<ul, down, up, lost>> /\ dl' \in {"pend", "get", "clear", "parse"}
           /\ mesh' \in {"wait", "loop"} /\ inputs' \in 0 .. MaxInputs
  BY <1>2, <1>8 DEF MbufInv
<1>9. CASE Receive \/ Irq \/ UNCHANGED vars
  <2>1. UNCHANGED <<ul, down, up, lost, dl, mesh>>
    BY <1>9 DEF Receive, Irq, vars, gwvars
  <2>2. inputs' \in 0 .. MaxInputs
    <3>1. inputs \in Int /\ 0 <= inputs /\ inputs <= MaxInputs /\ MaxInputs \in Nat
      BY <1>2, <1>3
    <3>2. inputs' = inputs \/ (inputs < MaxInputs /\ inputs' = inputs + 1)
      BY <1>9 DEF Receive, Irq, vars, gwvars
    <3>. QED
      BY <3>1, <3>2
  <2>. QED
    BY <1>2, <1>8, <2>1, <2>2
<1>10. CASE \E kind \in Kinds : Status(kind)
  <2>1. PICK kind \in Kinds : Status(kind)
    BY <1>10
  <2>2. inputs' \in 0 .. MaxInputs /\ UNCHANGED <<dl, ul, mesh, down, lost>>
    BY <1>2, <1>3, <2>1 DEF Status
  <2>3. CASE up.free = 0
    BY <1>2, <1>8, <2>1, <2>2, <2>3 DEF Status
  <2>4. CASE up.free # 0
    <3>1. up' = Enqueue(up, kind) /\ up.free > 0
      BY <1>3, <2>1, <2>4 DEF Status
    <3>2. up' \in D /\ up'.free = up.free - 1 /\ Len(up'.queue) = Len(up.queue) + 1
      BY <1>2, <3>1, MbufFacts
    <3>. QED
      <4>1. Rest'
        BY <1>2, <1>3, <1>4, <2>2, <3>2
      <4>2. Hand(ul') = Hand(ul) /\ lost'["up"] = lost["up"]
        BY <2>2
      <4>3. up'.free + Len(up'.queue) + lost'["up"] + Hand(ul') = NumMbufs
        <5>. DEFINE a == up.free  b == Len(up.queue)  c == lost["up"]  h == Hand(ul)
                    x == up'.free  y == Len(up'.queue)  z == lost'["up"]  g == Hand(ul')
        <5>1. /\ a \in Nat /\ b \in Nat /\ c \in Nat /\ h \in Nat /\ a + b + c + h = NumMbufs
              /\ x = a - 1 /\ y = b + 1 /\ z = c /\ g = h
          BY <1>5, <1>6, <3>2, <4>2
        <5>2. x + y + z + g = NumMbufs
          <6>. HIDE DEF a, b, c, h, x, y, z, g
          <6>. QED
            BY <5>1
        <5>. QED
          BY <5>2
      <4>4. MbufInv'
        BY <1>3, <1>4, <2>2, <3>2, <4>3 DEF MbufInv
      <4>. QED
        BY <4>1, <4>4
  <2>. QED
    BY <2>3, <2>4
<1>11. CASE DlPend \/ DlGet \/ DlClear
  BY <1>2, <1>8, <1>11 DEF DlPend, DlGet, DlClear
<1>12. CASE DlParse
  <2>1. dl' = "pend" /\ UNCHANGED <<ul, mesh, up, inputs>>
    BY <1>12 DEF DlParse
  <2>2. CASE UNCHANGED <<down, lost>>
    BY <1>2, <1>8, <2>1, <2>2
  <2>3. CASE down.free > 0 /\ down' = Enqueue(down, "other") /\ UNCHANGED lost
    <3>1. down' \in D /\ down'.free = down.free - 1 /\ Len(down'.queue) = Len(down.queue) + 1
      BY <1>2, <2>3, MbufFacts DEF Kinds
    <3>. QED
      <4>1. Rest'
        BY <1>2, <1>3, <1>4, <2>1, <2>3, <3>1
      <4>2. lost'["down"] = lost["down"]
        BY <2>3
      <4>3. down'.free + Len(down'.queue) + lost'["down"] = NumMbufs
        <5>. DEFINE a == down.free  b == Len(down.queue)  c == lost["down"]
                    x == down'.free  y == Len(down'.queue)  z == lost'["down"]
        <5>1. /\ a \in Nat /\ b \in Nat /\ c \in Nat /\ a + b + c = NumMbufs
              /\ x = a - 1 /\ y = b + 1 /\ z = c
          BY <1>5, <1>6, <3>1, <4>2
        <5>2. x + y + z = NumMbufs
          <6>. HIDE DEF a, b, c, x, y, z
          <6>. QED
            BY <5>1
        <5>. QED
          BY <5>2
      <4>4. MbufInv'
        BY <1>3, <1>4, <2>1, <2>3, <3>1, <4>3 DEF MbufInv
      <4>. QED
        BY <4>1, <4>4
  <2>4. CASE /\ down.free > 0 /\ down' = [down EXCEPT !.free = @ - 1]
             /\ lost' = [lost EXCEPT !["down"] = @ + 1]
    <3>1. down.free - 1 \in 0 .. NumMbufs
      BY <1>2, <1>3, <2>4
    <3>2. down' \in D /\ down'.free = down.free - 1 /\ down'.queue = down.queue
      BY <1>2, <2>4, <3>1
    <3>3. lost' \in [Directions -> Nat] /\ lost'["down"] = lost["down"] + 1 /\ lost'["up"] = lost["up"]
      BY <1>2, <1>3, <2>4 DEF Directions
    <3>. QED
      <4>1. Rest'
        BY <1>2, <1>3, <1>4, <2>1, <3>2, <3>3
      <4>2. Len(down'.queue) = Len(down.queue)
        BY <3>2
      <4>3. down'.free + Len(down'.queue) + lost'["down"] = NumMbufs
        <5>. DEFINE a == down.free  b == Len(down.queue)  c == lost["down"]
                    x == down'.free  y == Len(down'.queue)  z == lost'["down"]
        <5>1. /\ a \in Nat /\ b \in Nat /\ c \in Nat /\ a + b + c = NumMbufs
              /\ x = a - 1 /\ y = b /\ z = c + 1
          BY <1>5, <1>6, <3>2, <3>3, <4>2
        <5>2. x + y + z = NumMbufs
          <6>. HIDE DEF a, b, c, x, y, z
          <6>. QED
            BY <5>1
        <5>. QED
          BY <5>2
      <4>4. MbufInv'
        BY <1>3, <1>4, <2>1, <3>2, <3>3, <4>3 DEF MbufInv
      <4>. QED
        BY <4>1, <4>4
  <2>. QED
    BY <1>12, <2>2, <2>3, <2>4 DEF DlParse
<1>13. CASE MeshRun \/ UlRun
  <2>1. /\ UNCHANGED <<dl, inputs, lost>> /\ mesh' \in {"wait", "loop"}
        /\ down' \in D /\ up' \in D /\ down'.free = down.free /\ down'.queue = down.queue
        /\ up'.free = up.free /\ up'.queue = up.queue
    BY <1>2, <1>13 DEF MeshRun, UlRun
  <2>2. (ul' \in U /\ ul'.pc \notin {"put", "compare", "full"}) \/ ul' = ul
    BY <1>2, <1>13 DEF MeshRun, UlRun
  <2>3. Hand(ul') = Hand(ul) /\ ul' \in U /\ (ul'.pc \in {"compare", "full"} => ul'.chars > 0)
    BY <1>2, <1>4, <1>13, <2>2 DEF UlRun, MeshRun
  <2>. QED
    BY <1>2, <1>3, <1>4, <2>1, <2>3 DEF MbufInv
<1>14. CASE MeshLoop
  <2>1. UNCHANGED <<dl, ul, up, inputs, lost>>
    BY <1>14 DEF MeshLoop
  <2>2. CASE down.queue = <<>>
    BY <1>2, <1>8, <1>14, <2>1, <2>2 DEF MeshLoop
  <2>3. CASE down.queue # <<>>
    <3>. DEFINE d == [down EXCEPT !.queue = Tail(@)]
    <3>1. down' = Release(d) /\ mesh' = mesh
      BY <1>14, <2>3 DEF MeshLoop
    <3>2. Tail(down.queue) \in Seq(Kinds) /\ Len(Tail(down.queue)) = Len(down.queue) - 1
      BY <1>2, <2>3, MbufFacts
    <3>3. d \in D /\ d.free = down.free /\ d.queue = Tail(down.queue)
      BY <1>2, <3>2
    <3>4. Len(d.queue) \in Nat
      BY <3>3, MbufFacts
    <3>5. down.free < NumMbufs
      <4>. DEFINE a == down.free  b == Len(down.queue)  c == lost["down"]
      <4>1. a \in Nat /\ b \in Nat /\ c \in Nat /\ a + b + c = NumMbufs /\ b - 1 \in Nat
        BY <1>5, <1>6, <3>2, <3>3, <3>4
      <4>2. a < NumMbufs
        <5>. HIDE DEF a, b, c
        <5>. QED
          BY <4>1
      <4>. QED
        BY <4>2
    <3>. HIDE DEF d
    <3>6. down' \in D /\ down'.free = down.free + 1 /\ down'.queue = d.queue
      BY <3>1, <3>3, <3>5, MbufFacts DEF Release
    <3>. QED
      <4>1. Rest'
        BY <1>2, <1>3, <1>4, <2>1, <3>1, <3>2, <3>3, <3>6
      <4>2. down'.free = down.free + 1 /\ Len(down'.queue) = Len(down.queue) - 1 /\ lost'["down"] = lost["down"]
        BY <2>1, <3>2, <3>3, <3>6
      <4>3. down'.free + Len(down'.queue) + lost'["down"] = NumMbufs
        <5>. DEFINE a == down.free  b == Len(down.queue)  c == lost["down"]
                    x == down'.free  y == Len(down'.queue)  z == lost'["down"]
        <5>1. /\ a \in Nat /\ b \in Nat /\ c \in Nat /\ a + b + c = NumMbufs
              /\ x = a + 1 /\ y = b - 1 /\ z = c
          BY <1>5, <1>6, <4>2
        <5>2. x + y + z = NumMbufs
          <6>. HIDE DEF a, b, c, x, y, z
          <6>. QED
            BY <5>1
        <5>. QED
          BY <5>2
      <4>4. MbufInv'
        BY <1>3, <1>4, <2>1, <3>1, <3>2, <3>3, <3>6, <4>3 DEF MbufInv
      <4>. QED
        BY <4>1, <4>4
  <2>. QED
    BY <2>2, <2>3
<1>15. CASE UlLoop
  <2>1. ul.pc = "loop" /\ UNCHANGED <<dl, mesh, down, inputs>> /\ Hand(ul) = 0
    BY <1>15 DEF UlLoop
  <2>2. CASE up.queue = <<>>
    <3>1. ul' \in U /\ ul'.pc = "wait" /\ UNCHANGED <<up, lost>>
      BY <1>2, <1>15, <2>2 DEF UlLoop
    <3>. QED
      BY <1>2, <1>3, <1>4, <2>1, <3>1 DEF MbufInv
  <2>3. CASE up.queue # <<>>
    <3>1. /\ Tail(up.queue) \in Seq(Kinds) /\ Len(Tail(up.queue)) = Len(up.queue) - 1
          /\ Head(up.queue) \in Kinds
      BY <1>2, <2>3, MbufFacts
    <3>2. up' = [up EXCEPT !.queue = Tail(@)]
      BY <1>15, <2>3 DEF UlLoop
    <3>3. up' \in D /\ up'.free = up.free /\ Len(up'.queue) = Len(up.queue) - 1
      BY <1>2, <3>1, <3>2
    <3>4. CASE Head(up.queue) = "unknown"
      <4>1. lost' = [lost EXCEPT !["up"] = @ + 1] /\ UNCHANGED ul
        BY <1>15, <2>3, <3>4 DEF UlLoop
      <4>2. lost' \in [Directions -> Nat] /\ lost'["up"] = lost["up"] + 1 /\ lost'["down"] = lost["down"]
        BY <1>2, <1>3, <4>1 DEF Directions
      <4>. QED
        <5>1. Rest'
          BY <1>2, <1>3, <1>4, <2>1, <3>3, <4>1, <4>2
        <5>2. /\ up'.free = up.free /\ Len(up'.queue) = Len(up.queue) - 1
              /\ lost'["up"] = lost["up"] + 1 /\ Hand(ul') = Hand(ul)
          BY <3>3, <4>1, <4>2
        <5>3. up'.free + Len(up'.queue) + lost'["up"] + Hand(ul') = NumMbufs
          <6>. DEFINE a == up.free  b == Len(up.queue)  c == lost["up"]  h == Hand(ul)
                      x == up'.free  y == Len(up'.queue)  z == lost'["up"]  g == Hand(ul')
          <6>1. /\ a \in Nat /\ b \in Nat /\ c \in Nat /\ h \in Nat /\ a + b + c + h = NumMbufs
                /\ x = a /\ y = b - 1 /\ z = c + 1 /\ g = h
            BY <1>5, <1>6, <5>2
          <6>2. x + y + z + g = NumMbufs
            <7>. HIDE DEF a, b, c, h, x, y, z, g
            <7>. QED
              BY <6>1
          <6>. QED
            BY <6>2
        <5>4. MbufInv'
          BY <1>3, <1>4, <2>1, <3>3, <4>1, <4>2, <5>3 DEF MbufInv
        <5>. QED
          BY <5>1, <5>4
    <3>5. CASE Head(up.queue) # "unknown"
      <4>1. /\ ul' = [ul EXCEPT !.pc = "put", !.frames = Frames(Head(up.queue)), !.chars = FrameLen]
            /\ UNCHANGED lost
        BY <1>15, <2>3, <3>5 DEF UlLoop
      <4>2. Frames(Head(up.queue)) \in 0 .. 2 /\ FrameLen \in 0 .. FrameLen
        BY <1>3 DEF Frames
      <4>3. ul' \in U /\ ul'.pc = "put"
        BY <1>2, <4>1, <4>2
      <4>. QED
        <5>1. Rest'
          BY <1>2, <1>3, <1>4, <2>1, <3>3, <4>1, <4>3
        <5>2. /\ up'.free = up.free /\ Len(up'.queue) = Len(up.queue) - 1
              /\ lost'["up"] = lost["up"] /\ Hand(ul') = 1 /\ Hand(ul) = 0
          BY <2>1, <3>3, <4>1, <4>3
        <5>3. up'.free + Len(up'.queue) + lost'["up"] + Hand(ul') = NumMbufs
          <6>. DEFINE a == up.free  b == Len(up.queue)  c == lost["up"]  h == Hand(ul)
                      x == up'.free  y == Len(up'.queue)  z == lost'["up"]  g == Hand(ul')
          <6>1. /\ a \in Nat /\ b \in Nat /\ c \in Nat /\ h \in Nat /\ a + b + c + h = NumMbufs
                /\ x = a /\ y = b - 1 /\ z = c /\ h = 0 /\ g = 1
            BY <1>5, <1>6, <5>2
          <6>2. x + y + z + g = NumMbufs
            <7>. HIDE DEF a, b, c, h, x, y, z, g
            <7>. QED
              BY <6>1
          <6>. QED
            BY <6>2
        <5>4. MbufInv'
          BY <1>3, <1>4, <2>1, <3>3, <4>1, <4>3, <5>3 DEF MbufInv
        <5>. QED
          BY <5>1, <5>4
    <3>. QED
      BY <3>4, <3>5
  <2>. QED
    BY <2>2, <2>3
<1>16. CASE UlPut \/ UlCompare \/ UlSetFull
  <2>1. /\ UNCHANGED <<dl, mesh, down, up, inputs, lost>>
        /\ ul.pc \in {"put", "compare", "full"} /\ ul.chars > 0
    BY <1>4, <1>16 DEF UlPut, UlCompare, UlSetFull
  <2>2. ul.chars - 1 \in 0 .. FrameLen
    BY <1>2, <1>3, <2>1
  <2>3. /\ ul' \in U /\ ul'.pc \in {"put", "compare", "full"}
        /\ ul'.pc \in {"compare", "full"} => ul'.chars > 0
    <3>1. CASE ul' = [ul EXCEPT !.chars = @ - 1] /\ ul.pc = "put"
      BY <1>2, <2>2, <3>1
    <3>2. CASE ul' = [ul EXCEPT !.pc = "compare"]
      BY <1>2, <2>1, <3>2
    <3>3. CASE ul' = [ul EXCEPT !.pc = "full", !.same = (rbuf_tx.head = rbuf_tx.tail)]
      BY <1>2, <2>1, <3>3
    <3>4. CASE ul' = [ul EXCEPT !.pc = "put", !.chars = @ - 1, !.same = FALSE]
      BY <1>2, <2>2, <3>4
    <3>. QED
      BY <1>16, <3>1, <3>2, <3>3, <3>4 DEF UlPut, UlCompare, UlSetFull
  <2>. QED
    BY <1>2, <1>3, <1>4, <2>1, <2>3 DEF MbufInv
<1>17. CASE UlStart
  <2>1. ul.pc = "put" /\ UNCHANGED <<dl, mesh, down, inputs, lost>>
    BY <1>17 DEF UlStart
  <2>2. CASE ul.frames > 1
    <3>1. ul' = [ul EXCEPT !.frames = @ - 1, !.chars = FrameLen] /\ UNCHANGED up
      BY <1>17, <2>2 DEF UlStart
    <3>2. ul.frames - 1 \in 0 .. 2 /\ FrameLen \in 0 .. FrameLen
      BY <1>2, <1>3, <2>2
    <3>3. ul' \in U /\ ul'.pc = "put"
      BY <1>2, <2>1, <3>1, <3>2
    <3>. QED
      BY <1>2, <1>3, <1>4, <2>1, <3>1, <3>3 DEF MbufInv
  <2>3. CASE ~(ul.frames > 1)
    <3>1. ul' = [ul EXCEPT !.pc = "loop", !.frames = 0] /\ up' = Release(up)
      BY <1>17, <2>3 DEF UlStart
    <3>2. up.free < NumMbufs
      BY <1>3, <1>4, <2>1
    <3>3. up' \in D /\ up'.free = up.free + 1 /\ up'.queue = up.queue
      BY <1>2, <3>1, <3>2, MbufFacts DEF Release
    <3>4. ul' \in U /\ ul'.pc = "loop"
      <4>1. 0 \in 0 .. 2 /\ ul \in U
        BY <1>2
      <4>. QED
        BY <3>1, <4>1
    <3>. QED
      <4>1. Rest'
        BY <1>2, <1>3, <2>1, <3>3, <3>4
      <4>2. /\ up'.free = up.free + 1 /\ Len(up'.queue) = Len(up.queue)
            /\ lost'["up"] = lost["up"] /\ Hand(ul') = 0 /\ Hand(ul) = 1
        BY <2>1, <3>3, <3>4
      <4>3. up'.free + Len(up'.queue) + lost'["up"] + Hand(ul') = NumMbufs
        <5>. DEFINE a == up.free  b == Len(up.queue)  c == lost["up"]  h == Hand(ul)
                    x == up'.free  y == Len(up'.queue)  z == lost'["up"]  g == Hand(ul')
        <5>1. /\ a \in Nat /\ b \in Nat /\ c \in Nat /\ h \in Nat /\ a + b + c + h = NumMbufs
              /\ x = a + 1 /\ y = b /\ z = c /\ h = 1 /\ g = 0
          BY <1>5, <1>6, <4>2
        <5>2. x + y + z + g = NumMbufs
          <6>. HIDE DEF a, b, c, h, x, y, z, g
          <6>. QED
            BY <5>1
        <5>. QED
          BY <5>2
      <4>4. MbufInv'
        BY <1>3, <1>4, <2>1, <3>3, <3>4, <4>3 DEF MbufInv
      <4>. QED
        BY <4>1, <4>4
  <2>. QED
    BY <2>2, <2>3
<1>. QED
  BY <1>9, <1>10, <1>11, <1>12, <1>13, <1>14, <1>15, <1>16, <1>17 DEF Next, Downlink, Mesh, Uplink

-----------------------------------------------------------------------------
(* The invariant holds. *)

(* Both rings are empty and all mbufs are free. *)
LEMMA InitInv == Init => IInv
<1>. SUFFICES ASSUME Init PROVE IInv
  OBVIOUS
<1>1. 0 \in Index /\ RbufSize \in Nat /\ RbufSize > 0
  BY RbufAssumption DEF Index
<1>2. rbuf_init \in Rbuf
  BY <1>1 DEF rbuf_init, Rbuf
<1>3. /\ Fill(rbuf_init) = 0 /\ rbuf_size(rbuf_init) = 0 /\ ~rbuf_init.full
      /\ \A i \in Index : rbuf_init.buffer[i] = 0 /\ ~(Offset(rbuf_init, i) < 0) /\ Age(rbuf_init, i) \in Nat
  <2>1. /\ rbuf_init.head = 0 /\ rbuf_init.tail = 0 /\ ~rbuf_init.full
        /\ \A i \in Index : rbuf_init.buffer[i] = 0
    BY DEF rbuf_init
  <2>2. \A i \in Index : i \in Int /\ 0 <= i /\ i < RbufSize
    BY <1>1 DEF Index
  <2>. HIDE DEF rbuf_init
  <2>. QED
    BY <1>1, <2>1, <2>2 DEF Fill, rbuf_size, Offset, Age
<1>4. /\ rbuf_rx = rbuf_init /\ rbuf_tx = rbuf_init /\ sem_rx = 0 /\ uart = FALSE
      /\ received = 0 /\ written = 0 /\ lastRead = 0 /\ lastSent = 0 /\ filled = FALSE
  BY DEF Init, LineInit
<1>5. TypeOK
  <2>1. LineTypeOK
    <3>1. uart \in BOOLEAN /\ filled \in BOOLEAN
      BY <1>4
    <3>2. received \in Nat /\ written \in Nat /\ lastRead \in Nat /\ lastSent \in Nat /\ sem_rx \in Nat
      BY <1>4
    <3>3. rbuf_rx \in Rbuf /\ rbuf_tx \in Rbuf
      BY <1>2, <1>4
    <3>. QED
      BY <3>1, <3>2, <3>3 DEF LineTypeOK
  <2>2. NumMbufs \in 0 .. NumMbufs /\ 0 \in 0 .. 2 /\ 0 \in 0 .. FrameLen /\ 0 \in 0 .. MaxInputs
    BY GatewayAssumption
  <2>3. <<>> \in Seq(Kinds)
    OBVIOUS
  <2>. QED
    <3>1. down \in [free : 0 .. NumMbufs, queue : Seq(Kinds), event : BOOLEAN] /\ up = down
      BY <2>2, <2>3 DEF Init
    <3>2. ul \in [pc : {"wait", "loop", "put", "compare", "full"}, frames : 0 .. 2,
                  chars : 0 .. FrameLen, same : BOOLEAN]
      BY <2>2 DEF Init
    <3>3. lost \in [Directions -> Nat]
      BY DEF Init
    <3>4. dl = "pend" /\ mesh = "wait" /\ inputs = 0
      BY DEF Init
    <3>. QED
      BY <2>1, <2>2, <3>1, <3>2, <3>3, <3>4 DEF TypeOK
<1>6. MbufInv
  <2>1. /\ down.free = NumMbufs /\ Len(down.queue) = 0 /\ lost["down"] = 0
        /\ up.free = NumMbufs /\ Len(up.queue) = 0 /\ lost["up"] = 0 /\ ul.pc = "wait"
    BY DEF Init, Directions
  <2>. QED
    BY <2>1, GatewayAssumption DEF MbufInv
<1>7. dl = "pend" /\ ul.pc = "wait"
  BY DEF Init
<1>8. Going = 0 /\ Content = 0
  BY <1>3, <1>4, <1>7 DEF Going, Content
<1>9. TokenInv
  BY <1>3, <1>4, <1>7, <1>8 DEF TokenInv
<1>10. OrderInv
  BY <1>3, <1>4, <1>7, <1>8 DEF OrderInv
<1>11. SendInv
  <2>1. Recent(rbuf_tx, written)
    BY <1>3, <1>4 DEF Recent
  <2>2. Due(rbuf_tx, written, lastSent, Racing)
    BY <1>1, <1>3, <1>4 DEF Due
  <2>. QED
    BY <1>4, <1>7, <2>1, <2>2 DEF SendInv
<1>. QED
  BY <1>5, <1>6, <1>9, <1>10, <1>11 DEF IInv

(* A step keeps the invariant; what it reads and sends is the next. *)
LEMMA NextInv ==
  ASSUME IInv, [Next]_vars
  PROVE  /\ IInv'
         /\ lastRead' # lastRead => lastRead' > lastRead
         /\ lastSent' <= lastSent + 1
BY SendNext, ReceiveNext, TypeNext DEF IInv

(* The mbufs, the tokens, the order of both rings: together inductive.       *)
THEOREM IInvSafe == Spec => []IInv
<1>1. Init => IInv
  BY InitInv
<1>2. IInv /\ [Next]_vars => IInv'
  BY NextInv
<1>. QED
  BY <1>1, <1>2, PTL DEF Spec

(* The state of rings, tasks, queues and history has its type.               *)
THEOREM TypeCorrect == Spec => []TypeOK
<1>1. IInv => TypeOK
  BY DEF IInv
<1>. QED
  BY <1>1, IInvSafe, PTL

(* No wake-up of the downlink task is lost: between dpl_sem_pend and         *)
(* rbuf_get, and between the two assignments of rbuf_get, an interrupt may   *)
(* put characters, and still none waits in the ring without its token.       *)
THEOREM AnnouncedSafe == Spec => []CharsAnnounced
<1>1. IInv => CharsAnnounced
  <2>. SUFFICES ASSUME IInv PROVE CharsAnnounced
    OBVIOUS
  <2>1. sem_rx \in Nat /\ dl \in {"pend", "get", "clear", "parse"} /\ TokenInv
    BY DEF IInv, TypeOK, LineTypeOK
  <2>2. CASE dl = "clear"
    BY <2>1, <2>2 DEF TokenInv, CharsAnnounced
  <2>3. CASE dl # "clear"
    <3>1. rbuf_size(rbuf_rx) <= sem_rx + Going
      BY <2>1, <2>3 DEF TokenInv, Content
    <3>. QED
      BY <2>3, <3>1 DEF CharsAnnounced, Going
  <2>. QED
    BY <2>2, <2>3
<1>. QED
  BY <1>1, IInvSafe, PTL

(* serial_read returns what is not a character of the line only when the     *)
(* ring was full before: until then each token has its character.            *)
THEOREM GarbageSafe == Spec => []GarbageOnlyAfterFull
<1>1. IInv => GarbageOnlyAfterFull
  <2>. SUFFICES ASSUME IInv, dl = "get", rbuf_empty(rbuf_rx), ~filled PROVE FALSE
    BY DEF GarbageOnlyAfterFull
  <2>1. sem_rx \in Nat /\ rbuf_rx \in Rbuf /\ TokenInv
    BY DEF IInv, TypeOK, LineTypeOK
  <2>2. Fill(rbuf_rx) = sem_rx + 1
    BY <2>1 DEF TokenInv, Going
  <2>3. Fill(rbuf_rx) = 0
    <3>1. rbuf_rx.head = rbuf_rx.tail /\ rbuf_rx.head \in Int
      BY <2>1, RbufAssumption DEF rbuf_empty, Rbuf, Index
    <3>. QED
      BY <3>1 DEF Fill
  <2>. QED
    BY <2>1, <2>2, <2>3
<1>. QED
  BY <1>1, IInvSafe, PTL

(* The characters the downlink task reads are in the order of the line, and  *)
(* none comes again after another one, for every size of the ring and every  *)
(* interleaving.                                                             *)
THEOREM OrderSafe == Spec => ReadInOrder
<1>1. IInv /\ [Next]_vars => [lastRead' # lastRead => lastRead' > lastRead]_lastRead
  BY NextInv
<1>. QED
  BY <1>1, IInvSafe, PTL DEF Spec, ReadInOrder

(* The transmitter leaves out no character that serial_write put in the      *)
(* ring, although an interrupt between its assignments may leave full set.   *)
THEOREM SentSafe == Spec => NothingLeftOut
<1>1. IInv /\ [Next]_vars => [lastSent' <= lastSent + 1]_lastSent
  BY NextInv
<1>. QED
  BY <1>1, IInvSafe, PTL DEF Spec, NothingLeftOut

-----------------------------------------------------------------------------
(* Nobody sleeps on work. *)

(* A message in a queue has its event or the task's attention, and a         *)
(* transmitter that has stopped found its ring empty.                        *)
WakeInv ==
  /\ down.queue # <<>> => down.event \/ mesh = "loop"
  /\ up.queue # <<>> => up.event \/ ul.pc # "wait"
  /\ ul.pc \in {"wait", "loop"} /\ ~uart => rbuf_empty(rbuf_tx)

(* Every step keeps the wake-ups. *)
LEMMA WakeNext ==
  ASSUME TypeOK, WakeInv, [Next]_vars
  PROVE  WakeInv'
<1>. DEFINE DownWakes == down.queue # <<>> => down.event \/ mesh = "loop"
            UpWakes == up.queue # <<>> => up.event \/ ul.pc # "wait"
            Stopped == ul.pc \in {"wait", "loop"} /\ ~uart => rbuf_empty(rbuf_tx)
            D == [free : 0 .. NumMbufs, queue : Seq(Kinds), event : BOOLEAN]
            U == [pc : {"wait", "loop", "put", "compare", "full"}, frames : 0 .. 2,
                  chars : 0 .. FrameLen, same : BOOLEAN]
<1>1. down \in D /\ up \in D /\ ul \in U
  BY TypeFacts
<1>2. DownWakes /\ UpWakes /\ Stopped
  BY DEF WakeInv
<1>3. \A d \in D : \A kind : Enqueue(d, kind).event = TRUE /\ Release(d).event = d.event
                             /\ Release(d).queue = d.queue
  BY DEF Enqueue, Release
<1>4. DownWakes'
  <2>1. CASE UNCHANGED <<down, mesh>>
    BY <1>2, <2>1
  <2>2. CASE DlParse
    <3>1. down' = down \/ down' = Enqueue(down, "other") \/ down' = [down EXCEPT !.free = @ - 1]
      BY <2>2 DEF DlParse
    <3>2. mesh' = mesh
      BY <2>2 DEF DlParse
    <3>3. CASE down' = Enqueue(down, "other")
      BY <1>1, <1>3, <3>3
    <3>4. CASE down' = down \/ down' = [down EXCEPT !.free = @ - 1]
      <4>1. down'.queue = down.queue /\ down'.event = down.event
        BY <1>1, <3>4
      <4>. QED
        BY <1>2, <3>2, <4>1
    <3>. QED
      BY <3>1, <3>3, <3>4
  <2>3. CASE MeshRun
    BY <2>3 DEF MeshRun
  <2>4. CASE MeshLoop
    BY <1>2, <2>4 DEF MeshLoop
  <2>. QED
    BY <2>1, <2>2, <2>3, <2>4 DEF Next, Receive, Status, Irq, Downlink, DlPend, DlGet, DlClear,
      Mesh, Uplink, UlRun, UlLoop, UlPut, UlCompare, UlSetFull, UlStart, gwvars, vars
<1>5. UpWakes'
  <2>1. CASE UNCHANGED <<up, ul>>
    BY <1>2, <2>1
  <2>2. CASE \E kind \in Kinds : Status(kind)
    <3>1. PICK kind \in Kinds : Status(kind)
      BY <2>2
    <3>2. ul' = ul /\ (up' = up \/ up' = Enqueue(up, kind))
      BY <3>1 DEF Status
    <3>. QED
      BY <1>1, <1>2, <1>3, <3>2
  <2>3. CASE UlLoop
    <3>1. CASE up.queue = <<>>
      BY <2>3, <3>1 DEF UlLoop
    <3>2. CASE up.queue # <<>>
      <4>1. ul.pc = "loop" /\ (ul' = ul \/ ul'.pc = "put")
        BY <1>1, <2>3, <3>2 DEF UlLoop
      <4>. QED
        BY <4>1
    <3>. QED
      BY <3>1, <3>2
  <2>4. CASE UlRun \/ UlPut \/ UlCompare \/ UlSetFull \/ UlStart
    <3>1. ul'.pc # "wait"
      BY <1>1, <2>4 DEF UlRun, UlPut, UlCompare, UlSetFull, UlStart
    <3>. QED
      BY <3>1
  <2>. QED
    BY <2>1, <2>2, <2>3, <2>4 DEF Next, Receive, Irq, Downlink, DlPend, DlGet, DlClear, DlParse,
      Mesh, MeshRun, MeshLoop, Uplink, gwvars, vars
<1>6. Stopped'
  <2>1. CASE UNCHANGED <<ul, uart, rbuf_tx>>
    BY <1>2, <2>1
  <2>2. CASE Irq
    <3>1. UNCHANGED ul /\ (uart' \/ (rbuf_empty(rbuf_tx) /\ UNCHANGED rbuf_tx))
      BY <2>2 DEF Irq, UartIrq, gwvars
    <3>. QED
      BY <3>1 DEF rbuf_empty
  <2>3. CASE UlRun \/ UlLoop
    <3>1. UNCHANGED <<uart, rbuf_tx>> /\ ul.pc \in {"wait", "loop"}
      BY <2>3 DEF UlRun, UlLoop, linevars, txvars
    <3>. QED
      BY <1>2, <3>1
  <2>4. CASE UlPut \/ UlCompare \/ UlSetFull
    <3>1. ul'.pc \notin {"wait", "loop"}
      BY <1>1, <2>4 DEF UlPut, UlCompare, UlSetFull
    <3>. QED
      BY <3>1
  <2>5. CASE UlStart
    <3>1. StartTx
      BY <2>5 DEF UlStart
    <3>2. uart' \/ (rbuf_empty(rbuf_tx) /\ UNCHANGED rbuf_tx)
      BY <3>1 DEF StartTx, linevars, txvars
    <3>. QED
      BY <3>2 DEF rbuf_empty
  <2>6. CASE Receive \/ (\E kind \in Kinds : Status(kind)) \/ UNCHANGED vars
    BY <2>1, <2>6 DEF Receive, RxChar, Status, linevars, txvars, vars, gwvars
  <2>7. CASE Downlink
    BY <2>1, <2>7 DEF Downlink, DlPend, DlGet, DlClear, DlParse, Pend, TaskTake, TaskClearFull,
      linevars, txvars
  <2>8. CASE Mesh
    BY <2>1, <2>8 DEF Mesh, MeshRun, MeshLoop, linevars, txvars
  <2>. QED
    BY <2>2, <2>3, <2>4, <2>5, <2>6, <2>7, <2>8 DEF Next, Uplink
<1>. QED
  BY <1>4, <1>5, <1>6 DEF WakeInv

(* No wake-up is lost: nobody sleeps on a message, an mbuf or a character,   *)
(* whatever the sizes and the interleaving.  What remains of BuffersReturn   *)
(* and EverythingSent is that tasks and interrupts go on.                    *)
THEOREM SleepSafe == Spec => []NobodySleeps
<1>1. Init => WakeInv
  BY DEF Init, LineInit, WakeInv, rbuf_init, rbuf_empty
<1>2. IInv /\ WakeInv /\ [Next]_vars => WakeInv'
  BY WakeNext DEF IInv
<1>3. IInv /\ WakeInv => NobodySleeps
  <2>. SUFFICES ASSUME IInv, WakeInv PROVE NobodySleeps
    OBVIOUS
  <2>1. /\ down.free \in Nat /\ up.free \in Nat /\ lost["down"] \in Nat /\ lost["up"] \in Nat
        /\ NumMbufs \in Nat /\ MbufInv /\ SendInv
        /\ written \in Nat /\ lastSent \in Nat /\ rbuf_tx \in Rbuf
    BY TypeFacts, GatewayAssumption DEF IInv, Directions
  <2>2. mesh = "wait" /\ ~down.event =>
          down.queue = <<>> /\ down.free = NumMbufs - lost["down"]
    <3>. DEFINE a == down.free  c == lost["down"]
    <3>. SUFFICES ASSUME mesh = "wait", ~down.event
                  PROVE  down.queue = <<>> /\ a = NumMbufs - c
      OBVIOUS
    <3>1. down.queue = <<>>
      BY DEF WakeInv
    <3>2. a \in Nat /\ c \in Nat /\ a + 0 + c = NumMbufs
      BY <2>1, <3>1 DEF MbufInv
    <3>3. a = NumMbufs - c
      <4>. HIDE DEF a, c
      <4>. QED
        BY <3>2
    <3>. QED
      BY <3>1, <3>3
  <2>3. ul.pc = "wait" /\ ~up.event =>
          up.queue = <<>> /\ up.free = NumMbufs - lost["up"]
    <3>. DEFINE a == up.free  c == lost["up"]
    <3>. SUFFICES ASSUME ul.pc = "wait", ~up.event
                  PROVE  up.queue = <<>> /\ a = NumMbufs - c
      OBVIOUS
    <3>1. up.queue = <<>>
      BY DEF WakeInv
    <3>2. a \in Nat /\ c \in Nat /\ a + 0 + c + 0 = NumMbufs
      BY <2>1, <3>1 DEF MbufInv
    <3>3. a = NumMbufs - c
      <4>. HIDE DEF a, c
      <4>. QED
        BY <3>2
    <3>. QED
      BY <3>1, <3>3
  <2>4. ASSUME ul.pc \in {"wait", "loop"}, ~uart
        PROVE  lastSent = written
    <3>1. ~rbuf_tx.full /\ Fill(rbuf_tx) = 0
      BY <2>1, <2>4, RingFacts DEF WakeInv
    <3>2. ~Racing /\ Due(rbuf_tx, written, lastSent, Racing) /\ lastSent <= written
      BY <2>1, <2>4 DEF SendInv, Racing
    <3>3. written - lastSent <= 0
      BY <3>1, <3>2 DEF Due
    <3>. QED
      BY <2>1, <3>2, <3>3
  <2>. QED
    BY <2>2, <2>3, <2>4 DEF NobodySleeps
<1>. QED
  BY <1>1, <1>2, <1>3, IInvSafe, PTL DEF Spec
=============================================================================
