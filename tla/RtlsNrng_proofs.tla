-------------------------- MODULE RtlsNrng_proofs --------------------------
(* Theorems about RtlsNrng, for any set of anchors, size of the ring, number *)
(* of sequence numbers, of ranges that are chosen and of rounds.             *)
EXTENDS RtlsNrng, CommonLemmas

-----------------------------------------------------------------------------
(* The ring: the window of a round begins at its base. *)

Base(r) == (NFrames - 1 + r * BcnSlotMax) % NFrames

(* The sizes as numbers. *)
LEMMA Sizes ==
  /\ BcnSlotMax \in Nat /\ BcnSlotMax > 0
  /\ NFrames \in Nat /\ NFrames > 0 /\ BcnSlotMax <= NFrames
  /\ SeqMod \in Nat /\ SeqMod > 0
BY RingAssumption

(* The next window begins BcnSlotMax places further on. *)
LEMMA BaseFacts ==
  ASSUME NEW r \in Nat
  PROVE  /\ Base(r) \in Place
         /\ Base(r + 1) = RingPlace(Base(r), BcnSlotMax)
<1>1. r * BcnSlotMax \in Int /\ (r + 1) * BcnSlotMax = r * BcnSlotMax + BcnSlotMax
  BY Sizes
<1>. DEFINE a == NFrames - 1 + r * BcnSlotMax
            b == NFrames - 1 + (r + 1) * BcnSlotMax
<1>2. a \in Int /\ b = a + BcnSlotMax
  BY <1>1, Sizes
<1>3. Base(r) = a % NFrames /\ Base(r + 1) = b % NFrames
  BY DEF Base
<1>. HIDE DEF a, b
<1>4. a % NFrames \in 0 .. NFrames - 1
  BY <1>2, Sizes
<1>5. ((a % NFrames) + BcnSlotMax) % NFrames = (a + BcnSlotMax) % NFrames
  <2>1. a \in Int /\ BcnSlotMax \in Int /\ NFrames \in Int /\ NFrames > 0
    BY <1>2, Sizes
  <2>. QED
    BY ONLY <2>1, ReducedSum
<1>6. Base(r) \in Place
  BY <1>3, <1>4 DEF Place
<1>7. RingPlace(Base(r), BcnSlotMax) = ((a % NFrames) + BcnSlotMax) % NFrames
  BY <1>3 DEF RingPlace
<1>. QED
  BY <1>2, <1>3, <1>5, <1>6, <1>7, Zenon

(* The places of a window are distinct. *)
LEMMA PlaceFacts ==
  ASSUME NEW b \in Place
  PROVE  /\ \A s \in SlotIdx : RingPlace(b, s) \in Place
         /\ \A s, t \in SlotIdx : RingPlace(b, s) = RingPlace(b, t) => s = t
<1>1. b \in Int /\ NFrames \in Int /\ \A s \in SlotIdx : s \in Int /\ 0 <= s /\ s < NFrames
  BY Sizes DEF Place, SlotIdx
<1>2. ASSUME NEW s \in SlotIdx
      PROVE  RingPlace(b, s) \in Place
  <2>1. b + s \in Int
    BY <1>1
  <2>. QED
    BY <2>1, Sizes DEF RingPlace, Place
<1>3. ASSUME NEW s \in SlotIdx, NEW t \in SlotIdx, RingPlace(b, s) = RingPlace(b, t)
      PROVE  s = t
  <2>1. b + s \in Int /\ b + t \in Int
    BY <1>1
  <2>2. (b + s) % NFrames = (b + t) % NFrames
    BY <1>3 DEF RingPlace
  <2>3. PICK k \in Int : b + s = (b + t) + k * NFrames
    BY <2>1, <2>2, Sizes, Congruent
  <2>4. k * NFrames \in Int
    BY Sizes
  <2>5. s = t + k * NFrames
    BY <1>1, <2>3, <2>4
  <2>6. s % NFrames = t % NFrames
    BY <1>1, <2>5, Sizes, Congruent
  <2>7. s % NFrames = s /\ t % NFrames = t
    BY <1>1
  <2>. QED
    BY <2>6, <2>7
<1>. QED
  BY <1>2, <1>3

(* The next sequence number. *)
LEMMA SeqFacts ==
  ASSUME NEW r \in Nat
  PROVE  /\ r % SeqMod \in 0 .. SeqMod - 1
         /\ (r + 1) % SeqMod = NextSeq(r % SeqMod)
<1>1. ((r % SeqMod) + 1) % SeqMod = (r + 1) % SeqMod
  BY Sizes, ReducedSum
<1>2. r % SeqMod \in 0 .. SeqMod - 1
  BY Sizes
<1>. QED
  BY <1>1, <1>2 DEF NextSeq

(* Rounds of the same sequence number are a multiple of SeqMod apart. *)
LEMMA SameSeq ==
  ASSUME NEW r \in Nat, NEW b \in Nat, r % SeqMod = b % SeqMod
  PROVE  (r - b) % SeqMod = 0
<1>1. PICK k \in Int : r = b + k * SeqMod
  <2>1. r \in Int /\ b \in Int /\ SeqMod \in Int /\ SeqMod > 0
    BY Sizes
  <2>2. r % SeqMod = b % SeqMod <=> \E k \in Int : r = b + k * SeqMod
    BY <2>1, Congruent, Zenon
  <2>. QED
    BY <2>2, Zenon
<1>2. k * SeqMod \in Int
  BY Sizes
<1>3. r - b = k * SeqMod + 0 /\ r - b \in Int
  BY <1>1, <1>2
<1>. QED
  BY <1>3, Sizes, Remainder

(* If the windows of SeqMod rounds fill the ring a whole number of times,    *)
(* these rounds have the same window.                                        *)
LEMMA SameBase ==
  ASSUME (SeqMod * BcnSlotMax) % NFrames = 0,
         NEW r \in Nat, NEW b \in Nat, r % SeqMod = b % SeqMod
  PROVE  Base(r) = Base(b)
<1>1. PICK k \in Int : r = b + k * SeqMod
  BY Sizes, Congruent
<1>2. SeqMod * BcnSlotMax \in Int
  BY Sizes
<1>3. PICK m \in Int : SeqMod * BcnSlotMax = m * NFrames
  <2>. DEFINE x == SeqMod * BcnSlotMax
  <2>1. x \in Int /\ x % NFrames = 0
    BY <1>2
  <2>. HIDE DEF x
  <2>2. PICK q \in Int, s \in Int : x = q * NFrames + s /\ x % NFrames = s
    <3>1. x \in Int /\ NFrames \in Int /\ NFrames > 0
      BY <2>1, Sizes
    <3>2. \E q \in Int, s \in Int : x = q * NFrames + s /\ 0 <= s /\ s < NFrames /\ x % NFrames = s
      BY ONLY <3>1, Division
    <3>. QED
      BY ONLY <3>2, Zenon
  <2>3. q * NFrames \in Int
    BY Sizes
  <2>4. s = 0 /\ x = q * NFrames + s
    BY ONLY <2>1, <2>2
  <2>5. x = q * NFrames
    BY ONLY <2>3, <2>4
  <2>. QED
    BY <2>5 DEF x
<1>4. r * BcnSlotMax = b * BcnSlotMax + (k * m) * NFrames
  <2>1. r * BcnSlotMax = b * BcnSlotMax + k * (SeqMod * BcnSlotMax)
    BY <1>1, Sizes
  <2>2. k * (m * NFrames) = (k * m) * NFrames
    BY Sizes
  <2>. QED
    BY ONLY <1>3, <2>1, <2>2, Zenon
<1>. DEFINE x == NFrames - 1 + r * BcnSlotMax
            y == NFrames - 1 + b * BcnSlotMax
            l == k * m
<1>5. x \in Int /\ y \in Int /\ l \in Int /\ x = y + l * NFrames
  <2>1. b * BcnSlotMax \in Int /\ (k * m) * NFrames \in Int /\ k * m \in Int /\ r * BcnSlotMax \in Int
    BY Sizes
  <2>. QED
    BY <1>4, <2>1, Sizes
<1>6. Base(r) = x % NFrames /\ Base(b) = y % NFrames
  BY DEF Base
<1>. HIDE DEF x, y, l
<1>7. x % NFrames = y % NFrames
  BY <1>5, Sizes, Congruent
<1>. QED
  BY <1>6, <1>7

(* The bits below a called slot are those of the slots before it. *)
LEMMA CalledFacts ==
  /\ NumberOfBits(SlotMask) = BcnSlotMax
  /\ \A i \in SlotMask : BitIndex(SlotMask, i) = i - 1 /\ i - 1 \in SlotIdx
  /\ \A i \in Bitfield : BitIndex(Bitfield, i) = i - 1 /\ i - 1 \in SlotIdx
<1>1. NumberOfBits(SlotMask) = BcnSlotMax
  <2>1. Cardinality(1 .. BcnSlotMax) = IF 1 > BcnSlotMax THEN 0 ELSE BcnSlotMax - 1 + 1
    BY Sizes, FS_Interval
  <2>. QED
    BY <2>1, Sizes DEF NumberOfBits, SlotMask
<1>2. ASSUME NEW i \in SlotMask
      PROVE  Cardinality(1 .. i - 1) = i - 1 /\ i - 1 \in SlotIdx
  <2>1. i \in Int /\ 1 <= i /\ i <= BcnSlotMax
    BY <1>2, Sizes DEF SlotMask
  <2>2. Cardinality(1 .. i - 1) = IF 1 > i - 1 THEN 0 ELSE (i - 1) - 1 + 1
    BY <2>1, FS_Interval
  <2>. QED
    BY <2>1, <2>2, Sizes DEF SlotIdx
<1>3. ASSUME NEW i \in SlotMask
      PROVE  {j \in SlotMask : j < i} = 1 .. i - 1
  BY Sizes DEF SlotMask
<1>4. ASSUME NEW i \in Bitfield
      PROVE  {j \in Bitfield : j < i} = 1 .. i - 1 /\ i \in SlotMask
  BY Sizes, DataAssumption DEF SlotMask, Bitfield
<1>. QED
  BY <1>1, <1>2, <1>3, <1>4 DEF BitIndex, NumberOfBits

-----------------------------------------------------------------------------
(* The invariant. *)

TagInv ==
  /\ round \in Nat /\ waiting \in BOOLEAN
  /\ waiting => round > 0
  /\ idx = Base(round) /\ seq_num = round % SeqMod
  /\ frames \in [Place -> FrameRec]
  /\ air \in SUBSET Answer
  /\ heard \in SUBSET [slot_idx : SlotIdx, addr : Anchor, tof : Nat]

(* The request is on the air before any answer, and the answers still to     *)
(* come belong to later slots than those that were heard.                    *)
CallInv ==
  /\ call \in {NoCall} \cup [bitfield : {Bitfield}, seq : 0 .. SeqMod - 1]
  /\ ~waiting => call = NoCall
  /\ call # NoCall => air = {} /\ heard = {}
  /\ \A h \in heard, f \in air : h.slot_idx < f.slot_idx

AnswerOf(f) == [slot_idx |-> f.slot_idx, addr |-> f.addr, tof |-> f.tof]

(* A FINAL frame is where the round that wrote it put it, with the sequence  *)
(* number of that round; one of this round was heard.                        *)
FrameInv ==
  \A p \in Place : frames[p].code = "FINAL" =>
    /\ frames[p].born > 0 /\ frames[p].born <= round
    /\ frames[p].seq = frames[p].born % SeqMod
    /\ p = RingPlace(Base(frames[p].born), frames[p].slot_idx)
    /\ frames[p].born = round => AnswerOf(frames[p]) \in heard

(* What was heard in this round is still in the ring. *)
HeardInv ==
  \A h \in heard : LET f == frames[RingPlace(idx, h.slot_idx)]
                   IN f.code = "FINAL" /\ f.seq = seq_num /\ AnswerOf(f) = h

RingInv == TagInv /\ CallInv /\ FrameInv /\ HeardInv

(* The ring is empty at the start. *)
LEMMA RingInit == Init => RingInv
<1>. SUFFICES ASSUME Init PROVE RingInv
  OBVIOUS
<1>1. Base(0) = NFrames - 1
  <2>1. 0 * BcnSlotMax = 0
    BY Sizes
  <2>2. NFrames - 1 + 0 * BcnSlotMax = NFrames - 1
    BY <2>1, Sizes
  <2>3. (NFrames - 1) % NFrames = NFrames - 1
    BY Sizes
  <2>. QED
    BY <2>2, <2>3 DEF Base
<1>2. 0 % SeqMod = 0
  BY Sizes
<1>3. BlankFrame("INVALID", 0, 0) \in FrameRec /\ BlankFrame("INVALID", 0, 0).code # "FINAL"
  <2>1. 0 \in 0 .. SeqMod - 1 /\ 0 \in SlotIdx
    BY Sizes DEF SlotIdx
  <2>. QED
    BY <2>1 DEF BlankFrame, FrameRec
<1>4. /\ frames \in [Place -> FrameRec] /\ \A p \in Place : frames[p].code # "FINAL"
      /\ heard = {} /\ air = {} /\ call = NoCall /\ round = 0 /\ waiting = FALSE
      /\ idx = NFrames - 1 /\ seq_num = 0
  BY <1>3 DEF Init
<1>. QED
  BY <1>1, <1>2, <1>4 DEF RingInv, TagInv, CallInv, FrameInv, HeardInv

(* Steps that leave the ring alone; a round that ends hears no more answers. *)
LEMMA RingKept ==
  ASSUME RingInv, UNCHANGED <<idx, seq_num, frames, round, heard, call>>,
         air' \in {air, {}}, waiting' \in BOOLEAN, waiting' => waiting, ~waiting' => call = NoCall
  PROVE  RingInv'
<1>1. TagInv'
  BY DEF RingInv, TagInv
<1>2. CallInv'
  BY DEF RingInv, CallInv
<1>3. FrameInv'
  BY DEF RingInv, FrameInv
<1>4. HeardInv'
  BY DEF RingInv, HeardInv
<1>. QED
  BY <1>1, <1>2, <1>3, <1>4 DEF RingInv

(* The anchors hear the request. *)
LEMMA HearRequestInv ==
  ASSUME RingInv, HearRequest
  PROVE  RingInv'
<1>1. /\ call # NoCall /\ call' = NoCall /\ heard = {}
      /\ UNCHANGED <<idx, seq_num, frames, waiting, round, heard>>
      /\ call \in [bitfield : {Bitfield}, seq : 0 .. SeqMod - 1]
  BY DEF HearRequest, tag, RingInv, CallInv
<1>2. air' \in SUBSET Answer
  <2>1. call.bitfield = Bitfield /\ call.seq \in 0 .. SeqMod - 1
    BY <1>1
  <2>2. ASSUME NEW n \in Anchor, slot_id[n] \in Bitfield
        PROVE  [slot_idx |-> BitIndex(call.bitfield, slot_id[n]), seq |-> call.seq, src |-> n] \in Answer
    BY <2>1, <2>2, CalledFacts DEF Answer
  <2>3. air' \subseteq {[slot_idx |-> BitIndex(call.bitfield, slot_id[n]), seq |-> call.seq, src |-> n] :
                         n \in {m \in Anchor : slot_id[m] \in Bitfield}}
    BY <2>1 DEF HearRequest
  <2>. QED
    BY <2>2, <2>3
<1>3. TagInv'
  BY <1>1, <1>2 DEF RingInv, TagInv
<1>4. CallInv'
  BY <1>1 DEF RingInv, CallInv
<1>5. FrameInv' /\ HeardInv'
  BY <1>1 DEF RingInv, FrameInv, HeardInv
<1>. QED
  BY <1>3, <1>4, <1>5 DEF RingInv

(* A new round: the next window and the next number.                         *)
LEMMA RequestInv ==
  ASSUME RingInv, Request
  PROVE  RingInv'
<1>1. /\ ~waiting /\ round' = round + 1 /\ idx' = NextIdx(idx) /\ seq_num' = NextSeq(seq_num)
      /\ frames' = [frames EXCEPT ![idx'] = BlankFrame("REQUEST", seq_num', round')]
      /\ heard' = {} /\ air' = {}
      /\ \/ waiting' = TRUE /\ call' = [bitfield |-> Bitfield, seq |-> seq_num']
         \/ UNCHANGED <<waiting, call>>
  BY DEF Request
<1>2. /\ round \in Nat /\ idx = Base(round) /\ seq_num = round % SeqMod
      /\ frames \in [Place -> FrameRec] /\ waiting \in BOOLEAN
      /\ call = NoCall
  BY <1>1 DEF RingInv, TagInv, CallInv
<1>3. idx' = Base(round') /\ idx' \in Place
  <2>1. Base(round + 1) = RingPlace(Base(round), BcnSlotMax)
    BY <1>2, BaseFacts
  <2>2. round + 1 \in Nat
    BY <1>2
  <2>. QED
    BY <1>1, <1>2, <2>1, <2>2, BaseFacts, CalledFacts DEF NextIdx
<1>4. seq_num' = round' % SeqMod /\ seq_num' \in 0 .. SeqMod - 1
  <2>1. (round + 1) % SeqMod = NextSeq(round % SeqMod)
    BY <1>2, SeqFacts
  <2>2. round + 1 \in Nat
    BY <1>2
  <2>. QED
    BY <1>1, <1>2, <2>1, <2>2, SeqFacts
<1>5. round' \in Nat /\ round' > 0
  BY <1>1, <1>2
<1>6. BlankFrame("REQUEST", seq_num', round') \in FrameRec
  <2>1. 0 \in SlotIdx
    BY Sizes DEF SlotIdx
  <2>. QED
    BY <1>4, <1>5, <2>1 DEF BlankFrame, FrameRec
<1>7. /\ frames' \in [Place -> FrameRec]
      /\ frames'[idx'].code = "REQUEST"
      /\ \A p \in Place : p # idx' => frames'[p] = frames[p]
  BY <1>1, <1>2, <1>3, <1>6 DEF BlankFrame
<1>8. TagInv'
  BY <1>1, <1>2, <1>3, <1>4, <1>5, <1>7 DEF TagInv
<1>9. CallInv'
  BY <1>1, <1>2, <1>4 DEF CallInv
<1>10. FrameInv'
  <2>. SUFFICES ASSUME NEW p \in Place, frames'[p].code = "FINAL"
                PROVE  /\ frames'[p].born > 0 /\ frames'[p].born <= round'
                       /\ frames'[p].seq = frames'[p].born % SeqMod
                       /\ p = RingPlace(Base(frames'[p].born), frames'[p].slot_idx)
                       /\ frames'[p].born # round'
    BY DEF FrameInv
  <2>1. frames'[p] = frames[p]
    BY <1>7
  <2>2. frames[p].born \in Nat
    BY <1>2 DEF FrameRec
  <2>. QED
    BY <1>1, <1>2, <2>1, <2>2 DEF RingInv, FrameInv
<1>11. HeardInv'
  BY <1>1 DEF HeardInv
<1>. QED
  BY <1>8, <1>9, <1>10, <1>11 DEF RingInv

(* An answer takes the place of its slot in the window. *)
LEMMA HearResponseInv ==
  ASSUME RingInv, NEW f \in air, NEW t \in Tof[f.src], HearResponse(f, t)
  PROVE  RingInv'
<1>1. /\ waiting /\ air' = {g \in air : g.slot_idx > f.slot_idx}
      /\ UNCHANGED <<call, idx, seq_num, waiting, round>>
  BY DEF HearResponse
<1>2. /\ round \in Nat /\ round > 0 /\ idx = Base(round) /\ seq_num = round % SeqMod
      /\ frames \in [Place -> FrameRec] /\ air \in SUBSET Answer
      /\ heard \in SUBSET [slot_idx : SlotIdx, addr : Anchor, tof : Nat]
  BY <1>1 DEF RingInv, TagInv
<1>3. f \in Answer /\ f.slot_idx \in SlotIdx /\ f.seq \in 0 .. SeqMod - 1 /\ f.src \in Anchor
  BY <1>2 DEF Answer
<1>4. t \in Nat
  BY <1>3, DataAssumption
<1>5. call = NoCall
  BY DEF RingInv, CallInv
<1>6. CASE f.seq # seq_num
  <2>1. UNCHANGED <<frames, heard>>
    BY <1>6 DEF HearResponse
  <2>2. TagInv'
    BY <1>1, <1>2, <2>1 DEF RingInv, TagInv
  <2>3. CallInv'
    BY <1>1, <1>5, <2>1 DEF RingInv, CallInv
  <2>4. FrameInv' /\ HeardInv'
    BY <1>1, <2>1 DEF RingInv, FrameInv, HeardInv
  <2>. QED
    BY <2>2, <2>3, <2>4 DEF RingInv
<1>7. CASE f.seq = seq_num
  <2>. DEFINE q == RingPlace(idx, f.slot_idx)
              new == [code |-> "FINAL", seq |-> f.seq, slot_idx |-> f.slot_idx,
                      addr |-> f.src, tof |-> t, born |-> round]
              h0 == [slot_idx |-> f.slot_idx, addr |-> f.src, tof |-> t]
  <2>1. frames' = [frames EXCEPT ![q] = new] /\ heard' = heard \cup {h0}
    BY <1>7 DEF HearResponse
  <2>2. idx \in Place
    BY <1>2, BaseFacts
  <2>3. q \in Place
    BY <1>3, <2>2, PlaceFacts
  <2>4. new \in FrameRec /\ AnswerOf(new) = h0 /\ new.code = "FINAL" /\ new.seq = seq_num
        /\ new.born = round /\ new.slot_idx = f.slot_idx
    BY <1>2, <1>3, <1>4, <1>7 DEF FrameRec, AnswerOf
  <2>5. h0 \in [slot_idx : SlotIdx, addr : Anchor, tof : Nat] /\ h0.slot_idx = f.slot_idx
    BY <1>3, <1>4
  <2>. HIDE DEF q, new, h0
  <2>6. /\ frames' \in [Place -> FrameRec] /\ frames'[q] = new
        /\ \A p \in Place : p # q => frames'[p] = frames[p]
    BY <1>2, <2>1, <2>3, <2>4
  <2>7. TagInv'
    BY <1>1, <1>2, <2>1, <2>5, <2>6 DEF RingInv, TagInv
  <2>8. CallInv'
    <3>1. \A h \in heard, g \in air' : h.slot_idx < g.slot_idx
      BY <1>1 DEF RingInv, CallInv
    <3>2. \A g \in air' : f.slot_idx < g.slot_idx
      BY <1>1, <1>2, <1>3 DEF Answer, SlotIdx
    <3>. QED
      BY <1>1, <1>5, <2>1, <2>5, <3>1, <3>2 DEF RingInv, CallInv
  <2>9. FrameInv'
    <3>. SUFFICES ASSUME NEW p \in Place, frames'[p].code = "FINAL"
                  PROVE  /\ frames'[p].born > 0 /\ frames'[p].born <= round'
                         /\ frames'[p].seq = frames'[p].born % SeqMod
                         /\ p = RingPlace(Base(frames'[p].born), frames'[p].slot_idx)
                         /\ frames'[p].born = round' => AnswerOf(frames'[p]) \in heard'
      BY DEF FrameInv
    <3>1. CASE p = q
      BY <1>1, <1>2, <2>1, <2>4, <2>6, <3>1 DEF q
    <3>2. CASE p # q
      BY <1>1, <2>1, <2>6, <3>2 DEF RingInv, FrameInv
    <3>. QED
      BY <3>1, <3>2
  <2>10. HeardInv'
    <3>. SUFFICES ASSUME NEW h \in heard'
                  PROVE  LET g == frames'[RingPlace(idx, h.slot_idx)]
                         IN g.code = "FINAL" /\ g.seq = seq_num /\ AnswerOf(g) = h
      BY <1>1 DEF HeardInv
    <3>1. CASE h = h0
      BY <2>4, <2>5, <2>6, <3>1 DEF q
    <3>2. CASE h \in heard
      <4>1. h.slot_idx \in SlotIdx /\ h.slot_idx < f.slot_idx
        BY <1>2, <3>2 DEF RingInv, CallInv
      <4>2. h.slot_idx # f.slot_idx
        BY <1>3, <4>1 DEF SlotIdx
      <4>3. RingPlace(idx, h.slot_idx) # q /\ RingPlace(idx, h.slot_idx) \in Place
        BY <1>3, <2>2, <4>1, <4>2, PlaceFacts DEF q
      <4>4. frames'[RingPlace(idx, h.slot_idx)] = frames[RingPlace(idx, h.slot_idx)]
        BY <2>6, <4>3
      <4>. QED
        BY <3>2, <4>4 DEF RingInv, HeardInv
    <3>. QED
      BY <2>1, <3>1, <3>2
  <2>. QED
    BY <2>7, <2>8, <2>9, <2>10 DEF RingInv
<1>. QED
  BY <1>6, <1>7

-----------------------------------------------------------------------------
(* The reports: a task that has cleared the flag has read nothing older than *)
(* the location, or the flag is set again.                                   *)

ReportInv ==
  /\ location \in Nat
  /\ updated \in [Reader -> BOOLEAN]
  /\ reader \in [Reader -> [pc : {"idle", "first", "second"}, first : Nat, report : Nat \X Nat]]
  /\ \A k \in Reader : ~updated[k] =>
       /\ reader[k].pc = "idle" => reader[k].report = <<location, location>>
       /\ reader[k].pc = "second" => reader[k].first = location

IInv == RingInv /\ ReportInv

(* Steps that leave location, flags and readers alone. *)
LEMMA ReportKept ==
  ASSUME ReportInv, UNCHANGED <<location, updated, reader>>
  PROVE  ReportInv'
BY DEF ReportInv

(* A new location sets every flag. *)
LEMMA RxTimeoutReport ==
  ASSUME ReportInv, round \in Nat, RxTimeout
  PROVE  ReportInv'
<1>1. UNCHANGED reader
  BY DEF RxTimeout, EndRound
<1>2. CASE UNCHANGED <<location, updated>>
  BY <1>1, <1>2, ReportKept
<1>3. CASE location' = round /\ updated' = Flagged
  BY <1>1, <1>3 DEF ReportInv, Flagged
<1>. QED
  BY <1>2, <1>3 DEF RxTimeout, app

(* A step of a reporting task. *)
LEMMA ReadReport ==
  ASSUME ReportInv, NEW k \in Reader, Read(k)
  PROVE  ReportInv'
<1>1. UNCHANGED location
  BY DEF Read, app
<1>. DEFINE R == [pc : {"idle", "first", "second"}, first : Nat, report : Nat \X Nat]
<1>2. /\ location \in Nat /\ updated \in [Reader -> BOOLEAN] /\ reader \in [Reader -> R]
      /\ reader[k] \in R
  BY DEF ReportInv
<1>3. CASE StartRead(k)
  <2>1. /\ reader' = [reader EXCEPT ![k].pc = "first"]
        /\ updated' = [updated EXCEPT ![k] = FALSE]
    BY <1>3 DEF StartRead
  <2>2. reader' \in [Reader -> R] /\ reader'[k].pc = "first" /\ updated' \in [Reader -> BOOLEAN]
    BY <1>2, <2>1
  <2>3. \A m \in Reader : m # k => reader'[m] = reader[m] /\ updated'[m] = updated[m]
    BY <1>2, <2>1
  <2>. QED
    BY <1>1, <1>2, <2>2, <2>3 DEF ReportInv
<1>4. CASE ReadFirst(k)
  <2>1. reader' = [reader EXCEPT ![k].pc = "second", ![k].first = location] /\ UNCHANGED updated
    BY <1>4 DEF ReadFirst
  <2>2. reader' \in [Reader -> R] /\ reader'[k].pc = "second" /\ reader'[k].first = location
    BY <1>2, <2>1
  <2>3. \A m \in Reader : m # k => reader'[m] = reader[m]
    BY <1>2, <2>1
  <2>. QED
    BY <1>1, <1>2, <2>1, <2>2, <2>3 DEF ReportInv
<1>5. CASE FinishRead(k)
  <2>1. /\ reader' = [reader EXCEPT ![k].pc = "idle", ![k].first = 0,
                                    ![k].report = <<reader[k].first, location>>]
        /\ UNCHANGED updated /\ reader[k].pc = "second"
    BY <1>5 DEF FinishRead
  <2>2. <<reader[k].first, location>> \in Nat \X Nat
    BY <1>2
  <2>3. /\ reader' \in [Reader -> R] /\ reader'[k].pc = "idle"
        /\ reader'[k].report = <<reader[k].first, location>>
    BY <1>2, <2>1, <2>2
  <2>4. \A m \in Reader : m # k => reader'[m] = reader[m]
    BY <1>2, <2>1
  <2>. QED
    BY <1>1, <1>2, <2>1, <2>3, <2>4 DEF ReportInv
<1>. QED
  BY <1>3, <1>4, <1>5 DEF Read

-----------------------------------------------------------------------------
(* The invariant holds initially. *)
LEMMA InitInv == Init => IInv
<1>1. Init => ReportInv
  <2>. SUFFICES ASSUME Init PROVE ReportInv
    OBVIOUS
  <2>1. updated \in [Reader -> BOOLEAN] /\ location = 0
    BY DEF Init
  <2>2. [pc |-> "idle", first |-> 0, report |-> <<0, 0>>]
          \in [pc : {"idle", "first", "second"}, first : Nat, report : Nat \X Nat]
    OBVIOUS
  <2>. QED
    BY <2>1, <2>2 DEF Init, ReportInv
<1>. QED
  BY <1>1, RingInit DEF IInv

(* Every step keeps the invariant. *)
LEMMA NextInv == IInv /\ [Next]_vars => IInv'
<1>. SUFFICES ASSUME IInv, [Next]_vars PROVE IInv'
  OBVIOUS
<1>1. /\ RingInv /\ ReportInv /\ round \in Nat /\ waiting \in BOOLEAN
      /\ ~waiting => call = NoCall
  BY DEF IInv, RingInv, TagInv, CallInv
<1>2. CASE UNCHANGED vars
  BY <1>1, <1>2, RingKept, ReportKept DEF IInv, vars, tag, app
<1>3. ASSUME NEW n \in Anchor, ChangeSlot(n) PROVE IInv'
  BY <1>1, <1>3, RingKept, ReportKept DEF IInv, ChangeSlot, tag, app
<1>4. CASE ListenTimeout
  BY <1>1, <1>4, RingKept, ReportKept DEF IInv, ListenTimeout, tag, app
<1>5. CASE Request
  <2>1. RingInv'
    BY <1>1, <1>5, RequestInv
  <2>. QED
    BY <1>1, <1>5, <2>1, ReportKept DEF IInv, Request, app
<1>6. CASE HearRequest
  <2>1. RingInv'
    BY <1>1, <1>6, HearRequestInv
  <2>. QED
    BY <1>1, <1>6, <2>1, ReportKept DEF IInv, HearRequest, app
<1>7. CASE HearForeign
  BY <1>1, <1>7, RingKept, ReportKept DEF IInv, HearForeign, app
<1>8. CASE RxError \/ RxTimeout
  <2>1. EndRound
    BY <1>8 DEF RxError, RxTimeout
  <2>2. RingInv'
    BY <1>1, <2>1, RingKept DEF EndRound
  <2>3. ReportInv'
    BY <1>1, <1>8, RxTimeoutReport, ReportKept DEF RxError, EndRound, app
  <2>. QED
    BY <2>2, <2>3 DEF IInv
<1>9. ASSUME NEW f \in air, NEW t \in Tof[f.src], HearResponse(f, t) PROVE IInv'
  <2>1. RingInv'
    BY <1>1, <1>9, HearResponseInv
  <2>. QED
    BY <1>1, <1>9, <2>1, ReportKept DEF IInv, HearResponse, app
<1>10. ASSUME NEW k \in Reader, Read(k) PROVE IInv'
  <2>1. RingInv'
    BY <1>1, <1>10, RingKept DEF Read, tag
  <2>. QED
    BY <1>1, <1>10, <2>1, ReadReport DEF IInv
<1>. QED
  BY <1>2, <1>3, <1>4, <1>5, <1>6, <1>7, <1>8, <1>9, <1>10 DEF Next

(* The invariant of ring and reports holds. *)
THEOREM IInvSafe == Spec => []IInv
BY InitInv, NextInv, PTL DEF Spec

(* Where complete_cb looks for the answer of a slot. *)
LEMMA WindowFacts ==
  ASSUME RingInv, NEW i \in SlotMask
  PROVE  /\ BitIndex(SlotMask, i) = i - 1 /\ i - 1 \in SlotIdx
         /\ ResponseOf(i) = frames[RingPlace(idx, i - 1)]
         /\ RingPlace(idx, i - 1) \in Place /\ ResponseOf(i) \in FrameRec
<1>1. BitIndex(SlotMask, i) = i - 1 /\ i - 1 \in SlotIdx
  BY CalledFacts
<1>2. idx \in Place /\ frames \in [Place -> FrameRec]
  BY BaseFacts DEF RingInv, TagInv
<1>. QED
  BY <1>1, <1>2, PlaceFacts DEF ResponseOf

(* What was heard in this round is collected for its slot. *)
LEMMA HeardCollected ==
  ASSUME RingInv
  PROVE  heard \subseteq {Measured(i) : i \in Collected}
<1>. SUFFICES ASSUME NEW h \in heard PROVE \E i \in Collected : Measured(i) = h
  OBVIOUS
<1>1. h \in [slot_idx : SlotIdx, addr : Anchor, tof : Nat]
  BY DEF RingInv, TagInv
<1>. DEFINE i == h.slot_idx + 1
<1>2. i \in SlotMask /\ i - 1 = h.slot_idx
  BY <1>1, Sizes DEF SlotIdx, SlotMask
<1>. HIDE DEF i
<1>3. /\ BitIndex(SlotMask, i) = h.slot_idx
      /\ ResponseOf(i) = frames[RingPlace(idx, h.slot_idx)]
  BY <1>2, WindowFacts
<1>4. ResponseOf(i).code = "FINAL" /\ ResponseOf(i).seq = seq_num /\ AnswerOf(ResponseOf(i)) = h
  BY <1>3 DEF RingInv, HeardInv
<1>5. i \in Collected
  BY <1>2, <1>4 DEF Collected, Collects
<1>6. Measured(i) = h
  BY <1>1, <1>3, <1>4 DEF Measured, AnswerOf
<1>. QED
  BY <1>5, <1>6

(* A frame that is collected was written with the number of this round.      *)
LEMMA CollectedFacts ==
  ASSUME RingInv, NEW i \in Collected
  PROVE  LET f == ResponseOf(i)
         IN /\ i \in SlotMask /\ f \in FrameRec /\ f.born \in Nat /\ round \in Nat
            /\ f.born > 0 /\ f.born <= round /\ round % SeqMod = f.born % SeqMod
            /\ RingPlace(idx, i - 1) = RingPlace(Base(f.born), f.slot_idx)
            /\ f.born = round => AnswerOf(f) \in heard
<1>1. i \in SlotMask /\ ResponseOf(i).code = "FINAL" /\ ResponseOf(i).seq = seq_num
  BY DEF Collected, Collects
<1>2. /\ ResponseOf(i) = frames[RingPlace(idx, i - 1)]
      /\ RingPlace(idx, i - 1) \in Place /\ ResponseOf(i) \in FrameRec
  BY <1>1, WindowFacts
<1>3. ResponseOf(i).born \in Nat /\ round \in Nat /\ seq_num = round % SeqMod
  BY <1>2 DEF FrameRec, RingInv, TagInv
<1>. QED
  BY <1>1, <1>2, <1>3 DEF RingInv, FrameInv

(* The ring never confuses rounds that seq_num tells apart, if the windows   *)
(* of all sequence numbers fill the ring a whole number of times: 256 times  *)
(* 14 places in a ring of 32 do.                                             *)
THEOREM CurrentSafe ==
  ASSUME (SeqMod * BcnSlotMax) % NFrames = 0
  PROVE  Spec => []RangesCurrent
<1>1. IInv => RangesCurrent
  <2>. SUFFICES ASSUME RingInv PROVE RangesCurrent
    BY DEF IInv
  <2>1. ASSUME NEW i \in Collected
        PROVE  /\ (round - ResponseOf(i).born) % SeqMod = 0
               /\ ResponseOf(i).slot_idx = BitIndex(SlotMask, i)
    <3>. DEFINE f == ResponseOf(i)
    <3>1. /\ i \in SlotMask /\ f \in FrameRec /\ f.born \in Nat /\ round \in Nat
          /\ round % SeqMod = f.born % SeqMod
          /\ RingPlace(idx, i - 1) = RingPlace(Base(f.born), f.slot_idx)
      BY CollectedFacts
    <3>2. BitIndex(SlotMask, i) = i - 1 /\ i - 1 \in SlotIdx /\ f.slot_idx \in SlotIdx
      BY <3>1, WindowFacts DEF FrameRec
    <3>3. idx = Base(round) /\ idx \in Place
      BY <3>1, BaseFacts DEF RingInv, TagInv
    <3>. HIDE DEF f
    <3>4. (round - f.born) % SeqMod = 0 /\ Base(round) = Base(f.born)
      BY <3>1, SameSeq, SameBase
    <3>5. i - 1 = f.slot_idx
      BY <3>1, <3>2, <3>3, <3>4, PlaceFacts
    <3>. QED
      BY <3>2, <3>4, <3>5 DEF f
  <2>. QED
    BY <2>1, HeardCollected DEF RangesCurrent
<1>. QED
  BY <1>1, IInvSafe, PTL

(* In the rounds before the wrap a collected frame was written in this round. *)
LEMMA FreshFacts ==
  ASSUME RingInv
  PROVE  FreshUntilWrap
<1>. SUFFICES ASSUME waiting, round <= SeqMod
              PROVE  {Measured(i) : i \in Collected} \subseteq heard
  BY HeardCollected DEF FreshUntilWrap
<1>. SUFFICES ASSUME NEW i \in Collected PROVE Measured(i) \in heard
  OBVIOUS
<1>. DEFINE f == ResponseOf(i)
<1>1. /\ i \in SlotMask /\ f \in FrameRec /\ f.born \in Nat /\ round \in Nat
      /\ f.born > 0 /\ f.born <= round /\ round % SeqMod = f.born % SeqMod
      /\ RingPlace(idx, i - 1) = RingPlace(Base(f.born), f.slot_idx)
      /\ f.born = round => AnswerOf(f) \in heard
  BY CollectedFacts
<1>2. f.born = round
  <2>. DEFINE d == round - f.born
  <2>1. d \in Int /\ 0 <= d /\ d < SeqMod /\ d % SeqMod = 0
    BY <1>1, SameSeq, Sizes
  <2>2. d % SeqMod = d
    BY <2>1, Sizes
  <2>3. d = 0
    BY <2>1, <2>2
  <2>. QED
    BY <1>1, <2>3
<1>3. idx = Base(round) /\ idx \in Place
  BY <1>1, BaseFacts DEF RingInv, TagInv
<1>4. BitIndex(SlotMask, i) = i - 1 /\ i - 1 \in SlotIdx /\ f.slot_idx \in SlotIdx
  BY <1>1, WindowFacts DEF FrameRec
<1>. HIDE DEF f
<1>5. i - 1 = f.slot_idx
  BY <1>1, <1>2, <1>3, <1>4, PlaceFacts
<1>. QED
  BY <1>1, <1>2, <1>4, <1>5 DEF Measured, AnswerOf, f

(* Until seq_num wraps the first time, a location is computed from the       *)
(* answers of its round and from nothing else that the ring still holds,     *)
(* whatever the size of the ring.                                            *)
THEOREM FreshSafe == Spec => []FreshUntilWrap
BY FreshFacts, IInvSafe, PTL DEF IInv

(* At rest both tasks have reported the last location: the flag is cleared   *)
(* before the coordinates are read, so a location that is written in between *)
(* sets it again.                                                            *)
THEOREM ReportSafe == Spec => []LastReported
<1>1. IInv => LastReported
  BY DEF IInv, ReportInv, LastReported
<1>. QED
  BY <1>1, IInvSafe, PTL

-----------------------------------------------------------------------------
(* Type correctness and the selection of the nearest anchors. *)

(* An anchor answers a request once, and is in the ring under its address.   *)
SourceInv ==
  /\ \A f, g \in air : f.src = g.src => f = g
  /\ \A h, g \in heard : h.addr = g.addr => h = g
  /\ \A h \in heard, f \in air : h.addr # f.src
  /\ \A p \in Place : frames[p].code = "FINAL" => frames[p].addr \in Anchor

(* What TypeOK says beside the invariant of the ring. *)
RestInv ==
  /\ slot_id \in [Anchor -> {0} \cup SlotMask]
  /\ moves \in 0 .. MaxMoves
  /\ lsn \in [Anchor -> {"idle", "listening", "passed"}]
  /\ fctrl \in {"OTHER", "RANGE"}
  /\ nearest \in Seq([addr : Anchor, tof : Nat]) /\ Len(nearest) <= Selected
  /\ location \in 0 .. MaxRounds
  /\ updated \in [Reader -> BOOLEAN]
  /\ reader \in [Reader -> [pc : {"idle", "first", "second"}, first : 0 .. MaxRounds,
                            report : (0 .. MaxRounds) \X (0 .. MaxRounds)]]
  /\ round \in 0 .. MaxRounds

(* The invariant of the ranging: ring, reports, sources and types. *)
FullInv == IInv /\ SourceInv /\ RestInv

(* One answer per anchor at the start. *)
LEMMA SourceInit == Init => SourceInv
<1>. SUFFICES ASSUME Init PROVE SourceInv
  OBVIOUS
<1>1. \A p \in Place : frames[p].code = "INVALID"
  BY DEF Init, BlankFrame
<1>2. air = {} /\ heard = {}
  BY DEF Init
<1>. QED
  BY <1>1, <1>2 DEF SourceInv

(* Steps that leave the ring alone. *)
LEMMA SourceKept ==
  ASSUME SourceInv, UNCHANGED <<frames, heard>>, air' \in {air, {}}
  PROVE  SourceInv'
BY DEF SourceInv

(* Every called anchor answers once. *)
LEMMA HearRequestSource ==
  ASSUME RingInv, SourceInv, HearRequest
  PROVE  SourceInv'
<1>1. heard = {} /\ UNCHANGED <<frames, heard>>
  BY DEF HearRequest, tag, RingInv, CallInv
<1>. DEFINE A(n) == [slot_idx |-> BitIndex(call.bitfield, slot_id[n]), seq |-> call.seq, src |-> n]
<1>2. \A f \in air' : \E n \in Anchor : f = A(n)
  BY DEF HearRequest
<1>3. \A n \in Anchor : A(n).src = n
  OBVIOUS
<1>. HIDE DEF A
<1>4. \A f, g \in air' : f.src = g.src => f = g
  BY <1>2, <1>3
<1>. QED
  BY <1>1, <1>4 DEF SourceInv

(* A request forgets the answers of the last round. *)
LEMMA RequestSource ==
  ASSUME RingInv, SourceInv, Request
  PROVE  SourceInv'
<1>1. /\ frames' = [frames EXCEPT ![idx'] = BlankFrame("REQUEST", seq_num', round')]
      /\ heard' = {} /\ air' = {} /\ frames \in [Place -> FrameRec]
  BY DEF Request, RingInv, TagInv
<1>2. BlankFrame("REQUEST", seq_num', round').code # "FINAL"
  BY DEF BlankFrame
<1>3. \A p \in Place : frames'[p].code = "FINAL" => frames'[p] = frames[p]
  BY <1>1, <1>2
<1>. QED
  BY <1>1, <1>3 DEF SourceInv

(* An answer that is heard is not on the air any more. *)
LEMMA HearResponseSource ==
  ASSUME RingInv, SourceInv, NEW f \in air, NEW t \in Tof[f.src], HearResponse(f, t)
  PROVE  SourceInv'
<1>1. air' = {g \in air : g.slot_idx > f.slot_idx}
  BY DEF HearResponse
<1>2. f \in Answer /\ f.slot_idx \in SlotIdx /\ f.src \in Anchor /\ frames \in [Place -> FrameRec]
  BY DEF RingInv, TagInv, Answer
<1>3. \A g \in air' : g \in air /\ g.src # f.src
  <2>1. \A g \in air' : g \in air /\ g # f
    BY <1>1, <1>2 DEF SlotIdx
  <2>. QED
    BY <2>1 DEF SourceInv
<1>4. CASE UNCHANGED <<frames, heard>>
  BY <1>3, <1>4 DEF SourceInv
<1>5. CASE f.seq = seq_num
  <2>. DEFINE q == RingPlace(idx, f.slot_idx)
              new == [code |-> "FINAL", seq |-> f.seq, slot_idx |-> f.slot_idx,
                      addr |-> f.src, tof |-> t, born |-> round]
              h0 == [slot_idx |-> f.slot_idx, addr |-> f.src, tof |-> t]
  <2>1. frames' = [frames EXCEPT ![q] = new] /\ heard' = heard \cup {h0}
    BY <1>5 DEF HearResponse
  <2>2. new.addr = f.src /\ h0.addr = f.src
    OBVIOUS
  <2>. HIDE DEF q, new, h0
  <2>3. \A p \in Place : frames'[p] = frames[p] \/ frames'[p] = new
    BY <1>2, <2>1
  <2>4. \A p \in Place : frames'[p].code = "FINAL" => frames'[p].addr \in Anchor
    BY <1>2, <2>2, <2>3 DEF SourceInv
  <2>5. \A h \in heard : h.addr # f.src
    BY DEF SourceInv
  <2>6. \A h, g \in heard' : h.addr = g.addr => h = g
    BY <2>1, <2>2, <2>5 DEF SourceInv
  <2>7. \A h \in heard', g \in air' : h.addr # g.src
    BY <1>3, <2>1, <2>2 DEF SourceInv
  <2>8. \A g, h \in air' : g.src = h.src => g = h
    BY <1>3 DEF SourceInv
  <2>. QED
    BY <2>4, <2>6, <2>7, <2>8 DEF SourceInv
<1>. QED
  BY <1>4, <1>5 DEF HearResponse

-----------------------------------------------------------------------------
(* The selection loop. *)

TofOf(i) == ResponseOf(i).tof

(* The frames that are collected are those of anchors. *)
LEMMA CollectedTypes ==
  ASSUME RingInv, SourceInv, NEW i \in Collected
  PROVE  i \in SlotMask /\ i \in Nat /\ TofOf(i) \in Nat /\ ResponseOf(i).addr \in Anchor
<1>1. i \in SlotMask /\ ResponseOf(i).code = "FINAL"
  BY DEF Collected, Collects
<1>2. /\ ResponseOf(i) = frames[RingPlace(idx, i - 1)]
      /\ RingPlace(idx, i - 1) \in Place /\ ResponseOf(i) \in FrameRec
  BY <1>1, WindowFacts
<1>. QED
  BY <1>1, <1>2, Sizes DEF SourceInv, FrameRec, TofOf, SlotMask

(* Of some ranges there is a nearest one, and of equals a last one. *)
LEMMA NextNearestFacts ==
  ASSUME RingInv, SourceInv, NEW C \in SUBSET Collected, C # {}
  PROVE  NextNearest(C) \in C /\ \A j \in C : TofOf(NextNearest(C)) <= TofOf(j)
<1>1. \A j \in C : j \in SlotMask /\ j \in Nat /\ TofOf(j) \in Nat
  BY CollectedTypes
<1>. DEFINE T == {TofOf(j) : j \in C}
<1>2. T \in SUBSET Nat /\ T # {}
  BY <1>1
<1>3. PICK m \in T : \A u \in T : m <= u
  <2>. HIDE DEF T
  <2>. QED
    BY <1>2, LeastOf
<1>4. m \in Nat /\ \A j \in C : m <= TofOf(j)
  BY <1>2, <1>3
<1>. DEFINE B == {BcnSlotMax - j : j \in {k \in C : TofOf(k) = m}}
<1>5. B \in SUBSET Nat /\ B # {}
  <2>1. \A j \in C : BcnSlotMax - j \in Nat
    BY <1>1, Sizes DEF SlotMask
  <2>. QED
    BY <1>3, <2>1
<1>6. PICK d \in B : \A e \in B : d <= e
  <2>. HIDE DEF B
  <2>. QED
    BY <1>5, LeastOf
<1>7. PICK i \in C : d = BcnSlotMax - i /\ TofOf(i) = m
  BY <1>6
<1>8. \A j \in C : TofOf(i) < TofOf(j) \/ (TofOf(i) = TofOf(j) /\ j <= i)
  <2>. SUFFICES ASSUME NEW j \in C, TofOf(j) = m PROVE j <= i
    BY <1>1, <1>4, <1>7
  <2>1. d <= BcnSlotMax - j
    BY <1>6
  <2>. QED
    BY <1>1, <1>7, <2>1, Sizes
<1>9. \E n \in C : \A j \in C : TofOf(n) < TofOf(j) \/ (TofOf(n) = TofOf(j) /\ j <= n)
  BY <1>8
<1>10. /\ NextNearest(C) \in C
       /\ \A j \in C : \/ TofOf(NextNearest(C)) < TofOf(j)
                       \/ TofOf(NextNearest(C)) = TofOf(j) /\ j <= NextNearest(C)
  BY <1>9 DEF NextNearest, TofOf
<1>. QED
  BY <1>1, <1>10

(* One round of the loop adds one collected range or leaves the ranges. *)
LEMMA AddNearestFacts ==
  ASSUME RingInv, SourceInv, NEW s \in Seq(Collected)
  PROVE  LET C == {i \in Collected : MayFollow(s, i)}
         IN \/ C = {} /\ AddNearest(s) = s
            \/ \E i \in C : /\ AddNearest(s) = Append(s, i)
                            /\ \A j \in C : TofOf(i) <= TofOf(j)
<1>. DEFINE C == {i \in Collected : MayFollow(s, i)}
<1>1. AddNearest(s) = IF C = {} THEN s ELSE Append(s, NextNearest(C))
  BY DEF AddNearest
<1>2. C \in SUBSET Collected
  OBVIOUS
<1>. HIDE DEF C
<1>3. CASE C = {}
  BY <1>1, <1>3 DEF C
<1>4. CASE C # {}
  <2>1. NextNearest(C) \in C /\ \A j \in C : TofOf(NextNearest(C)) <= TofOf(j)
    BY <1>2, <1>4, NextNearestFacts
  <2>2. AddNearest(s) = Append(s, NextNearest(C))
    BY <1>1, <1>4
  <2>3. \E i \in C : AddNearest(s) = Append(s, i) /\ \A j \in C : TofOf(i) <= TofOf(j)
    BY <2>1, <2>2, Zenon
  <2>. QED
    BY <2>3 DEF C
<1>. QED
  BY <1>3, <1>4

(* The loop computes the ranges round by round. *)
LEMMA SelectionLoop ==
  ASSUME RingInv, SourceInv
  PROVE  \E pick \in [0 .. Selected -> Seq(Collected)] :
           /\ pick[0] = <<>>
           /\ \A k \in 0 .. Selected : k # 0 => pick[k] = AddNearest(pick[k - 1])
           /\ NearestSlots = pick[Selected]
<1>1. Selected \in Nat
  BY DataAssumption
<1>. DEFINE X == Seq(Collected)
            h == [x \in X \X Nat |-> AddNearest(x[1])]
            pick[k \in 0 .. Selected] == IF k = 0 THEN <<>> ELSE AddNearest(pick[k - 1])
<1>2. \A s \in X : AddNearest(s) \in X
  <2>. SUFFICES ASSUME NEW s \in X PROVE AddNearest(s) \in X
    OBVIOUS
  <2>1. \/ AddNearest(s) = s
        \/ \E i \in Collected : AddNearest(s) = Append(s, i)
    BY AddNearestFacts
  <2>. QED
    BY <2>1
<1>3. h \in [X \X Nat -> X] /\ <<>> \in X /\ \A s \in X, k \in Nat : h[<<s, k>>] = AddNearest(s)
  BY <1>2
<1>. HIDE DEF h, X
<1>4. PICK f \in [0 .. Selected -> X] : StepsFrom(f, <<>>, h, Selected)
  <2>. DEFINE e == <<>>
  <2>1. e \in X /\ h \in [X \X Nat -> X]
    BY <1>3
  <2>. HIDE DEF e
  <2>2. \E f \in [0 .. Selected -> X] : StepsFrom(f, e, h, Selected)
    BY ONLY <1>1, <2>1, Recursion
  <2>. QED
    BY ONLY <2>2 DEF e
<1>5. f = [k \in 0 .. Selected |-> IF k = 0 THEN <<>> ELSE AddNearest(f[k - 1])]
  <2>1. ASSUME NEW k \in 0 .. Selected, k # 0
        PROVE  f[k] = AddNearest(f[k - 1])
    <3>1. k - 1 \in 0 .. Selected /\ k \in Nat /\ k \in 1 .. Selected
      BY <1>1, <2>1
    <3>. QED
      BY <1>3, <1>4, <2>1, <3>1 DEF StepsFrom
  <2>2. \A k \in 0 .. Selected : f[k] = IF k = 0 THEN <<>> ELSE AddNearest(f[k - 1])
    BY <1>4, <2>1 DEF StepsFrom
  <2>. QED
    BY <2>2
<1>6. pick = CHOOSE g : g = [k \in 0 .. Selected |-> IF k = 0 THEN <<>> ELSE AddNearest(g[k - 1])]
  BY DEF pick
<1>7. NearestSlots = pick[Selected]
  BY DEF NearestSlots, pick
<1>. HIDE DEF pick
<1>8. pick = [k \in 0 .. Selected |-> IF k = 0 THEN <<>> ELSE AddNearest(pick[k - 1])]
  BY <1>5, <1>6, Zenon
<1>9. \A k \in 0 .. Selected : pick[k] = IF k = 0 THEN <<>> ELSE AddNearest(pick[k - 1])
  BY <1>8, Zenon
<1>. DEFINE S == {k \in Nat : k <= Selected => pick[k] \in X}
<1>10. 0 \in S
  BY <1>1, <1>3, <1>9
<1>11. ASSUME NEW k \in S PROVE k + 1 \in S
  <2>. SUFFICES ASSUME k + 1 <= Selected PROVE pick[k + 1] \in X
    OBVIOUS
  <2>1. k \in Nat /\ k + 1 \in 0 .. Selected /\ k + 1 # 0 /\ (k + 1) - 1 = k /\ k <= Selected
    BY <1>1
  <2>2. pick[k] \in X
    BY <2>1
  <2>. QED
    BY <1>2, <1>9, <2>1, <2>2
<1>12. S = Nat
  <2>1. S \in SUBSET Nat
    OBVIOUS
  <2>. HIDE DEF S
  <2>. QED
    BY <1>10, <1>11, <2>1, AllNaturals
<1>13. \A k \in 0 .. Selected : pick[k] \in X
  BY <1>1, <1>12
<1>14. pick \in [0 .. Selected -> X]
  BY <1>8, <1>13
<1>15. /\ pick[0] = <<>>
       /\ \A k \in 0 .. Selected : k # 0 => pick[k] = AddNearest(pick[k - 1])
  BY <1>1, <1>9
<1>. QED
  BY <1>7, <1>14, <1>15 DEF X

(* At most Selected ranges are chosen, all of them collected. *)
LEMMA SelectionTypes ==
  ASSUME RingInv, SourceInv
  PROVE  NearestSlots \in Seq(Collected) /\ Len(NearestSlots) <= Selected
<1>0. Selected \in Nat
  BY DataAssumption
<1>1. PICK pick \in [0 .. Selected -> Seq(Collected)] :
         /\ pick[0] = <<>>
         /\ \A k \in 0 .. Selected : k # 0 => pick[k] = AddNearest(pick[k - 1])
         /\ NearestSlots = pick[Selected]
  BY SelectionLoop
<1>. DEFINE S == {k \in Nat : k <= Selected => Len(pick[k]) <= k}
<1>2. 0 \in S
  BY <1>1
<1>3. ASSUME NEW k \in S PROVE k + 1 \in S
  <2>. SUFFICES ASSUME k + 1 <= Selected PROVE Len(pick[k + 1]) <= k + 1
    OBVIOUS
  <2>1. /\ k \in Nat /\ k \in 0 .. Selected /\ k + 1 \in 0 .. Selected /\ k + 1 # 0
        /\ (k + 1) - 1 = k /\ k <= Selected
    BY <1>0
  <2>. DEFINE s == pick[k]
  <2>2. s \in Seq(Collected) /\ Len(s) <= k /\ pick[k + 1] = AddNearest(s)
    BY <1>1, <2>1
  <2>. HIDE DEF s
  <2>3. \/ AddNearest(s) = s
        \/ \E i \in Collected : AddNearest(s) = Append(s, i)
    BY <2>2, AddNearestFacts
  <2>4. Len(AddNearest(s)) <= Len(s) + 1
    BY <2>2, <2>3
  <2>. QED
    BY <2>1, <2>2, <2>4
<1>4. S = Nat
  <2>1. S \in SUBSET Nat
    OBVIOUS
  <2>. HIDE DEF S
  <2>. QED
    BY <1>2, <1>3, <2>1, AllNaturals
<1>5. Selected \in S
  <2>. HIDE DEF S
  <2>. QED
    BY <1>0, <1>4
<1>6. Selected <= Selected
  BY <1>0
<1>7. Len(pick[Selected]) <= Selected
  BY <1>5, <1>6
<1>8. pick[Selected] \in Seq(Collected)
  BY <1>0
<1>. QED
  BY <1>1, <1>7, <1>8, Zenon

(* complete_cb keeps the types of g_distance4 and of the location. *)
LEMMA RxTimeoutTypes ==
  ASSUME RingInv, SourceInv, RestInv, RxTimeout
  PROVE  RestInv'
<1>1. UNCHANGED <<slot_id, moves, lsn, fctrl, round, reader>>
  BY DEF RxTimeout, EndRound
<1>2. location' \in {location, round} /\ updated' \in {updated, Flagged}
  BY DEF RxTimeout, app
<1>3. location' \in 0 .. MaxRounds /\ updated' \in [Reader -> BOOLEAN]
  BY <1>2 DEF RestInv, Flagged
<1>4. nearest' \in Seq([addr : Anchor, tof : Nat]) /\ Len(nearest') <= Selected
  <2>1. CASE fctrl # "RANGE"
    BY <2>1 DEF RxTimeout, app, RestInv
  <2>2. CASE fctrl = "RANGE"
    <3>. DEFINE s == NearestSlots
                R(i) == [addr |-> ResponseOf(i).addr, tof |-> ResponseOf(i).tof]
                A == [addr : Anchor, tof : Nat]
    <3>1. nearest' = [k \in DOMAIN s |-> R(s[k])]
      BY <2>2 DEF RxTimeout
    <3>2. s \in Seq(Collected) /\ Len(s) <= Selected
      BY SelectionTypes
    <3>3. \A i \in Collected : R(i) \in A
      BY CollectedTypes DEF TofOf
    <3>. HIDE DEF s, R, A
    <3>4. \A k \in 1 .. Len(s) : R(s[k]) \in A
      BY <3>2, <3>3
    <3>5. nearest' = [k \in 1 .. Len(s) |-> R(s[k])] /\ Len(s) \in Nat
      BY <3>1, <3>2
    <3>6. nearest' \in Seq(A) /\ Len(nearest') = Len(s)
      BY <3>4, <3>5
    <3>. QED
      BY <3>2, <3>6 DEF A
  <2>. QED
    BY <2>1, <2>2
<1>. QED
  BY <1>1, <1>3, <1>4 DEF RestInv

(* A reporting task copies the location. *)
LEMMA ReadTypes ==
  ASSUME RestInv, NEW k \in Reader, Read(k)
  PROVE  RestInv'
<1>1. UNCHANGED <<slot_id, moves, lsn, fctrl, round, nearest, location>>
  BY DEF Read, tag, app
<1>. DEFINE R == [pc : {"idle", "first", "second"}, first : 0 .. MaxRounds,
                  report : (0 .. MaxRounds) \X (0 .. MaxRounds)]
<1>2. /\ location \in 0 .. MaxRounds /\ updated \in [Reader -> BOOLEAN]
      /\ reader \in [Reader -> R] /\ 0 \in 0 .. MaxRounds
  BY DataAssumption DEF RestInv
<1>3. updated' \in [Reader -> BOOLEAN]
  BY <1>2 DEF Read, StartRead, ReadFirst, FinishRead
<1>4. reader' \in [Reader -> R]
  <2>1. CASE StartRead(k)
    BY <1>2, <2>1 DEF StartRead
  <2>2. CASE ReadFirst(k)
    BY <1>2, <2>2 DEF ReadFirst
  <2>3. CASE FinishRead(k)
    <3>1. <<reader[k].first, location>> \in (0 .. MaxRounds) \X (0 .. MaxRounds)
      BY <1>2
    <3>2. reader' = [reader EXCEPT ![k].pc = "idle", ![k].first = 0,
                                   ![k].report = <<reader[k].first, location>>]
      BY <2>3 DEF FinishRead
    <3>. DEFINE new == [[[reader[k] EXCEPT !.pc = "idle"] EXCEPT !.first = 0]
                          EXCEPT !.report = <<reader[k].first, location>>]
    <3>3. new \in R
      <4>1. reader[k] \in R
        BY <1>2
      <4>. QED
        BY <1>2, <3>1, <4>1
    <3>4. reader' = [reader EXCEPT ![k] = new]
      BY <1>2, <3>2
    <3>. HIDE DEF new, R
    <3>. QED
      BY <1>2, <3>3, <3>4
  <2>. QED
    BY <2>1, <2>2, <2>3 DEF Read
<1>. QED
  BY <1>1, <1>3, <1>4 DEF RestInv

(* The types at the start. *)
LEMMA RestInit == Init => RestInv
<1>. SUFFICES ASSUME Init PROVE RestInv
  OBVIOUS
<1>1. MaxRounds \in Nat /\ MaxMoves \in Nat /\ Selected \in Nat
      /\ slot_id \in [Anchor -> {0} \cup SlotMask]
  BY DataAssumption DEF Init
<1>2. [pc |-> "idle", first |-> 0, report |-> <<0, 0>>]
        \in [pc : {"idle", "first", "second"}, first : 0 .. MaxRounds,
             report : (0 .. MaxRounds) \X (0 .. MaxRounds)]
  BY <1>1
<1>3. nearest \in Seq([addr : Anchor, tof : Nat]) /\ Len(nearest) <= Selected
  BY <1>1 DEF Init
<1>. QED
  BY <1>1, <1>2, <1>3 DEF Init, RestInv

(* Every step keeps sources and types. *)
LEMMA FullNext == FullInv /\ [Next]_vars => FullInv'
<1>. SUFFICES ASSUME FullInv, [Next]_vars PROVE FullInv'
  OBVIOUS
<1>0. IInv /\ RingInv /\ SourceInv /\ RestInv
  BY DEF FullInv, IInv
<1>1. IInv'
  BY <1>0, NextInv
<1>2. SourceInv' /\ RestInv'
  <2>1. CASE UNCHANGED vars
    BY <1>0, <2>1, SourceKept DEF RestInv, vars, tag, app
  <2>2. ASSUME NEW n \in Anchor, ChangeSlot(n) PROVE SourceInv' /\ RestInv'
    <3>1. SourceInv'
      BY <1>0, <2>2, SourceKept DEF ChangeSlot, tag
    <3>2. slot_id' \in [Anchor -> {0} \cup SlotMask] /\ moves' \in 0 .. MaxMoves
      BY <1>0, <2>2, DataAssumption DEF ChangeSlot, RestInv
    <3>3. UNCHANGED <<lsn, fctrl, nearest, location, updated, reader, round>>
      BY <2>2 DEF ChangeSlot, tag, app
    <3>. QED
      BY <1>0, <3>1, <3>2, <3>3 DEF RestInv
  <2>3. CASE ListenTimeout
    <3>1. SourceInv'
      BY <1>0, <2>3, SourceKept DEF ListenTimeout, tag
    <3>2. RestInv'
      BY <1>0, <2>3 DEF ListenTimeout, RestInv, tag, app
    <3>. QED
      BY <3>1, <3>2
  <2>4. CASE Request
    <3>1. SourceInv'
      BY <1>0, <2>4, RequestSource
    <3>2. lsn' \in [Anchor -> {"idle", "listening", "passed"}]
      BY <2>4 DEF Request, Listen
    <3>3. round' \in 0 .. MaxRounds
      BY <1>0, <2>4, DataAssumption DEF Request, RestInv
    <3>4. fctrl' = "OTHER" /\ UNCHANGED <<slot_id, moves, nearest, location, updated, reader>>
      BY <2>4 DEF Request, app
    <3>. QED
      BY <1>0, <3>1, <3>2, <3>3, <3>4 DEF RestInv
  <2>5. CASE HearRequest
    <3>1. SourceInv'
      BY <1>0, <2>5, HearRequestSource
    <3>2. lsn' \in [Anchor -> {"idle", "listening", "passed"}]
      BY <2>5 DEF HearRequest
    <3>3. UNCHANGED <<slot_id, moves, fctrl, nearest, location, updated, reader, round>>
      BY <2>5 DEF HearRequest, tag, app
    <3>. QED
      BY <1>0, <3>1, <3>2, <3>3 DEF RestInv
  <2>6. CASE HearForeign
    BY <1>0, <2>6, SourceKept DEF HearForeign, RestInv, app
  <2>7. CASE RxError
    BY <1>0, <2>7, SourceKept DEF RxError, EndRound, RestInv, app
  <2>8. CASE RxTimeout
    <3>1. SourceInv'
      BY <1>0, <2>8, SourceKept DEF RxTimeout, EndRound
    <3>. QED
      BY <1>0, <2>8, <3>1, RxTimeoutTypes
  <2>9. ASSUME NEW f \in air, NEW t \in Tof[f.src], HearResponse(f, t) PROVE SourceInv' /\ RestInv'
    <3>1. SourceInv'
      BY <1>0, <2>9, HearResponseSource
    <3>2. fctrl' = "RANGE"
          /\ UNCHANGED <<slot_id, moves, lsn, nearest, location, updated, reader, round>>
      BY <2>9 DEF HearResponse, app
    <3>. QED
      BY <1>0, <3>1, <3>2 DEF RestInv
  <2>10. ASSUME NEW k \in Reader, Read(k) PROVE SourceInv' /\ RestInv'
    <3>1. SourceInv'
      BY <1>0, <2>10, SourceKept DEF Read, tag
    <3>. QED
      BY <1>0, <2>10, <3>1, ReadTypes
  <2>. QED
    BY <2>1, <2>2, <2>3, <2>4, <2>5, <2>6, <2>7, <2>8, <2>9, <2>10 DEF Next
<1>. QED
  BY <1>1, <1>2 DEF FullInv

(* Ring, reports, sources and types are as the invariant says. *)
THEOREM FullSafe == Spec => []FullInv
<1>1. Init => FullInv
  BY InitInv, SourceInit, RestInit DEF FullInv
<1>. QED
  BY <1>1, FullNext, PTL DEF Spec

(* Types of the whole ranging: the index of the ring and the sequence number *)
(* wrap, and complete_cb writes no more than the four ranges of g_distance4. *)
THEOREM TypeCorrect == Spec => []TypeOK
<1>1. FullInv => TypeOK
  <2>. SUFFICES ASSUME FullInv PROVE TypeOK
    OBVIOUS
  <2>1. RestInv /\ RingInv
    BY DEF FullInv, IInv
  <2>2. /\ round \in Nat /\ idx = Base(round) /\ seq_num = round % SeqMod
        /\ frames \in [Place -> FrameRec] /\ waiting \in BOOLEAN /\ air \in SUBSET Answer
        /\ heard \in SUBSET [slot_idx : SlotIdx, addr : Anchor, tof : Nat]
        /\ call \in {NoCall} \cup [bitfield : {Bitfield}, seq : 0 .. SeqMod - 1]
    BY <2>1 DEF RingInv, TagInv, CallInv
  <2>3. idx \in Place /\ seq_num \in 0 .. SeqMod - 1
    BY <2>2, BaseFacts, SeqFacts
  <2>. QED
    BY <2>1, <2>2, <2>3 DEF RestInv, TypeOK
<1>. QED
  BY <1>1, FullSafe, PTL

(* An anchor is collected once: until the wrap all that is collected was     *)
(* heard in this round.                                                      *)
LEMMA DistinctRanges ==
  ASSUME RingInv, SourceInv, waiting, round <= SeqMod
  PROVE  /\ {Measured(i) : i \in Collected} = heard
         /\ \A i, j \in Collected : ResponseOf(i).addr = ResponseOf(j).addr => i = j
<1>1. {Measured(i) : i \in Collected} = heard
  BY FreshFacts DEF FreshUntilWrap
<1>2. ASSUME NEW i \in Collected, NEW j \in Collected, ResponseOf(i).addr = ResponseOf(j).addr
      PROVE  i = j
  <2>1. Measured(i) \in heard /\ Measured(j) \in heard
    BY <1>1
  <2>2. Measured(i).addr = Measured(j).addr
    BY <1>2 DEF Measured
  <2>3. Measured(i) = Measured(j)
    BY <2>1, <2>2 DEF SourceInv
  <2>4. Measured(i).slot_idx = BitIndex(SlotMask, i) /\ Measured(j).slot_idx = BitIndex(SlotMask, j)
    BY DEF Measured
  <2>5. BitIndex(SlotMask, i) = i - 1 /\ BitIndex(SlotMask, j) = j - 1 /\ i \in Nat /\ j \in Nat
    BY WindowFacts, CollectedTypes
  <2>. QED
    BY <2>3, <2>4, <2>5
<1>. QED
  BY <1>1, <1>2

(* What the loop keeps from round to round: the ranges are distinct and      *)
(* sorted, none that is left is nearer, and fewer than k are all there are.  *)
NearestFirst(s, k) ==
  /\ s \in Seq(Collected) /\ Len(s) <= k
  /\ \A m, n \in DOMAIN s : s[m] = s[n] => m = n
  /\ \A m, n \in DOMAIN s : m <= n => TofOf(s[m]) <= TofOf(s[n])
  /\ \A i \in Collected : (\A m \in DOMAIN s : s[m] # i) => FarthestTof(s) <= TofOf(i)
  /\ Len(s) = k \/ \A i \in Collected : \E m \in DOMAIN s : s[m] = i

(* One round of the loop. *)
LEMMA NearestFirstNext ==
  ASSUME RingInv, SourceInv, NEW k \in Nat, NEW s, NearestFirst(s, k),
         \A i, j \in Collected : ResponseOf(i).addr = ResponseOf(j).addr => i = j
  PROVE  NearestFirst(AddNearest(s), k + 1)
<1>. DEFINE C == {i \in Collected : MayFollow(s, i)}
            n == Len(s)
<1>1. /\ s \in Seq(Collected) /\ n \in Nat /\ n <= k /\ DOMAIN s = 1 .. n
      /\ \A m \in 1 .. n : s[m] \in Collected
  BY DEF NearestFirst
<1>2. \A i \in Collected : TofOf(i) \in Nat
  BY CollectedTypes
<1>3. FarthestTof(s) = IF n = 0 THEN 0 ELSE TofOf(s[n])
  BY <1>1 DEF FarthestTof, TofOf
<1>4. \A m \in 1 .. n : TofOf(s[m]) <= FarthestTof(s)
  <2>. SUFFICES ASSUME NEW m \in 1 .. n PROVE TofOf(s[m]) <= TofOf(s[n])
    BY <1>1, <1>3
  <2>1. m \in DOMAIN s /\ n \in DOMAIN s /\ m <= n
    BY <1>1
  <2>2. \A j, l \in DOMAIN s : j <= l => TofOf(s[j]) <= TofOf(s[l])
    BY DEF NearestFirst
  <2>. QED
    BY <2>1, <2>2
<1>5. \A i \in Collected : i \in C <=> \A m \in 1 .. n : s[m] # i
  <2>1. ASSUME NEW i \in Collected, \A m \in 1 .. n : s[m] # i
        PROVE  i \in C
    <3>1. FarthestTof(s) <= TofOf(i)
      BY <1>1, <2>1 DEF NearestFirst
    <3>2. \A m \in 1 .. n : ResponseOf(s[m]).addr # ResponseOf(i).addr
      BY <1>1, <2>1
    <3>3. TofOf(i) > FarthestTof(s) \/ TofOf(i) = FarthestTof(s)
      BY <1>1, <1>2, <1>3, <3>1
    <3>. QED
      BY <1>1, <3>2, <3>3 DEF MayFollow, TofOf
  <2>2. ASSUME NEW m \in 1 .. n
        PROVE  s[m] \notin C
    <3>1. ~(TofOf(s[m]) > FarthestTof(s))
      BY <1>1, <1>2, <1>3, <1>4
    <3>. QED
      BY <1>1, <3>1 DEF MayFollow, TofOf
  <2>. QED
    BY <2>1, <2>2
<1>6. CASE C = {} /\ AddNearest(s) = s
  <2>1. \A i \in Collected : \E m \in DOMAIN s : s[m] = i
    BY <1>1, <1>5, <1>6
  <2>2. Len(s) <= k + 1
    BY <1>1
  <2>. QED
    BY <1>6, <2>1, <2>2 DEF NearestFirst
<1>7. ASSUME NEW i \in C, AddNearest(s) = Append(s, i), \A j \in C : TofOf(i) <= TofOf(j)
      PROVE  NearestFirst(AddNearest(s), k + 1)
  <2>. DEFINE r == AddNearest(s)
  <2>1. i \in Collected /\ \A m \in 1 .. n : s[m] # i
    BY <1>5
  <2>2. /\ r \in Seq(Collected) /\ Len(r) = n + 1 /\ DOMAIN r = 1 .. n + 1 /\ r[n + 1] = i
        /\ \A m \in 1 .. n : r[m] = s[m]
    BY <1>1, <1>7, <2>1
  <2>. HIDE DEF r, C
  <2>3. FarthestTof(r) = TofOf(i)
    BY <1>1, <2>2 DEF FarthestTof, TofOf
  <2>4. n = k
    BY <1>1, <2>1 DEF NearestFirst
  <2>5. FarthestTof(s) <= TofOf(i)
    BY <1>1, <2>1 DEF NearestFirst
  <2>6. \A m \in 1 .. n : TofOf(s[m]) <= TofOf(i)
    <3>. SUFFICES ASSUME NEW m \in 1 .. n PROVE TofOf(s[m]) <= TofOf(i)
      OBVIOUS
    <3>1. TofOf(s[m]) \in Nat /\ TofOf(i) \in Nat /\ FarthestTof(s) \in Nat
      BY <1>1, <1>2, <1>3, <2>1
    <3>2. TofOf(s[m]) <= FarthestTof(s)
      BY <1>4
    <3>. QED
      BY <2>5, <3>1, <3>2
  <2>7. \A m, l \in 1 .. n + 1 : r[m] = r[l] => m = l
    <3>1. \A m, l \in 1 .. n : s[m] = s[l] => m = l
      BY <1>1 DEF NearestFirst
    <3>2. \A m \in 1 .. n + 1 : m \in 1 .. n \/ m = n + 1
      BY <1>1
    <3>. QED
      BY <2>1, <2>2, <3>1, <3>2
  <2>8. \A m, l \in 1 .. n + 1 : m <= l => TofOf(r[m]) <= TofOf(r[l])
    <3>. SUFFICES ASSUME NEW m \in 1 .. n + 1, NEW l \in 1 .. n + 1, m <= l
                  PROVE  TofOf(r[m]) <= TofOf(r[l])
      OBVIOUS
    <3>1. CASE l \in 1 .. n
      <4>1. m \in 1 .. n
        BY <1>1, <3>1
      <4>2. TofOf(s[m]) <= TofOf(s[l])
        BY <1>1, <3>1, <4>1 DEF NearestFirst
      <4>. QED
        BY <2>2, <3>1, <4>1, <4>2
    <3>2. CASE l = n + 1 /\ m \in 1 .. n
      BY <2>2, <2>6, <3>2
    <3>3. CASE l = n + 1 /\ m = n + 1
      BY <1>2, <2>1, <2>2, <3>3
    <3>. QED
      BY <1>1, <3>1, <3>2, <3>3
  <2>9. \A j \in Collected : (\A m \in 1 .. n + 1 : r[m] # j) => TofOf(i) <= TofOf(j)
    <3>. SUFFICES ASSUME NEW j \in Collected, \A m \in 1 .. n + 1 : r[m] # j
                  PROVE  TofOf(i) <= TofOf(j)
      OBVIOUS
    <3>1. \A m \in 1 .. n : m \in 1 .. n + 1
      BY <1>1
    <3>2. j \in C
      BY <1>5, <2>2, <3>1
    <3>. QED
      BY <1>7, <3>2
  <2>10. NearestFirst(r, k + 1)
    BY <2>2, <2>3, <2>4, <2>7, <2>8, <2>9 DEF NearestFirst
  <2>. QED
    BY <2>10 DEF r
<1>. QED
  BY <1>1, <1>6, <1>7, AddNearestFacts

(* The loop chooses the nearest of what is collected. *)
LEMMA SelectionNearest ==
  ASSUME RingInv, SourceInv,
         \A i, j \in Collected : ResponseOf(i).addr = ResponseOf(j).addr => i = j
  PROVE  NearestFirst(NearestSlots, Selected)
<1>0. Selected \in Nat
  BY DataAssumption
<1>1. PICK pick \in [0 .. Selected -> Seq(Collected)] :
         /\ pick[0] = <<>>
         /\ \A k \in 0 .. Selected : k # 0 => pick[k] = AddNearest(pick[k - 1])
         /\ NearestSlots = pick[Selected]
  BY SelectionLoop
<1>. DEFINE S == {k \in Nat : k <= Selected => NearestFirst(pick[k], k)}
<1>2. 0 \in S
  <2>1. \A i \in Collected : TofOf(i) \in Nat
    BY CollectedTypes
  <2>2. NearestFirst(<<>>, 0)
    BY <2>1 DEF NearestFirst, FarthestTof
  <2>. QED
    BY <1>1, <2>2
<1>3. ASSUME NEW k \in S PROVE k + 1 \in S
  <2>. SUFFICES ASSUME k + 1 <= Selected PROVE NearestFirst(pick[k + 1], k + 1)
    OBVIOUS
  <2>1. k \in Nat /\ k + 1 \in 0 .. Selected /\ k + 1 # 0 /\ (k + 1) - 1 = k /\ k <= Selected
    BY <1>0
  <2>2. NearestFirst(pick[k], k) /\ pick[k + 1] = AddNearest(pick[k])
    BY <1>1, <2>1
  <2>. QED
    BY <2>1, <2>2, NearestFirstNext
<1>4. S = Nat
  <2>1. S \in SUBSET Nat
    OBVIOUS
  <2>. HIDE DEF S
  <2>. QED
    BY <1>2, <1>3, <2>1, AllNaturals
<1>5. Selected \in S
  <2>. HIDE DEF S
  <2>. QED
    BY <1>0, <1>4
<1>6. Selected <= Selected
  BY <1>0
<1>. QED
  BY <1>1, <1>5, <1>6

(* The ranges that the loop writes to g_distance4 are the nearest ones of    *)
(* those that were heard in this round.                                      *)
LEMMA SelectionIsNearest ==
  ASSUME FullInv, waiting, round <= SeqMod, fctrl = "RANGE", RxTimeout
  PROVE  IsNearest(nearest')
<1>. DEFINE s == NearestSlots
            R(i) == [addr |-> ResponseOf(i).addr, tof |-> ResponseOf(i).tof]
            n == Len(s)
            r == nearest'
            chosen == {r[k] : k \in DOMAIN r}
            ranges == {[addr |-> h.addr, tof |-> h.tof] : h \in heard}
<1>1. RingInv /\ SourceInv
  BY DEF FullInv, IInv
<1>2. /\ {Measured(i) : i \in Collected} = heard
      /\ \A i, j \in Collected : ResponseOf(i).addr = ResponseOf(j).addr => i = j
  BY <1>1, DistinctRanges
<1>3. NearestFirst(s, Selected) /\ Selected \in Nat
  BY <1>1, <1>2, SelectionNearest, DataAssumption
<1>4. /\ s \in Seq(Collected) /\ n \in Nat /\ DOMAIN s = 1 .. n
      /\ \A k \in 1 .. n : s[k] \in Collected
  BY <1>3 DEF NearestFirst
<1>5. r = [k \in DOMAIN s |-> R(s[k])]
  BY DEF RxTimeout
<1>6. /\ r \in Seq({R(i) : i \in Collected}) /\ Len(r) = n /\ DOMAIN r = 1 .. n
      /\ \A k \in 1 .. n : r[k] = R(s[k])
  <2>. HIDE DEF R, s, n
  <2>1. r = [k \in 1 .. n |-> R(s[k])]
    BY <1>4, <1>5
  <2>. HIDE DEF r
  <2>. QED
    BY <1>4, <2>1
<1>7. /\ \A i \in Collected : R(i).tof = TofOf(i) /\ TofOf(i) \in Nat
      /\ \A i, j \in Collected : R(i) = R(j) => i = j
  <2>1. \A i \in Collected : R(i).tof = TofOf(i) /\ R(i).addr = ResponseOf(i).addr
    BY DEF TofOf
  <2>. HIDE DEF R
  <2>. QED
    BY <1>1, <1>2, <2>1, CollectedTypes
<1>8. ranges = {R(i) : i \in Collected}
  <2>1. ranges = {[addr |-> Measured(i).addr, tof |-> Measured(i).tof] : i \in Collected}
    BY <1>2
  <2>2. \A i \in Collected : [addr |-> Measured(i).addr, tof |-> Measured(i).tof] = R(i)
    BY DEF Measured
  <2>. HIDE DEF R, ranges
  <2>. QED
    BY <2>1, <2>2
<1>. HIDE DEF R, s, n, r
<1>9. chosen \subseteq ranges
  BY <1>4, <1>6, <1>8
<1>10. Cardinality(chosen) = n
  <2>1. \A k, m \in 1 .. n : r[k] = r[m] => k = m
    BY <1>3, <1>4, <1>6, <1>7 DEF NearestFirst
  <2>2. \A k \in 1 .. n : r[k] \in chosen
    BY <1>6
  <2>3. \A c \in chosen : \E k \in 1 .. n : r[k] = c
    BY <1>6
  <2>. DEFINE f == [k \in 1 .. n |-> r[k]]
  <2>4. f \in Bijection(1 .. n, chosen)
    <3>1. f \in [1 .. n -> chosen] /\ \A k \in 1 .. n : f[k] = r[k]
      BY <2>2
    <3>. HIDE DEF f, chosen
    <3>. QED
      BY <2>1, <2>3, <3>1 DEF Bijection, Injection, Surjection, IsInjective
  <2>5. IsFiniteSet(1 .. n) /\ Cardinality(1 .. n) = n
    <3>1. Cardinality(1 .. n) = IF 1 > n THEN 0 ELSE n - 1 + 1
      BY <1>4, FS_Interval
    <3>. QED
      BY <1>4, <3>1, FS_Interval
  <2>. HIDE DEF chosen, f
  <2>. QED
    BY <2>4, <2>5, FS_Bijection DEF ExistsBijection
<1>11. Len(r) = Selected \/ chosen = ranges
  <2>. SUFFICES ASSUME Len(r) # Selected PROVE ranges \subseteq chosen
    BY <1>9
  <2>1. \A i \in Collected : \E m \in DOMAIN s : s[m] = i
    BY <1>3, <1>6 DEF NearestFirst, n
  <2>. QED
    BY <1>4, <1>6, <1>8, <2>1
<1>12. \A k, m \in DOMAIN r : k <= m => r[k].tof <= r[m].tof
  BY <1>3, <1>4, <1>6, <1>7 DEF NearestFirst
<1>13. \A d \in ranges \ chosen : \A c \in chosen : c.tof <= d.tof
  <2>. SUFFICES ASSUME NEW d \in ranges \ chosen, NEW c \in chosen
                PROVE  c.tof <= d.tof
    OBVIOUS
  <2>a. PICK i \in Collected : d = R(i)
    BY <1>8
  <2>b. PICK k \in 1 .. n : c = r[k]
    BY <1>6
  <2>c. c.tof = TofOf(s[k]) /\ d.tof = TofOf(i)
    BY <1>4, <1>6, <1>7, <2>a, <2>b
  <2>d. R(i) \notin chosen
    BY <2>a
  <2>1. \A m \in DOMAIN s : s[m] # i
    BY <1>4, <1>6, <2>d
  <2>2. FarthestTof(s) <= TofOf(i)
    BY <1>3, <2>1 DEF NearestFirst
  <2>3. n \in DOMAIN s /\ k \in DOMAIN s /\ k <= n /\ s # <<>>
    BY <1>4
  <2>4. TofOf(s[k]) <= TofOf(s[n])
    BY <1>3, <2>3 DEF NearestFirst
  <2>5. FarthestTof(s) = TofOf(s[n])
    BY <2>3 DEF FarthestTof, TofOf, n
  <2>6. TofOf(s[k]) \in Nat /\ TofOf(s[n]) \in Nat /\ TofOf(i) \in Nat
    BY <1>4, <1>7, <2>3
  <2>. QED
    BY <2>c, <2>2, <2>4, <2>5, <2>6
<1>14. IsNearest(r)
  BY <1>6, <1>9, <1>10, <1>11, <1>12, <1>13 DEF IsNearest
<1>. QED
  BY <1>14 DEF r

(* Until seq_num wraps the first time, complete_cb chooses the nearest of    *)
(* the anchors heard in the round, nearest first, whatever the ties and      *)
(* however many answered.                                                    *)
THEOREM NearestSafe == Spec => NearestChosen
<1>1. FullInv /\ [Next]_vars => [fctrl = "RANGE" /\ round <= SeqMod /\ RxTimeout => IsNearest(nearest')]_vars
  <2>. SUFFICES ASSUME FullInv, fctrl = "RANGE", round <= SeqMod, RxTimeout
                PROVE  IsNearest(nearest')
    OBVIOUS
  <2>1. waiting
    BY DEF RxTimeout, EndRound
  <2>. QED
    BY <2>1, SelectionIsNearest
<1>. QED
  BY <1>1, FullSafe, PTL DEF Spec, NearestChosen
=============================================================================
