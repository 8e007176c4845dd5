------------------------------ MODULE RtlsNrng ------------------------------
(***************************************************************************)
(* The ranging of one tag with the anchors around it:                      *)
(* firmware/lib/rtls_nrng, firmware/lib/rtls_nrng_ss and the completion    *)
(* callback of firmware/apps/rtls/src/rtls/rtls.c.                         *)
(*                                                                         *)
(* In its slot the tag calls all beacon slots at once; the anchors answer  *)
(* one after the other, in the order of their slots.  The answers are kept *)
(* in a ring of frames, where those of earlier rounds stay behind; the     *)
(* reception time-out ends the round: the tag collects the answers of the  *)
(* round from the ring, selects the nearest anchors and computes its       *)
(* location, which two other tasks read and report.                        *)
(***************************************************************************)
EXTENDS Integers, Sequences, FiniteSets

CONSTANTS
  Anchor,      \* the anchors in range
  BcnSlotMax,  \* UWB_BCN_SLOT_MAX: the slots a tag calls are 1..BcnSlotMax
  MaskBits,    \* width of start_slot_id, which carries the called slots
  NFrames,     \* NRNG_NFRAMES, the size of the ring
  SeqMod,      \* number of values of seq_num
  Selected,    \* how many ranges a location takes: 4
  Tof,         \* the times of flight that may be measured to each anchor
  Reader,      \* the tasks that report the location: "ble" and "gateway"
  StartSlot,   \* the slot of each anchor at the start
  MaxRounds,   \* bound on ranging rounds
  MaxMoves     \* bound on changes of slots

SlotMask == 1 .. BcnSlotMax
SlotIdx  == 0 .. BcnSlotMax - 1
Place    == 0 .. NFrames - 1

ASSUME RingAssumption ==
  /\ BcnSlotMax \in Nat \ {0}
  /\ NFrames \in Nat /\ BcnSlotMax <= NFrames
  /\ SeqMod \in Nat \ {0}

ASSUME DataAssumption ==
  /\ MaskBits \in Nat
  /\ Selected \in Nat
  /\ Tof \in [Anchor -> SUBSET Nat]
  /\ StartSlot \in [Anchor -> {0} \cup SlotMask]
  /\ MaxRounds \in Nat /\ MaxMoves \in Nat

VARIABLES
  slot_id,   \* dev_inst->slot_id of each anchor, 0 without a slot
  moves,     \* changes of slots so far
  lsn,       \* what nrng_listen of each anchor is doing
  call,      \* the request on the air, or NoCall
  air,       \* the answers still to come
  idx,       \* nrng->idx of the tag, modulo NFrames
  seq_num,   \* nrng->seq_num of the tag
  frames,    \* nrng->frames of the tag
  waiting,   \* nrng->sem of the tag is taken: a request is running
  fctrl,     \* frame control of the last frame the tag received
  nearest,   \* g_distance4
  location,  \* location_result, identified by the round it is computed in
  updated,   \* location_updated_ble and location_updated
  reader,    \* the tasks that report the location
  round,     \* number of requests so far
  heard      \* the answers received in this round

tag  == <<idx, seq_num, frames, waiting, fctrl, round, heard>>
app  == <<nearest, location>>
vars == <<slot_id, moves, lsn, call, air, tag, app, updated, reader>>

-----------------------------------------------------------------------------
(* Frames.  born is the round that wrote the frame: no code reads it. *)

NoAnchor == "none"

FrameRec == [code : {"INVALID", "REQUEST", "FINAL"}, seq : 0 .. SeqMod - 1,
             slot_idx : SlotIdx, addr : Anchor \cup {NoAnchor}, tof : Nat,
             born : Nat]

BlankFrame(code, seq, r) ==
  [code |-> code, seq |-> seq, slot_idx |-> 0, addr |-> NoAnchor, tof |-> 0,
   born |-> r]

Answer == [slot_idx : SlotIdx, seq : 0 .. SeqMod - 1, src : Anchor]

NoCall == [bitfield |-> {}, seq |-> -1]

NumberOfBits(S) == Cardinality(S)

(* BitIndex in mode SLOT_POSITION: the number of set bits below bit i. *)
BitIndex(S, i) == NumberOfBits({j \in S : j < i})

(* The bits of slot_mask that fit into start_slot_id. *)
Bitfield == {i \in SlotMask : i < MaskBits}

RingPlace(base, k) == (base + k) % NFrames

-----------------------------------------------------------------------------
(* The anchors. *)

(* The protocol of RtlsTdma gives an anchor another slot, or none. *)
ChangeSlot(n) ==
  /\ ~waiting /\ lsn[n] = "idle"
  /\ moves < MaxMoves /\ moves' = moves + 1
  /\ \E s \in ({0} \cup SlotMask) \ {slot_id[n]} : slot_id' = [slot_id EXCEPT ![n] = s]
  /\ UNCHANGED <<lsn, call, air, tag, app, updated, reader>>

(* rx_complete_cb, UWB_DATA_CODE_SS_TWR_NRNG, of all listening anchors at     *)
(* once: a called anchor schedules its answer and ends the listen; the others *)
(* keep waiting for the time-out.                                             *)
HearRequest ==
  LET called == {n \in Anchor : lsn[n] = "listening" /\ slot_id[n] \in call.bitfield}
  IN /\ call # NoCall
     /\ call' = NoCall
     /\ lsn' = [n \in Anchor |-> IF n \in called \/ lsn[n] = "idle" THEN "idle"
                                 ELSE "passed"]
     /\ air' = {[slot_idx |-> BitIndex(call.bitfield, slot_id[n]), seq |-> call.seq,
                 src |-> n] : n \in called}
     /\ UNCHANGED <<slot_id, moves, tag, app, updated, reader>>

(* rx_timeout_cb of the anchors: it releases the semaphore, so nrng_listen    *)
(* returns.  The listens of a slot have one length and end together.          *)
ListenTimeout ==
  /\ \E n \in Anchor : lsn[n] # "idle"
  /\ lsn' = [n \in Anchor |-> "idle"]
  /\ UNCHANGED <<slot_id, moves, call, air, tag, app, updated, reader>>

-----------------------------------------------------------------------------
(* The tag's request. *)

(* Mutant of NextSeq: ++ is missing. *)
NextSeqKept(s) == s
NextSeq(s) == (s + 1) % SeqMod

(* Mutant of NextIdx: not taken modulo the size of the ring. *)
NextIdxUnbounded(i) == i + NumberOfBits(SlotMask)
NextIdx(i) == RingPlace(i, NumberOfBits(SlotMask))

(* A ranging slot begins.  rtls_tdma_cb of the anchors: nrng_listen takes     *)
(* nrng->sem; all listens of the last slot have timed out.  An anchor whose   *)
(* start_rx fails or that will miss the request does not count as listening.  *)
Listen ==
  /\ \A n \in Anchor : lsn[n] = "idle"
  /\ \E on \in SUBSET {n \in Anchor : slot_id[n] # 0} :
       lsn' = [n \in Anchor |-> IF n \in on THEN "listening" ELSE "idle"]

(* nrng_request: the request takes the first frame of the window of this     *)
(* round; the semaphore stays taken unless start_tx fails.  The superframe   *)
(* began with a CCP, so the last frame received is no ranging frame.         *)
Request ==
  /\ ~waiting /\ round < MaxRounds
  /\ Listen
  /\ round' = round + 1
  /\ idx' = NextIdx(idx)
  /\ seq_num' = NextSeq(seq_num)
  /\ frames' = [frames EXCEPT ![idx'] = BlankFrame("REQUEST", seq_num', round')]
  /\ heard' = {}
  /\ fctrl' = "OTHER"
  /\ \/ /\ waiting' = TRUE
        /\ call' = [bitfield |-> Bitfield, seq |-> seq_num']
     \/ UNCHANGED <<waiting, call>>
  /\ air' = {}
  /\ UNCHANGED <<slot_id, moves, app, updated, reader>>

(* rx_complete_cb, UWB_DATA_CODE_SS_TWR_NRNG_T1: the answer becomes the      *)
(* FINAL frame at its place in the window.  Answers come in the order of     *)
(* their index; those before it are lost by now.                             *)
HearResponse(f, t) ==
  /\ waiting
  /\ air' = {g \in air : g.slot_idx > f.slot_idx}
  /\ fctrl' = "RANGE"
  /\ IF f.seq = seq_num
     THEN /\ frames' = [frames EXCEPT ![RingPlace(idx, f.slot_idx)] =
                 [code |-> "FINAL", seq |-> f.seq, slot_idx |-> f.slot_idx,
                  addr |-> f.src, tof |-> t, born |-> round]]
          /\ heard' = heard \cup {[slot_idx |-> f.slot_idx, addr |-> f.src, tof |-> t]}
     ELSE UNCHANGED <<frames, heard>>
  /\ UNCHANGED <<slot_id, moves, lsn, call, idx, seq_num, waiting, round, app, updated, reader>>

(* A ranging frame for somebody else is dropped, but it was received. *)
HearForeign ==
  /\ waiting
  /\ fctrl' = "RANGE"
  /\ UNCHANGED <<slot_id, moves, lsn, call, air, idx, seq_num, frames, waiting,
                 round, heard, app, updated, reader>>

(* The radio stops receiving: what is still on its way is not heard. *)
EndRound ==
  /\ waiting /\ waiting' = FALSE
  /\ call = NoCall
  /\ air' = {}
  /\ UNCHANGED <<slot_id, moves, lsn, call, idx, seq_num, frames, fctrl, round, heard, reader>>

(* rx_error_cb: once a ranging frame was received in this round, a corrupted *)
(* frame ends the request without a completion.                              *)
RxError ==
  /\ fctrl = "RANGE"
  /\ EndRound
  /\ UNCHANGED <<app, updated>>

-----------------------------------------------------------------------------
(* complete_cb of the tag. *)

ResponseOf(i) == frames[RingPlace(idx, BitIndex(SlotMask, i))]

(* Mutant of Collects: the sequence number is not compared. *)
CollectsAnySeq(i) == ResponseOf(i).code = "FINAL"

(* nrng_get_tofs_addresses: the slots with an answer to this request. *)
Collects(i) ==
  ResponseOf(i).code = "FINAL" /\ ResponseOf(i).seq = seq_num

Collected == {i \in SlotMask : Collects(i)}

(* Range i may follow the ranges s: it is not nearer than the last of them,  *)
(* and if it is as near, it is not one of them.                              *)
FarthestTof(s) == IF s = <<>> THEN 0 ELSE ResponseOf(s[Len(s)]).tof

(* Mutant of MayFollow: >= became >. *)
MayFollowStrictly(s, i) == ResponseOf(i).tof > FarthestTof(s)

MayFollow(s, i) ==
  \/ ResponseOf(i).tof > FarthestTof(s)
  \/ /\ ResponseOf(i).tof = FarthestTof(s)
     /\ \A k \in DOMAIN s : ResponseOf(s[k]).addr # ResponseOf(i).addr

(* The nearest of them; of equals the last one. *)
NextNearest(C) ==
  CHOOSE i \in C : \A j \in C :
    \/ ResponseOf(i).tof < ResponseOf(j).tof
    \/ ResponseOf(i).tof = ResponseOf(j).tof /\ j <= i

(* One round of the selection loop. *)
AddNearest(s) ==
  LET C == {i \in Collected : MayFollow(s, i)}
  IN IF C = {} THEN s ELSE Append(s, NextNearest(C))

NearestSlots ==
  LET pick[k \in 0 .. Selected] == IF k = 0 THEN <<>> ELSE AddNearest(pick[k - 1])
  IN pick[Selected]

Flagged == [k \in Reader |-> TRUE]

(* rx_timeout_cb of the tag calls complete_cb, then releases the semaphore.  *)
(* known are the anchors of the node table, whose positions the location     *)
(* needs.                                                                    *)
RxTimeout ==
  /\ EndRound
  /\ IF fctrl = "RANGE"
     THEN LET slots  == NearestSlots
              chosen == [k \in DOMAIN slots |-> [addr |-> ResponseOf(slots[k]).addr,
                                                  tof |-> ResponseOf(slots[k]).tof]]
          IN /\ nearest' = chosen
             /\ \E known \in SUBSET {chosen[k].addr : k \in DOMAIN chosen} :
                  IF Cardinality({k \in DOMAIN chosen : chosen[k].addr \in known}) = Selected
                  THEN /\ location' = round
                       /\ updated' = Flagged
                  ELSE UNCHANGED <<location, updated>>
     ELSE UNCHANGED <<app, updated>>

-----------------------------------------------------------------------------
(* The tasks that report the location, at a lower priority than the callback *)
(* above: rtls_get_location for the mesh and task_rtls_gateway_func for the  *)
(* serial line.  The flag is cleared before the coordinates are read, one by *)
(* one: two halves stand for the three.                                      *)

StartRead(k) ==
  /\ reader[k].pc = "idle" /\ updated[k]
  /\ updated' = [updated EXCEPT ![k] = FALSE]
  /\ reader' = [reader EXCEPT ![k].pc = "first"]

ReadFirst(k) ==
  /\ reader[k].pc = "first"
  /\ reader' = [reader EXCEPT ![k].pc = "second", ![k].first = location]
  /\ UNCHANGED updated

(* Mutant of FinishRead: the flag is cleared once the location is read. *)
FinishReadClears(k) ==
  /\ reader[k].pc = "second"
  /\ reader' = [reader EXCEPT ![k].pc = "idle", ![k].first = 0,
                              ![k].report = <<reader[k].first, location>>]
  /\ updated' = [updated EXCEPT ![k] = FALSE]

FinishRead(k) ==
  /\ reader[k].pc = "second"
  /\ reader' = [reader EXCEPT ![k].pc = "idle", ![k].first = 0,
                              ![k].report = <<reader[k].first, location>>]
  /\ UNCHANGED updated

Read(k) ==
  /\ StartRead(k) \/ ReadFirst(k) \/ FinishRead(k)
  /\ UNCHANGED <<slot_id, moves, lsn, call, air, tag, app>>

-----------------------------------------------------------------------------
(* nrng_init, nrng_set_frames and rtls_init. *)
Init ==
  /\ slot_id = StartSlot
  /\ moves = 0
  /\ lsn = [n \in Anchor |-> "idle"]
  /\ call = NoCall
  /\ air = {}
  /\ idx = NFrames - 1
  /\ seq_num = 0
  /\ frames = [p \in Place |-> BlankFrame("INVALID", 0, 0)]
  /\ waiting = FALSE
  /\ fctrl = "OTHER"
  /\ nearest = <<>>
  /\ location = 0
  /\ updated = [k \in Reader |-> FALSE]
  /\ reader = [k \in Reader |-> [pc |-> "idle", first |-> 0, report |-> <<0, 0>>]]
  /\ round = 0
  /\ heard = {}

Next ==
  \/ \E n \in Anchor : ChangeSlot(n)
  \/ ListenTimeout
  \/ Request \/ HearRequest \/ HearForeign \/ RxError \/ RxTimeout
  \/ \E f \in air : \E t \in Tof[f.src] : HearResponse(f, t)
  \/ \E k \in Reader : Read(k)

Spec == Init /\ [][Next]_vars

(* The reporting tasks run every superframe. *)
FairSpec == Spec /\ \A k \in Reader : WF_vars(Read(k))

-----------------------------------------------------------------------------
(* Properties. *)

(* Type correctness; the index of the ring and the sequence number wrap.     *)
TypeOK ==
  /\ slot_id \in [Anchor -> {0} \cup SlotMask]
  /\ moves \in 0 .. MaxMoves
  /\ lsn \in [Anchor -> {"idle", "listening", "passed"}]
  /\ call \in {NoCall} \cup [bitfield : {Bitfield}, seq : 0 .. SeqMod - 1]
  /\ air \in SUBSET Answer
  /\ idx \in Place
  /\ seq_num \in 0 .. SeqMod - 1
  /\ frames \in [Place -> FrameRec]
  /\ waiting \in BOOLEAN
  /\ fctrl \in {"OTHER", "RANGE"}
  /\ nearest \in Seq([addr : Anchor, tof : Nat]) /\ Len(nearest) <= Selected
  /\ location \in 0 .. MaxRounds
  /\ updated \in [Reader -> BOOLEAN]
  /\ reader \in [Reader -> [pc : {"idle", "first", "second"}, first : 0 .. MaxRounds,
                            report : (0 .. MaxRounds) \X (0 .. MaxRounds)]]
  /\ round \in 0 .. MaxRounds
  /\ heard \in SUBSET [slot_idx : SlotIdx, addr : Anchor, tof : Nat]

Measured(i) == [slot_idx |-> BitIndex(SlotMask, i), addr |-> ResponseOf(i).addr,
             tof |-> ResponseOf(i).tof]

(* The ring never confuses rounds that seq_num tells apart: a range collected *)
(* for a slot was received in this round, or a multiple of SeqMod rounds ago, *)
(* in answer to the call of that very slot; and no answer of the round is     *)
(* missed.                                                                    *)
RangesCurrent ==
  waiting =>
    /\ \A i \in Collected :
         /\ (round - ResponseOf(i).born) % SeqMod = 0
         /\ ResponseOf(i).slot_idx = BitIndex(SlotMask, i)
    /\ heard \subseteq {Measured(i) : i \in Collected}

(* Until seq_num wraps for the first time, the ranges collected are exactly   *)
(* the answers of the round.                                                  *)
FreshUntilWrap ==
  waiting /\ round <= SeqMod => {Measured(i) : i \in Collected} = heard

(* The selection loop, whatever the ties: the ranges in g_distance4 are those *)
(* of the anchors heard in this round, nearest first, and no anchor that is   *)
(* left out is nearer.                                                        *)
IsNearest(s) ==
  LET chosen == {s[k] : k \in DOMAIN s}
      ranges == {[addr |-> h.addr, tof |-> h.tof] : h \in heard}
  IN /\ chosen \subseteq ranges /\ Cardinality(chosen) = Len(s)
     /\ Len(s) = Selected \/ chosen = ranges
     /\ \A k, m \in DOMAIN s : k <= m => s[k].tof <= s[m].tof
     /\ \A r \in ranges \ chosen : \A c \in chosen : c.tof <= r.tof

NearestChosen ==
  [][fctrl = "RANGE" /\ round <= SeqMod /\ RxTimeout => IsNearest(nearest')]_vars

(* Both reporting tasks read the location without a lock while the callback  *)
(* may overwrite it: a report may mix two locations, but at rest the last    *)
(* report is the last location, because the flag is cleared before reading.  *)
LastReported ==
  \A k \in Reader : ~updated[k] /\ reader[k].pc = "idle" =>
    reader[k].report = <<location, location>>

(* Every location is reported, or a later one is. *)
LocationReported ==
  \A k \in Reader, r \in 1 .. MaxRounds :
    location = r ~> reader[k].report[1] >= r /\ reader[k].report[2] >= r
=============================================================================
