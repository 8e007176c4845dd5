--------------------------- MODULE RtlsTdma_proofs ---------------------------
(* Theorems about RtlsTdma, for any network, slot layout and fault bound. *)
EXTENDS RtlsTdma, CommonLemmas

(* FirstOf picks the least element. *)
LEMMA FirstOfMember ==
  ASSUME NEW S, S \in SUBSET Nat, S # {}
  PROVE  FirstOf(S) \in S /\ \A j \in S : FirstOf(S) <= j
<1>1. \E x \in S : \A j \in S : x <= j
  BY LeastOf
<1>. QED
  BY <1>1 DEF FirstOf
-----------------------------------------------------------------------------
(* The inductive invariant.  An acceptance sent to an anchor must not be for *)
(* a ranging slot; so an anchor never holds a lock of a ranging slot for     *)
(* another anchor, and what it asks for itself is a beacon slot.             *)

Region(n) == IF n \in Anchor THEN BcnSlot ELSE RngSlot

InstanceInv(r, n) ==
  /\ r \in Instance
  /\ r.slot_idx \in {0} \cup Region(n)
  /\ r.slot_reqt \in {0} \cup RngSlot \cup Region(n)
  /\ n \in Anchor /\ r.slot_reqt \in RngSlot => r.slot_reqt_addr \notin Anchor

ConsentInv(r, n, role) ==
  n \in Anchor /\ r.slot_idx # 0 /\ role # "MASTER" =>
    \A i \in KnownAnchors(r) : r.nodes[i].accepted

(* What NewcomersInformed says of one node. *)
NewcomerInv(r) ==
  r.slot_idx = 0 /\ r.nodes[0].addr = NoAddr =>
    KnownAnchors(r) \subseteq r.nodes[0].slot_map

(* Who asks for the role of master already acts as one, and only anchors do. *)
IInv ==
  /\ slot \in Slot
  /\ armed \in SUBSET Node
  /\ synced \in SUBSET Node
  /\ ccp_role \in [Node -> CcpRole]
  /\ request \in SUBSET Node
  /\ rti \in [Node -> Instance]
  /\ upsets \in Nat
  /\ \A n \in Node : /\ InstanceInv(rti[n], n)
                     /\ ConsentInv(rti[n], n, ccp_role[n])
                     /\ NewcomerInv(rti[n])
                     /\ ccp_role[n] = "MASTER" => n \in Anchor
                     /\ n \in request => ccp_role[n] = "MASTER"

(* What a frame of a beacon slot may carry. *)
FrameInv(f) ==
  /\ f \in Frame
  /\ f.slot_reqt \in RngSlot => f.dst \notin Anchor

(* The regions of the superframe are disjoint sets of slots: slot 0, the     *)
(* beacon slots, the service slot and the ranging slots.                     *)
LEMMA SlotFacts ==
  /\ 0 \in Slot /\ SvcSlot \in Slot /\ MasterSlot \in BcnSlot
  /\ BcnSlot \subseteq Slot \ {0, SvcSlot}
  /\ RngSlot \subseteq Slot \ {0, SvcSlot}
  /\ BcnSlot \cap RngSlot = {}
  /\ \A i \in Slot : i < SvcSlot /\ i # 0 => i \in BcnSlot
  /\ \A i \in RngSlot : i > SvcSlot
  /\ \A i \in BcnSlot : ~ (i > SvcSlot)
  /\ Slot \in SUBSET Nat
BY SlotAssumption DEF Slot, BcnSlot, RngSlot

(* Anchors are nodes, and nobody has address 0.                              *)
LEMMA AnchorsAreNodes == Anchor \subseteq Node /\ NoAddr \notin Anchor
BY NodeAssumption

-----------------------------------------------------------------------------
(* The handlers, one lemma each. *)

(* node_add_me keeps the invariant when the slot lies in the node's region   *)
(* and all anchors the node knows have accepted it.                          *)
LEMMA NodeAddMeInv ==
  ASSUME NEW n \in Node, NEW role, NEW r, InstanceInv(r, n),
         NEW i \in {0} \cup Region(n),
         \/ n \notin Anchor \/ role = "MASTER"
         \/ \A j \in KnownAnchors(r) : r.nodes[j].accepted
  PROVE  /\ InstanceInv(NodeAddMe(r, n, i), n)
         /\ ConsentInv(NodeAddMe(r, n, i), n, role)
<1>. DEFINE q == NodeAddMe(r, n, i)
<1>1. i \in Slot
  BY SlotFacts DEF Region
<1>2. q.nodes \in [Slot -> Entry]
  <2>. DEFINE e == [r.nodes[i] EXCEPT !.slot_map = r.nodes[0].slot_map \cup {i},
                                      !.addr = n, !.accepted = TRUE]
  <2>1. r.nodes \in [Slot -> Entry] /\ r.nodes[0] \in Entry /\ r.nodes[i] \in Entry
    BY <1>1, SlotFacts DEF InstanceInv, Instance
  <2>2. r.nodes[0].slot_map \cup {i} \in SUBSET Slot
    BY <1>1, <2>1 DEF Entry
  <2>3. e \in Entry
    BY <2>1, <2>2 DEF Entry, Address
  <2>4. q.nodes = [r.nodes EXCEPT ![i] = e]
    BY DEF NodeAddMe, InstanceInv, Instance
  <2>. QED
    BY <2>1, <2>3, <2>4
<1>3. q \in Instance /\ q.slot_idx = i
  BY <1>1, <1>2 DEF NodeAddMe, InstanceInv, Instance
<1>4. q.slot_reqt = r.slot_reqt /\ q.slot_reqt_addr = r.slot_reqt_addr
  BY DEF NodeAddMe, InstanceInv, Instance
<1>5. InstanceInv(q, n)
  BY <1>3, <1>4 DEF InstanceInv
<1>6. \/ n \notin Anchor \/ role = "MASTER"
      \/ \A j \in KnownAnchors(q) : q.nodes[j].accepted
  BY <1>1, SlotFacts DEF NodeAddMe, InstanceInv, Instance, Entry, KnownAnchors
<1>. QED
  BY <1>5, <1>6 DEF ConsentInv
(* What an instance invariant gives about the table. *)
LEMMA TableFacts ==
  ASSUME NEW n \in Node, NEW r, InstanceInv(r, n)
  PROVE  /\ r.nodes \in [Slot -> Entry]
         /\ r.slot_idx \in Slot /\ r.slot_reqt \in Slot
         /\ r.slot_reqt_addr \in Address
         /\ \A i \in Slot : /\ r.nodes[i] \in Entry
                            /\ r.nodes[i].slot_map \in SUBSET Slot
                            /\ r.nodes[i].accepted \in BOOLEAN
                            /\ r.nodes[i].timeout \in 0 .. AnchorTimeout
BY DEF InstanceInv, Instance, Entry

(* A change of the table, and perhaps the end of a request.                  *)
With(r, x, T) == [r EXCEPT !.slot_reqt = x, !.nodes = T]

(* Another table or request keeps the instance sound if both have their      *)
(* type.                                                                     *)
LEMMA TableChange ==
  ASSUME NEW n \in Node, NEW r, InstanceInv(r, n), NEW T \in [Slot -> Entry],
         NEW x \in {0, r.slot_reqt}
  PROVE  /\ InstanceInv(With(r, x, T), n)
         /\ With(r, x, T).nodes = T
         /\ With(r, x, T).slot_idx = r.slot_idx
         /\ With(r, x, T).slot_reqt = x
<1>. DEFINE q == With(r, x, T)
<1>1. r \in Instance /\ x \in Slot
  BY SlotFacts, TableFacts DEF InstanceInv
<1>2. /\ q \in Instance /\ q.nodes = T /\ q.slot_idx = r.slot_idx
      /\ q.slot_reqt = x /\ q.slot_reqt_addr = r.slot_reqt_addr
  BY <1>1 DEF Instance, With
<1>3. 0 \notin RngSlot
  BY SlotFacts
<1>. HIDE DEF q
<1>4. InstanceInv(q, n)
  BY <1>2, <1>3 DEF InstanceInv
<1>. QED
  BY <1>2, <1>4 DEF q

(* Only known anchors and their acceptance matter for the consent. *)
LEMMA ConsentKept ==
  ASSUME NEW n \in Node, NEW role, NEW r, NEW q, ConsentInv(r, n, role),
         q.slot_idx = r.slot_idx,
         \A i \in BcnSlot : \/ q.nodes[i].addr = NoAddr
                            \/ q.nodes[i].accepted = TRUE
                            \/ /\ q.nodes[i].addr = r.nodes[i].addr
                               /\ q.nodes[i].accepted = r.nodes[i].accepted
  PROVE  ConsentInv(q, n, role)
BY DEF ConsentInv, KnownAnchors

(* A sign of life of an entry. *)
LEMMA ResetEntry ==
  ASSUME NEW e \in Entry
  PROVE  /\ [e EXCEPT !.available = TRUE, !.timeout = 0] \in Entry
         /\ [e EXCEPT !.available = TRUE, !.timeout = 0].addr = e.addr
         /\ [e EXCEPT !.available = TRUE, !.timeout = 0].accepted = e.accepted
<1>1. 0 \in 0 .. AnchorTimeout
  BY BoundAssumption
<1>. QED
  BY <1>1 DEF Entry

(* A beacon frame made from a sound instance is a sound frame.               *)
LEMMA BcnFrameInv ==
  ASSUME NEW n \in Node, NEW r, InstanceInv(r, n), r.slot_idx \in BcnSlot
  PROVE  FrameInv(BcnFrame(r, n))
<1>1. r.nodes[r.slot_idx].slot_map \in SUBSET Slot /\ r.slot_reqt_addr \in Address
  BY TableFacts
<1>2. BcnFrame(r, n) \in Frame
  BY <1>1, TableFacts, SlotFacts DEF BcnFrame, Frame, Address
<1>3. n \in Anchor
  BY SlotFacts DEF InstanceInv, Region
<1>. QED
  BY <1>2, <1>3, SlotFacts DEF BcnFrame, FrameInv, InstanceInv

(* The owner's handler of a beacon slot keeps its instance sound.            *)
LEMMA BcnSlotMineInv ==
  ASSUME NEW n \in Node, NEW role, NEW r, InstanceInv(r, n), ConsentInv(r, n, role),
         r.slot_idx \in BcnSlot
  PROVE  /\ InstanceInv(BcnSlotMine(r), n)
         /\ ConsentInv(BcnSlotMine(r), n, role)
<1>. DEFINE me == r.slot_idx
            q == BcnSlotMine(r)
            heard == [r.nodes EXCEPT ![me] = [@ EXCEPT !.available = TRUE, !.timeout = 0]]
            table == [heard EXCEPT ![me].slot_map = @ \cup {r.slot_reqt},
                                   ![r.slot_reqt].addr = r.slot_reqt_addr]
<1>1. heard \in [Slot -> Entry]
  <2>1. [r.nodes[me] EXCEPT !.available = TRUE, !.timeout = 0] \in Entry
    BY TableFacts, ResetEntry
  <2>. QED
    BY <2>1, TableFacts
<1>2. \A i \in Slot : /\ heard[i].addr = r.nodes[i].addr
                      /\ heard[i].accepted = r.nodes[i].accepted
  BY TableFacts DEF Entry
<1>3. table \in [Slot -> Entry]
  <2>. HIDE DEF heard
  <2>. DEFINE listed == [heard EXCEPT ![me].slot_map = @ \cup {r.slot_reqt}]
  <2>1. heard[me] \in Entry /\ heard[me].slot_map \cup {r.slot_reqt} \in SUBSET Slot
    BY <1>1, TableFacts DEF Entry
  <2>2. [heard[me] EXCEPT !.slot_map = @ \cup {r.slot_reqt}] \in Entry
    BY <2>1 DEF Entry
  <2>3. listed \in [Slot -> Entry]
    BY <1>1, <2>2
  <2>4. [listed[r.slot_reqt] EXCEPT !.addr = r.slot_reqt_addr] \in Entry
    <3>1. listed[r.slot_reqt] \in Entry
      BY <2>3, TableFacts
    <3>. HIDE DEF listed
    <3>. QED
      BY <3>1, TableFacts DEF Entry
  <2>5. table = [listed EXCEPT ![r.slot_reqt].addr = r.slot_reqt_addr]
    OBVIOUS
  <2>. QED
    BY <2>3, <2>4, <2>5
<1>4. ASSUME r.slot_reqt > SvcSlot
      PROVE  \A i \in BcnSlot : /\ table[i].addr = heard[i].addr
                                /\ table[i].accepted = heard[i].accepted
  <2>. HIDE DEF heard
  <2>. QED
    BY <1>1, <1>4, TableFacts, SlotFacts DEF Entry
<1>5. PICK T \in [Slot -> Entry], x \in {0, r.slot_reqt}, y \in {0, 1} :
        /\ q = [r EXCEPT !.seqno = y, !.slot_reqt = x, !.nodes = T]
        /\ \A i \in BcnSlot : /\ T[i].addr = r.nodes[i].addr
                              /\ T[i].accepted = r.nodes[i].accepted
  <2>. DEFINE ranging == r.slot_reqt # 0 /\ Grants(r) /\ r.slot_reqt > SvcSlot
              x0 == IF r.slot_reqt # 0 /\ ~ranging /\ Grants(r) THEN r.slot_reqt ELSE 0
              T0 == IF ranging THEN table ELSE heard
  <2>1. q = [r EXCEPT !.seqno = 1 - r.seqno, !.slot_reqt = x0, !.nodes = T0]
    BY DEF BcnSlotMine
  <2>2. T0 \in [Slot -> Entry] /\ x0 \in {0, r.slot_reqt}
    BY <1>1, <1>3
  <2>3. 1 - r.seqno \in {0, 1}
    BY DEF InstanceInv, Instance
  <2>4. \A i \in BcnSlot : /\ T0[i].addr = r.nodes[i].addr
                           /\ T0[i].accepted = r.nodes[i].accepted
    <3>. HIDE DEF heard, table
    <3>. QED
      BY <1>2, <1>4, SlotFacts
  <2>. HIDE DEF q, T0, x0, table, heard
  <2>. QED
    BY <2>1, <2>2, <2>3, <2>4
<1>6. q \in Instance /\ q.nodes = T /\ q.slot_reqt = x
      /\ q.slot_idx = r.slot_idx /\ q.slot_reqt_addr = r.slot_reqt_addr
  <2>. HIDE DEF q
  <2>. QED
    BY <1>5, TableFacts, SlotFacts DEF InstanceInv, Instance
<1>7. InstanceInv(q, n)
  <2>. HIDE DEF q
  <2>. QED
    BY <1>6, SlotFacts DEF InstanceInv
<1>8. ConsentInv(q, n, role)
  <2>. HIDE DEF q
  <2>1. \A i \in BcnSlot : /\ q.nodes[i].addr = r.nodes[i].addr
                           /\ q.nodes[i].accepted = r.nodes[i].accepted
    BY <1>5, <1>6
  <2>. QED
    BY <1>6, <2>1, ConsentKept
<1>. QED
  BY <1>7, <1>8

(* Adopting the sender of a beacon frame as the slot's owner keeps the       *)
(* invariant; at most it ends the pending request.                           *)
LEMMA AdoptInv ==
  ASSUME NEW n \in Node, NEW role, NEW r, InstanceInv(r, n), ConsentInv(r, n, role),
         NEW i \in BcnSlot, NEW src \in Node
  PROVE  /\ InstanceInv(Adopt(r, n, i, src), n)
         /\ ConsentInv(Adopt(r, n, i, src), n, role)
         /\ Adopt(r, n, i, src).slot_idx = r.slot_idx
         /\ Adopt(r, n, i, src).slot_reqt \in {0, r.slot_reqt}
<1>. DEFINE q == Adopt(r, n, i, src)
            e == [r.nodes[i] EXCEPT !.addr = src, !.accepted = TRUE]
            f == [r.nodes[i] EXCEPT !.addr = src]
            T == [r.nodes EXCEPT ![i] = e]
            U == [r.nodes EXCEPT ![i] = f]
<1>1. i \in Slot /\ r.nodes[i] \in Entry /\ r.nodes \in [Slot -> Entry]
  BY TableFacts, SlotFacts
<1>2. e \in Entry /\ f \in Entry /\ e.accepted = TRUE
  BY <1>1 DEF Entry, Address
<1>3. T \in [Slot -> Entry] /\ U \in [Slot -> Entry]
  BY <1>1, <1>2
<1>4. \A j \in BcnSlot : T[j] = IF j = i THEN e ELSE r.nodes[j]
  BY <1>1, SlotFacts
<1>5. \/ q = With(r, 0, T)
      \/ q = With(r, r.slot_reqt, T)
      \/ r.slot_idx = 0 /\ q = With(r, r.slot_reqt, U)
      \/ q = r
  <2>1. r \in Instance
    BY DEF InstanceInv
  <2>. DEFINE t1 == [r EXCEPT !.slot_reqt = 0, !.nodes[i].addr = src, !.nodes[i].accepted = TRUE]
              t2 == [r EXCEPT !.nodes[i].addr = src, !.nodes[i].accepted = TRUE]
              u2 == [r EXCEPT !.nodes[i].addr = src]
  <2>2. q = t1 \/ q = t2 \/ (r.slot_idx = 0 /\ q = u2) \/ q = r
    BY DEF Adopt
  <2>3. t1 = With(r, 0, T)
    BY <2>1, <1>1 DEF Instance, Entry, With
  <2>4. t2 = With(r, r.slot_reqt, T)
    BY <2>1, <1>1 DEF Instance, Entry, With
  <2>5. u2 = With(r, r.slot_reqt, U)
    BY <2>1, <1>1 DEF Instance, Entry, With
  <2>. QED
    BY <2>2, <2>3, <2>4, <2>5
<1>. HIDE DEF q, T, U, e, f
<1>6. CASE q = With(r, 0, T)
  <2>1. /\ InstanceInv(q, n) /\ q.nodes = T /\ q.slot_idx = r.slot_idx /\ q.slot_reqt = 0
    BY <1>3, <1>6, TableChange
  <2>2. ConsentInv(q, n, role)
    BY <1>2, <1>4, <2>1, ConsentKept
  <2>. QED
    BY <2>1, <2>2 DEF q
<1>7. CASE q = With(r, r.slot_reqt, T)
  <2>1. /\ InstanceInv(q, n) /\ q.nodes = T /\ q.slot_idx = r.slot_idx
        /\ q.slot_reqt = r.slot_reqt
    BY <1>3, <1>7, TableChange
  <2>2. ConsentInv(q, n, role)
    BY <1>2, <1>4, <2>1, ConsentKept
  <2>. QED
    BY <2>1, <2>2 DEF q
<1>8. CASE r.slot_idx = 0 /\ q = With(r, r.slot_reqt, U)
  <2>1. /\ InstanceInv(q, n) /\ q.slot_idx = 0 /\ q.slot_reqt = r.slot_reqt
    BY <1>3, <1>8, TableChange
  <2>. QED
    BY <1>8, <2>1 DEF ConsentInv, q
<1>9. CASE q = r
  BY <1>9 DEF q
<1>. QED
  BY <1>5, <1>6, <1>7, <1>8, <1>9

(* Noting that a beacon slot was heard keeps the instance sound.             *)
LEMMA HeardInv ==
  ASSUME NEW n \in Node, NEW role, NEW r, InstanceInv(r, n), ConsentInv(r, n, role),
         NEW i \in BcnSlot
  PROVE  /\ InstanceInv(Heard(r, i), n)
         /\ ConsentInv(Heard(r, i), n, role)
<1>. DEFINE me == r.slot_idx
            e == [r.nodes[i] EXCEPT !.available = TRUE, !.timeout = 0]
            alive == [r.nodes EXCEPT ![i] = e]
            g == [alive[me] EXCEPT !.slot_map = @ \cup {i}]
            T == [alive EXCEPT ![me] = g]
            q == Heard(r, i)
<1>1. /\ i \in Slot /\ me \in Slot /\ r.nodes[i] \in Entry
      /\ r.nodes \in [Slot -> Entry]
  BY TableFacts, SlotFacts
<1>2. e \in Entry /\ e.addr = r.nodes[i].addr /\ e.accepted = r.nodes[i].accepted
  BY <1>1, ResetEntry
<1>3. alive \in [Slot -> Entry]
  BY <1>1, <1>2
<1>4. \A j \in BcnSlot : /\ alive[j].addr = r.nodes[j].addr
                         /\ alive[j].accepted = r.nodes[j].accepted
  <2>. HIDE DEF e
  <2>. QED
    BY <1>1, <1>2, SlotFacts
<1>. HIDE DEF alive, e
<1>5. /\ g \in Entry /\ g.addr = alive[me].addr /\ g.accepted = alive[me].accepted
  <2>1. alive[me] \in Entry
    BY <1>1, <1>3
  <2>. QED
    BY <1>1, <2>1 DEF Entry
<1>6. q = With(r, r.slot_reqt, T)
  BY <1>1 DEF Heard, With, InstanceInv, Instance, alive, e
<1>. HIDE DEF g, q, me
<1>7. T \in [Slot -> Entry]
  BY <1>1, <1>3, <1>5
<1>8. \A j \in BcnSlot : /\ T[j].addr = r.nodes[j].addr
                         /\ T[j].accepted = r.nodes[j].accepted
  BY <1>1, <1>3, <1>4, <1>5, SlotFacts
<1>. HIDE DEF T
<1>9. InstanceInv(q, n) /\ q.nodes = T /\ q.slot_idx = r.slot_idx
  BY <1>6, <1>7, TableChange
<1>10. ConsentInv(q, n, role)
  BY <1>8, <1>9, ConsentKept
<1>. QED
  BY <1>9, <1>10 DEF q

(* An acceptance joins the slot that was asked for: for an anchor it cannot  *)
(* be a ranging slot, because the frame is addressed to an anchor.           *)
LEMMA TakeAcptInv ==
  ASSUME NEW n \in Node, NEW role, NEW r, InstanceInv(r, n), ConsentInv(r, n, role),
         NEW i \in BcnSlot, NEW f, FrameInv(f), f.dst = n
  PROVE  /\ InstanceInv(TakeAcpt(r, n, i, role, f), n)
         /\ ConsentInv(TakeAcpt(r, n, i, role, f), n, role)
<1>. DEFINE e == [r.nodes[i] EXCEPT !.accepted = TRUE]
            T == [r.nodes EXCEPT ![i] = e]
            acc == [r EXCEPT !.nodes[i].accepted = TRUE]
            add == NodeAddMe(acc, n, r.slot_reqt)
            in == [add EXCEPT !.slot_reqt = 0]
<1>1. i \in Slot /\ r.nodes[i] \in Entry /\ r.nodes \in [Slot -> Entry]
  BY TableFacts, SlotFacts
<1>2. e \in Entry /\ e.accepted = TRUE
  BY <1>1 DEF Entry
<1>3. T \in [Slot -> Entry] /\ \A j \in BcnSlot : T[j] = IF j = i THEN e ELSE r.nodes[j]
  BY <1>1, <1>2, SlotFacts
<1>4. acc = With(r, r.slot_reqt, T)
  BY <1>1 DEF With, InstanceInv, Instance
<1>. HIDE DEF T, e, acc
<1>5. /\ InstanceInv(acc, n) /\ acc.nodes = T /\ acc.slot_idx = r.slot_idx
      /\ acc.slot_reqt = r.slot_reqt
  BY <1>3, <1>4, TableChange
<1>6. ConsentInv(acc, n, role)
  BY <1>2, <1>3, <1>5, ConsentKept
<1>7. ASSUME f.slot_reqt = r.slot_reqt, NodeAllAccepted(acc, role)
      PROVE  InstanceInv(in, n) /\ ConsentInv(in, n, role)
  <2>1. r.slot_reqt \in {0} \cup Region(n)
    BY <1>7 DEF FrameInv, InstanceInv, Region
  <2>2. InstanceInv(add, n) /\ ConsentInv(add, n, role)
    BY <1>5, <1>7, <2>1, NodeAddMeInv DEF NodeAllAccepted
  <2>. HIDE DEF add
  <2>3. in = With(add, 0, add.nodes)
    BY <2>2 DEF With, InstanceInv, Instance
  <2>4. InstanceInv(in, n) /\ in.nodes = add.nodes /\ in.slot_idx = add.slot_idx
    BY <2>2, <2>3, TableFacts, TableChange
  <2>. QED
    BY <2>2, <2>4 DEF ConsentInv, KnownAnchors
<1>. QED
  BY <1>5, <1>6, <1>7 DEF TakeAcpt, acc

(* Taking over an acceptor's slot map keeps the instance sound.              *)
LEMMA TakeSlotMapInv ==
  ASSUME NEW n \in Node, NEW role, NEW r, InstanceInv(r, n), ConsentInv(r, n, role),
         NEW i \in BcnSlot, NEW f, FrameInv(f)
  PROVE  /\ InstanceInv(TakeSlotMap(r, n, i, f), n)
         /\ ConsentInv(TakeSlotMap(r, n, i, f), n, role)
<1>. DEFINE e == [r.nodes[i] EXCEPT !.slot_map = f.slot_map]
            g == [e EXCEPT !.addr = f.src, !.accepted = r.slot_idx \notin f.slot_map]
            T == [r.nodes EXCEPT ![i] = e]
            U == [r.nodes EXCEPT ![i] = g]
            q == TakeSlotMap(r, n, i, f)
<1>1. /\ i \in Slot /\ r.nodes[i] \in Entry /\ r.nodes \in [Slot -> Entry]
      /\ f.slot_map \in SUBSET Slot /\ f.src \in Address
  BY TableFacts, SlotFacts DEF FrameInv, Frame, Address
<1>2. e \in Entry /\ e.addr = r.nodes[i].addr /\ e.accepted = r.nodes[i].accepted
  BY <1>1 DEF Entry
<1>3. g \in Entry
  <2>. HIDE DEF e
  <2>. QED
    BY <1>1, <1>2 DEF Entry
<1>4. /\ T \in [Slot -> Entry] /\ U \in [Slot -> Entry]
      /\ \A j \in BcnSlot : /\ T[j].addr = r.nodes[j].addr
                            /\ T[j].accepted = r.nodes[j].accepted
  <2>. HIDE DEF e, g
  <2>. QED
    BY <1>1, <1>2, <1>3, SlotFacts
<1>5. \/ q = With(r, r.slot_reqt, T)
      \/ n \notin Anchor /\ q = With(r, r.slot_reqt, U)
  <2>. DEFINE kept == [r EXCEPT !.nodes[i].slot_map = f.slot_map]
              taken == [kept EXCEPT !.nodes[i].addr = f.src,
                                    !.nodes[i].accepted = r.slot_idx \notin f.slot_map]
  <2>1. q = kept \/ (n \notin Anchor /\ q = taken)
    BY DEF TakeSlotMap
  <2>2. kept = With(r, r.slot_reqt, T)
    BY <1>1 DEF With, InstanceInv, Instance
  <2>3. taken = With(r, r.slot_reqt, U)
    BY <1>1, <1>2 DEF With, InstanceInv, Instance
  <2>. QED
    BY <2>1, <2>2, <2>3
<1>. HIDE DEF T, U, e, g, q
<1>6. CASE q = With(r, r.slot_reqt, T)
  <2>1. InstanceInv(q, n) /\ q.nodes = T /\ q.slot_idx = r.slot_idx
    BY <1>4, <1>6, TableChange
  <2>2. ConsentInv(q, n, role)
    BY <1>4, <2>1, ConsentKept
  <2>. QED
    BY <2>1, <2>2 DEF q
<1>7. CASE n \notin Anchor /\ q = With(r, r.slot_reqt, U)
  BY <1>4, <1>7, TableChange DEF ConsentInv, q
<1>. QED
  BY <1>5, <1>6, <1>7

(* The handler of somebody else's beacon slot keeps the instance sound,      *)
(* whatever sound frame arrives.                                             *)
LEMMA BcnSlotOthrInv ==
  ASSUME NEW n \in Node, NEW role, NEW r, InstanceInv(r, n), ConsentInv(r, n, role),
         NEW i \in BcnSlot, NEW f, f = NoFrame \/ FrameInv(f)
  PROVE  /\ InstanceInv(BcnSlotOthr(r, n, i, role, f), n)
         /\ ConsentInv(BcnSlotOthr(r, n, i, role, f), n, role)
<1>1. CASE f = NoFrame
  BY <1>1 DEF BcnSlotOthr
<1>2. CASE FrameInv(f)
  <2>. DEFINE known == IF f.src # r.nodes[i].addr THEN Adopt(r, n, i, f.src) ELSE r
              seen == Heard(known, i)
              told == TakeAcpt(seen, n, i, role, f)
  <2>1. f.src \in Node
    BY <1>2 DEF FrameInv, Frame
  <2>2. InstanceInv(known, n) /\ ConsentInv(known, n, role)
    BY <2>1, AdoptInv
  <2>. HIDE DEF known
  <2>3. InstanceInv(seen, n) /\ ConsentInv(seen, n, role)
    BY <2>2, HeardInv
  <2>. HIDE DEF seen
  <2>4. InstanceInv(TakeSlotMap(seen, n, i, f), n)
        /\ ConsentInv(TakeSlotMap(seen, n, i, f), n, role)
    BY <1>2, <2>3, TakeSlotMapInv
  <2>5. ASSUME f.dst = n
        PROVE  InstanceInv(told, n) /\ ConsentInv(told, n, role)
    BY <1>2, <2>3, <2>5, TakeAcptInv
  <2>. HIDE DEF told
  <2>6. ASSUME f.dst = n
        PROVE  InstanceInv(TakeSlotMap(told, n, i, f), n)
               /\ ConsentInv(TakeSlotMap(told, n, i, f), n, role)
    BY <1>2, <2>5, <2>6, TakeSlotMapInv
  <2>. QED
    BY <2>3, <2>4, <2>6 DEF BcnSlotOthr, known, seen, told
<1>. QED
  BY <1>1, <1>2
-----------------------------------------------------------------------------
(* What a newcomer's own map lists. *)

(* Less known anchors and the same entry 0 keep the newcomer informed.       *)
LEMMA NewcomerKept ==
  ASSUME NEW r, NEW q, NewcomerInv(r), q.slot_idx = r.slot_idx,
         q.nodes[0].addr = r.nodes[0].addr, q.nodes[0].slot_map = r.nodes[0].slot_map,
         \A i \in BcnSlot : q.nodes[i].addr \in {NoAddr, r.nodes[i].addr}
  PROVE  NewcomerInv(q)
BY DEF NewcomerInv, KnownAnchors

(* Who takes a slot is no newcomer any more; nor who takes "slot 0", which   *)
(* leaves its own address in entry 0.                                        *)
LEMMA NodeAddMeNewcomer ==
  ASSUME NEW n \in Node, NEW r, InstanceInv(r, n), NEW i \in Slot
  PROVE  NewcomerInv(NodeAddMe(r, n, i))
<1>1. r.nodes \in [Slot -> Entry] /\ r.nodes[i] \in Entry
  BY TableFacts
<1>2. NodeAddMe(r, n, i).slot_idx = i /\ NodeAddMe(r, n, i).nodes[i].addr = n
  BY <1>1 DEF NodeAddMe, InstanceInv, Instance, Entry
<1>. QED
  BY <1>2, NodeAssumption DEF NewcomerInv

(* An acceptance changes one flag of an entry, or gives the slot.            *)
LEMMA TakeAcptNewcomer ==
  ASSUME NEW n \in Node, NEW role, NEW r, InstanceInv(r, n), NewcomerInv(r),
         NEW i \in BcnSlot, NEW f
  PROVE  NewcomerInv(TakeAcpt(r, n, i, role, f))
<1>. DEFINE e == [r.nodes[i] EXCEPT !.accepted = TRUE]
            T == [r.nodes EXCEPT ![i] = e]
            acc == [r EXCEPT !.nodes[i].accepted = TRUE]
            add == NodeAddMe(acc, n, r.slot_reqt)
            in == [add EXCEPT !.slot_reqt = 0]
<1>1. /\ i \in Slot /\ 0 \in Slot /\ i # 0 /\ BcnSlot \subseteq Slot
      /\ r.nodes[i] \in Entry /\ r.nodes \in [Slot -> Entry] /\ r.slot_reqt \in Slot
  BY TableFacts, SlotFacts
<1>2. e \in Entry /\ e.addr = r.nodes[i].addr
  BY <1>1 DEF Entry
<1>3. T \in [Slot -> Entry] /\ T[0] = r.nodes[0] /\ \A j \in Slot : T[j].addr = r.nodes[j].addr
  BY <1>1, <1>2
<1>4. acc = With(r, r.slot_reqt, T)
  BY <1>1 DEF With, InstanceInv, Instance
<1>. HIDE DEF T, e, acc
<1>5. InstanceInv(acc, n) /\ acc.nodes = T /\ acc.slot_idx = r.slot_idx
  BY <1>3, <1>4, TableChange
<1>6. NewcomerInv(acc)
  BY <1>1, <1>3, <1>5, NewcomerKept
<1>7. NewcomerInv(in)
  <2>1. NewcomerInv(add)
    BY <1>1, <1>5, NodeAddMeNewcomer
  <2>2. in.slot_idx = add.slot_idx /\ in.nodes = add.nodes
    BY <1>5 DEF NodeAddMe, InstanceInv, Instance
  <2>. HIDE DEF in, add
  <2>. QED
    BY <2>1, <2>2 DEF NewcomerInv, KnownAnchors
<1>. QED
  BY <1>6, <1>7 DEF TakeAcpt, acc

(* Taking over a map changes the addresses of joined tags only.              *)
LEMMA TakeSlotMapNewcomer ==
  ASSUME NEW n \in Node, NEW r, InstanceInv(r, n), NewcomerInv(r), NEW i \in BcnSlot, NEW f
  PROVE  NewcomerInv(TakeSlotMap(r, n, i, f))
<1>. DEFINE e == [r.nodes[i] EXCEPT !.slot_map = f.slot_map]
            T == [r.nodes EXCEPT ![i] = e]
            kept == [r EXCEPT !.nodes[i].slot_map = f.slot_map]
            q == TakeSlotMap(r, n, i, f)
<1>1. /\ i \in Slot /\ 0 \in Slot /\ i # 0 /\ BcnSlot \subseteq Slot
      /\ r.nodes[i] \in Entry /\ r.nodes \in [Slot -> Entry]
  BY TableFacts, SlotFacts
<1>2. e.addr = r.nodes[i].addr
  BY <1>1 DEF Entry
<1>3. T[0] = r.nodes[0] /\ \A j \in Slot : T[j].addr = r.nodes[j].addr
  <2>. HIDE DEF e
  <2>. QED
    BY <1>1, <1>2
<1>4. kept.nodes = T /\ kept.slot_idx = r.slot_idx
  BY <1>1 DEF InstanceInv, Instance
<1>. HIDE DEF T, e
<1>5. NewcomerInv(kept)
  <2>. HIDE DEF kept
  <2>. QED
    BY <1>1, <1>3, <1>4, NewcomerKept
<1>6. q = kept \/ (r.slot_idx # 0 /\ q.slot_idx = r.slot_idx)
  BY DEF TakeSlotMap, InstanceInv, Instance
<1>. HIDE DEF q, kept
<1>. QED
  BY <1>5, <1>6 DEF NewcomerInv, q

(* A newcomer that hears a beacon slot enters it in its own map, whatever it *)
(* does with the frame.                                                      *)
LEMMA HeardNewcomer ==
  ASSUME NEW n \in Node, NEW r, InstanceInv(r, n), NewcomerInv(r),
         NEW i \in BcnSlot, NEW src \in Node
  PROVE  /\ NewcomerInv(Heard(r, i))
         /\ NewcomerInv(Heard(Adopt(r, n, i, src), i))
<1>1. /\ i \in Slot /\ 0 \in Slot /\ i # 0 /\ BcnSlot \subseteq Slot
      /\ r.nodes[i] \in Entry /\ r.nodes \in [Slot -> Entry] /\ r.nodes[0] \in Entry
  BY TableFacts, SlotFacts
<1>2. ASSUME NEW q, InstanceInv(q, n), q.slot_idx = r.slot_idx,
             r.slot_idx = 0 => /\ q.nodes[0].addr = r.nodes[0].addr
                               /\ q.nodes[0].slot_map = r.nodes[0].slot_map
                               /\ \A j \in BcnSlot : j # i => q.nodes[j].addr = r.nodes[j].addr
      PROVE  NewcomerInv(Heard(q, i))
  <2>. SUFFICES ASSUME q.slot_idx = 0
                PROVE  NewcomerInv(Heard(q, i))
    BY <1>2 DEF NewcomerInv, Heard, InstanceInv, Instance
  <2>. DEFINE e == [q.nodes[i] EXCEPT !.available = TRUE, !.timeout = 0]
              alive == [q.nodes EXCEPT ![i] = e]
              g == [q.nodes[0] EXCEPT !.slot_map = @ \cup {i}]
              T == [alive EXCEPT ![0] = g]
              p == Heard(q, i)
  <2>1. q.nodes \in [Slot -> Entry] /\ q.nodes[i] \in Entry /\ q.nodes[0] \in Entry
    BY <1>1, <1>2, TableFacts
  <2>2. g.addr = q.nodes[0].addr /\ g.slot_map = q.nodes[0].slot_map \cup {i}
    BY <2>1 DEF Entry
  <2>3. p.nodes = T /\ p.slot_idx = 0
    BY <1>1, <1>2, <2>1 DEF Heard, InstanceInv, Instance
  <2>. HIDE DEF e, g, p
  <2>4. T[0] = g /\ \A j \in BcnSlot : j # i => T[j] = q.nodes[j]
    BY <1>1, <2>1, SlotFacts
  <2>. HIDE DEF T
  <2>5. KnownAnchors(p) \subseteq KnownAnchors(r) \cup {i}
    BY <1>2, <2>3, <2>4 DEF KnownAnchors
  <2>6. p.nodes[0].addr = r.nodes[0].addr
        /\ p.nodes[0].slot_map = r.nodes[0].slot_map \cup {i}
    BY <1>2, <2>2, <2>3, <2>4
  <2>7. NewcomerInv(p)
    BY <1>2, <2>5, <2>6 DEF NewcomerInv
  <2>. QED
    BY <2>7 DEF p
<1>3. NewcomerInv(Heard(r, i))
  BY <1>2
<1>4. NewcomerInv(Heard(Adopt(r, n, i, src), i))
  <2>. DEFINE q == Adopt(r, n, i, src)
              u == [r EXCEPT !.nodes[i].addr = src]
  <2>1. InstanceInv(q, n) /\ q.slot_idx = r.slot_idx
    <3>1. ConsentInv(r, n, "MASTER")
      BY DEF ConsentInv
    <3>. QED
      BY <3>1, AdoptInv
  <2>2. r.slot_idx = 0 => q = u
    BY DEF Adopt
  <2>3. u.nodes[0] = r.nodes[0] /\ \A j \in BcnSlot : j # i => u.nodes[j] = r.nodes[j]
    BY <1>1 DEF InstanceInv, Instance
  <2>. HIDE DEF q, u
  <2>4. NewcomerInv(Heard(q, i))
    BY <1>2, <2>1, <2>2, <2>3
  <2>. QED
    BY <2>4 DEF q
<1>. QED
  BY <1>3, <1>4

(* The handler of somebody else's beacon slot keeps a newcomer informed.     *)
LEMMA BcnSlotOthrNewcomer ==
  ASSUME NEW n \in Node, NEW role, NEW r, InstanceInv(r, n), ConsentInv(r, n, role),
         NewcomerInv(r), NEW i \in BcnSlot, NEW f, f = NoFrame \/ FrameInv(f)
  PROVE  NewcomerInv(BcnSlotOthr(r, n, i, role, f))
<1>1. CASE f = NoFrame
  BY <1>1 DEF BcnSlotOthr
<1>2. CASE FrameInv(f)
  <2>. DEFINE known == IF f.src # r.nodes[i].addr THEN Adopt(r, n, i, f.src) ELSE r
              seen == Heard(known, i)
              told == TakeAcpt(seen, n, i, role, f)
  <2>1. f.src \in Node
    BY <1>2 DEF FrameInv, Frame
  <2>2. InstanceInv(known, n) /\ ConsentInv(known, n, role)
    BY <2>1, AdoptInv
  <2>3. NewcomerInv(seen)
    BY <2>1, HeardNewcomer
  <2>. HIDE DEF known
  <2>4. InstanceInv(seen, n) /\ ConsentInv(seen, n, role)
    BY <2>2, HeardInv
  <2>. HIDE DEF seen
  <2>5. NewcomerInv(TakeSlotMap(seen, n, i, f))
    BY <2>3, <2>4, TakeSlotMapNewcomer
  <2>6. ASSUME f.dst = n
        PROVE  NewcomerInv(TakeSlotMap(told, n, i, f))
    <3>1. InstanceInv(told, n) /\ NewcomerInv(told)
      BY <1>2, <2>3, <2>4, <2>6, TakeAcptInv, TakeAcptNewcomer
    <3>. HIDE DEF told
    <3>. QED
      BY <3>1, TakeSlotMapNewcomer
  <2>. QED
    BY <2>3, <2>5, <2>6 DEF BcnSlotOthr, known, seen, told
<1>. QED
  BY <1>1, <1>2

-----------------------------------------------------------------------------
(* The service slot. *)

(* A request names a slot of the requester's region. *)
LEMMA FirstCandidate ==
  ASSUME NEW n \in Node, NEW r, Candidates(r, n) # {}
  PROVE  FirstOf(Candidates(r, n)) \in Region(n)
<1>1. Candidates(r, n) \subseteq Region(n) /\ Region(n) \subseteq Slot
  BY SlotFacts DEF Candidates, Region
<1>2. FirstOf(Candidates(r, n)) \in Candidates(r, n)
  BY <1>1, SlotFacts, FirstOfMember
<1>. QED
  BY <1>1, <1>2

(* Choosing the slot to ask for keeps the instance sound.                    *)
LEMMA SvcRequestInv ==
  ASSUME NEW n \in Node, NEW role, NEW r, InstanceInv(r, n), ConsentInv(r, n, role)
  PROVE  /\ InstanceInv(SvcRequest(r, n), n)
         /\ ConsentInv(SvcRequest(r, n), n, role)
<1>. DEFINE x == IF Candidates(r, n) = {} THEN r.slot_reqt ELSE FirstOf(Candidates(r, n))
            q == SvcRequest(r, n)
<1>1. x = r.slot_reqt \/ x \in Region(n)
  BY FirstCandidate
<1>2. q = [r EXCEPT !.seqno = 1 - r.seqno, !.slot_reqt = x]
  BY DEF SvcRequest
<1>. HIDE DEF x, q
<1>3. x \in Slot /\ 1 - r.seqno \in {0, 1}
  <2>1. x \in Slot
    BY <1>1, SlotFacts, TableFacts DEF Region
  <2>2. 1 - r.seqno \in {0, 1}
    BY DEF InstanceInv, Instance
  <2>. QED
    BY <2>1, <2>2
<1>4. /\ q \in Instance /\ q.slot_idx = r.slot_idx /\ q.slot_reqt = x
      /\ q.slot_reqt_addr = r.slot_reqt_addr /\ q.nodes = r.nodes
  BY <1>2, <1>3 DEF InstanceInv, Instance
<1>5. InstanceInv(q, n)
  BY <1>1, <1>4, SlotFacts DEF InstanceInv, Region
<1>6. ConsentInv(q, n, role)
  BY <1>4, ConsentKept
<1>. QED
  BY <1>5, <1>6 DEF q

(* A slot request names a node and a slot of its region.                     *)
LEMMA SvcFrameInv ==
  ASSUME NEW n \in Node, NEW r, InstanceInv(r, n), SvcSends(r, n)
  PROVE  LET f == SvcFrame(r, n)
         IN f.src \in Node /\ f.slot_reqt \in Region(f.src)
BY FirstCandidate DEF SvcFrame, SvcSends

(* Taking a lock for a requester keeps the instance sound: a ranging slot    *)
(* is locked for a tag only.                                                 *)
LEMMA SvcListenInv ==
  ASSUME NEW n \in Node, NEW role, NEW r, InstanceInv(r, n), ConsentInv(r, n, role),
         NEW f, f = NoFrame \/ (f.src \in Node /\ f.slot_reqt \in Region(f.src))
  PROVE  /\ InstanceInv(SvcListen(r, n, f), n)
         /\ ConsentInv(SvcListen(r, n, f), n, role)
<1>. DEFINE r1 == IF r.slot_reqt # 0 /\ r.slot_reqt_cntr > SlotReqtTimeout
                  THEN [r EXCEPT !.slot_reqt = 0] ELSE r
            lock == [r1 EXCEPT !.slot_reqt = f.slot_reqt, !.slot_reqt_cntr = 0,
                               !.slot_reqt_addr = f.src]
<1>1. r1 = r \/ r1 = With(r, 0, r.nodes)
  BY DEF With, InstanceInv, Instance
<1>2. InstanceInv(r1, n) /\ r1.nodes = r.nodes /\ r1.slot_idx = r.slot_idx
  <2>. HIDE DEF r1
  <2>. QED
    BY <1>1, TableFacts, TableChange
<1>3. ConsentInv(r1, n, role)
  BY <1>2, ConsentKept
<1>. HIDE DEF r1
<1>4. ASSUME n \in Anchor, f.src \in Node, f.slot_reqt \in Region(f.src)
      PROVE  InstanceInv(lock, n) /\ ConsentInv(lock, n, role)
  <2>1. f.slot_reqt \in Slot /\ f.src \in Address
    BY <1>4, SlotFacts DEF Region, Address
  <2>2. 0 \in 0 .. CntrMax
    BY BoundAssumption DEF CntrMax
  <2>3. /\ lock \in Instance /\ lock.slot_idx = r1.slot_idx
        /\ lock.slot_reqt = f.slot_reqt /\ lock.slot_reqt_addr = f.src
        /\ lock.nodes = r1.nodes
    BY <1>2, <2>1, <2>2 DEF InstanceInv, Instance
  <2>. HIDE DEF lock
  <2>4. InstanceInv(lock, n)
    BY <1>2, <1>4, <2>3, SlotFacts DEF InstanceInv, Region
  <2>. QED
    BY <1>3, <2>3, <2>4, ConsentKept
<1>. QED
  BY <1>2, <1>3, <1>4 DEF SvcListen, r1

-----------------------------------------------------------------------------
(* The superframe. *)

(* Ageing the own request keeps the instance sound.                          *)
LEMMA TickInv ==
  ASSUME NEW n \in Node, NEW role, NEW r, InstanceInv(r, n), ConsentInv(r, n, role)
  PROVE  /\ InstanceInv(Tick(r), n)
         /\ ConsentInv(Tick(r), n, role)
<1>. DEFINE q == Tick(r)
            c == IF r.slot_reqt # 0 /\ r.slot_reqt_cntr < CntrMax
                 THEN r.slot_reqt_cntr + 1 ELSE r.slot_reqt_cntr
<1>1. c \in 0 .. CntrMax
  BY BoundAssumption DEF CntrMax, InstanceInv, Instance
<1>2. q = [r EXCEPT !.slot_reqt_cntr = c]
  BY DEF Tick
<1>. HIDE DEF c, q
<1>3. /\ q \in Instance /\ q.slot_idx = r.slot_idx /\ q.slot_reqt = r.slot_reqt
      /\ q.slot_reqt_addr = r.slot_reqt_addr /\ q.nodes = r.nodes
  BY <1>1, <1>2 DEF InstanceInv, Instance
<1>4. InstanceInv(q, n)
  BY <1>3 DEF InstanceInv
<1>5. ConsentInv(q, n, role)
  BY <1>3, ConsentKept
<1>. QED
  BY <1>4, <1>5 DEF q

(* Counting an entry up keeps it one, as long as it does not expire.         *)
LEMMA AgeEntryFacts ==
  ASSUME NEW e \in Entry, ~Expires(e)
  PROVE  /\ AgeEntry(e) \in Entry
         /\ AgeEntry(e).addr = e.addr /\ AgeEntry(e).accepted = e.accepted
<1>. DEFINE u == e.timeout + 1
<1>1. u \in 0 .. AnchorTimeout
  BY BoundAssumption DEF Entry, Expires
<1>2. AgeEntry(e) = [e EXCEPT !.available = FALSE, !.timeout = u]
  BY DEF AgeEntry
<1>. HIDE DEF u
<1>. QED
  BY <1>1, <1>2 DEF Entry

(* Removing an entry forgets an anchor, and its slot in the own map.         *)
LEMMA NodeRmvFacts ==
  ASSUME NEW n \in Node, NEW r, InstanceInv(r, n), NEW i \in Slot
  PROVE  LET q == NodeRmv(r, i)
         IN /\ InstanceInv(q, n) /\ q.slot_idx = r.slot_idx /\ q.slot_reqt = r.slot_reqt
            /\ \A j \in Slot : j # i => /\ q.nodes[j].addr = r.nodes[j].addr
                                       /\ q.nodes[j].accepted = r.nodes[j].accepted
            /\ q.nodes[i].addr = NoAddr
            /\ i # 0 /\ r.slot_idx = 0 =>
                 q.nodes[0].slot_map = r.nodes[0].slot_map \ {i}
<1>. DEFINE me == r.slot_idx
            e == [r.nodes[me] EXCEPT !.slot_map = @ \ {i}]
            unlisted == [r.nodes EXCEPT ![me] = e]
            T == [unlisted EXCEPT ![i] = EmptyEntry]
            q == NodeRmv(r, i)
<1>1. r.nodes \in [Slot -> Entry] /\ me \in Slot /\ r.nodes[me] \in Entry /\ 0 \in Slot
  BY TableFacts, SlotFacts
<1>2. /\ e \in Entry /\ e.addr = r.nodes[me].addr /\ e.accepted = r.nodes[me].accepted
      /\ e.slot_map = r.nodes[me].slot_map \ {i}
  BY <1>1 DEF Entry
<1>3. EmptyEntry \in Entry /\ EmptyEntry.addr = NoAddr
  BY SlotFacts, BoundAssumption DEF EmptyEntry, Entry, Address
<1>4. q = With(r, r.slot_reqt, T)
  BY <1>1 DEF NodeRmv, With, InstanceInv, Instance
<1>. HIDE DEF e, q
<1>5. unlisted \in [Slot -> Entry] /\ \A j \in Slot : unlisted[j] = IF j = me THEN e ELSE r.nodes[j]
  BY <1>1, <1>2
<1>. HIDE DEF unlisted
<1>6. T \in [Slot -> Entry] /\ \A j \in Slot : T[j] = IF j = i THEN EmptyEntry ELSE unlisted[j]
  BY <1>3, <1>5
<1>. HIDE DEF T
<1>7. InstanceInv(q, n) /\ q.nodes = T /\ q.slot_idx = me /\ q.slot_reqt = r.slot_reqt
  BY <1>4, <1>6, TableChange
<1>8. \A j \in Slot : j # i => T[j].addr = r.nodes[j].addr /\ T[j].accepted = r.nodes[j].accepted
  BY <1>2, <1>5, <1>6
<1>9. i # 0 /\ me = 0 => T[0].slot_map = r.nodes[0].slot_map \ {i}
  BY <1>1, <1>2, <1>5, <1>6
<1>. QED
  BY <1>3, <1>6, <1>7, <1>8, <1>9 DEF q

(* A slot that superframe_cb may have given: the one of before, or the one   *)
(* that a tag had asked for, with the consent of all anchors that are left.  *)
Given(r, n, from, reqt) ==
  /\ r.slot_reqt = reqt
  /\ \/ r.slot_idx = from
     \/ /\ n \notin Anchor /\ r.slot_idx = reqt
        /\ \A j \in KnownAnchors(r) : r.nodes[j].accepted

(* One iteration of the loop keeps the instance sound.                       *)
LEMMA AgeSlotInv ==
  ASSUME NEW n \in Node, NEW role, role = "MASTER" => n \in Anchor,
         NEW r, InstanceInv(r, n), ConsentInv(r, n, role), NewcomerInv(r),
         NEW i \in Slot, i # 0, NEW from, NEW reqt, Given(r, n, from, reqt)
  PROVE  LET q == AgeSlot(r, n, role, i)
         IN InstanceInv(q, n) /\ ConsentInv(q, n, role) /\ NewcomerInv(q)
            /\ Given(q, n, from, reqt)
<1>. DEFINE left == NodeRmv(r, i)
            in == NodeAddMe(left, n, left.slot_reqt)
            aged == [r EXCEPT !.nodes[i] = AgeEntry(@)]
<1>1. r.nodes \in [Slot -> Entry] /\ r.nodes[i] \in Entry /\ 0 \in Slot
      /\ BcnSlot \subseteq Slot
  BY TableFacts, SlotFacts
<1>2. ASSUME ~Expires(r.nodes[i])
      PROVE  InstanceInv(aged, n) /\ ConsentInv(aged, n, role) /\ NewcomerInv(aged)
             /\ Given(aged, n, from, reqt)
  <2>. DEFINE e == AgeEntry(r.nodes[i])
              T == [r.nodes EXCEPT ![i] = e]
  <2>1. e \in Entry /\ e.addr = r.nodes[i].addr /\ e.accepted = r.nodes[i].accepted
    BY <1>1, <1>2, AgeEntryFacts
  <2>. HIDE DEF e
  <2>2. T \in [Slot -> Entry] /\ T[0] = r.nodes[0]
        /\ \A j \in Slot : T[j].addr = r.nodes[j].addr /\ T[j].accepted = r.nodes[j].accepted
    BY <1>1, <2>1
  <2>3. aged = With(r, r.slot_reqt, T)
    BY DEF With, InstanceInv, Instance, e
  <2>. HIDE DEF T, aged
  <2>4. InstanceInv(aged, n) /\ aged.nodes = T /\ aged.slot_idx = r.slot_idx
        /\ aged.slot_reqt = r.slot_reqt
    BY <2>2, <2>3, TableChange
  <2>5. ConsentInv(aged, n, role)
    BY <1>1, <2>2, <2>4, ConsentKept
  <2>6. KnownAnchors(aged) = KnownAnchors(r)
    BY <1>1, <2>2, <2>4 DEF KnownAnchors
  <2>7. NewcomerInv(aged)
    BY <2>2, <2>4, <2>6 DEF NewcomerInv
  <2>8. \A j \in KnownAnchors(r) : aged.nodes[j].accepted = r.nodes[j].accepted
    BY <1>1, <2>2, <2>4 DEF KnownAnchors
  <2>9. Given(aged, n, from, reqt)
    BY <2>4, <2>6, <2>8 DEF Given
  <2>. QED
    BY <2>4, <2>5, <2>7, <2>9
<1>3. /\ InstanceInv(left, n) /\ left.slot_idx = r.slot_idx /\ left.slot_reqt = r.slot_reqt
      /\ \A j \in Slot : j # i => /\ left.nodes[j].addr = r.nodes[j].addr
                                 /\ left.nodes[j].accepted = r.nodes[j].accepted
      /\ left.nodes[i].addr = NoAddr
      /\ r.slot_idx = 0 => left.nodes[0].slot_map = r.nodes[0].slot_map \ {i}
  BY NodeRmvFacts
<1>. HIDE DEF left
<1>4. KnownAnchors(left) = KnownAnchors(r) \ {i}
  BY <1>1, <1>3 DEF KnownAnchors
<1>5. \A j \in KnownAnchors(left) : left.nodes[j].accepted = r.nodes[j].accepted
  BY <1>1, <1>3, <1>4 DEF KnownAnchors
<1>6. InstanceInv(left, n) /\ ConsentInv(left, n, role) /\ NewcomerInv(left)
      /\ Given(left, n, from, reqt)
  <2>1. ConsentInv(left, n, role)
    BY <1>3, <1>4, <1>5 DEF ConsentInv
  <2>2. NewcomerInv(left)
    <3>1. left.nodes[0].addr = r.nodes[0].addr
      BY <1>1, <1>3
    <3>. QED
      BY <1>3, <1>4, <3>1 DEF NewcomerInv
  <2>3. Given(left, n, from, reqt)
    BY <1>3, <1>4, <1>5 DEF Given
  <2>. QED
    BY <1>3, <2>1, <2>2, <2>3
<1>7. ASSUME n \notin Anchor, left.slot_reqt # 0, NodeAllAccepted(left, role)
      PROVE  InstanceInv(in, n) /\ ConsentInv(in, n, role) /\ NewcomerInv(in)
             /\ Given(in, n, from, reqt)
  <2>. DEFINE x == left.slot_reqt
  <2>1. x \in Region(n) /\ x \in RngSlot /\ x \in Slot
    BY <1>6, <1>7, SlotFacts DEF InstanceInv, Region
  <2>2. InstanceInv(in, n) /\ ConsentInv(in, n, role)
    BY <1>6, <1>7, <2>1, NodeAddMeInv
  <2>3. in.slot_idx = x /\ in.slot_reqt = x /\ \A j \in Slot : j # x => in.nodes[j] = left.nodes[j]
    BY <1>3, <2>1 DEF NodeAddMe, InstanceInv, Instance
  <2>4. \A j \in BcnSlot : in.nodes[j] = left.nodes[j]
    BY <1>1, <2>1, <2>3, SlotFacts
  <2>5. KnownAnchors(in) = KnownAnchors(left)
        /\ \A j \in KnownAnchors(in) : in.nodes[j] = left.nodes[j]
    BY <2>4 DEF KnownAnchors
  <2>6. \A j \in KnownAnchors(left) : left.nodes[j].accepted
    BY <1>7 DEF NodeAllAccepted
  <2>7. NewcomerInv(in)
    BY <1>7, <2>3 DEF NewcomerInv
  <2>8. Given(in, n, from, reqt)
    BY <1>6, <1>7, <2>3, <2>5, <2>6 DEF Given
  <2>. QED
    BY <2>2, <2>7, <2>8
<1>. QED
  BY <1>2, <1>6, <1>7 DEF AgeSlot, left

(* The loop: by induction every iteration leaves a sound instance.           *)
LEMMA LoopInv ==
  ASSUME NEW n \in Node, NEW role, role = "MASTER" => n \in Anchor,
         NEW r, InstanceInv(r, n), ConsentInv(r, n, role), NewcomerInv(r)
  PROVE  \E q : /\ SuperframeCb(r, n, role) = Tick(q)
                /\ InstanceInv(q, n) /\ ConsentInv(q, n, role) /\ NewcomerInv(q)
                /\ Given(q, n, r.slot_idx, r.slot_reqt)
<1>. DEFINE X == {q \in Instance : /\ InstanceInv(q, n) /\ ConsentInv(q, n, role)
                                   /\ NewcomerInv(q)
                                   /\ Given(q, n, r.slot_idx, r.slot_reqt)}
            h == [z \in X \X Nat |->
                    IF z[2] \in Slot \ {0} THEN AgeSlot(z[1], n, role, z[2]) ELSE z[1]]
            N == NSlots - 1
            after[i \in Slot] == IF i = 0 THEN r ELSE AgeSlot(after[i - 1], n, role, i)
<1>1. N \in Nat /\ Slot = 0 .. N
  BY SlotAssumption DEF Slot
<1>2. r \in X
  BY DEF Given, InstanceInv
<1>3. ASSUME NEW q \in X, NEW i \in Slot \ {0}
      PROVE  AgeSlot(q, n, role, i) \in X
  <2>. DEFINE p == AgeSlot(q, n, role, i)
  <2>1. InstanceInv(p, n) /\ ConsentInv(p, n, role) /\ NewcomerInv(p)
        /\ Given(p, n, r.slot_idx, r.slot_reqt)
    BY AgeSlotInv
  <2>. HIDE DEF p
  <2>2. p \in X
    BY <2>1 DEF InstanceInv
  <2>. QED
    BY <2>2 DEF p
<1>4. \A q \in X : /\ InstanceInv(q, n) /\ ConsentInv(q, n, role) /\ NewcomerInv(q)
                   /\ Given(q, n, r.slot_idx, r.slot_reqt)
  OBVIOUS
<1>. HIDE DEF X
<1>5. /\ h \in [X \X Nat -> X]
      /\ \A q \in X : \A i \in Slot : i # 0 => h[<<q, i>>] = AgeSlot(q, n, role, i)
  <2>1. Slot \subseteq Nat
    BY SlotFacts
  <2>2. \A z \in X \X Nat :
          (IF z[2] \in Slot \ {0} THEN AgeSlot(z[1], n, role, z[2]) ELSE z[1]) \in X
    BY <1>3
  <2>. QED
    BY <2>1, <2>2
<1>. HIDE DEF h
<1>6. PICK f \in [0 .. N -> X] : StepsFrom(f, r, h, N)
  BY <1>1, <1>2, <1>5, Recursion
<1>7. f = [i \in Slot |-> IF i = 0 THEN r ELSE AgeSlot(f[i - 1], n, role, i)]
  <2>1. ASSUME NEW i \in Slot, i # 0
        PROVE  f[i] = AgeSlot(f[i - 1], n, role, i)
    <3>1. i - 1 \in 0 .. N /\ i \in 0 .. N
      BY <1>1, <2>1
    <3>2. f[i - 1] \in X
      BY <1>6, <3>1
    <3>. QED
      BY <1>5, <1>6, <2>1, <3>1, <3>2 DEF StepsFrom
  <2>2. f[0] = r
    BY <1>6 DEF StepsFrom
  <2>3. \A i \in Slot : f[i] = IF i = 0 THEN r ELSE AgeSlot(f[i - 1], n, role, i)
    BY <2>1, <2>2
  <2>. QED
    BY <1>1, <2>3
<1>8. after = CHOOSE g : g = [i \in Slot |-> IF i = 0 THEN r
                                             ELSE AgeSlot(g[i - 1], n, role, i)]
  BY DEF after
<1>9. SuperframeCb(r, n, role) = Tick(after[N])
  BY DEF SuperframeCb, after
<1>. HIDE DEF after
<1>10. after = [i \in Slot |-> IF i = 0 THEN r ELSE AgeSlot(after[i - 1], n, role, i)]
  BY <1>7, <1>8, Zenon
<1>11. \A i \in Slot : after[i] = IF i = 0 THEN r ELSE AgeSlot(after[i - 1], n, role, i)
  BY <1>10, Zenon
<1>12. SuperframeCb(r, n, role) = Tick(after[N]) /\ N \in Nat /\ Slot = 0 .. N
  BY <1>1, <1>9
<1>. HIDE DEF N
<1>13. ASSUME NEW k \in Nat
       PROVE  k <= N => after[k] \in X
  <2>. DEFINE S == {j \in Nat : j <= N => after[j] \in X}
  <2>1. 0 \in S
    BY <1>2, <1>11, <1>12
  <2>2. ASSUME NEW j \in S
        PROVE  j + 1 \in S
    <3>. SUFFICES ASSUME j + 1 <= N
                  PROVE  after[j + 1] \in X
      OBVIOUS
    <3>1. j \in Nat /\ j + 1 \in Slot \ {0} /\ (j + 1) - 1 = j /\ after[j] \in X
      BY <1>12
    <3>2. after[j + 1] = AgeSlot(after[j], n, role, j + 1)
      BY <1>11, <3>1
    <3>. QED
      BY <1>3, <3>1, <3>2
  <2>3. S \in SUBSET Nat
    OBVIOUS
  <2>. HIDE DEF S
  <2>4. S = Nat
    BY <2>1, <2>2, <2>3, AllNaturals
  <2>. QED
    BY <2>4 DEF S
<1>14. after[N] \in X
  BY <1>12, <1>13
<1>. QED
  BY <1>4, <1>12, <1>14

(* superframe_cb keeps the instance sound, and gives a slot only to a tag    *)
(* that has asked for it and that every anchor left has accepted.            *)
LEMMA SuperframeCbInv ==
  ASSUME NEW n \in Node, NEW role, role = "MASTER" => n \in Anchor,
         NEW r, InstanceInv(r, n), ConsentInv(r, n, role), NewcomerInv(r)
  PROVE  LET q == SuperframeCb(r, n, role)
         IN InstanceInv(q, n) /\ ConsentInv(q, n, role) /\ NewcomerInv(q)
            /\ Given(q, n, r.slot_idx, r.slot_reqt)
<1>1. PICK p : /\ SuperframeCb(r, n, role) = Tick(p)
               /\ InstanceInv(p, n) /\ ConsentInv(p, n, role) /\ NewcomerInv(p)
               /\ Given(p, n, r.slot_idx, r.slot_reqt)
  BY LoopInv
<1>2. InstanceInv(Tick(p), n) /\ ConsentInv(Tick(p), n, role)
  BY <1>1, TickInv
<1>3. /\ Tick(p).slot_idx = p.slot_idx /\ Tick(p).slot_reqt = p.slot_reqt
      /\ Tick(p).nodes = p.nodes
  BY <1>1 DEF Tick, InstanceInv, Instance
<1>4. NewcomerInv(Tick(p)) /\ Given(Tick(p), n, r.slot_idx, r.slot_reqt)
  BY <1>1, <1>3 DEF NewcomerInv, Given, KnownAnchors
<1>. QED
  BY <1>1, <1>2, <1>4

-----------------------------------------------------------------------------
(* Ranging slots and events. *)

(* Hearing a tag range keeps the instance sound.                             *)
LEMMA RangedInv ==
  ASSUME NEW n \in Node, NEW role, NEW r, InstanceInv(r, n), ConsentInv(r, n, role),
         NEW i \in Slot, NEW own, NEW heard
  PROVE  /\ InstanceInv(Ranged(r, i, own, heard), n)
         /\ ConsentInv(Ranged(r, i, own, heard), n, role)
<1>. DEFINE e == [r.nodes[i] EXCEPT !.timeout = 0]
            T == [r.nodes EXCEPT ![i] = e]
            q == [r EXCEPT !.nodes[i].timeout = 0]
<1>1. r.nodes[i] \in Entry /\ r.nodes \in [Slot -> Entry] /\ 0 \in 0 .. AnchorTimeout
  BY TableFacts, BoundAssumption
<1>2. e \in Entry /\ e.addr = r.nodes[i].addr /\ e.accepted = r.nodes[i].accepted
  BY <1>1 DEF Entry
<1>3. q = With(r, r.slot_reqt, T)
  BY <1>1 DEF With, InstanceInv, Instance
<1>. HIDE DEF e, q
<1>4. T \in [Slot -> Entry] /\ \A j \in BcnSlot : /\ T[j].addr = r.nodes[j].addr
                                                /\ T[j].accepted = r.nodes[j].accepted
  BY <1>1, <1>2, SlotFacts
<1>. HIDE DEF T
<1>5. InstanceInv(q, n) /\ q.nodes = T /\ q.slot_idx = r.slot_idx
  BY <1>3, <1>4, TableChange
<1>6. ConsentInv(q, n, role)
  BY <1>4, <1>5, ConsentKept
<1>. QED
  BY <1>5, <1>6 DEF Ranged, q

(* The table of a node that has just synchronised is a table.                *)
LEMMA EmptyTableType == EmptyTable \in [Slot -> Entry]
BY SlotFacts, BoundAssumption DEF EmptyTable, EmptyEntry, Entry, Address

(* Clearing the tables at a loss of the sync leaves a sound instance.        *)
LEMMA ClearedInv ==
  ASSUME NEW n \in Node, NEW role, NEW r, InstanceInv(r, n)
  PROVE  /\ InstanceInv(Cleared(r), n)
         /\ ConsentInv(Cleared(r), n, role)
         /\ KnownAnchors(Cleared(r)) = {}
<1>. DEFINE q == Cleared(r)
<1>1. /\ q \in Instance /\ q.slot_idx = 0 /\ q.slot_reqt = r.slot_reqt
      /\ q.slot_reqt_addr = r.slot_reqt_addr /\ q.nodes = EmptyTable
  BY SlotFacts, EmptyTableType DEF Cleared, InstanceInv, Instance
<1>. HIDE DEF q
<1>2. InstanceInv(q, n) /\ ConsentInv(q, n, role)
  BY <1>1 DEF InstanceInv, ConsentInv
<1>3. KnownAnchors(q) = {}
  <2>1. \A i \in Slot : EmptyTable[i].addr = NoAddr
    BY DEF EmptyTable, EmptyEntry
  <2>. QED
    BY <1>1, <2>1, SlotFacts DEF KnownAnchors
<1>. QED
  BY <1>2, <1>3 DEF q

(* rtls_tdma_start leaves a sound instance that needs no consent.            *)
LEMMA BootInv ==
  ASSUME NEW n \in Node, NEW role
  PROVE  /\ InstanceInv(BootInstance, n) /\ ConsentInv(BootInstance, n, role)
         /\ NewcomerInv(BootInstance)
<1>1. 0 \in 0 .. CntrMax
  BY BoundAssumption DEF CntrMax
<1>2. BootInstance \in Instance
  BY <1>1, SlotFacts, EmptyTableType DEF BootInstance, Instance, Address
<1>3. NewcomerInv(BootInstance)
  <2>1. \A i \in Slot : EmptyTable[i].addr = NoAddr
    BY DEF EmptyTable, EmptyEntry
  <2>2. BootInstance.nodes = EmptyTable
    BY DEF BootInstance
  <2>3. KnownAnchors(BootInstance) = {}
    BY <2>1, <2>2, SlotFacts DEF KnownAnchors
  <2>. QED
    BY <2>3 DEF NewcomerInv
<1>. QED
  BY <1>2, <1>3, SlotFacts DEF BootInstance, InstanceInv, ConsentInv

(* The master takes its slot without anybody's consent.                      *)
LEMMA MasterInv ==
  ASSUME NEW n \in Node, n \in Anchor, NEW role, NEW r, InstanceInv(r, n)
  PROVE  LET q == NodeAddMe(Cleared(r), n, MasterSlot)
         IN InstanceInv(q, n) /\ ConsentInv(q, n, role)
BY ClearedInv, NodeAddMeInv, SlotFacts DEF Region

-----------------------------------------------------------------------------
(* The actions. *)

(* The slot. *)
LEMMA NextSlotType ==
  ASSUME slot \in Slot, NextSlot
  PROVE  slot' \in Slot
BY SlotAssumption DEF Slot, NextSlot

(* The count of upsets stays a natural number.                               *)
LEMMA SpendType ==
  ASSUME upsets \in Nat, NEW S \in SUBSET Node, Spend(Cardinality(S))
  PROVE  upsets' \in Nat
<1>1. Cardinality(S) \in Nat
  BY NodeAssumption, FS_Subset, FS_CardinalityType
<1>. QED
  BY <1>1 DEF Spend

(* A beacon slot of the whole network preserves the invariant.               *)
LEMMA BcnSlotStep ==
  ASSUME IInv, RunBcnSlot
  PROVE  IInv'
<1>1. slot \in BcnSlot /\ NextSlot /\ UNCHANGED <<armed, synced, ccp_role, request>>
  BY DEF RunBcnSlot, election
<1>2. PICK late \in SUBSET {n \in armed : OwnsSlot(n)} :
        LET senders   == {n \in armed : OwnsSlot(n)} \ late
            listeners == {n \in armed : ~OwnsSlot(n)}
            air       == {BcnFrame(rti[n], n) : n \in senders}
        IN \E rx \in Receptions(listeners, air) :
             /\ Spend(Cardinality(late \cup Losers(rx, air)))
             /\ rti' = [n \in Node |->
                  IF n \in senders THEN BcnSlotMine(rti[n])
                  ELSE IF n \in listeners
                  THEN BcnSlotOthr(rti[n], n, slot, ccp_role[n], rx[n])
                  ELSE rti[n]]
  BY DEF RunBcnSlot
<1>. DEFINE senders   == {n \in armed : OwnsSlot(n)} \ late
            listeners == {n \in armed : ~OwnsSlot(n)}
            air       == {BcnFrame(rti[n], n) : n \in senders}
<1>3. PICK rx \in Receptions(listeners, air) :
        /\ Spend(Cardinality(late \cup Losers(rx, air)))
        /\ rti' = [n \in Node |->
             IF n \in senders THEN BcnSlotMine(rti[n])
             ELSE IF n \in listeners
             THEN BcnSlotOthr(rti[n], n, slot, ccp_role[n], rx[n])
             ELSE rti[n]]
  BY <1>2
<1>4. senders \subseteq Node /\ listeners \subseteq Node /\ late \subseteq Node
  BY DEF IInv
<1>5. rx \in [listeners -> air \cup {NoFrame}]
  BY <1>3 DEF Receptions
<1>6. \A n \in senders : n \in Node /\ rti[n].slot_idx \in BcnSlot
  BY <1>1, <1>4 DEF OwnsSlot
<1>7. \A f \in air : FrameInv(f)
  BY <1>6, BcnFrameInv DEF IInv
<1>. HIDE DEF senders, listeners, air
<1>8. ASSUME NEW n \in Node
      PROVE  /\ InstanceInv(rti'[n], n) /\ ConsentInv(rti'[n], n, ccp_role[n])
             /\ NewcomerInv(rti'[n])
  <2>1. /\ InstanceInv(rti[n], n) /\ ConsentInv(rti[n], n, ccp_role[n])
        /\ NewcomerInv(rti[n])
    BY DEF IInv
  <2>2. CASE n \in senders
    <3>1. rti'[n] = BcnSlotMine(rti[n]) /\ rti[n].slot_idx \in BcnSlot
      BY <1>3, <1>6, <2>2
    <3>2. BcnSlotMine(rti[n]).slot_idx = rti[n].slot_idx
      BY <2>1 DEF BcnSlotMine, InstanceInv, Instance
    <3>3. NewcomerInv(rti'[n])
      BY <3>1, <3>2, SlotFacts DEF NewcomerInv
    <3>. QED
      BY <2>1, <3>1, <3>3, BcnSlotMineInv
  <2>3. CASE n \notin senders /\ n \in listeners
    <3>1. rx[n] = NoFrame \/ FrameInv(rx[n])
      BY <1>5, <1>7, <2>3
    <3>2. rti'[n] = BcnSlotOthr(rti[n], n, slot, ccp_role[n], rx[n])
      BY <1>3, <2>3
    <3>. QED
      BY <1>1, <2>1, <3>1, <3>2, BcnSlotOthrInv, BcnSlotOthrNewcomer
  <2>4. CASE n \notin senders /\ n \notin listeners
    BY <1>3, <2>1, <2>4
  <2>. QED
    BY <2>2, <2>3, <2>4
<1>9. rti' \in [Node -> Instance]
  <2>1. \A n \in Node : rti'[n] \in Instance
    BY <1>8 DEF InstanceInv
  <2>. QED
    BY <1>3, <2>1
<1>10. upsets' \in Nat
  <2>1. Losers(rx, air) \subseteq Node
    BY <1>4, <1>5 DEF Losers
  <2>2. late \cup Losers(rx, air) \in SUBSET Node
    BY <1>4, <2>1
  <2>. QED
    BY <1>3, <2>2, SpendType DEF IInv
<1>11. slot' \in Slot
  BY <1>1, NextSlotType DEF IInv
<1>. QED
  BY <1>1, <1>8, <1>9, <1>10, <1>11 DEF IInv

(* A service slot of the whole network preserves the invariant.              *)
LEMMA SvcSlotStep ==
  ASSUME IInv, RunSvcSlot
  PROVE  IInv'
<1>1. NextSlot /\ UNCHANGED <<armed, synced, ccp_role, request>>
  BY DEF RunSvcSlot, election
<1>2. PICK late \in SUBSET armed :
        LET asking    == {n \in armed \ late : ~AllAccepted(n)}
            listeners == {n \in armed \ late : AllAccepted(n)}
            air       == {SvcFrame(rti[n], n) :
                            n \in {m \in asking : SvcSends(rti[m], m)}}
        IN \E rx \in Receptions(listeners, air) :
             /\ Spend(Cardinality(late \cup Losers(rx, air)))
             /\ rti' = [n \in Node |->
                  IF n \in asking THEN SvcRequest(rti[n], n)
                  ELSE IF n \in listeners THEN SvcListen(rti[n], n, rx[n])
                  ELSE rti[n]]
  BY DEF RunSvcSlot
<1>. DEFINE asking    == {n \in armed \ late : ~AllAccepted(n)}
            listeners == {n \in armed \ late : AllAccepted(n)}
            air       == {SvcFrame(rti[n], n) :
                            n \in {m \in asking : SvcSends(rti[m], m)}}
<1>3. PICK rx \in Receptions(listeners, air) :
        /\ Spend(Cardinality(late \cup Losers(rx, air)))
        /\ rti' = [n \in Node |->
             IF n \in asking THEN SvcRequest(rti[n], n)
             ELSE IF n \in listeners THEN SvcListen(rti[n], n, rx[n])
             ELSE rti[n]]
  BY <1>2
<1>4. asking \subseteq Node /\ listeners \subseteq Node /\ late \subseteq Node
  BY DEF IInv
<1>5. rx \in [listeners -> air \cup {NoFrame}]
  BY <1>3 DEF Receptions
<1>6. \A f \in air : f.src \in Node /\ f.slot_reqt \in Region(f.src)
  BY <1>4, SvcFrameInv DEF IInv
<1>. HIDE DEF asking, listeners, air
<1>7. ASSUME NEW n \in Node
      PROVE  /\ InstanceInv(rti'[n], n) /\ ConsentInv(rti'[n], n, ccp_role[n])
             /\ NewcomerInv(rti'[n])
  <2>1. /\ InstanceInv(rti[n], n) /\ ConsentInv(rti[n], n, ccp_role[n])
        /\ NewcomerInv(rti[n])
    BY DEF IInv
  <2>2. CASE n \in asking
    <3>1. rti'[n] = SvcRequest(rti[n], n)
      BY <1>3, <2>2
    <3>2. SvcRequest(rti[n], n).slot_idx = rti[n].slot_idx
          /\ SvcRequest(rti[n], n).nodes = rti[n].nodes
      BY <2>1 DEF SvcRequest, InstanceInv, Instance
    <3>3. NewcomerInv(rti'[n])
      BY <2>1, <3>1, <3>2, NewcomerKept
    <3>. QED
      BY <2>1, <3>1, <3>3, SvcRequestInv
  <2>3. CASE n \notin asking /\ n \in listeners
    <3>1. rx[n] = NoFrame \/ (rx[n].src \in Node /\ rx[n].slot_reqt \in Region(rx[n].src))
      BY <1>5, <1>6, <2>3
    <3>2. rti'[n] = SvcListen(rti[n], n, rx[n])
      BY <1>3, <2>3
    <3>. QED
      <4>1. SvcListen(rti[n], n, rx[n]).slot_idx = rti[n].slot_idx
            /\ SvcListen(rti[n], n, rx[n]).nodes = rti[n].nodes
        BY <2>1 DEF SvcListen, InstanceInv, Instance
      <4>2. NewcomerInv(rti'[n])
        BY <2>1, <3>2, <4>1, NewcomerKept
      <4>. QED
        BY <2>1, <3>1, <3>2, <4>2, SvcListenInv
  <2>4. CASE n \notin asking /\ n \notin listeners
    BY <1>3, <2>1, <2>4
  <2>. QED
    BY <2>2, <2>3, <2>4
<1>8. rti' \in [Node -> Instance]
  <2>1. \A n \in Node : rti'[n] \in Instance
    BY <1>7 DEF InstanceInv
  <2>. QED
    BY <1>3, <2>1
<1>9. upsets' \in Nat
  <2>1. Losers(rx, air) \subseteq Node
    BY <1>4, <1>5 DEF Losers
  <2>2. late \cup Losers(rx, air) \in SUBSET Node
    BY <1>4, <2>1
  <2>. QED
    BY <1>3, <2>2, SpendType DEF IInv
<1>10. slot' \in Slot
  BY <1>1, NextSlotType DEF IInv
<1>. QED
  BY <1>1, <1>7, <1>8, <1>9, <1>10 DEF IInv

(* A ranging slot of the whole network preserves the invariant.              *)
LEMMA RngSlotStep ==
  ASSUME IInv, RunRngSlot
  PROVE  IInv'
<1>1. slot \in Slot /\ NextSlot
      /\ UNCHANGED <<armed, synced, ccp_role, request>>
  BY DEF RunRngSlot, IInv, election
<1>2. PICK late \in SUBSET {n \in armed : rti[n].slot_idx # 0} :
        LET joined    == {n \in armed \ late : rti[n].slot_idx # 0}
            senders   == {n \in joined : rti[n].slot_idx = slot /\ n \notin Anchor}
            listeners == joined \cap Anchor
        IN \E rx \in [listeners -> senders \cup {NoAddr}] :
             LET lost == {n \in listeners :
                            /\ rx[n] = NoAddr
                            /\ Cardinality({m \in senders : InRange(n, m)}) = 1}
             IN /\ Spend(Cardinality(late \cup lost))
                /\ rti' = [n \in Node |->
                     IF n \in joined
                     THEN Ranged(rti[n], slot, rti[n].slot_idx = slot,
                                 IF n \in listeners THEN rx[n] ELSE NoAddr)
                     ELSE rti[n]]
  BY DEF RunRngSlot
<1>. DEFINE joined    == {n \in armed \ late : rti[n].slot_idx # 0}
            senders   == {n \in joined : rti[n].slot_idx = slot /\ n \notin Anchor}
            listeners == joined \cap Anchor
            lost(rx)  == {n \in listeners :
                            /\ rx[n] = NoAddr
                            /\ Cardinality({m \in senders : InRange(n, m)}) = 1}
<1>3. PICK rx \in [listeners -> senders \cup {NoAddr}] :
        /\ Spend(Cardinality(late \cup lost(rx)))
        /\ rti' = [n \in Node |->
             IF n \in joined
             THEN Ranged(rti[n], slot, rti[n].slot_idx = slot,
                         IF n \in listeners THEN rx[n] ELSE NoAddr)
             ELSE rti[n]]
  BY <1>2
<1>4. late \cup lost(rx) \in SUBSET Node
  BY DEF IInv
<1>. HIDE DEF joined, senders, listeners, lost
<1>5. ASSUME NEW n \in Node
      PROVE  /\ InstanceInv(rti'[n], n) /\ ConsentInv(rti'[n], n, ccp_role[n])
             /\ NewcomerInv(rti'[n])
  <2>1. /\ InstanceInv(rti[n], n) /\ ConsentInv(rti[n], n, ccp_role[n])
        /\ NewcomerInv(rti[n])
    BY DEF IInv
  <2>2. CASE n \in joined
    <3>. DEFINE own == rti[n].slot_idx = slot
                heard == IF n \in listeners THEN rx[n] ELSE NoAddr
    <3>1. rti'[n] = Ranged(rti[n], slot, own, heard)
      BY <1>3, <2>2
    <3>. HIDE DEF own, heard
    <3>. QED
      <4>1. Ranged(rti[n], slot, own, heard).slot_idx = rti[n].slot_idx
            /\ \A j \in Slot :
                 /\ Ranged(rti[n], slot, own, heard).nodes[j].addr = rti[n].nodes[j].addr
                 /\ Ranged(rti[n], slot, own, heard).nodes[j].slot_map = rti[n].nodes[j].slot_map
        BY <1>1, <2>1, TableFacts DEF Ranged, InstanceInv, Instance, Entry
      <4>2. NewcomerInv(rti'[n])
        BY <2>1, <3>1, <4>1, SlotFacts, NewcomerKept
      <4>. QED
        BY <1>1, <2>1, <3>1, <4>2, RangedInv
  <2>3. CASE n \notin joined
    BY <1>3, <2>1, <2>3
  <2>. QED
    BY <2>2, <2>3
<1>6. rti' \in [Node -> Instance]
  <2>1. \A n \in Node : rti'[n] \in Instance
    BY <1>5 DEF InstanceInv
  <2>. QED
    BY <1>3, <2>1
<1>7. upsets' \in Nat
  BY <1>3, <1>4, SpendType DEF IInv
<1>8. slot' \in Slot
  BY <1>1, NextSlotType
<1>. QED
  BY <1>1, <1>5, <1>6, <1>7, <1>8 DEF IInv

(* The start of a superframe preserves the invariant.                        *)
LEMMA SuperframeStep ==
  ASSUME IInv, Superframe
  PROVE  IInv'
<1>1. slot' = 1 /\ UNCHANGED <<synced, ccp_role, request>>
  BY DEF Superframe, election
<1>2. PICK hearing \in SUBSET synced :
        /\ Spend(Cardinality(synced \ hearing)) \/ UNCHANGED upsets
        /\ armed' = hearing
        /\ rti' = [n \in Node |-> IF n \in hearing
                                  THEN SuperframeCb(rti[n], n, ccp_role[n])
                                  ELSE rti[n]]
  BY DEF Superframe
<1>3. synced \subseteq Node /\ synced \ hearing \in SUBSET Node /\ armed' \in SUBSET Node
  BY <1>2 DEF IInv
<1>4. ASSUME NEW n \in Node
      PROVE  /\ InstanceInv(rti'[n], n) /\ ConsentInv(rti'[n], n, ccp_role[n])
             /\ NewcomerInv(rti'[n])
  BY <1>2, SuperframeCbInv DEF IInv
<1>5. rti' \in [Node -> Instance]
  <2>1. \A n \in Node : rti'[n] \in Instance
    BY <1>4 DEF InstanceInv
  <2>. QED
    BY <1>2, <2>1
<1>6. upsets' \in Nat
  BY <1>2, <1>3, SpendType DEF IInv
<1>7. slot' \in Slot
  BY <1>1, SlotAssumption DEF Slot, BcnSlot
<1>. QED
  BY <1>1, <1>3, <1>4, <1>5, <1>6, <1>7 DEF IInv

(* An event of the CCP layer or of the power changes one instance. *)
LEMMA EventStep ==
  ASSUME IInv, NEW n \in Node, NEW r, NEW role \in CcpRole,
         role = "MASTER" => n \in Anchor,
         InstanceInv(r, n), ConsentInv(r, n, role), NewcomerInv(r),
         rti' = [rti EXCEPT ![n] = r], ccp_role' = [ccp_role EXCEPT ![n] = role],
         request' \in SUBSET (request \cup {n}), n \in request' => role = "MASTER",
         synced' \in SUBSET Node, armed' \in SUBSET Node, slot' = slot,
         upsets' \in Nat
  PROVE  IInv'
<1>1. ccp_role' \in [Node -> CcpRole] /\ \A m \in Node :
        ccp_role'[m] = IF m = n THEN role ELSE ccp_role[m]
  BY DEF IInv
<1>2. \A m \in Node : rti'[m] = IF m = n THEN r ELSE rti[m]
  BY DEF IInv
<1>3. rti' \in [Node -> Instance]
  BY DEF IInv, InstanceInv
<1>4. request' \in SUBSET Node
      /\ \A m \in Node : m \in request' => ccp_role'[m] = "MASTER"
  BY <1>1 DEF IInv
<1>. QED
  BY <1>1, <1>2, <1>3, <1>4 DEF IInv

(* What an event of the CCP layer or of the power spends.                     *)
LEMMA SpendOne ==
  ASSUME upsets \in Nat, NEW k \in Nat, Spend(k)
  PROVE  upsets' \in Nat
BY DEF Spend

(* The first frame of a rival preserves the invariant.                       *)
LEMMA HearRivalStep ==
  ASSUME IInv, NEW n \in Node, HearRival(n)
  PROVE  IInv'
BY DEF IInv, HearRival, InstanceInv, ConsentInv, NewcomerInv, KnownAnchors

(* A master that gives the role up preserves the invariant.                  *)
LEMMA StepDownStep ==
  ASSUME IInv, NEW n \in Node, StepDown(n)
  PROVE  IInv'
<1>1. /\ synced \in SUBSET Node /\ armed \in SUBSET Node /\ upsets \in Nat
      /\ "SLAVE" \in CcpRole
  BY DEF IInv, CcpRole
<1>2. /\ InstanceInv(Cleared(rti[n]), n) /\ ConsentInv(Cleared(rti[n]), n, "SLAVE")
      /\ NewcomerInv(Cleared(rti[n]))
  BY ClearedInv DEF IInv, NewcomerInv
<1>3. n \notin request
  BY DEF StepDown
<1>. QED
  BY <1>1, <1>2, <1>3, EventStep DEF StepDown

(* A slave that hunts in vain preserves the invariant.                       *)
LEMMA HuntTimeoutStep ==
  ASSUME IInv, NEW n \in Node, HuntTimeout(n)
  PROVE  IInv'
<1>. DEFINE role == IF n \in Anchor THEN "MASTER" ELSE "SLAVE"
<1>1. /\ synced \in SUBSET Node /\ armed \in SUBSET Node /\ upsets \in Nat
      /\ request \in SUBSET Node
      /\ ccp_role \in [Node -> CcpRole] /\ role \in CcpRole
      /\ (role = "MASTER" => n \in Anchor)
  BY DEF IInv, CcpRole
<1>2. /\ InstanceInv(Cleared(rti[n]), n) /\ ConsentInv(Cleared(rti[n]), n, role)
      /\ NewcomerInv(Cleared(rti[n]))
  BY ClearedInv DEF IInv, NewcomerInv
<1>3. /\ slot' = slot /\ armed' \in SUBSET Node
      /\ rti' = [rti EXCEPT ![n] = Cleared(rti[n])] /\ ccp_role[n] = "SLAVE"
  BY <1>1 DEF HuntTimeout
<1>4. upsets' \in Nat
  <2>1. PICK k \in Nat : Spend(k)
    BY DEF HuntTimeout, Count
  <2>. QED
    BY <1>1, <2>1, SpendOne
<1>5. synced' \in SUBSET Node
  BY <1>1 DEF HuntTimeout, election
<1>6. /\ ccp_role' = [ccp_role EXCEPT ![n] = role]
      /\ request' \in SUBSET (request \cup {n})
      /\ n \in request' => role = "MASTER"
  <2>1. CASE n \notin Anchor
    <3>1. UNCHANGED <<ccp_role, request>>
      BY <2>1 DEF HuntTimeout, election
    <3>2. n \notin request
      BY <1>3 DEF IInv
    <3>. QED
      BY <1>1, <1>3, <2>1, <3>1, <3>2
  <2>2. CASE n \in Anchor
    BY <2>2 DEF HuntTimeout
  <2>. QED
    BY <2>1, <2>2
<1>. HIDE DEF role
<1>. QED
  BY <1>1, <1>2, <1>3, <1>4, <1>5, <1>6, EventStep

(* The end of a change of role preserves the invariant.                      *)
LEMMA SyncSyedStep ==
  ASSUME IInv, NEW n \in Node, SyncSyed(n)
  PROVE  IInv'
<1>1. /\ synced' \in SUBSET Node /\ armed' \in SUBSET Node /\ slot' = slot
      /\ upsets' \in Nat /\ request' = request
      /\ ccp_role \in [Node -> CcpRole] /\ "SLAVE" \in CcpRole /\ "MASTER" \in CcpRole
  BY DEF SyncSyed, IInv, CcpRole
<1>2. CASE BecomesMaster(n)
  <2>. DEFINE q == NodeAddMe(Cleared(rti[n]), n, MasterSlot)
  <2>1. ccp_role[n] = "MASTER" /\ n \in Anchor
    BY <1>2 DEF BecomesMaster, IInv
  <2>2. InstanceInv(q, n) /\ ConsentInv(q, n, "MASTER")
    BY <2>1, MasterInv DEF IInv
  <2>3. NewcomerInv(q)
    BY ClearedInv, NodeAddMeNewcomer, SlotFacts DEF IInv
  <2>4. rti' = [rti EXCEPT ![n] = q] /\ ccp_role' = [ccp_role EXCEPT ![n] = "MASTER"]
    BY <1>1, <1>2, <2>1 DEF BecomesMaster
  <2>. HIDE DEF q
  <2>. QED
    BY <1>1, <2>1, <2>2, <2>3, <2>4, EventStep
<1>3. CASE BecomesSlave(n)
  <2>1. /\ InstanceInv(Cleared(rti[n]), n) /\ ConsentInv(Cleared(rti[n]), n, "SLAVE")
        /\ NewcomerInv(Cleared(rti[n]))
    BY ClearedInv DEF IInv, NewcomerInv
  <2>2. n \notin request
    BY <1>3 DEF BecomesSlave
  <2>. QED
    BY <1>1, <1>3, <2>1, <2>2, EventStep DEF BecomesSlave
<1>. QED
  BY <1>2, <1>3 DEF SyncSyed

(* A restart preserves the invariant.                                        *)
LEMMA RestartStep ==
  ASSUME IInv, NEW n \in Node, Restart(n)
  PROVE  IInv'
<1>1. /\ synced' \in SUBSET Node /\ armed' \in SUBSET Node /\ slot' = slot
      /\ request' = request \ {n} /\ "SLAVE" \in CcpRole
  BY DEF Restart, IInv, CcpRole
<1>2. upsets' \in Nat
  BY SpendOne DEF Restart, IInv
<1>3. /\ InstanceInv(BootInstance, n) /\ ConsentInv(BootInstance, n, "SLAVE")
      /\ NewcomerInv(BootInstance)
  BY BootInv
<1>. QED
  BY <1>1, <1>2, <1>3, EventStep DEF Restart

(* Every step of the network preserves the invariant.                        *)
LEMMA NextStep ==
  ASSUME IInv, Next
  PROVE  IInv'
<1>1. CASE RunSlot
  BY <1>1, BcnSlotStep, SvcSlotStep, RngSlotStep, SuperframeStep DEF RunSlot
<1>2. CASE \E n \in Node : \/ HearRival(n) \/ StepDown(n) \/ HuntTimeout(n)
                           \/ SyncSyed(n) \/ Restart(n)
  BY <1>2, HearRivalStep, StepDownStep, HuntTimeoutStep, SyncSyedStep, RestartStep
<1>. QED
  BY <1>1, <1>2 DEF Next

(* The invariant holds when every node has started.                          *)
LEMMA InitIInv ==
  ASSUME Init
  PROVE  IInv
<1>1. \A n \in Node : /\ InstanceInv(BootInstance, n)
                      /\ ConsentInv(BootInstance, n, "SLAVE")
                      /\ NewcomerInv(BootInstance)
  BY BootInv
<1>. QED
  BY <1>1, SlotFacts DEF Init, IInv, InstanceInv, CcpRole

(* The inductive invariant holds in every reachable state, for any network,  *)
(* slot layout, radio ranges and number of upsets.                           *)
THEOREM Invariance == Spec => []IInv
<1>1. Init => IInv
  BY InitIInv
<1>2. IInv /\ [Next]_vars => IInv'
  <2>1. ASSUME IInv, UNCHANGED vars
        PROVE  IInv'
    BY <2>1 DEF IInv, vars, election, InstanceInv, ConsentInv, NewcomerInv, KnownAnchors
  <2>. QED
    BY <2>1, NextStep
<1>. QED
  BY <1>1, <1>2, PTL DEF Spec

-----------------------------------------------------------------------------
(* Type correctness: no handler leaves a slot index, a counter or a slot map *)
(* out of range, and the time-outs stay below AnchorTimeout + 1.             *)
THEOREM TypeCorrect == Spec => []TypeOK
<1>1. IInv => TypeOK
  BY DEF IInv, TypeOK
<1>. QED
  BY <1>1, Invariance, PTL

(* The regions of SlotRegion are respected however answers are mixed up,     *)
(* whatever the faults and the network.                                      *)
THEOREM RegionSafe == Spec => []SlotRegion
<1>1. IInv => SlotRegion
  BY DEF IInv, InstanceInv, SlotRegion, Region
<1>. QED
  BY <1>1, Invariance, PTL

(* JoinedAnchorsAccepted holds for any network and any number of upsets.     *)
THEOREM ConsentSafe == Spec => []JoinedAnchorsAccepted
<1>1. IInv => JoinedAnchorsAccepted
  BY AnchorsAreNodes DEF IInv, ConsentInv, JoinedAnchorsAccepted, Joined
<1>. QED
  BY <1>1, Invariance, PTL

(* NewcomersInformed holds for any network and any number of upsets.         *)
THEOREM NewcomersSafe == Spec => []NewcomersInformed
<1>1. IInv => NewcomersInformed
  BY DEF IInv, NewcomerInv, NewcomersInformed
<1>. QED
  BY <1>1, Invariance, PTL

-----------------------------------------------------------------------------
(* Who takes a slot, and on whose word. *)

(* In somebody else's beacon slot a node changes its slot only for the one   *)
(* that an acceptance addressed to it names.                                 *)
LEMMA JoinsByAcpt ==
  ASSUME NEW n \in Node, NEW role, NEW r, InstanceInv(r, n), ConsentInv(r, n, role),
         NEW i \in BcnSlot, NEW f, FrameInv(f),
         BcnSlotOthr(r, n, i, role, f).slot_idx \notin {0, r.slot_idx}
  PROVE  f.dst = n /\ f.slot_reqt = BcnSlotOthr(r, n, i, role, f).slot_idx
<1>. DEFINE known == IF f.src # r.nodes[i].addr THEN Adopt(r, n, i, f.src) ELSE r
            seen == Heard(known, i)
            told == TakeAcpt(seen, n, i, role, f)
            q == BcnSlotOthr(r, n, i, role, f)
<1>1. InstanceInv(known, n) /\ ConsentInv(known, n, role) /\ known.slot_idx = r.slot_idx
  <2>1. f.src \in Node
    BY DEF FrameInv, Frame
  <2>. QED
    BY <2>1, AdoptInv
<1>. HIDE DEF known
<1>2. InstanceInv(seen, n) /\ ConsentInv(seen, n, role) /\ seen.slot_idx = r.slot_idx
  <2>1. seen.slot_idx = known.slot_idx
    BY <1>1 DEF Heard, InstanceInv, Instance
  <2>. QED
    BY <1>1, <2>1, HeardInv
<1>. HIDE DEF seen
<1>3. \A x \in Instance : TakeSlotMap(x, n, i, f).slot_idx = x.slot_idx
  BY DEF TakeSlotMap, Instance
<1>4. \/ q = r
      \/ q = seen
      \/ q = TakeSlotMap(seen, n, i, f)
      \/ f.dst = n /\ q = TakeSlotMap(told, n, i, f)
  BY DEF BcnSlotOthr, known, seen, told
<1>. HIDE DEF q
<1>5. f.dst = n /\ q = TakeSlotMap(told, n, i, f)
  BY <1>2, <1>3, <1>4 DEF InstanceInv, q
<1>6. q.slot_idx = told.slot_idx
  <2>1. told \in Instance
    BY <1>2, <1>5, TakeAcptInv DEF InstanceInv
  <2>. QED
    BY <1>3, <1>5, <2>1
<1>7. told.slot_idx \in {seen.slot_idx, seen.slot_reqt} /\ (told # seen => f.slot_reqt = seen.slot_reqt)
  BY <1>2 DEF TakeAcpt, NodeAddMe, InstanceInv, Instance
<1>. QED
  BY <1>2, <1>5, <1>6, <1>7 DEF q

(* An acceptance that names a slot is a grant: the slot is not in the map of *)
(* the owner of the beacon slot, who keeps it for the addressee.             *)
LEMMA GrantKept ==
  ASSUME NEW m \in Node, NEW r, InstanceInv(r, m), r.slot_idx \in BcnSlot,
         NEW n, BcnFrame(r, m).dst = n, BcnFrame(r, m).slot_reqt # 0
  PROVE  LET i == BcnFrame(r, m).slot_reqt
         IN i \notin r.nodes[r.slot_idx].slot_map /\ Reserved(BcnSlotMine(r), i, n)
<1>. DEFINE me == r.slot_idx
            i == r.slot_reqt
            heard == [r.nodes EXCEPT ![me] = [@ EXCEPT !.available = TRUE, !.timeout = 0]]
            listed == [heard EXCEPT ![me].slot_map = @ \cup {i}]
            table == [heard EXCEPT ![me].slot_map = @ \cup {i},
                                   ![i].addr = r.slot_reqt_addr]
            q == BcnSlotMine(r)
<1>1. i # 0 /\ Grants(r) /\ BcnFrame(r, m).slot_reqt = i /\ r.slot_reqt_addr = n
  BY DEF BcnFrame
<1>2. i \notin r.nodes[me].slot_map
  BY <1>1 DEF Grants
<1>3. CASE i > SvcSlot
  <2>1. i # me /\ me \in Slot /\ i \in Slot /\ r.nodes \in [Slot -> Entry] /\ r.nodes[me] \in Entry
    BY <1>3, SlotFacts, TableFacts
  <2>2. heard \in [Slot -> Entry]
    <3>1. [r.nodes[me] EXCEPT !.available = TRUE, !.timeout = 0] \in Entry
      BY <2>1, ResetEntry
    <3>. QED
      BY <2>1, <3>1
  <2>. HIDE DEF heard
  <2>3. listed \in [Slot -> Entry] /\ i \in listed[me].slot_map
    <3>1. heard[me] \in Entry /\ heard[me].slot_map \cup {i} \in SUBSET Slot
      BY <2>1, <2>2 DEF Entry
    <3>2. [heard[me] EXCEPT !.slot_map = @ \cup {i}] \in Entry
      BY <3>1 DEF Entry
    <3>. QED
      BY <2>1, <2>2, <3>1, <3>2 DEF Entry
  <2>4. table = [listed EXCEPT ![i].addr = r.slot_reqt_addr]
    OBVIOUS
  <2>. HIDE DEF table, listed
  <2>5. table[i].addr = n /\ i \in table[me].slot_map
    <3>1. table[me] = listed[me]
      BY <2>1, <2>3, <2>4
    <3>2. listed[i] \in Entry
      BY <2>1, <2>3
    <3>3. table[i] = [listed[i] EXCEPT !.addr = r.slot_reqt_addr]
      BY <2>1, <2>3, <2>4
    <3>4. table[i].addr = n
      BY <1>1, <3>2, <3>3 DEF Entry
    <3>. QED
      BY <2>3, <3>1, <3>4
  <2>6. q = [r EXCEPT !.seqno = 1 - r.seqno, !.slot_reqt = 0, !.nodes = table]
    BY <1>1, <1>3 DEF BcnSlotMine, table, heard
  <2>7. q.nodes = table /\ q.slot_idx = me
    <3>. HIDE DEF q
    <3>. QED
      BY <2>6 DEF InstanceInv, Instance
  <2>. QED
    BY <1>1, <1>2, <2>5, <2>7 DEF Reserved
<1>4. CASE ~(i > SvcSlot)
  <2>1. q = [r EXCEPT !.seqno = 1 - r.seqno, !.slot_reqt = i, !.nodes = heard]
    BY <1>1, <1>4 DEF BcnSlotMine
  <2>2. q.slot_reqt = i /\ q.slot_reqt_addr = n
    <3>. HIDE DEF q, heard
    <3>. QED
      BY <1>1, <2>1 DEF InstanceInv, Instance
  <2>. QED
    BY <1>1, <1>2, <2>2 DEF Reserved
<1>. QED
  BY <1>3, <1>4

(* Every step takes slots only under a grant.                                *)
LEMMA GrantStep ==
  ASSUME IInv, [Next]_vars, NEW n \in Node, slot \in BcnSlot, slot' # slot,
         rti'[n].slot_idx \notin {0, rti[n].slot_idx}
  PROVE  \E m \in Anchor \ {n} :
           /\ rti[m].slot_idx = slot
           /\ rti'[n].slot_idx \notin rti[m].nodes[slot].slot_map
           /\ Reserved(rti'[m], rti'[n].slot_idx, n)
<1>1. RunBcnSlot
  <2>1. slot # 0 /\ slot # SvcSlot /\ slot \notin RngSlot
    BY SlotFacts
  <2>. QED
    BY <2>1 DEF Next, RunSlot, RunSvcSlot, RunRngSlot, Superframe, HearRival, StepDown,
                HuntTimeout, SyncSyed, Restart, vars
<1>2. PICK late \in SUBSET {k \in armed : OwnsSlot(k)} :
        LET senders   == {k \in armed : OwnsSlot(k)} \ late
            listeners == {k \in armed : ~OwnsSlot(k)}
            air       == {BcnFrame(rti[k], k) : k \in senders}
        IN \E rx \in Receptions(listeners, air) :
             /\ Spend(Cardinality(late \cup Losers(rx, air)))
             /\ rti' = [k \in Node |->
                  IF k \in senders THEN BcnSlotMine(rti[k])
                  ELSE IF k \in listeners
                  THEN BcnSlotOthr(rti[k], k, slot, ccp_role[k], rx[k])
                  ELSE rti[k]]
  BY <1>1 DEF RunBcnSlot
<1>. DEFINE senders   == {k \in armed : OwnsSlot(k)} \ late
            listeners == {k \in armed : ~OwnsSlot(k)}
            air       == {BcnFrame(rti[k], k) : k \in senders}
<1>3. PICK rx \in Receptions(listeners, air) :
        rti' = [k \in Node |->
             IF k \in senders THEN BcnSlotMine(rti[k])
             ELSE IF k \in listeners
             THEN BcnSlotOthr(rti[k], k, slot, ccp_role[k], rx[k])
             ELSE rti[k]]
  BY <1>2
<1>4. rx \in [listeners -> air \cup {NoFrame}]
  BY <1>3 DEF Receptions
<1>5. \A k \in senders : k \in Node /\ k \in Anchor /\ rti[k].slot_idx = slot
  <2>1. \A k \in senders : k \in Node /\ rti[k].slot_idx = slot
    BY DEF OwnsSlot, IInv
  <2>2. \A k \in senders : rti[k].slot_idx \in {0} \cup Region(k)
    BY <2>1 DEF IInv, InstanceInv
  <2>. QED
    BY <2>1, <2>2, SlotFacts DEF Region
<1>6. \A k \in listeners : k \notin senders
  OBVIOUS
<1>7. InstanceInv(rti[n], n) /\ ConsentInv(rti[n], n, ccp_role[n])
  BY DEF IInv
<1>8. n \notin senders
  <2>. SUFFICES ASSUME n \in senders
                PROVE  FALSE
    OBVIOUS
  <2>1. rti'[n] = BcnSlotMine(rti[n])
    BY <1>3
  <2>2. BcnSlotMine(rti[n]).slot_idx = rti[n].slot_idx
    BY <1>7 DEF BcnSlotMine, InstanceInv, Instance
  <2>. QED
    BY <2>1, <2>2
<1>. HIDE DEF senders, listeners
<1>9. n \in listeners /\ rti'[n] = BcnSlotOthr(rti[n], n, slot, ccp_role[n], rx[n])
  BY <1>3, <1>8
<1>10. rx[n] # NoFrame
  BY <1>9 DEF BcnSlotOthr
<1>11. PICK m \in senders : rx[n] = BcnFrame(rti[m], m)
  BY <1>4, <1>9, <1>10
<1>12. m \in Anchor /\ m \in Node /\ rti[m].slot_idx = slot /\ InstanceInv(rti[m], m)
       /\ rti'[m] = BcnSlotMine(rti[m]) /\ m # n
  BY <1>3, <1>5, <1>8, <1>11 DEF IInv
<1>. DEFINE i == rti'[n].slot_idx
            f == rx[n]
<1>13. f.dst = n /\ f.slot_reqt = i /\ i # 0
  <2>1. FrameInv(f)
    BY <1>11, <1>12, BcnFrameInv
  <2>. HIDE DEF f
  <2>2. f.dst = n /\ f.slot_reqt = BcnSlotOthr(rti[n], n, slot, ccp_role[n], f).slot_idx
    BY <1>7, <1>9, <2>1, JoinsByAcpt DEF f
  <2>. QED
    BY <1>9, <2>2 DEF f
<1>14. i \notin rti[m].nodes[slot].slot_map /\ Reserved(rti'[m], i, n)
  BY <1>11, <1>12, <1>13, GrantKept
<1>. QED
  BY <1>12, <1>14

(* Whoever takes a slot in a beacon slot does so under a grant that its      *)
(* giver keeps, for any network and any number of upsets.                    *)
THEOREM GrantSafe == Spec => JoinsUnderGrant
<1>1. IInv /\ [Next]_vars =>
        \A n \in Node :
          LET i == rti'[n].slot_idx
          IN slot \in BcnSlot /\ slot' # slot /\ i \notin {0, rti[n].slot_idx} =>
               \E m \in Anchor \ {n} :
                 /\ rti[m].slot_idx = slot
                 /\ i \notin rti[m].nodes[slot].slot_map
                 /\ Reserved(rti'[m], i, n)
  BY GrantStep
<1>. QED
  BY <1>1, Invariance, PTL DEF Spec, JoinsUnderGrant

-----------------------------------------------------------------------------
(* Joins in the middle of superframe_cb. *)

(* A tag that joins in superframe_cb has the slot it had asked for and the   *)
(* consent of all anchors left in its table, however many entries the        *)
(* callback removes, before and after the join.                              *)
THEOREM LateJoinsSafe == Spec => LateJoinsAccepted
<1>1. ASSUME IInv, [Next]_vars, NEW n \in Node, slot = 0, slot' = 1,
             rti'[n].slot_idx # rti[n].slot_idx
      PROVE  /\ rti'[n].slot_idx = rti[n].slot_reqt
             /\ \A i \in KnownAnchors(rti'[n]) : rti'[n].nodes[i].accepted
  <2>1. Superframe
    <3>1. slot \notin BcnSlot /\ slot # SvcSlot /\ slot \notin RngSlot /\ slot' # slot
      BY <1>1, SlotFacts
    <3>. QED
      BY <1>1, <3>1 DEF Next, RunSlot, RunBcnSlot, RunSvcSlot, RunRngSlot, HearRival, StepDown,
                        HuntTimeout, SyncSyed, Restart, vars
  <2>2. PICK hearing \in SUBSET synced :
          rti' = [k \in Node |-> IF k \in hearing
                                 THEN SuperframeCb(rti[k], k, ccp_role[k])
                                 ELSE rti[k]]
    BY <2>1 DEF Superframe
  <2>3. rti'[n] = SuperframeCb(rti[n], n, ccp_role[n])
    BY <1>1, <2>2
  <2>4. Given(rti'[n], n, rti[n].slot_idx, rti[n].slot_reqt)
    BY <1>1, <2>3, SuperframeCbInv DEF IInv
  <2>. QED
    BY <1>1, <2>4 DEF Given
<1>2. IInv /\ [Next]_vars =>
        \A n \in Node :
          slot = 0 /\ slot' = 1 /\ rti'[n].slot_idx # rti[n].slot_idx =>
            /\ rti'[n].slot_idx = rti[n].slot_reqt
            /\ \A i \in KnownAnchors(rti'[n]) : rti'[n].nodes[i].accepted
  BY <1>1
<1>. QED
  BY <1>2, Invariance, PTL DEF Spec, LateJoinsAccepted
=============================================================================
