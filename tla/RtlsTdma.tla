------------------------------ MODULE RtlsTdma ------------------------------
(***************************************************************************)
(* The slot admission protocol of the UWB network,                         *)
(* firmware/lib/rtls_tdma/src/rtls_tdma.c.                                 *)
(*                                                                         *)
(* A superframe is cut in NSlots slots.  Slot 0 carries the clock packet   *)
(* (CCP), slots 1..BcnSlotMax are beacon slots owned by anchors, SvcSlot   *)
(* carries slot requests, the remaining slots are ranging slots owned by   *)
(* tags.  Every node keeps a table with one entry per slot and joins a     *)
(* slot once every anchor of its table has accepted it.                    *)
(*                                                                         *)
(* All nodes run the handler of a slot in the same time window, and within *)
(* a slot a handler only reads its own instance and the frame it receives, *)
(* so one step of the model is one slot of the whole network: the handlers *)
(* of the senders put their frames on the air and each listener receives   *)
(* one of the frames in range, or none.                                    *)
(***************************************************************************)
EXTENDS Integers, FiniteSets

CONSTANTS
  Node,             \* nodes, identified by their short address
  Anchor,           \* the nodes started with role RTR_ANCHOR; the rest are tags
  NoAddr,           \* address 0: nobody
  NSlots,           \* TDMA_NSLOTS
  BcnSlotMax,       \* UWB_BCN_SLOT_MAX
  SvcSlot,          \* UWB_SVC_SLOT
  MasterSlot,       \* RT_MASTER_SLOT
  SlotReqtTimeout,  \* RT_SLOT_REQT_TIMEOUT
  AnchorTimeout,    \* RT_ANCHOR_TIMEOUT
  Near,             \* <<n, m>>: n receives m with an RSSI above -95 dBm
  Far,              \* <<n, m>>: n receives m with an RSSI below -95 dBm
  MaxUpsets         \* bound on faults and on contests for the role of master

Slot     == 0 .. NSlots - 1
BcnSlot  == 1 .. BcnSlotMax
RngSlot  == SvcSlot + 1 .. NSlots - 1
Tag      == Node \ Anchor
Address  == Node \cup {NoAddr}

ASSUME NodeAssumption ==
  /\ IsFiniteSet(Node)
  /\ Anchor \subseteq Node
  /\ NoAddr \notin Node

ASSUME SlotAssumption ==
  /\ NSlots \in Nat /\ BcnSlotMax \in Nat /\ SvcSlot \in Nat
  /\ MasterSlot \in BcnSlot
  /\ SvcSlot = BcnSlotMax + 1
  /\ SvcSlot < NSlots

ASSUME BoundAssumption ==
  /\ SlotReqtTimeout \in Nat
  /\ AnchorTimeout \in Nat
  /\ MaxUpsets \in Nat

ASSUME RadioAssumption ==
  /\ Near \subseteq Node \X Node
  /\ Far \subseteq Node \X Node

VARIABLES
  slot,      \* the slot about to run; 0 until the next CCP
  armed,     \* nodes whose slot timers run in this superframe
  synced,    \* nodes whose CCP layer is running (SYED came after LOST)
  ccp_role,  \* the role of the node's CCP layer
  request,   \* nodes whose CCP layer has master_role_request set
  rti,       \* rtls_tdma_instance_t of each node
  upsets     \* faults and contests so far, at most MaxUpsets

election == <<ccp_role, request>>

vars == <<slot, armed, synced, election, rti, upsets>>

-----------------------------------------------------------------------------
(* The instance of a node. *)

CcpRole == {"MASTER", "SLAVE"}

(* rtls_tdma_node_t without its location, which no guard of this file reads. *)
Entry == [addr : Address, slot_map : SUBSET Slot, timeout : 0 .. AnchorTimeout,
          available : BOOLEAN, accepted : BOOLEAN]

(* The u16 counter is only compared with SlotReqtTimeout: it saturates above. *)
CntrMax == SlotReqtTimeout + 1

(* rtls_tdma_instance_t; of seqno only its parity is read. *)
Instance == [slot_idx : Slot, slot_reqt : Slot, slot_reqt_cntr : 0 .. CntrMax,
             slot_reqt_addr : Address, seqno : {0, 1}, nodes : [Slot -> Entry]]

EmptyEntry == [addr |-> NoAddr, slot_map |-> {0}, timeout |-> 0,
               available |-> FALSE, accepted |-> FALSE]

EmptyTable == [i \in Slot |-> EmptyEntry]

BootInstance == [slot_idx |-> 0, slot_reqt |-> 0, slot_reqt_cntr |-> 0,
                 slot_reqt_addr |-> NoAddr, seqno |-> 0, nodes |-> EmptyTable]

(* Remove the entry of slot i, and its bit from the own slot map. *)
NodeRmv(r, i) ==
  LET unlisted == [r.nodes EXCEPT ![r.slot_idx].slot_map = @ \ {i}]
  IN [r EXCEPT !.nodes = [unlisted EXCEPT ![i] = EmptyEntry]]

(* Join slot i: the own map is the map gathered in entry 0, plus the slot. *)
NodeAddMe(r, n, i) ==
  [r EXCEPT !.slot_idx = i,
            !.nodes[i] = [@ EXCEPT !.slot_map = r.nodes[0].slot_map \cup {i},
                                   !.addr = n, !.accepted = TRUE]]

(* The anchors a node knows of. *)
KnownAnchors(r) == {i \in BcnSlot : r.nodes[i].addr # NoAddr}

(* Mutant of NodeAllAccepted: one acceptance is enough. *)
NodeAnyAccepted(r, role) ==
  \/ role = "MASTER"
  \/ \E i \in KnownAnchors(r) : r.nodes[i].accepted

(* The master needs nobody's consent; anyone else needs somebody's, and that *)
(* of every anchor of the table.                                             *)
NodeAllAccepted(r, role) ==
  \/ role = "MASTER"
  \/ /\ KnownAnchors(r) # {}
     /\ \A i \in KnownAnchors(r) : r.nodes[i].accepted

AllAccepted(n) == NodeAllAccepted(rti[n], ccp_role[n])

-----------------------------------------------------------------------------
(* Frames of the beacon slots and of the service slot. *)

Frame == [kind : {"ACPT", "LOCA", "SLOT", "REQT"}, src : Node, dst : Address,
          slot_reqt : Slot, slot_map : SUBSET Slot]

NoFrame == [kind |-> "none"]

(* dst NoAddr stands for the broadcast address too: nobody has either. *)
Grants(r) == r.slot_reqt \notin r.nodes[r.slot_idx].slot_map

BcnFrame(r, n) ==
  [kind      |-> IF r.slot_reqt # 0 THEN "ACPT"
                 ELSE IF r.seqno = 1 THEN "LOCA" ELSE "SLOT",
   src       |-> n,
   dst       |-> IF r.slot_reqt # 0 THEN r.slot_reqt_addr ELSE NoAddr,
   slot_reqt |-> IF r.slot_reqt # 0 /\ Grants(r) THEN r.slot_reqt ELSE 0,
   slot_map  |-> r.nodes[r.slot_idx].slot_map]

(* Mutant of BcnSlotMine: a granted request is done with. *)
BcnSlotMineForgets(r) ==
  [r EXCEPT !.seqno = 1 - @, !.slot_reqt = 0,
            !.nodes[r.slot_idx] = [@ EXCEPT !.available = TRUE, !.timeout = 0]]

(* bcn_slot_cb_mine: answer the pending request, or just send a beacon.  A   *)
(* refused request is dropped; a granted ranging slot is entered in the      *)
(* table at once; a granted beacon slot stays locked until its owner is      *)
(* heard or the request times out.                                           *)
BcnSlotMine(r) ==
  LET me      == r.slot_idx
      served  == r.slot_reqt # 0
      ranging == served /\ Grants(r) /\ r.slot_reqt > SvcSlot
      heard   == [r.nodes EXCEPT ![me] = [@ EXCEPT !.available = TRUE, !.timeout = 0]]
      table   == [heard EXCEPT ![me].slot_map = @ \cup {r.slot_reqt},
                               ![r.slot_reqt].addr = r.slot_reqt_addr]
  IN [r EXCEPT !.seqno = 1 - @,
               !.slot_reqt = IF served /\ ~ranging /\ Grants(r) THEN @ ELSE 0,
               !.nodes = IF ranging THEN table ELSE heard]

(* Mutant of Adopt: the lock of a request is not released when the node is up. *)
AdoptKeepsLock(r, n, i, src) ==
  IF r.slot_idx = 0 THEN [r EXCEPT !.nodes[i].addr = src]
  ELSE IF n \in Anchor /\ <<n, src>> \in Near
  THEN [r EXCEPT !.nodes[i].addr = src, !.nodes[i].accepted = TRUE]
  ELSE r

(* The first half of bcn_slot_cb_othr: a frame came in slot i from a node    *)
(* that is not the one of the table.                                         *)
Adopt(r, n, i, src) ==
  LET member == r.slot_idx # 0
      asked  == r.slot_reqt # 0 /\ r.slot_reqt_addr = src
      near   == <<n, src>> \in Near
  IN IF member /\ asked
     THEN [r EXCEPT !.slot_reqt = 0, !.nodes[i].addr = src,
                    !.nodes[i].accepted = TRUE]
     ELSE IF member /\ n \in Anchor /\ near
     THEN [r EXCEPT !.nodes[i].addr = src, !.nodes[i].accepted = TRUE]
     ELSE IF ~member
     THEN [r EXCEPT !.nodes[i].addr = src]
     ELSE r

(* Mutant of Heard: the slot is not entered in the own map. *)
HeardUnlisted(r, i) ==
  [r EXCEPT !.nodes[i].available = TRUE, !.nodes[i].timeout = 0]

(* The frame counts as a sign of life of the slot, whoever sent it. *)
Heard(r, i) ==
  LET alive == [r.nodes EXCEPT ![i] = [@ EXCEPT !.available = TRUE, !.timeout = 0]]
  IN [r EXCEPT !.nodes = [alive EXCEPT ![r.slot_idx].slot_map = @ \cup {i}]]

(* RT_ACPT_MSG addressed to this node: an acceptance is one for the slot     *)
(* that slot_reqt holds now.                                                 *)
TakeAcpt(r, n, i, role, f) ==
  LET acc == [r EXCEPT !.nodes[i].accepted = TRUE]
  IN IF f.slot_reqt # r.slot_reqt THEN r
     ELSE IF NodeAllAccepted(acc, role)
     THEN [NodeAddMe(acc, n, r.slot_reqt) EXCEPT !.slot_reqt = 0]
     ELSE acc

(* RT_SLOT_MSG: keep the sender's map; a joined tag takes a new anchor in.   *)
TakeSlotMap(r, n, i, f) ==
  LET kept == [r EXCEPT !.nodes[i].slot_map = f.slot_map]
  IN IF r.slot_idx # 0 /\ f.src # r.nodes[i].addr /\ n \notin Anchor
     THEN [kept EXCEPT !.nodes[i].addr = f.src,
                       !.nodes[i].accepted = r.slot_idx \notin f.slot_map]
     ELSE kept

(* bcn_slot_cb_othr, f the frame received in slot i or NoFrame. *)
BcnSlotOthr(r, n, i, role, f) ==
  IF \/ f = NoFrame
     \/ /\ f.src # r.nodes[i].addr
        /\ r.slot_idx = 0 /\ <<n, f.src>> \notin Near
  THEN r
  ELSE LET seen == Heard(IF f.src # r.nodes[i].addr
                         THEN Adopt(r, n, i, f.src) ELSE r, i)
       IN IF f.kind = "LOCA" \/ (f.kind = "ACPT" /\ f.dst # n) THEN seen
          ELSE IF f.kind = "ACPT"
          THEN TakeSlotMap(TakeAcpt(seen, n, i, role, f), n, i, f)
          ELSE TakeSlotMap(seen, n, i, f)

-----------------------------------------------------------------------------
(* svc_slot_cb. *)

(* Slots that no anchor heard in this superframe lists as occupied. *)
FreeSlots(r) ==
  Slot \ UNION {r.nodes[i].slot_map : i \in {j \in KnownAnchors(r) :
                                               r.nodes[j].available}}

(* Mutant of Candidates: anchors and tags draw from the same slots. *)
CandidatesAnywhere(r, n) == FreeSlots(r) \cap (BcnSlot \cup RngSlot)

Candidates(r, n) == FreeSlots(r) \cap (IF n \in Anchor THEN BcnSlot ELSE RngSlot)

FirstOf(S) == CHOOSE i \in S : \A j \in S : i <= j

(* A node without consent picks the first free slot ... *)
SvcRequest(r, n) ==
  [r EXCEPT !.seqno = 1 - @,
            !.slot_reqt = IF Candidates(r, n) = {} THEN @
                          ELSE FirstOf(Candidates(r, n))]

(* ... and asks for it unless it is slot 1, the sign that no anchor is near. *)
SvcSends(r, n) == Candidates(r, n) # {} /\ FirstOf(Candidates(r, n)) > 1

SvcFrame(r, n) ==
  [kind |-> "REQT", src |-> n, dst |-> NoAddr,
   slot_reqt |-> FirstOf(Candidates(r, n)), slot_map |-> {}]

(* A node with consent gives up a request that waits too long; an anchor     *)
(* without one locks the request it receives.                                *)
SvcListen(r, n, f) ==
  LET r1 == IF r.slot_reqt # 0 /\ r.slot_reqt_cntr > SlotReqtTimeout
            THEN [r EXCEPT !.slot_reqt = 0] ELSE r
  IN IF f # NoFrame /\ n \in Anchor /\ r1.slot_reqt = 0
     THEN [r1 EXCEPT !.slot_reqt = f.slot_reqt, !.slot_reqt_cntr = 0,
                     !.slot_reqt_addr = f.src]
     ELSE r1

-----------------------------------------------------------------------------
(* superframe_cb.  The loop visits the slots in increasing order.            *)

AgeEntry(e) == [e EXCEPT !.available = FALSE, !.timeout = @ + 1]

(* Mutant of Expires: >= became >. *)
ExpiresLate(e) == e.timeout > AnchorTimeout

(* An entry that is not refreshed for AnchorTimeout superframes is removed   *)
(* (the counter of an entry nobody holds runs as well).                      *)
Expires(e) == e.timeout + 1 > AnchorTimeout

(* One iteration.  A tag that waits for a slot joins it as soon as every     *)
(* anchor that is left has accepted it, in the middle of the removals.       *)
AgeSlot(r, n, role, i) ==
  LET left == NodeRmv(r, i)
  IN IF ~Expires(r.nodes[i]) THEN [r EXCEPT !.nodes[i] = AgeEntry(@)]
     ELSE IF n \notin Anchor /\ left.slot_reqt # 0 /\ NodeAllAccepted(left, role)
     THEN NodeAddMe(left, n, left.slot_reqt)
     ELSE left

Tick(r) ==
  [r EXCEPT !.slot_reqt_cntr =
     IF r.slot_reqt # 0 /\ @ < CntrMax THEN @ + 1 ELSE @]

SuperframeCb(r, n, role) ==
  LET after[i \in Slot] == IF i = 0 THEN r ELSE AgeSlot(after[i - 1], n, role, i)
  IN Tick(after[NSlots - 1])

-----------------------------------------------------------------------------
(* slot_cb: the handlers of one slot, over the whole network. *)

InRange(n, m) == <<n, m>> \in Near \cup Far

(* What the listeners may receive of the frames on the air. *)
Receptions(listeners, air) ==
  {rx \in [listeners -> air \cup {NoFrame}] :
     \A n \in listeners : rx[n] # NoFrame => InRange(n, rx[n].src)}

(* The listeners that had one frame in range and still got none; a listener  *)
(* with several may decode any of them or none, which costs no fault.        *)
Losers(rx, air) ==
  {n \in DOMAIN rx : /\ rx[n] = NoFrame
                     /\ Cardinality({f \in air : InRange(n, f.src)}) = 1}

Spend(k) == upsets + k <= MaxUpsets /\ upsets' = upsets + k

(* 1 for an upset that takes place, else 0. *)
Count(upset) == IF upset THEN 1 ELSE 0

(* slot moves on; after the last slot the network waits for the next CCP. *)
NextSlot == slot' = IF slot = NSlots - 1 THEN 0 ELSE slot + 1

OwnsSlot(n) == rti[n].slot_idx = slot /\ AllAccepted(n)

(* A slot 1..BcnSlotMax.  tdma_task may drop the event of a slot it runs too *)
(* late: late are the owners that miss their slot this way.                  *)
RunBcnSlot ==
  /\ slot \in BcnSlot
  /\ \E late \in SUBSET {n \in armed : OwnsSlot(n)} :
       LET senders   == {n \in armed : OwnsSlot(n)} \ late
           listeners == {n \in armed : ~OwnsSlot(n)}
           air       == {BcnFrame(rti[n], n) : n \in senders}
       IN \E rx \in Receptions(listeners, air) :
            /\ Spend(Cardinality(late \cup Losers(rx, air)))
            /\ rti' = [n \in Node |->
                 IF n \in senders THEN BcnSlotMine(rti[n])
                 ELSE IF n \in listeners
                 THEN BcnSlotOthr(rti[n], n, slot, ccp_role[n], rx[n])
                 ELSE rti[n]]
  /\ NextSlot
  /\ UNCHANGED <<armed, synced, election>>

(* The service slot: nodes without consent request, the others listen. *)
RunSvcSlot ==
  /\ slot = SvcSlot
  /\ \E late \in SUBSET armed :
       LET asking    == {n \in armed \ late : ~AllAccepted(n)}
           listeners == {n \in armed \ late : AllAccepted(n)}
           air       == {SvcFrame(rti[n], n) :
                           n \in {m \in asking : SvcSends(rti[m], m)}}
       IN \E rx \in Receptions(listeners, air) :
            /\ Spend(Cardinality(late \cup Losers(rx, air)))
            /\ rti' = [n \in Node |->
                 IF n \in asking THEN SvcRequest(rti[n], n)
                 ELSE IF n \in listeners THEN SvcListen(rti[n], n, rx[n])
                 ELSE rti[n]]
  /\ NextSlot
  /\ UNCHANGED <<armed, synced, election>>

(* A ranging slot: its owners range; that keeps their own entry alive, and   *)
(* their entry at every joined anchor that hears the request.                *)
Ranged(r, i, own, heard) ==
  IF own \/ (heard # NoAddr /\ heard = r.nodes[i].addr)
  THEN [r EXCEPT !.nodes[i].timeout = 0] ELSE r

RunRngSlot ==
  /\ slot \in RngSlot
  /\ \E late \in SUBSET {n \in armed : rti[n].slot_idx # 0} :
       LET joined    == {n \in armed \ late : rti[n].slot_idx # 0}
           senders   == {n \in joined : rti[n].slot_idx = slot /\ n \notin Anchor}
           listeners == joined \cap Anchor
       IN \E rx \in [listeners -> senders \cup {NoAddr}] :
            LET lost == {n \in listeners :
                           /\ rx[n] = NoAddr
                           /\ Cardinality({m \in senders : InRange(n, m)}) = 1}
            IN /\ \A n \in listeners : rx[n] # NoAddr => InRange(n, rx[n])
               /\ Spend(Cardinality(late \cup lost))
               /\ rti' = [n \in Node |->
                    IF n \in joined
                    THEN Ranged(rti[n], slot, rti[n].slot_idx = slot,
                                IF n \in listeners THEN rx[n] ELSE NoAddr)
                    ELSE rti[n]]
  /\ NextSlot
  /\ UNCHANGED <<armed, synced, election>>

Rulers == {n \in synced : ccp_role[n] = "MASTER"}

MasterRuns == Rulers # {}

(* A master sends its CCP: superframe_cb runs on it and on every node that   *)
(* hears the packet; the others skip the whole superframe.  Of two masters   *)
(* each has its own superframes, which follow each other here or coincide,   *)
(* and the slaves follow either.                                             *)
Superframe ==
  /\ slot = 0
  /\ \E hearing \in SUBSET synced :
       /\ hearing \cap Rulers # {}
       /\ IF Cardinality(Rulers) = 1 THEN Spend(Cardinality(synced \ hearing))
          ELSE UNCHANGED upsets
       /\ armed' = hearing
       /\ rti' = [n \in Node |-> IF n \in hearing
                                 THEN SuperframeCb(rti[n], n, ccp_role[n])
                                 ELSE rti[n]]
  /\ slot' = 1
  /\ UNCHANGED <<synced, election>>

-----------------------------------------------------------------------------
(* uwb_ccp_sync_cb and power, driven by the CCP layer and the environment.   *)

(* CCP_SYNC_LOST and CCP_SYNC_SYED both clear the table and the slot, but    *)
(* not a pending request.                                                    *)
Cleared(r) == [r EXCEPT !.slot_idx = 0, !.nodes = EmptyTable]

(* The others that send CCP frames as masters, or request frames.  What a    *)
(* slave relays of them counts as well; a master's own relayed packets come  *)
(* back in slot 0, where it does not listen.                                 *)
Rivals(n) == {m \in Anchor \ {n} : ccp_role[m] = "MASTER"}

(* A master, or a node that asks for the role, hears a rival for the first   *)
(* time: rx_complete_cb only clears master_role_request.                     *)
HearRival(n) ==
  /\ n \in request /\ Rivals(n) # {}
  /\ request' = request \ {n}
  /\ UNCHANGED <<slot, armed, synced, ccp_role, rti, upsets>>

(* With the flag clear the next frame of a rival turns the master into a     *)
(* slave, CCP_SYNC_LOST and CCP_SYNC_SYED at once.  The slots already armed  *)
(* in this superframe still run.                                             *)
StepDown(n) ==
  /\ n \in Rulers \ request /\ Rivals(n) # {}
  /\ ccp_role' = [ccp_role EXCEPT ![n] = "SLAVE"]
  /\ rti' = [rti EXCEPT ![n] = Cleared(@)]
  /\ UNCHANGED <<slot, armed, synced, request, upsets>>

(* A slave has heard no CCP for too long, and therefore runs no slot.  While *)
(* a master runs this takes lost packets; otherwise it is bound to happen.   *)
(* A tag starts over as a slave at once; an anchor loses the sync and asks   *)
(* for the role of master, in a contest if others have it or ask for it.     *)
(* The lost packets and the contest each count as an upset.                   *)
HuntTimeout(n) ==
  /\ n \in synced /\ ccp_role[n] = "SLAVE"
  /\ slot = 0 \/ n \notin armed
  /\ Spend(Count(MasterRuns) + Count(n \in Anchor /\ Rivals(n) # {}))
  /\ armed' = armed \ {n}
  /\ rti' = [rti EXCEPT ![n] = Cleared(@)]
  /\ \/ /\ n \notin Anchor
        /\ UNCHANGED <<synced, election>>
     \/ /\ n \in Anchor
        /\ synced' = synced \ {n}
        /\ ccp_role' = [ccp_role EXCEPT ![n] = "MASTER"]
        /\ request' = request \cup {n}
  /\ UNCHANGED slot

(* CCP_SYNC_SYED: uwb_ccp_change_role ends.  A node that has asked for the   *)
(* role of master and has heard nobody takes it, and MasterSlot, whatever    *)
(* others do at that time.                                                   *)
BecomesMaster(n) ==
  /\ n \in request
  /\ rti' = [rti EXCEPT ![n] = NodeAddMe(Cleared(@), n, MasterSlot)]
  /\ UNCHANGED ccp_role

(* A node that has not asked, or has heard a rival.                          *)
BecomesSlave(n) ==
  /\ n \notin request
  /\ ccp_role' = [ccp_role EXCEPT ![n] = "SLAVE"]
  /\ rti' = [rti EXCEPT ![n] = Cleared(@)]

SyncSyed(n) ==
  /\ n \notin synced
  /\ synced' = synced \cup {n}
  /\ BecomesMaster(n) \/ BecomesSlave(n)
  /\ UNCHANGED <<slot, armed, request, upsets>>

(* The node loses power and starts again: rtls_tdma_start. *)
Restart(n) ==
  /\ Spend(1)
  /\ synced' = synced \ {n}
  /\ armed' = armed \ {n}
  /\ ccp_role' = [ccp_role EXCEPT ![n] = "SLAVE"]
  /\ request' = request \ {n}
  /\ rti' = [rti EXCEPT ![n] = BootInstance]
  /\ UNCHANGED slot

-----------------------------------------------------------------------------
(* rtls_tdma_start has run everywhere: nobody has synchronised yet. *)
Init ==
  /\ slot = 0
  /\ armed = {}
  /\ synced = {}
  /\ ccp_role = [n \in Node |-> "SLAVE"]
  /\ request = {}
  /\ rti = [n \in Node |-> BootInstance]
  /\ upsets = 0

RunSlot == RunBcnSlot \/ RunSvcSlot \/ RunRngSlot \/ Superframe

Next ==
  \/ RunSlot
  \/ \E n \in Node : \/ HearRival(n) \/ StepDown(n) \/ HuntTimeout(n)
                     \/ SyncSyed(n) \/ Restart(n)

Spec == Init /\ [][Next]_vars

(* Slots run on timers and uwb_ccp_change_role ends after a bounded number of *)
(* rounds; an anchor without a master hunts for one.  Anchor m decodes one of *)
(* the requests that collide, if that happens again and again.                *)
Hunt(n) == ~MasterRuns /\ HuntTimeout(n)

HearsRequest(m) ==
  RunSvcSlot /\ AllAccepted(m) /\ rti[m].slot_reqt = 0 /\ rti'[m].slot_reqt # 0

Fairness ==
  /\ WF_vars(RunSlot)
  /\ \A n \in Node : WF_vars(SyncSyed(n))
  /\ \A n \in Anchor : WF_vars(Hunt(n)) /\ SF_vars(HearsRequest(n))

FairSpec == Spec /\ Fairness

-----------------------------------------------------------------------------
(* Properties. *)

Joined(n) == rti[n].slot_idx # 0

(* Type correctness of the instances and of the network's state. *)
TypeOK ==
  /\ slot \in Slot
  /\ armed \in SUBSET Node
  /\ synced \in SUBSET Node
  /\ ccp_role \in [Node -> CcpRole]
  /\ request \in SUBSET Node
  /\ rti \in [Node -> Instance]
  /\ upsets \in Nat

(* The admission rule (node_all_accepted guards node_add_me, but anchors     *)
(* enter and leave the table afterwards): whatever frames, slots or syncs    *)
(* were lost, an anchor with a slot has the consent of every other anchor of *)
(* its table; only the master needs none.                                    *)
JoinedAnchorsAccepted ==
  \A n \in Anchor : Joined(n) /\ ccp_role[n] # "MASTER" =>
    \A i \in KnownAnchors(rti[n]) : rti[n].nodes[i].accepted

(* An anchor never ends up in a ranging slot nor a tag in a beacon slot, nor *)
(* anybody in the service slot: slot_reqt holds the own request or that of   *)
(* somebody else, and a late answer must not mix them up.                    *)
SlotRegion ==
  \A n \in Node :
    rti[n].slot_idx \in {0} \cup (IF n \in Anchor THEN BcnSlot ELSE RngSlot)

(* A node that joins copies its map from entry 0 (node_add_me), which is     *)
(* filled while others come, go and are removed: until then the map lists    *)
(* every beacon slot of its table, so that it will not grant one of them.    *)
(* (A refusal taken for an acceptance puts the node in entry 0 itself; from  *)
(* then on that map is out of date.)                                         *)
NewcomersInformed ==
  \A n \in Node : rti[n].slot_idx = 0 /\ rti[n].nodes[0].addr = NoAddr =>
    KnownAnchors(rti[n]) \subseteq rti[n].nodes[0].slot_map

(* What the joint mechanism of firmware.tex rests on, as far as the code      *)
(* keeps it: whoever takes a slot in a beacon slot takes it on the word of   *)
(* the owner of that beacon slot, which did not know the slot to be taken    *)
(* and keeps it for him from then on, by its lock or by an entry of its      *)
(* table, whatever it had locked, lost or granted before.                    *)
Reserved(r, i, n) ==
  \/ r.slot_reqt = i /\ r.slot_reqt_addr = n
  \/ r.nodes[i].addr = n /\ i \in r.nodes[r.slot_idx].slot_map

JoinsUnderGrant ==
  [][\A n \in Node :
       LET i == rti'[n].slot_idx
       IN slot \in BcnSlot /\ slot' # slot /\ i \notin {0, rti[n].slot_idx} =>
            \E m \in Anchor \ {n} :
              /\ rti[m].slot_idx = slot
              /\ i \notin rti[m].nodes[slot].slot_map
              /\ Reserved(rti'[m], i, n)]_vars

(* No anchor hears two anchors in one slot: the claim of firmware.tex that   *)
(* the joint mechanism rules this out.                                       *)
NoCollision ==
  \A m, n \in Anchor : m # n /\ Joined(m) /\ rti[m].slot_idx = rti[n].slot_idx =>
    ~ \E k \in Anchor : <<k, m>> \in Near /\ <<k, n>> \in Near

(* A tag may join in the middle of superframe_cb, between two removals: it   *)
(* then has the slot it had asked for, and the consent of every anchor that  *)
(* the callback leaves in its table.                                         *)
LateJoinsAccepted ==
  [][\A n \in Node :
       slot = 0 /\ slot' = 1 /\ rti'[n].slot_idx # rti[n].slot_idx =>
         /\ rti'[n].slot_idx = rti[n].slot_reqt
         /\ \A i \in KnownAnchors(rti'[n]) : rti'[n].nodes[i].accepted]_vars

(* The test of svc_slot_cb, commented "If I did have slot": a synchronised   *)
(* node that everybody accepts has a slot.                                   *)
ConsentMeansSlot ==
  \A n \in synced : AllAccepted(n) => Joined(n)

(* Once masters stay, every node gets a slot and keeps it.                   *)
EveryoneJoins ==
  \A n \in Node : <>[]MasterRuns => <>[]Joined(n)

(* What the protocol promises under one master and without lost frames:      *)
(* claims of slots that neighbours never share and that last until the sync  *)
(* is lost.  (A change of master breaks it: the request that survives it may *)
(* be answered by a refusal to somebody who has a slot.)                     *)
Claims == INSTANCE SlotClaims WITH
  Conflict <- {p \in Node \X Node :
                 /\ p[1] # p[2]
                 /\ \E k \in Anchor : {<<k, p[1]>>, <<k, p[2]>>} \subseteq Near},
  claim <- [n \in Node |-> rti[n].slot_idx]

ClaimsSpec == Claims!Spec
=============================================================================
