------------------------------ MODULE Gateway -------------------------------
(***************************************************************************)
(* The gateway's firmware between the serial line and the mesh:            *)
(* firmware/apps/gateway/src/gateway/gateway.c and ble_mesh/model_gateway.c*)
(*                                                                         *)
(* The downlink task reads characters; a message they complete goes in an  *)
(* mbuf to the queue of the mesh task, which publishes it.  A status from  *)
(* the mesh goes in an mbuf of another pool to the uplink task, which      *)
(* writes its frames to the serial line.  Each queue has an event that the *)
(* task waits for: putting it again while it is queued does nothing.       *)
(***************************************************************************)
EXTENDS SerialLine

CONSTANTS
  NumMbufs,      \* MBUF_NUM_MBUFS of each pool
  FrameLen,      \* characters of a frame
  MaxInputs,     \* bound on the characters received and statuses
  MaxUnknown     \* bound on the messages of an unknown id

ASSUME GatewayAssumption ==
  /\ {NumMbufs, FrameLen} \subseteq Nat \ {0}
  /\ {MaxInputs, MaxUnknown} \subseteq Nat

VARIABLES
  dl,            \* pc of task_downlink_func
  ul,            \* task_uplink_func: pc, frames and characters left to write,
                 \* the comparison rbuf_put has made
  mesh,          \* pc of task_rtls_func
  down, up,      \* a direction: free mbufs, queue of message kinds, queued event
  inputs,        \* inputs so far
  lost           \* history: mbufs of unknown messages, by direction

gwvars == <<dl, ul, mesh, down, up, inputs, lost>>
vars == <<linevars, gwvars>>

Directions == {"down", "up"}

(* BLINK takes a second frame, that of BLE_MESH; an id may be unknown. *)
Kinds == {"blink", "other", "unknown"}

Frames(kind) == IF kind = "blink" THEN 2 ELSE 1

Unknowns == lost["down"] + lost["up"]

(* os_mbuf_get_pkthdr and os_mqueue_put *)
Enqueue(d, kind) ==
  [free |-> d.free - 1, queue |-> Append(d.queue, kind), event |-> TRUE]

Release(d) == [d EXCEPT !.free = @ + 1]

-----------------------------------------------------------------------------
(* The inputs: a character on the line, a status from the mesh. *)

Receive ==
  /\ inputs < MaxInputs /\ inputs' = inputs + 1
  /\ RxChar
  /\ UNCHANGED <<dl, ul, mesh, down, up, lost>>

(* rtls_model_status: without an mbuf the status is dropped. *)
Status(kind) ==
  /\ inputs < MaxInputs /\ inputs' = inputs + 1
  /\ kind = "unknown" => Unknowns + Len(SelectSeq(up.queue, LAMBDA k : k = "unknown")) < MaxUnknown
  /\ up' = IF up.free = 0 THEN up ELSE Enqueue(up, kind)
  /\ UNCHANGED <<linevars, dl, ul, mesh, down, lost>>

Irq == UartIrq /\ UNCHANGED gwvars

-----------------------------------------------------------------------------
(* task_downlink_func *)

DlPend ==
  /\ dl = "pend" /\ dl' = "get"
  /\ Pend
  /\ UNCHANGED <<ul, mesh, down, up, inputs, lost>>

(* rbuf_get; without a character the value read is whatever the stack holds. *)
DlGet ==
  /\ dl = "get"
  /\ IF rbuf_empty(rbuf_rx)
     THEN dl' = "parse" /\ UNCHANGED linevars
     ELSE dl' = "clear" /\ TaskTake
  /\ UNCHANGED <<ul, mesh, down, up, inputs, lost>>

DlClear ==
  /\ dl = "clear" /\ dl' = "parse"
  /\ TaskClearFull
  /\ UNCHANGED <<ul, mesh, down, up, inputs, lost>>

(* mavlink_parse_char completes a message or not.  One of an unknown id is   *)
(* left in its mbuf; without an mbuf the message is dropped.                 *)
DlParse ==
  /\ dl = "parse" /\ dl' = "pend"
  /\ \/ UNCHANGED <<down, lost>>
     \/ /\ down.free > 0
        /\ down' = Enqueue(down, "other")
        /\ UNCHANGED lost
     \/ /\ down.free > 0 /\ Unknowns < MaxUnknown
        /\ down' = [down EXCEPT !.free = @ - 1]
        /\ lost' = [lost EXCEPT !["down"] = @ + 1]
  /\ UNCHANGED <<linevars, ul, mesh, up, inputs>>

-----------------------------------------------------------------------------
(* task_rtls_func: process_net_to_ble_queue empties the queue. *)

MeshRun ==
  /\ mesh = "wait" /\ down.event
  /\ mesh' = "loop"
  /\ down' = [down EXCEPT !.event = FALSE]
  /\ UNCHANGED <<linevars, dl, ul, up, inputs, lost>>

(* Mutant of MeshLoop: one message for each event. *)
MeshOnce ==
  /\ mesh = "loop"
  /\ IF down.queue = <<>> THEN UNCHANGED down
     ELSE down' = Release([down EXCEPT !.queue = Tail(@)])
  /\ mesh' = "wait"
  /\ UNCHANGED <<linevars, dl, ul, up, inputs, lost>>

(* The message is published or, without an address, dropped. *)
MeshLoop ==
  /\ mesh = "loop"
  /\ IF down.queue = <<>>
     THEN mesh' = "wait" /\ UNCHANGED down
     ELSE down' = Release([down EXCEPT !.queue = Tail(@)]) /\ UNCHANGED mesh
  /\ UNCHANGED <<linevars, dl, ul, up, inputs, lost>>

-----------------------------------------------------------------------------
(* task_uplink_func: process_ble_to_net_queue *)

UlRun ==
  /\ ul.pc = "wait" /\ up.event
  /\ ul' = [ul EXCEPT !.pc = "loop"]
  /\ up' = [up EXCEPT !.event = FALSE]
  /\ UNCHANGED <<linevars, dl, mesh, down, inputs, lost>>

UlLoop ==
  /\ ul.pc = "loop"
  /\ IF up.queue = <<>>
     THEN ul' = [ul EXCEPT !.pc = "wait"] /\ UNCHANGED <<up, lost>>
     ELSE
       /\ up' = [up EXCEPT !.queue = Tail(@)]
       /\ IF Head(up.queue) = "unknown"
          THEN lost' = [lost EXCEPT !["up"] = @ + 1] /\ UNCHANGED ul
          ELSE /\ ul' = [ul EXCEPT !.pc = "put", !.frames = Frames(Head(up.queue)),
                                   !.chars = FrameLen]
               /\ UNCHANGED lost
  /\ UNCHANGED <<linevars, dl, mesh, down, inputs>>

(* Mutant of UlPut: the test of the full ring is missing. *)
UlPutOver ==
  /\ ul.pc = "put" /\ ul.chars > 0
  /\ ul' = [ul EXCEPT !.pc = "compare"] /\ TaskStore
  /\ UNCHANGED <<dl, mesh, down, up, inputs, lost>>

(* The next character of serial_write: one that does not fit is dropped. *)
UlPut ==
  /\ ul.pc = "put" /\ ul.chars > 0
  /\ IF rbuf_tx.full
     THEN ul' = [ul EXCEPT !.chars = @ - 1] /\ UNCHANGED linevars
     ELSE ul' = [ul EXCEPT !.pc = "compare"] /\ TaskStore
  /\ UNCHANGED <<dl, mesh, down, up, inputs, lost>>

UlCompare ==
  /\ ul.pc = "compare"
  /\ ul' = [ul EXCEPT !.pc = "full", !.same = (rbuf_tx.head = rbuf_tx.tail)]
  /\ UNCHANGED <<linevars, dl, mesh, down, up, inputs, lost>>

UlSetFull ==
  /\ ul.pc = "full"
  /\ TaskSetFull(ul.same)
  /\ ul' = [ul EXCEPT !.pc = "put", !.chars = @ - 1, !.same = FALSE]
  /\ UNCHANGED <<dl, mesh, down, up, inputs, lost>>

(* The end of serial_write; after the last frame the mbuf is free. *)
UlStart ==
  /\ ul.pc = "put" /\ ul.chars = 0
  /\ StartTx
  /\ IF ul.frames > 1
     THEN ul' = [ul EXCEPT !.frames = @ - 1, !.chars = FrameLen] /\ UNCHANGED up
     ELSE ul' = [ul EXCEPT !.pc = "loop", !.frames = 0] /\ up' = Release(up)
  /\ UNCHANGED <<dl, mesh, down, inputs, lost>>

-----------------------------------------------------------------------------
Init ==
  /\ LineInit
  /\ dl = "pend" /\ mesh = "wait"
  /\ ul = [pc |-> "wait", frames |-> 0, chars |-> 0, same |-> FALSE]
  /\ down = [free |-> NumMbufs, queue |-> <<>>, event |-> FALSE]
  /\ up = down
  /\ inputs = 0
  /\ lost = [d \in Directions |-> 0]

Downlink == DlPend \/ DlGet \/ DlClear \/ DlParse
Mesh == MeshRun \/ MeshLoop
Uplink == UlRun \/ UlLoop \/ UlPut \/ UlCompare \/ UlSetFull \/ UlStart

Next ==
  \/ Receive \/ \E kind \in Kinds : Status(kind)
  \/ Irq
  \/ Downlink \/ Mesh \/ Uplink

Spec == Init /\ [][Next]_vars

(* The tasks are scheduled and the transmitter interrupts. *)
FairSpec ==
  Spec /\ WF_vars(Downlink) /\ WF_vars(Mesh) /\ WF_vars(Uplink) /\ WF_vars(Irq)

-----------------------------------------------------------------------------
(* Properties. *)

TypeOK ==
  /\ LineTypeOK
  /\ dl \in {"pend", "get", "clear", "parse"}
  /\ mesh \in {"wait", "loop"}
  /\ ul \in [pc : {"wait", "loop", "put", "compare", "full"}, frames : 0 .. 2,
             chars : 0 .. FrameLen, same : BOOLEAN]
  /\ {down, up} \subseteq [free : 0 .. NumMbufs, queue : Seq(Kinds), event : BOOLEAN]
  /\ inputs \in 0 .. MaxInputs
  /\ lost \in [Directions -> Nat]

(* The downlink task never sleeps while a character waits: however           *)
(* serial_rx_char and rbuf_get interleave, each character in the ring has    *)
(* its token, or the task is on the way to it.                               *)
CharsAnnounced ==
  rbuf_size(rbuf_rx) <= sem_rx + (IF dl \in {"get", "clear"} THEN 1 ELSE 0)

(* serial_read returns a character that was never received only after the    *)
(* ring has been full: a token without a character is one of an overflow.    *)
GarbageOnlyAfterFull ==
  dl = "get" /\ rbuf_empty(rbuf_rx) => filled

(* Characters may be lost when the ring overflows, but those read by         *)
(* serial_read come in the order of the line, and none comes again after     *)
(* another one (the same one twice in a row is not seen by lastRead).        *)
ReadInOrder == [][lastRead' # lastRead => lastRead' > lastRead]_lastRead

(* No character accepted by serial_write is left out: the interrupt may      *)
(* repeat old ones, but a new one only after all those before it.            *)
NothingLeftOut == [][lastSent' <= lastSent + 1]_lastSent

(* No wake-up is lost: a task that waits without its event has emptied its   *)
(* queue, and all mbufs of the pool but the lost ones are free; a            *)
(* transmitter that has stopped has sent all that was written, once          *)
(* serial_write has returned.  dpl_eventq_put does nothing for a queued      *)
(* event, os_mqueue_get empties the queue after the event was taken, and     *)
(* only uart_start_tx, in parallel with the interrupt, starts transmission.  *)
NobodySleeps ==
  /\ mesh = "wait" /\ ~down.event =>
       down.queue = <<>> /\ down.free = NumMbufs - lost["down"]
  /\ ul.pc = "wait" /\ ~up.event =>
       up.queue = <<>> /\ up.free = NumMbufs - lost["up"]
  /\ ul.pc \in {"wait", "loop"} /\ ~uart => lastSent = written

(* Everything that serial_write accepts is transmitted, although             *)
(* serial_tx_done never restarts the transmitter.                            *)
EverythingSent == []<>(lastSent = written)

(* Only messages of unknown ids cost an mbuf: apart from them every mbuf of  *)
(* the two pools comes back to its pool.                                     *)
BuffersReturn ==
  []<>(/\ down.free = NumMbufs - lost["down"]
       /\ up.free = NumMbufs - lost["up"])
=============================================================================
