# TLA+ models of the UWB indoor positioning system

Anchors with known positions and tags share one ultra-wideband (UWB) channel in
time slots. A tag measures its distance to the anchors around it, computes its
location and publishes it over a BLE mesh and a serial line; a gateway carries
it to a broker, and a web page shows it and sends settings back. This directory
models the protocols and the parts of the programs where order, loss and
time-outs decide whether that works.

Run `tlc -config X.cfg M` for the runs of `PROJECT.json`, and
`tlapm M_proofs.tla` for the proofs.

## 1. The system

| Component | Source | State | Operations |
|---|---|---|---|
| Slot admission | `firmware/lib/rtls_tdma/src/rtls_tdma.c` | table of nodes by slot, own slot, pending request or lock | slot callbacks (beacon, service, ranging), superframe and sync callbacks |
| Slot scheduler | `firmware/lib/rtls_tdma/src/tdma.c` | slots with timers, event queue | superframe, slot timer, task that drops late slots |
| Clock sync and election | `firmware/lib/rtls_ccp/src/rtls_ccp.c` | role, semaphore of the running transaction, queued events, count of misses | send or listen once per superframe, request rounds for the master role, radio callbacks |
| Ranging | `firmware/lib/rtls_nrng`, `firmware/lib/rtls_nrng_ss` | ring of frames, sequence number, semaphore | request, listen, radio callbacks |
| Location | `firmware/apps/rtls/src/rtls/rtls.c` | selected ranges, location, two flags, persistent configuration | completion callback, reads by two tasks, settings |
| Trilateration | `.../rtls/trilateration.c` | none | geometry |
| Mesh models | `firmware/apps/rtls/src/ble_mesh` | one message under a mutex | publishing tasks, remote settings |
| Gateway firmware | `firmware/apps/gateway` | two queues, one pool of 20 buffers | uplink, downlink, mesh callbacks |
| Serial line | `firmware/lib/serial`, `firmware/lib/rbuf` | two ring buffers, counting semaphore | interrupt handlers, blocking read, write |
| Message codec | `firmware/lib/message` | none | packing and unpacking |
| Gateway daemon | `software/linux/gateway/gateway.py` | the port in use | serial threads, MQTT callbacks |
| Web page | `software/linux/web-server/home`: `index.html`, `paho-mqtt.js` | connection, timers, unanswered messages | attempts, fallback, ping, subscription, updates of a node |
| Others | button, relay, sniffer, demos, web server, vendored libraries | | |

**Interactions.** `rtls_ccp` calls `superframe_cb` of `tdma` and of `rtls_tdma`
at each CCP packet, and `uwb_ccp_sync_cb` of `rtls_tdma` when the role changes.
`tdma` queues one event per slot; a task runs the slot callback of `rtls_tdma`.
In ranging slots that callback calls `rtls_tdma_cb` of the application, which
asks for ranges (tag) or listens (anchor). The end of a round calls
`complete_cb` of the application, which reads the ring of frames and the node
table of `rtls_tdma`, and sets two flags that a mesh task and a serial task
poll. Radio callbacks run in the driver's task and hand over by a semaphore per
library; the CCP task has the highest priority of them. On the gateway two
interrupts fill and empty the ring buffers of `rbuf`, three tasks carry messages
between them and the mesh through two queues. The page talks to the broker over
a web socket through the Paho client.

**Hard behaviours.** Admission needs the consent of all known anchors while
frames are lost, anchors come and go, locks expire and the pending-request
field changes its purpose. The master is elected without an arbiter. Old frames
stay in the ring of the ranging library. Flags and results are shared between
tasks without locks. Slots may be late or missed. Interrupts work on a ring
buffer in the middle of a task's operation. Connections close, or go dead
without an event. `PROJECT.json` lists the hazards line by line, with the
properties that address them.

**What makes each component correct.** Admission: one owner per slot in sight,
owners only with everybody's consent, each role in its region, everybody is
admitted in the end. Scheduler: the slots of a superframe run in order, none
late. Election: a candidate that is alone becomes master, a master that hears
others gives way, a task that waits for the radio is released. Ranging: a round collects its own
answers and no others. Location: nearest anchors chosen, the last location
reported. Gateway and serial line: no buffer of a known message is lost,
characters keep their order, nobody sleeps with work to do. Web page: one
subscription per session, a role never without its location, every attempt and
every dead connection ends.

## 2. Modules

| Module | Role |
|---|---|
| `RtlsTdma` | slot admission of a whole network |
| `SlotClaims` | what admission promises under one master: exclusive, lasting claims of slots |
| `MCRtlsTdma` | networks for TLC |
| `RtlsTdma_proofs` | theorems |
| `RtlsNrng` | one tag ranging with the anchors around it, up to the reported location |
| `MCRtlsNrng` | two and three anchors for TLC |
| `RtlsNrng_proofs` | theorems |
| `RtlsCcp` | tasks, callbacks and radios of all nodes: synchronisation and election |
| `MCRtlsCcp`, `RtlsCcp_proofs` | two candidates for TLC; theorems |
| `TdmaSched` | the slot scheduler of one node |
| `SlotSchedule` | what the scheduler promises: the slots of a superframe in order |
| `TdmaSched_proofs` | theorems |
| `SerialLine` | ring buffers, interrupts and semaphore of the serial line |
| `Gateway` | the three tasks of the gateway, on top of `SerialLine` |
| `Gateway_proofs` | theorems about both |
| `WebLink` | the page, its Paho client and a broker |
| `WebLink_proofs` | theorems |
| `CommonLemmas` | remainders, induction and recursion without operator parameters, counting in sequences: the lemmas that several proofs use |

The modules meet at these points. `RtlsTdma` takes from `rtls_ccp` only who is
master, who asks for it, who hears whom and when (`HearRival`, `StepDown`,
`HuntTimeout`, `SyncSyed`, `Superframe`): `RtlsCcp` models what is behind these
actions. The slots that
`RtlsTdma` runs are those `TdmaSched` does not drop; a dropped slot is one of its
faults. `RtlsNrng` takes the slots of the anchors from `RtlsTdma`
(`ChangeSlot`). One action of `RtlsTdma` handles a slot once per superframe on every
node that takes part, and an owner sends once in it: this is what `RunOnce` of
`TdmaSched` says of a node whose packets come in time; a CCP packet that comes
early, after which a slot may run twice, is outside `RtlsTdma`. `Gateway` extends `SerialLine` and shares its variables.

### RtlsTdma

`rti[n]` is the instance of node `n`: `slot_idx`, `slot_reqt`,
`slot_reqt_cntr`, `slot_reqt_addr`, the kind of the next beacon and the table
`nodes` with one entry per slot (address, `accepted`, `available`, `timeout`,
`slot_map`). `slot` is the slot the network is in, `armed` the nodes whose
timers were set by the current superframe. `synced`, `ccp_role` and `request` are
what it knows of `rtls_ccp`: between CCP_SYNC_SYED and CCP_SYNC_LOST, the role, and
`master_role_request`. A node decides from its own flag alone whether it becomes
master, so several nodes may be master at once; it gives up the role, without any
fault, when a rival is heard with the flag clear.

All nodes handle a slot in the same time window, and within it a handler reads
only its own instance and at most one frame received, so one action is one slot
of the whole network:

| Action | Code |
|---|---|
| `RunBcnSlot` | `slot_cb` 133-152: `bcn_slot_cb_mine` for the owner (`BcnSlotMine`), `bcn_slot_cb_othr` for the rest (`BcnSlotOthr`) |
| `RunSvcSlot` | `svc_slot_cb`: a node without a slot asks (`SvcRequest`), anchors with one listen (`SvcListen`) |
| `RunRngSlot` | `slot_cb` 157-168 and `rx_complete_cb` 22-33: hearing the owner resets its time-out |
| `Superframe` | `superframe_cb` of every node that hears the CCP packet (`SuperframeCb`, its loop a recursive function of `AgeSlot`) |
| `HearRival`, `StepDown` | a CCP or request frame at a node with the role of master (`rtls_ccp.c:189-204`); the step down with both calls of `uwb_ccp_sync_cb` |
| `HuntTimeout`, `SyncSyed` | the two halves of `uwb_ccp_change_role` with CCP_SYNC_LOST and CCP_SYNC_SYED |
| `Restart` | power loss, then `rtls_tdma_start` |

A listener in range of several senders receives any one of them or none.
`Near` and `Far` say who is received with more, or less, than -95 dBm, the
threshold of lines 411 and 425. Lost frames, missed slots and superframes of a
single master, losses of the sync in spite of a running master and restarts are
faults; a node that asks for the role of master while it has a rival begins a
contest. Both spend `MaxUpsets`, which keeps the model finite. A step-down spends
nothing, nor does anything else that a contest leads to. The superframes of two
masters follow each other or coincide, in any order and with any audience; two that
overlap in part are not modelled.

### RtlsNrng

The tag's part of `nrng_instance` is `idx` (modulo `NFrames`), `seq_num`,
`frames` and `waiting` (the semaphore); an anchor's part is `lsn[n]`. `call` and
`air` are the request and the answers on their way. `nearest`, `location`,
`updated` and `reader` belong to `rtls.c`. Three ghosts, which no guard of the
code's part reads, tell rounds apart: `round` and `heard`, and `born` in each
frame. A location is represented by the round that computed it; whether four
anchors are found in the node table (`rtls_tdma_find_node`) is a free choice.

| Action | Code |
|---|---|
| `Request` | `rtls_tdma_cb`, `nrng_request`, and `nrng_listen` of the anchors |
| `HearRequest`, `HearResponse`, `HearForeign` | `rx_complete_cb` of `rtls_nrng_ss.c`, by code and addressee |
| `ListenTimeout`, `RxTimeout` | `rx_timeout_cb`; for the tag with `complete_cb` |
| `RxError` | `rx_error_cb` |
| `Read(k)` | `rtls_get_location` and `task_rtls_gateway_func`: clear the flag, read one half, read the other |
| `ChangeSlot` | what admission does to `dev_inst->slot_id` |

Left out: timestamps and the time-of-flight formula (a time of flight is a
small number from `Tof`), double-sided ranging, which the application does not
use, and the copy of the list of spheres.

### RtlsCcp

`ccp[n]` is the instance of node `n` with the place where each of its two tasks
is: `pc` of `ccp_task` (waiting for an event, in `ccp_send`, in a listen, between
two request rounds), `drv` of the driver's task, which runs the callbacks
(`"exit"` is the label of `rx_complete_cb`). `handler` is the function that
`master_slave_event` was last initialised with, which serves an event queued before
that as well: `dpl_event_init` gets no queue (601-603). It differs from `role` between
a callback and the queued change. `radio[n]` is what the radio does and the
interrupt the driver has not handled yet.

| Action | Code |
|---|---|
| `RunEvent` | `ccp_task` takes an event: `ccp_master_timer_ev_cb`, `ccp_slave_timer_ev_cb` or `uwb_ccp_change_role`, up to the next wait |
| `SendReturns`, `ListenReturns` | the rest of the two handlers after the semaphore |
| `Ask`, `RoundReturns` | the loop of request rounds in `uwb_ccp_change_role`, its end and `uwb_ccp_start` |
| `TimerIrq` | `ccp_timer_irq` |
| `Driver`, `RxExit` | `rx_complete_cb` up to and from `exit`, `tx_complete_cb`, `rx_timeout_cb`, `error_cb` |
| `Transmitted`, `RadioTimeout`, `RadioError`, `PowerOff`, `PowerOn` | radio and power |

The task of the library preempts the driver's: callbacks run only while it
waits (`Runnable`). Any subset of the nodes that do not transmit hears a frame: the
radio may be listening for another library. Clock arithmetic is left out. The
repository does not contain the port of `dpl`: the model takes from its name that
`dpl_eventq_put` does not queue an event twice. A port whose `dpl_event_init`
forgets that the event is queued would queue it a second time; that is not modelled.

### TdmaSched and SlotSchedule

Time is a counter of `Wrap` ticks. `start` holds the begin of each slot, `armed`
the timers that run, `queue` the events. Two variables are histories: `ran`, the
slots that have run in this superframe, and `steady`, that no packet has come
before the end of a superframe so far. `Fits` is what it takes for a task not to be
overloaded: the events of a superframe and the work begun before end within it,
and the last slot begins before the next packet may come.

| Action | Code |
|---|---|
| `SuperframeCb` | `superframe_cb`: sets the epoch, queues the superframe's event |
| `SlotTimerCb(i)` | `slot_timer_cb` |
| `Get`, `Judge` | `tdma_task`: takes an event; reads the clock, drops the slot or runs it |
| `Arm`, `RunEnds` | `tdma_superframe_slot_cb`, one slot at a time; the end of a slot's callback |

`SlotSchedule` has one variable, `ran`: a superframe empties it, a slot is
appended when it is not earlier than the last one and has not run twice.

### SerialLine and Gateway

A pend on the mutex of a ring does not keep an interrupt out, so the task's
`rbuf_put` and `rbuf_get` are split where they touch what the handler touches:
store and head, comparison, `full` (`TaskStore`, `TaskSetFull`), and read and
tail, `full` (`TaskTake`, `TaskClearFull`). Characters are numbers in the order of
the line; 0 is memory that was never written.

| Action | Code |
|---|---|
| `Receive`, `Irq` | `serial_rx_char`; `serial_tx_char` and `serial_tx_done` |
| `DlPend`, `DlGet`, `DlClear`, `DlParse` | `serial_read` and the body of `task_downlink_func`: the character may complete a message |
| `MeshRun`, `MeshLoop` | `task_rtls_func`, `process_net_to_ble_queue` |
| `Status(kind)` | `rtls_model_status` puts a message of the mesh in the other queue |
| `UlRun`, `UlLoop`, `UlPut`, `UlCompare`, `UlSetFull`, `UlStart` | `task_uplink_func`, `process_ble_to_net_queue`, `serial_write` |

### WebLink

The variables are the fields of the Paho client that the page's use of it
reaches (`connected`, `socket`, `connectOptions.mqttVersion`, `_connectTimeout`,
`sendPinger`, the number of `_sentMessages`), the two directions of the
connection, and a broker that may refuse, stop and start.

| Action | Code |
|---|---|
| `SocketOpen`, `SocketClose` | `_on_socket_open`, `_on_socket_error`, `_on_socket_close` |
| `Connack`, `Refused`, `Suback`, `Pingresp`, `Publish` | `_handleMessage`, `onConnect` and `onMessageArrived` of the page |
| `ConnectTimeout`, `Ping` | `_connectTimeout` of `_doConnect`, `Pinger.doPing` |
| `Update` | `onUpdateBtnClick`: location and role of a node |
| `Serve`, `Forward`, `LinkFails`, `BrokerStops`, `BrokerStarts` | broker and connection |

## 3. Runs

| Run | Instance | Checks | States |
|---|---|---|---|
| `tdma_live` | two anchors, a tag, no upsets, fair | `SlotRegion`, `EveryoneJoins`, `ClaimsSpec` | 11 thousand |
| `tdma_upsets` | three anchors, shortest time-outs, one upset | `TypeOK`, `NewcomersInformed`, `JoinedAnchorsAccepted`, `JoinsUnderGrant` | 2.1 million |
| `tdma_collision` | four anchors, no upsets | `NoCollision` is violated | |
| `tdma_consent` | three anchors, a tag, no upsets | `ConsentMeansSlot` is violated | |
| `nrng_ring` | two anchors, overlapping windows, four rounds | `RangesCurrent`, `FreshUntilWrap` | 73 thousand |
| `nrng_report` | three anchors, one reader, fair | `TypeOK`, `NearestChosen`, `LastReported`, `LocationReported` | 76 thousand |
| `ccp` | two candidates, one of them relays, one fault, fair | `TypeOK`, `TakenWhileWaiting`, `CycleAlive`, `HandlerFollowsRole`, `OneWayToBlock`, `TakesOver`, `MasterYields` | 631 thousand |
| `ccp_wait` | two candidates | `WaitEnds` is violated | |
| `ccp_yield` | two candidates | `YieldsAtOnce` is violated | |
| `tdma_sched` | superframe and three slots, clock of 78 ticks | `TypeOK`, `RunOnce`, `ScheduleSpec` | 1.2 million |
| `gateway` | rings of 2, pools of 2, four inputs, fair | `TypeOK`, `CharsAnnounced`, `GarbageOnlyAfterFull`, `NobodySleeps`, `ReadInOrder`, `NothingLeftOut`, `EverythingSent`, `BuffersReturn` | 314 thousand |
| `weblink` | three updates, four faults, fair | `TypeOK`, `SubscribedOnce`, `RoleAfterLocation`, `DeadLinkNoticed`, `AttemptEnds`, `GivesUpLast` | 22 thousand |

**Bounds.** Time-outs of one or two superframes instead of 5 and 10: each is
counted up once per superframe and compared once, so a smaller limit only makes
the race between expiry and answer shorter; `AnchorTimeout` 1 is the tightest
that lets a beacon arrive in time. Three or four beacon slots and one or two
ranging slots leave room for a free, a wanted and a taken slot. All properties of
`tdma_upsets`, and `SlotRegion`, are theorems (section 5), for any number of nodes,
faults and contests: the bound of one upset only makes them cheap to try. The bounds
that matter are those of `EveryoneJoins` and `ClaimsSpec`: two anchors, a tag, one
master and no faults; what happens without them is told below. Two upsets, or a tag in
addition, take the model beyond ten million states; the same anchors in a line whose
ends receive each other below the threshold pass as well (6.2 million states). In
`nrng_ring` the ring of 6 with windows of 4 has the shape of the real 32 and
14: windows overlap, do not divide the ring, and coincide again when `seq_num`
wraps; 3 sequence numbers and 4 rounds reach the wrap. `MaxMoves = 1` lets one
anchor change or lose its slot. `nrng_report` has more anchors than a location
takes, equal distances, and three rounds, so that a reader may lag behind.

In `ccp` both nodes are candidates, so that each may ask for the role, win it,
hear the other and lose it, and both may be master at once. One request round is
enough for a request whose transmission ends only when the next listen or send holds
the semaphore; with two rounds everything holds as well (1.4 million states). One
fault is a radio that does not start, an error or a loss of power at any point. Frames are still lost without limit. In `tdma_sched` the task may
be kept busy longer than `TDMA_MAX_SLOT_DELAY_US` (`MaxBusy` 2, `MaxDelay` 1) and
for half a slot, so that slots are dropped, also while all packets are in time, and
after an early packet events of two superframes meet in the queue. Four slots of
four ticks leave room for such a task (`Fits`: 14 of 16 ticks); in a shorter
superframe the premise of `RunOnce` would be false. 78 ticks are
the shortest clock that satisfies `MarginAssumption` with these times: on a clock
without that margin TLC finds events that come round again. A ring of two characters is
empty, half full and full, and wraps; four inputs overflow it and the pool
(`MaxInputs = 5` passes as well). Four faults let the page lose, be refused and
lose again its connection with both versions of the protocol.
`CHECK_DEADLOCK FALSE` stands where a bound on rounds, inputs or updates stops
the model, and in `ccp` because the system itself may stop: two
masters that have heard each other may both wait in `ccp_send` for an end of
transmission that is not reported to them any more (`ccp_wait`).

**What TLC explored beyond the runs.** `NoCollision` holds for three anchors and a
tag without a fault, but fails with one fault (the lock of an anchor survives its
step-down), and without any fault for two anchors and two tags (the entry of a
granted ranging slot expires before the tag is heard, line 369); it is not claimed.
`EveryoneJoins` does not hold for three anchors and a tag: two acceptors may lock for
different requesters again and again, and nothing in the code breaks the tie.
Nor does it hold with one fault, for two anchors and `AnchorTimeout` 1:
`superframe_cb` ages the entry of the own slot too (211-215), and `bcn_slot_cb_mine`
resets its time-out but not its map. A master whose own beacon slot is dropped more
than `RT_ANCHOR_TIMEOUT` times in a row clears its map (96-101), and its own bit
never comes back although it keeps its slot: firmware.tex:609 says that joined anchors have a list of the occupied
slots. A newcomer that knows nobody else then wants slot 1, which to it means
that no anchor is available (580-581), and never asks.
`ClaimsSpec` fails as soon as the master changes: the request that survives the
change may be answered by a refusal to a node that has a slot by then, which gives
it up (`tdma_consent`). Or a node becomes master with a request of its time as a
slave still pending, which `uwb_ccp_sync_cb` does not clear (174-186): an acceptance of
it moves the master to the slot it had asked for (448-456; TLC finds this in the
network of `tdma_upsets` with two upsets), although firmware.tex:598 says that the
master occupies beacon slot 1. A tag joins in the middle of `superframe_cb` only after
a fault; `LateJoinsAccepted`, what it may rely on then, is proved and in no run.
`NewcomersInformed` speaks of nodes whose entry 0 is
untouched: a refusal taken for an acceptance enters the node there.

Two candidates may both give up when each hears the other's last request, and two
masters whose frames always collide never hear each other: `TakesOver` speaks of a
candidate that is left alone and not stuck, `MasterYields` of one that hears others.

"No slot runs twice" is false of the scheduler as such: after an early CCP packet
the old event of a slot may be judged by the new begin, and its timer queues it
again. The same happens with packets in time when a slot's work does not end within
the superframe (three slots of three ticks and `MaxBusy` 2). `SlotSchedule`
therefore allows a second run; a third never happens. With both premises, `steady`
and `Fits`, the claim is `RunOnce`.

The grant of a beacon slot is sound when it is given (`JoinsUnderGrant`, also with
faults and contests): the giver does not know the slot and keeps it for the
new owner. What `tdma_collision` shows goes wrong before and after it: the other
acceptors, whose consent was counted earlier, have forgotten the request by then.

In the ring of frames an answer of 256 rounds ago counts as a current one when
`seq_num` has wrapped (`rtls_nrng.c:302`), and `start_slot_id` has 14 bits
(`slots.h:58`) for the slots 1 to 14 of `slot_mask`: the anchor of slot 14 never
answers. In `rbuf` an interrupt between the store of `head` and the comparison
(`rbuf.c:31-32`) leaves an empty ring marked full, and the transmitter sends its
old content once more; one between `tail` and `full` (45-46) turns a full
receive ring into an empty one. `NothingLeftOut` and `ReadInOrder` say what is
kept; `ReadInOrder` does not see the same character read twice in a row. A message
of an unknown id costs the gateway an mbuf for good: the model has this leak, and
`BuffersReturn` speaks of the other mbufs. The page
logs "Reconnecting..." (`index.html:119`) at every loss, but when the attempts
with both versions have failed nobody tries again (`GivesUpLast`).

### Disagreements

* `tdma_collision`: firmware.tex:609 claims that an anchor never sees two
  anchors in one slot. Acceptors forget a request after a time-out, the
  requester keeps the acceptances.
* `tdma_consent`: a refusal (slot 0) is taken for an acceptance by a node
  whose request was cleared, and it loses its slot while everybody accepts it;
  it then listens as if it had one and never asks again.
* `ccp_wait`: `ccp_send` waits "for completion of transactions" (rtls_ccp.c:505)
  without a time-out. A master that has just heard another one serves an event that
  its timer had queued before the change of role, sends, and `tx_complete_cb` does
  not report the end to a node that is no master any more (365). Only a CCP frame of
  another node ends the wait; two masters may both be in it.
* `ccp_yield`: firmware.tex:177 says that a master that hears another node turns
  into a slave immediately. The flag of its own request stays set when it becomes
  master, and the first packet only clears it.

## 4. Fairness

`RunSlot` is weakly fair: slots run on hardware timers. `SyncSyed` is weakly
fair: `uwb_ccp_change_role` ends after a bounded number of request rounds. An
anchor without a master runs into its threshold of missed packets (`Hunt`). Two
requesters that always ask in the same service slot collide; that an acceptor
decodes one of them if it happens again and again (`SF HearsRequest`) is an
assumption about the radio, not about the code, which has no back-off: without
it `EveryoneJoins` fails. Nothing is assumed about `HearRival` and `StepDown`: a
contest may be decided or not, and `EveryoneJoins` has a lasting master as its
premise. The reporting tasks are periodic, so `Read(k)` is weakly fair; nothing is
assumed of the radio in `RtlsNrng`.

`RtlsCcp`: `ccp_task` and the driver's task are scheduled, the timer fires, and a
transmission or a reception with a time-out ends. Nothing is assumed about who
hears whom; `MasterYields` has the hearing as its premise, `TakesOver` that the node
is alone and not in a wait that nothing ends. `Gateway`: the three
tasks block between two messages, so each of them runs, and a running
transmitter interrupts. `WebLink`: the browser delivers the events of the socket and its
timers; nothing is assumed of the broker or of the network. `TdmaSched` has safety
properties only.

## 5. Proofs

**Slot admission** (`RtlsTdma_proofs`).
For every set of nodes, slot layout, pair of relations `Near` and `Far`, limit
of time-outs, number of faults and of contests (assumptions: `NodeAssumption`,
`SlotAssumption`, `BoundAssumption`, `RadioAssumption`):

* `TypeCorrect`: `Spec => []TypeOK`.
* `RegionSafe`: `Spec => []SlotRegion`.
* `ConsentSafe`: `Spec => []JoinedAnchorsAccepted`.
* `NewcomersSafe`: `Spec => []NewcomersInformed`.
* `GrantSafe`: `Spec => JoinsUnderGrant`.
* `LateJoinsSafe`: `Spec => LateJoinsAccepted`.

`SlotRegion` is not inductive: a node joins whatever `slot_reqt` holds when the
last acceptance arrives, and that field also stores the lock of somebody else's
request. The invariant `IInv` adds what keeps the two apart: an anchor may
hold the lock of a ranging slot only for a tag (`InstanceInv`), and therefore an
acceptance addressed to an anchor never names a ranging slot (`FrameInv`, proved
of every frame a sound instance sends). `JoinedAnchorsAccepted` needs that
adopting a new anchor marks it accepted whenever the own slot is kept, and that
expiry only shrinks the set of known anchors; only an anchor is ever master.
There is one lemma per handler (it keeps `InstanceInv` and `ConsentInv`), one
per slot kind (the whole network keeps `IInv`), and `NextStep` combines them.
`NewcomerInv` is the third part: a handler that enters an anchor in the table of a
node without a slot also puts its slot in the map of entry 0, and a removal takes
both away.
`FirstOfMember` replaces an induction: the least free slot exists because strict
inclusion of finite sets is well-founded.

The loop of `superframe_cb` is a recursive function of the slots passed; what it keeps
is proved by induction over them (`AllNaturals`). For `LateJoinsSafe` the invariant
of the loop is that the node either has its old slot, or the requested one and the
consent of every anchor still in the table: an iteration after the join can only take
anchors out, or join the same slot again.

`GrantSafe` follows a slot from the giver to the taker. `JoinsByAcpt`: in another
node's beacon slot a node changes its own slot only for the one that an acceptance
addressed to it names, because that is compared with what its own `slot_reqt` holds,
be it its request or a lock. `GrantKept`: a frame that names a slot to
an addressee comes from an owner whose map lacks the slot, and after sending it the
owner still has the lock or has entered the addressee. `GrantStep` joins the two by
the frame that was received.

That `RtlsTdma` implements `SlotClaims` is model-checked in `tdma_live` only, and
cannot be proved: it fails in larger networks, see `tdma_collision`.

**Synchronisation and election** (`RtlsCcp_proofs`), for every set of nodes,
candidates and relays, number of rounds and faults: `TypeCorrect`, `TakenSafe`
(`TakenWhileWaiting`), `CycleSafe` (`CycleAlive`), `HandlerSafe`
(`HandlerFollowsRole`) and `BlocksOnlySo` (`OneWayToBlock`). `InstanceInv` says of one
node which values of semaphore, timer, queue, role and handler go with each place of
its tasks; `RadioInv` that a frame on the air comes from somebody. `BlocksOnlySo` is
about single steps from there: `SoundInv` says which operation or interrupt will end
the wait of a node, every action keeps it at every node (`StaysSound`, beside the
invariant in the lemma of each action), and a send begins unsoundly only when the
handler of a master runs in a slave, from the timer's event (`Stale`).

**Serial line and gateway** (`Gateway_proofs`), for every size of the rings and
pools: `TypeCorrect`, `AnnouncedSafe`, `GarbageSafe`, `OrderSafe`, `SentSafe`. The
invariant has a part for each promise: `MbufInv` (each mbuf is in its pool, in
the queue, in the hands of a task or lost), `TokenInv` (what the receive ring
holds never exceeds the tokens), `OrderInv` (the ring is in order and newer than
what was read) and `SendInv` (what the transmitter will send next, also from a
ring that is wrongly marked full). Modular arithmetic on the indices is confined to
lemmas about `Following`. `SleepSafe` (`NobodySleeps`) is the safety that
`BuffersReturn` and `EverythingSent` rest on, beside fairness: `WakeInv` says that a
queue that is not empty has its event or its task at work, and that a transmitter
that has stopped found its ring empty; with `MbufInv` and `SendInv` this gives the
counts of free mbufs and of characters sent.

**Slot scheduler** (`TdmaSched_proofs`), for any number of slots: `TypeCorrect`,
`ScheduleSafe`, the refinement `Spec => ScheduleSpec`, and `RunOnceSafe`
(`RunOnce`). Two invariants carry the first two.
`TwiceInv` counts the chances of a slot (it has run, its event waits, the task has
just taken it, its timer runs) and bounds them by two: hence no third run.
`TimeInv` says that there are unwrapped times behind the 32-bit numbers, in which
epoch, slot begins and clock are ordered and none that may still be judged is
older than half the counter: hence a comparison modulo `Wrap` decides as the true
times would, and slots run in their order. How old an event may get is bounded by
`Load`: each event before it keeps the task for `MaxBusy` at most, and superframe and
timers queue each event once. The bound is `MarginAssumption`:

* `MaxDelay < SlotTicks` (500 us against 6553 us in `apps/rtls`, the shortest slot of
  the applications): otherwise two slots could be on time at once;
* `2 * IrqDelay <= NSlots * SlotTicks` and twice a superframe in the counter: the
  callback follows its packet within half a superframe (131 ms or more), and 2^32
  ticks are more than an hour even at 1 MHz;
* `IrqDelay + Latency + 2 * (2 * NSlots + 1) * MaxBusy < Wrap / 2`: with 20 slots an
  event may take 26 seconds. Slot callbacks end within their slot or by the
  time-out of a listen.

`RunOnce` needs more: `OnceInv` adds, while `Fits /\ steady`, that a slot has one
chance instead of two (`OneEach`: when the superframe's event is queued it is the
last, and no timer runs), and that the unwrapped times are near each other
(`Timely`: the event of a superframe waits for the load of one superframe at most,
and timers do not lie beyond the last slot). The two hold each other up: as the
load fits, the next packet, a superframe later, finds the timers expired and the
task past the event of the packet before (`PacketComes`); as nothing is left over,
the load in front of its event is that of one superframe again.

**Ranging** (`RtlsNrng_proofs`), for every set of anchors, ring and number of
rounds: `TypeCorrect`, `CurrentSafe` (`RangesCurrent`, if the windows of all sequence
numbers fill the ring a whole number of times: (256 * 14) % 32 = 0), `FreshSafe`
(`FreshUntilWrap`, for any ring), `ReportSafe` (`LastReported`) and `NearestSafe`
(`NearestChosen`, an action property). `RingInv` says that `idx` is determined by the
round, and that a FINAL frame lies where its round and index put it; so two frames
meet only if their rounds have the same window, and the comparison of `seq_num`
decides the rest. The congruences are proved from division with remainder
(`Congruent`, `SameBase`). `SourceInv` adds that an anchor answers a round once:
without it the loop of `complete_cb`, which tells equal distances apart by address,
would skip a range. The invariant of that loop is `NearestFirst`: after `k` rounds the
chosen ranges are distinct and sorted, none that is left is nearer, and there are `k`
of them or no others.

**Web page** (`WebLink_proofs`), for any number of updates and faults:
`TypeCorrect`, `SubscribedSafe` (`SubscribedOnce`), `RoleSafe` (`RoleAfterLocation`),
`GivesUpSafe` (`GivesUpLast`) and `WatchedSafe`, the safety that `AttemptEnds` and
`DeadLinkNoticed` rest on: an attempt always has its timeout, a connection its pinger,
and no timeout of an attempt outlives it. `Ordered` describes what is on its way to the broker:
locations ascend, and a role follows its location. `SubscribedOnce` is not inductive:
`SessionInv` adds that a session has one CONNECT or its answer and nothing of them
once the page is connected, so that a second CONNACK cannot subscribe again, and
that a socket that is not open holds no message of an earlier session.

**Induction over data.** The theorems of the library take an operator as a
parameter, which the installed provers cannot instantiate. `CommonLemmas` states
induction of sets instead (`AllNaturals`: a set of naturals that holds 0 and all
successors is `Nat`) and recursion of functions of a set (`Recursion`), both from
the well-foundedness of strict inclusion among finite sets. The two loops above
are recursive functions, and so within reach.

Only model-checked: liveness (`EveryoneJoins`, `LocationReported`, `TakesOver`,
`MasterYields`, `EverythingSent`, `BuffersReturn`, `DeadLinkNoticed`,
`AttemptEnds`), which is out of the prover's reach, and the refinement `ClaimsSpec`,
which holds under the bounds of `tdma_live` only.

## 6. Not modelled, and why

* The receive buffer that `rtls_tdma_slot_listen` may leave stale when the radio
  does not start, and the early returns when `calloc` fails: a frame of the
  model lives in its slot only.
* Superframes of two masters that overlap in part.
* `MeshLoop` and `DlParse` take, use and free an mbuf in one step: nobody else has it
  in between. The buffer for an incomplete message in `_deframeMessages` of the Paho
  client is left out: `WebLink` has whole messages only.
* The list of spheres and the persistent configuration of `rtls.c`: a later
  round overwrites the spheres of an announced location (306), and a reset
  between two of the three saves leaves a mixed position (156). The code has
  nothing that prevents either, so there is no property to keep.
* The gateway daemon: its threads share `self.mav` without any protocol, and
  the code promises nothing about their interleavings.
* Trilateration and the codec: arithmetic and packing without control.
* The widgets of the web page, and those parts of the Paho client that the page
  does not use (QoS 1 and 2, automatic reconnection, the message store).
* Vendored code (Bootstrap, Font Awesome, Plotly, MAVLink headers, libraries),
  which is most of the repository's text, and demos, sniffer, relay, button and web server:
  no logic of this system that could be checked. The share of JavaScript lines
  that the models stand for is small for this reason: of the JavaScript in the
  repository only the Paho client takes part in the system.

## 7. Plan

1. Done: `RtlsTdma`, `SlotClaims`, `RtlsNrng`, `RtlsCcp`, `TdmaSched`,
   `SerialLine`, `Gateway`, `WebLink` and the proofs of section 5.
2. Proofs: a bound on how long an acceptor may have forgotten a request that its
   requester still counts, as a number of superframes; from it premises on the
   time-outs under which `NoCollision` could be a theorem.
3. `WebLink`: the other requests of the page.
4. The persistent configuration, once the code saves a position as a whole.
