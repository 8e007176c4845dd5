------------------------------ MODULE WebLink -------------------------------
(***************************************************************************)
(* The link of the web page to the broker: the page of                     *)
(* software/linux/web-server/home/templates/home/index.html with the Paho  *)
(* client it loads (paho-mqtt.js), over a web socket that closes or goes   *)
(* dead.  The page passes connect no option but onSuccess: a clean session,*)
(* no automatic reconnection, MQTT 3.1.1 with the fall back to 3.1; all    *)
(* its messages have QoS 0.                                                *)
(*                                                                         *)
(* Each handler runs to its end: an event of the socket, a timer, a click. *)
(* The broker is external.                                                 *)
(***************************************************************************)
EXTENDS Integers, Sequences, FiniteSets

CONSTANTS
  MaxUpdates,    \* bound on the clicks on Update
  MaxFaults,     \* bound on the faults of link and broker
  MaxFlight      \* bound on the messages on their way to the page

ASSUME BoundAssumption == {MaxUpdates, MaxFaults, MaxFlight} \subseteq Nat

VARIABLES
  connected,     \* ClientImpl.connected
  socket,        \* ClientImpl.socket: "none", "connecting" or "open"
  version,       \* connectOptions.mqttVersion
  connTimer,     \* _connectTimeout runs
  pinger,        \* sendPinger: "off", or its timer runs and isReset is true
                 \* ("reset") or false ("pinged")
  sent,          \* number of _sentMessages, all of them SUBSCRIBEs
  link,          \* the socket's connection: "ok", "closed" or, unnoticed, "dead"
  toBroker,      \* messages on their way to the broker
  toPage,        \* messages on their way to the page
  serving,       \* the broker runs
  subscriptions, \* SUBSCRIBEs the broker has handled in this session
  updates,       \* clicks on Update so far
  gotLocation,   \* history: the latest update whose LOCATION the broker has
  gotBlink,      \* history: the latest update whose BLINK the broker has
  faults         \* faults so far

client == <<connected, socket, version, connTimer, pinger, sent>>
net == <<link, toBroker, toPage>>
broker == <<serving, subscriptions, gotLocation, gotBlink>>
vars == <<client, net, broker, updates, faults>>

Msg(type) == [type |-> type, update |-> 0]

-----------------------------------------------------------------------------
(* Operations of the client. *)

(* What is sent over a connection that is lost vanishes. *)
Flight(msgs) == IF link = "ok" THEN toBroker \o msgs ELSE toBroker

(* _socket_send: having sent something resets the pinger. *)
SocketSend(msgs) ==
  /\ toBroker' = Flight(msgs)
  /\ pinger' = "reset"

(* Client.connect and _doConnect *)
Connect(v) ==
  /\ connected' = FALSE
  /\ socket' = "connecting" /\ link' = "ok"
  /\ toBroker' = <<>> /\ toPage' = <<>> /\ subscriptions' = 0
  /\ version' = v
  /\ connTimer' = TRUE /\ pinger' = "off"
  /\ UNCHANGED sent

GiveUp ==
  /\ socket' = "none" /\ link' = "closed"
  /\ toBroker' = <<>> /\ toPage' = <<>> /\ subscriptions' = 0
  /\ connTimer' = FALSE /\ pinger' = "off"
  /\ UNCHANGED <<connected, version, sent>>

(* Mutant of Disconnected: there is no second version to try. *)
DisconnectedOnce ==
  IF connected THEN Connect(4) ELSE GiveUp

(* _disconnected with an error.  The page's onConnectionLost connects anew.  *)
(* An attempt that fails is followed by one with the older version; the page *)
(* gives no onFailure, and nobody tries again after that one.                *)
Disconnected ==
  IF connected THEN Connect(4)
  ELSE IF version = 4 THEN Connect(3)
  ELSE GiveUp

-----------------------------------------------------------------------------
(* Events of the socket. *)

(* Mutant of SocketOpen: the attempt counts as done when the socket is open. *)
SocketOpenStops ==
  /\ socket = "connecting" /\ serving
  /\ socket' = "open"
  /\ SocketSend(<<Msg("CONNECT")>>)
  /\ connTimer' = FALSE
  /\ UNCHANGED <<connected, version, sent, link, toPage, broker, updates, faults>>

SocketOpen ==
  /\ socket = "connecting" /\ serving
  /\ socket' = "open"
  /\ SocketSend(<<Msg("CONNECT")>>)
  /\ UNCHANGED <<connected, version, connTimer, sent, link, toPage, broker,
                 updates, faults>>

(* _on_socket_error, _on_socket_close *)
SocketClose ==
  /\ \/ socket = "connecting" /\ ~serving
     \/ socket = "open" /\ link = "closed" /\ toPage = <<>>
  /\ Disconnected
  /\ UNCHANGED <<serving, gotLocation, gotBlink, updates, faults>>

(* The next message of _on_socket_message is of this type. *)
Handle(type) ==
  /\ socket = "open" /\ toPage # <<>> /\ Head(toPage).type = type

(* Mutant of Connack: the state of an earlier session is not cleared. *)
ConnackKeeps ==
  /\ Handle("CONNACK")
  /\ toPage' = Tail(toPage)
  /\ connTimer' = FALSE
  /\ connected' = TRUE
  /\ sent' = sent + 1
  /\ SocketSend([i \in 1 .. sent + 1 |-> Msg("SUBSCRIBE")])
  /\ UNCHANGED <<socket, version, link, broker, updates, faults>>

(* A clean session forgets the messages of an earlier one; onConnect of the  *)
(* page subscribes.                                                          *)
Connack ==
  /\ Handle("CONNACK")
  /\ toPage' = Tail(toPage)
  /\ connTimer' = FALSE
  /\ connected' = TRUE
  /\ sent' = 1
  /\ SocketSend(<<Msg("SUBSCRIBE")>>)
  /\ UNCHANGED <<socket, version, link, broker, updates, faults>>

(* A refusal ends the attempt. *)
Refused ==
  /\ Handle("REFUSED")
  /\ Disconnected
  /\ UNCHANGED <<serving, gotLocation, gotBlink, updates, faults>>

Suback ==
  /\ Handle("SUBACK")
  /\ toPage' = Tail(toPage)
  /\ sent' = 0
  /\ UNCHANGED <<connected, socket, version, connTimer, pinger, link, toBroker,
                 broker, updates, faults>>

Pingresp ==
  /\ Handle("PINGRESP")
  /\ toPage' = Tail(toPage)
  /\ pinger' = "reset"
  /\ UNCHANGED <<connected, socket, version, connTimer, sent, link, toBroker,
                 broker, updates, faults>>

(* onMessageArrived of the page catches every error of its handlers. *)
Publish ==
  /\ Handle("PUBLISH")
  /\ toPage' = Tail(toPage)
  /\ UNCHANGED <<client, link, toBroker, broker, updates, faults>>

-----------------------------------------------------------------------------
(* Timers. *)

ConnectTimeout ==
  /\ connTimer
  /\ Disconnected
  /\ UNCHANGED <<serving, gotLocation, gotBlink, updates, faults>>

(* The interval of 60 s is longer than the connect timeout of 30 s and than  *)
(* any exchange over a connection that works.                                *)
PingDue ==
  /\ pinger # "off" /\ ~connTimer
  /\ link = "ok" => toBroker = <<>> /\ toPage = <<>>

(* Mutant of Ping: PINGREQ is sent like all other messages. *)
PingResets ==
  /\ PingDue
  /\ SocketSend(<<Msg("PINGREQ")>>)
  /\ UNCHANGED <<connected, socket, version, connTimer, sent, link, toPage, broker>>
  /\ UNCHANGED <<updates, faults>>

(* doPing *)
Ping ==
  /\ PingDue
  /\ \/ /\ pinger = "pinged"
        /\ Disconnected
        /\ UNCHANGED <<serving, gotLocation, gotBlink>>
     \/ /\ pinger = "reset" /\ pinger' = "pinged"
        /\ toBroker' = Flight(<<Msg("PINGREQ")>>)
        /\ UNCHANGED <<connected, socket, version, connTimer, sent, link, toPage, broker>>
  /\ UNCHANGED <<updates, faults>>

-----------------------------------------------------------------------------
(* Mutant of Update: the role is published first. *)
UpdateRoleFirst ==
  /\ updates < MaxUpdates /\ updates' = updates + 1
  /\ IF connected
     THEN SocketSend(<<[type |-> "BLINK", update |-> updates + 1],
                       [type |-> "LOCATION", update |-> updates + 1]>>)
     ELSE UNCHANGED <<toBroker, pinger>>
  /\ UNCHANGED <<connected, socket, version, connTimer, sent, link, toPage, broker,
                 faults>>

(* onUpdateBtnClick of a node in editing mode: without a connection the      *)
(* first send throws, and the click has no effect.                           *)
Update ==
  /\ updates < MaxUpdates /\ updates' = updates + 1
  /\ IF connected
     THEN SocketSend(<<[type |-> "LOCATION", update |-> updates + 1],
                       [type |-> "BLINK", update |-> updates + 1]>>)
     ELSE UNCHANGED <<toBroker, pinger>>
  /\ UNCHANGED <<connected, socket, version, connTimer, sent, link, toPage, broker,
                 faults>>

-----------------------------------------------------------------------------
(* The broker and the connection. *)

Answer(type) ==
  CASE type = "CONNECT" -> {<<Msg("CONNACK")>>, <<Msg("REFUSED")>>}
    [] type = "SUBSCRIBE" -> {<<Msg("SUBACK")>>}
    [] type = "PINGREQ" -> {<<Msg("PINGRESP")>>}
    [] OTHER -> {<<>>}

Serve ==
  /\ serving /\ link = "ok" /\ toBroker # <<>>
  /\ LET m == Head(toBroker) IN
     /\ \E answer \in Answer(m.type) :
          /\ toPage' = toPage \o answer
          /\ faults' = IF answer = <<Msg("REFUSED")>> THEN faults + 1 ELSE faults
     /\ subscriptions' = IF m.type = "SUBSCRIBE" THEN subscriptions + 1 ELSE subscriptions
     /\ gotLocation' = IF m.type = "LOCATION" THEN m.update ELSE gotLocation
     /\ gotBlink' = IF m.type = "BLINK" THEN m.update ELSE gotBlink
  /\ faults' <= MaxFaults
  /\ toBroker' = Tail(toBroker)
  /\ UNCHANGED <<client, link, serving, updates>>

(* A message of the topic that the page has subscribed to. *)
Forward ==
  /\ serving /\ link = "ok" /\ subscriptions > 0
  /\ Len(toPage) < MaxFlight
  /\ toPage' = Append(toPage, Msg("PUBLISH"))
  /\ UNCHANGED <<client, link, toBroker, broker, updates, faults>>

(* A connection fails: what is on its way is lost, from some message on.     *)
Fail(state) ==
  /\ link' = state
  /\ toBroker' = <<>>
  /\ \E n \in 0 .. Len(toPage) : toPage' = SubSeq(toPage, 1, n)

(* The socket notices a connection that is closed, but not a dead one. *)
LinkFails ==
  /\ faults < MaxFaults /\ faults' = faults + 1
  /\ socket = "open" /\ link = "ok"
  /\ \E state \in {"closed", "dead"} : Fail(state)
  /\ UNCHANGED <<client, broker, updates>>

BrokerStops ==
  /\ faults < MaxFaults /\ faults' = faults + 1
  /\ serving /\ serving' = FALSE
  /\ IF socket = "open" /\ link = "ok"
     THEN Fail("closed")
     ELSE UNCHANGED net
  /\ UNCHANGED <<client, subscriptions, gotLocation, gotBlink, updates>>

BrokerStarts ==
  /\ ~serving /\ serving' = TRUE
  /\ UNCHANGED <<client, net, subscriptions, gotLocation, gotBlink, updates, faults>>

-----------------------------------------------------------------------------
Init ==
  /\ connected = FALSE /\ socket = "connecting" /\ version = 4
  /\ connTimer = TRUE /\ pinger = "off" /\ sent = 0
  /\ link = "ok" /\ toBroker = <<>> /\ toPage = <<>>
  /\ serving \in BOOLEAN /\ subscriptions = 0
  /\ updates = 0 /\ gotLocation = 0 /\ gotBlink = 0
  /\ faults = 0

Received == Connack \/ Refused \/ Suback \/ Pingresp \/ Publish

Next ==
  \/ SocketOpen \/ SocketClose \/ Received
  \/ ConnectTimeout \/ Ping
  \/ Update
  \/ Serve \/ Forward
  \/ LinkFails \/ BrokerStops \/ BrokerStarts

Spec == Init /\ [][Next]_vars

(* Timers fire and the events of the socket are handled; of the broker       *)
(* nothing is assumed.                                                       *)
FairSpec ==
  /\ Spec
  /\ WF_vars(SocketClose) /\ WF_vars(Received)
  /\ WF_vars(ConnectTimeout) /\ WF_vars(Ping)

-----------------------------------------------------------------------------
(* Properties. *)

Message ==
  [type : {"CONNECT", "CONNACK", "REFUSED", "SUBSCRIBE", "SUBACK", "PINGREQ",
           "PINGRESP", "PUBLISH", "LOCATION", "BLINK"},
   update : 0 .. MaxUpdates]

(* How many messages of a sequence have one of these types. *)
Count(q, types) == Cardinality({k \in DOMAIN q : q[k].type \in types})

TypeOK ==
  /\ connected \in BOOLEAN /\ connTimer \in BOOLEAN /\ serving \in BOOLEAN
  /\ socket \in {"none", "connecting", "open"}
  /\ version \in {3, 4}
  /\ pinger \in {"off", "reset", "pinged"}
  /\ sent \in 0 .. 1
  /\ link \in {"ok", "closed", "dead"}
  /\ toBroker \in Seq(Message) /\ toPage \in Seq(Message)
  /\ subscriptions \in 0 .. 1
  /\ updates \in 0 .. MaxUpdates
  /\ gotLocation \in 0 .. MaxUpdates /\ gotBlink \in 0 .. MaxUpdates
  /\ faults \in 0 .. MaxFaults

(* A page that is connected has asked for its topic exactly once in this     *)
(* session, however many sessions were lost with a SUBSCRIBE unanswered:     *)
(* CONNACK clears _sentMessages and onConnect subscribes.                    *)
SubscribedOnce ==
  connected /\ link = "ok" => subscriptions + Count(toBroker, {"SUBSCRIBE"}) = 1

(* The role of an update never arrives without its location: the node saves  *)
(* the role and resets.  Both are sent in one click, over one connection.    *)
RoleAfterLocation == gotBlink <= gotLocation

(* A connection that goes dead without an event is noticed by the pinger,    *)
(* unless it is a page that keeps publishing.                                *)
DeadLinkNoticed == connected /\ link = "dead" ~> link # "dead"

(* An attempt to connect comes to an end: CONNACK, or the error of the       *)
(* socket, or the timeout of _doConnect.                                     *)
AttemptEnds == socket # "none" /\ ~connected ~> connected \/ socket = "none"

(* The page stops trying only after the attempts with both versions have     *)
(* failed; a connection that is lost is always followed by an attempt.       *)
GivesUpLast ==
  [][socket' = "none" => socket = "none" \/ (~connected /\ version = 3)]_<<socket>>
=============================================================================
