--------------------------- MODULE WebLink_proofs ---------------------------
(* Theorems about WebLink, for any number of clicks and faults.              *)
EXTENDS WebLink, CommonLemmas

(* On their way to the broker locations are ordered, later than the last one *)
(* it has, and the role of an update comes after its location.               *)
Ordered(q, loc, last) ==
  /\ \A i \in DOMAIN q : q[i].update <= last
  /\ \A i \in DOMAIN q : q[i].type = "LOCATION" => loc <= q[i].update
  /\ \A i, j \in DOMAIN q : i < j /\ q[i].type = "LOCATION" /\ q[j].type = "LOCATION" =>
       q[i].update <= q[j].update
  /\ \A i \in DOMAIN q : q[i].type = "BLINK" =>
       \/ q[i].update <= loc
       \/ \E j \in DOMAIN q : j < i /\ q[j].type = "LOCATION" /\ q[j].update = q[i].update

OrderInv ==
  /\ version \in {3, 4}
  /\ toBroker \in Seq(Message)
  /\ updates \in Nat /\ gotLocation \in Nat /\ gotBlink \in Nat
  /\ updates <= MaxUpdates
  /\ gotLocation <= updates
  /\ gotBlink <= gotLocation
  /\ Ordered(toBroker, gotLocation, updates)

(* A session has one CONNECT: it is on its way, or its answer is, or the page*)
(* is connected.  Only then there is a SUBSCRIBE, on its way or handled.     *)
SessionInv ==
  /\ socket # "open" => ~connected /\ toBroker = <<>> /\ toPage = <<>> /\ pinger = "off"
  /\ link # "ok" => toBroker = <<>>
  /\ Count(toBroker, {"CONNECT"}) + Count(toPage, {"CONNACK", "REFUSED"})
       <= (IF connected THEN 0 ELSE 1)
  /\ ~connected => subscriptions = 0 /\ Count(toBroker, {"SUBSCRIBE"}) = 0
  /\ SubscribedOnce

IInv == TypeOK /\ OrderInv /\ SessionInv

(* What a message of a sequence carries. *)
LEMMA MessageOf ==
  ASSUME NEW q \in Seq(Message)
  PROVE  \A i \in DOMAIN q : q[i].update \in Nat
<1>1. \A i \in DOMAIN q : q[i] \in Message
  OBVIOUS
<1>2. \A m \in Message : m.update \in Nat
  BY BoundAssumption DEF Message
<1>. QED
  BY <1>1, <1>2

(* A message that is neither a location nor a role. *)
LEMMA OtherSent ==
  ASSUME NEW q \in Seq(Message), NEW loc \in Nat, NEW last \in Nat, Ordered(q, loc, last),
         NEW m \in Message, m.type \notin {"LOCATION", "BLINK"}, m.update <= last
  PROVE  q \o <<m>> \in Seq(Message) /\ Ordered(q \o <<m>>, loc, last)
<1>. DEFINE s == q \o <<m>>
<1>1. /\ s \in Seq(Message) /\ Len(q) \in Nat /\ Len(s) = Len(q) + 1 /\ s[Len(q) + 1] = m
      /\ DOMAIN q = 1 .. Len(q) /\ DOMAIN s = 1 .. Len(q) + 1
      /\ \A i \in DOMAIN q : s[i] = q[i]
  OBVIOUS
<1>. HIDE DEF s
<1>2. \A i \in DOMAIN s : i \in DOMAIN q \/ s[i] = m
  BY <1>1
<1>3. DOMAIN q \subseteq DOMAIN s
  BY <1>1
<1>4. Ordered(s, loc, last)
  BY <1>1, <1>2, <1>3 DEF Ordered
<1>. QED
  BY <1>1, <1>4 DEF s

(* The two messages of a click. *)
LEMMA UpdateSent ==
  ASSUME NEW q \in Seq(Message), NEW loc \in Nat, NEW last \in Nat, loc <= last,
         last < MaxUpdates, Ordered(q, loc, last), NEW a, NEW b,
         a = [type |-> "LOCATION", update |-> last + 1],
         b = [type |-> "BLINK", update |-> last + 1]
  PROVE  q \o <<a, b>> \in Seq(Message) /\ Ordered(q \o <<a, b>>, loc, last + 1)
<1>. DEFINE s == q \o <<a, b>>
<1>1. a \in Message /\ b \in Message
  BY BoundAssumption DEF Message
<1>2. /\ s \in Seq(Message) /\ Len(q) \in Nat /\ Len(s) = Len(q) + 2
      /\ s[Len(q) + 1] = a /\ s[Len(q) + 2] = b
      /\ DOMAIN q = 1 .. Len(q) /\ DOMAIN s = 1 .. Len(q) + 2
      /\ \A i \in DOMAIN q : s[i] = q[i]
  <2>. DEFINE r == <<a, b>>
  <2>1. r \in Seq(Message) /\ Len(r) = 2 /\ r[1] = a /\ r[2] = b
    BY <1>1
  <2>. HIDE DEF r
  <2>2. /\ q \o r \in Seq(Message) /\ Len(q \o r) = Len(q) + Len(r)
        /\ \A i \in 1 .. Len(q) + Len(r) : (q \o r)[i] = IF i <= Len(q) THEN q[i] ELSE r[i - Len(q)]
    BY <2>1, ConcatProperties
  <2>3. Len(q) \in Nat /\ DOMAIN q = 1 .. Len(q) /\ DOMAIN (q \o r) = 1 .. Len(q \o r)
    BY <2>2
  <2>4. s = q \o r
    BY DEF r
  <2>. HIDE DEF s
  <2>5. /\ s[Len(q) + 1] = a /\ s[Len(q) + 2] = b
        /\ \A i \in DOMAIN q : s[i] = q[i]
    BY <2>1, <2>2, <2>3, <2>4
  <2>. QED
    BY <2>1, <2>2, <2>3, <2>4, <2>5
<1>. HIDE DEF s
<1>3. \A i \in DOMAIN s : i \in DOMAIN q \/ i = Len(q) + 1 \/ i = Len(q) + 2
  BY <1>2
<1>4. \A i \in DOMAIN q : q[i].update \in Nat /\ i < Len(q) + 1 /\ i \in DOMAIN s /\ i \in Nat
  <2>1. \A i \in DOMAIN q : i < Len(q) + 1 /\ i \in DOMAIN s /\ i \in Nat
    BY <1>2
  <2>. QED
    BY <2>1, MessageOf
<1>5. Len(q) + 1 \in DOMAIN s /\ Len(q) + 2 \in DOMAIN s
  BY <1>2
<1>6. a.type = "LOCATION" /\ b.type = "BLINK" /\ a.update = last + 1 /\ b.update = last + 1
  OBVIOUS
<1>7. \A i \in DOMAIN s : s[i].update <= last + 1
  BY <1>2, <1>3, <1>4, <1>6 DEF Ordered
<1>8. \A i \in DOMAIN s : s[i].type = "LOCATION" => loc <= s[i].update
  BY <1>2, <1>3, <1>6 DEF Ordered
<1>9. \A i, j \in DOMAIN s : i < j /\ s[i].type = "LOCATION" /\ s[j].type = "LOCATION" =>
        s[i].update <= s[j].update
  <2>. SUFFICES ASSUME NEW i \in DOMAIN s, NEW j \in DOMAIN s, i < j,
                       s[i].type = "LOCATION", s[j].type = "LOCATION"
                PROVE  s[i].update <= s[j].update
    OBVIOUS
  <2>1. CASE j \in DOMAIN q
    <3>1. i \in DOMAIN q
      BY <1>2, <2>1
    <3>2. s[i] = q[i] /\ s[j] = q[j]
      BY <1>2, <2>1, <3>1
    <3>. QED
      BY <2>1, <3>1, <3>2 DEF Ordered
  <2>2. CASE j \notin DOMAIN q
    <3>1. s[j].update = last + 1
      BY <1>2, <1>3, <1>6, <2>2
    <3>. QED
      BY <1>7, <3>1
  <2>. QED
    BY <2>1, <2>2
<1>10. \A i \in DOMAIN s : s[i].type = "BLINK" =>
         \/ s[i].update <= loc
         \/ \E j \in DOMAIN s : j < i /\ s[j].type = "LOCATION" /\ s[j].update = s[i].update
  <2>. SUFFICES ASSUME NEW i \in DOMAIN s, s[i].type = "BLINK"
                PROVE  \/ s[i].update <= loc
                       \/ \E j \in DOMAIN s : j < i /\ s[j].type = "LOCATION" /\ s[j].update = s[i].update
    OBVIOUS
  <2>1. CASE i \in DOMAIN q
    <3>1. s[i] = q[i] /\ q[i].type = "BLINK"
      BY <1>2, <2>1
    <3>2. CASE q[i].update <= loc
      BY <3>1, <3>2
    <3>3. CASE \E j \in DOMAIN q : j < i /\ q[j].type = "LOCATION" /\ q[j].update = q[i].update
      <4>1. PICK j \in DOMAIN q : j < i /\ q[j].type = "LOCATION" /\ q[j].update = q[i].update
        BY <3>3
      <4>2. s[j] = q[j] /\ j \in DOMAIN s
        BY <1>2, <1>4
      <4>. QED
        BY <3>1, <4>1, <4>2
    <3>. QED
      BY <2>1, <3>1, <3>2, <3>3 DEF Ordered
  <2>2. CASE i = Len(q) + 2
    BY <1>2, <1>5, <1>6, <2>2
  <2>. QED
    BY <1>2, <1>3, <1>6, <2>1, <2>2
<1>. QED
  BY <1>2, <1>7, <1>8, <1>9, <1>10 DEF Ordered, s

(* The broker takes the first message. *)
LEMMA Taken ==
  ASSUME NEW q \in Seq(Message), q # <<>>, NEW loc \in Nat, NEW last \in Nat, Ordered(q, loc, last),
         NEW new, new = IF Head(q).type = "LOCATION" THEN Head(q).update ELSE loc
  PROVE  /\ Tail(q) \in Seq(Message) /\ Ordered(Tail(q), new, last)
         /\ new \in Nat /\ loc <= new /\ (loc <= last => new <= last)
         /\ Head(q).type = "BLINK" => Head(q).update <= loc
         /\ Head(q) \in Message
<1>. DEFINE t == Tail(q)
<1>1. /\ Len(q) \in Nat /\ Len(q) > 0 /\ DOMAIN q = 1 .. Len(q)
      /\ t \in Seq(Message) /\ DOMAIN t = 1 .. Len(q) - 1
      /\ \A i \in DOMAIN t : t[i] = q[i + 1]
      /\ Head(q) = q[1] /\ Head(q) \in Message
  OBVIOUS
<1>. HIDE DEF t
<1>2. /\ 1 \in DOMAIN q
      /\ \A i \in DOMAIN t : i \in Nat /\ i + 1 \in DOMAIN q /\ i + 1 > 1
      /\ \A i \in DOMAIN q : i = 1 \/ (i - 1 \in DOMAIN t /\ t[i - 1] = q[i] /\ i > 1 /\ i \in Nat)
      /\ \A i \in DOMAIN q : q[i].update \in Nat
  <2>1. \A i \in DOMAIN q : i = 1 \/ (i - 1 \in DOMAIN t /\ i > 1 /\ i \in Nat /\ (i - 1) + 1 = i)
    BY <1>1
  <2>2. \A i \in DOMAIN q : i = 1 \/ t[i - 1] = q[i]
    BY <1>1, <2>1
  <2>3. \A i \in DOMAIN q : q[i].update \in Nat
    BY MessageOf
  <2>4. 1 \in DOMAIN q /\ \A i \in DOMAIN t : i \in Nat /\ i + 1 \in DOMAIN q /\ i + 1 > 1
    BY <1>1
  <2>. QED
    BY <2>1, <2>2, <2>3, <2>4
<1>3. new \in Nat /\ loc <= new /\ (loc <= last => new <= last)
  BY <1>1, <1>2 DEF Ordered
<1>4. Head(q).type = "BLINK" => Head(q).update <= loc
  BY <1>1, <1>2 DEF Ordered
<1>5. \A i \in DOMAIN t : t[i].update <= last
  BY <1>1, <1>2 DEF Ordered
<1>6. ASSUME NEW i \in DOMAIN t, t[i].type = "LOCATION"
      PROVE  new <= t[i].update
  <2>1. t[i] = q[i + 1] /\ i + 1 \in DOMAIN q /\ 1 \in DOMAIN q /\ 1 < i + 1 /\ Head(q) = q[1]
    BY <1>1, <1>2
  <2>2. CASE Head(q).type = "LOCATION"
    <3>1. new = q[1].update /\ q[1].type = "LOCATION" /\ q[i + 1].type = "LOCATION"
      BY <1>6, <2>1, <2>2
    <3>. QED
      BY <2>1, <3>1 DEF Ordered
  <2>3. CASE Head(q).type # "LOCATION"
    BY <1>6, <2>1, <2>3 DEF Ordered
  <2>. QED
    BY <2>2, <2>3
<1>7. \A i, j \in DOMAIN t : i < j /\ t[i].type = "LOCATION" /\ t[j].type = "LOCATION" =>
        t[i].update <= t[j].update
  <2>1. \A i \in DOMAIN t : t[i] = q[i + 1] /\ i + 1 \in DOMAIN q /\ i \in Nat
    BY <1>1, <1>2
  <2>2. \A i, j \in Nat : i < j => i + 1 < j + 1
    OBVIOUS
  <2>3. \A i, j \in DOMAIN q : i < j /\ q[i].type = "LOCATION" /\ q[j].type = "LOCATION" =>
          q[i].update <= q[j].update
    BY DEF Ordered
  <2>. QED
    BY <2>1, <2>2, <2>3
<1>8. \A i \in DOMAIN t : t[i].type = "BLINK" =>
        \/ t[i].update <= new
        \/ \E j \in DOMAIN t : j < i /\ t[j].type = "LOCATION" /\ t[j].update = t[i].update
  <2>. SUFFICES ASSUME NEW i \in DOMAIN t, t[i].type = "BLINK", ~(t[i].update <= new)
                PROVE  \E j \in DOMAIN t : j < i /\ t[j].type = "LOCATION" /\ t[j].update = t[i].update
    OBVIOUS
  <2>1. i + 1 \in DOMAIN q /\ q[i + 1] = t[i] /\ ~(q[i + 1].update <= loc)
    BY <1>1, <1>2, <1>3
  <2>2. PICK j \in DOMAIN q : j < i + 1 /\ q[j].type = "LOCATION" /\ q[j].update = q[i + 1].update
    BY <2>1 DEF Ordered
  <2>3. j # 1
    BY <1>1, <1>2, <2>1, <2>2
  <2>4. j - 1 \in DOMAIN t /\ t[j - 1] = q[j] /\ j - 1 < i
    <3>1. j - 1 \in DOMAIN t /\ t[j - 1] = q[j] /\ j > 1 /\ j \in Nat
      BY <1>2, <2>3
    <3>2. i \in Nat
      BY <1>2
    <3>. QED
      BY <2>2, <3>1, <3>2
  <2>. QED
    BY <2>1, <2>2, <2>4
<1>. QED
  BY <1>1, <1>3, <1>4, <1>5, <1>6, <1>7, <1>8 DEF Ordered, t

(* Nothing on its way. *)
LEMMA NothingSent ==
  ASSUME NEW loc, NEW last
  PROVE  <<>> \in Seq(Message) /\ Ordered(<<>>, loc, last)
BY DEF Ordered

-----------------------------------------------------------------------------
(* The client sends a message of the protocol. *)
LEMMA FlightOrder ==
  ASSUME OrderInv, NEW type \in {"CONNECT", "SUBSCRIBE", "PINGREQ"},
         toBroker' = Flight(<<Msg(type)>>), version' = version,
         UNCHANGED <<updates, gotLocation, gotBlink>>
  PROVE  OrderInv'
<1>1. Msg(type) \in Message /\ Msg(type).type \notin {"LOCATION", "BLINK"} /\ Msg(type).update = 0
  BY BoundAssumption DEF Msg, Message
<1>2. toBroker' \in Seq(Message) /\ Ordered(toBroker', gotLocation, updates)
  BY <1>1, OtherSent DEF OrderInv, Flight
<1>. QED
  BY <1>2 DEF OrderInv

(* The connection is given up: nothing is on its way any more. *)
LEMMA DisconnectedOrder ==
  ASSUME OrderInv, Disconnected, UNCHANGED <<updates, gotLocation, gotBlink>>
  PROVE  OrderInv'
BY NothingSent DEF OrderInv, Disconnected, Connect, GiveUp

(* A step that concerns neither the way to the broker nor what it has. *)
LEMMA OrderKept ==
  ASSUME OrderInv, UNCHANGED <<version, toBroker, updates, gotLocation, gotBlink>>
  PROVE  OrderInv'
BY DEF OrderInv

(* A click on Update. *)
LEMMA UpdateOrder ==
  ASSUME OrderInv, Update
  PROVE  OrderInv'
<1>1. /\ updates < MaxUpdates /\ updates + 1 <= MaxUpdates /\ MaxUpdates \in Nat
      /\ updates' = updates + 1 /\ UNCHANGED <<version, gotLocation, gotBlink>>
  BY BoundAssumption DEF Update, broker, OrderInv
<1>2. Ordered(toBroker, gotLocation, updates + 1)
  <2>1. \A i \in DOMAIN toBroker : toBroker[i].update \in Nat
    BY MessageOf DEF OrderInv
  <2>. QED
    BY <2>1 DEF OrderInv, Ordered
<1>3. CASE connected /\ link = "ok"
  <2>. DEFINE a == [type |-> "LOCATION", update |-> updates + 1]
              b == [type |-> "BLINK", update |-> updates + 1]
  <2>1. toBroker' = toBroker \o <<a, b>>
    BY <1>3 DEF Update, SocketSend, Flight
  <2>2. a = [type |-> "LOCATION", update |-> updates + 1] /\ b = [type |-> "BLINK", update |-> updates + 1]
    OBVIOUS
  <2>. HIDE DEF a, b
  <2>3. toBroker \o <<a, b>> \in Seq(Message) /\ Ordered(toBroker \o <<a, b>>, gotLocation, updates + 1)
    BY <1>1, <2>2, UpdateSent DEF OrderInv
  <2>4. toBroker' \in Seq(Message) /\ Ordered(toBroker', gotLocation, updates + 1)
    BY <2>1, <2>3
  <2>. QED
    BY <1>1, <2>4 DEF OrderInv
<1>4. CASE ~(connected /\ link = "ok")
  <2>1. UNCHANGED toBroker
    BY <1>4 DEF Update, SocketSend, Flight
  <2>. QED
    BY <1>1, <1>2, <2>1 DEF OrderInv
<1>. QED
  BY <1>3, <1>4

(* The broker handles a message. *)
LEMMA ServeOrder ==
  ASSUME OrderInv, Serve
  PROVE  OrderInv'
<1>1. /\ toBroker # <<>> /\ toBroker' = Tail(toBroker) /\ UNCHANGED <<version, updates>>
      /\ gotLocation' = IF Head(toBroker).type = "LOCATION" THEN Head(toBroker).update ELSE gotLocation
      /\ gotBlink' = IF Head(toBroker).type = "BLINK" THEN Head(toBroker).update ELSE gotBlink
  BY DEF Serve, client
<1>2. /\ toBroker' \in Seq(Message) /\ Ordered(toBroker', gotLocation', updates)
      /\ gotLocation' \in Nat /\ gotLocation <= gotLocation' /\ gotLocation' <= updates
      /\ Head(toBroker).type = "BLINK" => Head(toBroker).update <= gotLocation
      /\ Head(toBroker).update \in Nat
  <2>1. Head(toBroker) \in Message
    BY <1>1, Taken DEF OrderInv
  <2>2. Head(toBroker).update \in Nat
    BY <2>1, BoundAssumption DEF Message
  <2>. QED
    BY <1>1, <2>2, Taken DEF OrderInv
<1>. QED
  BY <1>1, <1>2 DEF OrderInv

(* Every step keeps the order. *)
LEMMA OrderNext == OrderInv /\ [Next]_vars => OrderInv'
<1>. SUFFICES ASSUME OrderInv, [Next]_vars PROVE OrderInv'
  OBVIOUS
<1>1. CASE SocketOpen \/ Connack
  BY <1>1, FlightOrder DEF SocketOpen, Connack, SocketSend, broker
<1>2. CASE SocketClose \/ Refused \/ ConnectTimeout
  BY <1>2, DisconnectedOrder DEF SocketClose, Refused, ConnectTimeout
<1>3. CASE Suback \/ Pingresp \/ Publish \/ Forward \/ BrokerStarts \/ UNCHANGED vars
  BY <1>3, OrderKept DEF Suback, Pingresp, Publish, Forward, BrokerStarts, vars, client, net, broker
<1>4. CASE Ping
  BY <1>4, DisconnectedOrder, FlightOrder DEF Ping, broker
<1>5. CASE LinkFails \/ BrokerStops
  <2>1. toBroker' \in {toBroker, <<>>} /\ UNCHANGED <<version, updates, gotLocation, gotBlink>>
    BY <1>5 DEF LinkFails, BrokerStops, Fail, client, broker, net
  <2>. QED
    BY <2>1, NothingSent DEF OrderInv
<1>. QED
  BY <1>1, <1>2, <1>3, <1>4, <1>5, UpdateOrder, ServeOrder DEF Next, Received

-----------------------------------------------------------------------------
(* Messages on their way, counted by their types. *)

OfType(types) == {m \in Message : m.type \in types}

(* The messages counted are those of the types.                              *)
LEMMA CountHits ==
  ASSUME NEW q \in Seq(Message), NEW types
  PROVE  Count(q, types) = Hits(q, OfType(types))
<1>1. \A k \in DOMAIN q : q[k] \in Message
  OBVIOUS
<1>2. {k \in DOMAIN q : q[k].type \in types} = {k \in DOMAIN q : q[k] \in OfType(types)}
  BY <1>1 DEF OfType
<1>. QED
  BY <1>2 DEF Count, Hits

(* A count is a number, and nothing is counted where nothing is sent.        *)
LEMMA CountFacts ==
  ASSUME NEW q \in Seq(Message), NEW types
  PROVE  Count(q, types) \in Nat /\ Count(<<>>, types) = 0
<1>1. <<>> \in Seq(Message)
  OBVIOUS
<1>2. \A s \in Seq(Message) : Hits(s, OfType(types)) \in Nat /\ (s = <<>> => Hits(s, OfType(types)) = 0)
  BY HitsFacts
<1>3. \A s \in Seq(Message) : Count(s, types) = Hits(s, OfType(types))
  BY CountHits
<1>. QED
  BY <1>1, <1>2, <1>3

(* A message is sent.                                                        *)
LEMMA CountSend ==
  ASSUME NEW q \in Seq(Message), NEW m \in Message
  PROVE  /\ q \o <<m>> \in Seq(Message)
         /\ \A types : Count(q \o <<m>>, types) = Count(q, types) + (IF m.type \in types THEN 1 ELSE 0)
<1>1. q \o <<m>> = Append(q, m) /\ Append(q, m) \in Seq(Message)
  OBVIOUS
<1>. SUFFICES ASSUME NEW types
              PROVE  Count(Append(q, m), types) = Count(q, types) + (IF m.type \in types THEN 1 ELSE 0)
  BY <1>1
<1>2. Hits(Append(q, m), OfType(types)) = Hits(q, OfType(types)) + (IF m \in OfType(types) THEN 1 ELSE 0)
  BY HitsAppend
<1>3. m \in OfType(types) <=> m.type \in types
  BY DEF OfType
<1>. QED
  BY <1>1, <1>2, <1>3, CountHits

(* The first message is taken.                                               *)
LEMMA CountTake ==
  ASSUME NEW q \in Seq(Message), q # <<>>
  PROVE  /\ Tail(q) \in Seq(Message) /\ Head(q) \in Message
         /\ \A types : Count(q, types) = Count(Tail(q), types) + (IF Head(q).type \in types THEN 1 ELSE 0)
<1>1. Tail(q) \in Seq(Message) /\ Head(q) \in Message
  OBVIOUS
<1>. SUFFICES ASSUME NEW types
              PROVE  Count(q, types) = Count(Tail(q), types) + (IF Head(q).type \in types THEN 1 ELSE 0)
  BY <1>1
<1>2. Hits(q, OfType(types)) = Hits(Tail(q), OfType(types)) + (IF Head(q) \in OfType(types) THEN 1 ELSE 0)
  BY HitsTail
<1>3. Head(q) \in OfType(types) <=> Head(q).type \in types
  BY <1>1 DEF OfType
<1>. QED
  BY <1>1, <1>2, <1>3, CountHits

(* The last messages are lost.                                               *)
LEMMA CountLoss ==
  ASSUME NEW q \in Seq(Message), NEW n \in 0 .. Len(q)
  PROVE  /\ SubSeq(q, 1, n) \in Seq(Message)
         /\ \A types : Count(SubSeq(q, 1, n), types) <= Count(q, types)
<1>1. SubSeq(q, 1, n) \in Seq(Message)
  BY HitsPrefix
<1>. QED
  BY <1>1, CountHits, HitsPrefix

(* A message without a value.                                                *)
LEMMA MsgFacts ==
  ASSUME NEW type \in {"CONNECT", "CONNACK", "REFUSED", "SUBSCRIBE", "SUBACK", "PINGREQ",
                       "PINGRESP", "PUBLISH"}
  PROVE  Msg(type) \in Message /\ Msg(type).type = type
BY BoundAssumption DEF Msg, Message

-----------------------------------------------------------------------------
(* Types and the session. *)

Keep == TypeOK /\ SessionInv

(* The client sends a message: over a connection that works it is one more.  *)
LEMMA FlightSend ==
  ASSUME Keep, NEW m \in Message, toBroker' = Flight(<<m>>)
  PROVE  /\ toBroker' \in Seq(Message)
         /\ link # "ok" => toBroker' = <<>>
         /\ \A types : Count(toBroker', types) =
              Count(toBroker, types) + (IF link = "ok" /\ m.type \in types THEN 1 ELSE 0)
<1>1. toBroker \in Seq(Message) /\ (link # "ok" => toBroker = <<>>)
  BY DEF Keep, TypeOK, SessionInv
<1>2. \A types : Count(toBroker, types) \in Nat
  BY <1>1, CountFacts
<1>3. CASE link = "ok"
  BY <1>1, <1>3, CountSend DEF Flight
<1>4. CASE link # "ok"
  BY <1>1, <1>2, <1>4 DEF Flight
<1>. QED
  BY <1>3, <1>4

(* What is on its way is in sequences, and their counts are numbers.         *)
LEMMA Counts ==
  ASSUME Keep
  PROVE  /\ toBroker \in Seq(Message) /\ toPage \in Seq(Message)
         /\ \A types : Count(toBroker, types) \in Nat /\ Count(toPage, types) \in Nat
         /\ \A types : Count(<<>>, types) = 0
         /\ <<>> \in Seq(Message)
<1>1. toBroker \in Seq(Message) /\ toPage \in Seq(Message)
  BY DEF Keep, TypeOK
<1>2. <<>> \in Seq(Message)
  OBVIOUS
<1>. QED
  BY <1>1, <1>2, CountFacts

(* A lost connection is followed by a new attempt or by none.                *)
LEMMA DisconnectedKeep ==
  ASSUME Keep, Disconnected, UNCHANGED <<serving, gotLocation, gotBlink, updates>>,
         faults' \in 0 .. MaxFaults
  PROVE  Keep'
<1>1. /\ connected' = FALSE /\ socket' \in {"none", "connecting"}
      /\ toBroker' = <<>> /\ toPage' = <<>> /\ subscriptions' = 0 /\ sent' = sent
      /\ version' \in {3, 4} /\ link' \in {"ok", "closed"} /\ connTimer' \in BOOLEAN /\ pinger' = "off"
  BY DEF Keep, TypeOK, Disconnected, Connect, GiveUp
<1>2. TypeOK'
  <2>1. toBroker' \in Seq(Message) /\ toPage' \in Seq(Message)
    BY <1>1, Counts
  <2>2. subscriptions' \in 0 .. 1 /\ pinger' \in {"off", "reset", "pinged"}
        /\ socket' \in {"none", "connecting", "open"} /\ link' \in {"ok", "closed", "dead"}
    BY <1>1
  <2>3. connected' \in BOOLEAN
    BY <1>1
  <2>. QED
    BY <1>1, <2>1, <2>2, <2>3 DEF Keep, TypeOK
<1>3. SessionInv'
  BY <1>1, Counts DEF SessionInv, SubscribedOnce
<1>. QED
  BY <1>2, <1>3 DEF Keep

(* The socket is open: CONNECT is sent.                                      *)
LEMMA SocketOpenKeep ==
  ASSUME Keep, SocketOpen
  PROVE  Keep'
<1>1. /\ socket = "connecting" /\ toBroker' = Flight(<<Msg("CONNECT")>>)
      /\ socket' = "open" /\ pinger' = "reset"
      /\ UNCHANGED <<connected, version, connTimer, sent, link, toPage, serving, subscriptions,
                     gotLocation, gotBlink, updates, faults>>
  BY DEF SocketOpen, SocketSend, broker
<1>2. /\ toBroker' \in Seq(Message)
      /\ link # "ok" => toBroker' = <<>>
      /\ \A types : Count(toBroker', types) =
           Count(toBroker, types) + (IF link = "ok" /\ "CONNECT" \in types THEN 1 ELSE 0)
  BY <1>1, FlightSend, MsgFacts
<1>3. ~connected /\ Count(toBroker, {"CONNECT"}) = 0 /\ Count(toPage, {"CONNACK", "REFUSED"}) = 0
      /\ subscriptions = 0 /\ Count(toBroker, {"SUBSCRIBE"}) = 0
  BY <1>1, Counts DEF Keep, SessionInv
<1>4. Count(toBroker', {"CONNECT"}) \in {0, 1} /\ Count(toBroker', {"SUBSCRIBE"}) = 0
  BY <1>2, <1>3
<1>5. TypeOK'
  BY <1>1, <1>2 DEF Keep, TypeOK
<1>6. SessionInv'
  BY <1>1, <1>2, <1>3, <1>4 DEF SessionInv, SubscribedOnce
<1>. QED
  BY <1>5, <1>6 DEF Keep

(* The session is accepted: the page subscribes.                             *)
LEMMA ConnackKeep ==
  ASSUME Keep, Connack
  PROVE  Keep'
<1>1. /\ socket = "open" /\ toPage # <<>> /\ Head(toPage).type = "CONNACK" /\ toPage' = Tail(toPage)
      /\ toBroker' = Flight(<<Msg("SUBSCRIBE")>>)
      /\ connTimer' = FALSE /\ connected' = TRUE /\ sent' = 1 /\ pinger' = "reset"
      /\ UNCHANGED <<socket, version, link, serving, subscriptions, gotLocation, gotBlink, updates, faults>>
  BY DEF Connack, Handle, SocketSend, broker
<1>2. /\ toBroker' \in Seq(Message)
      /\ link # "ok" => toBroker' = <<>>
      /\ \A types : Count(toBroker', types) =
           Count(toBroker, types) + (IF link = "ok" /\ "SUBSCRIBE" \in types THEN 1 ELSE 0)
  BY <1>1, FlightSend, MsgFacts
<1>3. /\ toPage' \in Seq(Message)
      /\ Count(toPage, {"CONNACK", "REFUSED"}) = Count(toPage', {"CONNACK", "REFUSED"}) + 1
      /\ Count(toPage', {"CONNACK", "REFUSED"}) \in Nat
  BY <1>1, Counts, CountTake, CountFacts
<1>4. /\ Count(toBroker, {"CONNECT"}) + Count(toPage, {"CONNACK", "REFUSED"}) <= (IF connected THEN 0 ELSE 1)
      /\ Count(toBroker, {"CONNECT"}) \in Nat
  BY Counts DEF Keep, SessionInv
<1>5. ~connected /\ Count(toBroker, {"CONNECT"}) = 0 /\ Count(toPage', {"CONNACK", "REFUSED"}) = 0
  BY <1>3, <1>4
<1>6. subscriptions = 0 /\ Count(toBroker, {"SUBSCRIBE"}) = 0
  BY <1>5 DEF Keep, SessionInv
<1>7. Count(toBroker', {"CONNECT"}) = 0 /\ (link = "ok" => Count(toBroker', {"SUBSCRIBE"}) = 1)
  BY <1>2, <1>5, <1>6
<1>8. TypeOK'
  <2>1. connTimer' \in BOOLEAN /\ connected' \in BOOLEAN
    BY <1>1
  <2>2. sent' \in 0 .. 1 /\ pinger' \in {"off", "reset", "pinged"}
    BY <1>1
  <2>. QED
    BY <1>1, <1>2, <1>3, <2>1, <2>2 DEF Keep, TypeOK
<1>9. SessionInv'
  BY <1>1, <1>2, <1>5, <1>6, <1>7 DEF SessionInv, SubscribedOnce
<1>. QED
  BY <1>8, <1>9 DEF Keep

(* Another message from the broker.                                          *)
LEMMA TakenKeep ==
  ASSUME Keep, socket = "open", toPage # <<>>, Head(toPage).type \notin {"CONNACK", "REFUSED"},
         toPage' = Tail(toPage), sent' \in {sent, 0}, pinger' \in {pinger, "reset"},
         UNCHANGED <<connected, socket, version, connTimer, link, toBroker, serving, subscriptions,
                     gotLocation, gotBlink, updates, faults>>
  PROVE  Keep'
<1>1. /\ toPage' \in Seq(Message)
      /\ Count(toPage, {"CONNACK", "REFUSED"}) = Count(toPage', {"CONNACK", "REFUSED"})
  <2>1. /\ Tail(toPage) \in Seq(Message)
        /\ Count(toPage, {"CONNACK", "REFUSED"}) = Count(Tail(toPage), {"CONNACK", "REFUSED"}) + 0
    BY Counts, CountTake
  <2>2. Count(Tail(toPage), {"CONNACK", "REFUSED"}) \in Nat
    BY <2>1, CountFacts
  <2>. QED
    BY <2>1, <2>2
<1>2. TypeOK'
  BY <1>1 DEF Keep, TypeOK
<1>3. SessionInv'
  BY <1>1 DEF Keep, SessionInv, SubscribedOnce
<1>. QED
  BY <1>2, <1>3 DEF Keep

(* A message of the client that has no part in the session.                  *)
LEMMA SentKeep ==
  ASSUME Keep, NEW m \in Message, m.type \notin {"CONNECT", "SUBSCRIBE"},
         socket = "open", toBroker' = Flight(<<m>>), pinger' \in {"reset", "pinged"},
         UNCHANGED <<connected, socket, version, connTimer, sent, link, toPage, serving, subscriptions,
                     gotLocation, gotBlink, faults>>,
         updates' \in 0 .. MaxUpdates
  PROVE  Keep'
<1>1. /\ toBroker' \in Seq(Message)
      /\ link # "ok" => toBroker' = <<>>
      /\ Count(toBroker', {"CONNECT"}) = Count(toBroker, {"CONNECT"})
      /\ Count(toBroker', {"SUBSCRIBE"}) = Count(toBroker, {"SUBSCRIBE"})
  BY FlightSend, Counts
<1>2. TypeOK'
  BY <1>1 DEF Keep, TypeOK
<1>3. SessionInv'
  BY <1>1 DEF Keep, SessionInv, SubscribedOnce
<1>. QED
  BY <1>2, <1>3 DEF Keep

(* A click on Update.                                                        *)
LEMMA UpdateKeep ==
  ASSUME Keep, Update
  PROVE  Keep'
<1>1. /\ UNCHANGED <<connected, socket, version, connTimer, sent, link, toPage, serving, subscriptions,
                     gotLocation, gotBlink, faults>>
      /\ updates' = updates + 1 /\ updates' \in 0 .. MaxUpdates /\ updates + 1 \in 0 .. MaxUpdates
  BY BoundAssumption DEF Update, broker, Keep, TypeOK
<1>2. CASE connected /\ link = "ok"
  <2>. DEFINE a == [type |-> "LOCATION", update |-> updates + 1]
              b == [type |-> "BLINK", update |-> updates + 1]
  <2>1. toBroker' = toBroker \o <<a, b>> /\ pinger' = "reset"
    BY <1>2 DEF Update, SocketSend, Flight
  <2>2. a \in Message /\ b \in Message /\ a.type = "LOCATION" /\ b.type = "BLINK"
    BY <1>1 DEF Message
  <2>. HIDE DEF a, b
  <2>3. toBroker \in Seq(Message) /\ toBroker \o <<a>> \in Seq(Message)
        /\ toBroker \o <<a, b>> = (toBroker \o <<a>>) \o <<b>>
    <3>1. toBroker \in Seq(Message)
      BY Counts
    <3>2. <<a>> \in Seq(Message) /\ <<b>> \in Seq(Message)
      BY <2>2
    <3>4. <<a, b>> = <<a>> \o <<b>>
      <4>. DEFINE u == <<a>>
                  v == <<b>>
                  w == <<a, b>>
      <4>1. Len(u) = 1 /\ u[1] = a /\ Len(v) = 1 /\ v[1] = b /\ u \in Seq(Message) /\ v \in Seq(Message)
        BY <2>2
      <4>2. w \in Seq(Message) /\ Len(w) = 2 /\ w[1] = a /\ w[2] = b
        BY <2>2
      <4>. HIDE DEF u, v, w
      <4>3. u \o v \in Seq(Message) /\ Len(u \o v) = 2 /\ (u \o v)[1] = a /\ (u \o v)[2] = b
        BY <4>1, ConcatProperties
      <4>4. \A i \in 1 .. 2 : w[i] = (u \o v)[i]
        BY <4>2, <4>3
      <4>5. w = u \o v
        BY <4>2, <4>3, <4>4, SeqEqual
      <4>. QED
        BY <4>5 DEF u, v, w
    <3>3. toBroker \o <<a>> \in Seq(Message)
      BY <2>2, <3>1, CountSend
    <3>. QED
      BY <3>1, <3>2, <3>3, <3>4, ConcatAssociative
  <2>4. /\ toBroker' \in Seq(Message)
        /\ Count(toBroker', {"CONNECT"}) = Count(toBroker, {"CONNECT"})
        /\ Count(toBroker', {"SUBSCRIBE"}) = Count(toBroker, {"SUBSCRIBE"})
    <3>. DEFINE q == toBroker \o <<a>>
    <3>1. /\ Count(q, {"CONNECT"}) = Count(toBroker, {"CONNECT"}) + 0
          /\ Count(q, {"SUBSCRIBE"}) = Count(toBroker, {"SUBSCRIBE"}) + 0
      BY <2>2, <2>3, CountSend
    <3>. HIDE DEF q
    <3>2. q \in Seq(Message) /\ toBroker' = q \o <<b>>
      BY <2>1, <2>3 DEF q
    <3>3. /\ toBroker' \in Seq(Message)
          /\ Count(toBroker', {"CONNECT"}) = Count(q, {"CONNECT"}) + 0
          /\ Count(toBroker', {"SUBSCRIBE"}) = Count(q, {"SUBSCRIBE"}) + 0
      BY <2>2, <3>2, CountSend
    <3>. QED
      BY <3>1, <3>3, Counts
  <2>5. TypeOK'
    BY <1>1, <2>1, <2>4 DEF Keep, TypeOK
  <2>6. SessionInv'
    BY <1>1, <1>2, <2>4 DEF Keep, SessionInv, SubscribedOnce
  <2>. QED
    BY <2>5, <2>6 DEF Keep
<1>3. CASE ~(connected /\ link = "ok")
  <2>1. toBroker' = toBroker /\ pinger' \in {pinger, "reset"} /\ (~connected => pinger' = pinger)
    BY <1>3 DEF Update, SocketSend, Flight
  <2>2. TypeOK'
    BY <1>1, <2>1 DEF Keep, TypeOK
  <2>3. SessionInv'
    BY <1>1, <2>1 DEF Keep, SessionInv, SubscribedOnce
  <2>. QED
    BY <2>2, <2>3 DEF Keep
<1>. QED
  BY <1>2, <1>3

(* The broker handles a message and may answer.                              *)
LEMMA ServeKeep ==
  ASSUME Keep, Serve
  PROVE  Keep'
<1>. DEFINE m == Head(toBroker)
<1>1. /\ toBroker # <<>> /\ link = "ok" /\ toBroker' = Tail(toBroker)
      /\ subscriptions' = IF m.type = "SUBSCRIBE" THEN subscriptions + 1 ELSE subscriptions
      /\ gotLocation' = IF m.type = "LOCATION" THEN m.update ELSE gotLocation
      /\ gotBlink' = IF m.type = "BLINK" THEN m.update ELSE gotBlink
      /\ faults' <= MaxFaults
      /\ UNCHANGED <<connected, socket, version, connTimer, pinger, sent, link, serving, updates>>
  BY DEF Serve, client
<1>2. PICK answer \in Answer(m.type) :
        /\ toPage' = toPage \o answer
        /\ faults' = IF answer = <<Msg("REFUSED")>> THEN faults + 1 ELSE faults
  BY DEF Serve
<1>3. /\ toBroker' \in Seq(Message) /\ m \in Message
      /\ \A types : Count(toBroker, types) = Count(toBroker', types) + (IF m.type \in types THEN 1 ELSE 0)
      /\ \A types : Count(toBroker', types) \in Nat
  BY <1>1, Counts, CountTake, CountFacts
<1>4. /\ toPage' \in Seq(Message)
      /\ Count(toPage', {"CONNACK", "REFUSED"}) =
           Count(toPage, {"CONNACK", "REFUSED"}) + (IF m.type = "CONNECT" THEN 1 ELSE 0)
  <2>0. Count(toPage, {"CONNACK", "REFUSED"}) \in Nat /\ toPage \in Seq(Message)
    BY Counts
  <2>1. CASE m.type = "CONNECT"
    <3>1. PICK t \in {"CONNACK", "REFUSED"} : answer = <<Msg(t)>>
      BY <1>2, <2>1 DEF Answer
    <3>. QED
      BY <1>2, <2>1, <3>1, Counts, CountSend, MsgFacts
  <2>2. CASE m.type \in {"SUBSCRIBE", "PINGREQ"}
    <3>1. PICK t \in {"SUBACK", "PINGRESP"} : answer = <<Msg(t)>>
      BY <1>2, <2>2 DEF Answer
    <3>2. Msg(t) \in Message /\ Msg(t).type \notin {"CONNACK", "REFUSED"}
      BY MsgFacts
    <3>3. toPage \o <<Msg(t)>> \in Seq(Message)
          /\ Count(toPage \o <<Msg(t)>>, {"CONNACK", "REFUSED"}) = Count(toPage, {"CONNACK", "REFUSED"}) + 0
      BY <2>0, <3>2, CountSend
    <3>. QED
      BY <1>2, <2>0, <2>2, <3>1, <3>3
  <2>3. CASE m.type \notin {"CONNECT", "SUBSCRIBE", "PINGREQ"}
    <3>1. answer = <<>> /\ toPage \o <<>> = toPage
      BY <1>2, <2>3, Counts DEF Answer
    <3>. QED
      BY <1>2, <2>3, <3>1, Counts
  <2>. QED
    BY <2>1, <2>2, <2>3
<1>5. connected \in BOOLEAN /\ subscriptions \in 0 .. 1 /\ faults \in 0 .. MaxFaults /\ faults' \in 0 .. MaxFaults
  BY <1>1, <1>2, BoundAssumption DEF Keep, TypeOK
<1>6. /\ Count(toBroker, {"CONNECT"}) = Count(toBroker', {"CONNECT"}) + (IF m.type = "CONNECT" THEN 1 ELSE 0)
      /\ Count(toBroker, {"SUBSCRIBE"}) = Count(toBroker', {"SUBSCRIBE"}) + (IF m.type = "SUBSCRIBE" THEN 1 ELSE 0)
      /\ Count(toBroker', {"CONNECT"}) \in Nat /\ Count(toBroker', {"SUBSCRIBE"}) \in Nat
      /\ Count(toPage, {"CONNACK", "REFUSED"}) \in Nat
  BY <1>3, Counts
<1>7. /\ Count(toBroker', {"CONNECT"}) + Count(toPage', {"CONNACK", "REFUSED"}) <= (IF connected THEN 0 ELSE 1)
      /\ ~connected => subscriptions' = 0 /\ Count(toBroker', {"SUBSCRIBE"}) = 0
      /\ connected => subscriptions' + Count(toBroker', {"SUBSCRIBE"}) = 1
  <2>1. /\ Count(toBroker, {"CONNECT"}) + Count(toPage, {"CONNACK", "REFUSED"}) <= (IF connected THEN 0 ELSE 1)
        /\ ~connected => subscriptions = 0 /\ Count(toBroker, {"SUBSCRIBE"}) = 0
        /\ connected => subscriptions + Count(toBroker, {"SUBSCRIBE"}) = 1
    BY <1>1 DEF Keep, SessionInv, SubscribedOnce
  <2>. QED
    BY <1>1, <1>4, <1>5, <1>6, <2>1
<1>8. subscriptions' \in 0 .. 1
  BY <1>1, <1>5, <1>6, <1>7
<1>9. socket = "open" \/ (socket # "open" /\ FALSE)
  BY <1>1 DEF Keep, SessionInv
<1>10. TypeOK'
  <2>1. gotLocation' \in 0 .. MaxUpdates /\ gotBlink' \in 0 .. MaxUpdates
    BY <1>1, <1>3 DEF Keep, TypeOK, Message
  <2>. QED
    BY <1>1, <1>3, <1>4, <1>5, <1>8, <2>1 DEF Keep, TypeOK
<1>11. SessionInv'
  BY <1>1, <1>7, <1>9 DEF SessionInv, SubscribedOnce
<1>. QED
  BY <1>10, <1>11 DEF Keep

(* A message of the topic is sent to the page.                               *)
LEMMA ForwardKeep ==
  ASSUME Keep, Forward
  PROVE  Keep'
<1>1. /\ toPage' = toPage \o <<Msg("PUBLISH")>> /\ subscriptions > 0
      /\ UNCHANGED <<connected, socket, version, connTimer, pinger, sent, link, toBroker, serving,
                     subscriptions, gotLocation, gotBlink, updates, faults>>
  <2>1. toPage \in Seq(Message)
    BY Counts
  <2>2. Append(toPage, Msg("PUBLISH")) = toPage \o <<Msg("PUBLISH")>>
    BY <2>1, MsgFacts
  <2>. QED
    BY <2>2 DEF Forward, client, broker
<1>2. /\ toPage' \in Seq(Message)
      /\ Count(toPage', {"CONNACK", "REFUSED"}) = Count(toPage, {"CONNACK", "REFUSED"}) + 0
      /\ Count(toPage, {"CONNACK", "REFUSED"}) \in Nat
  <2>1. Msg("PUBLISH") \in Message /\ Msg("PUBLISH").type \notin {"CONNACK", "REFUSED"}
    BY MsgFacts
  <2>2. toPage \in Seq(Message) /\ Count(toPage, {"CONNACK", "REFUSED"}) \in Nat
    BY Counts
  <2>. QED
    BY <1>1, <2>1, <2>2, CountSend
<1>3. connected
  BY <1>1 DEF Keep, SessionInv
<1>4. TypeOK'
  BY <1>1, <1>2 DEF Keep, TypeOK
<1>5. SessionInv'
  BY <1>1, <1>2, <1>3, Counts DEF Keep, SessionInv, SubscribedOnce
<1>. QED
  BY <1>4, <1>5 DEF Keep

(* The connection fails: a part of what was on its way to the page arrives.  *)
LEMMA FailKeep ==
  ASSUME Keep, NEW state \in {"closed", "dead"}, Fail(state), socket = "open",
         serving' \in BOOLEAN, faults' \in 0 .. MaxFaults,
         UNCHANGED <<connected, socket, version, connTimer, pinger, sent, subscriptions, gotLocation,
                     gotBlink, updates>>
  PROVE  Keep'
<1>1. PICK n \in 0 .. Len(toPage) : toPage' = SubSeq(toPage, 1, n)
  BY DEF Fail
<1>2. toBroker' = <<>> /\ link' = state
  BY DEF Fail
<1>3. /\ toPage' \in Seq(Message)
      /\ Count(toPage', {"CONNACK", "REFUSED"}) <= Count(toPage, {"CONNACK", "REFUSED"})
      /\ Count(toPage', {"CONNACK", "REFUSED"}) \in Nat
  BY <1>1, Counts, CountLoss, CountFacts
<1>4. Count(toBroker', {"CONNECT"}) = 0 /\ Count(toBroker', {"SUBSCRIBE"}) = 0
  BY <1>2, Counts
<1>5. TypeOK'
  BY <1>2, <1>3, Counts DEF Keep, TypeOK
<1>6. SessionInv'
  <2>1. /\ Count(toBroker, {"CONNECT"}) \in Nat /\ Count(toPage, {"CONNACK", "REFUSED"}) \in Nat
        /\ Count(toBroker, {"CONNECT"}) + Count(toPage, {"CONNACK", "REFUSED"}) <= (IF connected THEN 0 ELSE 1)
        /\ ~connected => subscriptions = 0
    BY Counts DEF Keep, SessionInv
  <2>. QED
    BY <1>2, <1>3, <1>4, <2>1 DEF SessionInv, SubscribedOnce
<1>. QED
  BY <1>5, <1>6 DEF Keep

(* A step that leaves the session as it is.                                  *)
LEMMA SameKeep ==
  ASSUME Keep, serving' \in BOOLEAN, faults' \in 0 .. MaxFaults,
         UNCHANGED <<connected, socket, version, connTimer, pinger, sent, link, toBroker, toPage,
                     subscriptions, gotLocation, gotBlink, updates>>
  PROVE  Keep'
<1>1. TypeOK'
  BY DEF Keep, TypeOK
<1>2. SessionInv'
  BY DEF Keep, SessionInv, SubscribedOnce
<1>. QED
  BY <1>1, <1>2 DEF Keep

(* Every step keeps the types and the session.                               *)
LEMMA KeepNext == Keep /\ [Next]_vars => Keep'
<1>. SUFFICES ASSUME Keep, [Next]_vars PROVE Keep'
  OBVIOUS
<1>0. faults \in 0 .. MaxFaults /\ serving \in BOOLEAN /\ MaxFaults \in Nat
  BY BoundAssumption DEF Keep, TypeOK
<1>1. CASE SocketClose \/ Refused \/ ConnectTimeout
  <2>1. Disconnected /\ UNCHANGED <<serving, gotLocation, gotBlink, updates, faults>>
    BY <1>1 DEF SocketClose, Refused, ConnectTimeout
  <2>. QED
    BY <1>0, <2>1, DisconnectedKeep
<1>2. CASE Suback \/ Pingresp \/ Publish
  BY <1>2, TakenKeep DEF Suback, Pingresp, Publish, Handle, client, broker
<1>3. CASE Ping
  <2>1. CASE Disconnected /\ UNCHANGED <<serving, gotLocation, gotBlink, updates, faults>>
    BY <1>0, <2>1, DisconnectedKeep
  <2>2. CASE /\ pinger = "reset" /\ pinger' = "pinged"
             /\ toBroker' = Flight(<<Msg("PINGREQ")>>)
             /\ UNCHANGED <<connected, socket, version, connTimer, sent, link, toPage, broker, updates, faults>>
    <3>1. CASE socket = "open"
      BY <2>2, <3>1, SentKeep, MsgFacts DEF broker, Keep, TypeOK
    <3>2. CASE socket # "open"
      BY <2>2, <3>2 DEF Keep, SessionInv
    <3>. QED
      BY <3>1, <3>2
  <2>. QED
    BY <1>3, <2>1, <2>2 DEF Ping
<1>4. CASE LinkFails
  <2>1. PICK state \in {"closed", "dead"} : Fail(state)
    BY <1>4 DEF LinkFails
  <2>2. faults' \in 0 .. MaxFaults
    BY <1>0, <1>4 DEF LinkFails
  <2>. QED
    BY <1>0, <1>4, <2>1, <2>2, FailKeep DEF LinkFails, client, broker
<1>5. CASE BrokerStops
  <2>1. faults' \in 0 .. MaxFaults /\ serving' = FALSE
    BY <1>0, <1>5 DEF BrokerStops
  <2>2. CASE socket = "open" /\ link = "ok"
    BY <1>5, <2>1, <2>2, FailKeep DEF BrokerStops, client
  <2>3. CASE ~(socket = "open" /\ link = "ok")
    BY <1>5, <2>1, <2>3, SameKeep DEF BrokerStops, client, net
  <2>. QED
    BY <2>2, <2>3
<1>6. CASE BrokerStarts \/ UNCHANGED vars
  BY <1>0, <1>6, SameKeep DEF BrokerStarts, vars, client, net, broker
<1>. QED
  BY <1>1, <1>2, <1>3, <1>4, <1>5, <1>6, SocketOpenKeep, ConnackKeep, UpdateKeep, ServeKeep, ForwardKeep
    DEF Next, Received

-----------------------------------------------------------------------------
(* The invariant holds. *)
THEOREM IInvSafe == Spec => []IInv
<1>1. Init => OrderInv
  BY NothingSent, BoundAssumption DEF Init, OrderInv
<1>2. Init => Keep
  <2>1. <<>> \in Seq(Message) /\ \A types : Count(<<>>, types) = 0
    BY NothingSent, CountFacts
  <2>. QED
    <3>1. Init => TypeOK
      <4>1. Init => /\ connected \in BOOLEAN /\ connTimer \in BOOLEAN /\ serving \in BOOLEAN
                    /\ socket \in {"none", "connecting", "open"} /\ version \in {3, 4}
                    /\ pinger \in {"off", "reset", "pinged"} /\ link \in {"ok", "closed", "dead"}
        BY DEF Init
      <4>2. Init => /\ sent \in 0 .. 1 /\ subscriptions \in 0 .. 1
                    /\ updates \in 0 .. MaxUpdates /\ faults \in 0 .. MaxFaults
                    /\ gotLocation \in 0 .. MaxUpdates /\ gotBlink \in 0 .. MaxUpdates
        BY BoundAssumption DEF Init
      <4>3. Init => toBroker \in Seq(Message) /\ toPage \in Seq(Message)
        BY <2>1 DEF Init
      <4>. QED
        BY <4>1, <4>2, <4>3 DEF TypeOK
    <3>2. Init => SessionInv
      BY <2>1 DEF Init, SessionInv, SubscribedOnce
    <3>. QED
      BY <3>1, <3>2 DEF Keep
<1>3. OrderInv /\ Keep <=> IInv
  BY DEF Keep, IInv
<1>. QED
  BY <1>1, <1>2, <1>3, OrderNext, KeepNext, PTL DEF Spec

(* All variables keep their types: in particular no more than one SUBSCRIBE  *)
(* is kept in _sentMessages, and the broker never handles a second one.      *)
THEOREM TypeCorrect == Spec => []TypeOK
<1>1. IInv => TypeOK
  BY DEF IInv
<1>. QED
  BY <1>1, IInvSafe, PTL

(* Over a connection that works, a page that is connected has subscribed     *)
(* exactly once in this session, whatever happened to the sessions before.   *)
THEOREM SubscribedSafe == Spec => []SubscribedOnce
<1>1. IInv => SubscribedOnce
  BY DEF IInv, SessionInv
<1>. QED
  BY <1>1, IInvSafe, PTL

(* However often the connection is lost, the broker never has the role of an *)
(* update whose location it has not.                                         *)
THEOREM RoleSafe == Spec => []RoleAfterLocation
<1>1. IInv => RoleAfterLocation
  BY DEF IInv, OrderInv, RoleAfterLocation
<1>. QED
  BY <1>1, IInvSafe, PTL

(* The page stops only after an attempt with the older version has failed:   *)
(* no other handler of an event or timer leaves it without a socket.         *)
THEOREM GivesUpSafe == Spec => GivesUpLast
<1>1. IInv /\ [Next]_vars =>
        [socket' = "none" => socket = "none" \/ (~connected /\ version = 3)]_<<socket>>
  <2>. SUFFICES ASSUME IInv, [Next]_vars, socket' = "none", socket # "none"
                PROVE  ~connected /\ version = 3
    OBVIOUS
  <2>1. CASE Disconnected
    BY <2>1 DEF Disconnected, Connect, GiveUp, IInv, OrderInv
  <2>2. CASE Next /\ ~Disconnected
    BY <2>2 DEF Next, SocketOpen, SocketClose, Received, Connack, Refused, Suback, Pingresp, Publish,
      ConnectTimeout, Ping, Update, Serve, Forward, LinkFails, BrokerStops, BrokerStarts, client
  <2>3. CASE UNCHANGED vars
    BY <2>3 DEF vars, client
  <2>. QED
    BY <2>1, <2>2, <2>3
<1>. QED
  BY <1>1, IInvSafe, PTL DEF Spec, GivesUpLast

-----------------------------------------------------------------------------
(* There is always a timer that watches the socket: the connect timeout      *)
(* during an attempt, and only then; the pinger while the page is connected. *)
Watched ==
  /\ connTimer <=> socket # "none" /\ ~connected
  /\ connected => socket = "open" /\ pinger # "off"

LEMMA DisconnectedWatched ==
  ASSUME Watched, Disconnected
  PROVE  Watched'
<1>1. CASE Connect(4) \/ Connect(3)
  <2>1. ~connected' /\ connTimer' /\ socket' = "connecting"
    BY <1>1 DEF Connect
  <2>. QED
    BY <2>1 DEF Watched
<1>2. CASE ~connected /\ GiveUp
  <2>1. ~connected' /\ ~connTimer' /\ socket' = "none"
    BY <1>2 DEF GiveUp
  <2>. QED
    BY <2>1 DEF Watched
<1>. QED
  BY <1>1, <1>2 DEF Disconnected

(* Every other handler keeps the timer that watches the socket. *)
LEMMA WatchedNext ==
  ASSUME Watched, [Next]_vars
  PROVE  Watched'
<1>1. CASE SocketOpen
  BY <1>1 DEF SocketOpen, SocketSend, Watched
<1>2. CASE Disconnected
  BY <1>2, DisconnectedWatched
<1>3. CASE Connack
  <2>1. connected' /\ ~connTimer' /\ socket' = "open" /\ pinger' = "reset"
    BY <1>3 DEF Connack, Handle, SocketSend
  <2>. QED
    BY <2>1 DEF Watched
<1>4. CASE Pingresp
  BY <1>4 DEF Pingresp, Watched
<1>5. CASE Ping /\ ~Disconnected
  BY <1>5 DEF Ping, Watched
<1>6. CASE Update
  BY <1>6 DEF Update, SocketSend, Watched
<1>7. CASE /\ UNCHANGED <<connTimer, socket, connected, pinger>>
  BY <1>7 DEF Watched
<1>8. CASE Suback \/ Publish
  BY <1>7, <1>8 DEF Suback, Publish, client
<1>9. CASE Serve \/ Forward \/ LinkFails \/ BrokerStops \/ BrokerStarts
  BY <1>7, <1>9 DEF Serve, Forward, LinkFails, BrokerStops, BrokerStarts, client
<1>10. CASE SocketClose \/ Refused \/ ConnectTimeout
  BY <1>2, <1>10 DEF SocketClose, Refused, ConnectTimeout
<1>11. CASE UNCHANGED vars
  BY <1>7, <1>11 DEF vars, client
<1>. QED
  BY <1>1, <1>2, <1>3, <1>4, <1>5, <1>6, <1>8, <1>9, <1>10, <1>11 DEF Next, Received

(* What AttemptEnds and DeadLinkNoticed rest on, beside the fairness: no     *)
(* handler leaves an attempt without its timeout or a connection without its *)
(* pinger, and no timeout of an earlier attempt is left behind to end a      *)
(* connection that works.                                                    *)
THEOREM WatchedSafe == Spec => []Watched
<1>1. Init => Watched
  BY DEF Init, Watched
<1>. QED
  BY <1>1, WatchedNext, PTL DEF Spec
=============================================================================
