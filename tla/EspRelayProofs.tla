--------------------------- MODULE EspRelayProofs ---------------------------
(***************************************************************************)
(* That the retained topics follow the sensor, for a queue of any length:  *)
(* the bound on outbox is not used.                                        *)
(***************************************************************************)
EXTENDS EspRelay, SequenceTheorems, TLAPS

Box == Seq(Message)

\* What topic t holds once every message of box has arrived at a broker that
\* retains r: the last message of that topic, or else what it holds already.
Settles(box, r, t, p) ==
    \/ \E k \in DOMAIN box :
          /\ box[k] = [topic |-> t, payload |-> p]
          /\ \A j \in DOMAIN box : j > k => box[j].topic # t
    \/ r[t] = p /\ \A j \in DOMAIN box : box[j].topic # t

\* r is what a broker holds that has received the first n messages of box: of each
\* topic the last of them.
Kept(box, n, r) ==
    \A t \in Topic :
        \/ \A j \in 1..n : box[j].topic # t
        \/ \E k \in 1..n :
              /\ box[k].topic = t /\ box[k].payload = r[t]
              /\ \A j \in 1..n : j > k => box[j].topic # t

InOrder == session = "up" => Kept(outbox, sent, retained)

\* on_mqtt_connected() has run in this session and was not overtaken.
Greeted == session = "up" /\ greeting = "no" /\ ~misled

ReportPublished ==
    Greeted => Settles(outbox, retained, "ble_connected", Bool(ble))

ValueCleared ==
    Greeted /\ ~stray /\ ~ble => Settles(outbox, retained, "value", "")

\* A payload that must not be what is left, the sensor being connected or not.
Stale(p, connected) == p = "old" \/ (p = "this" /\ ~connected)

\* A clearing follows every stale value.
Clears(box, r, connected) ==
    /\ \A i \in DOMAIN box : Stale(box[i].payload, connected) =>
           \E j \in DOMAIN box : j > i /\ box[j] = Cleared
    /\ Stale(r["value"], connected) => \E j \in DOMAIN box : box[j] = Cleared

\* reconnect_task has forgotten the handles of a sensor that is still reported.
Ending == resetting /\ ble

StaleSwept == ~stray /\ ~unswept /\ ~Ending => Clears(outbox, retained, ble)

\* A reading that is under way on a reported connection was made with a handle.
ReadingKnown == reading /\ ble /\ ~resetting => handles

\* Only values are of a connection.
OnlyValues(box) == \A i \in DOMAIN box : box[i].payload = "this" => box[i].topic = "value"

ValuesAge == OnlyValues(outbox)

RInv ==
    /\ TypeOK
    /\ InOrder
    /\ ReportPublished
    /\ ValueCleared
    /\ StaleSwept
    /\ ReadingKnown
    /\ ValuesAge

-----------------------------------------------------------------------------
(***************************************************************************)
(* The queue.                                                              *)
(***************************************************************************)

\* Ageing keeps the messages in their places, and their topics.
LEMMA Ageing ==
    ASSUME NEW box \in Box
    PROVE  /\ AgedBox(box) \in Box
           /\ Len(AgedBox(box)) = Len(box) /\ DOMAIN AgedBox(box) = DOMAIN box
           /\ \A i \in DOMAIN box : /\ AgedBox(box)[i].topic = box[i].topic
                                    /\ AgedBox(box)[i].payload = Aged(box[i].payload)
<1>1. box \in [1..Len(box) -> Message] /\ Len(box) \in Nat /\ DOMAIN box = 1..Len(box)
  BY LenProperties DEF Box
<1>2. \A p \in Payload : Aged(p) \in Payload
  BY DEF Aged, Payload
<1>3. \A m \in Message : /\ [m EXCEPT !.payload = Aged(@)] \in Message
                         /\ [m EXCEPT !.payload = Aged(@)].topic = m.topic
                         /\ [m EXCEPT !.payload = Aged(@)].payload = Aged(m.payload)
  BY <1>2 DEF Message
<1>4. AgedBox(box) \in [1..Len(box) -> Message]
  BY <1>1, <1>3 DEF AgedBox
<1>5. AgedBox(box) \in Box /\ Len(AgedBox(box)) = Len(box)
  BY <1>1, <1>4, SeqDef DEF Box
<1>6. QED
  BY <1>1, <1>3, <1>4, <1>5 DEF AgedBox

\* What is published comes after what was there.
LEMMA Publishing ==
    ASSUME NEW box \in Box, NEW messages \in Box
    PROVE  /\ box \o messages \in Box
           /\ DOMAIN box = 1..Len(box) /\ DOMAIN messages = 1..Len(messages)
           /\ DOMAIN (box \o messages) = 1..(Len(box) + Len(messages))
           /\ Len(box \o messages) = Len(box) + Len(messages)
           /\ Len(box) \in Nat /\ Len(messages) \in Nat
           /\ \A i \in 1..Len(box) : (box \o messages)[i] = box[i]
           /\ \A i \in 1..Len(messages) : (box \o messages)[Len(box) + i] = messages[i]
<1>1. /\ box \o messages \in Box
      /\ Len(box \o messages) = Len(box) + Len(messages)
      /\ \A i \in 1..Len(box) + Len(messages) :
             (box \o messages)[i] = IF i <= Len(box) THEN box[i] ELSE messages[i - Len(box)]
  BY ConcatProperties DEF Box
<1>2. /\ Len(box) \in Nat /\ DOMAIN box = 1..Len(box)
      /\ Len(messages) \in Nat /\ DOMAIN messages = 1..Len(messages)
      /\ DOMAIN (box \o messages) = 1..Len(box \o messages)
  BY <1>1, LenProperties DEF Box
<1>3. QED
  BY <1>1, <1>2

\* The first message leaves, and the others move up.
LEMMA Leaving ==
    ASSUME NEW box \in Box, box # <<>>
    PROVE  /\ Tail(box) \in Box /\ Head(box) = box[1] /\ Head(box) \in Message
           /\ Len(box) \in Nat \ {0} /\ Len(Tail(box)) = Len(box) - 1
           /\ DOMAIN box = 1..Len(box) /\ DOMAIN Tail(box) = 1..(Len(box) - 1)
           /\ \A i \in 1..(Len(box) - 1) : Tail(box)[i] = box[i + 1]
<1>1. /\ Head(box) \in Message /\ Tail(box) \in Box /\ Len(Tail(box)) = Len(box) - 1
      /\ \A i \in 1..Len(Tail(box)) : Tail(box)[i] = box[i + 1]
  BY HeadTailProperties DEF Box
<1>2. Len(box) \in Nat \ {0} /\ DOMAIN box = 1..Len(box)
  BY EmptySeq, LenProperties DEF Box
<1>3. DOMAIN Tail(box) = 1..Len(Tail(box))
  BY <1>1, LenProperties DEF Box
<1>4. Head(box) = box[1]
  BY DEF Box
<1>5. QED
  BY <1>1, <1>2, <1>3, <1>4

-----------------------------------------------------------------------------
(***************************************************************************)
(* What a topic settles to.                                                *)
(***************************************************************************)

\* The ageing of values changes neither a report nor a clearing.
LEMMA SettlesAged ==
    ASSUME NEW box \in Box, NEW r \in [Topic -> Payload], NEW t \in Topic,
           NEW p \in Payload \ {"this"}, Settles(box, r, t, p)
    PROVE  Settles(AgedBox(box), AgedRetained(r), t, p)
<1>1. Aged(p) = p
  BY DEF Aged
<1>2. r[t] = p => AgedRetained(r)[t] = p
  BY <1>1 DEF AgedRetained
<1>3. \A k \in DOMAIN box : box[k] = [topic |-> t, payload |-> p] => AgedBox(box)[k] = box[k]
  BY <1>1 DEF AgedBox
<1>4. QED
  BY <1>2, <1>3, Ageing DEF Settles

\* Messages of other topics change nothing.
LEMMA SettlesBeside ==
    ASSUME NEW box \in Box, NEW messages \in Box, NEW r, NEW t, NEW p,
           \A i \in DOMAIN messages : messages[i].topic # t,
           Settles(box, r, t, p)
    PROVE  Settles(box \o messages, r, t, p)
<1> DEFINE new == box \o messages
<1>1. /\ DOMAIN box = 1..Len(box) /\ DOMAIN messages = 1..Len(messages)
      /\ DOMAIN new = 1..(Len(box) + Len(messages))
      /\ Len(box) \in Nat /\ Len(messages) \in Nat
      /\ \A i \in 1..Len(box) : new[i] = box[i]
      /\ \A i \in 1..Len(messages) : new[Len(box) + i] = messages[i]
  BY Publishing
<1> HIDE DEF new
<1>2. ASSUME NEW j \in DOMAIN new, j \notin DOMAIN box
      PROVE  new[j].topic # t
  <2>1. j - Len(box) \in 1..Len(messages) /\ j = Len(box) + (j - Len(box))
    BY <1>1, <1>2
  <2>2. new[j] = messages[j - Len(box)]
    BY <1>1, <2>1
  <2>3. QED
    BY <1>1, <2>1, <2>2
<1>3. DOMAIN box \subseteq DOMAIN new /\ \A j \in DOMAIN box : new[j] = box[j]
  BY <1>1
<1>4. Settles(new, r, t, p)
  BY <1>1, <1>2, <1>3 DEF Settles
<1>5. QED
  BY <1>4 DEF new

\* The last message published of a topic is what it settles to.
LEMMA SettlesAnew ==
    ASSUME NEW box \in Box, NEW messages \in Box, NEW r, NEW t, NEW p,
           NEW k \in DOMAIN messages, messages[k] = [topic |-> t, payload |-> p],
           \A j \in DOMAIN messages : j > k => messages[j].topic # t
    PROVE  Settles(box \o messages, r, t, p)
<1> DEFINE new == box \o messages
<1>1. /\ DOMAIN messages = 1..Len(messages)
      /\ DOMAIN new = 1..(Len(box) + Len(messages))
      /\ Len(box) \in Nat /\ Len(messages) \in Nat
      /\ \A i \in 1..Len(messages) : new[Len(box) + i] = messages[i]
  BY Publishing
<1> HIDE DEF new
<1>2. Len(box) + k \in DOMAIN new /\ new[Len(box) + k] = [topic |-> t, payload |-> p]
  BY <1>1
<1>3. ASSUME NEW j \in DOMAIN new, j > Len(box) + k
      PROVE  new[j].topic # t
  <2>1. j - Len(box) \in 1..Len(messages) /\ j - Len(box) > k /\ j = Len(box) + (j - Len(box))
    BY <1>1, <1>3
  <2>2. new[j] = messages[j - Len(box)]
    BY <1>1, <2>1
  <2>3. QED
    BY <1>1, <2>1, <2>2
<1>4. Settles(new, r, t, p)
  BY <1>2, <1>3 DEF Settles
<1>5. QED
  BY <1>4 DEF new

\* A message that arrives and stays in the queue changes nothing.
LEMMA SettlesReceived ==
    ASSUME NEW box \in Box, NEW r \in [Topic -> Payload], NEW t \in Topic, NEW p,
           NEW n \in DOMAIN box, Settles(box, r, t, p)
    PROVE  Settles(box, [r EXCEPT ![box[n].topic] = box[n].payload], t, p)
<1>1. CASE box[n].topic = t
  BY <1>1 DEF Settles
<1>2. CASE box[n].topic # t
  BY <1>2 DEF Settles
<1>3. QED
  BY <1>1, <1>2

\* A message that is acknowledged has been retained if it was the last of its topic.
LEMMA SettlesAcknowledged ==
    ASSUME NEW box \in Box, box # <<>>, NEW r \in [Topic -> Payload], NEW t \in Topic,
           NEW p, Settles(box, r, t, p),
           Head(box).topic = t /\ (\A j \in 2..Len(box) : box[j].topic # t)
               => r[t] = Head(box).payload
    PROVE  Settles(Tail(box), r, t, p)
<1>1. \A j \in DOMAIN Tail(box) : j + 1 \in DOMAIN box /\ Tail(box)[j] = box[j + 1]
  BY Leaving
<1>2. CASE r[t] = p /\ \A j \in DOMAIN box : box[j].topic # t
  BY <1>1, <1>2 DEF Settles
<1>3. ASSUME NEW k \in DOMAIN box, box[k] = [topic |-> t, payload |-> p],
             \A j \in DOMAIN box : j > k => box[j].topic # t
      PROVE  Settles(Tail(box), r, t, p)
  <2>1. k \in 1..Len(box) /\ Len(box) \in Nat
    BY Leaving
  <2>2. CASE k = 1
    <3>1. Head(box) = [topic |-> t, payload |-> p] /\ \A j \in 2..Len(box) : box[j].topic # t
      BY <1>3, <2>2, Leaving
    <3>2. r[t] = p
      BY <3>1
    <3>3. \A j \in DOMAIN Tail(box) : Tail(box)[j].topic # t
      BY <1>1, <3>1, Leaving
    <3>4. QED
      BY <3>2, <3>3 DEF Settles
  <2>3. CASE k > 1
    <3>1. k - 1 \in DOMAIN Tail(box) /\ Tail(box)[k - 1] = box[k]
      BY <2>1, <2>3, Leaving
    <3>2. \A j \in DOMAIN Tail(box) : j > k - 1 => Tail(box)[j].topic # t
      BY <1>1, <1>3, <2>1, Leaving
    <3>3. QED
      BY <1>3, <3>1, <3>2 DEF Settles
  <2>4. QED
    BY <2>1, <2>2, <2>3
<1>4. QED
  BY <1>2, <1>3 DEF Settles

-----------------------------------------------------------------------------
(***************************************************************************)
(* The messages.                                                           *)
(***************************************************************************)

\* Queues of one message and of two.
LEMMA Pairs ==
    ASSUME NEW a \in Message, NEW b \in Message
    PROVE  /\ <<a>> \in Box /\ <<a>> \o <<>> = <<a>>
           /\ <<a, b>> \in Box /\ <<a>> \o <<b>> = <<a, b>>
           /\ DOMAIN <<a, b>> = 1..2 /\ <<a, b>>[1] = a /\ <<a, b>>[2] = b
<1>1. <<a>> \in Box /\ <<b>> \in Box /\ <<a, b>> \in Box
  BY DEF Box
<1>2. <<a>> \o <<>> = <<a>>
  BY <1>1, ConcatEmptySeq DEF Box
<1>3. <<a, b>> \in [1..2 -> Message] /\ <<a, b>>[1] = a /\ <<a, b>>[2] = b
  OBVIOUS
<1>4. <<a>> \o <<b>> = <<a, b>>
  <2>1. Len(<<a>>) = 1 /\ Len(<<b>>) = 1 /\ <<a>>[1] = a /\ <<b>>[1] = b
    OBVIOUS
  <2>2. DOMAIN <<a>> = 1..1 /\ DOMAIN <<b>> = 1..1 /\ <<a>> \o <<b>> \in Box
    BY <1>1, <2>1, Publishing
  <2>3. /\ DOMAIN (<<a>> \o <<b>>) = 1..2
        /\ (<<a>> \o <<b>>)[1] = a /\ (<<a>> \o <<b>>)[1 + 1] = b
    BY <1>1, <2>1, Publishing
  <2>4. <<a>> \o <<b>> \in [1..2 -> Message]
    BY <2>2, <2>3, LenProperties DEF Box
  <2>5. \A f, g \in [1..2 -> Message] : f[1] = g[1] /\ f[2] = g[2] => f = g
    <3>1. \A i \in 1..2 : i = 1 \/ i = 2
      OBVIOUS
    <3>2. QED
      BY <3>1
  <2>6. (<<a>> \o <<b>>)[2] = b
    BY <2>3
  <2>7. QED
    BY <1>3, <2>3, <2>4, <2>5, <2>6, Zenon
<1>5. QED
  BY <1>1, <1>2, <1>3, <1>4

\* The two reports: that the sensor is there, and that it is away.
There == publish_ble_connected(TRUE)
Away == publish_ble_connected(FALSE)
Greeting == IF greeting = "true" THEN There ELSE Away

\* A report is one message, followed by a clearing if the sensor is away.
LEMMA Reports ==
    /\ There = <<[topic |-> "ble_connected", payload |-> "true"]>>
    /\ Away = <<[topic |-> "ble_connected", payload |-> "false"], Cleared>>
    /\ There \in Box /\ Away \in Box
    /\ ~Swept(There) /\ Swept(Away)
<1> DEFINE there == [topic |-> "ble_connected", payload |-> "true"]
           away == [topic |-> "ble_connected", payload |-> "false"]
<1>1. there \in Message /\ away \in Message
  BY DEF Message, Topic, Payload
<1>2. Cleared \in Message /\ there # Cleared
  BY DEF Message, Topic, Payload, Cleared, Value
<1>3. There = <<there>> \o <<>> /\ Away = <<away>> \o <<Cleared>>
  BY DEF There, Away, publish_ble_connected, Bool
<1> HIDE DEF there, away
<1>4. There = <<there>> /\ <<there>> \in Box
  BY <1>1, <1>3, Pairs
<1>5. Away = <<away, Cleared>> /\ <<away, Cleared>> \in Box
  BY <1>1, <1>2, <1>3, Pairs
<1>6. ~Swept(<<there>>)
  BY <1>2 DEF Swept
<1>7. Swept(<<away, Cleared>>)
  <2>1. DOMAIN <<away, Cleared>> = 1..2 /\ <<away, Cleared>>[2] = Cleared
    BY <1>1, <1>2, Pairs
  <2>2. QED
    BY <2>1 DEF Swept
<1>8. QED
  BY <1>4, <1>5, <1>6, <1>7 DEF there, away

\* on_mqtt_connected() publishes one of them.
LEMMA GreetingPublished ==
    ASSUME on_mqtt_connected
    PROVE  /\ publish_raw(outbox, Greeting) /\ Greeting \in Box
           /\ stray' = (stray /\ ~Swept(Greeting)) /\ unswept' = (unswept /\ ~Swept(Greeting))
<1>1. publish_ble_connected(greeting = "true") = Greeting
  <2>1. CASE greeting = "true"
    BY <2>1 DEF Greeting, There, publish_ble_connected, Bool
  <2>2. CASE greeting # "true"
    BY <2>2 DEF Greeting, Away, publish_ble_connected, Bool
  <2>3. QED
    BY <2>1, <2>2
<1>2. Greeting \in Box
  BY Reports DEF Greeting
<1>3. QED
  BY <1>1, <1>2 DEF on_mqtt_connected

\* Whatever is added are messages.
LEMMA Messages ==
    /\ \A p \in {"online", "offline"} : <<Status(p)>> \in Box
    /\ \A p \in {"", "this", "old"} : <<Value(p)>> \in Box
BY DEF Box, Message, Topic, Payload, Status, Value

-----------------------------------------------------------------------------
(***************************************************************************)
(* Types.                                                                  *)
(***************************************************************************)

\* Adding messages keeps the type of the queue, and what was sent within it.
LEMMA PublishType ==
    ASSUME NEW box \in Box, NEW messages \in Box, NEW n \in 0..Len(box),
           publish_raw(box, messages)
    PROVE  outbox' \in Seq(Message) /\ n \in 0..Len(outbox')
<1>1. outbox' = box \o messages /\ Len(box \o messages) = Len(box) + Len(messages)
  BY ConcatProperties DEF publish_raw, Box
<1>2. QED
  BY <1>1, Publishing DEF Box

\* The initial state is of the right types.
LEMMA InitType == Init => TypeOK
<1>1. <<>> \in Seq(Message) /\ 0 \in 0..Len(<<>>)
  BY EmptySeq
<1>2. [t \in Topic |-> ""] \in [Topic -> Payload]
  BY DEF Payload
<1>3. QED
  BY <1>1, <1>2 DEF Init, TypeOK, Link!Init

\* Every step keeps the types.
LEMMA NextType == TypeOK /\ [Next]_vars => TypeOK'
<1> SUFFICES ASSUME TypeOK, [Next]_vars PROVE TypeOK'
  OBVIOUS
<1> USE DEF TypeOK
<1>0. outbox \in Box /\ Len(outbox) \in Nat
  BY LenProperties DEF Box
<1>a. AgedRetained(retained) \in [Topic -> Payload]
  BY DEF AgedRetained, Aged, Payload
<1>b. \A t \in Topic, p \in Payload : [retained EXCEPT ![t] = p] \in [Topic -> Payload]
  OBVIOUS
<1>c. [retained EXCEPT !["status"] = "offline"] \in [Topic -> Payload]
  BY <1>b DEF Topic, Payload
<1>1. CASE Matched
  BY <1>1 DEF Matched, Link!Match, mqttState
<1>2. CASE SetUp
  <2>1. outbox' \in Seq(Message) /\ sent' \in 0..Len(outbox')
    BY <1>2, <1>0, Reports, PublishType DEF SetUp, There, mqttState
  <2>2. QED
    BY <1>2, <2>1 DEF SetUp, Link!Finish, mqttState
<1>d. AgedBox(outbox) \in Box /\ Len(AgedBox(outbox)) = Len(outbox)
  BY <1>0, Ageing
<1>e. ASSUME NEW box \in Box, Len(box) = Len(outbox), Withdrawal(box), sent' = sent
      PROVE  /\ outbox' \in Seq(Message) /\ sent' \in 0..Len(outbox')
             /\ stray' \in BOOLEAN /\ unswept' \in BOOLEAN /\ misled' \in BOOLEAN
  <2>1. PICK messages \in Box : /\ publish_raw(box, messages)
                                /\ stray' = (stray /\ ~Swept(messages))
                                /\ unswept' = (unswept /\ ~Swept(messages))
    <3>1. <<>> \in Box
      BY EmptySeq DEF Box
    <3>2. QED
      BY <1>e, <3>1, Reports DEF Withdrawal, Away
  <2>2. sent' \in 0..Len(box)
    BY <1>e
  <2>3. outbox' \in Seq(Message) /\ sent' \in 0..Len(outbox')
    BY <1>e, <2>1, <2>2, PublishType
  <2>4. stray' \in BOOLEAN /\ unswept' \in BOOLEAN /\ misled' \in BOOLEAN
    BY <1>e, <2>1 DEF Withdrawal
  <2>5. QED
    BY <2>3, <2>4
<1>3. CASE Gone
  <2>1. Withdrawal(AgedBox(outbox)) /\ sent' = sent
    BY <1>3 DEF Gone, mqttState
  <2>2. QED
    BY <1>3, <1>a, <1>d, <1>e, <2>1 DEF Gone, Link!Forget, mqttState
<1>f. CASE Reset
  <2>1. outbox' \in Seq(Message) /\ sent' \in 0..Len(outbox')
    BY <1>f, <1>d DEF Reset, mqttState, Box
  <2>2. QED
    BY <1>f, <1>a, <2>1 DEF Reset, Link!Reset, mqttState
<1>g. CASE Withdrawn
  <2>1. Withdrawal(outbox) /\ sent' = sent
    BY <1>g DEF Withdrawn, mqttState
  <2>2. QED
    BY <1>g, <1>0, <1>e, <2>1 DEF Withdrawn, Link!Withdraw, mqttState
<1>4. ASSUME publish_char_value, sent' = sent
      PROVE  outbox' \in Seq(Message) /\ sent' \in 0..Len(outbox') /\ stray' \in BOOLEAN
  BY <1>4, <1>0, Messages, PublishType DEF publish_char_value
<1>5. CASE Notified
  BY <1>4, <1>5 DEF Notified, sensor, mqttState
<1>6. CASE poll_read_characteristics
  BY <1>6 DEF poll_read_characteristics, mqttState
<1>7. CASE on_gatt_read
  BY <1>4, <1>7 DEF on_gatt_read, mqttState
<1>8. CASE Register
  BY <1>8 DEF Register, sensor
<1>9. CASE MqttConnected
  <2>1. 0 \in 0..Len(outbox)
    BY <1>0
  <2>2. outbox' \in Seq(Message) /\ sent' \in 0..Len(outbox')
    BY <1>9, <1>0, <2>1, Messages, PublishType DEF MqttConnected
  <2>3. retained' \in [Topic -> Payload] /\ greeting' \in {"no", "true", "false"}
    BY <1>9, <1>c DEF MqttConnected, Bool
  <2>4. QED
    BY <1>9, <2>2, <2>3 DEF MqttConnected, sensor
<1>10. CASE on_mqtt_connected
  <2>1. sent' = sent
    BY <1>10 DEF on_mqtt_connected
  <2>2. outbox' \in Seq(Message) /\ sent' \in 0..Len(outbox')
    BY <1>10, <1>0, <2>1, GreetingPublished, PublishType
  <2>3. stray' \in BOOLEAN /\ unswept' \in BOOLEAN /\ misled' \in BOOLEAN
    BY <1>10 DEF on_mqtt_connected
  <2>4. QED
    BY <1>10, <2>2, <2>3 DEF on_mqtt_connected, sensor
<1>11. CASE Received
  <2>1. sent' \in DOMAIN outbox /\ outbox[sent'] \in Message
    BY <1>11, <1>0, LenProperties DEF Received, Box
  <2>2. retained' \in [Topic -> Payload]
    BY <1>11, <1>b, <2>1 DEF Received, Message
  <2>3. QED
    BY <1>11, <1>0, <2>2 DEF Received, sensor
<1>12. CASE Acknowledged
  <2>1. outbox # <<>>
    BY <1>12, <1>0, EmptySeq DEF Acknowledged
  <2>2. Tail(outbox) \in Seq(Message) /\ Len(Tail(outbox)) = Len(outbox) - 1
    BY <1>0, <2>1, Leaving DEF Box
  <2>3. QED
    BY <1>12, <1>0, <2>2 DEF Acknowledged, sensor
<1>13. CASE Broken
  BY <1>13 DEF Broken, sensor
<1>14. CASE Noticed
  BY <1>14, <1>c DEF Noticed, sensor
<1>15. CASE Expired
  <2>1. Tail(outbox) \in Seq(Message) /\ Len(Tail(outbox)) = Len(outbox) - 1
    BY <1>15, <1>0, Leaving DEF Box, Expired
  <2>2. QED
    BY <1>15, <1>0, <2>1 DEF Expired, sensor
<1>16. CASE Restart
  <2>1. <<>> \in Seq(Message) /\ 0 \in 0..Len(<<>>)
    BY EmptySeq
  <2>2. session' \in {"up", "broken", "down"} /\ unswept' \in BOOLEAN
    BY <1>16 DEF Restart
  <2>3. QED
    BY <1>16, <1>a, <2>1, <2>2 DEF Restart
<1>17. CASE UNCHANGED vars
  BY <1>17 DEF vars, sensor
<1>18. QED
  BY <1>1, <1>2, <1>3, <1>f, <1>g, <1>5, <1>6, <1>7, <1>8, <1>9, <1>10, <1>11, <1>12, <1>13,
     <1>14, <1>15, <1>16, <1>17 DEF Next

\* Every variable stays within its values (main.cpp, mqtt_publisher.cpp).
THEOREM TypeCorrect == Spec => []TypeOK
BY InitType, NextType, PTL DEF Spec

-----------------------------------------------------------------------------
(***************************************************************************)
(* What the broker holds of the messages that it has received.             *)
(***************************************************************************)

\* What is published later changes nothing.
LEMMA KeptLonger ==
    ASSUME NEW box \in Box, NEW messages \in Box, NEW n \in 0..Len(box), NEW r,
           Kept(box, n, r)
    PROVE  Kept(box \o messages, n, r)
<1>1. \A j \in 1..n : j \in 1..Len(box) /\ (box \o messages)[j] = box[j]
  BY Publishing
<1>2. QED
  BY <1>1 DEF Kept

\* The values age where they are retained as they do where they wait.
LEMMA KeptAged ==
    ASSUME NEW box \in Box, NEW n \in 0..Len(box), NEW r \in [Topic -> Payload],
           OnlyValues(box), Kept(box, n, r)
    PROVE  Kept(AgedBox(box), n, AgedRetained(r))
<1>1. \A j \in 1..n : j \in DOMAIN box
  BY LenProperties DEF Box
<1>2. ASSUME NEW k \in 1..n, NEW t \in Topic, box[k].topic = t, box[k].payload = r[t]
      PROVE  AgedBox(box)[k].payload = AgedRetained(r)[t]
  <2>1. AgedBox(box)[k].payload = Aged(r[t])
    BY <1>1, <1>2, Ageing
  <2>2. CASE t = "value"
    BY <2>1, <2>2 DEF AgedRetained, Topic
  <2>3. CASE t # "value"
    <3>1. r[t] # "this"
      BY <1>1, <1>2, <2>3 DEF OnlyValues
    <3>2. QED
      BY <2>1, <2>3, <3>1 DEF AgedRetained, Aged
  <2>4. QED
    BY <2>2, <2>3
<1>3. \A j \in 1..n : AgedBox(box)[j].topic = box[j].topic
  BY <1>1, Ageing
<1>4. QED
  BY <1>2, <1>3 DEF Kept

\* The next message is retained when it is received.
LEMMA KeptReceived ==
    ASSUME NEW box \in Box, NEW n \in Nat, n < Len(box), NEW r \in [Topic -> Payload],
           Kept(box, n, r)
    PROVE  Kept(box, n + 1, [r EXCEPT ![box[n + 1].topic] = box[n + 1].payload])
<1> DEFINE next == [r EXCEPT ![box[n + 1].topic] = box[n + 1].payload]
<1>1. n + 1 \in 1..(n + 1) /\ \A j \in 1..(n + 1) : j \in 1..n \/ j = n + 1
  OBVIOUS
<1>2. box[n + 1] \in Message
  BY LenProperties DEF Box
<1>3. ASSUME NEW t \in Topic
      PROVE  \/ \A j \in 1..(n + 1) : box[j].topic # t
             \/ \E k \in 1..(n + 1) :
                   /\ box[k].topic = t /\ box[k].payload = next[t]
                   /\ \A j \in 1..(n + 1) : j > k => box[j].topic # t
  <2>1. CASE box[n + 1].topic = t
    <3>1. next[t] = box[n + 1].payload
      BY <1>2, <2>1 DEF Message
    <3>2. \A j \in 1..(n + 1) : ~(j > n + 1)
      OBVIOUS
    <3>3. QED
      BY <1>1, <2>1, <3>1, <3>2
  <2>2. CASE box[n + 1].topic # t
    <3>1. next[t] = r[t]
      BY <1>2, <2>2 DEF Message
    <3>2. \/ \A j \in 1..n : box[j].topic # t
          \/ \E k \in 1..n :
                /\ box[k].topic = t /\ box[k].payload = r[t]
                /\ \A j \in 1..n : j > k => box[j].topic # t
      BY DEF Kept
    <3>3. 1..n \subseteq 1..(n + 1)
      OBVIOUS
    <3> HIDE DEF next
    <3>4. QED
      BY <1>1, <2>2, <3>1, <3>2, <3>3
  <2>3. QED
    BY <2>1, <2>2
<1>4. QED
  BY <1>3 DEF Kept

\* An acknowledged message need not be remembered.
LEMMA KeptAcknowledged ==
    ASSUME NEW box \in Box, NEW n \in 1..Len(box), NEW r, Kept(box, n, r)
    PROVE  Kept(Tail(box), n - 1, r)
<1>1. box # <<>> /\ Len(box) \in Nat
  BY EmptySeq, LenProperties DEF Box
<1>2. \A j \in 1..(n - 1) : j + 1 \in 1..n /\ Tail(box)[j] = box[j + 1]
  BY <1>1, Leaving
<1>3. ASSUME NEW t \in Topic
      PROVE  \/ \A j \in 1..(n - 1) : Tail(box)[j].topic # t
             \/ \E k \in 1..(n - 1) :
                   /\ Tail(box)[k].topic = t /\ Tail(box)[k].payload = r[t]
                   /\ \A j \in 1..(n - 1) : j > k => Tail(box)[j].topic # t
  <2>1. CASE \A j \in 1..n : box[j].topic # t
    BY <1>2, <2>1
  <2>2. ASSUME NEW k \in 1..n, box[k].topic = t, box[k].payload = r[t],
               \A j \in 1..n : j > k => box[j].topic # t
        PROVE  \/ \A j \in 1..(n - 1) : Tail(box)[j].topic # t
               \/ \E i \in 1..(n - 1) :
                     /\ Tail(box)[i].topic = t /\ Tail(box)[i].payload = r[t]
                     /\ \A j \in 1..(n - 1) : j > i => Tail(box)[j].topic # t
    <3>1. CASE k = 1
      BY <1>2, <2>2, <3>1
    <3>2. CASE k > 1
      <4>1. k - 1 \in 1..(n - 1) /\ Tail(box)[k - 1] = box[k]
        BY <1>2, <3>2
      <4>2. \A j \in 1..(n - 1) : j > k - 1 => Tail(box)[j].topic # t
        BY <1>2, <2>2
      <4>3. QED
        BY <2>2, <4>1, <4>2
    <3>3. QED
      BY <3>1, <3>2
  <2>3. QED
    BY <2>1, <2>2 DEF Kept
<1>4. QED
  BY <1>3 DEF Kept

-----------------------------------------------------------------------------
(***************************************************************************)
(* The steps that concern the queue, in its terms.                         *)
(***************************************************************************)

\* What a step adds to the queue it found, or found aged.
Adds(box, messages) == outbox' = box \o messages /\ messages \in Box /\ box \in Box

\* The queue of a reachable state, and what has been sent of it.
LEMMA Queue ==
    ASSUME TypeOK
    PROVE  /\ outbox \in Box /\ Len(outbox) \in Nat /\ DOMAIN outbox = 1..Len(outbox)
           /\ sent \in Nat /\ sent <= Len(outbox)
           /\ retained \in [Topic -> Payload] /\ retained["value"] \in Payload
           /\ AgedBox(outbox) \in Box /\ <<>> \in Box
<1>1. outbox \in Box /\ <<>> \in Box
  BY EmptySeq DEF TypeOK, Box
<1>2. Len(outbox) \in Nat /\ DOMAIN outbox = 1..Len(outbox)
  BY <1>1, LenProperties DEF Box
<1>3. QED
  BY <1>1, <1>2, Ageing DEF TypeOK, Topic

\* A value adds a message of topic "value", of this connection if handles are known.
LEMMA ValueAdded ==
    ASSUME TypeOK, publish_char_value
    PROVE  \E p \in {"this", "old"} :
              /\ p = IF handles THEN "this" ELSE "old"
              /\ Adds(outbox, <<Value(p)>>) /\ <<Value(p)>>[1] = Value(p)
              /\ DOMAIN <<Value(p)>> = 1..1 /\ stray' = (stray \/ ~ble)
<1>1. outbox' = outbox \o <<Value(IF handles THEN "this" ELSE "old")>>
  BY DEF publish_char_value, publish_raw
<1>2. \A p \in {"this", "old"} : /\ <<Value(p)>> \in Box /\ <<Value(p)>>[1] = Value(p)
                                 /\ DOMAIN <<Value(p)>> = 1..1
  <2>1. TAKE p \in {"this", "old"}
  <2>2. <<Value(p)>> \in Box
    BY Messages
  <2>3. Len(<<Value(p)>>) = 1
    OBVIOUS
  <2>4. QED
    BY <2>2, <2>3, LenProperties DEF Box
<1>3. outbox \in Box
  BY Queue
<1>4. stray' = (stray \/ ~ble)
  BY DEF publish_char_value
<1>5. QED
  BY <1>1, <1>2, <1>3, <1>4 DEF Adds

\* What SetUp publishes.
LEMMA ReportThere ==
    /\ There \in Box /\ DOMAIN There = 1..1 /\ \A j \in DOMAIN There : j = 1
    /\ There[1] = [topic |-> "ble_connected", payload |-> "true"] /\ There[1].payload = "true"
    /\ ~Swept(There)
<1>1. There = <<[topic |-> "ble_connected", payload |-> "true"]>>
  BY Reports
<1>2. There \in Box /\ ~Swept(There)
  BY Reports
<1>3. Len(There) = 1
  BY <1>1
<1>4. There[1] = [topic |-> "ble_connected", payload |-> "true"]
  BY <1>1
<1>5. DOMAIN There = 1..1 /\ \A j \in 1..1 : j = 1
  BY <1>2, <1>3, LenProperties DEF Box
<1>6. There[1].payload = "true"
  BY <1>4
<1>7. QED
  BY <1>2, <1>4, <1>5, <1>6

\* What Gone publishes.
LEMMA ReportAway ==
    /\ Away \in Box /\ Len(Away) = 2
    /\ DOMAIN Away = 1..2 /\ \A j \in DOMAIN Away : j = 1 \/ j = 2
    /\ Away[1] = [topic |-> "ble_connected", payload |-> "false"] /\ Away[1].payload = "false"
    /\ Away[2] = Cleared /\ Cleared = [topic |-> "value", payload |-> ""]
    /\ Away[2].topic = "value" /\ Away[2].payload = ""
    /\ Swept(Away)
<1>1. Away =
          <<[topic |-> "ble_connected", payload |-> "false"], Cleared>>
  BY Reports
<1>2. Away \in Box /\ Swept(Away)
  BY Reports
<1>3. Len(Away) = 2
  BY <1>1
<1>4. /\ Away[1] = [topic |-> "ble_connected", payload |-> "false"]
      /\ Away[2] = Cleared
  BY <1>1
<1>5. DOMAIN Away = 1..2 /\ \A j \in 1..2 : j = 1 \/ j = 2
  BY <1>2, <1>3, LenProperties DEF Box
<1>6. Cleared = [topic |-> "value", payload |-> ""]
  BY DEF Cleared, Value
<1>7. Cleared.topic = "value" /\ Cleared.payload = ""
  BY <1>6
<1>8. Away[1].payload = "false" /\ Away[2].topic = "value" /\ Away[2].payload = ""
  <2>1. Away[1].payload = "false"
    BY <1>4
  <2>2. Away[2] = Cleared
    BY <1>4
  <2>3. QED
    BY <1>7, <2>1, <2>2
<1>9. QED
  BY <1>2, <1>3, <1>4, <1>5, <1>6, <1>8

\* A report of either state begins with the state, and goes on with other topics.
LEMMA ReportAdded ==
    ASSUME NEW b \in BOOLEAN, NEW report, report = IF b THEN There ELSE Away
    PROVE  /\ 1 \in DOMAIN report
           /\ report[1] = [topic |-> "ble_connected", payload |-> Bool(b)]
           /\ \A j \in DOMAIN report : j > 1 => report[j].topic # "ble_connected"
<1>1. CASE b
  <2>1. Bool(b) = "true" /\ 1 \in 1..1 /\ ~(1 > 1)
    BY <1>1 DEF Bool
  <2>2. QED
    BY <1>1, <2>1, ReportThere
<1>2. CASE ~b
  <2>1. Bool(b) = "false" /\ 1 \in 1..2 /\ ~(1 > 1)
    BY <1>2 DEF Bool
  <2>2. /\ 1 \in DOMAIN Away /\ Away[1] = [topic |-> "ble_connected", payload |-> Bool(b)]
        /\ Away[2].topic # "ble_connected"
    BY <2>1, ReportAway
  <2>3. \A j \in DOMAIN Away : j > 1 => j = 2
    <3>1. \A j \in 1..2 : j > 1 => j = 2
      OBVIOUS
    <3>2. DOMAIN Away = 1..2
      BY ReportAway
    <3>3. QED
      BY <3>1, <3>2
  <2>4. QED
    BY <1>2, <2>2, <2>3
<1>3. QED
  BY <1>1, <1>2

\* What is added are old messages or new ones.
LEMMA Added ==
    ASSUME NEW box \in Box, NEW messages \in Box, NEW i \in DOMAIN (box \o messages)
    PROVE  \/ i \in DOMAIN box /\ (box \o messages)[i] = box[i]
           \/ \E k \in DOMAIN messages :
                 i = Len(box) + k /\ (box \o messages)[i] = messages[k]
<1> DEFINE new == box \o messages
<1>1. /\ DOMAIN box = 1..Len(box) /\ DOMAIN messages = 1..Len(messages)
      /\ DOMAIN new = 1..(Len(box) + Len(messages))
      /\ Len(box) \in Nat /\ Len(messages) \in Nat
      /\ \A j \in 1..Len(box) : new[j] = box[j]
      /\ \A j \in 1..Len(messages) : new[Len(box) + j] = messages[j]
  BY Publishing
<1>2. i \in DOMAIN new
  OBVIOUS
<1> HIDE DEF new
<1>3. CASE i <= Len(box)
  BY <1>1, <1>2, <1>3 DEF new
<1>4. CASE i > Len(box)
  <2>1. i - Len(box) \in DOMAIN messages /\ i = Len(box) + (i - Len(box))
    BY <1>1, <1>2, <1>4
  <2>2. new[i] = messages[i - Len(box)]
    BY <1>1, <2>1
  <2>3. QED
    BY <2>1, <2>2 DEF new
<1>5. QED
  BY <1>1, <1>2, <1>3, <1>4

-----------------------------------------------------------------------------
(***************************************************************************)
(* Clearing.                                                               *)
(***************************************************************************)

\* A clearing is no stale value itself.
LEMMA ClearedIsNot ==
    /\ Cleared.payload = "" /\ Cleared.topic = "value"
    /\ \A b \in BOOLEAN, p \in {"", "online", "true", "false"} : ~Stale(p, b)
    /\ ~Stale("this", TRUE)
BY DEF Cleared, Value, Stale

\* What ends with a clearing leaves nothing stale.
LEMMA ClearsAll ==
    ASSUME NEW box \in Box, NEW r, NEW b \in BOOLEAN, NEW n \in DOMAIN box,
           n = Len(box), box[n] = Cleared
    PROVE  Clears(box, r, b)
<1>1. DOMAIN box = 1..Len(box) /\ Len(box) \in Nat
  BY LenProperties DEF Box
<1>2. \A i \in DOMAIN box : i < n \/ i = n
  BY <1>1
<1>3. ~Stale(box[n].payload, b)
  BY ClearedIsNot
<1>4. QED
  BY <1>1, <1>2, <1>3 DEF Clears

\* Messages that are not stale may follow.
LEMMA ClearsLonger ==
    ASSUME NEW box \in Box, NEW messages \in Box, NEW r, NEW b \in BOOLEAN,
           Clears(box, r, b),
           \A k \in DOMAIN messages : ~Stale(messages[k].payload, b)
    PROVE  Clears(box \o messages, r, b)
<1> DEFINE new == box \o messages
<1>1. \A i \in DOMAIN new : Stale(new[i].payload, b) => i \in DOMAIN box /\ new[i] = box[i]
  BY Added
<1>2. \A i \in DOMAIN box : i \in DOMAIN new /\ new[i] = box[i]
  <2>1. /\ DOMAIN box = 1..Len(box) /\ DOMAIN new = 1..(Len(box) + Len(messages))
        /\ Len(box) \in Nat /\ Len(messages) \in Nat
        /\ \A i \in 1..Len(box) : new[i] = box[i]
    BY Publishing
  <2> HIDE DEF new
  <2>2. QED
    BY <2>1
<1> HIDE DEF new
<1>3. Clears(new, r, b)
  BY <1>1, <1>2 DEF Clears
<1>4. QED
  BY <1>3 DEF new

\* While the sensor is away, ageing makes nothing stale that was not.
LEMMA ClearsAged ==
    ASSUME NEW box \in Box, NEW r \in [Topic -> Payload], Clears(box, r, FALSE)
    PROVE  Clears(AgedBox(box), AgedRetained(r), FALSE)
<1>1. \A p : Stale(Aged(p), FALSE) => Stale(p, FALSE)
  BY DEF Stale, Aged
<1>2. AgedRetained(r)["value"] = Aged(r["value"])
  BY DEF AgedRetained, Topic
<1>3. \A i \in DOMAIN box : box[i] = Cleared => AgedBox(box)[i] = Cleared
  <2>1. Cleared = [topic |-> "value", payload |-> ""] /\ Aged("") = ""
    BY DEF Cleared, Value, Aged
  <2>2. ASSUME NEW i \in DOMAIN box, NEW t, NEW p, Aged(p) = p,
               box[i] = [topic |-> t, payload |-> p]
        PROVE  AgedBox(box)[i] = box[i]
    BY <2>2 DEF AgedBox
  <2>3. QED
    BY <2>1, <2>2
<1>4. /\ DOMAIN AgedBox(box) = DOMAIN box
      /\ \A i \in DOMAIN box : AgedBox(box)[i].payload = Aged(box[i].payload)
  BY Ageing
<1>5. QED
  BY <1>1, <1>2, <1>3, <1>4 DEF Clears

\* A stale value that is received is among those that a clearing follows.
LEMMA ClearsReceived ==
    ASSUME NEW box \in Box, NEW r \in [Topic -> Payload], NEW b \in BOOLEAN,
           NEW n \in DOMAIN box, Clears(box, r, b)
    PROVE  Clears(box, [r EXCEPT ![box[n].topic] = box[n].payload], b)
<1>1. CASE box[n].topic = "value"
  BY <1>1 DEF Clears, Topic
<1>2. CASE box[n].topic # "value"
  BY <1>2 DEF Clears, Topic
<1>3. QED
  BY <1>1, <1>2

\* A message that leaves the queue takes no clearing with it, unless it is one.
LEMMA ClearsLess ==
    ASSUME NEW box \in Box, box # <<>>, NEW r, NEW b \in BOOLEAN, Clears(box, r, b),
           Head(box) = Cleared /\ Stale(r["value"], b)
               => \E j \in DOMAIN box : j > 1 /\ box[j] = Cleared
    PROVE  Clears(Tail(box), r, b)
<1>1. /\ DOMAIN box = 1..Len(box) /\ Len(box) \in Nat \ {0} /\ Head(box) = box[1]
      /\ DOMAIN Tail(box) = 1..(Len(box) - 1)
      /\ \A j \in 1..(Len(box) - 1) : Tail(box)[j] = box[j + 1]
  BY Leaving
<1>2. \A j \in DOMAIN box : j > 1 => /\ j - 1 \in DOMAIN Tail(box)
                                     /\ Tail(box)[j - 1] = box[j]
  BY <1>1
<1>3. ASSUME NEW i \in DOMAIN Tail(box), Stale(Tail(box)[i].payload, b)
      PROVE  \E j \in DOMAIN Tail(box) : j > i /\ Tail(box)[j] = Cleared
  <2>1. i + 1 \in DOMAIN box /\ Stale(box[i + 1].payload, b)
    BY <1>1, <1>3
  <2>2. PICK j \in DOMAIN box : j > i + 1 /\ box[j] = Cleared
    BY <2>1 DEF Clears
  <2>3. j - 1 \in DOMAIN Tail(box) /\ j - 1 > i /\ Tail(box)[j - 1] = Cleared
    BY <1>1, <2>2
  <2>4. QED
    BY <2>3
<1>4. ASSUME Stale(r["value"], b)
      PROVE  \E j \in DOMAIN Tail(box) : Tail(box)[j] = Cleared
  <2>1. PICK j \in DOMAIN box : j > 1 /\ box[j] = Cleared
    <3>1. PICK j \in DOMAIN box : box[j] = Cleared
      BY <1>4 DEF Clears
    <3>2. CASE j = 1
      BY <1>1, <1>4, <3>1, <3>2
    <3>3. CASE j # 1
      BY <1>1, <3>1, <3>3
    <3>4. QED
      BY <3>2, <3>3
  <2>2. QED
    BY <1>2, <2>1
<1>5. QED
  BY <1>3, <1>4 DEF Clears

-----------------------------------------------------------------------------
(***************************************************************************)
(* The steps, by what they do to the queue.                                *)
(***************************************************************************)

\* Steps that change neither the queue nor what the broker holds of the sensor.
Aside ==
    /\ outbox' = outbox /\ sent' = sent /\ retained' = retained /\ session' = session
    /\ ble' = ble /\ resetting' = resetting /\ greeting' = greeting
    /\ stray' = stray /\ unswept' = unswept /\ misled' = misled

\* Steps that put messages behind those that wait.
Appends(messages) ==
    /\ Adds(outbox, messages)
    /\ sent' = sent /\ retained' = retained /\ session' = session

\* Steps after which no session is up.
Off == session' # "up"

\* The steps of the BLE client's tasks, and of the MQTT client's, by these kinds.
LEMMA Kinds ==
    ASSUME TypeOK, [Next]_vars
    PROVE  \/ Aside
           \/ SetUp /\ Appends(There)
           \/ Gone \/ Reset \/ Withdrawn
           \/ publish_char_value /\ Notified
           \/ publish_char_value /\ on_gatt_read
           \/ MqttConnected
           \/ on_mqtt_connected /\ Appends(Greeting)
           \/ Received
           \/ Acknowledged
           \/ Off /\ Noticed
           \/ Off /\ Broken
           \/ Off /\ Expired
           \/ Off /\ Restart
<1>1. CASE Matched
  BY <1>1 DEF Matched, Link!Match, Aside, mqttState
<1>2. CASE SetUp
  <2>1. outbox \in Box /\ There \in Box
    BY Queue, Reports
  <2>2. QED
    BY <1>2, <2>1 DEF SetUp, There, Appends, Adds, publish_raw, mqttState
<1>3. CASE Gone \/ Reset \/ Withdrawn
  BY <1>3
<1>4. CASE Notified
  BY <1>4 DEF Notified
<1>5. CASE poll_read_characteristics
  BY <1>5 DEF poll_read_characteristics, Aside, mqttState
<1>6. CASE on_gatt_read
  BY <1>6 DEF on_gatt_read, Aside, mqttState
<1>7. CASE Register
  BY <1>7 DEF Register, Aside, sensor
<1>8. CASE MqttConnected
  BY <1>8
<1>9. CASE on_mqtt_connected
  <2>1. publish_raw(outbox, Greeting) /\ Greeting \in Box /\ outbox \in Box
    BY <1>9, GreetingPublished, Queue
  <2>2. QED
    BY <1>9, <2>1 DEF on_mqtt_connected, Appends, Adds, publish_raw
<1>10. CASE Received \/ Acknowledged
  BY <1>10
<1>11. CASE Noticed \/ Broken \/ Expired \/ Restart
  BY <1>11 DEF Noticed, Broken, Expired, Restart, Off
<1>12. CASE UNCHANGED vars
  BY <1>12 DEF vars, Aside, sensor
<1>13. QED
  BY <1>1, <1>2, <1>3, <1>4, <1>5, <1>6, <1>7, <1>8, <1>9, <1>10, <1>11, <1>12 DEF Next

\* A value that is published is appended.
LEMMA ValueAppended ==
    ASSUME TypeOK, publish_char_value, Notified \/ on_gatt_read
    PROVE  \E p \in {"this", "old"} :
              /\ p = IF handles THEN "this" ELSE "old"
              /\ Appends(<<Value(p)>>)
              /\ <<Value(p)>>[1] = Value(p) /\ DOMAIN <<Value(p)>> = 1..1
              /\ stray' = (stray \/ ~ble)
<1>1. sent' = sent /\ retained' = retained /\ session' = session
  BY DEF Notified, on_gatt_read, mqttState
<1>2. QED
  BY <1>1, ValueAdded DEF Appends

\* set_ble_connected(false): a sensor that was reported is reported as away.
LEMMA WithdrawalAdds ==
    ASSUME TypeOK, NEW box \in Box, Withdrawal(box)
    PROVE  /\ misled' = (misled /\ ~ble)
           /\ ble => Adds(box, Away) /\ ~stray' /\ ~unswept'
           /\ ~ble => outbox' = box /\ stray' = stray /\ unswept' = unswept
<1>1. Away \in Box
  BY Reports
<1>2. box \o <<>> = box
  BY ConcatEmptySeq DEF Box
<1>3. Swept(Away) /\ ~Swept(<<>>)
  <2>1. ~Swept(<<>>)
    BY DEF Swept
  <2>2. QED
    BY <2>1, Reports
<1>4. CASE ble
  BY <1>1, <1>3, <1>4 DEF Withdrawal, Away, publish_raw, Adds, TypeOK
<1>5. CASE ~ble
  BY <1>2, <1>3, <1>5 DEF Withdrawal, publish_raw, TypeOK
<1>6. QED
  BY <1>4, <1>5 DEF Withdrawal

\* Gone: the queue ages, and the report is withdrawn.
LEMMA GoneAdds ==
    ASSUME TypeOK, Gone
    PROVE  /\ ~ble' /\ session' = session /\ greeting' = greeting /\ sent' = sent
           /\ misled' = (misled /\ ~ble)
           /\ retained' = AgedRetained(retained)
           /\ ble => /\ Adds(AgedBox(outbox), Away)
                     /\ ~stray' /\ ~unswept'
           /\ ~ble => /\ outbox' = AgedBox(outbox)
                      /\ stray' = stray /\ unswept' = unswept
<1>1. AgedBox(outbox) \in Box /\ Withdrawal(AgedBox(outbox))
  BY Queue DEF Gone
<1>2. QED
  BY <1>1, WithdrawalAdds DEF Gone, Link!Forget, mqttState

\* Reset: the queue ages, and nothing is reported.
LEMMA ResetAges ==
    ASSUME TypeOK, Reset
    PROVE  /\ resetting' /\ ble' = ble
           /\ session' = session /\ greeting' = greeting /\ sent' = sent
           /\ retained' = AgedRetained(retained) /\ outbox' = AgedBox(outbox)
           /\ stray' = stray /\ unswept' = unswept /\ misled' = misled
BY DEF Reset, Link!Reset, mqttState

\* Withdrawn: the report is withdrawn.
LEMMA WithdrawnAdds ==
    ASSUME TypeOK, Withdrawn
    PROVE  /\ ~ble' /\ session' = session /\ greeting' = greeting /\ sent' = sent
           /\ misled' = (misled /\ ~ble)
           /\ retained' = retained
           /\ ble => /\ Adds(outbox, Away)
                     /\ ~stray' /\ ~unswept'
           /\ ~ble => /\ outbox' = outbox
                      /\ stray' = stray /\ unswept' = unswept
<1>1. outbox \in Box /\ Withdrawal(outbox)
  BY Queue DEF Withdrawn
<1>2. QED
  BY <1>1, WithdrawalAdds DEF Withdrawn, Link!Withdraw, mqttState

\* What the queue and the broker are after a message was acknowledged or given up.
LEMMA AcknowledgedLeaves ==
    ASSUME TypeOK, Acknowledged
    PROVE  /\ outbox # <<>> /\ outbox' = Tail(outbox) /\ sent \in 1..Len(outbox)
           /\ sent' = sent - 1 /\ retained' = retained /\ session' = session
           /\ session = "up" /\ greeting' = greeting
           /\ ble' = ble /\ resetting' = resetting
           /\ stray' = stray /\ unswept' = unswept /\ misled' = misled
<1>1. outbox # <<>>
  BY EmptySeq DEF Acknowledged, TypeOK
<1>2. sent \in 1..Len(outbox)
  BY Queue DEF Acknowledged
<1>3. QED
  BY <1>1, <1>2 DEF Acknowledged, sensor

\* What the broker is after it has received a message.
LEMMA ReceivedRetains ==
    ASSUME TypeOK, Received
    PROVE  /\ sent + 1 \in DOMAIN outbox /\ sent < Len(outbox) /\ sent' = sent + 1
           /\ retained' = [retained EXCEPT ![outbox[sent + 1].topic] = outbox[sent + 1].payload]
           /\ outbox' = outbox /\ session' = session /\ session = "up"
           /\ ble' = ble /\ resetting' = resetting /\ greeting' = greeting
           /\ stray' = stray /\ unswept' = unswept /\ misled' = misled
BY Queue DEF Received, sensor

-----------------------------------------------------------------------------
(***************************************************************************)
(* Every step keeps the invariant, part by part.                           *)
(***************************************************************************)

\* The initial state: nothing is queued, and no session is up.
LEMMA InitRInv == Init => RInv
<1> SUFFICES ASSUME Init PROVE RInv
  OBVIOUS
<1>1. TypeOK
  BY InitType
<1>2. DOMAIN outbox = {} /\ session = "down" /\ retained["value"] = "" /\ ~ble /\ ~reading
  <2>1. DOMAIN outbox = 1..0
    BY <1>1, LenProperties, EmptySeq DEF Init, TypeOK
  <2>2. session = "down" /\ ~ble /\ ~reading
    BY DEF Init, Link!Init
  <2>3. retained["value"] = ""
    BY DEF Init, Topic
  <2>4. 1..0 = {}
    OBVIOUS
  <2>5. QED
    BY <2>1, <2>2, <2>3, <2>4
<1>3. StaleSwept
  BY <1>2 DEF StaleSwept, Clears, Stale
<1>4. QED
  BY <1>1, <1>2, <1>3 DEF RInv, InOrder, ReportPublished, ValueCleared, Greeted, ReadingKnown,
     ValuesAge, OnlyValues

\* What the session has brought stays retained, in the order of the queue.
LEMMA NextInOrder ==
    ASSUME TypeOK, InOrder, ValuesAge, [Next]_vars
    PROVE  InOrder'
<1> SUFFICES ASSUME session' = "up" PROVE Kept(outbox', sent', retained')
  BY DEF InOrder
<1>0. outbox \in Box /\ sent \in 0..Len(outbox) /\ retained \in [Topic -> Payload]
  BY Queue
<1>1. CASE Aside
  BY <1>1 DEF Aside, InOrder
<1>2. ASSUME NEW messages, Appends(messages)
      PROVE  Kept(outbox', sent', retained')
  BY <1>0, <1>2, KeptLonger DEF Appends, Adds, InOrder
<1>a. ASSUME Gone \/ Reset
      PROVE  Kept(AgedBox(outbox), sent, AgedRetained(retained))
  <2>1. session = "up"
    BY <1>a, GoneAdds, ResetAges
  <2>2. QED
    BY <1>0, <2>1, KeptAged DEF InOrder, ValuesAge
<1>3. CASE Gone
  <2>1. Kept(AgedBox(outbox), sent, AgedRetained(retained))
    BY <1>3, <1>a
  <2>2. sent \in 0..Len(AgedBox(outbox))
    BY <1>0, Ageing
  <2>3. CASE ble
    BY <1>3, <2>1, <2>2, <2>3, GoneAdds, KeptLonger DEF Adds
  <2>4. CASE ~ble
    BY <1>3, <2>1, <2>4, GoneAdds
  <2>5. QED
    BY <2>3, <2>4
<1>b. CASE Reset
  BY <1>a, <1>b, ResetAges
<1>c. CASE Withdrawn
  <2>1. CASE ble
    BY <1>0, <1>c, <2>1, WithdrawnAdds, KeptLonger DEF Adds, InOrder
  <2>2. CASE ~ble
    BY <1>c, <2>2, WithdrawnAdds DEF InOrder
  <2>3. QED
    BY <2>1, <2>2
<1>4. CASE publish_char_value /\ (Notified \/ on_gatt_read)
  BY <1>2, <1>4, ValueAppended
<1>5. CASE MqttConnected
  BY <1>5 DEF MqttConnected, Kept
<1>6. CASE Received
  BY <1>0, <1>6, ReceivedRetains, KeptReceived DEF InOrder
<1>7. CASE Acknowledged
  BY <1>0, <1>7, AcknowledgedLeaves, KeptAcknowledged DEF InOrder
<1>8. ~Off
  BY DEF Off
<1>9. QED
  BY <1>1, <1>2, <1>3, <1>b, <1>c, <1>4, <1>5, <1>6, <1>7, <1>8, Kinds

\* Received and Acknowledged change nothing that a topic settles to.
LEMMA SettlesDelivered ==
    ASSUME TypeOK, InOrder, Received \/ Acknowledged, NEW t \in Topic, NEW p,
           Settles(outbox, retained, t, p)
    PROVE  Settles(outbox', retained', t, p)
<1>0. outbox \in Box /\ retained \in [Topic -> Payload]
  BY Queue
<1>1. CASE Received
  BY <1>0, <1>1, ReceivedRetains, SettlesReceived
<1>2. CASE Acknowledged
  <2>1. outbox # <<>> /\ sent \in 1..Len(outbox) /\ Kept(outbox, sent, retained)
    BY <1>2, AcknowledgedLeaves DEF InOrder
  <2>2. Head(outbox) = outbox[1] /\ Len(outbox) \in Nat
    BY <1>0, <2>1, Leaving
  <2>3. ASSUME Head(outbox).topic = t, \A j \in 2..Len(outbox) : outbox[j].topic # t
        PROVE  retained[t] = Head(outbox).payload
    <3>1. PICK k \in 1..sent : outbox[k].topic = t /\ outbox[k].payload = retained[t]
      <4>1. 1 \in 1..sent /\ outbox[1].topic = t
        BY <2>1, <2>2, <2>3
      <4>2. QED
        BY <2>1, <4>1 DEF Kept
    <3>2. k = 1
      BY <2>1, <2>2, <2>3, <3>1
    <3>3. QED
      BY <2>2, <3>1, <3>2
  <2>4. Settles(Tail(outbox), retained, t, p)
    BY <1>0, <2>1, <2>3, SettlesAcknowledged
  <2>5. QED
    BY <1>2, <2>4, AcknowledgedLeaves
<1>3. QED
  BY <1>1, <1>2

\* A step that reports nothing does not change what a topic settles to.
LEMMA SettlesAway ==
    ASSUME TypeOK, (Gone /\ ~ble) \/ Reset \/ (Withdrawn /\ ~ble),
           NEW t \in Topic, NEW p \in Payload \ {"this"},
           Settles(outbox, retained, t, p)
    PROVE  Settles(outbox', retained', t, p)
<1>1. CASE Withdrawn /\ ~ble
  BY <1>1, WithdrawnAdds
<1>2. CASE (Gone /\ ~ble) \/ Reset
  BY <1>2, Queue, GoneAdds, ResetAges, SettlesAged
<1>3. QED
  BY <1>1, <1>2

\* The last report published in a session tells the state of the connection.
LEMMA NextReportPublished ==
    ASSUME TypeOK, InOrder, ReportPublished, [Next]_vars
    PROVE  ReportPublished'
<1> DEFINE state == "ble_connected"
<1> SUFFICES ASSUME Greeted'
             PROVE  Settles(outbox', retained', state, Bool(ble'))
  BY DEF ReportPublished, Bool
<1>0. outbox \in Box /\ state \in Topic /\ \A b \in BOOLEAN : Bool(b) \in Payload \ {"this"}
  BY Queue DEF Topic, Payload, Bool
<1>1. CASE Aside
  BY <1>1 DEF Aside, Greeted, ReportPublished
<1>2. ASSUME NEW box, NEW b \in BOOLEAN, Adds(box, IF b THEN There ELSE Away)
      PROVE  Settles(outbox', retained', state, Bool(b))
  <2>1. PICK report \in Box : report = (IF b THEN There ELSE Away) /\ outbox' = box \o report
    BY <1>2 DEF Adds
  <2>2. /\ 1 \in DOMAIN report
        /\ report[1] = [topic |-> state, payload |-> Bool(b)]
        /\ \A j \in DOMAIN report : j > 1 => report[j].topic # state
    BY <2>1, ReportAdded
  <2>3. box \in Box
    BY <1>2 DEF Adds
  <2>4. QED
    BY <2>1, <2>2, <2>3, SettlesAnew
<1>3. CASE SetUp /\ Appends(There)
  <2>1. ble' = TRUE
    BY <1>3 DEF SetUp, Link!Finish
  <2>2. Adds(outbox, IF ble' THEN There ELSE Away)
    BY <1>3, <2>1 DEF Appends
  <2>3. QED
    BY <1>2, <2>1, <2>2
<1>4. CASE Gone \/ Withdrawn
  <2>1. ble' = FALSE
    BY <1>4 DEF Gone, Withdrawn, Link!Forget, Link!Withdraw
  <2>2. CASE ble
    <3>1. PICK box \in Box : Adds(box, IF ble' THEN There ELSE Away)
      BY <1>0, <1>4, <2>1, <2>2, GoneAdds, WithdrawnAdds DEF Adds
    <3>2. QED
      BY <1>2, <2>1, <3>1
  <2>3. CASE ~ble
    <3>1. Greeted /\ ble = FALSE
      BY <1>4, <2>3, GoneAdds, WithdrawnAdds DEF Greeted, TypeOK
    <3>2. QED
      BY <1>0, <1>4, <2>1, <2>3, <3>1, SettlesAway DEF ReportPublished
  <2>4. QED
    BY <2>2, <2>3
<1>a. CASE Reset
  <2>1. Greeted /\ ble' = ble /\ Bool(ble) \in Payload \ {"this"}
    BY <1>0, <1>a, ResetAges DEF Greeted, TypeOK
  <2>2. QED
    BY <1>0, <1>a, <2>1, SettlesAway DEF ReportPublished
<1>5. CASE publish_char_value /\ (Notified \/ on_gatt_read)
  <2>1. PICK p \in {"this", "old"} : /\ Appends(<<Value(p)>>)
                                     /\ <<Value(p)>>[1] = Value(p)
                                     /\ DOMAIN <<Value(p)>> = 1..1
    BY <1>5, ValueAppended
  <2>2. \A i \in DOMAIN <<Value(p)>> : <<Value(p)>>[i].topic # state
    <3>1. \A i \in 1..1 : i = 1
      OBVIOUS
    <3>2. Value(p).topic # state
      BY DEF Value
    <3>3. QED
      BY <2>1, <3>1, <3>2
  <2>3. Greeted /\ ble' = ble
    BY <1>5, <2>1 DEF Greeted, Appends, Notified, on_gatt_read, sensor, mqttState
  <2>4. QED
    BY <2>1, <2>2, <2>3, SettlesBeside DEF ReportPublished, Appends, Adds
<1>6. ~MqttConnected
  BY DEF MqttConnected, Greeted, Bool
<1>7. CASE on_mqtt_connected /\ Appends(Greeting)
  <2>1. greeting = Bool(ble) /\ ble' = ble
    BY <1>7 DEF on_mqtt_connected, Greeted, sensor
  <2>2. Adds(outbox, IF ble' THEN There ELSE Away) /\ ble' \in BOOLEAN
    BY <1>7, <2>1 DEF Appends, Greeting, Bool, TypeOK
  <2>3. QED
    BY <1>2, <2>2
<1>8. CASE Received \/ Acknowledged
  <2>1. Greeted /\ ble' = ble
    BY <1>8, ReceivedRetains, AcknowledgedLeaves DEF Greeted
  <2>2. QED
    BY <1>0, <1>8, <2>1, SettlesDelivered DEF ReportPublished
<1>9. ~Off
  BY DEF Off, Greeted
<1>10. QED
  BY <1>1, <1>3, <1>4, <1>a, <1>5, <1>6, <1>7, <1>8, <1>9, Kinds

\* Once a session has been told that the sensor is away, its values are cleared, and
\* none is published after that.
LEMMA NextValueCleared ==
    ASSUME TypeOK, InOrder, ValueCleared, [Next]_vars
    PROVE  ValueCleared'
<1> SUFFICES ASSUME Greeted', ~stray', ~ble'
             PROVE  Settles(outbox', retained', "value", "")
  BY DEF ValueCleared
<1>0. outbox \in Box /\ "value" \in Topic /\ "" \in Payload \ {"this"}
  BY Queue DEF Topic, Payload
<1>1. CASE Aside
  BY <1>1 DEF Aside, Greeted, ValueCleared
<1>2. ASSUME NEW box, Adds(box, Away)
      PROVE  Settles(outbox', retained', "value", "")
  <2>1. box \in Box /\ Away \in Box
    BY <1>2 DEF Adds
  <2>2. /\ 2 \in DOMAIN Away
        /\ Away[2] = [topic |-> "value", payload |-> ""]
        /\ \A j \in DOMAIN Away :
               j > 2 => Away[j].topic # "value"
    <3>1. 2 \in 1..2 /\ ~(1 > 2) /\ ~(2 > 2)
      OBVIOUS
    <3>2. QED
      BY <3>1, ReportAway
  <2>3. QED
    BY <1>2, <2>1, <2>2, SettlesAnew DEF Adds
<1>3. ~SetUp
  BY DEF SetUp, Link!Finish
<1>4. CASE Gone \/ Reset \/ Withdrawn
  <2>1. CASE ble
    BY <1>2, <1>4, <2>1, GoneAdds, WithdrawnAdds, ResetAges
  <2>2. CASE ~ble
    <3>1. Greeted /\ ~stray
      BY <1>4, <2>2, GoneAdds, WithdrawnAdds, ResetAges DEF Greeted, TypeOK
    <3>2. QED
      BY <1>0, <1>4, <2>2, <3>1, SettlesAway DEF ValueCleared
  <2>3. QED
    BY <2>1, <2>2
<1>5. ASSUME publish_char_value, Notified \/ on_gatt_read
      PROVE  FALSE
  <2>1. stray' = (stray \/ ~ble)
    BY <1>5 DEF publish_char_value
  <2>2. ble' = ble
    BY <1>5 DEF Notified, on_gatt_read, sensor
  <2>3. QED
    BY <2>1, <2>2
<1>6. ~MqttConnected
  BY DEF MqttConnected, Greeted, Bool
<1>7. CASE on_mqtt_connected /\ Appends(Greeting)
  <2>1. greeting # "true"
    BY <1>7 DEF on_mqtt_connected, Greeted, sensor, Bool
  <2>2. QED
    BY <1>2, <1>7, <2>1 DEF Appends, Greeting
<1>8. CASE Received \/ Acknowledged
  <2>1. Greeted /\ ~ble /\ ~stray
    BY <1>8, ReceivedRetains, AcknowledgedLeaves DEF Greeted
  <2>2. QED
    BY <1>0, <1>8, <2>1, SettlesDelivered DEF ValueCleared
<1>9. ~Off
  BY DEF Off, Greeted
<1>10. QED
  BY <1>1, <1>3, <1>4, <1>5, <1>6, <1>7, <1>8, <1>9, Kinds

\* A clearing follows every value that would be stale.
LEMMA NextStaleSwept ==
    ASSUME TypeOK, TypeOK', InOrder, StaleSwept, ReadingKnown, [Next]_vars
    PROVE  StaleSwept'
<1> SUFFICES ASSUME ~stray', ~unswept', ~Ending' PROVE Clears(outbox', retained', ble')
  BY DEF StaleSwept
<1>0. /\ outbox \in Box /\ retained \in [Topic -> Payload]
      /\ ble \in BOOLEAN /\ ble' \in BOOLEAN /\ outbox' \in Box
  BY Queue DEF TypeOK, Box
<1>1. CASE Aside
  BY <1>1 DEF Aside, StaleSwept, Ending
<1>2. ASSUME NEW box, Adds(box, Away)
      PROVE  Clears(outbox', retained', ble')
  <2>1. /\ outbox' = box \o Away /\ box \in Box /\ Away \in Box
        /\ Len(Away) = 2 /\ Away[2] = Cleared
    BY <1>2, ReportAway DEF Adds
  <2>2. /\ DOMAIN (box \o Away) = 1..(Len(box) + Len(Away))
        /\ Len(box \o Away) = Len(box) + Len(Away) /\ Len(box) \in Nat
        /\ \A i \in 1..Len(Away) : (box \o Away)[Len(box) + i] = Away[i]
    BY <2>1, Publishing
  <2>3. /\ Len(outbox') \in DOMAIN outbox' /\ Len(outbox') = Len(box) + 2
        /\ outbox'[Len(box) + 2] = Cleared
    BY <2>1, <2>2
  <2>4. QED
    BY <1>0, <2>3, ClearsAll
<1>3. ASSUME NEW messages, Appends(messages),
             Clears(outbox, retained, ble'),
             \A k \in DOMAIN messages : ~Stale(messages[k].payload, ble')
      PROVE  Clears(outbox', retained', ble')
  BY <1>0, <1>3, ClearsLonger DEF Appends, Adds
<1>4. CASE SetUp /\ Appends(There)
  <2>1. ble' = TRUE /\ ~stray /\ ~unswept /\ ~Ending
    BY <1>4 DEF SetUp, Link!Finish, Ending
  <2>2. Clears(outbox, retained, ble)
    BY <2>1 DEF StaleSwept
  <2>3. Clears(outbox, retained, TRUE)
    BY <2>2 DEF Clears, Stale
  <2>4. \A k \in DOMAIN There :
            ~Stale(There[k].payload, TRUE)
    BY ReportThere DEF Stale
  <2>5. QED
    BY <1>3, <1>4, <2>1, <2>3, <2>4
<1>5. CASE Gone
  <2>1. CASE ble
    BY <1>2, <1>5, <2>1, GoneAdds
  <2>2. CASE ~ble
    <3>1. ~stray /\ ~unswept /\ ~Ending /\ ble = FALSE /\ ble' = FALSE
      BY <1>5, <2>2, GoneAdds DEF TypeOK, Ending
    <3>2. Clears(outbox, retained, FALSE)
      BY <3>1 DEF StaleSwept
    <3>3. QED
      BY <1>0, <1>5, <2>2, <3>1, <3>2, GoneAdds, ClearsAged
  <2>3. QED
    BY <2>1, <2>2
<1>a. CASE Reset
  <2>1. ~stray /\ ~unswept /\ ~Ending /\ ble = FALSE /\ ble' = FALSE
    BY <1>a, ResetAges DEF TypeOK, Ending
  <2>2. Clears(outbox, retained, FALSE)
    BY <2>1 DEF StaleSwept
  <2>3. QED
    BY <1>0, <1>a, <2>1, <2>2, ResetAges, ClearsAged
<1>b. CASE Withdrawn
  <2>1. CASE ble
    BY <1>2, <1>b, <2>1, WithdrawnAdds
  <2>2. CASE ~ble
    <3>1. ~stray /\ ~unswept /\ ~Ending /\ ble = ble'
      BY <1>0, <1>b, <2>2, WithdrawnAdds DEF Ending
    <3>2. QED
      BY <1>b, <2>2, <3>1, WithdrawnAdds DEF StaleSwept
  <2>3. QED
    BY <2>1, <2>2
<1>6. CASE publish_char_value /\ (Notified \/ on_gatt_read)
  <2>1. PICK p \in {"this", "old"} : /\ p = IF handles THEN "this" ELSE "old"
                                     /\ Appends(<<Value(p)>>)
                                     /\ <<Value(p)>>[1] = Value(p)
                                     /\ DOMAIN <<Value(p)>> = 1..1
                                     /\ stray' = (stray \/ ~ble)
    BY <1>6, ValueAppended
  <2>2. ~stray /\ ~unswept /\ ~resetting /\ ~Ending /\ ble = TRUE /\ ble' = TRUE
    BY <1>6, <2>1 DEF TypeOK, Notified, on_gatt_read, sensor, Ending
  <2>3. p = "this"
    BY <1>6, <2>1, <2>2 DEF ReadingKnown, Notified, on_gatt_read
  <2>4. \A k \in DOMAIN <<Value(p)>> : ~Stale(<<Value(p)>>[k].payload, TRUE)
    <3>1. \A k \in 1..1 : k = 1
      OBVIOUS
    <3>2. Value(p).payload = "this"
      BY <2>3 DEF Value
    <3>3. QED
      BY <2>1, <3>1, <3>2 DEF Stale
  <2>5. Clears(outbox, retained, TRUE)
    BY <2>2 DEF StaleSwept
  <2>6. QED
    BY <1>3, <2>1, <2>2, <2>4, <2>5
<1>7. CASE MqttConnected
  <2>1. /\ outbox' = outbox \o <<Status("online")>> /\ ble' = ble
        /\ retained'["value"] = retained["value"] /\ ~stray /\ ~unswept /\ ~Ending
    BY <1>0, <1>7 DEF MqttConnected, publish_raw, sensor, Topic, Ending
  <2>2. <<Status("online")>> \in Box
    BY Messages
  <2>3. \A k \in DOMAIN <<Status("online")>> : ~Stale(<<Status("online")>>[k].payload, ble)
    <3>1. Len(<<Status("online")>>) = 1 /\ <<Status("online")>>[1] = Status("online")
      OBVIOUS
    <3>2. DOMAIN <<Status("online")>> = 1..1 /\ \A k \in 1..1 : k = 1
      BY <2>2, <3>1, LenProperties DEF Box
    <3>3. Status("online").payload = "online"
      BY DEF Status
    <3>4. QED
      BY <3>1, <3>2, <3>3 DEF Stale
  <2>4. Clears(outbox, retained, ble)
    BY <2>1 DEF StaleSwept
  <2>5. Clears(outbox', retained, ble)
    BY <1>0, <2>1, <2>2, <2>3, <2>4, ClearsLonger
  <2>6. QED
    BY <2>1, <2>5 DEF Clears
<1>8. CASE on_mqtt_connected /\ Appends(Greeting)
  <2>1. CASE greeting = "true"
    <3>1. Appends(There)
      BY <1>8, <2>1 DEF Greeting
    <3>2. \A k \in DOMAIN There :
              ~Stale(There[k].payload, ble')
      BY ReportThere DEF Stale
    <3>3. ~Swept(Greeting)
      BY <2>1, ReportThere DEF Greeting
    <3>4. ~stray /\ ~unswept /\ ~Ending /\ ble' = ble
      BY <1>8, <3>3, GreetingPublished DEF on_mqtt_connected, sensor, TypeOK, Ending
    <3>5. Clears(outbox, retained, ble')
      BY <3>4 DEF StaleSwept
    <3>6. QED
      BY <1>3, <3>1, <3>2, <3>4, <3>5
  <2>2. CASE greeting # "true"
    <3>1. Appends(Away)
      BY <1>8, <2>2 DEF Greeting
    <3>2. QED
      BY <1>2, <3>1 DEF Appends
  <2>3. QED
    BY <2>1, <2>2
<1>9. CASE Received
  <2>1. Clears(outbox, retained, ble)
    BY <1>9, ReceivedRetains DEF StaleSwept, Ending
  <2>2. QED
    BY <1>0, <1>9, <2>1, ReceivedRetains, ClearsReceived
<1>10. CASE Acknowledged
  <2>1. /\ outbox # <<>> /\ sent \in 1..Len(outbox) /\ Kept(outbox, sent, retained)
        /\ Clears(outbox, retained, ble)
    BY <1>10, AcknowledgedLeaves DEF InOrder, StaleSwept, Ending
  <2>2. Head(outbox) = outbox[1] /\ Len(outbox) \in Nat /\ DOMAIN outbox = 1..Len(outbox)
    BY <1>0, <2>1, Leaving
  <2>3. ASSUME Head(outbox) = Cleared, Stale(retained["value"], ble)
        PROVE  \E j \in DOMAIN outbox : j > 1 /\ outbox[j] = Cleared
    <3>1. PICK k \in 1..sent : /\ outbox[k].topic = "value"
                               /\ outbox[k].payload = retained["value"]
      <4>1. Cleared.topic = "value" /\ "value" \in Topic
        BY ClearedIsNot DEF Topic
      <4>2. outbox[1].topic = "value"
        BY <2>2, <2>3, <4>1
      <4>3. 1 \in 1..sent
        BY <2>1, <2>2
      <4>4. QED
        BY <2>1, <4>1, <4>2, <4>3 DEF Kept
    <3>2. k \in DOMAIN outbox /\ Stale(outbox[k].payload, ble)
      BY <2>1, <2>2, <2>3, <3>1
    <3>3. PICK j \in DOMAIN outbox : j > k /\ outbox[j] = Cleared
      BY <2>1, <3>2 DEF Clears
    <3>4. QED
      BY <2>1, <2>2, <3>1, <3>3
  <2>4. Clears(Tail(outbox), retained, ble)
    BY <1>0, <2>1, <2>3, ClearsLess
  <2>5. QED
    BY <1>10, <2>4, AcknowledgedLeaves
<1>11. CASE Noticed
  <2>1. Clears(outbox, retained, ble)
    BY <1>11 DEF Noticed, StaleSwept, Ending, sensor
  <2>2. retained'["value"] = retained["value"] /\ outbox' = outbox /\ ble' = ble
    BY <1>0, <1>11 DEF Noticed, sensor, Topic
  <2>3. QED
    BY <2>1, <2>2 DEF Clears
<1>12. CASE Broken
  BY <1>12 DEF Broken, StaleSwept, Ending, sensor
<1>13. CASE Expired
  <2>1. /\ outbox # <<>> /\ outbox' = Tail(outbox) /\ retained' = retained /\ ble' = ble
        /\ ~stray /\ ~unswept /\ ~Ending /\ Head(outbox) # Cleared
    BY <1>13 DEF Expired, sensor, Ending
  <2>2. Clears(outbox, retained, ble)
    BY <2>1 DEF StaleSwept
  <2>3. QED
    BY <1>0, <2>1, <2>2, ClearsLess
<1>14. CASE Restart
  <2>1. DOMAIN outbox' = {}
    <3>1. outbox' = <<>> /\ Len(<<>>) = 0
      BY <1>14, EmptySeq DEF Restart
    <3>2. DOMAIN outbox' = 1..0
      BY <1>0, <3>1, LenProperties DEF Box
    <3>3. 1..0 = {}
      OBVIOUS
    <3>4. QED
      BY <3>2, <3>3
  <2>2. retained'["value"] = Aged(retained["value"]) /\ retained'["value"] # "old"
    BY <1>0, <1>14 DEF Restart, AgedRetained, Topic
  <2>3. ~Stale(retained'["value"], ble')
    BY <2>2 DEF Aged, Stale
  <2>4. QED
    BY <2>1, <2>3 DEF Clears
<1>15. QED
  BY <1>1, <1>4, <1>5, <1>a, <1>b, <1>6, <1>7, <1>8, <1>9, <1>10, <1>11, <1>12, <1>13, <1>14, Kinds

\* A reading is begun with a handle; a setup waits for readings to end.
LEMMA NextReadingKnown ==
    ASSUME TypeOK, ReadingKnown, [Next]_vars
    PROVE  ReadingKnown'
BY DEF TypeOK, ReadingKnown, Next, vars, sensor, Matched, SetUp, Gone, Reset, Withdrawn,
   Notified, poll_read_characteristics, on_gatt_read, Register, MqttConnected,
   on_mqtt_connected, Received, Acknowledged, Broken, Noticed, Expired, Restart,
   Link!Match, Link!Finish, Link!Forget, Link!Reset, Link!Withdraw

\* Only values carry the payload that ages.
LEMMA NextValuesAge ==
    ASSUME TypeOK, ValuesAge, [Next]_vars
    PROVE  ValuesAge'
<1>0. outbox \in Box /\ AgedBox(outbox) \in Box
  BY Queue
<1>1. ASSUME NEW box \in Box, OnlyValues(box), NEW messages \in Box, OnlyValues(messages)
      PROVE  OnlyValues(box \o messages)
  BY <1>1, Added DEF OnlyValues
<1>2. OnlyValues(There) /\ OnlyValues(Away)
  <2>1. There[1].payload # "this" /\ Away[1].payload # "this" /\ Away[2].payload # "this"
    BY ReportThere, ReportAway
  <2>2. QED
    BY <2>1, ReportThere, ReportAway DEF OnlyValues
<1>3. ASSUME NEW messages, Appends(messages), OnlyValues(messages)
      PROVE  OnlyValues(outbox')
  BY <1>1, <1>3 DEF Appends, Adds, ValuesAge
<1>4. CASE Aside
  BY <1>4 DEF Aside, ValuesAge
<1>5. CASE SetUp /\ Appends(There)
  BY <1>2, <1>3, <1>5 DEF ValuesAge
<1>a. OnlyValues(AgedBox(outbox))
  <2>1. \A p : Aged(p) # "this"
    BY DEF Aged
  <2>2. QED
    BY <1>0, <2>1, Ageing DEF OnlyValues
<1>6. CASE Gone
  <2>1. CASE ble
    BY <1>1, <1>2, <1>6, <1>a, <2>1, GoneAdds DEF Adds, ValuesAge
  <2>2. CASE ~ble
    BY <1>6, <1>a, <2>2, GoneAdds DEF ValuesAge
  <2>3. QED
    BY <2>1, <2>2
<1>b. CASE Reset
  BY <1>a, <1>b, ResetAges DEF ValuesAge
<1>c. CASE Withdrawn
  <2>1. CASE ble
    BY <1>1, <1>2, <1>c, <2>1, WithdrawnAdds DEF Adds, ValuesAge
  <2>2. CASE ~ble
    BY <1>c, <2>2, WithdrawnAdds DEF ValuesAge
  <2>3. QED
    BY <2>1, <2>2
<1>7. CASE publish_char_value /\ (Notified \/ on_gatt_read)
  <2>1. PICK p : /\ Appends(<<Value(p)>>) /\ <<Value(p)>>[1] = Value(p)
                 /\ DOMAIN <<Value(p)>> = 1..1
    BY <1>7, ValueAppended
  <2>2. Value(p).topic = "value" /\ \A i \in 1..1 : i = 1
    BY DEF Value
  <2>3. OnlyValues(<<Value(p)>>)
    BY <2>1, <2>2 DEF OnlyValues
  <2>4. QED
    BY <1>3, <2>1, <2>3 DEF ValuesAge
<1>8. CASE MqttConnected
  <2>1. outbox' = outbox \o <<Status("online")>> /\ <<Status("online")>> \in Box
    BY <1>8, Messages DEF MqttConnected, publish_raw
  <2>2. Len(<<Status("online")>>) = 1 /\ <<Status("online")>>[1] = Status("online")
    OBVIOUS
  <2>3. DOMAIN <<Status("online")>> = 1..1 /\ \A i \in 1..1 : i = 1
    BY <2>1, <2>2, LenProperties DEF Box
  <2>4. Status("online").payload # "this"
    BY DEF Status
  <2>5. OnlyValues(<<Status("online")>>)
    BY <2>2, <2>3, <2>4 DEF OnlyValues
  <2>6. QED
    BY <1>0, <1>1, <2>1, <2>5 DEF ValuesAge
<1>9. CASE on_mqtt_connected /\ Appends(Greeting)
  <2>1. OnlyValues(Greeting)
    BY <1>2 DEF Greeting
  <2>2. QED
    BY <1>3, <1>9, <2>1 DEF ValuesAge
<1>10. CASE Received \/ Noticed \/ Broken
  BY <1>10 DEF Received, Noticed, Broken, ValuesAge
<1>11. CASE Acknowledged \/ Expired
  <2>1. outbox # <<>> /\ outbox' = Tail(outbox)
    BY <1>11, AcknowledgedLeaves DEF Expired
  <2>2. \A i \in DOMAIN Tail(outbox) : i + 1 \in DOMAIN outbox /\ Tail(outbox)[i] = outbox[i + 1]
    BY <1>0, <2>1, Leaving
  <2>3. QED
    BY <2>1, <2>2 DEF ValuesAge, OnlyValues
<1>12. CASE Restart
  <2>1. outbox' = <<>> /\ <<>> \in Box /\ Len(<<>>) = 0
    BY <1>12, EmptySeq DEF Restart, Box
  <2>2. DOMAIN outbox' = 1..0 /\ 1..0 = {}
    BY <2>1, LenProperties DEF Box
  <2>3. QED
    BY <2>2 DEF ValuesAge, OnlyValues
<1>13. QED
  BY <1>4, <1>5, <1>6, <1>b, <1>c, <1>7, <1>8, <1>9, <1>10, <1>11, <1>12, Kinds

\* Every step keeps the invariant.
LEMMA NextRInv == RInv /\ [Next]_vars => RInv'
<1> SUFFICES ASSUME RInv, [Next]_vars PROVE RInv'
  OBVIOUS
<1>1. /\ TypeOK /\ InOrder /\ ReportPublished /\ ValueCleared /\ StaleSwept /\ ReadingKnown
      /\ ValuesAge
  BY DEF RInv
<1>2. TypeOK'
  BY <1>1, NextType
<1>3. InOrder' /\ ReportPublished' /\ ValueCleared'
  BY <1>1, NextInOrder, NextReportPublished, NextValueCleared
<1>4. StaleSwept' /\ ReadingKnown' /\ ValuesAge'
  BY <1>1, <1>2, NextStaleSwept, NextReadingKnown, NextValuesAge
<1>5. QED
  BY <1>2, <1>3, <1>4 DEF RInv

\* The invariant holds throughout.
LEMMA Invariance == Spec => []RInv
BY InitRInv, NextRInv, PTL DEF Spec

-----------------------------------------------------------------------------

\* An empty queue settles to what is retained already.
LEMMA QuietQueue ==
    ASSUME RInv, Quiet
    PROVE  DOMAIN outbox = {}
<1>1. outbox \in Seq(Message) /\ Len(outbox) = 0
  BY EmptySeq DEF RInv, TypeOK, Quiet
<1>2. DOMAIN outbox = 1..0
  BY <1>1, LenProperties
<1>3. 1..0 = {}
  OBVIOUS
<1>4. QED
  BY <1>2, <1>3

\* When everything has arrived the broker holds the state of the BLE connection
\* (set_ble_connected(), on_mqtt_connected(), mqtt_publisher_publish_ble_connected()),
\* however long the queue was and whatever sessions broke in between.
THEOREM ReportRetained == Spec => []ReportArrives
<1>1. RInv => ReportArrives
  <2> SUFFICES ASSUME RInv, Quiet, ~misled PROVE retained["ble_connected"] = Bool(ble)
    BY DEF ReportArrives
  <2>1. Settles(outbox, retained, "ble_connected", Bool(ble))
    BY DEF RInv, ReportPublished, Greeted, Quiet
  <2>2. QED
    BY <2>1, QuietQueue DEF Settles
<1>2. QED
  BY <1>1, Invariance, PTL

\* When everything has arrived, no value is retained of a sensor that is away, nor one
\* of an earlier connection (publish_char_value(), and the clearing by
\* mqtt_publisher_publish_ble_connected(false)), with the exceptions NoOldValue names:
\* values published outside a reported connection, a clearing that got lost, and the
\* moment between reset_handles() and set_ble_connected(false) in reconnect_task.
THEOREM NothingStaleRetained == Spec => []NoOldValue
<1>1. RInv => NoOldValue
  <2> SUFFICES ASSUME RInv, Quiet, ~stray, ~misled
               PROVE  /\ ~ble => retained["value"] = ""
                      /\ ~unswept /\ ~resetting => retained["value"] # "old"
    BY DEF NoOldValue
  <2>1. DOMAIN outbox = {}
    BY QuietQueue
  <2>2. ASSUME ~ble PROVE retained["value"] = ""
    <3>1. Settles(outbox, retained, "value", "")
      BY <2>2 DEF RInv, ValueCleared, Greeted, Quiet
    <3>2. QED
      BY <2>1, <3>1 DEF Settles
  <2>3. ASSUME ~unswept, ~resetting PROVE retained["value"] # "old"
    <3>1. Clears(outbox, retained, ble)
      BY <2>3 DEF RInv, StaleSwept, Ending
    <3>2. QED
      BY <2>1, <3>1 DEF Clears, Stale
  <2>4. QED
    BY <2>2, <2>3
<1>2. QED
  BY <1>1, Invariance, PTL
=============================================================================
