------------------------------ MODULE EspRelay ------------------------------
(***************************************************************************)
(* esp32-s3/src/main.cpp and mqtt_publisher.cpp between the BLE client     *)
(* (BleReport, and the readings of ble_client.cpp) and an MQTT broker that *)
(* outlives the relay: what the retained topics say of the sensor.         *)
(*                                                                         *)
(* Three tasks publish: the one that runs the handlers of the BLE client,  *)
(* its reconnect_task, and the MQTT client's, which runs                   *)
(* on_mqtt_connected() when a session begins.  They run side by side: the  *)
(* sensor can come or go between the reading of the BLE state by           *)
(* on_mqtt_connected() and its publication, anything can happen between    *)
(* what reconnect_task forgets and what it reports, and a session can      *)
(* begin before that callback has been registered.                         *)
(*                                                                         *)
(* MQTT is modelled as the code uses it, with QoS 1 and retain: messages   *)
(* wait in outbox until the broker has acknowledged them, are sent in      *)
(* order, sent again after a new connection, and given up when a           *)
(* connection is missing for too long.  All the characteristics share one  *)
(* topic, "value"; its payloads differ in whether the handle under which   *)
(* they were received is still known, on "this" connection to the sensor,  *)
(* or belongs to an "old" one.                                             *)
(***************************************************************************)
EXTENDS Integers, Sequences

CONSTANT MaxOutbox     \* bounds outbox: nothing happens that would exceed it

ASSUME RelayAssumption == MaxOutbox \in Nat

VARIABLES
    handles, ble,   \* BleReport
    resetting,      \* BleReport
    reading,        \* a reading of the sensor is under way
    registered,     \* s_mqtt_connected_cb is set
    greeting,       \* on_mqtt_connected(): "no", or the state it read and publishes
    session,        \* to the broker: "up", "broken" (the broker has not noticed), "down"
    outbox,         \* messages not acknowledged, oldest first
    sent,           \* how many of them this session has brought to the broker
    retained,       \* topic -> the payload the broker holds, "" for none
    stray,          \* history: a value was published outside a reported connection
    unswept,        \* history: the values of a connection were not cleared
    misled          \* history: on_mqtt_connected() was the last to publish a state and
                    \* had been overtaken, or was not registered when this session began

sensor == <<handles, ble, resetting, reading>>
vars == <<sensor, registered, greeting, session, outbox, sent, retained,
          stray, unswept, misled>>

Link == INSTANCE BleReport

Topic == {"status", "ble_connected", "value"}
Payload == {"", "online", "offline", "true", "false", "this", "old"}
Message == [topic : Topic, payload : Payload]

\* Slip: the state is published as a number.
BoolDigit(b) == IF b THEN "1" ELSE "0"

Bool(b) == IF b THEN "true" ELSE "false"
Status(p) == [topic |-> "status", payload |-> p]
Value(p) == [topic |-> "value", payload |-> p]
Cleared == Value("")

Init ==
    /\ Link!Init /\ reading = FALSE
    /\ registered = FALSE /\ greeting = "no"
    /\ session = "down" /\ outbox = <<>> /\ sent = 0
    /\ retained = [t \in Topic |-> ""]
    /\ stray = FALSE /\ unswept = FALSE /\ misled = FALSE

-----------------------------------------------------------------------------
(***************************************************************************)
(* Publishing.                                                             *)
(***************************************************************************)

\* The connection of a value is over.
Aged(p) == IF p = "this" THEN "old" ELSE p
AgedBox(box) == [i \in DOMAIN box |-> [box[i] EXCEPT !.payload = Aged(@)]]
AgedRetained(r) == [r EXCEPT !["value"] = Aged(@)]

\* publish_raw(): messages are added to box, which is outbox but for their age.
publish_raw(box, messages) ==
    /\ Len(box) + Len(messages) <= MaxOutbox
    /\ outbox' = box \o messages

\* Slip: the values are not cleared.
ble_connected_only(connected) == <<[topic |-> "ble_connected", payload |-> Bool(connected)]>>

\* mqtt_publisher_publish_ble_connected(): the state, and the values cleared.
publish_ble_connected(connected) ==
    <<[topic |-> "ble_connected", payload |-> Bool(connected)]>>
        \o (IF connected THEN <<>> ELSE <<Cleared>>)

\* What has been cleared when these messages have been published.
Swept(messages) == \E i \in DOMAIN messages : messages[i] = Cleared

-----------------------------------------------------------------------------
(***************************************************************************)
(* The BLE client, and the callbacks on_ble_connected(), on_ble_notify().  *)
(***************************************************************************)

mqttState == <<registered, greeting, session, sent>>

\* BLE is started after the registration.  The library ends the readings of one
\* connection before the next one.
Matched ==
    /\ registered /\ ~reading
    /\ Link!Match
    /\ UNCHANGED <<reading, mqttState, outbox, retained, stray, unswept, misled>>

\* Slip: the relay does not report that the setup is finished.
SetUpUnreported ==
    /\ registered /\ ~reading
    /\ Link!Finish
    /\ UNCHANGED <<reading, mqttState, outbox, retained, stray, unswept, misled>>

\* subscribe_next() at its end, which may have found no characteristic.
SetUp ==
    /\ registered /\ ~reading
    /\ Link!Finish
    /\ publish_raw(outbox, publish_ble_connected(TRUE))
    /\ misled' = FALSE
    /\ UNCHANGED <<reading, mqttState, retained, stray, unswept>>

\* Slip: the relay does not report that the sensor is away.
GoneUnreported ==
    /\ Link!Forget
    /\ retained' = AgedRetained(retained)
    /\ outbox' = AgedBox(outbox)
    /\ UNCHANGED <<reading, mqttState, stray, unswept, misled>>

\* What set_ble_connected(false) publishes, after box, if the sensor was reported.
Withdrawal(box) ==
    /\ LET messages == IF ble THEN publish_ble_connected(FALSE) ELSE <<>>
       IN  /\ publish_raw(box, messages)
           /\ stray' = (stray /\ ~Swept(messages))
           /\ unswept' = (unswept /\ ~Swept(messages))
    /\ misled' = (misled /\ ~ble)

\* schedule_reconnect() in the host task.  Readings under way fail before the loss of
\* a link is reported; if the client gives the link up by itself they may still be
\* answered.
Gone ==
    /\ Link!Forget
    /\ retained' = AgedRetained(retained)
    /\ Withdrawal(AgedBox(outbox))
    /\ UNCHANGED <<reading, mqttState>>

\* schedule_reconnect() in reconnect_task: the handles are forgotten ...
Reset ==
    /\ registered
    /\ Link!Reset
    /\ retained' = AgedRetained(retained)
    /\ outbox' = AgedBox(outbox)
    /\ UNCHANGED <<reading, mqttState, stray, unswept, misled>>

\* ... and the report is withdrawn.
Withdrawn ==
    /\ Link!Withdraw
    /\ Withdrawal(outbox)
    /\ UNCHANGED <<reading, mqttState, retained>>

\* The bound leaves room for a report, so that values cannot keep one waiting.
publish_char_value ==
    /\ Len(outbox) + 2 < MaxOutbox
    /\ publish_raw(outbox, <<Value(IF handles THEN "this" ELSE "old")>>)
    /\ stray' = (stray \/ ~ble)

\* BLE_GAP_EVENT_NOTIFY_RX with a handle that is known.
Notified ==
    /\ handles
    /\ publish_char_value
    /\ UNCHANGED <<sensor, mqttState, retained, unswept, misled>>

\* The end of the setup, or reconnect_task, asks for a reading.  schedule_reconnect()
\* forgets the connection before it forgets the handles.
poll_read_characteristics ==
    /\ ble /\ handles /\ ~reading /\ ~resetting
    /\ reading' = TRUE
    /\ UNCHANGED <<handles, ble, resetting, mqttState, outbox, retained, stray, unswept, misled>>

on_gatt_read ==
    /\ reading
    /\ reading' = FALSE
    /\ \/ UNCHANGED <<outbox, stray>>
       \/ publish_char_value
    /\ UNCHANGED <<handles, ble, resetting, mqttState, retained, unswept, misled>>

-----------------------------------------------------------------------------
(***************************************************************************)
(* app_main() and the events of the MQTT client.                           *)
(***************************************************************************)

\* mqtt_publisher_set_connected_cb(), after mqtt_publisher_start().
Register ==
    /\ ~registered
    /\ registered' = TRUE
    /\ UNCHANGED <<sensor, greeting, session, outbox, sent, retained, stray, unswept, misled>>

\* Slip: the callback is not called.
MqttConnectedSilently ==
    /\ session # "up" /\ greeting = "no"
    /\ session' = "up" /\ sent' = 0
    /\ retained' = IF session = "broken" THEN [retained EXCEPT !["status"] = "offline"]
                                         ELSE retained
    /\ publish_raw(outbox, <<Status("online")>>)
    /\ UNCHANGED <<greeting, sensor, registered, stray, unswept, misled>>

\* MQTT_EVENT_CONNECTED up to the reading of the BLE state.  A broker that still
\* held the last session publishes its last will first.
MqttConnected ==
    /\ session # "up" /\ greeting = "no"
    /\ session' = "up" /\ sent' = 0
    /\ retained' = IF session = "broken" THEN [retained EXCEPT !["status"] = "offline"]
                                         ELSE retained
    /\ publish_raw(outbox, <<Status("online")>>)
    /\ greeting' = IF registered THEN Bool(ble) ELSE "no"
    /\ misled' = (misled \/ ~registered)
    /\ UNCHANGED <<sensor, registered, stray, unswept>>

\* on_mqtt_connected() publishes what it has read.
on_mqtt_connected ==
    /\ greeting # "no"
    /\ greeting' = "no"
    /\ LET messages == publish_ble_connected(greeting = "true")
       IN  /\ publish_raw(outbox, messages)
           /\ stray' = (stray /\ ~Swept(messages))
           /\ unswept' = (unswept /\ ~Swept(messages))
    /\ misled' = (greeting # Bool(ble))
    /\ UNCHANGED <<sensor, registered, session, sent, retained>>

-----------------------------------------------------------------------------
(***************************************************************************)
(* The network, the broker, and the end of the relay.                      *)
(***************************************************************************)

Received ==
    /\ session = "up" /\ sent < Len(outbox)
    /\ sent' = sent + 1
    /\ retained' = [retained EXCEPT ![outbox[sent'].topic] = outbox[sent'].payload]
    /\ UNCHANGED <<sensor, registered, greeting, session, outbox, stray, unswept, misled>>

Acknowledged ==
    /\ session = "up" /\ sent > 0
    /\ sent' = sent - 1
    /\ outbox' = Tail(outbox)
    /\ UNCHANGED <<sensor, registered, greeting, session, retained, stray, unswept, misled>>

Broken ==
    /\ session = "up"
    /\ session' = "broken"
    /\ UNCHANGED <<sensor, registered, greeting, outbox, sent, retained, stray, unswept,
                   misled>>

\* The broker publishes the last will.
Noticed ==
    /\ session = "broken"
    /\ session' = "down"
    /\ retained' = [retained EXCEPT !["status"] = "offline"]
    /\ UNCHANGED <<sensor, registered, greeting, outbox, sent, stray, unswept, misled>>

\* The oldest message has waited too long for a connection.
Expired ==
    /\ session # "up" /\ outbox # <<>>
    /\ outbox' = Tail(outbox)
    /\ sent' = IF sent > 0 THEN sent - 1 ELSE 0
    /\ unswept' = (unswept \/ Head(outbox) = Cleared)
    /\ UNCHANGED <<sensor, registered, greeting, session, retained, stray, misled>>

\* Power is lost, or the firmware restarts.
Restart ==
    /\ handles' = FALSE /\ ble' = FALSE /\ resetting' = FALSE /\ reading' = FALSE
    /\ registered' = FALSE /\ greeting' = "no"
    /\ session' = IF session = "up" THEN "broken" ELSE session
    /\ outbox' = <<>> /\ sent' = 0
    /\ retained' = AgedRetained(retained)
    /\ unswept' = (unswept \/ retained'["value"] = "old")
    /\ UNCHANGED <<stray, misled>>

-----------------------------------------------------------------------------

Next ==
    \/ Matched \/ SetUp \/ Gone \/ Reset \/ Withdrawn \/ Notified
    \/ poll_read_characteristics \/ on_gatt_read
    \/ Register \/ MqttConnected \/ on_mqtt_connected
    \/ Received \/ Acknowledged \/ Broken \/ Noticed \/ Expired \/ Restart

\* FreeRTOS runs the tasks, the MQTT client tries again and again to connect, and
\* the broker answers and notices a broken session by its keep-alive.  Nothing
\* makes the sensor come or go, a session break or the relay restart.
Fairness ==
    /\ WF_vars(Register) /\ WF_vars(MqttConnected) /\ WF_vars(on_mqtt_connected)
    /\ WF_vars(Received) /\ WF_vars(Acknowledged) /\ WF_vars(Noticed)

Spec == Init /\ [][Next]_vars /\ Fairness

-----------------------------------------------------------------------------
(***************************************************************************)
(* Properties.                                                             *)
(***************************************************************************)

\* Every variable stays within its values; sent counts messages of the outbox.
TypeOK ==
    /\ handles \in BOOLEAN /\ ble \in BOOLEAN /\ resetting \in BOOLEAN
    /\ reading \in BOOLEAN
    /\ registered \in BOOLEAN
    /\ greeting \in {"no", "true", "false"}
    /\ session \in {"up", "broken", "down"}
    /\ outbox \in Seq(Message) /\ sent \in 0..Len(outbox)
    /\ retained \in [Topic -> Payload]
    /\ stray \in BOOLEAN /\ unswept \in BOOLEAN /\ misled \in BOOLEAN

\* Everything published has arrived.
Quiet == session = "up" /\ greeting = "no" /\ outbox = <<>>

\* When everything has arrived the broker holds the state of the BLE connection,
\* whatever was lost, repeated or forgotten by a restart before.  Excepted is what
\* on_mqtt_connected() has published after the sensor came or went, or has not
\* published at all in this session: the next report or session corrects both.
ReportArrives == Quiet /\ ~misled => retained["ble_connected"] = Bool(ble)

\* When everything has arrived, no value is retained while the sensor is away, and
\* none of an earlier connection while it is there.  Excepted are values published
\* before set_ble_connected(true) or after set_ble_connected(false), which no clearing
\* follows, those left while on_mqtt_connected() misleads, and, while the sensor is
\* reported, those whose clearing expired or was left to a relay that restarted, and
\* those that reconnect_task is about to clear.
NoOldValue ==
    Quiet /\ ~stray /\ ~misled =>
        /\ ~ble => retained["value"] = ""
        /\ ~unswept /\ ~resetting => retained["value"] # "old"

\* How Home Assistant combines the two topics (make_sensor_availability()).
Available == retained["status"] = "online" /\ retained["ble_connected"] = "true"

\* A sensor that is away does not stay available, whatever happens to the session:
\* either the report or the last will arrives, unless on_mqtt_connected() misleads.
UnavailableWhenAway == (Available /\ ~ble) ~> (~Available \/ ble \/ misled)

\* A sensor that stays connected, over a session that lasts, becomes available,
\* unless on_mqtt_connected() misleads.
AvailableWhenThere == <>[](ble /\ session = "up" /\ ~misled) => <>[]Available
=============================================================================
