----------------------------- MODULE WeinDevice -----------------------------
(***************************************************************************)
(* home-assistant/custom_components/wein/device.py: one WeinDevice, from   *)
(* async_start() to the end of async_stop(), as the integration of Home    *)
(* Assistant drives it.                                                    *)
(*                                                                         *)
(* Everything runs on one event loop.  ready is the queue of what the loop *)
(* will run next: the two tasks of the device ("connect", "poll"), the     *)
(* callback _handle_disconnect ("lost") and the valve states notified by   *)
(* the sensor.  A task is one step from one await to the next.             *)
(*                                                                         *)
(* The sensor takes one connection and advertises only without one.  A     *)
(* client is live while its connection is up and dead afterwards, so that  *)
(* the clients of earlier connections need no names.  _connect_lock is     *)
(* always free, because there is at most one task that takes it.  The      *)
(* temperature, which is only notified and never read, is left out.        *)
(***************************************************************************)
EXTENDS Integers, Sequences

CONSTANTS
    Kinds,      \* the properties the valve characteristic may have
    MaxReady    \* bounds ready: the valve moves only while it is shorter

ASSUME DeviceAssumption ==
    /\ Kinds \subseteq SUBSET {"notify", "read"}
    /\ MaxReady \in Nat

Valve == {"open", "shut"}

VARIABLES
    props,       \* the properties of the sensor's valve characteristic
    near,        \* the sensor is in range
    valve,       \* the sensor's valve
    link,        \* its connection is up
    notifying,   \* it notifies its valve on this connection
    life,        \* "new", "running", "parting" in async_stop(), "stopped"
    client,      \* _client: "none", or one whose connection is "live" or "dead"
    available,   \* the attribute of that name
    valve_open,  \* the attribute of that name, or "unknown" for None
    shown,       \* what the entity of the valve shows: a state or "unavailable"
    attempt,     \* _connect_task: "off", or the await of _async_connect() it is at
    result,      \* what that await ended with
    poll,        \* _valve_poll_task: "off", "look", "read" or "pause"
    polled,      \* the connection of the poll's client is up
    answer,      \* what the poll's await ended with
    ready,       \* what the loop will run, in order
    fresh,       \* history: valve_open was set on this connection
    blind        \* history: the link went down under the attempt that then succeeded

sensor == <<props, near, valve, link, notifying>>
tasks == <<attempt, result, poll, polled, answer>>
vars == <<sensor, life, client, available, valve_open, shown, tasks, ready,
          fresh, blind>>

Init ==
    /\ props \in Kinds /\ near \in BOOLEAN /\ valve \in Valve
    /\ link = FALSE /\ notifying = FALSE
    /\ life = "new"
    /\ client = "none" /\ available = FALSE
    /\ valve_open = "unknown" /\ shown = "unavailable"
    /\ attempt = "off" /\ result = "none"
    /\ poll = "off" /\ polled = FALSE /\ answer = "none"
    /\ ready = <<>>
    /\ fresh = FALSE /\ blind = FALSE

unloaded == life \in {"parting", "stopped"}

-----------------------------------------------------------------------------
(***************************************************************************)
(* What several operations do.                                             *)
(***************************************************************************)

\* The entity of the valve: available, and the state is known.
Entity(a, v) == IF a /\ v # "unknown" THEN v ELSE "unavailable"

\* async_update_listeners(); the entities are removed before async_stop().
Update(a, v) == shown' = IF unloaded THEN shown ELSE Entity(a, v)

InQueue(q, item) == \E i \in DOMAIN q : q[i] = item

\* A task that is cancelled is resumed, at the place in the queue it already has.
Woken(q, task) == IF InQueue(q, task) THEN q ELSE Append(q, task)

\* Slip: the task is forgotten and goes on.
forget_valve_poll(q) == ready' = q /\ UNCHANGED answer

_cancel_valve_poll(q) ==
    IF poll = "off"
      THEN ready' = q /\ UNCHANGED answer
      ELSE ready' = Woken(q, "poll") /\ answer' = "cancelled"

\* Slip: a task that is not done is no reason not to create another.
schedule_again == attempt' = "created" /\ result' = "none" /\ ready' = Append(ready, "connect")

_schedule_connect ==
    IF attempt # "off"
      THEN UNCHANGED <<attempt, result, ready>>
      ELSE attempt' = "created" /\ result' = "none" /\ ready' = Append(ready, "connect")

-----------------------------------------------------------------------------
(***************************************************************************)
(* Set-up and unloading of the entry.                                      *)
(***************************************************************************)

\* The framework may have heard the sensor already.
async_start ==
    /\ life = "new"
    /\ life' = "running"
    /\ \/ _schedule_connect
       \/ UNCHANGED <<attempt, result, ready>>
    /\ UNCHANGED <<sensor, client, available, valve_open, shown, poll, polled,
                   answer, fresh, blind>>

\* Slip: the attempt to connect is not cancelled.
StopKeepingAttempt ==
    /\ life = "running"
    /\ life' = IF client = "none" THEN "stopped" ELSE "parting"
    /\ client' = "none" /\ available' = FALSE
    /\ _cancel_valve_poll(ready)
    /\ UNCHANGED <<sensor, valve_open, shown, attempt, result, poll, polled, fresh, blind>>

\* async_stop() up to the disconnection of the client, if there is one.
async_stop ==
    /\ life = "running"
    /\ life' = IF client = "none" THEN "stopped" ELSE "parting"
    /\ client' = "none" /\ available' = FALSE
    /\ result' = IF attempt = "off" THEN result ELSE "cancelled"
    /\ _cancel_valve_poll(IF attempt = "off" THEN ready ELSE Woken(ready, "connect"))
    /\ UNCHANGED <<sensor, valve_open, shown, attempt, poll, polled, fresh, blind>>

\* disconnect() takes the link down, or raises, which is logged.
Parted ==
    /\ life = "parting"
    /\ life' = "stopped"
    /\ \/ link /\ link' = FALSE /\ ready' = Append(ready, "lost")
       \/ UNCHANGED <<link, ready>>
    /\ notifying' = (notifying /\ link')
    /\ polled' = (polled /\ link')
    /\ UNCHANGED <<props, near, valve, client, available, valve_open, shown,
                   attempt, result, poll, answer, fresh, blind>>

-----------------------------------------------------------------------------
(***************************************************************************)
(* _async_connect(), resumed by the loop.                                  *)
(***************************************************************************)

\* The attempt awaits nothing and its await has not ended.
Awaiting == attempt # "off" /\ ~InQueue(ready, "connect")

\* Slip: the device is not made unavailable.
ConnectFailsUnseen ==
    /\ attempt' = "off"
    /\ ready' = Tail(ready)
    /\ UNCHANGED <<client, available, valve_open, shown, poll, polled, fresh, blind>>

\* except Exception: the client, connected or not, is left as it is.
ConnectFails ==
    /\ attempt' = "off"
    /\ available' = FALSE
    /\ Update(FALSE, valve_open)
    /\ UNCHANGED <<client, valve_open, poll, polled, fresh, blind>>
    /\ ready' = Tail(ready)

\* Slip: the entities are not told.
EstablishedUntold(v) ==
    /\ attempt' = "off"
    /\ client' = IF link THEN "live" ELSE "dead"
    /\ blind' = ~link
    /\ available' = TRUE
    /\ valve_open' = v
    /\ UNCHANGED shown
    /\ IF "notify" \in props
         THEN UNCHANGED <<poll, polled>> /\ ready' = Tail(ready)
         ELSE poll' = "look" /\ polled' = link /\ ready' = Append(Tail(ready), "poll")

\* The end of _subscribe(), and of _async_connect(), with no await in between.
Established(v) ==
    /\ attempt' = "off"
    /\ client' = IF link THEN "live" ELSE "dead"
    /\ blind' = ~link
    /\ available' = TRUE
    /\ valve_open' = v
    /\ Update(TRUE, v)
    /\ IF "notify" \in props
         THEN UNCHANGED <<poll, polled>> /\ ready' = Tail(ready)
         ELSE poll' = "look" /\ polled' = link /\ ready' = Append(Tail(ready), "poll")

Go(place) ==
    /\ attempt' = place
    /\ ready' = Tail(ready)
    /\ UNCHANGED <<client, available, valve_open, shown, poll, polled, fresh, blind>>

\* The first step: nothing to do, not in range, or establish_connection().
Begin ==
    \E ble_device \in BOOLEAN :
        /\ ble_device \/ ~near
        /\ Go(IF unloaded \/ client = "live" \/ ~ble_device THEN "off" ELSE "establish")

\* _subscribe(), from one await to the next.
_subscribe ==
    CASE attempt = "establish" -> Go("temperature")
      [] attempt = "temperature" ->
            IF "notify" \in props THEN Go("valve")
            ELSE IF "read" \in props THEN Go("read") ELSE ConnectFails
      [] attempt = "valve" /\ "read" \in props -> Go("read")
      [] attempt = "valve" /\ "read" \notin props ->
            Established(valve_open) /\ UNCHANGED fresh

\* The answer to the first reading of the valve; a failed one is passed over.
FirstReading ==
    IF result \in Valve THEN Established(result) /\ fresh' = TRUE
                        ELSE Established(valve_open) /\ UNCHANGED fresh

\* A cancelled task ends without a change, wherever it is.
_async_connect ==
    /\ ready # <<>> /\ Head(ready) = "connect"
    /\ result' = "none"
    /\ CASE result = "cancelled" -> Go("off")
         [] result # "cancelled" /\ attempt = "created" -> Begin
         [] result # "cancelled" /\ attempt = "read" -> FirstReading
         [] result = "error" /\ attempt # "read" -> ConnectFails
         [] result = "ok" -> _subscribe
    /\ UNCHANGED <<sensor, life, answer>>

-----------------------------------------------------------------------------
(***************************************************************************)
(* The poll and the callbacks, run by the loop.                            *)
(***************************************************************************)

\* _apply_valve() and the update after it.
Apply(v) ==
    /\ valve_open' = v
    /\ fresh' = TRUE
    /\ IF v = valve_open THEN UNCHANGED shown ELSE Update(available, v)

_poll_valve ==
    /\ ready # <<>> /\ Head(ready) = "poll"
    /\ ready' = Tail(ready)
    /\ answer' = "none"
    /\ poll' = CASE answer = "cancelled" -> "off"
                 [] answer # "cancelled" /\ poll = "look" ->
                        IF unloaded \/ ~polled THEN "off" ELSE "read"
                 [] answer # "cancelled" /\ poll = "read" -> "pause"
    /\ IF poll = "read" /\ answer \in Valve
         THEN Apply(answer)
         ELSE UNCHANGED <<valve_open, shown, fresh>>
    /\ UNCHANGED <<sensor, life, client, available, attempt, result, polled, blind>>

\* Slip: the client is not forgotten, and stays available.
LostUnnoticed ==
    /\ ready # <<>> /\ Head(ready) = "lost"
    /\ _cancel_valve_poll(Tail(ready))
    /\ UNCHANGED <<sensor, life, client, available, shown, valve_open, attempt,
                   result, poll, polled, fresh, blind>>

\* Slip: the callback suspends before it acts.
LostLater ==
    /\ ready # <<>> /\ Head(ready) = "lost"
    /\ \/ /\ client' = "none" /\ available' = FALSE
          /\ Update(FALSE, valve_open)
          /\ _cancel_valve_poll(Tail(ready))
       \/ /\ Len(ready) > 1 /\ ready' = Append(Tail(ready), "lost")
          /\ UNCHANGED <<client, available, shown, answer>>
    /\ UNCHANGED <<sensor, life, valve_open, attempt, result, poll, polled, fresh, blind>>

\* Whichever client the callback is for.
_handle_disconnect ==
    /\ ready # <<>> /\ Head(ready) = "lost"
    /\ client' = "none" /\ available' = FALSE
    /\ Update(FALSE, valve_open)
    /\ _cancel_valve_poll(Tail(ready))
    /\ UNCHANGED <<sensor, life, valve_open, attempt, result, poll, polled, fresh, blind>>

_set_valve_from_bytes ==
    /\ ready # <<>> /\ Head(ready) \in Valve
    /\ ready' = Tail(ready)
    /\ Apply(Head(ready))
    /\ UNCHANGED <<sensor, life, client, available, tasks, blind>>

-----------------------------------------------------------------------------
(***************************************************************************)
(* The sensor and the Bluetooth library.                                   *)
(***************************************************************************)

\* Slip: any client counts as a connected one.
AdvertisementIgnored ==
    /\ near /\ ~link /\ life = "running"
    /\ IF client # "none"
         THEN UNCHANGED <<attempt, result, ready>>
         ELSE _schedule_connect
    /\ UNCHANGED <<sensor, life, client, available, valve_open, shown, poll, polled,
                   answer, fresh, blind>>

\* The sensor is heard; the callback is registered until async_stop().
_async_advertisement ==
    /\ near /\ ~link /\ life = "running"
    /\ IF client = "live"
         THEN UNCHANGED <<attempt, result, ready>>
         ELSE _schedule_connect
    /\ UNCHANGED <<sensor, life, client, available, valve_open, shown, poll, polled,
                   answer, fresh, blind>>

\* The await of the attempt ends.  Establishing needs a sensor in range, whatever
\* comes after it a connection; a missing characteristic is an error as well.
ConnectAwaited ==
    /\ Awaiting
    /\ ready' = Append(ready, "connect")
    /\ \/ result' = "error" /\ UNCHANGED <<link, notifying, fresh>>
       \/ /\ attempt = "establish" /\ near /\ ~link
          /\ result' = "ok"
          /\ link' = TRUE /\ fresh' = FALSE /\ UNCHANGED notifying
       \/ /\ attempt \in {"temperature", "valve"} /\ link
          /\ result' = "ok"
          /\ notifying' = (notifying \/ attempt = "valve") /\ UNCHANGED <<link, fresh>>
       \/ /\ attempt = "read" /\ link
          /\ result' = valve /\ UNCHANGED <<link, notifying, fresh>>
    /\ UNCHANGED <<props, near, valve, life, client, available, valve_open, shown,
                   attempt, poll, polled, answer, blind>>

\* The reading or the pause of the poll ends.
PollAwaited ==
    /\ poll \in {"read", "pause"} /\ ~InQueue(ready, "poll")
    /\ ready' = Append(ready, "poll")
    /\ \/ poll = "read" /\ answer' = "error" /\ UNCHANGED poll
       \/ poll = "read" /\ polled /\ answer' = valve /\ UNCHANGED poll
       \/ poll = "pause" /\ poll' = "look" /\ UNCHANGED answer
    /\ UNCHANGED <<sensor, life, client, available, valve_open, shown, attempt,
                   result, polled, fresh, blind>>

\* The valve moves, and is notified if the device subscribed to it.
ValveMoves ==
    /\ valve' \in Valve \ {valve}
    /\ IF notifying
         THEN Len(ready) < MaxReady /\ ready' = Append(ready, valve')
         ELSE UNCHANGED ready
    /\ UNCHANGED <<props, near, link, notifying, life, client, available, valve_open,
                   shown, tasks, fresh, blind>>

\* The link breaks: is_connected and _on_disconnect() in one turn of the loop.
Breaks ==
    /\ link
    /\ link' = FALSE /\ notifying' = FALSE /\ polled' = FALSE
    /\ client' = IF client = "live" THEN "dead" ELSE client
    /\ ready' = Append(ready, "lost")
    /\ UNCHANGED <<props, near, valve, life, available, valve_open, shown, attempt,
                   result, poll, answer, fresh, blind>>

Moves ==
    /\ near' = ~near
    /\ UNCHANGED <<props, valve, link, notifying, life, client, available, valve_open,
                   shown, tasks, ready, fresh, blind>>

-----------------------------------------------------------------------------

Loop == _async_connect \/ _poll_valve \/ _handle_disconnect \/ _set_valve_from_bytes

Next ==
    \/ async_start \/ async_stop \/ Parted
    \/ Loop
    \/ _async_advertisement \/ ConnectAwaited \/ PollAwaited
    \/ ValveMoves \/ Breaks \/ Moves

\* The loop runs what is ready, every await ends (the library has timeouts), a
\* sensor in range without a connection is heard, and a link to one out of range
\* breaks.  Nothing makes a good link break or the user unload the entry.
Fairness ==
    /\ WF_vars(Loop) /\ WF_vars(ConnectAwaited) /\ WF_vars(PollAwaited)
    /\ WF_vars(Parted) /\ WF_vars(_async_advertisement)
    /\ WF_vars(Breaks /\ ~near)

Spec == Init /\ [][Next]_vars /\ Fairness

-----------------------------------------------------------------------------
(***************************************************************************)
(* Properties.                                                             *)
(***************************************************************************)

\* Every variable stays within its values, and no task is in the queue twice.
TypeOK ==
    /\ props \in Kinds /\ near \in BOOLEAN /\ valve \in Valve
    /\ link \in BOOLEAN /\ notifying \in BOOLEAN
    /\ life \in {"new", "running", "parting", "stopped"}
    /\ client \in {"none", "live", "dead"} /\ available \in BOOLEAN
    /\ valve_open \in Valve \cup {"unknown"}
    /\ shown \in Valve \cup {"unavailable"}
    /\ attempt \in {"off", "created", "establish", "temperature", "valve", "read"}
    /\ result \in {"none", "ok", "error", "cancelled"} \cup Valve
    /\ poll \in {"off", "look", "read", "pause"} /\ polled \in BOOLEAN
    /\ answer \in {"none", "error", "cancelled"} \cup Valve
    /\ ready \in Seq({"connect", "poll", "lost"} \cup Valve)
    /\ \A i, j \in DOMAIN ready :
            ready[i] = ready[j] /\ ready[i] \in {"connect", "poll"} => i = j
    /\ fresh \in BOOLEAN /\ blind \in BOOLEAN

\* A device is available with a connection, or _handle_disconnect() is about to
\* run, or the link went down under an attempt that succeeded all the same: its
\* first reading failed, which _subscribe() passes over, or had just been answered.
AvailableIsConnected ==
    available => \/ client = "live" /\ link
                 \/ client = "dead" /\ (InQueue(ready, "lost") \/ blind)

\* _poll_valve() runs for the connection of _client and for no other: a valve
\* that only can be read is polled while the device is connected, the poll of a
\* connection that is gone is about to be cancelled or to find out, and has ended
\* before _subscribe() of the next one can overwrite the task.
PollOfThisLink ==
    /\ (client = "live" /\ props = {"read"})
            => (poll # "off" /\ polled /\ answer # "cancelled")
    /\ poll # "off" => polled \/ InQueue(ready, "lost") \/ InQueue(ready, "poll")
    /\ attempt \in {"temperature", "valve", "read"} => poll = "off"

\* Once async_stop() has begun the device has no client and is not available, and
\* a task that is left is about to end: whatever was under way, nothing of it
\* brings the device back.
UnloadedHoldsNothing ==
    unloaded =>
        /\ client = "none" /\ ~available
        /\ attempt # "off" => result = "cancelled" /\ InQueue(ready, "connect")
        /\ poll # "off" => answer = "cancelled" /\ InQueue(ready, "poll")

\* With nothing left to run, the entity shows the sensor's valve, if this
\* connection has brought a state at all (its first reading may have failed):
\* notifications and the answer to the reading are applied in the order sent.
EntityFollowsValve ==
    (ready = <<>> /\ client = "live" /\ fresh /\ "notify" \in props)
        => shown = valve

\* A client whose link is up is given up by async_stop() only: no late callback of
\* an earlier connection, which _handle_disconnect() could not tell, clears it.
NeverDropsSession ==
    [][client = "live" /\ link' => client' = "live" \/ life' # "running"]_vars

\* A sensor in range without a connection is tried again, whatever the last
\* connection or attempt has left in _client and _connect_task.
TriesAgain ==
    (life = "running" /\ near /\ ~link)
        ~> (attempt # "off" \/ ~near \/ life # "running")

\* A device that is available without a connection does not stay so while the
\* sensor is in range.
AvailabilityCorrected ==
    (life = "running" /\ near /\ ~link /\ available)
        ~> (~available \/ link \/ ~near \/ life # "running")

\* "Keeps a GATT session" (device.py:27): a connection that is up comes into use,
\* unless it breaks, the sensor leaves or the entry is unloaded.
ConnectionIsUsed ==
    (life = "running" /\ link)
        ~> (client = "live" \/ ~link \/ ~near \/ life # "running")
=============================================================================
