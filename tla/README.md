# Wein: a verification project

Wein watches a START-STOP sensor (a thermometer and a valve with Bluetooth LE).
It consists of three programs that do not talk to each other:

* the **bot** (Python, the root of the repository): one asyncio thread that
  keeps a BLE session with the sensor while at least one user is subscribed,
  and sends temperature and valve alerts to the subscribers over XMPP;
* the **relay** (C++, `esp32-s3/`): FreeRTOS firmware that keeps a BLE session
  and republishes the notifications to an MQTT broker;
* the **integration** (Python, `home-assistant/`): a component for Home
  Assistant that keeps a BLE session and shows its values as entities.

This directory holds TLA+ specifications of their logic, TLC configurations that
check them on small instances, and TLAPS proofs of theorems about them.

## 1. Inventory

| component | source | state | operations | interacts with |
|---|---|---|---|---|
| threshold monitor | `threshold_monitor.py` | last temperature, armed sets | `check`, `update_thresholds` | called by `main.py` for readings and sessions |
| orchestrator | `ble_orchestrator.py` | `_task`, `_lock` | `start`, `stop`, `sync`, failure callback, restart | called by commands and `main.py`; owns the loop's task |
| commands, alerts | `xmpp_bot.py` | – (the list) | `_handle_start`, `_handle_stop`, `notify_subscribers` | list of subscribers, orchestrator |
| main program | `main.py` | `ble_fatal` | `run`, callbacks of the sensor | wires all of the above |
| list of subscribers | `app_config.py` | `subscribers`, `config.json` | `add_subscriber`, `remove_subscriber`, `save`, `load` | commands, alerts, orchestrator |
| sensor loop | `ble_sensor.py` 690–809 | where the loop is | `run_sensor_loop`, `_probe_for_sensor` | task of the orchestrator, runs sessions |
| sensor session | `ble_sensor.py` 410–687 | client, valve control and state, poll and watch tasks | handlers, polling, clean-up | callbacks of `main.py` |
| pairing agent | `bluez_pairing_agent.py` | connection to the system bus, registration | `register`, `unregister` | called by the session around the connection; BlueZ |
| OMEMO storage | `omemo_plugin.py` | – | file I/O | libraries |
| relay: BLE client | `esp32-s3/src/ble_client.cpp` | phase, connection, flags, characteristics | GAP and GATT callbacks, `reconnect_task` | NimBLE; reports to `main.cpp` |
| relay: publisher | `esp32-s3/src/main.cpp`, `mqtt_publisher.cpp` | broker connection; retained topics on the broker | MQTT events, publications | BLE client, broker |
| relay: configuration, payloads | `app_config.cpp`, `payload_parser.cpp` | – | parsing | – |
| integration: device | `home-assistant/.../device.py` | client, tasks, availability | connect, disconnect, stop, advertisement | framework of Home Assistant |
| integration: entities, forms | `sensor.py`, `binary_sensor.py`, `config_flow.py`, ... | – | views of the device | framework |

What is hard in this code, and what makes each part correct:

* **Threshold monitor.** One remembered temperature and two sets serve all rules.
  One alert per crossing, none repeated without a retreat by the hysteresis,
  whatever the readings (equal to a bound, jumping over several rules, NaN).
* **Orchestrator.** Commands, a failing loop, the delayed restart and the end of
  the program overlap at every await. Never two loops (one adapter); monitoring
  follows the list; nobody waits for ever; a failed loop is replaced.
* **Sensor session.** Handlers create tasks that send while newer notifications
  arrive; polling, watching and cancellation overlap with the clean-up. The
  valve state last shown is the sensor's; a connection that was announced is
  announced as lost; every lost link ends the session.
* **List of subscribers.** Saving can fail or be interrupted; alerts are sent to
  a copy of the list while it changes, by tasks of their own or by tasks that are
  cancelled meanwhile.
* **Pairing agent.** Its registration is two calls on the bus before the `try` that
  undoes it; its removal can fail with a connection, an error or a cancellation in
  flight.
* **BLE client of the relay.** Two tasks share fifteen variables without a lock;
  a link that is being terminated still delivers events; results of NimBLE calls
  are dropped. An absent sensor is reported as absent, no characteristic is
  passed over, the relay always looks for the sensor again.
* **Publisher of the relay.** Retained topics outlive the relay; the BLE state is
  read and then published while it changes; QoS 1 can repeat an old message.
* **Device of the integration.** Connect, disconnect callback, advertisement and
  unload in every order.

The hazards are listed line by line in `PROJECT.json`, with the properties that
cover them or the reason why none does.

## 2. Plan

| step | modules | question | state |
|---|---|---|---|
| 1 | `ThresholdRules`, `ThresholdTrigger`, `ThresholdMonitor`, `ThresholdMonitorProofs` | one alert per crossing | done, proved |
| 2 | `BleOrchestrator`, `BleOrchestratorProofs` | one loop, following the list | done, proved |
| 3 | `EspBleClient` | report and recovery of the relay | done, invariants proved |
| 4 | `SensorSession`, `SessionOutcome`, `SensorSessionProofs`, `SensorValveProofs` | the session ends in one of the ways that `BleOrchestrator` assumes; valve state shown | done, proved |
| 5 | `Subscriptions`, `SubscriptionsProofs` | list on disk and in memory; what users are told; who receives an alert | done, proved |
| 6 | `BleReport`, implemented by `EspBleClient`; `EspRelay` on top of it; `EspBleClientProofs`, `EspRelayProofs` | retained state follows the sensor | done, proved |
| 7 | `WeinDevice`, `WeinDeviceProofs` | availability, polling and unloading of the integration | done, proved |
| 8 | the proof modules | every invariant and every action property that a run checks, for all values of the constants | done (section 5) |

## 3. Modules

### ThresholdRules, ThresholdTrigger, ThresholdMonitor

`ThresholdRules` holds the rules and the three comparisons the code makes between
a rule and a temperature: short of it, at it or beyond it, retreated from it.
Temperatures are integers (the unit does not matter) or NaN, for which every
comparison is false, as in Python. `ThresholdMonitor` has `check` and
`update_thresholds` as steps; `on_temperature` and `on_connected` add the test
for subscribers of `main.py`. One call is one step because nothing in it awaits.
`sounded` and `session` are history variables for the properties.

`ThresholdTrigger` is the abstract specification: each rule is a trigger that is
blind, ready or spent, and knows no temperature. A new session may turn a spent
trigger into a blind or a ready one: this freedom is what the code does
(`update_thresholds` keeps the last temperature), not what the docstring of its
class says, which asks for a retreat before every repetition. `ThresholdMonitor`
implements it under the mapping `PhaseOf`. A NaN makes a ready trigger blind: a
crossing between the readings before and after it raises no alert.

A rule is known by its value within its list, as in the code's armed sets; the
texts, and two rules of equal value in one list, are left out.

### BleOrchestrator

Every coroutine that can be inside the orchestrator has a program counter: the
handlers of messages (`Workers`), the restarts after a failure (`Restarters`)
and `main.run()` (`Main`). An action is what runs between two suspensions. A
free `asyncio.Lock` is taken without suspending, so a command changes the list
and runs `start` or `stop` up to its first real await in one step; a held lock
queues the coroutine, and `Release` hands it to the first of the queue.

| definition | code |
|---|---|
| `_handle_start`, `_handle_stop`, `Reply` | the commands in `xmpp_bot.py` with the save of the list and the answer |
| `start`, `stop`, `restart` run by `Call`, `Granted` | the calls, once they hold the lock, up to the adapter check or the join |
| `AdapterReady`, `AdapterMissing`, `AdapterBusy`, `Joined` | what the awaits inside them end with |
| `_log_task_failure`, `_restart_after_failure` | done callback and delayed restart |
| `sync`, `OnFatal`, `Interrupt`, `Exit`, `Crash` | `main.run()`; a new process starts with the saved list |
| `FirstAttempt` ... `Aborted` | `run_sensor_loop()`: its state in `at`, its way out, and where a cancellation finds it |

The loop is abstract: before its first session, in a session, in the session's
clean-up (after its own end, or by cancellation), or probing. A session can end
at any time; the clean-up can swallow a cancellation, as
`except asyncio.CancelledError: pass` does. A task that ended stays in `hooks`
until its callback has run; `stop()` resumes after that.

### SensorSession, SessionOutcome

`SensorSession` is `_run_monitoring_session()`. `place` is the await the session is
suspended at, from the registration of the pairing agent to the end of its finally
block; `bus` is the D-Bus connection of the agent; `watch` is the
task of `_watch_connection()`; `doing` says where each *applier* is: the tasks
created by the handlers of the valve, `poll_valve_control()`, and the session
itself while it applies the first reading of the control.

| definition | code |
|---|---|
| `apply_valve_control_state`, `report_initial_valve_state`, `apply_valve_state` | the nested functions of the same name, from one await to the next |
| `Run`, `Sent`, `Answered` | an applier is resumed, in the order of `ready`; its message is sent; its reading ends |
| `valve_control_handler`, `valve_state_handler`, `on_ble_disconnect` | callbacks of the BLE library, each one step |
| `AgentRegistered`, `Registered`, `RegisterFails` | `register()`: the answers to `RegisterAgent` and to `RequestDefaultAgent`, and an error of either |
| `Unregistered`, `UnregisterFails` | `unregister()`, on the way out of `pairing_agent_session()`; without Linux the session starts at the connection |
| `Subscribed` ... `Greeted`, `Lost` | the rest of the try block |
| `Finally`, `PollCancelled`, `WatchCancelled`, `Joined`, `Parted`, `PartingFails`, `SaidFarewell` | the finally block and `disconnect_client()` |
| `Stop`, `Cancelled` | the orchestrator cancels the loop; `CancelledError` where the session is suspended |

The order in `ready` matters: a notification and the answer to a reading reach
the bot in the order in which the sensor sent them, and asyncio resumes in the
order in which things became ready. A message may suspend its sender or not (the
library that encrypts decides), so a sender may stay first in the queue.
`intentional_disconnect` is `place` from the parting on; the branch of the watch
that tests it is never reached, because the watch has been joined by then. The
session's own steps between two subscriptions are not in the queue: they can
come at any time, which allows more than asyncio does.

`SessionOutcome` is what the loop relies on: a session ends by itself (at once or
through its clean-up), or a cancellation makes it end as cancelled, is swallowed
by a clean-up that had begun, or is replaced by an error of the disconnection.
These are the steps `SessionEnds`, `CleanedUp`, `Cancelled` and `Aborted` of
`BleOrchestrator`, for one session; `ImplementsOutcome` shows that the session
takes no other.

### EspBleClient

The static variables of `ble_client.cpp`, what NimBLE knows about the link, and
its queue of GATT procedures. The steps of `reconnect_task` are cut where it tests
something and then acts (`pcT`), and where `schedule_reconnect()` run by that task goes
from one piece of state to the next:

| definition | `schedule_reconnect()`, lines 291–309 of `ble_client.cpp` |
|---|---|
| `Reconnect` | the test of the phase (292) |
| `TerminateLink` | the link is terminated and its handle forgotten (295–298) |
| `ForgetLink` | the flags of the connection (299–302) |
| `Reset` | `reset_handles()` (303) |
| `Withdraw` | `set_ble_connected(false)` (304) |
| `Settle` | the phase, which comes last (305–306) |
| `schedule_reconnect` | all of it, in the host task |

The host task is cut where NimBLE has noted that a link is encrypted and has not
delivered the event yet (`LinkSecured`, `Encrypted`). `Preemption` says whether the host
task may run at the cuts of `reconnect_task`, and that task at this one; `Refused` is the
set of NimBLE procedures that may fail to start. The characteristics are those with
notify, in their order in `config.json`.

Coarser than the code: a handler of the host task is one step but for that cut; so are
the loop of `reset_handles()`, the assignments of `ForgetLink`, and an assignment of
`s_ble_connected` with the test before it and the publication after it. What would need
an interruption within one of these is not shown.

### BleReport, EspRelay

`BleReport` is all that the rest of the relay sees of the client: whether some
characteristic is known (a notification of an unknown one is dropped) and whether
the sensor is reported as connected. The host task forgets the handles and withdraws the
report in one step (`Forget`); `reconnect_task` does so in two (`Reset`, `Withdraw`), and
while it is between them (`resetting`) a sensor can be reported whose handles are gone,
and the host task can take any step of its own. `EspBleClient` implements this with
preemption at every cut named above (`ImplementsReport`), and `EspRelay` is
built on the five steps.

`EspRelay` has the three tasks that publish, the queue of the MQTT client
(`outbox`), the session and the broker's retained topics.

| definition | code |
|---|---|
| `SetUp`, `Gone` | `set_ble_connected()` in the host task, with `on_ble_connected()` and what it publishes |
| `Reset`, `Withdrawn` | `reset_handles()` and `set_ble_connected(false)` in `reconnect_task` |
| `Notified`, `poll_read_characteristics`, `on_gatt_read` | values published by notification and by the readings of the client |
| `MqttConnected`, `on_mqtt_connected` | `mqtt_event_handler()` up to the reading of the BLE state, and its publication |
| `Register`, `Restart` | `app_main()` |
| `Received`, `Acknowledged`, `Broken`, `Noticed`, `Expired` | the MQTT client, the network and the broker as the code uses them |

The MQTT client and the broker are idealised: with QoS 1 a message stays in the
queue until it is acknowledged and is sent again, in order, after a reconnection
(so that an older value can arrive again after a newer one); the oldest is given
up when the broker is missing for too long; a broker that still held the last
session publishes its last will before it accepts the new one. All
characteristics share one topic `value`, with payloads that tell a value of
`this` connection from an `old` one. The tasks run side by
side: the sensor can come or go between the two halves of `on_mqtt_connected()`, anything
can happen between `Reset` and `Withdrawn`, and
a session can begin before the callback is registered (`main.cpp` 40 and 44). In the
first case the older state is published last, in the last none is published; the
history variable `misled` marks both until the next report or session corrects them.

### WeinDevice

One device of the integration from its set-up to the end of its unloading. `ready`
is the queue of the event loop; a task is one step from one await to the next.

| definition | code |
|---|---|
| `async_start`, `async_stop`, `Parted` | set-up; unloading up to, and after, the disconnection |
| `_async_connect` with `Begin`, `_subscribe`, `FirstReading`, `Established`, `ConnectFails` | the task of an attempt, resumed with what its await ended with |
| `_poll_valve`, `_handle_disconnect`, `_set_valve_from_bytes` | the poll and the callbacks, run from the queue |
| `_async_advertisement` | the framework heard the sensor |
| `ConnectAwaited`, `PollAwaited`, `Breaks`, `ValveMoves`, `Moves` | the Bluetooth library and the sensor |

Assumed of the environment: the sensor takes one connection and advertises only
without one; `is_connected` becomes false and the callback is queued in the same
turn of the loop; a cancelled `establish_connection()` leaves nothing behind.
A client is `live` while its connection is up and `dead` afterwards, so that
clients need no names. Every attempt finds `_connect_lock` free, because
`_schedule_connect()` never starts a second one. The temperature is left out.

### Subscriptions

The list of subscribers in memory and in `config.json`, what users are told and
who receives an alert. `BleOrchestrator` has the same commands in front of the
orchestrator's lock, with a save that succeeds; here the orchestrator is an await
that ends or raises and remembers what it was asked for last, and the save is
what is looked at.

| definition | code |
|---|---|
| `Boot`, `Synced`, `Crash` | `AppConfig.load()`, `orchestrator.sync()`, the end of the process in any way |
| `Arrives`, `Dropped` | `_on_message()` up to and after the decryption |
| `_handle_start`, `_handle_stop` with `Changed`, `Unchanged` | the commands, up to their first await |
| `Saved`, `SaveFails`, `CrashInSave` | `save()`: it succeeds, raises before or after the file was truncated, or is interrupted in between |
| `Called`, `CallFails`, `Reply` | the orchestrator and the answer |
| `Raised`, `Begins` | `on_temperature()`, which creates a task for the alert |
| `Awaited` | the other callbacks of `main.py`, awaited by the task of a valve notification (`own`), by the session's poll or by the loop |
| `Sent`, `Finished` | `notify_subscribers()`, from one message to the next, and its end |
| `Cut` | its end by `CancelledError`, which `except Exception` (`xmpp_bot.py` 139) lets pass |

When the poll or the loop is cancelled is the business of `SensorSession` and
`BleOrchestrator`; here a cancellation can come at any time, which allows more.

A torn file keeps the program from starting until somebody repairs it, with any
list. Lists have no repetition: that is what the commands produce; a repetition
written by hand is not modelled.

## 4. Runs

| run | configuration | result |
|---|---|---|
| `threshold_monitor` | rules 3, 5 (high) and 1, 3 (low), hysteresis 1, readings 0–7 and NaN | `TypeOK`, `ArmedIsSounded`, `NoRepeatInSession` and the refinement `OneAlertPerCrossing` hold |
| `orchestrator_safety` | 2 users, 3 commands at a time, 1 restart, 2 loops | `TypeOK`, `AtMostOneLoop`, `FollowsSubscribers` hold |
| `orchestrator_liveness` | 1 user, 2 commands at a time | `AnsweredUnlessSurvivor`, `MonitoringResumes` hold |
| `orchestrator_busy` | 2 users, 2 commands | **violation**: a busy adapter leaves subscribers without monitoring |
| `sensor_session` | 2 tasks of handlers beside the session and the poll | `TypeOK`, `ValveFollowed`, `LeavesNothing`, `EndsWhenLostOrStopped` and the refinement `ImplementsOutcome` hold |
| `esp_client` | 2 characteristics, handlers not interrupted, nothing refused | `TypeOK`, `ReportedAway`, `FlagsOfThisLink`, `NonePassedOver`, `ScansAgain`, `SetupEnds` hold |
| `esp_client_preempted` | 2 characteristics, tasks interrupt each other, scans and GATT procedures refused at will | the refinement `ImplementsReport` and `ReportCorrected` hold |
| `esp_client_refused` | connection attempts refused | **violation**: the phase stays Connecting |
| `esp_relay` | 5 messages waiting, three tasks side by side | `TypeOK`, `ReportArrives`, `NoOldValue`, `UnavailableWhenAway`, `AvailableWhenThere` hold |
| `wein_device` | valves with notify, read, both or neither; 3 entries ready when the valve moves | `TypeOK`, `AvailableIsConnected`, `PollOfThisLink`, `UnloadedHoldsNothing`, `EntityFollowsValve`, `NeverDropsSession`, `TriesAgain`, `AvailabilityCorrected` hold |
| `wein_device_left` | the same | **violation** of the class docstring: a failed subscription leaves a connection nobody uses |
| `subscriptions` | 2 users, 2 messages in hand, 1 alert | `TypeOK`, `AnswerTrue`, `AskedForTheList`, `EveryoneTried` hold |

Notes on the properties:

* `FollowsSubscribers` is about quiet moments: no coroutine in the orchestrator,
  no callback pending, no fatal error. It excepts a `start()` that was left by an
  exception (`abandoned`); `AlwaysFollowsSubscribers` is the claim of the
  docstring, without the exception.
* `AnsweredUnlessSurvivor` excepts the behaviours in which `stop()` waits for ever
  for a loop that has lost its cancellation. They exist: the clean-up of a session
  takes a cancellation that arrives while it joins its own tasks for theirs
  (`ble_sensor.py` 661-671), the loop goes on if somebody has subscribed again,
  and `stop()`, which cancels once, waits with the lock held.
* `ValveFollowed` excepts one order of events (`missed`), without which it is
  violated: the control goes off and on while an older state of the valve, the first
  reading or a notification, is still to be applied, and a notification that arrives
  while it is off is only remembered; the older state is then applied last. All of it
  must reach the bot in one turn of the event loop. That the older state may be a
  notification takes three tasks of handlers, one more than the run has, and was found
  by the proof: with the exception for a reading alone the property holds for two
  tasks and is violated for three. The property is about the state the bot holds;
  nothing orders the messages themselves, whose encryptions overlap.
* `LeavesNothing` excepts a disconnection that raises or is cancelled (`spoilt`): then
  `on_disconnected()` is not called, and the connection may remain. It also excepts a
  registration of the pairing agent that failed or was cancelled (`Unfinished`):
  `register()` is called before the `try` of `pairing_agent_session()`, so that nothing
  calls `unregister()` then. The bus stays open, and if it was the second of its two
  calls that did not succeed, the agent stays registered on it (`bus = "agent"`). The
  property shows that this is the only way in which either is left, and that no
  connection is left with it: every later error and cancellation passes `unregister()`.
* `ReportedAway`, `FlagsOfThisLink` and `NonePassedOver` hold when a handler is not
  interrupted. With preemption all three can break by the same interleaving: the
  tests of `reconnect_task`, then encryption, discovery and subscription by the
  host task, then the end of `schedule_reconnect()`. The window is narrow (the
  exchanges over the air take longer than the code between the two statements
  unless the task is delayed), but nothing except timing closes it.
  `ScansAgain` and `SetupEnds` too are checked without preemption only: with it,
  `reconnect_task` can see the link encrypted before the event is delivered, lose
  the link, and then set the phase Discovering, which nothing leaves.
  `ReportCorrected` and `ImplementsReport` are what remains true at every cut.
* `ImplementsReport` does not say that handles and report go together: in
  `reconnect_task` they do not (`ble_client.cpp` 303 and 304). It says that this is the
  only gap, that it ends with the withdrawal of the report and in no other way, and that
  nothing else forgets the handles of a reported sensor.
* `NonePassedOver` counts a characteristic whose write has failed as tried: it stays
  without notifications until the next connection, because the error is only logged.
* `SetupEnds` needs `Refused = {}`: a refused discovery leaves the phase
  Discovering until the link breaks, because the result is not looked at.
* `NoOldValue` excepts values published outside a reported connection (`stray`): a
  notification that comes while the client still subscribes, whose link breaks
  before the setup is finished, or a reading answered after the client gave the
  link up. Nothing is cleared then, because the report does not change; the
  `esp32-s3/README.md` (line 112) says that values are cleared on every
  disconnection. While the sensor is reported it also excepts a clearing that expired, or
  was left to a relay that restarted (`unswept`), and the time in which `reconnect_task`
  has forgotten the handles and not yet reported that (`resetting`).
* `ReportArrives`, `NoOldValue`, `UnavailableWhenAway` and `AvailableWhenThere` except
  what `on_mqtt_connected()` has published after it was overtaken, or not published at
  all in this session (`misled`). That window is a few instructions in the first case,
  and shorter than a TCP connection in the second.
* `UnavailableWhenAway` and `AvailableWhenThere` are about availability as Home
  Assistant computes it from the two retained topics. At the beginning of a session
  `online` precedes the BLE state, so an old `true` may count for a moment: the
  properties say that it does not last, not that it does not happen.
* `AvailableIsConnected` excepts one order (`blind`): the link breaks between the last
  await of `_subscribe()` and the return of the attempt, so that
  `_handle_disconnect()` runs before `_client` is set. The device is then available
  without a connection. `AvailabilityCorrected` shows that the next advertisement
  ends this; a sensor that stays away sends none.
* `UnloadedHoldsNothing` is about the device. The link of an attempt cancelled inside
  `_subscribe()` stays up: `client` is a local variable of `_async_connect()`, and the
  property does not see it.
* `ConnectionIsUsed` is the docstring's claim, with every excuse the sensor and the
  user can give.
* `AnswerTrue` excepts a user with two messages in hand (`overlap`): their answers
  leave in any order. A save that failed is no exception to what is in memory; it
  only makes what was said worthless for the next process (`unsaved`).
* `AskedForTheList` excepts a save that failed where the orchestrator was to be called
  (`uncalled`).
* `EveryoneTried` says whom an alert reaches at least; a user who leaves while it is
  sent still gets it. It is about alerts sent by a task that nobody cancels: those of the
  thresholds, and those of a notification of the valve. The others are awaited by the
  session's poll, which the clean-up of the session cancels (`ble_sensor.py` 661), or by
  the loop, which `stop()` cancels: "connected", "disconnected", and what the poll finds.
  A cancellation ends their walk, and whoever comes later in the list is not tried,
  although still subscribed.

### Bounds, and why they are enough

* Two values per side, one of them in both lists, and readings two steps beyond
  the outermost retreat: every order of a reading relative to two rules and
  their hysteresis occurs. The proofs remove these bounds.
* A command, a restart and the main program are symmetric users of one lock; three
  commands at a time give a holder and a queue of two, with a restart and the
  main program beside them. `Restarters` bounds the restarts asleep at a time: a
  loop fails in `FirstAttempt` only while one is free. `Loops` are identities: a
  task that ended gives its name back, so loops are created without limit; two
  suffice to exhibit a second live one. The three invariants are proved without
  these bounds.
* Two tasks of handlers: a change of the control that awaits its message or its
  reading, and a notification of the valve or another change that overtakes it;
  the session or the poll can be a third. Readings have any outcome, messages
  end at any time, and one cancellation comes at any time: `stop()` cancels a task
  once, and joins it before anyone can cancel again. Nothing else is bounded. The
  invariants and the refinement are proved for any number of tasks; that two are not
  enough for every order of events is said at `ValveFollowed` above. With three TLC
  has 8 291 706 distinct states and finds the invariants and the refinement true.
* Two characteristics: a write followed by a write, and a write followed by the
  end of the setup. `age` counts the two time limits of `reconnect_task` (8 s and
  60 s) and no further. Nothing else in that model is bounded. The invariants
  and the refinement are proved without this bound.
* `MaxOutbox = 5`: the report and the clearing of a connection that ended, and the
  three messages a session begins with. What would exceed it does not happen. A value
  is published only while there is room for a report besides, so that values cannot
  keep a report waiting for ever. The proofs of the invariants use no bound.
* `MaxReady = 3`: the valve moves only while fewer entries are ready, so that its
  notifications wait behind a task and the callback of a broken link. Tasks and
  callbacks are not bounded by it. The proofs of the invariants and of
  `NeverDropsSession` do not use it.
* Two users are what an alert needs to pass over one when the other leaves. Two
  messages in hand can be of one user or of both, and a third one would do no more
  than follow. Users and messages are interchangeable, in the properties too, and no
  liveness is checked, so that the symmetry is sound. The proofs remove these bounds.

### Fairness

* `BleOrchestrator`: asyncio runs every ready coroutine, and every await in the
  list ends (a scanner answers or raises, a sleep elapses, a message is sent, a
  clean-up has timeouts). No fairness makes a user write, a link break, a sensor
  appear, or a process crash.
* `SensorSession`: what is ready is resumed; readings, subscriptions, connection and
  disconnection end by the timeouts of the BLE library; BlueZ answers the agent or its
  bus fails (`bus.call()` has no timeout of its own); messages are sent or
  fail; the watch looks again after each pause. No fairness makes the link break,
  `disconnected_callback` come (it may be lost) or the poll go on.
* `EspBleClient`: the FreeRTOS scheduler runs both tasks; NimBLE ends scans,
  connection attempts, GATT and security procedures by its own timeouts, and
  reports a link it has terminated. No fairness makes the sensor appear or a good
  link break.
* `EspRelay`: FreeRTOS runs `app_main()` and the MQTT task; the MQTT client tries
  again to connect; the broker answers while a session is up and notices a broken
  one by its keep-alive. No fairness makes the sensor come or go, a session break or
  last, or the relay restart.
* `WeinDevice`: the loop runs what is ready; every await ends, by the timeouts of the
  Bluetooth library if not otherwise; a sensor in range without a connection is
  heard; a link to a sensor out of range breaks. No fairness makes a good link break
  or the entry be unloaded.
* `Subscriptions` has none: its properties are invariants and an action property.

Deadlock is checked in every run but `sensor_session`, where the session comes to its
end, and those of `EspBleClient` with preemption or
refused connections, in which the relay can come to a stop (see the notes above).

## 5. Proofs

`ThresholdMonitorProofs` (assumptions: rules are integers, the hysteresis is not
negative as `ThresholdsConfig.from_dict` checks, a reading is an integer or NaN
and is not `None`):

* `Invariance`: `TypeOK /\ ArmedIsSounded` is inductive as it stands; `TypeCorrect` is
  its first part.
* `NoRepeat`: `NoRepeatInSession`, from the invariant, because an alert needs its
  rule to be unarmed. NaN included.
* `Refinement`: `Spec => OneAlertPerCrossing`. The invariant
  gives that the armed rules are the spent triggers; that a reading moves every
  trigger as `After` says is a case split on the trigger's phase with two lemmas
  on the comparisons: what is reached is not retreated from, and what is
  retreated from is short.

`BleOrchestratorProofs` (assumption: the coroutines' names are distinct and not
`None`), for any number of users, commands, restarts and loops:

* `TypeCorrect` and `OneLoop`, from `IInv`. `AtMostOneLoop` is not inductive: that
  `AdapterReady` finds no live loop depends on the lock being held since the test
  of `_task`. `IInv` adds that a live loop is the one `_task` names, that whoever
  is at the adapter check or at the join holds the lock, and that there is no loop
  during the check. The lemmas `StartSegment`, `StopSegment` and `RestartSegment`
  treat what a call does up to its first suspension once, for all callers.
* `MonitoringFollows`: `FollowsSubscribers`, from `FInv` on top of `IInv`. It speaks of
  quiet moments only, so the invariant says who is going to set right what is not right
  yet: a loop that nobody wants has a `stop()` to come (`StopPending`), a loop that is
  wanted a `start()`, a restart, the beginning of the program or the callback of a task
  that failed (`StartPending`). The queue of the lock makes that true: nobody waits
  in it twice, and a `stop()` in it that a new subscriber has overtaken has that
  subscriber's `start()` behind it (`StopFollowed`). A loop that is being cancelled has
  somebody who joins it, and a program that is closing stops and does not start.

`SensorSessionProofs` (assumption: the names of the appliers are distinct, and `None`
is none of the outcomes), for any number of tasks of handlers:

* `NothingLeft`: `Spec => []LeavesNothing`. The invariant `SInv` follows the finally
  block: a session applies a value only where it reads the control, so the poll
  cannot be started again once it has been joined; the watch runs only from the
  waiting to its join; a registration that was finished is undone on every way out of the
  connection, and one that was not is left with a session that never connected; the
  farewell is said without a connection. `FinallyArrives` treats the
  entry of the finally block and the two joins once.
* `Refinement`: `Spec => ImplementsOutcome`, with the addition that the finally block
  knows what it ends with, and that a session being cancelled has taken its only
  cancellation. `PairingOutcome` says what is in flight while the agent is
  unregistered: with a client that is connected, the step that delivers a
  cancellation also closes the bus, so that no later error replaces it.

`SensorValveProofs` (the same assumptions, and `SInv`):

* `TypeCorrect` and `ValveIsFollowed`, from `TInv` and `VInv`. `ValveFollowed` speaks of
  moments in which everything has been applied; before that there may be older states
  of the valve in asyncio's queue. `CoveredUp` says that every one of them has the
  notification of the present state behind it, unless one was missed; `ToCome` that a
  state that is not shown under valve control is in the queue, or somebody who has
  just turned the control on is going to look at what was seen last. Both rest on the
  queue keeping its order, and on an applier being in it once; the lemmas on `Without`
  and `Append` say what happens to the places of the others.

`EspBleClientProofs` (assumptions: a natural number of characteristics, `Refused` a
set of procedures NimBLE knows), for any number of characteristics:

* `TypeCorrect`, which needs that `subscribe_next()` and the matching of a
  characteristic stay within their range: `LeastIn` derives the least element of
  a set of numbers from the well-foundedness of `<`.
* `Refinement`: `Spec => ImplementsReport`, with preemption or without: in the host task
  `schedule_reconnect()` forgets handles and report in one step, in `reconnect_task` it
  does so in the two steps of `BleReport`, whatever comes between; and only the matching
  and the end of the setup set either.
* `Away`: `ReportedAway` if `Preemption = FALSE`. It is not inductive: between the last
  two steps of `schedule_reconnect()` in `reconnect_task` the report has been taken back
  and the phase not set. `AwayInv` adds that place.
* `FlagsOfLink`: `FlagsOfThisLink` if `Preemption = FALSE`. `LInv` follows the link: one that
  is down has left no flag, no procedure and no handle (`DownEmpty`), a connection is
  attempted only then (`Dialling`), and what is flagged has been written on this link
  (`Flagged`).
* `NothingPassedOver`: `NonePassedOver` if `Preemption = FALSE`. `InSetup` cuts a connection
  into its discovery, its writes, in which every characteristic before the index has
  been written or has failed, and its end; or no procedure runs, because the setup has
  not begun or NimBLE refused a procedure. That a write passes over nothing is
  `NextInOrder`, which needs the flags to be of this link. The run has `Refused = {}`,
  the theorem any. With preemption TLC violates both properties (section 4).

`EspRelayProofs` (no assumption but those on the constants that the module states),
for a queue of any length:

* `TypeCorrect`, `ReportRetained` and `NothingStaleRetained`, from `RInv`. The
  properties speak of an empty queue; the invariant speaks of what the broker will
  hold once the queue has arrived (`Settles`): the last message of a topic, or
  what it holds already. `ReportPublished` and `ValueCleared` say what that is while
  a session that was greeted lasts, `StaleSwept` that every value of an earlier
  connection has a clearing behind it. A session may break between the arrival
  of a message and its acknowledgement, and the message is sent again: `InOrder` says
  that what has arrived is a prefix of the queue. `ReadingKnown` ties a reading under
  way to the handles of `BleReport`. `Ending` is the gap between `Reset` and `Withdrawn`,
  in which the values have become old and their clearing is still to come.

`WeinDeviceProofs`, for a queue of any length and any set of kinds of valves:

* `TypeCorrect`, `AvailableOnlyConnected`, `PollFollowsLink`, `NothingComesBack`,
  `EntityIsTrue` and the action property `SessionKept`, from `DInv`. The event loop's
  queue is seen through what is in it, what comes before what (`Before`) and which
  state is the last in it (`Ends`), and the lemmas say what an append, the removal of the
  head and a cancellation do to that. `LostFirst`: the loss of a link is handled before
  the next link comes up, which is why no late `_handle_disconnect()` meets a new
  client. `PollLives`, `PollEnds` and `PollBefore`: the poll of a link in use runs, that of
  a lost one is about to end, and has ended when the next attempt goes on.
  `NotifiedBefore`, `NotifiesFirst` and `LastIsTrue`: the last state on its way, or
  else the one applied, is the sensor's. `SessionKept` is an action property: the client is
  given up only by `async_stop()`, or for a link that is down.

`SubscriptionsProofs` (assumptions: finitely many users; a torn file holds no list),
for any number of users, messages and alerts:

* `TypeCorrect`, `Truthful`, `Asked` and `Tried`, from `IInv`. `AnswerTrue` is not inductive:
  it depends on what the messages still in hand are going to answer. `IInv` adds
  that a user without overlap has at most one message in hand (`Alone`), that such a
  user has not been answered yet (`Silent`), that an answer that is ready is true
  (`WillBeTrue`), and that the file holds the list in memory unless a save failed
  (`OnDisk`). `AppendList` and `WithoutList` say what the two commands do to a list
  without repetition; `ChangedInv` treats both commands, with a save that succeeds
  or fails, once. `Tried` is an action property: `Walks` says that an alert being sent has
  tried everybody of its audience who is not in the rest of its copy, and `EndsTried` that
  only its last step ends an alert that nobody cancels.

All invariants of the runs, the three refinements and the action properties
`NeverDropsSession` and `EveryoneTried` are proved. Only model-checked: liveness, which is beyond this
prover (`AnsweredUnlessSurvivor`, `MonitoringResumes`, `EndsWhenLostOrStopped`,
`ScansAgain`, `SetupEnds`, `ReportCorrected`, `UnavailableWhenAway`,
`AvailableWhenThere`, `TriesAgain`, `AvailabilityCorrected`), and the three violations. The
refinements are safety only. `ReportedAway`, `FlagsOfThisLink` and `NonePassedOver` are
proved for `Preemption = FALSE`, and are false without it.

## 6. Not modelled, and why

* What `asyncio.run()` does with the tasks left after `main.run()`; the model goes
  on with the next process.
* Other settings of `config.json` and their validation; a list of subscribers with a
  repetition, which can only be written by hand.
* Undecodable notifications of the valve, which are ignored; readings of the
  temperature inside a session, which are `on_temperature` of `ThresholdMonitor`.
* An invalid MAC address, resets of the Bluetooth controller and passkey entry on the
  console beyond its end, in the relay; the discovery messages it publishes, which
  depend on its configuration only; Wi-Fi.
* In the integration: the temperature, which is notified and stored; a second instance
  for the same sensor after a reload; the forms of `config_flow.py`.
* Parsing of configurations and payloads, except that a reading can be NaN;
  OMEMO; Wi-Fi; logging.
* What BlueZ asks of the user during the pairing: the agent waits for the console
  inside a callback of the event loop (`bluez_pairing_agent.py:72`, up to 300 s), in
  which nothing else of the bot runs. In the model that is an await that takes long,
  and others may run, which allows more.
