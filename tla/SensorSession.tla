---------------------------- MODULE SensorSession ----------------------------
(***************************************************************************)
(* ble_sensor._run_monitoring_session(): one session with the sensor.      *)
(*                                                                         *)
(* Five kinds of coroutine and callback share its variables: the session   *)
(* itself, the polling of the valve control, the watch over the connection,*)
(* a task for every notification of the valve, and the callbacks of the    *)
(* BLE library.  Those that apply a value they have read or been notified  *)
(* of (the appliers) run in the order in which they became ready, as       *)
(* asyncio runs them.  Sending to the subscribers is an await that ends at *)
(* any time, or does not suspend at all.  On Linux a pairing agent is      *)
(* registered with BlueZ for the time in which the connection is made      *)
(* (bluez_pairing_agent.py); what it asks of the user is left out.         *)
(***************************************************************************)
EXTENDS Integers, Sequences

CONSTANTS
    Tasks,    \* tasks of the handlers (bounds the simultaneous ones)
    Session,  \* the session as an applier: the first reading of the control
    Poll,     \* poll_valve_control()
    None

Appliers == Tasks \cup {Session, Poll}

ASSUME AppliersAssumption ==
    /\ Session # Poll
    /\ Tasks \cap {Session, Poll} = {}
    /\ None \notin Appliers \cup BOOLEAN
    /\ None \notin {"ended", "cancelled", "fatal"}

VARIABLES
    by,             \* how the sensor offers valve_control: "notify" or "read"
    valve,          \* whether the valve of the sensor is open
    link,           \* client: "none", connected or disconnected
    subscribed,     \* characteristics whose handler is registered
    notice,         \* the library is going to call on_ble_disconnect
    bus,            \* pairing_agent_session(): "closed", "opening", "agent" once
                    \* RegisterAgent is answered, "registered" once register() is over
    place,          \* where the session is suspended
    outcome,        \* what its finally block will end with
    cancel,         \* cancellation of the session: "no", "requested", "delivered"
    disconnected,
    session_active,
    watch,          \* _watch_connection(): "none", "running", "over"
    doing,          \* what each applier is doing
    arg,            \* the value it is going to apply; None if a read failed
    ready,          \* appliers that asyncio is going to resume, in order
    valve_control_active,
    valve_open,
    valve_state_last_seen,
    missed,         \* history: the last notification of the valve came while the
                    \* control was off and an earlier reading or notification of
                    \* the valve was still to be applied
    parted,         \* history: on_disconnected() was called
    spoilt          \* history: the disconnection raised or was cancelled

sensor == <<by, valve>>
connection == <<link, subscribed, notice>>
course == <<bus, place, outcome, cancel, parted, spoilt>>
valveVars == <<valve_control_active, valve_open, valve_state_last_seen, missed>>
vars == <<sensor, connection, course, disconnected, session_active, watch,
          doing, arg, ready, valveVars>>

Pairing == {"registering", "connecting", "unregistering"}
Setup == {"subscribing", "control", "temperature"}
Monitoring == Setup \cup {"greeting", "waiting"}
Leaving == {"joining_poll", "joining_watch", "parting", "farewell"}

\* An applier awaits a message and then looks at the valve ("enabling"), awaits
\* a message and is done ("telling"), or awaits a reading of the valve state
\* ("asking") or of the valve control ("reading").
Sending == {"enabling", "telling"}
Reading == {"asking", "reading"}

Init ==
    /\ by \in {"notify", "read"}
    /\ valve \in BOOLEAN
    /\ link = "none"
    /\ subscribed = {}
    /\ notice = FALSE
    /\ \/ place = "registering" /\ bus = "opening"
       \/ place = "connecting" /\ bus = "closed"    \* not on Linux
    /\ outcome = None
    /\ cancel = "no"
    /\ disconnected = FALSE
    /\ session_active = FALSE
    /\ watch = "none"
    /\ doing = [p \in Appliers |-> "idle"]
    /\ arg = [p \in Appliers |-> None]
    /\ ready = <<>>
    /\ valve_control_active = FALSE
    /\ valve_open = None
    /\ valve_state_last_seen = None
    /\ missed = FALSE
    /\ parted = FALSE
    /\ spoilt = FALSE

NotQueued(p) == \A i \in DOMAIN ready : ready[i] # p

\* The queue without p, which is in it at most once.
Without(p) ==
    IF NotQueued(p) THEN ready
    ELSE LET k == CHOOSE i \in DOMAIN ready : ready[i] = p
         IN  [i \in 1..(Len(ready) - 1) |-> ready[IF i < k THEN i ELSE i + 1]]

-----------------------------------------------------------------------------
(***************************************************************************)
(* The appliers, from where they are resumed to their next await.          *)
(***************************************************************************)
Goto(p, where) ==
    /\ doing' = [doing EXCEPT ![p] = where]
    /\ UNCHANGED place

\* The task ends, the poll sleeps, the session starts the poll and subscribes
\* to the temperature.
Finish(p) ==
    \/ p \in Tasks /\ Goto(p, "idle")
    \/ p = Poll /\ Goto(p, "pausing")
    \/ /\ p = Session
       /\ doing' = [doing EXCEPT ![p] = "idle", ![Poll] = "pausing"]
       /\ place' = "temperature"

apply_valve_state(p, open, force) ==
    /\ UNCHANGED valve_control_active
    /\ IF valve_control_active /\ (force \/ open # valve_open)
         THEN valve_open' = open /\ Goto(p, "telling")
         ELSE UNCHANGED valve_open /\ Finish(p)

\* A characteristic without read counts as a reading that fails.
report_initial_valve_state(p) ==
    IF link = "up" /\ valve_state_last_seen # None
      THEN apply_valve_state(p, valve_state_last_seen, TRUE)
      ELSE /\ IF link = "up" THEN Goto(p, "asking") ELSE Finish(p)
           /\ UNCHANGED <<valve_control_active, valve_open>>

apply_valve_control_state(p, active) ==
    IF active = valve_control_active
      THEN Finish(p) /\ UNCHANGED <<valve_control_active, valve_open>>
      ELSE /\ valve_control_active' = active
           /\ valve_open' = None
           /\ Goto(p, IF active THEN "enabling" ELSE "telling")

\* Slip: a reading of the control that is neither true nor false is applied.
Segment_unparsed(p) ==
    \/ doing[p] = "applying_control" /\ apply_valve_control_state(p, arg[p])
    \/ doing[p] = "applying_state" /\ apply_valve_state(p, arg[p], FALSE)
    \/ doing[p] = "enabling" /\ report_initial_valve_state(p)
    \/ doing[p] = "reading" /\ arg[p] # None /\ apply_valve_control_state(p, arg[p])
    \/ /\ doing[p] = "reading" /\ arg[p] = None
       /\ valve_control_active' = arg[p] /\ valve_open' = None
       /\ Goto(p, "telling")
    \/ /\ doing[p] \in {"telling", "asking"}
       /\ Finish(p)
       /\ UNCHANGED <<valve_control_active, valve_open>>

\* What p does next.
Segment(p) ==
    \/ doing[p] = "applying_control" /\ apply_valve_control_state(p, arg[p])
    \/ doing[p] = "applying_state" /\ apply_valve_state(p, arg[p], FALSE)
    \/ doing[p] = "enabling" /\ report_initial_valve_state(p)
    \/ doing[p] = "asking" /\ arg[p] # None /\ apply_valve_state(p, arg[p], TRUE)
    \/ doing[p] = "reading" /\ arg[p] # None /\ apply_valve_control_state(p, arg[p])
    \/ /\ doing[p] = "telling" \/ (doing[p] \in Reading /\ arg[p] = None)
       /\ Finish(p)
       /\ UNCHANGED <<valve_control_active, valve_open>>

\* A cancelled coroutine does nothing more of this.
Undisturbed(p) ==
    /\ p = Session => cancel # "requested"
    /\ p = Poll => place # "joining_poll"

\* A message that does not suspend its sender leaves it first in the queue.
Run(p) ==
    /\ ready # <<>> /\ p = Head(ready)
    /\ Undisturbed(p)
    /\ Segment(p)
    /\ arg' = [arg EXCEPT ![p] = None]
    /\ ready' = Tail(ready) \/ (doing'[p] \in Sending /\ UNCHANGED ready)
    /\ UNCHANGED <<sensor, connection, bus, outcome, cancel, parted, spoilt,
                   disconnected, session_active, watch, valve_state_last_seen, missed>>

AppliersFrame ==
    UNCHANGED <<sensor, connection, course, disconnected, session_active, watch, valveVars>>

\* The message has gone to every subscriber; an error is logged there.
Sent(p) ==
    /\ doing[p] \in Sending /\ NotQueued(p)
    /\ ready' = Append(ready, p)
    /\ UNCHANGED <<doing, arg>>
    /\ AppliersFrame

\* A reading ends with a value, or with an error or a text that is neither
\* true nor false.
Answered(p) ==
    /\ doing[p] \in Reading /\ NotQueued(p)
    /\ ready' = Append(ready, p)
    /\ \E value \in BOOLEAN \cup {None} :
         /\ value # None => link = "up" /\ (doing[p] = "asking" => value = valve)
         /\ arg' = [arg EXCEPT ![p] = value]
    /\ UNCHANGED doing
    /\ AppliersFrame

\* The top of the loop of poll_valve_control().
PollAgain ==
    /\ doing[Poll] = "pausing" /\ Undisturbed(Poll)
    /\ doing' = [doing EXCEPT ![Poll] =
                   IF disconnected \/ link # "up" THEN "over" ELSE "reading"]
    /\ UNCHANGED <<arg, ready>>
    /\ AppliersFrame

-----------------------------------------------------------------------------
(***************************************************************************)
(* The callbacks of the library.                                           *)
(***************************************************************************)
CreateTask(work, value) ==
    \E t \in Tasks :
      /\ doing[t] = "idle"
      /\ doing' = [doing EXCEPT ![t] = work]
      /\ arg' = [arg EXCEPT ![t] = value]
      /\ ready' = Append(ready, t)

CallbackFrame == UNCHANGED <<course, session_active, watch, valve_control_active, valve_open>>

valve_control_handler(active) ==
    /\ link = "up" /\ "control" \in subscribed
    /\ CreateTask("applying_control", active)
    /\ UNCHANGED <<sensor, connection, disconnected, valve_state_last_seen, missed>>
    /\ CallbackFrame

Unapplied ==
    ~valve_control_active /\ \E p \in Appliers : doing[p] \in {"asking", "applying_state"}

\* Slip: a state notified while the control is off is not remembered.
valve_state_forgotten(open) ==
    /\ link = "up" /\ "state" \in subscribed
    /\ \E t \in Tasks : doing[t] = "idle"
    /\ valve' = open
    /\ missed' = Unapplied
    /\ IF valve_control_active
         THEN CreateTask("applying_state", open) /\ valve_state_last_seen' = open
         ELSE UNCHANGED <<doing, arg, ready, valve_state_last_seen>>
    /\ UNCHANGED <<by, connection, disconnected>>
    /\ CallbackFrame

valve_state_handler(open) ==
    /\ link = "up" /\ "state" \in subscribed
    /\ valve' = open
    /\ missed' = Unapplied
    /\ valve_state_last_seen' = open
    /\ IF valve_control_active
         THEN CreateTask("applying_state", open)
         ELSE UNCHANGED <<doing, arg, ready>>
    /\ UNCHANGED <<by, connection, disconnected>>
    /\ CallbackFrame

\* The valve moves while nobody is notified.
ValveMoves ==
    /\ "state" \notin subscribed /\ place # "over"
    /\ valve' = ~valve
    /\ UNCHANGED <<by, connection, disconnected, valve_state_last_seen, missed, doing, arg, ready>>
    /\ CallbackFrame

\* The call may never come: the watch is there for that.
LinkLost ==
    /\ link = "up"
    /\ link' = "down"
    /\ notice' \in BOOLEAN
    /\ UNCHANGED <<sensor, subscribed, disconnected, valve_state_last_seen, missed, doing, arg, ready>>
    /\ CallbackFrame

\* intentional_disconnect is set from the parting on.
on_ble_disconnect ==
    /\ notice
    /\ notice' = FALSE
    /\ disconnected' = (disconnected \/ place \notin {"parting", "farewell", "over"})
    /\ UNCHANGED <<sensor, link, subscribed, valve_state_last_seen, missed, doing, arg, ready>>
    /\ CallbackFrame

\* Slip: the watch waits for the callback too.
_watch_callback_only ==
    /\ watch = "running" /\ place # "joining_watch"
    /\ disconnected
    /\ watch' = "over"
    /\ UNCHANGED <<sensor, connection, course, disconnected, session_active, valveVars,
                   doing, arg, ready>>

\* A turn of the watch that finds the connection gone, or the event set.
_watch_connection ==
    /\ watch = "running" /\ place # "joining_watch"
    /\ disconnected \/ link # "up"
    /\ disconnected' = TRUE
    /\ watch' = "over"
    /\ UNCHANGED <<sensor, connection, course, session_active, valveVars, doing, arg, ready>>

-----------------------------------------------------------------------------
(***************************************************************************)
(* The session.                                                            *)
(***************************************************************************)
\* Where the finally block is suspended first, once it has come so far.
AfterDisconnect == IF session_active THEN "farewell" ELSE "over"
AfterWatch == IF link = "up" THEN "parting" ELSE AfterDisconnect
AfterPoll == IF watch = "running" THEN "joining_watch" ELSE AfterWatch
Finally == IF doing[Poll] \in {"idle", "over"} THEN AfterPoll ELSE "joining_poll"

Arrive(where) ==
    /\ place' = where
    /\ parted' = (parted \/ where = "farewell")

\* The session leaves its try block.
Leave(how) == Arrive(Finally) /\ outcome' = how

SessionFrame == UNCHANGED <<sensor, disconnected, arg, valveVars>>
Quietly == cancel # "requested" /\ UNCHANGED cancel /\ SessionFrame

\* manager.register(): the bus is connected and RegisterAgent answered ...
AgentRegistered ==
    /\ place = "registering" /\ bus = "opening" /\ Quietly
    /\ bus' = "agent"
    /\ Arrive("registering")
    /\ UNCHANGED <<connection, outcome, spoilt, session_active, watch, doing, ready>>

\* ... and then RequestDefaultAgent.
Registered ==
    /\ place = "registering" /\ bus = "agent" /\ Quietly
    /\ bus' = "registered"
    /\ Arrive("connecting")
    /\ UNCHANGED <<connection, outcome, spoilt, session_active, watch, doing, ready>>

\* It raises before the try of pairing_agent_session(): nobody closes the bus, nor
\* unregisters an agent that RegisterAgent has registered.
RegisterFails ==
    /\ place = "registering" /\ Quietly
    /\ Leave("ended")
    /\ UNCHANGED <<connection, bus, spoilt, session_active, watch, doing, ready>>

\* The way out of pairing_agent_session(), whether there is a client or not.
AfterConnecting(where) == Arrive(IF bus = "registered" THEN "unregistering" ELSE where)

ConnectFails ==
    /\ place = "connecting" /\ Quietly
    /\ AfterConnecting("over")
    /\ outcome' \in {"ended", "fatal"}
    /\ UNCHANGED <<connection, bus, spoilt, session_active, watch, doing, ready>>

Connected ==
    /\ place = "connecting" /\ Quietly
    /\ link' = "up"
    /\ AfterConnecting("subscribing")
    /\ UNCHANGED <<subscribed, notice, bus, outcome, spoilt, session_active, watch,
                   doing, ready>>

\* UnregisterAgent raises; the finally block of unregister() closes the bus and
\* waits for that.
UnregisterFails ==
    /\ place = "unregistering" /\ bus = "registered" /\ Quietly
    /\ bus' = "closed"
    /\ outcome' = "ended"
    /\ Arrive("unregistering")
    /\ UNCHANGED <<connection, spoilt, session_active, watch, doing, ready>>

\* The bus is closed.  Whatever was raised inside goes on to the finally block.
Unregistered ==
    /\ place = "unregistering" /\ Quietly
    /\ bus' = "closed"
    /\ Arrive(IF outcome = None THEN "subscribing" ELSE Finally)
    /\ UNCHANGED <<connection, outcome, spoilt, session_active, watch, doing, ready>>

\* valve_state is subscribed to; then the control is, or is read.
Subscribed ==
    /\ place = "subscribing" /\ link = "up" /\ Quietly
    /\ subscribed' = {"state"}
    /\ Arrive("control")
    /\ doing' = IF by = "read" THEN [doing EXCEPT ![Session] = "reading"] ELSE doing
    /\ UNCHANGED <<link, notice, bus, outcome, spoilt, session_active, watch, ready>>

ControlSubscribed ==
    /\ place = "control" /\ by = "notify" /\ link = "up" /\ Quietly
    /\ subscribed' = subscribed \cup {"control"}
    /\ Arrive("temperature")
    /\ UNCHANGED <<link, notice, bus, outcome, spoilt, session_active, watch, doing, ready>>

TemperatureSubscribed ==
    /\ place = "temperature" /\ link = "up" /\ Quietly
    /\ session_active' = TRUE
    /\ Arrive("greeting")
    /\ UNCHANGED <<connection, bus, outcome, spoilt, watch, doing, ready>>

\* A characteristic is missing or without notify, or a subscription fails.
SetupFails ==
    /\ place \in Setup /\ doing[Session] = "idle" /\ Quietly
    /\ Leave("ended")
    /\ UNCHANGED <<connection, bus, spoilt, session_active, watch, doing, ready>>

Greeted ==
    /\ place = "greeting" /\ Quietly
    /\ watch' = "running"
    /\ Arrive("waiting")
    /\ UNCHANGED <<connection, bus, outcome, spoilt, session_active, doing, ready>>

Lost ==
    /\ place = "waiting" /\ disconnected /\ Quietly
    /\ Leave("ended")
    /\ UNCHANGED <<connection, bus, spoilt, session_active, watch, doing, ready>>

\* The poll and the watch end where they are suspended.
PollCancelled ==
    /\ place = "joining_poll" /\ doing[Poll] # "over"
    /\ doing' = [doing EXCEPT ![Poll] = "over"]
    /\ ready' = Without(Poll)
    /\ SessionFrame
    /\ UNCHANGED <<connection, course, session_active, watch>>

WatchCancelled ==
    /\ place = "joining_watch" /\ watch = "running"
    /\ watch' = "over"
    /\ SessionFrame
    /\ UNCHANGED <<connection, course, session_active, doing, ready>>

\* Slip: CancelledError of the poll or the watch is not caught.
Joined_raising ==
    /\ \/ place = "joining_poll" /\ doing[Poll] = "over"
       \/ place = "joining_watch" /\ watch = "over"
    /\ Arrive("over")
    /\ outcome' = "cancelled"
    /\ UNCHANGED cancel
    /\ SessionFrame
    /\ UNCHANGED <<connection, bus, spoilt, session_active, watch, doing, ready>>

\* except CancelledError: pass takes a cancellation of the session for theirs.
Joined ==
    /\ \/ place = "joining_poll" /\ doing[Poll] = "over" /\ Arrive(AfterPoll)
       \/ place = "joining_watch" /\ watch = "over" /\ Arrive(AfterWatch)
    /\ cancel' = IF cancel = "requested" THEN "delivered" ELSE cancel
    /\ SessionFrame
    /\ UNCHANGED <<connection, bus, outcome, spoilt, session_active, watch, doing, ready>>

\* disconnect_client(): errors of stop_notify are logged, those of disconnect()
\* take the place of what the session was going to end with.
Parted ==
    /\ place = "parting" /\ Quietly
    /\ link' = "down"
    /\ Arrive(AfterDisconnect)
    /\ UNCHANGED <<subscribed, notice, bus, outcome, spoilt, session_active, watch, doing, ready>>

PartingFails ==
    /\ place = "parting" /\ Quietly
    /\ link' \in {link, "down"}
    /\ Arrive("over")
    /\ outcome' = "ended"
    /\ spoilt' = TRUE
    /\ UNCHANGED <<subscribed, notice, bus, session_active, watch, doing, ready>>

SaidFarewell ==
    /\ place = "farewell" /\ Quietly
    /\ Arrive("over")
    /\ UNCHANGED <<connection, bus, outcome, spoilt, session_active, watch, doing, ready>>

\* BleOrchestrator.stop() cancels the loop, once.
Stop ==
    /\ cancel = "no" /\ place # "over"
    /\ cancel' = "requested"
    /\ SessionFrame
    /\ UNCHANGED <<connection, bus, place, outcome, parted, spoilt, session_active, watch,
                   doing, ready>>

Unwound ==
    /\ doing' = [doing EXCEPT ![Session] = "idle"]
    /\ ready' = Without(Session)
    /\ arg' = [arg EXCEPT ![Session] = None]
    /\ UNCHANGED <<sensor, disconnected, valveVars, connection, session_active, watch>>

\* Slip: a cancelled session ends as one that has lost its sensor.
Cancelled_as_lost ==
    /\ cancel = "requested"
    /\ cancel' = "delivered"
    /\ place \in Monitoring /\ Leave("ended")
    /\ UNCHANGED <<bus, spoilt>>
    /\ Unwound

\* CancelledError is raised where the session is suspended, the joins excepted.
\* A connection that is being made is undone by the library; unregister() closes
\* the bus and waits for that.
Cancelled ==
    /\ cancel = "requested"
    /\ cancel' = "delivered"
    /\ outcome' = "cancelled"
    /\ \/ place = "registering" /\ Arrive("over") /\ UNCHANGED <<bus, spoilt>>
       \/ place = "connecting" /\ AfterConnecting("over") /\ UNCHANGED <<bus, spoilt>>
       \/ /\ place = "unregistering" /\ Arrive("unregistering")
          /\ bus' = "closed" /\ UNCHANGED spoilt
       \/ place \in Monitoring /\ Arrive(Finally) /\ UNCHANGED <<bus, spoilt>>
       \/ /\ place \in {"parting", "farewell"} /\ Arrive("over")
          /\ spoilt' = TRUE /\ UNCHANGED bus
    /\ Unwound

-----------------------------------------------------------------------------
Course ==
    \/ AgentRegistered
    \/ Registered
    \/ RegisterFails
    \/ ConnectFails
    \/ Connected
    \/ UnregisterFails
    \/ Unregistered
    \/ Subscribed
    \/ ControlSubscribed
    \/ TemperatureSubscribed
    \/ SetupFails
    \/ Greeted
    \/ Lost
    \/ PollCancelled
    \/ WatchCancelled
    \/ Joined
    \/ Parted
    \/ PartingFails
    \/ SaidFarewell
    \/ Cancelled

Next ==
    \/ \E p \in Appliers : Run(p) \/ Sent(p) \/ Answered(p)
    \/ \E b \in BOOLEAN : valve_control_handler(b) \/ valve_state_handler(b)
    \/ ValveMoves
    \/ LinkLost
    \/ on_ble_disconnect
    \/ _watch_connection
    \/ PollAgain
    \/ Course
    \/ Stop

\* asyncio resumes what is ready; reads, subscriptions and the disconnection
\* have timeouts in the library; a message is sent or fails; BlueZ answers or
\* the bus fails.  Nothing makes
\* the link break, the callback come or a command stop the session.
Fairness ==
    /\ \A p \in Appliers : WF_vars(Run(p)) /\ WF_vars(Sent(p)) /\ WF_vars(Answered(p))
    /\ WF_vars(_watch_connection)
    /\ WF_vars(Course)

Spec == Init /\ [][Next]_vars /\ Fairness

-----------------------------------------------------------------------------
Works == {"applying_control", "applying_state"} \cup Sending \cup Reading

\* The coroutines are where the code has a place for them, and are queued at
\* most once.
TypeOK ==
    /\ by \in {"notify", "read"}
    /\ valve \in BOOLEAN
    /\ link \in {"none", "up", "down"}
    /\ subscribed \subseteq {"state", "control"}
    /\ notice \in BOOLEAN
    /\ bus \in {"closed", "opening", "agent", "registered"}
    /\ place \in {"over"} \cup Pairing \cup Monitoring \cup Leaving
    /\ outcome \in {None, "ended", "cancelled", "fatal"}
    /\ cancel \in {"no", "requested", "delivered"}
    /\ disconnected \in BOOLEAN
    /\ session_active \in BOOLEAN
    /\ watch \in {"none", "running", "over"}
    /\ doing \in [Appliers -> {"idle", "pausing", "over"} \cup Works]
    /\ arg \in [Appliers -> BOOLEAN \cup {None}]
    /\ ready \in Seq(Appliers)
    /\ \A i, j \in DOMAIN ready : ready[i] = ready[j] => i = j
    /\ valve_control_active \in BOOLEAN
    /\ valve_open \in BOOLEAN \cup {None}
    /\ valve_state_last_seen \in BOOLEAN \cup {None}
    /\ missed \in BOOLEAN
    /\ parted \in BOOLEAN
    /\ spoilt \in BOOLEAN

Applied == ready = <<>> /\ \A p \in Appliers : doing[p] \notin Works \ {"telling", "reading"}

\* Once every notification and reading has been applied, the state the bot
\* shows under valve control is that of the valve, if the sensor has notified
\* any: the tasks of the handlers, a first reading that is still under way and
\* changes of the control do not leave an older one (apply_valve_state,
\* report_initial_valve_state).  The exception: a notification that arrives
\* while the control is off is only remembered, and an earlier reading or
\* notification that is applied after the control is on again covers it up
\* (missed).
ValveFollowed ==
    /\ Applied /\ place \in Monitoring /\ link = "up"
    /\ valve_control_active /\ valve_state_last_seen # None /\ ~missed
    => valve_open = valve

\* register() has not come to its end.  Once it has failed or was cancelled there,
\* nobody undoes it: the bus stays open, with the agent registered on it if
\* RegisterAgent was answered ("agent"), or perhaps later if it was on its way.
Unfinished == bus \in {"opening", "agent"}

\* A session that is over has left nothing behind, however it ended: no task of
\* its own, no connection, nobody who was told of a connection and not of its
\* end; unless the disconnection raised or was itself cancelled (the finally
\* block of _run_monitoring_session).  No pairing agent and no open bus either,
\* with the exception of an unfinished registration: register() is awaited
\* before the try of pairing_agent_session(), so that nothing calls unregister()
\* then; such a session has not connected.
LeavesNothing ==
    place = "over" =>
        /\ doing[Poll] \in {"idle", "over"} /\ watch # "running"
        /\ bus = "closed" \/ (Unfinished /\ link = "none")
        /\ spoilt \/ (link # "up" /\ (session_active => parted))

\* A session ends once the link is lost, with or without disconnected_callback,
\* and once it is told to stop, whether the cancellation ends it or is lost in
\* its clean-up (_watch_connection, disconnected.wait(), the finally block).
EndsWhenLostOrStopped == link = "down" \/ cancel # "no" ~> place = "over"

At ==
    IF place = "over" THEN outcome
    ELSE IF place = "unregistering" /\ cancel = "delivered" THEN "aborting"
    ELSE IF place \notin Leaving THEN "session"
    ELSE IF outcome = "cancelled" THEN "aborting" ELSE "cleanup"

Outcome == INSTANCE SessionOutcome WITH at <- At

\* What the loop of BleOrchestrator relies on: how a session can end, and what
\* a cancellation finds it at.
ImplementsOutcome == Outcome!Spec
=============================================================================
