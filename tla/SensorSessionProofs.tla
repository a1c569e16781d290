------------------------ MODULE SensorSessionProofs ------------------------
(***************************************************************************)
(* That a session leaves nothing behind, and ends only in the ways that    *)
(* the loop relies on.                                                     *)
(***************************************************************************)
EXTENDS SensorSession, TLAPS

Doings == {"idle", "pausing", "over"} \cup Works

\* The session applies a value only while it reads the control, and that is
\* where it starts the poll.
SessionApplies == doing[Session] # "idle" => place = "control" /\ by = "read"

\* What the finally block has done by the time it is suspended somewhere.
PollJoined ==
    place \in Pairing \cup {"joining_watch", "parting", "farewell", "over"}
    => doing[Poll] \in {"idle", "over"}

WatchJoined == watch = "running" => place \in {"waiting", "joining_poll", "joining_watch"}

\* on_connected() is called at the end of the setup.
ActiveLate == place \in Pairing \cup Setup => ~session_active

FarewellLate ==
    /\ place \in {"registering", "connecting"} => link = "none"
    /\ place = "farewell" => link # "up" /\ parted

\* The pairing agent is registered while the connection is made; a registration that
\* is unfinished goes on, or has ended the session before there was a connection.
AgentInPlace ==
    /\ bus \in {"closed", "opening", "agent", "registered"}
    /\ bus = "registered" => place \in {"connecting", "unregistering"}
    /\ Unfinished => place \in {"registering", "over"} /\ link = "none"

SInv ==
    /\ doing \in [Appliers -> Doings]
    /\ SessionApplies
    /\ PollJoined
    /\ WatchJoined
    /\ ActiveLate
    /\ FarewellLate
    /\ AgentInPlace
    /\ LeavesNothing

USE DEF Unfinished, Appliers, Doings, Works, Sending, Reading, Pairing, Setup, Monitoring, Leaving

\* The initial state satisfies the invariant.
LEMMA InitSInv == Init => SInv
BY AppliersAssumption
   DEF Init, SInv, SessionApplies, PollJoined, WatchJoined, ActiveLate, FarewellLate,
       AgentInPlace, LeavesNothing

\* What a resumed applier changes: its own place, and for the session that is
\* done the poll and the place of the session.
LEMMA SegmentMoves ==
    ASSUME SInv, NEW p \in Appliers, Segment(p)
    PROVE  /\ doing' \in [Appliers -> Doings]
           /\ \/ /\ place' = place
                 /\ doing[p] # "idle"
                 /\ p = Poll => doing[Poll] \notin {"idle", "over"}
                 /\ \A q \in Appliers \ {p} : doing'[q] = doing[q]
              \/ /\ place = "control" /\ place' = "temperature"
                 /\ doing'[Session] = "idle"
BY AppliersAssumption
   DEF SInv, SessionApplies, Segment, Goto, Finish, apply_valve_state,
       report_initial_valve_state, apply_valve_control_state

\* A resumed applier keeps the invariant.
LEMMA RunSInv == ASSUME SInv, NEW p \in Appliers, Run(p) PROVE SInv'
<1>1. Segment(p)
  BY DEF Run
<1>2. UNCHANGED <<by, link, bus, parted, spoilt, session_active, watch>>
  BY DEF Run, sensor, connection
<1>3. QED
  BY <1>1, <1>2, SegmentMoves, AppliersAssumption
     DEF SInv, SessionApplies, PollJoined, WatchJoined, ActiveLate, FarewellLate,
         AgentInPlace, LeavesNothing

\* A message that is sent and a reading that ends move nobody.
LEMMA AwaitSInv ==
    ASSUME SInv, NEW p \in Appliers, Sent(p) \/ Answered(p)
    PROVE  SInv'
BY DEF Sent, Answered, AppliersFrame, sensor, connection, course, SInv, SessionApplies,
       PollJoined, WatchJoined, ActiveLate, FarewellLate, AgentInPlace, LeavesNothing

\* The poll goes on as long as it has not been joined.
LEMMA PollAgainSInv == ASSUME SInv, PollAgain PROVE SInv'
<1>1. place' = place /\ doing[Poll] = "pausing" /\ \A q \in Appliers \ {Poll} : doing'[q] = doing[q]
  BY DEF PollAgain, AppliersFrame, course, SInv
<1>2. doing' \in [Appliers -> Doings]
  BY DEF PollAgain, SInv
<1>3. UNCHANGED <<by, link, bus, parted, spoilt, session_active, watch>>
  BY DEF PollAgain, AppliersFrame, sensor, connection, course
<1>4. QED
  BY <1>1, <1>2, <1>3, AppliersAssumption
     DEF SInv, SessionApplies, PollJoined, WatchJoined, ActiveLate, FarewellLate,
         AgentInPlace, LeavesNothing

\* A callback creates at most a task of a handler, and no connection.
LEMMA CallbackSInv ==
    ASSUME SInv,
           \/ \E b \in BOOLEAN : valve_control_handler(b) \/ valve_state_handler(b)
           \/ ValveMoves \/ LinkLost \/ on_ble_disconnect
    PROVE  SInv'
<1>1. doing' \in [Appliers -> Doings] /\ doing'[Poll] = doing[Poll] /\ doing'[Session] = doing[Session]
  BY AppliersAssumption
     DEF valve_control_handler, valve_state_handler, CreateTask, ValveMoves, LinkLost,
         on_ble_disconnect, SInv
<1>2. link' \in {link, "down"} /\ (link = "none" => link' = "none")
  BY DEF valve_control_handler, valve_state_handler, ValveMoves, LinkLost,
         on_ble_disconnect, connection
<1>3. UNCHANGED <<by, bus, place, parted, spoilt, session_active, watch>>
  BY DEF valve_control_handler, valve_state_handler, ValveMoves, LinkLost,
         on_ble_disconnect, CallbackFrame, course, sensor
<1>4. place \in {"registering", "connecting"} => link' = "none"
  BY DEF valve_control_handler, valve_state_handler, ValveMoves, LinkLost,
         on_ble_disconnect, connection, SInv, FarewellLate
<1>5. QED
  BY <1>1, <1>2, <1>3, <1>4
     DEF SInv, SessionApplies, PollJoined, WatchJoined, ActiveLate, FarewellLate,
         AgentInPlace, LeavesNothing

\* The watch ends by itself.
LEMMA WatchSInv == ASSUME SInv, _watch_connection PROVE SInv'
BY DEF _watch_connection, sensor, connection, course, SInv, SessionApplies, PollJoined,
       WatchJoined, ActiveLate, FarewellLate, AgentInPlace, LeavesNothing

\* Where the finally block goes to from the try block or from a join, the
\* tasks it has passed are over and the connection is gone or being parted from.
LEMMA FinallyArrives ==
    ASSUME \/ Arrive(Finally)
           \/ doing[Poll] \in {"idle", "over"} /\ Arrive(AfterPoll)
           \/ doing[Poll] \in {"idle", "over"} /\ watch # "running" /\ Arrive(AfterWatch)
    PROVE  /\ place' \in Leaving \cup {"over"}
           /\ place' # "joining_poll" => doing[Poll] \in {"idle", "over"}
           /\ place' \in {"parting", "farewell", "over"} => watch # "running"
           /\ place' \in {"farewell", "over"} => link # "up"
           /\ place' = "farewell" => parted'
           /\ place' = "over" => ~session_active
           /\ place' = "joining_watch" => watch = "running"
BY DEF Finally, AfterPoll, AfterWatch, AfterDisconnect, Arrive

\* The session's own steps keep the invariant.
LEMMA CourseSInv == ASSUME SInv, Course PROVE SInv'
<1> USE DEF SInv, SessionApplies, PollJoined, WatchJoined, ActiveLate, FarewellLate,
            AgentInPlace, LeavesNothing, sensor, connection
<1>1. CASE \/ AgentRegistered \/ Registered \/ RegisterFails \/ ConnectFails
           \/ Connected \/ UnregisterFails \/ Unregistered
  <2>1. CASE AgentRegistered \/ Registered \/ UnregisterFails
    BY <2>1 DEF AgentRegistered, Registered, UnregisterFails, Quietly, SessionFrame, Arrive
  <2>2. CASE ConnectFails \/ Connected
    BY <2>2 DEF ConnectFails, Connected, AfterConnecting, Quietly, SessionFrame, Arrive
  <2>3. CASE RegisterFails
    BY <2>3
       DEF RegisterFails, Leave, Quietly, SessionFrame, Finally, AfterPoll, AfterWatch,
           AfterDisconnect, Arrive
  <2>4. CASE Unregistered
    <3>1. /\ place = "unregistering" /\ bus' = "closed"
          /\ UNCHANGED <<by, link, spoilt, session_active, watch, doing>>
      BY <2>4 DEF Unregistered, Quietly, SessionFrame
    <3>2. CASE Arrive("subscribing")
      BY <3>1, <3>2 DEF Arrive
    <3>3. CASE Arrive(Finally)
      BY <3>1, <3>3, FinallyArrives DEF Arrive
    <3>4. QED
      BY <2>4, <3>2, <3>3 DEF Unregistered
  <2>5. QED
    BY <1>1, <2>1, <2>2, <2>3, <2>4
<1>2. CASE Subscribed
  BY <1>2, AppliersAssumption DEF Subscribed, Quietly, SessionFrame, Arrive
<1>3. CASE ControlSubscribed \/ TemperatureSubscribed \/ Greeted
  BY <1>3 DEF ControlSubscribed, TemperatureSubscribed, Greeted, Quietly, SessionFrame, Arrive
<1>4. CASE SetupFails \/ Lost
  <2>1. /\ Arrive(Finally) /\ place \in Monitoring /\ doing[Session] = "idle"
        /\ UNCHANGED <<by, link, bus, spoilt, session_active, watch, doing>>
    BY <1>4 DEF SetupFails, Lost, Leave, Quietly, SessionFrame
  <2>2. QED
    BY <2>1, FinallyArrives DEF Arrive
<1>5. CASE PollCancelled
  BY <1>5, AppliersAssumption DEF PollCancelled, SessionFrame, course
<1>6. CASE WatchCancelled
  BY <1>6 DEF WatchCancelled, SessionFrame, course
<1>7. CASE Joined
  <2>1. UNCHANGED <<by, link, bus, spoilt, session_active, watch, doing>>
    BY <1>7 DEF Joined, SessionFrame
  <2>2. CASE place = "joining_poll" /\ doing[Poll] = "over" /\ Arrive(AfterPoll)
    BY <2>1, <2>2, FinallyArrives DEF Arrive
  <2>3. CASE place = "joining_watch" /\ watch = "over" /\ Arrive(AfterWatch)
    BY <2>1, <2>3, FinallyArrives DEF Arrive
  <2>4. QED
    BY <1>7, <2>2, <2>3 DEF Joined
<1>8. CASE Parted \/ PartingFails \/ SaidFarewell
  <2>1. CASE Parted
    BY <2>1 DEF Parted, AfterDisconnect, Quietly, SessionFrame, Arrive
  <2>2. CASE PartingFails
    BY <2>2 DEF PartingFails, Quietly, SessionFrame, Arrive
  <2>3. CASE SaidFarewell
    BY <2>3 DEF SaidFarewell, Quietly, SessionFrame, Arrive
  <2>4. QED
    BY <1>8, <2>1, <2>2, <2>3
<1>9. CASE Cancelled
  <2>1. /\ UNCHANGED <<by, link, session_active, watch>>
        /\ doing' = [doing EXCEPT ![Session] = "idle"]
    BY <1>9 DEF Cancelled, Unwound
  <2>2. CASE place = "registering" /\ Arrive("over") /\ UNCHANGED <<bus, spoilt>>
    BY <2>1, <2>2, AppliersAssumption DEF Arrive
  <2>3. CASE place = "connecting" /\ AfterConnecting("over") /\ UNCHANGED <<bus, spoilt>>
    BY <2>1, <2>3, AppliersAssumption DEF Arrive, AfterConnecting
  <2>4. CASE place = "unregistering" /\ Arrive("unregistering") /\ bus' = "closed" /\ UNCHANGED spoilt
    BY <2>1, <2>4, AppliersAssumption DEF Arrive
  <2>5. CASE place \in Monitoring /\ Arrive(Finally) /\ UNCHANGED <<bus, spoilt>>
    BY <2>1, <2>5, FinallyArrives, AppliersAssumption DEF Arrive
  <2>6. CASE place \in {"parting", "farewell"} /\ Arrive("over") /\ spoilt' = TRUE /\ UNCHANGED bus
    BY <2>1, <2>6, AppliersAssumption DEF Arrive
  <2>7. QED
    BY <1>9, <2>2, <2>3, <2>4, <2>5, <2>6 DEF Cancelled
<1>10. QED
  BY <1>1, <1>2, <1>3, <1>4, <1>5, <1>6, <1>7, <1>8, <1>9 DEF Course

\* Every step keeps the invariant.
LEMMA NextSInv == SInv /\ [Next]_vars => SInv'
<1> SUFFICES ASSUME SInv, [Next]_vars PROVE SInv'
  OBVIOUS
<1>1. CASE UNCHANGED vars
  BY <1>1 DEF vars, sensor, connection, course, SInv, SessionApplies, PollJoined,
              WatchJoined, ActiveLate, FarewellLate, AgentInPlace, LeavesNothing
<1>2. CASE Stop
  BY <1>2 DEF Stop, SessionFrame, sensor, connection, SInv, SessionApplies, PollJoined,
              WatchJoined, ActiveLate, FarewellLate, AgentInPlace, LeavesNothing
<1>3. CASE \E p \in Appliers : Run(p) \/ Sent(p) \/ Answered(p)
  BY <1>3, RunSInv, AwaitSInv
<1>4. QED
  BY <1>1, <1>2, <1>3, CallbackSInv, WatchSInv, PollAgainSInv, CourseSInv DEF Next

\* The result of the module: a session that is over has left no task of its
\* own, no connection, no promise and no pairing agent but one whose registration
\* was never finished, for any number of simultaneous notifications (the finally
\* block of _run_monitoring_session, pairing_agent_session).
THEOREM NothingLeft == Spec => []LeavesNothing
<1>1. SInv => LeavesNothing
  BY DEF SInv
<1>2. QED
  BY InitSInv, NextSInv, <1>1, PTL DEF Spec

-----------------------------------------------------------------------------
(***************************************************************************)
(* The refinement.                                                         *)
(***************************************************************************)
\* While the agent is being unregistered: a client that is still connected is
\* kept, or is parted from after a failure or a cancellation there.
PairingOutcome ==
    /\ outcome \in {None, "ended", "fatal", "cancelled"}
    /\ outcome = "cancelled" => cancel = "delivered"
    /\ cancel = "delivered" => outcome \in {"ended", "cancelled"}
    /\ link = "up" => outcome # "fatal"
    /\ link = "up" /\ cancel = "delivered" => bus # "registered" /\ outcome # "ended"

\* What the session is going to end with is known in the finally block, and a
\* session that is being cancelled has taken its only cancellation.
OutcomeKnown ==
    /\ place \in Leaving => outcome \in {"ended", "cancelled"}
    /\ place = "over" => outcome \in {"ended", "cancelled", "fatal"}
    /\ place \in Leaving /\ outcome = "cancelled" => cancel = "delivered"
    /\ place \in {"registering", "connecting"} => outcome = None /\ cancel # "delivered"
    /\ place = "unregistering" => PairingOutcome

\* A session starts as its outcome does.
LEMMA InitOutcome == Init => OutcomeKnown /\ Outcome!Init
BY AppliersAssumption DEF Init, OutcomeKnown, At, Outcome!Init

\* Steps of everybody else do not show.
LEMMA OthersHidden ==
    ASSUME UNCHANGED <<bus, place, outcome, cancel>>, link' \in {link, "down"}
    PROVE  UNCHANGED Outcome!vars /\ (OutcomeKnown => OutcomeKnown')
BY DEF Outcome!vars, At, OutcomeKnown, PairingOutcome

\* Neither does an applier: it moves the session within the setup at most.
LEMMA RunHidden ==
    ASSUME SInv, OutcomeKnown, NEW p \in Appliers, Run(p)
    PROVE  OutcomeKnown' /\ UNCHANGED Outcome!vars
<1>1. UNCHANGED <<bus, link, outcome, cancel>> /\ Segment(p)
  BY DEF Run, connection
<1>2. QED
  BY <1>1, SegmentMoves DEF Outcome!vars, At, OutcomeKnown, PairingOutcome

\* The session's own steps are steps of the outcome.
LEMMA CourseOutcome ==
    ASSUME SInv, OutcomeKnown, Course
    PROVE  OutcomeKnown' /\ [Outcome!Next]_(Outcome!vars)
<1> USE DEF OutcomeKnown, PairingOutcome, At, Outcome!vars, Outcome!Next, Outcome!End,
            Outcome!Deliver
<1>1. CASE ConnectFails \/ Connected
  <2>1. CASE ConnectFails
    BY <1>1, <2>1, AppliersAssumption
       DEF ConnectFails, AfterConnecting, Quietly, Arrive, SInv, FarewellLate, connection
  <2>2. CASE Connected
    BY <1>1, <2>2, AppliersAssumption
       DEF Connected, AfterConnecting, Quietly, Arrive
  <2>3. QED
    BY <1>1, <2>1, <2>2
<1>2. CASE AgentRegistered \/ Registered \/ UnregisterFails
  BY <1>2 DEF AgentRegistered, Registered, UnregisterFails, Quietly, Arrive, connection
<1>3. CASE RegisterFails
  BY <1>3
     DEF RegisterFails, Leave, Finally, AfterPoll, AfterWatch, AfterDisconnect, Quietly,
         Arrive, SInv, FarewellLate, PollJoined, WatchJoined, ActiveLate
<1>4. CASE Unregistered
  <2>1. /\ place = "unregistering" /\ cancel # "requested" /\ UNCHANGED <<link, outcome, cancel>>
    BY <1>4 DEF Unregistered, Quietly, connection
  <2>2. CASE outcome = None
    BY <1>4, <2>1, <2>2, AppliersAssumption DEF Unregistered, Arrive
  <2>3. CASE outcome # None
    <3>1. place' = IF link = "up" THEN "parting" ELSE "over"
      BY <1>4, <2>1, <2>3
         DEF Unregistered, Arrive, Finally, AfterPoll, AfterWatch, AfterDisconnect, SInv,
             PollJoined, WatchJoined, ActiveLate
    <3>2. QED
      BY <2>1, <2>3, <3>1
  <2>4. QED
    BY <2>2, <2>3
<1>5. CASE Subscribed \/ ControlSubscribed \/ TemperatureSubscribed \/ Greeted
  BY <1>5 DEF Subscribed, ControlSubscribed, TemperatureSubscribed, Greeted,
              Quietly, Arrive
<1>6. CASE SetupFails \/ Lost
  <2>1. /\ Arrive(Finally) /\ place \in Monitoring /\ outcome' = "ended"
        /\ cancel # "requested" /\ UNCHANGED cancel
    BY <1>6 DEF SetupFails, Lost, Leave, Quietly
  <2>2. place' \in Leaving \cup {"over"}
    BY <2>1, FinallyArrives
  <2>3. QED
    BY <2>1, <2>2
<1>7. CASE PollCancelled \/ WatchCancelled
  BY <1>7, OthersHidden DEF PollCancelled, WatchCancelled, course, connection
<1>8. CASE Joined
  <2>1. /\ place \in Leaving /\ UNCHANGED outcome
        /\ cancel' = IF cancel = "requested" THEN "delivered" ELSE cancel
    BY <1>8 DEF Joined
  <2>2. place' \in Leaving \cup {"over"}
    BY <1>8, FinallyArrives DEF Joined, SInv, PollJoined
  <2>3. QED
    BY <2>1, <2>2
<1>9. CASE Parted \/ SaidFarewell
  BY <1>9 DEF Parted, SaidFarewell, AfterDisconnect, Quietly, Arrive
<1>10. CASE PartingFails
  BY <1>10 DEF PartingFails, Quietly, Arrive
<1>11. CASE Cancelled
  <2>1. cancel = "requested" /\ cancel' = "delivered" /\ outcome' = "cancelled"
    BY <1>11 DEF Cancelled
  <2>2. CASE \/ place \in {"registering", "parting", "farewell"} /\ place' = "over"
             \/ place \in Monitoring /\ Arrive(Finally)
    <3>1. place' \in Leaving \cup {"over"}
      BY <2>2, FinallyArrives
    <3>2. QED
      BY <2>1, <2>2, <3>1
  <2>3. CASE place = "connecting" /\ AfterConnecting("over") /\ link' = "none"
    BY <2>1, <2>3 DEF AfterConnecting, Arrive
  <2>4. CASE place = "unregistering" /\ Arrive("unregistering") /\ bus' = "closed"
    BY <2>1, <2>4 DEF Arrive
  <2>5. QED
    BY <1>11, <2>2, <2>3, <2>4
       DEF Cancelled, Arrive, Unwound, connection, SInv, FarewellLate
<1>12. QED
  BY <1>1, <1>2, <1>3, <1>4, <1>5, <1>6, <1>7, <1>8, <1>9, <1>10, <1>11 DEF Course

\* Every step of the session is a step of its outcome or does not show.
LEMMA NextOutcome ==
    SInv /\ OutcomeKnown /\ [Next]_vars => OutcomeKnown' /\ [Outcome!Next]_(Outcome!vars)
<1> SUFFICES ASSUME SInv, OutcomeKnown, [Next]_vars
             PROVE  OutcomeKnown' /\ [Outcome!Next]_(Outcome!vars)
  OBVIOUS
<1>1. CASE Stop
  BY <1>1 DEF Stop, connection, OutcomeKnown, PairingOutcome, At, Outcome!vars,
              Outcome!Next, Outcome!Request, Outcome!Over
<1>2. CASE \E p \in Appliers : Run(p)
  BY <1>2, RunHidden
<1>3. CASE Course
  BY <1>3, CourseOutcome
<1>4. CASE \/ UNCHANGED vars \/ PollAgain \/ _watch_connection
           \/ \E p \in Appliers : Sent(p) \/ Answered(p)
           \/ \E b \in BOOLEAN : valve_control_handler(b) \/ valve_state_handler(b)
           \/ ValveMoves \/ LinkLost \/ on_ble_disconnect
  <2>1. UNCHANGED <<bus, place, outcome, cancel>> /\ link' \in {link, "down"}
    BY <1>4 DEF vars, course, connection, Sent, Answered, AppliersFrame, PollAgain,
                _watch_connection, valve_control_handler, valve_state_handler, ValveMoves, LinkLost,
                on_ble_disconnect, CallbackFrame
  <2>2. QED
    BY <2>1, OthersHidden
<1>5. QED
  BY <1>1, <1>2, <1>3, <1>4 DEF Next

\* A session ends only in the ways the loop of BleOrchestrator relies on,
\* wherever a cancellation finds it (run_sensor_loop around
\* _run_monitoring_session).
THEOREM Refinement == Spec => ImplementsOutcome
<1>1. Init => SInv /\ OutcomeKnown /\ Outcome!Init
  BY InitSInv, InitOutcome
<1>2. SInv /\ OutcomeKnown /\ [Next]_vars
      => (SInv /\ OutcomeKnown)' /\ [Outcome!Next]_(Outcome!vars)
  BY NextSInv, NextOutcome
<1>3. QED
  BY <1>1, <1>2, PTL DEF Spec, ImplementsOutcome, Outcome!Spec
=============================================================================
