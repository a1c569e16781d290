----------------------- MODULE ThresholdMonitorProofs -----------------------
(***************************************************************************)
(* The threshold monitor for every set of rules, hysteresis and readings.  *)
(* The inductive invariant is TypeOK and ArmedIsSounded: the armed sets,   *)
(* which decide whether check() alerts, are what the history says they     *)
(* are.                                                                    *)
(***************************************************************************)
EXTENDS ThresholdMonitor, TLAPS

\* A value at the threshold or beyond it has not retreated from it, because
\* the hysteresis is not negative (ThresholdsConfig.from_dict).
LEMMA ReachedIsNotRetreated ==
    ASSUME NEW s \in Sides, NEW v \in Rules[s], NEW t \in Readings,
           Reached(s, v, t)
    PROVE  ~Retreated(s, v, t) /\ ~Short(s, v, t)
<1>1. t \in Int /\ v \in Int /\ Hysteresis \in Nat
    BY RulesAssumption, ReadingsAssumption DEF Reached
<1> QED BY <1>1 DEF Reached, Retreated, Short

\* A temperature that has retreated from a threshold is short of it.
LEMMA RetreatedIsShort ==
    ASSUME NEW s \in Sides, NEW v \in Rules[s], NEW t \in Readings,
           Retreated(s, v, t)
    PROVE  Short(s, v, t)
<1>1. t \in Int /\ v \in Int /\ Hysteresis \in Nat
    BY RulesAssumption, ReadingsAssumption DEF Retreated
<1> QED BY <1>1 DEF Retreated, Short

IInv == TypeOK /\ ArmedIsSounded

\* A new monitor has armed nothing, and nothing has sounded.
LEMMA InitInv == Init => IInv
BY ReadingsAssumption DEF Init, IInv, TypeOK, ArmedIsSounded, NoRule, Alert, Sides

\* check() arms the rules it alerts and disarms those retreated from, as the
\* history does.
LEMMA CheckInv ==
    ASSUME IInv, NEW t \in Readings, on_temperature(t)
    PROVE  IInv'
<1> USE DEF IInv
<1>1. TypeOK'
  <2>1. last' \in Readings \cup {None} /\ subscribed' \in BOOLEAN
      BY DEF on_temperature, check, TypeOK
  <2>2. /\ armed' \in [Sides -> SUBSET Int]
        /\ \A s \in Sides : armed'[s] \subseteq Rules[s]
      BY RulesAssumption DEF on_temperature, check, ArmedAfter
  <2>3. alerts' \subseteq Alert
      BY DEF on_temperature, check
  <2>4. sounded' \in [Sides -> SUBSET Int] /\ session' \in [Sides -> SUBSET Int]
      BY RulesAssumption DEF on_temperature, check, Fired, TypeOK
  <2> QED BY <2>1, <2>2, <2>3, <2>4 DEF TypeOK
<1>2. ArmedIsSounded'
  <2> SUFFICES ASSUME NEW s \in Sides
               PROVE  armed'[s] = sounded'[s] \cap session'[s]
      BY DEF ArmedIsSounded
  <2>1. armed'[s] = {v \in Rules[s] : (v \in armed[s] \/ Fires(s, v, t))
                                         /\ ~Retreated(s, v, t)}
      BY DEF on_temperature, check, ArmedAfter
  <2>2. sounded'[s] = {v \in sounded[s] \cup Fired(s, t) : ~Retreated(s, v, t)}
      BY DEF on_temperature, check
  <2>3. session'[s] = session[s] \cup Fired(s, t)
      BY DEF on_temperature, check
  <2>4. armed[s] = sounded[s] \cap session[s] /\ armed[s] \subseteq Rules[s]
      BY DEF ArmedIsSounded, TypeOK
  <2> QED BY <2>1, <2>2, <2>3, <2>4 DEF Fired
<1> QED BY <1>1, <1>2

\* Every call of main.run() keeps the armed sets equal to the history.
LEMMA StepInv == IInv /\ [Next]_vars => IInv'
<1> SUFFICES ASSUME IInv, [Next]_vars
             PROVE  IInv'
    OBVIOUS
<1>1. ASSUME NEW t \in Readings, on_temperature(t)
      PROVE  IInv'
    BY <1>1, CheckInv
<1>2. CASE on_connected
    BY <1>2 DEF IInv, TypeOK, ArmedIsSounded, on_connected, update_thresholds,
                NoRule
<1>3. CASE SubscribersChange
    BY <1>3 DEF IInv, TypeOK, ArmedIsSounded, SubscribersChange
<1>4. CASE UNCHANGED vars
    BY <1>4 DEF IInv, TypeOK, ArmedIsSounded, vars
<1> QED BY <1>1, <1>2, <1>3, <1>4 DEF Next

\* Every reachable state is typed and its armed sets are the alerts of the
\* session that were not retreated from.
THEOREM Invariance == Spec => [](TypeOK /\ ArmedIsSounded)
<1>1. Init => IInv
    BY InitInv
<1>2. IInv /\ [Next]_vars => IInv'
    BY StepInv
<1>3. IInv => TypeOK /\ ArmedIsSounded
    BY DEF IInv
<1> QED BY <1>1, <1>2, <1>3, PTL DEF Spec

\* The type invariant: an armed set holds only rules of its list, whatever the
\* subscribers and their connections do (check, update_thresholds).
THEOREM TypeCorrect == Spec => []TypeOK
BY Invariance, PTL

-----------------------------------------------------------------------------
\* No alert of check() is repeated in a session without a retreat, whatever
\* the rules and whatever the sensor reports, NaN included.
THEOREM NoRepeat == Spec => NoRepeatInSession
<1>1. IInv /\ [Next]_vars
        => [\A a \in alerts' : a[2] \notin sounded[a[1]] \cap session[a[1]]]_vars
  <2> SUFFICES ASSUME IInv, Next, NEW a \in alerts'
               PROVE  a[2] \notin sounded[a[1]] \cap session[a[1]]
      OBVIOUS
  <2>1. PICK t \in Readings : on_temperature(t)
      BY DEF Next, on_connected, update_thresholds, SubscribersChange
  <2>2. a \in Alert /\ Fires(a[1], a[2], t)
      BY <2>1 DEF on_temperature, check
  <2>3. a[1] \in Sides
      BY <2>2 DEF Alert
  <2>4. a[2] \notin armed[a[1]]
      BY <2>2 DEF Fires
  <2> QED BY <2>3, <2>4 DEF IInv, ArmedIsSounded
<1>2. Init => IInv
    BY InitInv
<1>3. IInv /\ [Next]_vars => IInv'
    BY StepInv
<1> QED BY <1>1, <1>2, <1>3, PTL DEF Spec, NoRepeatInSession

-----------------------------------------------------------------------------
(***************************************************************************)
(* The refinement.                                                         *)
(***************************************************************************)
PhaseMap == [s \in Sides |-> [v \in Rules[s] |-> PhaseOf(s, v)]]

\* A new monitor has no last temperature: every trigger is blind.
LEMMA InitRefines == Init => Trigger!Init
BY DEF Init, Trigger!Init, PhaseOf, NoRule, Trigger!Sides, Sides

\* check() is the reading of every trigger at once.
LEMMA CheckRefines ==
    ASSUME IInv, NEW t \in Readings, on_temperature(t)
    PROVE  Trigger!Reading(t)
<1>1. ASSUME NEW s \in Sides, NEW v \in Rules[s]
      PROVE  /\ PhaseOf(s, v)' = Trigger!After(s, v, t)
             /\ Fires(s, v, t) <=> PhaseMap[s][v] = "ready" /\ Reached(s, v, t)
  <2>1. PhaseMap[s][v] = PhaseOf(s, v)
      BY DEF PhaseMap
  <2>2. last' = t /\ t # None
      BY ReadingsAssumption DEF on_temperature, check
  <2>3. v \in armed'[s] <=> (v \in armed[s] \/ Fires(s, v, t))
                              /\ ~Retreated(s, v, t)
      BY DEF on_temperature, check, ArmedAfter
  <2>4. Short(s, v, last)' <=> Short(s, v, t)
      BY <2>2 DEF Short
  <2>5. Reached(s, v, t) => ~Retreated(s, v, t) /\ ~Short(s, v, t)
      BY ReachedIsNotRetreated
  <2>6. Retreated(s, v, t) => Short(s, v, t)
      BY RetreatedIsShort
  <2>8. PhaseOf(s, v)' = IF v \in armed'[s] THEN "spent"
                         ELSE IF Short(s, v, t) THEN "ready" ELSE "blind"
      BY <2>2, <2>4 DEF PhaseOf
  <2>9. Fires(s, v, t) <=> PhaseMap[s][v] = "ready" /\ Reached(s, v, t)
      BY <2>1 DEF Fires, Crossed, PhaseOf
  <2>10. PhaseMap[s][v] = "spent" <=> v \in armed[s]
      BY <2>1 DEF PhaseOf
  <2>11. PhaseMap[s][v] \in {"blind", "ready", "spent"}
      BY <2>1 DEF PhaseOf
  <2>12. Trigger!After(s, v, t) =
           IF PhaseMap[s][v] = "ready" /\ Reached(s, v, t) THEN "spent"
           ELSE IF PhaseMap[s][v] = "spent"
             THEN IF Retreated(s, v, t) THEN "ready" ELSE "spent"
           ELSE IF Short(s, v, t) THEN "ready" ELSE "blind"
      BY DEF Trigger!After, PhaseMap, Trigger!Reached, Reached, Trigger!Retreated,
             Retreated, Trigger!Short, Short
  <2>13. CASE PhaseMap[s][v] = "ready"
      BY <2>3, <2>5, <2>6, <2>8, <2>9, <2>10, <2>12, <2>13
  <2>14. CASE PhaseMap[s][v] = "spent"
      BY <2>3, <2>6, <2>8, <2>9, <2>10, <2>12, <2>14
  <2>15. CASE PhaseMap[s][v] = "blind"
      BY <2>3, <2>5, <2>8, <2>9, <2>10, <2>12, <2>15
  <2> QED BY <2>11, <2>13, <2>14, <2>15
<1>2. PhaseMap' = [s \in Sides |-> [v \in Rules[s] |-> Trigger!After(s, v, t)]]
    BY <1>1 DEF PhaseMap
<1>3. alerts' = {a \in Alert : PhaseMap[a[1]][a[2]] = "ready"
                                 /\ Reached(a[1], a[2], t)}
  <2>1. alerts' = {a \in Alert : Fires(a[1], a[2], t)}
      BY DEF on_temperature, check
  <2>2. \A a \in Alert : a[1] \in Sides /\ a[2] \in Rules[a[1]]
      BY DEF Alert
  <2> QED BY <1>1, <2>1, <2>2
<1> QED BY <1>2, <1>3 DEF Trigger!Reading, PhaseMap, Trigger!After, Trigger!Alert,
        Alert, Trigger!Reached, Reached, Trigger!Sides, Sides

\* update_thresholds() makes every spent trigger ready or blind.
LEMMA ConnectedRefines ==
    ASSUME IInv, on_connected
    PROVE  Trigger!NewSession
<1>1. ASSUME NEW s \in Sides, NEW v \in Rules[s]
      PROVE  IF PhaseOf(s, v) = "spent"
               THEN PhaseOf(s, v)' \in {"blind", "ready"}
               ELSE PhaseOf(s, v)' = PhaseOf(s, v)
    BY DEF on_connected, update_thresholds, NoRule, PhaseOf, Short
<1>2. alerts' = {}
    BY DEF on_connected, update_thresholds
<1>3. \A s \in Sides : \A v \in Rules[s] : PhaseOf(s, v)' \in {"blind", "ready", "spent"}
    BY DEF PhaseOf
<1>4. \A s \in Sides : PhaseMap'[s] \in [Rules[s] -> {"blind", "ready", "spent"}]
    BY <1>3 DEF PhaseMap
<1>5. PhaseMap' \in [Sides -> UNION {[Rules[s] -> {"blind", "ready", "spent"}] : s \in Sides}]
    BY <1>4 DEF PhaseMap
<1>6. \A s \in Sides : \A v \in Rules[s] :
        IF PhaseMap[s][v] = "spent"
          THEN PhaseMap'[s][v] \in {"blind", "ready"}
          ELSE PhaseMap'[s][v] = PhaseMap[s][v]
    BY <1>1 DEF PhaseMap
<1> QED BY <1>2, <1>4, <1>5, <1>6 DEF Trigger!NewSession, PhaseMap, Trigger!Phases,
        Trigger!Sides, Sides

\* Every call is a reading, a new session or a quiet step of the triggers.
LEMMA StepRefines ==
    ASSUME IInv, [Next]_vars
    PROVE  [Trigger!Next]_Trigger!vars
<1>1. ASSUME NEW t \in Readings, on_temperature(t)
      PROVE  Trigger!Next
    BY <1>1, CheckRefines DEF Trigger!Next
<1>2. CASE on_connected
    BY <1>2, ConnectedRefines DEF Trigger!Next
<1>3. CASE SubscribersChange
    BY <1>3 DEF SubscribersChange, Trigger!Next, Trigger!Quiet, PhaseOf, Short
<1>4. CASE UNCHANGED vars
    BY <1>4 DEF vars, Trigger!vars, PhaseOf, Short
<1> QED BY <1>1, <1>2, <1>3, <1>4 DEF Next

\* The monitor is one trigger per rule: every crossing from one reading to the
\* next raises its alert and raises it once.
THEOREM Refinement == Spec => OneAlertPerCrossing
<1>1. Init => IInv /\ Trigger!Init
    BY InitInv, InitRefines
<1>2. IInv /\ [Next]_vars => IInv'
    BY StepInv
<1>3. IInv /\ [Next]_vars => [Trigger!Next]_Trigger!vars
    BY StepRefines
<1> QED BY <1>1, <1>2, <1>3, PTL DEF Spec, OneAlertPerCrossing, Trigger!Spec
=============================================================================
