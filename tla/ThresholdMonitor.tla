-------------------------- MODULE ThresholdMonitor --------------------------
(***************************************************************************)
(* threshold_monitor.ThresholdMonitor as main.run() wires it: every        *)
(* temperature goes through check(), every new session of the sensor       *)
(* through update_thresholds(), and both are skipped while nobody is       *)
(* subscribed.  All of it runs in one asyncio thread without an await, so  *)
(* a call is one step.                                                     *)
(*                                                                         *)
(* sounded and session are history: the code keeps neither of them.        *)
(***************************************************************************)
EXTENDS ThresholdRules

VARIABLES
    last,        \* _last_temperature
    armed,       \* armed["high"] is _high_armed, armed["low"] is _low_armed
    subscribed,  \* bool(config.subscribers)
    alerts,      \* what the last call of check() returned
    sounded,     \* sounded[s]: rules alerted and not retreated from since
    session      \* session[s]: rules alerted since update_thresholds()

vars == <<last, armed, subscribed, alerts, sounded, session>>

NoRule == [s \in Sides |-> {}]

Init ==
    /\ last = None
    /\ armed = NoRule
    /\ subscribed \in BOOLEAN
    /\ alerts = {}
    /\ sounded = NoRule
    /\ session = NoRule

-----------------------------------------------------------------------------
Crossed(s, v, t) ==
    last # None /\ Short(s, v, last) /\ Reached(s, v, t)

Fires(s, v, t) == Crossed(s, v, t) /\ v \notin armed[s]

Fired(s, t) == {v \in Rules[s] : Fires(s, v, t)}

\* Slip: arming the temperature that crossed instead of the rule's value.
ArmedByTemperature(s, t) ==
    {v \in Rules[s] : v \in armed[s] /\ ~Retreated(s, v, t)}
        \cup {t : v \in Fired(s, t)}

\* Slip: disarming on the near side already, without the hysteresis.
ArmedWithoutHysteresis(s, t) ==
    {v \in Rules[s] : (v \in armed[s] \/ Fires(s, v, t)) /\ ~Short(s, v, t)}

\* A rule that fires is armed, then a retreat disarms it, in one pass.
ArmedAfter(s, t) ==
    {v \in Rules[s] : (v \in armed[s] \/ Fires(s, v, t)) /\ ~Retreated(s, v, t)}

check(t) ==
    /\ alerts' = {a \in Alert : Fires(a[1], a[2], t)}
    /\ armed' = [s \in Sides |-> ArmedAfter(s, t)]
    /\ last' = t
    /\ sounded' = [s \in Sides |-> {v \in sounded[s] \cup Fired(s, t) :
                                      ~Retreated(s, v, t)}]
    /\ session' = [s \in Sides |-> session[s] \cup Fired(s, t)]

\* Slip: a new session forgets the last temperature too.
update_thresholds_and_forget ==
    /\ armed' = NoRule
    /\ session' = NoRule
    /\ alerts' = {}
    /\ last' = None
    /\ UNCHANGED <<sounded>>

update_thresholds ==
    /\ armed' = NoRule
    /\ session' = NoRule
    /\ alerts' = {}
    /\ UNCHANGED <<last, sounded>>

-----------------------------------------------------------------------------
on_temperature(t) ==
    /\ subscribed
    /\ check(t)
    /\ UNCHANGED subscribed

on_connected ==
    /\ subscribed
    /\ update_thresholds
    /\ UNCHANGED subscribed

\* The first subscriber comes or the last one leaves.
SubscribersChange ==
    /\ subscribed' = ~subscribed
    /\ alerts' = {}
    /\ UNCHANGED <<last, armed, sounded, session>>

Next ==
    \/ \E t \in Readings : on_temperature(t)
    \/ on_connected
    \/ SubscribersChange

Spec == Init /\ [][Next]_vars

-----------------------------------------------------------------------------
TypeOK ==
    /\ last \in Readings \cup {None}
    /\ armed \in [Sides -> SUBSET Int]
    /\ \A s \in Sides : armed[s] \subseteq Rules[s]
    /\ subscribed \in BOOLEAN
    /\ alerts \subseteq Alert
    /\ sounded \in [Sides -> SUBSET Int]
    /\ session \in [Sides -> SUBSET Int]

\* The armed sets of check() and update_thresholds() hold exactly the rules
\* that were alerted in this session and not retreated from.
ArmedIsSounded == \A s \in Sides : armed[s] = sounded[s] \cap session[s]

\* Within a session an alert is repeated only after the temperature has
\* retreated by the hysteresis, however it wanders around the threshold, and
\* whatever readings are no numbers.
NoRepeatInSession ==
    [][\A a \in alerts' : a[2] \notin sounded[a[1]] \cap session[a[1]]]_vars

-----------------------------------------------------------------------------
(***************************************************************************)
(* The refinement: one remembered temperature for all rules and a set of   *)
(* values per list implement an independent trigger for every rule.        *)
(***************************************************************************)
PhaseOf(s, v) ==
    IF v \in armed[s] THEN "spent"
    ELSE IF last # None /\ Short(s, v, last) THEN "ready"
    ELSE "blind"

Trigger == INSTANCE ThresholdTrigger WITH
    phase <- [s \in Sides |-> [v \in Rules[s] |-> PhaseOf(s, v)]],
    alerts <- alerts

\* One alert per crossing: no crossing of any rule is missed, and none is
\* alerted twice, by check() as main.run() calls it.
OneAlertPerCrossing == Trigger!Spec
=============================================================================
