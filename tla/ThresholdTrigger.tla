-------------------------- MODULE ThresholdTrigger --------------------------
(***************************************************************************)
(* What the threshold monitor promises: every rule is a trigger of its     *)
(* own, and it knows nothing of temperatures but on which side of the rule *)
(* they are.                                                               *)
(*                                                                         *)
(*   "blind"  no crossing can be recognised: there was no reading yet, or  *)
(*            the last one was beyond the rule or no number;               *)
(*   "ready"  the temperature is on the near side: reaching the threshold  *)
(*            raises the alert;                                            *)
(*   "spent"  the alert was raised and is not repeated until the           *)
(*            temperature has retreated by more than the hysteresis.       *)
(***************************************************************************)
EXTENDS ThresholdRules

VARIABLES
    phase,     \* phase[s][v]: the state of the trigger of rule v
    alerts     \* the alerts raised by the last step

vars == <<phase, alerts>>

Phases == {"blind", "ready", "spent"}

Init ==
    /\ phase = [s \in Sides |-> [v \in Rules[s] |-> "blind"]]
    /\ alerts = {}

After(s, v, t) ==
    IF phase[s][v] = "ready" /\ Reached(s, v, t) THEN "spent"
    ELSE IF phase[s][v] = "spent" THEN IF Retreated(s, v, t) THEN "ready" ELSE "spent"
    ELSE IF Short(s, v, t) THEN "ready" ELSE "blind"

Reading(t) ==
    /\ phase' = [s \in Sides |-> [v \in Rules[s] |-> After(s, v, t)]]
    /\ alerts' = {a \in Alert : phase[a[1]][a[2]] = "ready"
                                 /\ Reached(a[1], a[2], t)}

\* A new session of the sensor forgets which alerts were raised.
NewSession ==
    /\ phase' \in [Sides -> UNION {[Rules[s] -> Phases] : s \in Sides}]
    /\ \A s \in Sides :
         /\ phase'[s] \in [Rules[s] -> Phases]
         /\ \A v \in Rules[s] :
              IF phase[s][v] = "spent"
                THEN phase'[s][v] \in {"blind", "ready"}
                ELSE phase'[s][v] = phase[s][v]
    /\ alerts' = {}

Quiet ==
    /\ alerts' = {}
    /\ UNCHANGED phase

Next ==
    \/ \E t \in Readings : Reading(t)
    \/ NewSession
    \/ Quiet

Spec == Init /\ [][Next]_vars
=============================================================================
