--------------------------- MODULE ThresholdRules ---------------------------
(***************************************************************************)
(* The threshold rules of config.json and the three comparisons that       *)
(* threshold_monitor.py makes between a rule and a temperature.            *)
(*                                                                         *)
(* A temperature is an integer (its unit does not matter) or NaN:          *)
(* parse_temperature() hands over whatever a four byte float or a text     *)
(* such as "nan" decodes to, and every Python comparison with NaN is       *)
(* False.  The message of a rule is left out: within one list a rule is    *)
(* known by its value, as it is in _high_armed and _low_armed.             *)
(***************************************************************************)
EXTENDS Integers

CONSTANTS
    Rules,        \* Rules[s]: the values of the list "high" or "low"
    Hysteresis,   \* thresholds.hysteresis
    Readings,     \* the temperatures the sensor can report
    NaN,          \* a reading that is not a number
    None          \* no reading yet

Sides == {"high", "low"}

ASSUME RulesAssumption ==
    /\ Rules \in [Sides -> SUBSET Int]
    /\ Hysteresis \in Nat

ASSUME ReadingsAssumption ==
    /\ Readings \subseteq Int \cup {NaN}
    /\ None \notin Readings

\* t has not reached the threshold v yet.
Short(s, v, t) ==
    t # NaN /\ IF s = "high" THEN t < v ELSE t > v

\* t is at the threshold v or beyond it.
Reached(s, v, t) ==
    t # NaN /\ IF s = "high" THEN v <= t ELSE v >= t

\* t has come back from v by more than the hysteresis.
Retreated(s, v, t) ==
    t # NaN /\ IF s = "high" THEN t < v - Hysteresis ELSE t > v + Hysteresis

Alert == UNION {{s} \X Rules[s] : s \in Sides}
=============================================================================
