------------------------- MODULE MCThresholdMonitor -------------------------
(***************************************************************************)
(* Two thresholds on each side, one of them in both lists, a hysteresis    *)
(* of two degrees and readings from two degrees below the retreat of the   *)
(* lowest rule to two above the retreat of the highest.                    *)
(***************************************************************************)
EXTENDS ThresholdMonitor

MCRules == [s \in Sides |-> IF s = "high" THEN {3, 5} ELSE {1, 3}]

Numbers == 0..7

NumbersAndNaN == Numbers \cup {NaN}
=============================================================================
