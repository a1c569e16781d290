--------------------------- MODULE SessionOutcome ---------------------------
(***************************************************************************)
(* What the sensor loop may rely on of one monitoring session: how it ends *)
(* and what a cancellation does to it.  These are the states "session",    *)
(* "cleanup" and "aborting" of a loop in BleOrchestrator and their ways    *)
(* out, for one loop, one session and one cancellation.                    *)
(***************************************************************************)
VARIABLES
    at,      \* "session", in its finally block, or how the session ended
    cancel   \* no cancellation, "requested", or "delivered"

vars == <<at, cancel>>

\* In the finally block after an end of its own, or after a cancellation.
Leaving == {"cleanup", "aborting"}
Over == {"ended", "cancelled", "fatal"}

Init == at = "session" /\ cancel = "no"

Request == at \notin Over /\ cancel = "no" /\ cancel' = "requested" /\ UNCHANGED at

\* As long as no cancellation waits to be delivered.
End ==
    /\ cancel # "requested"
    /\ UNCHANGED cancel
    /\ \/ at = "session" /\ at' \in {"cleanup", "ended", "fatal"}
       \/ at = "cleanup" /\ at' = "ended"
       \/ at = "aborting" /\ at' \in {"ended", "cancelled"}

\* A clean-up that had begun may swallow the cancellation and go on, or end.
Deliver ==
    /\ cancel = "requested"
    /\ cancel' = "delivered"
    /\ \/ at = "session" /\ at' \in {"aborting", "cancelled"}
       \/ at = "cleanup" /\ at' \in {"cleanup", "ended", "cancelled"}

Next == Request \/ End \/ Deliver

Spec == Init /\ [][Next]_vars
=============================================================================
