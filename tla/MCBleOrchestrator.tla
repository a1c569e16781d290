------------------------- MODULE MCBleOrchestrator -------------------------
(***************************************************************************)
(* Two users and two commands handled at a time, so that a start overtakes *)
(* a stop and the other way round; one restart asleep at a time; two       *)
(* identities for loops, so that a second live loop could appear.          *)
(***************************************************************************)
EXTENDS BleOrchestrator, TLC

Symmetric == Permutations(Jids) \cup Permutations(Workers) \cup Permutations(Loops)
=============================================================================
