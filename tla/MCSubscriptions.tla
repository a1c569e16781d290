-------------------------- MODULE MCSubscriptions --------------------------
(***************************************************************************)
(* Two users, so that an alert has somebody to pass over when the one      *)
(* before leaves; two messages in hand, which can be of one user or of     *)
(* two; one alert.  Users and handlers are alike, and every property is an *)
(* invariant or says something of each single step, so that the symmetry   *)
(* is sound.                                                               *)
(***************************************************************************)
EXTENDS Subscriptions, TLC

CONSTANTS a, b, h1, h2, alarm

Symmetry == Permutations(Users) \cup Permutations(Handlers)
=============================================================================
