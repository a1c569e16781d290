---------------------------- MODULE MCWeinDevice ----------------------------
(***************************************************************************)
(* Sensors whose valve can be notified, read, both, or neither.  Three     *)
(* entries of the loop may be ready when the valve moves: a task, the      *)
(* callback of a link that broke, and a notification.                      *)
(***************************************************************************)
EXTENDS WeinDevice

AllKinds == SUBSET {"notify", "read"}
=============================================================================
