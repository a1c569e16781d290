--------------------------- MODULE MCEspBleClient ---------------------------
(***************************************************************************)
(* Two characteristics with notify, so that a write can be followed by     *)
(* another one or by the end of the setup.  The state space is finite      *)
(* without a bound: a connection starts at most two discoveries.           *)
(***************************************************************************)
EXTENDS EspBleClient
=============================================================================
