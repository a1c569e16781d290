----------------------------- MODULE MCEspRelay -----------------------------
(***************************************************************************)
(* Five messages: what a session publishes at its beginning, on top of the *)
(* report and the clearing of a connection that ended before.              *)
(***************************************************************************)
EXTENDS EspRelay
=============================================================================
