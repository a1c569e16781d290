-------------------------- MODULE MCSensorSession --------------------------
(***************************************************************************)
(* Two tasks of handlers: with the session or the poll beside them, up to  *)
(* three coroutines apply values at a time.                                *)
(***************************************************************************)
EXTENDS SensorSession
=============================================================================
