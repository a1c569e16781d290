------------------------------ MODULE BleReport ------------------------------
(***************************************************************************)
(* What the BLE client of the relay lets the rest of the program see: the  *)
(* handles by which a notification is known, and s_ble_connected, which is *)
(* reported to main.cpp.  EspBleClient implements it; EspRelay builds on   *)
(* it.                                                                     *)
(*                                                                         *)
(* The host task forgets the handles and withdraws the report in one step. *)
(* reconnect_task does one after the other, and the host task may run in   *)
(* between: for that time a sensor can be reported whose handles are gone. *)
(***************************************************************************)

VARIABLES
    handles,    \* some characteristic has a val_handle
    ble,        \* s_ble_connected
    resetting   \* reconnect_task has called reset_handles(), and not yet
                \* set_ble_connected(false)

Init == handles = FALSE /\ ble = FALSE /\ resetting = FALSE

\* The discovery finds the first characteristic.
Match == ~handles /\ handles' = TRUE /\ UNCHANGED <<ble, resetting>>

\* The setup is finished.
Finish == ~ble /\ ble' = TRUE /\ UNCHANGED <<handles, resetting>>

\* schedule_reconnect() in the host task forgets both at once.
Forget == (handles \/ ble) /\ handles' = FALSE /\ ble' = FALSE /\ UNCHANGED resetting

\* schedule_reconnect() in reconnect_task forgets the handles ...
Reset == ~resetting /\ handles' = FALSE /\ resetting' = TRUE /\ UNCHANGED ble

\* ... and then withdraws the report, whatever the host task has done since.
Withdraw == resetting /\ ble' = FALSE /\ resetting' = FALSE /\ UNCHANGED handles

Next == Match \/ Finish \/ Forget \/ Reset \/ Withdraw

Spec == Init /\ [][Next]_<<handles, ble, resetting>>
=============================================================================
