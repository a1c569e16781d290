---------------------------- MODULE EspBleClient ----------------------------
(***************************************************************************)
(* esp32-s3/src/ble_client.cpp: how the relay finds the sensor, connects,  *)
(* secures the link, discovers and subscribes its characteristics, and     *)
(* starts over when the sensor goes away.                                  *)
(*                                                                         *)
(* Two tasks share the static variables without a lock: the NimBLE host    *)
(* task, which runs ble_gap_event() and the GATT callbacks one after the   *)
(* other, and reconnect_task.  A handler of the host task is one step.     *)
(* reconnect_task can be preempted between a test and what it does upon    *)
(* it, and between the parts of schedule_reconnect() (pcT), unless         *)
(* Preemption is FALSE.                                                    *)
(*                                                                         *)
(* Characteristics are those with notify, in the order of config.json; the *)
(* polling of the others, and the payloads, are left out.                  *)
(***************************************************************************)
EXTENDS Integers, Sequences, FiniteSets

CONSTANTS
    N,            \* characteristics to subscribe
    Preemption,   \* the host task may run between two steps of reconnect_task
    Refused       \* procedures NimBLE may refuse to start for want of resources

ASSUME ClientAssumption ==
    /\ N \in Nat \ {0}
    /\ Preemption \in BOOLEAN
    /\ Refused \subseteq {"scan", "connect", "gatt"}

Chars == 1..N

\* The discovery in the queue of GATT procedures; a write is its characteristic.
Disc == 0

VARIABLES
    phase,        \* s_phase
    conn,         \* s_conn_handle is not BLE_HS_CONN_HANDLE_NONE
    started,      \* s_gatt_discovery_started
    enc,          \* s_link_encrypted
    tried,        \* s_security_initiate_attempted
    passkey,      \* s_passkey_seen_this_session
    prompt,       \* s_passkey_task_active
    seen,         \* s_target_seen_in_scan
    found,        \* characteristics with a val_handle
    subscribed,   \* characteristics with the flag subscribed
    index,        \* s_subscribe_index
    pending,      \* s_pending_cccd_writes
    ble,          \* s_ble_connected, as reported to main.cpp
    pcT,          \* where reconnect_task is
    link,         \* the connection as NimBLE knows it
    pairing,      \* the encryption procedure of that connection: "no", "running",
                  \* or "done" and BLE_GAP_EVENT_ENC_CHANGE not delivered yet
    secure,       \* NimBLE's sec_state.encrypted of that connection
    radio,        \* the GAP procedure under way
    gatt,         \* the GATT procedures under way, Disc or a characteristic
    cccd,         \* characteristics the sensor notifies on this connection
    failed,       \* history: characteristics whose write failed on it
    age           \* time since s_connect_tick: 0, 1 (> 8 s) or 2 (> 60 s)

flags == <<started, enc, tried, passkey, prompt, seen>>
chars == <<found, subscribed, index, pending>>
nimble == <<link, pairing, secure, radio, gatt, cccd, failed, age>>
vars == <<phase, conn, flags, chars, ble, pcT, nimble>>

Init ==
    /\ phase = "Idle"
    /\ conn = FALSE
    /\ started = FALSE /\ enc = FALSE /\ tried = FALSE
    /\ passkey = FALSE /\ prompt = FALSE /\ seen = FALSE
    /\ found = {} /\ subscribed = {} /\ index = 0 /\ pending = 0
    /\ ble = FALSE
    /\ pcT = "look"
    /\ link = "down" /\ pairing = "no" /\ secure = FALSE /\ radio = "idle"
    /\ gatt = <<>> /\ cccd = {} /\ failed = {} /\ age = 0

\* The host task takes an event unless reconnect_task is between a test and its
\* action, or within schedule_reconnect(), and may not be preempted there.
HostRuns ==
    /\ pairing # "done"
    /\ Preemption \/ pcT \in {"look", "pause"}

\* reconnect_task runs unless the host task is inside the handling of an event.
TaskRuns == Preemption \/ pairing # "done"

-----------------------------------------------------------------------------
(***************************************************************************)
(* The functions that both tasks call.                                     *)
(***************************************************************************)

\* schedule_reconnect() gives the connection up, ...
Terminate ==
    /\ link' = IF conn /\ link = "up" THEN "closing" ELSE link
    /\ conn' = FALSE

\* ... forgets what it knew of it, ...
ForgetFlags ==
    /\ started' = FALSE /\ enc' = FALSE /\ seen' = FALSE
    /\ UNCHANGED <<tried, passkey, prompt>>

\* Slip: the flag subscribed is left as it is.
reset_handles_keeping_flags ==
    /\ found' = {}
    /\ UNCHANGED <<subscribed, index, pending>>

\* ... and the characteristics, ...
reset_handles ==
    /\ found' = {} /\ subscribed' = {}
    /\ UNCHANGED <<index, pending>>

\* Slip: the main program is not told that the sensor has gone.
ForgetSilently == ForgetFlags /\ reset_handles /\ UNCHANGED ble

\* ... and withdraws the report.
Forget == ForgetFlags /\ reset_handles /\ ble' = FALSE

Drop == Terminate /\ Forget

\* The whole of it, in the host task.
schedule_reconnect ==
    IF phase = "WaitingReconnect"
      THEN UNCHANGED <<phase, conn, flags, chars, ble, link>>
      ELSE Drop /\ phase' = "WaitingReconnect"

\* ble_gap_connect() refuses while the old connection is still there.
connect_to_target ==
    /\ phase' = "Connecting"
    /\ \/ link = "down" /\ radio' = "connect"
       \/ (link # "down" \/ "connect" \in Refused) /\ radio' = "idle"

\* A GATT procedure starts or fails at once; no caller looks at the result.
Start(procedure) ==
    \/ link \in {"up", "closing"} /\ gatt' = Append(gatt, procedure)
    \/ (link \notin {"up", "closing"} \/ "gatt" \in Refused) /\ UNCHANGED gatt

discover_characteristics ==
    /\ started' = TRUE
    /\ phase' = "Discovering"
    /\ Start(Disc)

\* Slip: the characteristic after the last one written is passed over.
UnsubscribedFurther(i, f, s) == {c \in f \ s : c > i + 1}

\* The characteristics left to write, given the index, the handles and flags.
Unsubscribed(i, f, s) == {c \in f \ s : c > i}

Least(S) == CHOOSE c \in S : \A d \in S : c <= d

\* Slip: the index is moved past the characteristic once more.
subscribe_overrun(i, p, f, s, rest) ==
    LET todo == Unsubscribed(i, f, s)
    IN  IF todo # {}
          THEN /\ phase' = "Subscribing"
               /\ index' = Least(todo) + 1
               /\ pending' = p + 1
               /\ \/ link \in {"up", "closing"} /\ gatt' = Append(rest, Least(todo))
                  \/ (link \notin {"up", "closing"} \/ "gatt" \in Refused) /\ gatt' = rest
               /\ UNCHANGED ble
          ELSE /\ phase' = "Connected"
               /\ index' = N
               /\ pending' = p
               /\ gatt' = rest
               /\ ble' = TRUE

\* subscribe_next() after a discovery (i = 0) or a write; rest is what is left
\* of the GATT queue.
subscribe_next(i, p, f, s, rest) ==
    LET todo == Unsubscribed(i, f, s)
    IN  IF todo # {}
          THEN /\ phase' = "Subscribing"
               /\ index' = Least(todo)
               /\ pending' = p + 1
               /\ \/ link \in {"up", "closing"} /\ gatt' = Append(rest, Least(todo))
                  \/ (link \notin {"up", "closing"} \/ "gatt" \in Refused) /\ gatt' = rest
               /\ UNCHANGED ble
          ELSE /\ phase' = "Connected"
               /\ index' = N
               /\ pending' = p
               /\ gatt' = rest
               /\ ble' = TRUE

-----------------------------------------------------------------------------
(***************************************************************************)
(* The host task: the events of the GAP procedures.                        *)
(***************************************************************************)

\* The first start_scan(), and schedule_reconnect() if it fails.
on_ble_sync ==
    /\ HostRuns
    /\ phase = "Idle"
    /\ \/ /\ phase' = "Scanning" /\ seen' = FALSE
          /\ radio' = "scan"
          /\ UNCHANGED <<conn, started, enc, tried, passkey, prompt, chars, ble, link>>
       \/ /\ "scan" \in Refused
          /\ Drop /\ phase' = "WaitingReconnect"
          /\ UNCHANGED radio
    /\ UNCHANGED <<pcT, pairing, secure, gatt, cccd, failed, age>>

\* BLE_GAP_EVENT_DISC from the target: the scan is cancelled.
TargetFound ==
    /\ HostRuns
    /\ radio = "scan"
    /\ phase = "Scanning"
    /\ seen' = TRUE
    /\ connect_to_target
    /\ UNCHANGED <<conn, started, enc, tried, passkey, prompt, chars, ble, pcT,
                   link, pairing, secure, gatt, cccd, failed, age>>

\* Slip: a scan that found nothing is not followed by schedule_reconnect().
ScanEndsQuietly ==
    /\ HostRuns
    /\ radio = "scan"
    /\ IF phase = "Scanning" /\ seen THEN connect_to_target ELSE radio' = "idle" /\ UNCHANGED phase
    /\ UNCHANGED <<conn, flags, chars, ble, pcT, link, pairing, secure, gatt, cccd,
                   failed, age>>

\* BLE_GAP_EVENT_DISC_COMPLETE.
ScanEnds ==
    /\ HostRuns
    /\ radio = "scan"
    /\ IF phase # "Scanning"
         THEN radio' = "idle" /\ UNCHANGED <<phase, conn, flags, chars, ble, link>>
         ELSE IF seen
           THEN connect_to_target /\ UNCHANGED <<conn, flags, chars, ble, link>>
           ELSE schedule_reconnect /\ radio' = "idle"
    /\ UNCHANGED <<pcT, pairing, secure, gatt, cccd, failed, age>>

NewLink ==
    /\ link' = "up" /\ pairing' = "no" /\ secure' \in BOOLEAN
    /\ cccd' = {} /\ failed' = {}
    /\ age' = 0

\* Slip: s_security_initiate_attempted stays as the last connection left it.
FreshKeepingTried == passkey' = FALSE /\ UNCHANGED tried

\* What a new connection forgets of the last one's pairing.
Fresh == tried' = FALSE /\ passkey' = FALSE

\* BLE_GAP_EVENT_CONNECT; a bonded link may be encrypted already.
Connect ==
    /\ HostRuns
    /\ radio = "connect"
    /\ radio' = "idle"
    /\ NewLink
    /\ Fresh
    /\ conn' = TRUE
    /\ enc' = secure'
    /\ started' = secure'
    /\ IF secure'
         THEN /\ phase' = "Discovering"
              /\ \/ gatt' = Append(gatt, Disc)
                 \/ "gatt" \in Refused /\ UNCHANGED gatt
         ELSE UNCHANGED <<phase, gatt>>
    /\ UNCHANGED <<prompt, seen, chars, ble, pcT>>

ConnectFailed ==
    /\ HostRuns
    /\ radio = "connect"
    /\ radio' = "idle"
    /\ schedule_reconnect
    /\ UNCHANGED <<pcT, pairing, secure, gatt, cccd, failed, age>>

\* The connection breaks.  NimBLE fails the GATT procedures first and reports
\* BLE_GAP_EVENT_DISCONNECT last.
LinkLost ==
    /\ link \in {"up", "closing"}
    /\ link' = "lost"
    /\ UNCHANGED <<phase, conn, flags, chars, ble, pcT, pairing, secure, radio, gatt,
                   cccd, failed, age>>

Disconnected ==
    /\ HostRuns
    /\ link = "lost" /\ gatt = <<>>
    /\ link' = "down" /\ pairing' = "no" /\ secure' = FALSE
    /\ cccd' = {} /\ failed' = {}
    /\ conn' = FALSE
    /\ IF phase = "WaitingReconnect"
         THEN UNCHANGED <<phase, flags, chars, ble>>
         ELSE Forget /\ phase' = "WaitingReconnect"
    /\ UNCHANGED <<pcT, radio, gatt, age>>

\* NimBLE notes that the link is encrypted, whoever asked for it ...
LinkSecured ==
    /\ HostRuns
    /\ link \in {"up", "closing"} /\ ~secure
    /\ secure' = TRUE /\ pairing' = "done"
    /\ UNCHANGED <<phase, conn, flags, chars, ble, pcT, link, radio, gatt, cccd,
                   failed, age>>

\* ... and then delivers BLE_GAP_EVENT_ENC_CHANGE.
Encrypted ==
    /\ pairing = "done" /\ pairing' = "no"
    /\ IF enc
         THEN UNCHANGED <<phase, started, enc, gatt>>
         ELSE /\ enc' = TRUE
              /\ IF started \/ ~conn
                   THEN UNCHANGED <<phase, started, gatt>>
                   ELSE discover_characteristics
    /\ UNCHANGED <<conn, tried, passkey, prompt, seen, chars, ble, pcT, link,
                   secure, radio, cccd, failed, age>>

EncryptionFailed ==
    /\ HostRuns
    /\ link \in {"up", "closing"} /\ ~secure
    /\ pairing' = "no"
    /\ schedule_reconnect
    /\ UNCHANGED <<pcT, secure, radio, gatt, cccd, failed, age>>

\* BLE_GAP_EVENT_PASSKEY_ACTION; a prompt still open is not opened again.
PasskeyAction ==
    /\ HostRuns
    /\ link = "up" /\ ~secure
    /\ passkey' = TRUE
    /\ prompt' = TRUE
    /\ pairing' = "running"
    /\ UNCHANGED <<phase, conn, started, enc, tried, seen, chars, ble, pcT, link,
                   secure, radio, gatt, cccd, failed, age>>

\* passkey_worker_task ends: a passkey was injected, or none came in 120 s.
PromptEnds ==
    /\ prompt
    /\ prompt' = FALSE
    /\ UNCHANGED <<phase, conn, started, enc, tried, passkey, seen, chars, ble,
                   pcT, nimble>>

-----------------------------------------------------------------------------
(***************************************************************************)
(* The host task: the GATT callbacks.                                      *)
(***************************************************************************)

\* on_gatt_disc_chr() for a characteristic of config.json.
Matched(c) ==
    /\ HostRuns
    /\ gatt # <<>> /\ Head(gatt) = Disc
    /\ link \in {"up", "closing"}
    /\ c \notin found
    /\ found' = found \cup {c}
    /\ UNCHANGED <<phase, conn, flags, subscribed, index, pending, ble, pcT, nimble>>

\* on_gatt_disc_chr() with BLE_HS_EDONE.
Discovered ==
    /\ HostRuns
    /\ gatt # <<>> /\ Head(gatt) = Disc
    /\ link \in {"up", "closing"}
    /\ subscribe_next(0, 0, found, subscribed, Tail(gatt))
    /\ UNCHANGED <<conn, flags, found, subscribed, pcT, link, pairing, secure, radio,
                   cccd, failed, age>>

DiscoveryFailed ==
    /\ HostRuns
    /\ gatt # <<>> /\ Head(gatt) = Disc
    /\ gatt' = Tail(gatt)
    /\ schedule_reconnect
    /\ UNCHANGED <<pcT, pairing, secure, radio, cccd, failed, age>>

\* on_gatt_write_cccd(), with the write answered (ok) or failed.
Written(c, ok) ==
    /\ HostRuns
    /\ gatt # <<>> /\ Head(gatt) = c
    /\ ok => link \in {"up", "closing"}
    /\ subscribed' = IF ok THEN subscribed \cup {c} ELSE subscribed
    /\ cccd' = IF ok THEN cccd \cup {c} ELSE cccd
    /\ failed' = IF ok THEN failed ELSE failed \cup {c}
    /\ LET p == IF pending > 0 THEN pending - 1 ELSE 0
       IN  IF p = 0
             THEN subscribe_next(index, p, found, subscribed', Tail(gatt))
             ELSE /\ pending' = p /\ gatt' = Tail(gatt)
                  /\ UNCHANGED <<phase, index, ble>>
    /\ UNCHANGED <<conn, flags, found, pcT, link, pairing, secure, radio, age>>

-----------------------------------------------------------------------------
(***************************************************************************)
(* reconnect_task.                                                         *)
(***************************************************************************)
AwaitsSecurity == conn /\ ~enc /\ ~started

Look ==
    /\ pcT = "look"
    /\ \/ phase = "WaitingReconnect" /\ pcT' = "pause"
       \/ /\ phase # "WaitingReconnect" /\ AwaitsSecurity
          /\ passkey \/ prompt
          /\ age = 2
          /\ pcT' = "reconnect"
       \/ /\ phase # "WaitingReconnect" /\ AwaitsSecurity
          /\ ~(passkey \/ prompt)
          /\ age >= 1 /\ ~tried
          /\ pcT' = "secure"
    /\ UNCHANGED <<phase, conn, flags, chars, ble, nimble>>

\* The pause of reconnect_interval_sec is over.
Pause ==
    /\ pcT = "pause"
    /\ IF phase # "WaitingReconnect"
         THEN pcT' = "look" /\ UNCHANGED <<phase, seen>>
         ELSE pcT' = "scan" /\ phase' = "Scanning" /\ seen' = FALSE
    /\ UNCHANGED <<conn, started, enc, tried, passkey, prompt, chars, ble, nimble>>

\* ble_gap_disc(), which start_scan() calls when it has set the phase.
Scan ==
    /\ pcT = "scan"
    /\ \/ radio = "idle" /\ radio' = "scan" /\ pcT' = "look"
       \/ /\ radio # "idle" \/ "scan" \in Refused
          /\ pcT' = "reconnect" /\ UNCHANGED radio
    /\ UNCHANGED <<phase, conn, flags, chars, ble, link, pairing, secure, gatt, cccd,
                   failed, age>>

\* schedule_reconnect() in the order of its statements, from the test of s_phase ...
Reconnect ==
    /\ pcT = "reconnect"
    /\ pcT' = IF phase = "WaitingReconnect" THEN "look" ELSE "terminate"
    /\ UNCHANGED <<phase, conn, flags, chars, ble, nimble>>

TerminateLink ==
    /\ pcT = "terminate" /\ pcT' = "forget"
    /\ Terminate
    /\ UNCHANGED <<phase, flags, chars, ble, pairing, secure, radio, gatt, cccd, failed, age>>

ForgetLink ==
    /\ pcT = "forget" /\ pcT' = "reset"
    /\ ForgetFlags
    /\ UNCHANGED <<phase, conn, chars, ble, nimble>>

\* Slip: reconnect_task forgets the handles and does not withdraw the report.
ResetUnreported ==
    /\ pcT = "reset" /\ pcT' = "settle"
    /\ reset_handles
    /\ UNCHANGED <<phase, conn, flags, ble, nimble>>

Reset ==
    /\ pcT = "reset" /\ pcT' = "report"
    /\ reset_handles
    /\ UNCHANGED <<phase, conn, flags, ble, nimble>>

Withdraw ==
    /\ pcT = "report" /\ pcT' = "settle"
    /\ ble' = FALSE
    /\ UNCHANGED <<phase, conn, flags, chars, nimble>>

\* ... to its assignment.
Settle ==
    /\ pcT = "settle"
    /\ pcT' = "look"
    /\ phase' = "WaitingReconnect"
    /\ UNCHANGED <<conn, flags, chars, ble, nimble>>

\* begin_secure_session().
Secure ==
    /\ pcT = "secure"
    /\ \/ /\ ~conn \/ tried
          /\ pcT' = "look"
          /\ UNCHANGED <<enc, tried, pairing>>
       \/ /\ conn /\ ~tried /\ secure
          /\ enc' = TRUE
          /\ pcT' = IF started THEN "look" ELSE "discover"
          /\ UNCHANGED <<tried, pairing>>
       \/ /\ conn /\ ~tried /\ ~secure
          /\ tried' = TRUE
          /\ \/ pairing' = "running" /\ pcT' = "look"
             \/ pcT' = "reconnect" /\ UNCHANGED pairing
          /\ UNCHANGED enc
    /\ UNCHANGED <<phase, conn, started, passkey, prompt, seen, chars, ble, link,
                   secure, radio, gatt, cccd, failed, age>>

Discover ==
    /\ pcT = "discover"
    /\ pcT' = "look"
    /\ discover_characteristics
    /\ UNCHANGED <<conn, enc, tried, passkey, prompt, seen, chars, ble, link,
                   pairing, secure, radio, cccd, failed, age>>

Tick ==
    /\ link = "up" /\ age < 2
    /\ age' = age + 1
    /\ UNCHANGED <<phase, conn, flags, chars, ble, pcT, link, pairing,
                   secure, radio, gatt, cccd, failed>>

-----------------------------------------------------------------------------
Task ==
    /\ TaskRuns
    /\ \/ Look \/ Pause \/ Scan \/ Secure \/ Discover
       \/ Reconnect \/ TerminateLink \/ ForgetLink \/ Reset \/ Withdraw \/ Settle

GapEvent ==
    \/ on_ble_sync
    \/ TargetFound
    \/ ScanEnds
    \/ Connect
    \/ ConnectFailed
    \/ Disconnected
    \/ LinkSecured
    \/ Encrypted
    \/ EncryptionFailed
    \/ PasskeyAction

GattEvent ==
    \/ \E c \in Chars : Matched(c)
    \/ Discovered
    \/ DiscoveryFailed
    \/ \E c \in Chars, ok \in BOOLEAN : Written(c, ok)

Next ==
    \/ Task
    \/ GapEvent
    \/ GattEvent
    \/ LinkLost
    \/ PromptEnds
    \/ Tick

\* The scheduler runs both tasks; a scan, a connection attempt and a GATT
\* procedure end (timeouts of NimBLE), a link that is being closed or is lost
\* goes down, an encryption procedure ends (timeout of the security manager),
\* and time passes.  That the sensor is found, or the link breaks, is not.
Fairness ==
    /\ WF_vars(Task)
    /\ WF_vars(on_ble_sync)
    /\ WF_vars(ScanEnds)
    /\ WF_vars(Connect \/ ConnectFailed)
    /\ WF_vars(link = "closing" /\ LinkLost)
    /\ WF_vars(Disconnected)
    /\ WF_vars(GattEvent)
    /\ WF_vars(pairing = "running" /\ (LinkSecured \/ EncryptionFailed))
    /\ WF_vars(Encrypted)
    /\ WF_vars(PromptEnds)
    /\ WF_vars(Tick)

Spec == Init /\ [][Next]_vars /\ Fairness

-----------------------------------------------------------------------------
Phases == {"Idle", "Scanning", "Connecting", "Discovering", "Subscribing",
           "Connected", "WaitingReconnect"}

TypeOK ==
    /\ phase \in Phases
    /\ {conn, started, enc, tried, passkey, prompt, seen, ble, secure} \subseteq BOOLEAN
    /\ pairing \in {"no", "running", "done"}
    /\ found \subseteq Chars /\ subscribed \subseteq Chars /\ cccd \subseteq Chars
    /\ failed \subseteq Chars
    /\ index \in 0..N /\ pending \in 0..N
    /\ pcT \in {"look", "pause", "scan", "secure", "discover", "reconnect", "terminate",
               "forget", "reset", "report", "settle"}
    /\ link \in {"down", "up", "closing", "lost"}
    /\ radio \in {"idle", "scan", "connect"}
    /\ gatt \in Seq(Chars \cup {Disc})
    /\ age \in 0..2

\* README of esp32-s3: the sensor's entities are unavailable when the sensor is
\* not connected.  While the relay waits to look for it again, it is reported
\* as not connected.
ReportedAway ==
    phase = "WaitingReconnect" /\ link = "down" => ~ble

\* subscribe_next() skips a characteristic that is flagged as subscribed: the
\* flag must be of this connection, or the sensor never notifies.
FlagsOfThisLink ==
    link = "up" /\ conn => subscribed \subseteq cccd

\* A connection is reported only when every characteristic that was found has
\* been subscribed or its write has failed: none is passed over.
NonePassedOver ==
    phase = "Connected" /\ link = "up" /\ conn => found \subseteq cccd \cup failed

\* README of esp32-s3: a sensor that is switched on is found after one pause
\* and one scan.  Without a connection there is always another scan.
ScansAgain == link = "down" ~> radio = "scan" \/ link = "up"

\* However the two tasks interrupt each other, a report that is wrong is put
\* right by the end of the next scan: schedule_reconnect() runs in full then.
ReportCorrected == (ble /\ link = "down") ~> (~ble \/ link = "up")

\* What the rest of the relay builds on: a reported sensor loses its handles only in
\* a step that withdraws the report as well, or in reconnect_task when it is about to
\* withdraw it, and no report is withdrawn otherwise, however the host task runs
\* between the statements of reconnect_task.
Report == INSTANCE BleReport WITH handles <- found # {}, resetting <- pcT = "report"
ImplementsReport == Report!Spec

\* A connection comes to the end of its setup or is given up.
SetupEnds == link = "up" ~> phase = "Connected" \/ link # "up"
=============================================================================
