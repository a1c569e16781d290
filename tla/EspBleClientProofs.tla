------------------------- MODULE EspBleClientProofs -------------------------
(***************************************************************************)
(* The BLE client of the relay, for any number of characteristics: its     *)
(* variables keep their types and it implements BleReport, however its two *)
(* tasks interrupt each other and whatever NimBLE refuses.  If its         *)
(* handlers are not interrupted, the sensor is reported as away while it   *)
(* waits to scan again, its flags are of the connection that is up, and no *)
(* characteristic is passed over.                                          *)
(***************************************************************************)
EXTENDS EspBleClient, WellFoundedInduction, TLAPS

-----------------------------------------------------------------------------
(***************************************************************************)
(* The next characteristic to subscribe.                                   *)
(***************************************************************************)

\* A set of characteristics that is not empty has a least one.
LEMMA LeastIn ==
    ASSUME NEW S \in SUBSET Chars, S # {}
    PROVE  Least(S) \in S /\ \A d \in S : Least(S) <= d
<1> DEFINE Lt == {p \in Nat \X Nat : p[1] < p[2]}
<1>1. IsWellFoundedOn(Lt, Nat)
    BY NatLessThanWellFounded DEF OpToRel
<1>2. S \subseteq Nat
    BY ClientAssumption DEF Chars
<1> HIDE DEF Lt
<1>3. PICK c \in S : \A d \in S : ~(<<d, c>> \in Lt)
    BY <1>1, <1>2, WFMin, Zenon
<1>4. ASSUME NEW d \in S
      PROVE  c <= d
  <2>1. c \in Nat /\ d \in Nat
      BY <1>2
  <2>2. d < c => <<d, c>> \in Lt
      BY <2>1 DEF Lt
  <2> QED BY <1>3, <2>1, <2>2
<1> QED BY <1>4 DEF Least

\* subscribe_next() asks for a characteristic, or finds none left and reports the
\* connection.
LEMMA SubscribeNextType ==
    ASSUME NEW i \in 0..N, NEW f \in SUBSET Chars, NEW s \in SUBSET Chars,
           NEW rest \in Seq(Chars \cup {Disc}), ble \in BOOLEAN,
           subscribe_next(i, 0, f, s, rest)
    PROVE  /\ phase' \in {"Subscribing", "Connected"}
           /\ index' \in 0..N /\ pending' \in 0..N
           /\ gatt' \in Seq(Chars \cup {Disc})
           /\ ble' = ble \/ (ble' = TRUE /\ phase' = "Connected")
           /\ ble' \in BOOLEAN
<1> DEFINE todo == Unsubscribed(i, f, s)
<1>1. todo \in SUBSET Chars
    BY DEF Unsubscribed
<1>2. N \in Nat /\ N >= 1
    BY ClientAssumption
<1>3. CASE todo # {}
  <2>1. Least(todo) \in Chars
      BY <1>1, <1>3, LeastIn
  <2>2. /\ phase' = "Subscribing" /\ index' = Least(todo) /\ pending' = 0 + 1
        /\ gatt' = Append(rest, Least(todo)) \/ gatt' = rest
        /\ ble' = ble
      BY <1>3, Zenon DEF subscribe_next
  <2> QED BY <1>2, <2>1, <2>2 DEF Chars
<1>4. CASE todo = {}
  <2>1. /\ phase' = "Connected" /\ index' = N /\ pending' = 0
        /\ gatt' = rest /\ ble' = TRUE
      BY <1>4, Zenon DEF subscribe_next
  <2> QED BY <1>2, <2>1
<1> QED BY <1>3, <1>4

-----------------------------------------------------------------------------
(***************************************************************************)
(* Types.                                                                  *)
(***************************************************************************)

\* What schedule_reconnect() leaves of the client's variables.
LEMMA DropType ==
    ASSUME TypeOK, schedule_reconnect \/ Drop
    PROVE  /\ {conn', started', enc', tried', passkey', prompt', seen', ble'} \subseteq BOOLEAN
           /\ found' \subseteq Chars /\ subscribed' \subseteq Chars
           /\ index' \in 0..N /\ pending' \in 0..N
           /\ link' \in {"down", "up", "closing", "lost"}
           /\ schedule_reconnect => phase' \in Phases
BY DEF TypeOK, schedule_reconnect, Drop, Terminate, Forget, ForgetFlags, reset_handles,
       flags, chars, Phases

\* The handlers of GAP events keep the types.
LEMMA GapType == TypeOK /\ GapEvent => TypeOK'
<1> SUFFICES ASSUME TypeOK, GapEvent
             PROVE  TypeOK'
    OBVIOUS
<1> USE DEF Phases
<1>1. CASE on_ble_sync
    BY <1>1, DropType DEF on_ble_sync, TypeOK, chars
<1>2. CASE TargetFound
    BY <1>2 DEF TargetFound, connect_to_target, TypeOK, chars
<1>3. CASE ScanEnds
  <2>1. CASE schedule_reconnect /\ radio' = "idle"
      BY <1>3, <2>1, DropType DEF ScanEnds, TypeOK
  <2>2. CASE ~(schedule_reconnect /\ radio' = "idle")
      BY <1>3, <2>2 DEF ScanEnds, connect_to_target, TypeOK, flags, chars
  <2> QED BY <2>1, <2>2
<1>4. CASE Connect
  <2>1. gatt' \in Seq(Chars \cup {Disc})
      BY <1>4 DEF Connect, TypeOK
  <2>2. secure' \in BOOLEAN
      BY <1>4 DEF Connect, NewLink
  <2>3. phase' \in Phases
      BY <1>4 DEF Connect, TypeOK
  <2>4. /\ conn' \in BOOLEAN /\ started' \in BOOLEAN /\ enc' \in BOOLEAN
        /\ tried' \in BOOLEAN /\ passkey' \in BOOLEAN /\ prompt' \in BOOLEAN
        /\ seen' \in BOOLEAN /\ ble' \in BOOLEAN
      BY <1>4, <2>2 DEF Connect, Fresh, TypeOK
  <2>5. /\ found' \subseteq Chars /\ subscribed' \subseteq Chars
        /\ cccd' \subseteq Chars /\ failed' \subseteq Chars
        /\ index' \in 0..N /\ pending' \in 0..N
        /\ pcT' = pcT /\ radio' = "idle" /\ link' = "up" /\ pairing' = "no"
        /\ age' = 0
      BY <1>4 DEF Connect, NewLink, TypeOK, chars
  <2> QED BY <2>1, <2>2, <2>3, <2>4, <2>5 DEF TypeOK
<1>5. CASE ConnectFailed
    BY <1>5, DropType DEF ConnectFailed, TypeOK
<1>6. CASE Disconnected
    BY <1>6 DEF Disconnected, Forget, ForgetFlags, reset_handles, TypeOK, flags, chars
<1>7. CASE LinkSecured
    BY <1>7 DEF LinkSecured, TypeOK, flags, chars
<1>8. CASE Encrypted
  <2>1. gatt' \in Seq(Chars \cup {Disc})
      BY <1>8 DEF Encrypted, discover_characteristics, Start, TypeOK
  <2>2. started' \in BOOLEAN /\ enc' \in BOOLEAN /\ phase' \in Phases
      BY <1>8 DEF Encrypted, discover_characteristics, TypeOK
  <2> QED BY <1>8, <2>1, <2>2 DEF Encrypted, TypeOK, chars
<1>9. CASE EncryptionFailed
    BY <1>9, DropType DEF EncryptionFailed, TypeOK
<1>10. CASE PasskeyAction
    BY <1>10 DEF PasskeyAction, TypeOK, chars
<1> QED BY <1>1, <1>2, <1>3, <1>4, <1>5, <1>6, <1>7, <1>8, <1>9, <1>10 DEF GapEvent

\* The GATT callbacks keep the types.
LEMMA GattType == TypeOK /\ GattEvent => TypeOK'
<1> SUFFICES ASSUME TypeOK, GattEvent
             PROVE  TypeOK'
    OBVIOUS
<1> USE DEF Phases
<1>0. gatt # <<>> => /\ Tail(gatt) \in Seq(Chars \cup {Disc})
                     /\ Head(gatt) \in Chars \cup {Disc}
    BY DEF TypeOK
<1>1. CASE \E c \in Chars : Matched(c)
    BY <1>1 DEF Matched, TypeOK, flags, nimble
<1>2. CASE Discovered
  <2>1. 0 \in 0..N
      BY ClientAssumption
  <2>2. /\ phase' \in {"Subscribing", "Connected"}
        /\ index' \in 0..N /\ pending' \in 0..N
        /\ gatt' \in Seq(Chars \cup {Disc}) /\ ble' \in BOOLEAN
      BY <1>0, <1>2, <2>1, SubscribeNextType DEF Discovered, TypeOK
  <2> QED BY <1>2, <2>2 DEF Discovered, TypeOK, flags
<1>3. CASE DiscoveryFailed
    BY <1>0, <1>3, DropType DEF DiscoveryFailed, TypeOK
<1>4. ASSUME NEW c \in Chars, NEW ok \in BOOLEAN, Written(c, ok)
      PROVE  TypeOK'
  <2>1. /\ subscribed' \in SUBSET Chars /\ cccd' \subseteq Chars
        /\ failed' \subseteq Chars
      BY <1>4 DEF Written, TypeOK
  <2>2. /\ phase' \in Phases /\ index' \in 0..N /\ pending' \in 0..N
        /\ gatt' \in Seq(Chars \cup {Disc}) /\ ble' \in BOOLEAN
    <3> DEFINE p == IF pending > 0 THEN pending - 1 ELSE 0
    <3>1. p \in 0..N
        BY ClientAssumption DEF TypeOK
    <3>2. CASE p = 0
      <4>1. subscribe_next(index, 0, found, subscribed', Tail(gatt))
          BY <1>4, <3>2 DEF Written
      <4> QED BY <1>0, <1>4, <2>1, <4>1, SubscribeNextType DEF Written, TypeOK
    <3>3. CASE p # 0
        BY <1>0, <1>4, <3>1, <3>3 DEF Written, TypeOK
    <3> QED BY <3>2, <3>3
  <2> QED BY <1>4, <2>1, <2>2 DEF Written, TypeOK, flags
<1> QED BY <1>1, <1>2, <1>3, <1>4 DEF GattEvent

\* The steps of reconnect_task keep the types.
LEMMA TaskType == TypeOK /\ Task => TypeOK'
<1> SUFFICES ASSUME TypeOK, Task
             PROVE  TypeOK'
    OBVIOUS
<1> USE DEF Phases
<1>1. CASE Look
    BY <1>1 DEF Look, TypeOK, flags, chars, nimble
<1>2. CASE Pause
    BY <1>2 DEF Pause, TypeOK, chars, nimble
<1>3. CASE Scan
    BY <1>3 DEF Scan, TypeOK, flags, chars
<1>4. CASE Reconnect \/ ForgetLink \/ Reset \/ Withdraw
    BY <1>4 DEF Reconnect, ForgetLink, Reset, Withdraw, ForgetFlags, reset_handles, TypeOK,
                flags, chars, nimble
<1>5. CASE Settle
    BY <1>5 DEF Settle, TypeOK, flags, chars, nimble
<1>6. CASE Secure
    BY <1>6 DEF Secure, TypeOK, chars
<1>7. CASE Discover
  <2>1. gatt' \in Seq(Chars \cup {Disc})
      BY <1>7 DEF Discover, discover_characteristics, Start, TypeOK
  <2> QED BY <1>7, <2>1 DEF Discover, discover_characteristics, TypeOK, chars
<1>8. CASE TerminateLink
    BY <1>8 DEF TerminateLink, Terminate, TypeOK, flags, chars
<1> QED BY <1>1, <1>2, <1>3, <1>4, <1>5, <1>6, <1>7, <1>8 DEF Task

\* Every step keeps the types.
LEMMA StepType == TypeOK /\ [Next]_vars => TypeOK'
<1> SUFFICES ASSUME TypeOK, [Next]_vars
             PROVE  TypeOK'
    OBVIOUS
<1>1. CASE LinkLost
    BY <1>1 DEF LinkLost, TypeOK, flags, chars
<1>2. CASE PromptEnds
    BY <1>2 DEF PromptEnds, TypeOK, chars, nimble
<1>3. CASE Tick
    BY <1>3 DEF Tick, TypeOK, flags, chars
<1>4. CASE UNCHANGED vars
    BY <1>4 DEF vars, TypeOK, flags, chars, nimble
<1> QED BY <1>1, <1>2, <1>3, <1>4, GapType, GattType, TaskType DEF Next

\* The client starts with every variable in its type.
LEMMA InitType == Init => TypeOK
<1> SUFFICES ASSUME Init
             PROVE  TypeOK
    OBVIOUS
<1>1. /\ {conn, started, enc, tried, passkey, prompt, seen, ble, secure} \subseteq BOOLEAN
      /\ found \subseteq Chars /\ subscribed \subseteq Chars
      /\ cccd \subseteq Chars /\ failed \subseteq Chars
    BY DEF Init
<1>2. index \in 0..N /\ pending \in 0..N /\ age \in 0..2
    BY ClientAssumption DEF Init
<1>3. gatt \in Seq(Chars \cup {Disc})
    BY DEF Init
<1>4. phase \in Phases /\ pcT = "look" /\ link = "down" /\ pairing = "no" /\ radio = "idle"
    BY DEF Init, Phases
<1> QED BY <1>1, <1>2, <1>3, <1>4 DEF TypeOK

\* Every reachable state of the client is typed: no index and no queue leaves its
\* range, for any number of characteristics and with any preemption.
THEOREM TypeCorrect == Spec => []TypeOK
<1> QED BY InitType, StepType, PTL DEF Spec

-----------------------------------------------------------------------------
(***************************************************************************)
(* BleReport.                                                              *)
(***************************************************************************)

\* What a step may do to the handles and the report.
Resetting == pcT = "report"
Abstract == [Report!Next]_<<found # {}, ble, Resetting>>

\* Handles and report are left as they are, and so is the place of reconnect_task
\* between the two.
LEMMA SameReport == UNCHANGED <<found, ble, Resetting>> => Abstract
BY DEF Abstract, Resetting

\* They are forgotten together by the host task.
LEMMA Forgotten ==
    ASSUME TypeOK, schedule_reconnect \/ Drop \/ Forget, pcT' = pcT
    PROVE  Abstract
<1> USE DEF Resetting
<1>1. CASE UNCHANGED <<found, ble>>
    BY <1>1, SameReport
<1>2. CASE found' = {} /\ ble' = FALSE
    BY <1>2 DEF Abstract, Report!Next, Report!Forget, TypeOK
<1> QED BY <1>1, <1>2 DEF schedule_reconnect, Drop, Forget, reset_handles, chars

\* The end of the setup is the only step that reports a connection.
LEMMA Finished ==
    ASSUME TypeOK, found' = found, ble' = TRUE, pcT' = pcT
    PROVE  Abstract
BY DEF Abstract, Resetting, Report!Next, Report!Finish, TypeOK

\* reconnect_task forgets the handles first and withdraws the report next.
LEMMA TaskReports ==
    ASSUME TypeOK, Reset \/ Withdraw
    PROVE  Abstract
<1>1. CASE Reset
    BY <1>1 DEF Reset, reset_handles, Abstract, Resetting, Report!Next, Report!Reset
<1>2. CASE Withdraw
    BY <1>2 DEF Withdraw, chars, Abstract, Resetting, Report!Next, Report!Withdraw
<1> QED BY <1>1, <1>2

\* Every step of the client is one of BleReport or leaves what it sees unchanged.
LEMMA ReportStep == TypeOK /\ [Next]_vars => Abstract
<1> SUFFICES ASSUME TypeOK, [Next]_vars
             PROVE  Abstract
    OBVIOUS
<1>1. CASE \E c \in Chars : Matched(c)
    BY <1>1 DEF Matched, Abstract, Resetting, Report!Next, Report!Match
<1>2. ASSUME NEW i, NEW q, NEW f, NEW s, NEW rest,
             subscribe_next(i, q, f, s, rest), found' = found, pcT' = pcT
      PROVE  Abstract
    BY <1>2, SameReport, Finished DEF subscribe_next, Resetting
<1>3. CASE Discovered
    BY <1>2, <1>3 DEF Discovered
<1>4. ASSUME NEW c \in Chars, NEW ok \in BOOLEAN, Written(c, ok)
      PROVE  Abstract
    BY <1>2, <1>4, SameReport DEF Written, Resetting
<1>5. CASE DiscoveryFailed
    BY <1>5, Forgotten DEF DiscoveryFailed
<1>6. CASE GapEvent
    BY <1>6, Forgotten, SameReport
       DEF GapEvent, on_ble_sync, TargetFound, ScanEnds, Connect, ConnectFailed,
           Disconnected, LinkSecured, Encrypted, EncryptionFailed, PasskeyAction, chars,
           Resetting
<1>7. CASE Task
    BY <1>7, TaskReports, SameReport
       DEF Task, Look, Pause, Scan, Reconnect, TerminateLink, ForgetLink, Settle, Secure,
           Discover, chars, Resetting
<1>8. CASE LinkLost \/ PromptEnds \/ Tick \/ UNCHANGED vars
    BY <1>8, SameReport DEF LinkLost, PromptEnds, Tick, vars, chars, Resetting
<1> QED BY <1>1, <1>3, <1>4, <1>5, <1>6, <1>7, <1>8 DEF Next, GattEvent

\* The client implements BleReport, on which the relay is built: whatever the host
\* task does between the statements of reconnect_task, the handles are forgotten with
\* the report or before its withdrawal by reconnect_task, and no other step forgets or
\* withdraws anything.
THEOREM Refinement == Spec => ImplementsReport
<1>1. Init => Report!Init
    BY DEF Init, Report!Init
<1>2. TypeOK /\ [Next]_vars => [Report!Next]_<<found # {}, ble, pcT = "report">>
    BY ReportStep DEF Abstract, Resetting
<1> QED BY <1>1, <1>2, TypeCorrect, PTL DEF Spec, ImplementsReport, Report!Spec

-----------------------------------------------------------------------------
(***************************************************************************)
(* ReportedAway, when the handlers of the host task are not interrupted.   *)
(***************************************************************************)

\* The report is taken back before the phase is set, and nothing runs in between.
AwayInv == (phase = "WaitingReconnect" \/ pcT = "settle") => ble = FALSE

\* The end of schedule_reconnect() finds the report taken back; a connection is
\* reported together with the phase Connected, and never before that end.
LEMMA AwayStep ==
    ASSUME Preemption = FALSE, AwayInv, [Next]_vars
    PROVE  AwayInv'
<1> USE DEF AwayInv
<1>1. ASSUME NEW i, NEW q, NEW f, NEW s, NEW rest,
             subscribe_next(i, q, f, s, rest), pcT' = pcT, pcT # "settle"
      PROVE  AwayInv'
    BY <1>1 DEF subscribe_next
<1>2. CASE GattEvent
    BY <1>1, <1>2 DEF GattEvent, Matched, Discovered, DiscoveryFailed, Written, HostRuns,
                      schedule_reconnect, Drop, Forget, chars, nimble
<1>3. CASE GapEvent
    BY <1>3 DEF GapEvent, on_ble_sync, TargetFound, ScanEnds, Connect, ConnectFailed,
                Disconnected, LinkSecured, Encrypted, EncryptionFailed, PasskeyAction,
                connect_to_target, discover_characteristics,
                schedule_reconnect, Drop, Forget
<1>4. CASE Task
    BY <1>4 DEF Task, Look, Pause, Scan, Reconnect, TerminateLink, ForgetLink, Reset,
                Withdraw, Settle, Secure, Discover, discover_characteristics
<1>5. CASE LinkLost \/ PromptEnds \/ Tick \/ UNCHANGED vars
    BY <1>5 DEF LinkLost, PromptEnds, Tick, vars
<1> QED BY <1>2, <1>3, <1>4, <1>5 DEF Next

\* While the relay waits to look for the sensor again it is reported as not
\* connected, for any number of characteristics and whatever NimBLE refuses, if
\* the host task does not run between two steps of reconnect_task.
THEOREM Away ==
    ASSUME Preemption = FALSE
    PROVE  Spec => []ReportedAway
<1>1. Init => AwayInv
    BY DEF Init, AwayInv
<1>2. AwayInv /\ [Next]_vars => AwayInv'
    BY AwayStep
<1>3. AwayInv => ReportedAway
    BY DEF AwayInv, ReportedAway
<1> QED BY <1>1, <1>2, <1>3, PTL DEF Spec

-----------------------------------------------------------------------------
(***************************************************************************)
(* FlagsOfThisLink and NonePassedOver, when the handlers of the host task  *)
(* are not interrupted.                                                    *)
(***************************************************************************)

\* A write is answered before the next one is asked for.
OneWrite == pending \in {0, 1}

\* The flags are forgotten before the phase is set.
Cleared == phase = "WaitingReconnect" \/ pcT \in {"report", "settle"} => subscribed = {}

\* A link that is down has left no flag, no procedure and no handle.
DownEmpty == link = "down" => subscribed = {} /\ gatt = <<>> /\ ~conn

\* What is flagged is notified, on this link.
Flagged == subscribed \subseteq cccd

\* While the sensor is being connected to nothing else is under way.
Dialling ==
    radio = "connect"
        => phase = "Connecting" /\ link = "down" /\ pcT \in {"look", "pause"}

\* What reconnect_task has found when it was not interrupted.
TaskKnows ==
    /\ pcT \in {"forget", "reset", "report", "settle"} => ~conn
    /\ pcT = "discover" => ~started
    /\ pairing = "done" => pcT \in {"look", "pause"}

LInv == OneWrite /\ Cleared /\ DownEmpty /\ Flagged /\ Dialling /\ TaskKnows

\* The setup of a connection: one discovery, then one write after the other, and
\* nothing in found is passed over on the way.  It has not begun, or has come to a
\* stop with a procedure that NimBLE refused, when no procedure runs.
NoneRuns == gatt = <<>> /\ phase # "Connected"
BeingDiscovered == started /\ gatt = <<Disc>> /\ phase = "Discovering"
BeingWritten ==
    /\ started /\ phase = "Subscribing"
    /\ index \in Chars /\ gatt = <<index>>
    /\ \A c \in found : c < index => c \in cccd \cup failed
SetUp == started /\ gatt = <<>> /\ phase = "Connected" /\ found \subseteq cccd \cup failed

InSetup ==
    link = "up" /\ conn => NoneRuns \/ BeingDiscovered \/ BeingWritten \/ SetUp

\* What subscribe_next() does when no write is under way.
LEMMA NextWrite ==
    ASSUME NEW i \in 0..N, NEW f \in SUBSET Chars, NEW s \in SUBSET Chars, NEW rest,
           subscribe_next(i, 0, f, s, rest)
    PROVE  /\ pending' \in {0, 1}
           /\ phase' \in {"Subscribing", "Connected"}
<1>1. CASE Unsubscribed(i, f, s) # {}
    BY <1>1 DEF subscribe_next
<1>2. CASE Unsubscribed(i, f, s) = {}
    BY <1>2 DEF subscribe_next
<1> QED BY <1>1, <1>2

\* schedule_reconnect() leaves no flag.
LEMMA DropsFlags ==
    ASSUME TypeOK, LInv, schedule_reconnect \/ Drop
    PROVE  /\ subscribed' = {} /\ pending' = pending
           /\ link' \in {link, "closing"} /\ (link = "down" <=> link' = "down")
           /\ conn' => conn
           /\ started' => started
           /\ Drop => ~conn'
           /\ schedule_reconnect => phase' = "WaitingReconnect"
BY DEF TypeOK, LInv, Cleared, schedule_reconnect, Drop, Terminate, Forget, ForgetFlags,
       reset_handles, flags, chars

\* The events of the GAP procedures keep LInv.
LEMMA GapLink ==
    ASSUME Preemption = FALSE, TypeOK, LInv, GapEvent
    PROVE  LInv'
<1> USE DEF LInv, OneWrite, Cleared, DownEmpty, Flagged, Dialling, TaskKnows
<1>1. CASE on_ble_sync
    BY <1>1, DropsFlags DEF on_ble_sync, HostRuns, chars, TypeOK
<1>2. CASE TargetFound
    BY <1>2 DEF TargetFound, HostRuns, connect_to_target, chars
<1>3. CASE ScanEnds
  <2>1. CASE schedule_reconnect /\ radio' = "idle"
      BY <1>3, <2>1, DropsFlags DEF ScanEnds, HostRuns
  <2>2. CASE ~(schedule_reconnect /\ radio' = "idle")
      BY <1>3, <2>2 DEF ScanEnds, HostRuns, connect_to_target, flags, chars
  <2> QED BY <2>1, <2>2
<1>4. CASE Connect
    BY <1>4 DEF Connect, HostRuns, NewLink, chars
<1>5. CASE ConnectFailed
    BY <1>5, DropsFlags DEF ConnectFailed, HostRuns
<1>6. CASE Disconnected
    BY <1>6 DEF Disconnected, HostRuns, Forget, ForgetFlags, reset_handles, flags, chars
<1>7. CASE LinkSecured
    BY <1>7 DEF LinkSecured, HostRuns, flags, chars
<1>8. CASE Encrypted
    BY <1>8 DEF Encrypted, discover_characteristics, Start, chars
<1>9. CASE EncryptionFailed
    BY <1>9, DropsFlags DEF EncryptionFailed, HostRuns
<1>10. CASE PasskeyAction
    BY <1>10 DEF PasskeyAction, HostRuns, chars
<1> QED BY <1>1, <1>2, <1>3, <1>4, <1>5, <1>6, <1>7, <1>8, <1>9, <1>10 DEF GapEvent

\* The callbacks of the GATT procedures keep LInv.
LEMMA GattLink ==
    ASSUME Preemption = FALSE, TypeOK, LInv, GattEvent
    PROVE  LInv'
<1> USE DEF LInv, OneWrite, Cleared, DownEmpty, Flagged, Dialling, TaskKnows
<1>0. N \in Nat /\ 0 \in 0..N
    BY ClientAssumption
<1>1. CASE \E c \in Chars : Matched(c)
    BY <1>1 DEF Matched, HostRuns, flags, nimble
<1>2. CASE Discovered
  <2>1. pending' \in {0, 1} /\ phase' \in {"Subscribing", "Connected"}
      BY <1>0, <1>2, NextWrite DEF Discovered, TypeOK
  <2> QED BY <1>2, <2>1 DEF Discovered, HostRuns, flags
<1>3. CASE DiscoveryFailed
    BY <1>3, DropsFlags DEF DiscoveryFailed, HostRuns
<1>4. ASSUME NEW c \in Chars, NEW ok \in BOOLEAN, Written(c, ok)
      PROVE  LInv'
  <2>1. subscribe_next(index, 0, found, subscribed', Tail(gatt))
      BY <1>4 DEF Written
  <2>2. subscribed' \in SUBSET Chars
      BY <1>4 DEF Written, TypeOK
  <2>3. pending' \in {0, 1} /\ phase' \in {"Subscribing", "Connected"}
      BY <2>1, <2>2, NextWrite DEF TypeOK
  <2>4. subscribed' \subseteq cccd'
      BY <1>4 DEF Written
  <2> QED BY <1>4, <2>3, <2>4 DEF Written, HostRuns, flags
<1> QED BY <1>1, <1>2, <1>3, <1>4 DEF GattEvent

\* So does every step.
LEMMA LinkStep ==
    ASSUME Preemption = FALSE, TypeOK, LInv, [Next]_vars
    PROVE  LInv'
<1> USE DEF LInv, OneWrite, Cleared, DownEmpty, Flagged, Dialling, TaskKnows
<1>1. CASE Task
  <2>0. pairing # "done"
      BY <1>1 DEF Task, TaskRuns
  <2>1. CASE Look
      BY <2>0, <2>1 DEF Look, AwaitsSecurity, flags, chars, nimble
  <2>2. CASE Pause
      BY <2>0, <2>2 DEF Pause, chars, nimble
  <2>3. CASE Scan
      BY <2>0, <2>3 DEF Scan, flags, chars
  <2>4. CASE Reconnect \/ ForgetLink \/ Reset \/ Withdraw
      BY <2>0, <2>4 DEF Reconnect, ForgetLink, Reset, Withdraw, ForgetFlags, reset_handles,
                        flags, chars, nimble
  <2>5. CASE Settle
      BY <2>0, <2>5 DEF Settle, flags, chars, nimble
  <2>6. CASE Secure
      BY <2>0, <2>6 DEF Secure, chars
  <2>7. CASE Discover
      BY <2>0, <2>7 DEF Discover, discover_characteristics, Start, chars
  <2>8. CASE TerminateLink
      BY <2>0, <2>8 DEF TerminateLink, Terminate, flags, chars
  <2> QED BY <1>1, <2>1, <2>2, <2>3, <2>4, <2>5, <2>6, <2>7, <2>8 DEF Task
<1>2. CASE LinkLost
    BY <1>2 DEF LinkLost, flags, chars
<1>3. CASE PromptEnds
    BY <1>3 DEF PromptEnds, chars, nimble
<1>4. CASE Tick
    BY <1>4 DEF Tick, flags, chars
<1>5. CASE UNCHANGED vars
    BY <1>5 DEF vars, flags, chars, nimble
<1> QED BY <1>1, <1>2, <1>3, <1>4, <1>5, GapLink, GattLink DEF Next

\* The flags that subscribe_next() goes by are of this connection, for any number of
\* characteristics and whatever NimBLE refuses, if the host task does not run between
\* two steps of reconnect_task.
THEOREM FlagsOfLink ==
    ASSUME Preemption = FALSE
    PROVE  Spec => []FlagsOfThisLink
<1>1. Init => LInv
    BY DEF Init, LInv, OneWrite, Cleared, DownEmpty, Flagged, Dialling, TaskKnows
<1>2. TypeOK /\ LInv /\ [Next]_vars => LInv'
    BY LinkStep
<1>3. LInv => FlagsOfThisLink
    BY DEF LInv, Flagged, FlagsOfThisLink
<1> QED BY <1>1, <1>2, <1>3, TypeCorrect, PTL DEF Spec

\* subscribe_next() asks for the write of the first characteristic that is not
\* flagged, which may be refused, or finds every one of them treated.
LEMMA NextInOrder ==
    ASSUME NEW i \in 0..N, NEW f \in SUBSET Chars, NEW s \in SUBSET Chars,
           s \subseteq cccd', \A c \in f : c <= i => c \in cccd' \cup failed',
           subscribe_next(i, 0, f, s, <<>>)
    PROVE  \/ phase' = "Subscribing" /\ gatt' = <<>>
           \/ /\ phase' = "Subscribing"
              /\ index' \in Chars /\ gatt' = <<index'>>
              /\ \A c \in f : c < index' => c \in cccd' \cup failed'
           \/ phase' = "Connected" /\ gatt' = <<>> /\ f \subseteq cccd' \cup failed'
<1> DEFINE todo == Unsubscribed(i, f, s)
<1>0. N \in Nat /\ Chars \subseteq Nat /\ i \in Nat
    BY ClientAssumption DEF Chars
<1>1. todo \in SUBSET Chars
    BY DEF Unsubscribed
<1>2. ASSUME NEW c \in f, c \notin todo
      PROVE  c \in cccd' \cup failed'
    BY <1>0, <1>2 DEF Unsubscribed
<1>3. CASE todo # {}
  <2>1. Least(todo) \in todo /\ \A d \in todo : Least(todo) <= d
      BY <1>1, <1>3, LeastIn
  <2>2. phase' = "Subscribing" /\ index' = Least(todo) /\ gatt' \in {<<>>, Append(<<>>, index')}
      BY <1>3 DEF subscribe_next
  <2>3. ASSUME NEW c \in f, c < index'
        PROVE  c \in cccd' \cup failed'
    <3>1. c \in Nat /\ index' \in Nat /\ (c \in todo => index' <= c)
        BY <1>0, <1>1, <2>1, <2>2
    <3>2. c \notin todo
        BY <2>3, <3>1
    <3> QED BY <1>2, <3>2
  <2>4. index' \in Chars /\ gatt' \in {<<>>, <<index'>>}
      BY <1>1, <2>1, <2>2
  <2> QED BY <2>2, <2>3, <2>4
<1>4. CASE todo = {}
  <2>1. phase' = "Connected" /\ gatt' = <<>>
      BY <1>4 DEF subscribe_next
  <2> QED BY <1>2, <1>4, <2>1
<1> QED BY <1>3, <1>4

\* The connection that a step finds up was being set up, was set up, or is new.
LEMMA GapSetup ==
    ASSUME Preemption = FALSE, TypeOK, LInv, InSetup, GapEvent
    PROVE  InSetup'
<1> SUFFICES ASSUME link' = "up", conn'
             PROVE  (NoneRuns \/ BeingDiscovered \/ BeingWritten \/ SetUp)'
    BY DEF InSetup
<1> USE DEF NoneRuns, BeingDiscovered, BeingWritten, SetUp
<1>1. CASE on_ble_sync
    BY <1>1 DEF on_ble_sync, InSetup, Drop, Terminate, chars
<1>2. CASE TargetFound
    BY <1>2 DEF TargetFound, connect_to_target, InSetup, chars
<1>3. CASE ScanEnds
    BY <1>3 DEF ScanEnds, connect_to_target, schedule_reconnect, Drop, Terminate, InSetup, flags, chars
<1>4. CASE Connect
  <2>1. gatt = <<>> /\ phase = "Connecting"
      BY <1>4 DEF Connect, LInv, DownEmpty, Dialling
  <2>2. Append(<<>>, Disc) = <<Disc>>
      OBVIOUS
  <2> QED BY <1>4, <2>1, <2>2 DEF Connect, NewLink, chars
<1>5. CASE ConnectFailed
    BY <1>5 DEF ConnectFailed, schedule_reconnect, Drop, Terminate, InSetup, LInv, Dialling, DownEmpty
<1>6. CASE Disconnected
    BY <1>6 DEF Disconnected
<1>7. CASE LinkSecured
    BY <1>7 DEF LinkSecured, InSetup, flags, chars
<1>8. CASE Encrypted
  <2>1. link = "up" /\ conn
      BY <1>8 DEF Encrypted
  <2>2. Append(<<>>, Disc) = <<Disc>>
      OBVIOUS
  <2> QED BY <1>8, <2>1, <2>2 DEF Encrypted, discover_characteristics, Start, InSetup, chars
<1>9. CASE EncryptionFailed
    BY <1>9 DEF EncryptionFailed, schedule_reconnect, Drop, Terminate, InSetup, flags, chars
<1>10. CASE PasskeyAction
    BY <1>10 DEF PasskeyAction, InSetup, chars
<1> QED BY <1>1, <1>2, <1>3, <1>4, <1>5, <1>6, <1>7, <1>8, <1>9, <1>10 DEF GapEvent

\* The callbacks go from the discovery to the first write, from one write to the
\* next, and from the last one to the end of the setup.
LEMMA GattSetup ==
    ASSUME Preemption = FALSE, TypeOK, LInv, InSetup, GattEvent
    PROVE  InSetup'
<1> SUFFICES ASSUME link' = "up", conn'
             PROVE  (NoneRuns \/ BeingDiscovered \/ BeingWritten \/ SetUp)'
    BY DEF InSetup
<1>0. N \in Nat /\ Chars \subseteq Nat /\ 0 \in 0..N /\ Disc \notin Chars
    BY ClientAssumption DEF Chars, Disc
<1>1. ASSUME NEW c \in Chars, Matched(c)
      PROVE  BeingDiscovered'
    BY <1>0, <1>1 DEF Matched, InSetup, NoneRuns, BeingDiscovered, BeingWritten, SetUp,
                      flags, nimble
<1>2. CASE Discovered
  <2>1. link = "up" /\ conn /\ started' = started
      BY <1>2 DEF Discovered, flags
  <2>2. started /\ gatt = <<Disc>>
      BY <1>0, <1>2, <2>1 DEF Discovered, InSetup, NoneRuns, BeingDiscovered,
                              BeingWritten, SetUp
  <2>3. subscribe_next(0, 0, found, subscribed, <<>>)
      BY <1>2, <2>2 DEF Discovered
  <2>4. /\ found \in SUBSET Chars /\ subscribed \in SUBSET Chars
        /\ subscribed \subseteq cccd'
        /\ found' = found
      BY <1>2 DEF Discovered, TypeOK, LInv, Flagged
  <2>5. \A c \in found : c <= 0 => c \in cccd' \cup failed'
      BY <2>4 DEF Chars
  <2> QED BY <1>0, <2>1, <2>2, <2>3, <2>4, <2>5, NextInOrder DEF NoneRuns, BeingWritten, SetUp
<1>3. CASE DiscoveryFailed
    BY <1>0, <1>3 DEF DiscoveryFailed, schedule_reconnect, Drop, Terminate, InSetup, NoneRuns,
                      BeingDiscovered, BeingWritten, SetUp
<1>4. ASSUME NEW c \in Chars, NEW ok \in BOOLEAN, Written(c, ok)
      PROVE  (NoneRuns \/ BeingWritten \/ SetUp)'
  <2>1. link = "up" /\ conn /\ started' = started /\ found' = found
      BY <1>4 DEF Written, flags
  <2>2. BeingWritten /\ index = c /\ gatt = <<c>>
      BY <1>0, <1>4, <2>1 DEF Written, InSetup, NoneRuns, BeingDiscovered,
                              BeingWritten, SetUp
  <2>3. subscribe_next(index, 0, found, subscribed', <<>>)
      BY <1>4, <2>2 DEF Written, LInv, OneWrite
  <2>4. /\ found \in SUBSET Chars /\ subscribed' \in SUBSET Chars
        /\ subscribed' \subseteq cccd' /\ index \in 0..N
      BY <1>4 DEF Written, TypeOK, LInv, Flagged
  <2>5. cccd' \cup failed' = (cccd \cup failed) \cup {c}
      BY <1>4 DEF Written
  <2>6. ASSUME NEW d \in found, d <= index
        PROVE  d \in cccd' \cup failed'
    <3>1. d = index \/ d < index
        BY <1>0, <2>4, <2>6
    <3> QED BY <2>2, <2>5, <3>1 DEF BeingWritten
  <2> QED BY <2>1, <2>2, <2>3, <2>4, <2>6, NextInOrder DEF NoneRuns, BeingWritten, SetUp
<1> QED BY <1>1, <1>2, <1>3, <1>4 DEF GattEvent

\* So does every step.
LEMMA SetupStep ==
    ASSUME Preemption = FALSE, TypeOK, LInv, InSetup, [Next]_vars
    PROVE  InSetup'
<1> SUFFICES ASSUME link' = "up", conn', ~GapEvent, ~GattEvent
             PROVE  (NoneRuns \/ BeingDiscovered \/ BeingWritten \/ SetUp)'
    BY GapSetup, GattSetup DEF InSetup
<1> USE DEF NoneRuns, BeingDiscovered, BeingWritten, SetUp, InSetup
<1>1. CASE Task
  <2>1. CASE Look
      BY <2>1 DEF Look, flags, chars, nimble
  <2>2. CASE Pause
      BY <2>2 DEF Pause, chars, nimble
  <2>3. CASE Scan
      BY <2>3 DEF Scan, flags, chars
  <2>4. CASE Reconnect
      BY <2>4 DEF Reconnect, flags, chars, nimble
  <2>5. CASE ForgetLink \/ Reset \/ Withdraw \/ Settle
      BY <2>5 DEF ForgetLink, Reset, Withdraw, Settle, LInv, TaskKnows
  <2>6. CASE Secure
      BY <2>6 DEF Secure, chars
  <2>7. CASE Discover
    <3>1. NoneRuns /\ ~started
        BY <2>7 DEF Discover, LInv, TaskKnows
    <3>2. Append(<<>>, Disc) = <<Disc>>
        OBVIOUS
    <3> QED BY <2>7, <3>1, <3>2 DEF Discover, discover_characteristics, Start
  <2>8. CASE TerminateLink
      BY <2>8 DEF TerminateLink, Terminate
  <2> QED BY <1>1, <2>1, <2>2, <2>3, <2>4, <2>5, <2>6, <2>7, <2>8 DEF Task
<1>2. CASE LinkLost
    BY <1>2 DEF LinkLost
<1>3. CASE PromptEnds
    BY <1>3 DEF PromptEnds, chars, nimble
<1>4. CASE Tick
    BY <1>4 DEF Tick, flags, chars
<1>5. CASE UNCHANGED vars
    BY <1>5 DEF vars, flags, chars, nimble
<1> QED BY <1>1, <1>2, <1>3, <1>4, <1>5 DEF Next

\* A connection is reported only when every characteristic that was found has been
\* subscribed or its write has failed, for any number of characteristics and whatever
\* NimBLE refuses, if the host task does not run between two steps of reconnect_task.
THEOREM NothingPassedOver ==
    ASSUME Preemption = FALSE
    PROVE  Spec => []NonePassedOver
<1>1. Init => LInv /\ InSetup
    BY DEF Init, LInv, OneWrite, Cleared, DownEmpty, Flagged, Dialling, TaskKnows, InSetup
<1>2. TypeOK /\ LInv /\ InSetup /\ [Next]_vars => LInv' /\ InSetup'
    BY LinkStep, SetupStep
<1>3. InSetup => NonePassedOver
    BY DEF InSetup, NonePassedOver, NoneRuns, BeingDiscovered, BeingWritten, SetUp
<1> QED BY <1>1, <1>2, <1>3, TypeCorrect, PTL DEF Spec
=============================================================================
