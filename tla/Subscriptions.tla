---------------------------- MODULE Subscriptions ----------------------------
(***************************************************************************)
(* Who is subscribed, in memory and in config.json, what the users are     *)
(* told, and who receives an alert: app_config.py, the commands and        *)
(* notify_subscribers() of xmpp_bot.py, and the callbacks of main.py.      *)
(*                                                                         *)
(* Every message of a user is handled by a coroutine of its own (Handlers) *)
(* and every alert is sent by one (Alerts); each await is a cut.  Writing  *)
(* config.json blocks the loop, so that only a crash can come between its  *)
(* truncation and its contents.  The orchestrator is an await that ends or *)
(* raises, and remembers what it was asked for last: BleOrchestrator says  *)
(* what it does.                                                           *)
(***************************************************************************)
EXTENDS Integers, Sequences, FiniteSets

CONSTANTS
    Users,      \* bare addresses, as _normalize_jid() returns them
    Handlers,   \* bounds the messages being handled at a time
    Alerts,     \* bounds the alerts being sent at a time
    Torn        \* the contents of a config.json that was truncated

Members(list) == {list[i] : i \in DOMAIN list}

Distinct(list) == \A i, j \in DOMAIN list : list[i] = list[j] => i = j

\* A list without repetition, which is what the two commands produce.
Lists == {list \in UNION {[1..n -> Users] : n \in 0..Cardinality(Users)} : Distinct(list)}

ASSUME SubscriptionsAssumption == IsFiniteSet(Users) /\ Torn \notin Seq(Users)

VARIABLES
    up,            \* the process runs
    subscribers,   \* app_config.subscribers; of the last process if none runs
    disk,          \* the list in config.json, or Torn
    synced,        \* run() has called sync()
    asked,         \* what the orchestrator was asked for last: TRUE to monitor
    at,            \* where each handler is: "idle", "decrypt", "call" or "reply"
    who,           \* the user whose message it handles
    answer,        \* what it will answer: TRUE for "subscribed"
    alert,         \* of each alert: at, "idle", "raised" or "walking"; own, whether
                   \* a task of its own sends it; the part of the copied list that
                   \* is left; history: the whole of it, and who has been tried
    told,          \* history: the last answer to each user's last message, or "none"
    overlap,       \* history: users with a message in hand when another one came
    unsaved,       \* history: the last save failed
    uncalled       \* history: a save failed where the orchestrator was to be called

store == <<up, subscribers, disk, synced, asked>>
handling == <<at, who, answer>>
history == <<told, overlap, unsaved, uncalled>>
vars == <<store, handling, alert, history>>

NoAlert == [at |-> "idle", own |-> FALSE, left |-> <<>>, audience |-> {}, tried |-> {}]

\* notify_subscribers() has copied the list.
Walk(own) == [at |-> "walking", own |-> own, left |-> subscribers,
              audience |-> Members(subscribers), tried |-> {}]

\* A configuration written by hand, with anyone in its list.
Init ==
    /\ up = FALSE /\ synced = FALSE
    /\ disk \in Lists /\ subscribers = disk
    /\ asked = FALSE
    /\ at = [h \in Handlers |-> "idle"]
    /\ who \in [Handlers -> Users]
    /\ \A g, h \in Handlers : who[g] = who[h]
    /\ answer = [h \in Handlers |-> FALSE]
    /\ alert = [a \in Alerts |-> NoAlert]
    /\ told = [u \in Users |-> "none"]
    /\ overlap = {}
    /\ unsaved = FALSE /\ uncalled = FALSE

-----------------------------------------------------------------------------
(***************************************************************************)
(* AppConfig and the start of the program.                                 *)
(***************************************************************************)

\* AppConfig.load(), which fails on a torn file, and a new orchestrator.
Boot ==
    /\ ~up /\ disk # Torn
    /\ up' = TRUE /\ synced' = FALSE
    /\ subscribers' = disk
    /\ asked' = FALSE
    /\ UNCHANGED <<disk, handling, alert, history>>

\* The bot is ready, and may have handled messages before it was: sync() asks for
\* what the list says.
Synced ==
    /\ up /\ ~synced
    /\ synced' = TRUE
    /\ asked' = (subscribers # <<>>)
    /\ uncalled' = FALSE
    /\ UNCHANGED <<up, subscribers, disk, handling, alert, told, overlap, unsaved>>

\* What a new process does not have.
Ended ==
    /\ up' = FALSE /\ synced' = FALSE /\ asked' = FALSE
    /\ at' = [h \in Handlers |-> "idle"]
    /\ answer' = [h \in Handlers |-> FALSE]
    /\ alert' = [a \in Alerts |-> NoAlert]
    /\ unsaved' = FALSE /\ uncalled' = FALSE
    /\ UNCHANGED <<who, overlap>>

Forgotten == told' = [u \in Users |-> "none"]

\* What was said of a list that could not be saved does not outlive the process.
Crash ==
    /\ up
    /\ Ended
    /\ IF unsaved THEN Forgotten ELSE UNCHANGED told
    /\ UNCHANGED <<subscribers, disk>>

\* Someone repairs config.json, with any list.
Repaired ==
    /\ ~up /\ disk = Torn
    /\ disk' \in Lists
    /\ UNCHANGED <<up, subscribers, synced, asked, handling, alert, history>>

\* Slip: the old contents survive what save() writes.
Kept(list) == disk' = disk /\ unsaved' = FALSE

\* save() succeeds, or raises before or after the truncation.
Saved(list) == disk' = list /\ unsaved' = FALSE
SaveFails == disk' \in {disk, Torn} /\ unsaved' = TRUE

\* list.remove(), of somebody who is in it.
Without(list, u) ==
    LET k == CHOOSE i \in DOMAIN list : list[i] = u
    IN  [i \in 1..(Len(list) - 1) |-> IF i < k THEN list[i] ELSE list[i + 1]]

-----------------------------------------------------------------------------
(***************************************************************************)
(* The commands.                                                           *)
(***************************************************************************)

\* _on_message() up to the decryption.
Arrives(h, u) ==
    /\ up /\ at[h] = "idle"
    /\ at' = [at EXCEPT ![h] = "decrypt"]
    /\ who' = [who EXCEPT ![h] = u]
    /\ told' = [told EXCEPT ![u] = "none"]
    /\ overlap' = IF \E g \in Handlers : at[g] # "idle" /\ who[g] = u
                    THEN overlap \cup {u} ELSE overlap \ {u}
    /\ UNCHANGED <<store, answer, alert, unsaved, uncalled>>

\* A message that cannot be decrypted, or is no command, is dropped.
Dropped(h) ==
    /\ up /\ at[h] = "decrypt"
    /\ at' = [at EXCEPT ![h] = "idle"]
    /\ UNCHANGED <<store, who, answer, alert, history>>

\* The handler goes on to call the orchestrator, or at once to its answer; or
\* the save raises, and the handler ends without either.
Changed(h, list, calls, wanted) ==
    /\ subscribers' = list
    /\ answer' = [answer EXCEPT ![h] = wanted]
    /\ \/ /\ Saved(list)
          /\ at' = [at EXCEPT ![h] = IF calls THEN "call" ELSE "reply"]
          /\ asked' = IF calls THEN wanted ELSE asked
          /\ uncalled' = (uncalled /\ ~calls)
       \/ /\ SaveFails
          /\ at' = [at EXCEPT ![h] = "idle"]
          /\ uncalled' = (uncalled \/ calls)
          /\ UNCHANGED asked

Unchanged(h, wanted) ==
    /\ answer' = [answer EXCEPT ![h] = wanted]
    /\ at' = [at EXCEPT ![h] = "reply"]
    /\ UNCHANGED <<subscribers, disk, asked, unsaved, uncalled>>

\* Slip: a user who is in the list is added once more.
HandleStartAgain(h) ==
    /\ up /\ at[h] = "decrypt"
    /\ Changed(h, Append(subscribers, who[h]), subscribers = <<>>, TRUE)
    /\ UNCHANGED <<up, synced, who, alert, told, overlap>>

\* Slip: the list is looked at when the user is already in it.
HandleStartLate(h) ==
    /\ up /\ at[h] = "decrypt"
    /\ IF who[h] \in Members(subscribers)
         THEN Unchanged(h, TRUE)
         ELSE Changed(h, Append(subscribers, who[h]),
                      Append(subscribers, who[h]) = <<>>, TRUE)
    /\ UNCHANGED <<up, synced, who, alert, told, overlap>>

_handle_start(h) ==
    /\ up /\ at[h] = "decrypt"
    /\ IF who[h] \in Members(subscribers)
         THEN Unchanged(h, TRUE)
         ELSE Changed(h, Append(subscribers, who[h]), subscribers = <<>>, TRUE)
    /\ UNCHANGED <<up, synced, who, alert, told, overlap>>

_handle_stop(h) ==
    /\ up /\ at[h] = "decrypt"
    /\ IF who[h] \notin Members(subscribers)
         THEN Unchanged(h, FALSE)
         ELSE LET list == Without(subscribers, who[h])
              IN  Changed(h, list, list = <<>>, FALSE)
    /\ UNCHANGED <<up, synced, who, alert, told, overlap>>

\* The process dies between the truncation and the contents.
CrashInSave(h) ==
    /\ up /\ at[h] = "decrypt"
    /\ Ended
    /\ disk' = Torn
    /\ Forgotten
    /\ UNCHANGED subscribers

\* orchestrator.start() or stop() returns ...
Called(h) ==
    /\ up /\ at[h] = "call"
    /\ at' = [at EXCEPT ![h] = "reply"]
    /\ UNCHANGED <<store, who, answer, alert, history>>

\* ... or raises: then there is no answer.
CallFails(h) ==
    /\ up /\ at[h] = "call"
    /\ at' = [at EXCEPT ![h] = "idle"]
    /\ UNCHANGED <<store, who, answer, alert, history>>

\* send_encrypted() has sent the answer, or failed.
Reply(h) ==
    /\ up /\ at[h] = "reply"
    /\ at' = [at EXCEPT ![h] = "idle"]
    /\ \/ told' = [told EXCEPT ![who[h]] = IF answer[h] THEN "yes" ELSE "no"]
       \/ UNCHANGED told
    /\ UNCHANGED <<store, who, answer, alert, overlap, unsaved, uncalled>>

-----------------------------------------------------------------------------
(***************************************************************************)
(* The alerts.                                                             *)
(***************************************************************************)

\* on_temperature() creates a task for an alert, if somebody is subscribed; nobody
\* keeps or cancels it.
Raised(a) ==
    /\ up /\ subscribers # <<>> /\ alert[a].at = "idle"
    /\ alert' = [alert EXCEPT ![a] = [NoAlert EXCEPT !.at = "raised", !.own = TRUE]]
    /\ UNCHANGED <<store, handling, history>>

\* The task copies the list, which may have become empty.
Begins(a) ==
    /\ up /\ alert[a].at = "raised"
    /\ alert' = [alert EXCEPT ![a] = IF subscribers = <<>> THEN NoAlert ELSE Walk(TRUE)]
    /\ UNCHANGED <<store, handling, history>>

\* The other callbacks await the sending in the task that calls them: the one of a
\* valve notification, which is never cancelled, the session's poll, or the loop.
Awaited(a, own) ==
    /\ up /\ subscribers # <<>> /\ alert[a].at = "idle"
    /\ alert' = [alert EXCEPT ![a] = Walk(own)]
    /\ UNCHANGED <<store, handling, history>>

\* The session's end cancels the poll, or stop() the loop, at the await of
\* send_encrypted(); except Exception lets it pass.  When that can be is left to
\* the model of the session: here it may always be.
Cut(a) ==
    /\ up /\ alert[a].at = "walking" /\ ~alert[a].own /\ alert[a].left # <<>>
    /\ alert' = [alert EXCEPT ![a] = NoAlert]
    /\ UNCHANGED <<store, handling, history>>

\* Slip: the list itself is walked, by position, while it changes.
LeftInPlace(a) ==
    SubSeq(subscribers, Cardinality(alert[a].tried) + 2, Len(subscribers))

\* The rest of the copy.
Left(a) == Tail(alert[a].left)

\* send_encrypted() to the next one ends; an exception is logged.
Sent(a) ==
    /\ up /\ alert[a].at = "walking" /\ alert[a].left # <<>>
    /\ alert' = [alert EXCEPT ![a].left = Left(a),
                              ![a].tried = @ \cup {Head(alert[a].left)}]
    /\ UNCHANGED <<store, handling, history>>

Finished(a) ==
    /\ up /\ alert[a].at = "walking" /\ alert[a].left = <<>>
    /\ alert' = [alert EXCEPT ![a] = NoAlert]
    /\ UNCHANGED <<store, handling, history>>

-----------------------------------------------------------------------------

Next ==
    \/ Boot \/ Synced \/ Crash \/ Repaired
    \/ \E h \in Handlers :
        \/ \E u \in Users : Arrives(h, u)
        \/ Dropped(h) \/ _handle_start(h) \/ _handle_stop(h) \/ CrashInSave(h)
        \/ Called(h) \/ CallFails(h) \/ Reply(h)
    \/ \E a \in Alerts :
        \/ Raised(a) \/ Begins(a) \/ \E own \in BOOLEAN : Awaited(a, own)
        \/ Sent(a) \/ Cut(a) \/ Finished(a)

Spec == Init /\ [][Next]_vars

-----------------------------------------------------------------------------
(***************************************************************************)
(* Properties.                                                             *)
(***************************************************************************)

\* Every variable stays within its values; nobody is in the list twice.
TypeOK ==
    /\ up \in BOOLEAN /\ synced \in BOOLEAN /\ asked \in BOOLEAN
    /\ subscribers \in Seq(Users) /\ Distinct(subscribers)
    /\ disk # Torn => disk \in Seq(Users) /\ Distinct(disk)
    /\ at \in [Handlers -> {"idle", "decrypt", "call", "reply"}]
    /\ who \in [Handlers -> Users] /\ answer \in [Handlers -> BOOLEAN]
    /\ alert \in [Alerts -> [at : {"idle", "raised", "walking"}, own : BOOLEAN,
                             left : Seq(Users),
                             audience : SUBSET Users, tried : SUBSET Users]]
    /\ told \in [Users -> {"none", "yes", "no"}]
    /\ overlap \subseteq Users
    /\ unsaved \in BOOLEAN /\ uncalled \in BOOLEAN

\* What a user was told by the answer to the last message is so, and stays so over
\* a crash and a restart.  Excepted are users whose messages were handled at the same
\* time (the answers may come in the other order) and lists that could not be saved.
AnswerTrue ==
    \A u \in Users \ overlap :
        told[u] # "none" =>
            (told[u] = "yes") = (u \in Members(IF up THEN subscribers ELSE disk))

\* Once run() has synchronised it, the orchestrator was last asked to monitor exactly
\* if somebody is subscribed, whatever the order of the commands and of those that
\* came before, unless a save that failed kept a handler from calling it.
AskedForTheList == up /\ synced /\ ~uncalled => asked = (subscribers # <<>>)

\* An alert that a task of its own sends (a threshold's, and a valve notification's)
\* ends, while the process runs, only when everybody who was subscribed as its sending
\* began has been tried, however the list changes meanwhile and whichever of the
\* messages fail.  Of the alerts that the session's poll or the loop awaits this is not
\* so: a cancellation ends their walk, with somebody left who is still subscribed.
EveryoneTried ==
    [][\A a \in Alerts :
        alert[a].at = "walking" /\ alert[a].own /\ alert'[a].at # "walking" /\ up'
            => alert[a].tried = alert[a].audience]_vars
=============================================================================
