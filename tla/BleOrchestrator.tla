-------------------------- MODULE BleOrchestrator --------------------------
(***************************************************************************)
(* ble_orchestrator.BleOrchestrator with the coroutines that call it (the  *)
(* command handlers of xmpp_bot, main.run(), the restart after a failure)  *)
(* and the task it owns, ble_sensor.run_sensor_loop().                     *)
(*                                                                         *)
(* All of it runs in one asyncio thread.  An action is what a coroutine    *)
(* does between two awaits that suspend it: a free lock is taken without   *)
(* suspending, so a command changes the list of subscribers and runs       *)
(* start() or stop() up to its first real await in one step.  A released   *)
(* lock goes to the coroutine that waits longest.                          *)
(***************************************************************************)
EXTENDS Integers, Sequences, FiniteSets

CONSTANTS
    Jids,         \* the users that write to the bot
    Workers,      \* coroutines handling a message (bounds the simultaneous ones)
    Restarters,   \* coroutines of _restart_after_failure (bounds the pending ones)
    Main,         \* the coroutine of main.run()
    Loops,        \* identities of the sensor loop's tasks, used again once free
    None

Procs == Workers \cup Restarters \cup {Main}

ASSUME ProcsAssumption ==
    /\ None \notin Procs \cup Loops
    /\ Main \notin Workers \cup Restarters
    /\ Workers \cap Restarters = {}

VARIABLES
    subscribers,  \* config.subscribers
    holder,       \* the coroutine that holds _lock, or that it was handed to
    waiters,      \* the queue of _lock
    pc,           \* where each coroutine is
    closing,      \* main.run() is in its finally block
    task,         \* _task
    at,           \* where the task of each sensor loop is, or how it ended
    cancel,       \* tasks with a cancellation requested and not delivered
    hooks,        \* ended tasks whose _log_task_failure has not run yet
    fatal,        \* the event ble_fatal
    abandoned     \* history: start() was left by an exception nobody handles
                  \* while there were subscribers, and no loop was made since

lock == <<holder, waiters>>
vars == <<subscribers, lock, pc, closing, task, at, cancel, hooks, fatal, abandoned>>

\* A loop is before its first session ("init": the adapter check), in a
\* session, in the finally block of a session that ended by itself
\* ("cleanup") or by cancellation ("aborting"), or waits for the sensor.
Alive == {"init", "session", "cleanup", "aborting", "probe"}
Ended == {"returned", "cancelled", "failed", "fatal"}

Live(l) == at[l] \in Alive
Running == task # None /\ Live(task)

\* A coroutine waits for the lock at "start", "stop" or "restart", and keeps
\* it across the adapter check and while joining a cancelled task.
Waiting == {"start", "stop", "restart"}
Places == Waiting \cup {"checking", "joining", "reply", "sleep", "idle",
                        "booting", "watching", "leaving"}

Init ==
    /\ subscribers \in SUBSET Jids
    /\ holder = None
    /\ waiters = <<>>
    /\ pc = [p \in Procs |-> IF p = Main THEN "booting" ELSE "idle"]
    /\ closing = FALSE
    /\ task = None
    /\ at = [l \in Loops |-> "unused"]
    /\ cancel = {}
    /\ hooks = {}
    /\ fatal = FALSE
    /\ abandoned = FALSE

-----------------------------------------------------------------------------
(***************************************************************************)
(* The lock, and where a call of the orchestrator leaves its caller.       *)
(***************************************************************************)
Goto(p, place) == pc' = [pc EXCEPT ![p] = place]

Hold(p) == holder' = p /\ UNCHANGED waiters

Release ==
    IF waiters = <<>>
      THEN holder' = None /\ waiters' = <<>>
      ELSE holder' = Head(waiters) /\ waiters' = Tail(waiters)

Return(p) ==
    Goto(p, IF p \in Workers THEN "reply"
            ELSE IF p \in Restarters THEN "idle"
            ELSE IF closing' THEN "leaving" ELSE "watching")

\* An exception leaves the call: no reply, and main.run() ends.
Raise(p) == Goto(p, IF p = Main THEN "leaving" ELSE "idle")

-----------------------------------------------------------------------------
(***************************************************************************)
(* The calls from the moment they have the lock to their first suspension. *)
(* S is the list of subscribers they see.                                  *)
(***************************************************************************)
\* Slip: start() without the test for a running task.
start_again(p, S) ==
    /\ \/ /\ S = {}
          /\ Release
          /\ Return(p)
       \/ /\ S # {}
          /\ Hold(p)
          /\ Goto(p, "checking")
    /\ UNCHANGED <<task, cancel>>

start(p, S) ==
    /\ \/ /\ S = {} \/ Running
          /\ Release
          /\ Return(p)
       \/ /\ S # {} /\ ~Running
          /\ Hold(p)
          /\ Goto(p, "checking")
    /\ UNCHANGED <<task, cancel>>

\* Slip: stop() without the test for a task that is None.
stop_unchecked(p) ==
    /\ cancel' = cancel \cup {task}
    /\ Hold(p)
    /\ Goto(p, "joining")
    /\ UNCHANGED task

stop(p) ==
    \/ /\ ~Running
       /\ task' = None
       /\ Release
       /\ Return(p)
       /\ UNCHANGED cancel
    \/ /\ Running
       /\ cancel' = cancel \cup {task}
       /\ Hold(p)
       /\ Goto(p, "joining")
       /\ UNCHANGED task

\* The second start() of a restart queues behind whoever waits for the lock.
restart(p, S) ==
    \/ /\ S = {} \/ Running
       /\ Release
       /\ Goto(p, "idle")
       /\ UNCHANGED <<task, cancel>>
    \/ /\ S # {} /\ ~Running
       /\ task' = None
       /\ IF waiters = <<>>
            THEN Hold(p) /\ Goto(p, "checking")
            ELSE /\ holder' = Head(waiters)
                 /\ waiters' = Append(Tail(waiters), p)
                 /\ Goto(p, "start")
       /\ UNCHANGED cancel

Run(p, call, S) ==
    \/ call = "start" /\ start(p, S)
    \/ call = "stop" /\ stop(p)
    \/ call = "restart" /\ restart(p, S)

Call(p, call, S) ==
    IF holder = None
      THEN Run(p, call, S)
      ELSE /\ waiters' = Append(waiters, p)
           /\ Goto(p, call)
           /\ UNCHANGED <<holder, task, cancel>>

-----------------------------------------------------------------------------
(***************************************************************************)
(* The commands of the users.                                              *)
(***************************************************************************)
_handle_start(w, j) ==
    /\ pc[w] = "idle"
    /\ pc[Main] # "leaving"
    /\ subscribers' = subscribers \cup {j}
    /\ IF subscribers = {}
         THEN Call(w, "start", subscribers')
         ELSE Goto(w, "reply") /\ UNCHANGED <<lock, task, cancel>>
    /\ UNCHANGED <<closing, at, hooks, fatal, abandoned>>

\* Slip: the last subscriber leaves and the orchestrator is not told.
_handle_stop_quietly(w, j) ==
    /\ pc[w] = "idle"
    /\ pc[Main] # "leaving"
    /\ subscribers' = subscribers \ {j}
    /\ abandoned' = (abandoned /\ subscribers' # {})
    /\ Goto(w, "reply")
    /\ UNCHANGED <<lock, task, cancel, closing, at, hooks, fatal>>

_handle_stop(w, j) ==
    /\ pc[w] = "idle"
    /\ pc[Main] # "leaving"
    /\ subscribers' = subscribers \ {j}
    /\ abandoned' = (abandoned /\ subscribers' # {})
    /\ IF j \in subscribers /\ subscribers' = {}
         THEN Call(w, "stop", subscribers')
         ELSE Goto(w, "reply") /\ UNCHANGED <<lock, task, cancel>>
    /\ UNCHANGED <<closing, at, hooks, fatal>>

\* send_encrypted() of the answer.
Reply(w) ==
    /\ pc[w] = "reply"
    /\ Goto(w, "idle")
    /\ UNCHANGED <<subscribers, lock, closing, task, at, cancel, hooks, fatal, abandoned>>

-----------------------------------------------------------------------------
(***************************************************************************)
(* The awaits inside the orchestrator.                                     *)
(***************************************************************************)
Granted(p) ==
    /\ holder = p
    /\ pc[p] \in Waiting
    /\ UNCHANGED closing
    /\ Run(p, pc[p], subscribers)
    /\ UNCHANGED <<subscribers, at, hooks, fatal, abandoned>>

AdapterReady(p) ==
    /\ pc[p] = "checking"
    /\ \E l \in Loops \ hooks :
         /\ ~Live(l)
         /\ task' = l
         /\ at' = [at EXCEPT ![l] = "init"]
    /\ abandoned' = FALSE
    /\ UNCHANGED <<subscribers, closing, cancel, hooks, fatal>>
    /\ Release
    /\ Return(p)

\* BluetoothAdapterError ends the program.
AdapterMissing(p) ==
    /\ pc[p] = "checking"
    /\ fatal' = TRUE
    /\ UNCHANGED <<subscribers, closing, task, at, cancel, hooks, abandoned>>
    /\ Release
    /\ Return(p)

\* Slip: the exception leaves start() with the lock still held.
AdapterBusyLocked(p) ==
    /\ pc[p] = "checking"
    /\ abandoned' = (subscribers # {})
    /\ Raise(p)
    /\ UNCHANGED <<subscribers, lock, closing, task, at, cancel, hooks, fatal>>

\* Any other error of the scanner (BleakDBusError, as when BlueZ is busy)
\* leaves start() and its caller.
AdapterBusy(p) ==
    /\ pc[p] = "checking"
    /\ abandoned' = (subscribers # {})
    /\ Release
    /\ Raise(p)
    /\ UNCHANGED <<subscribers, closing, task, at, cancel, hooks, fatal>>

\* stop() resumes when the task has ended, after the task's own callback.
Joined(p) ==
    /\ pc[p] = "joining"
    /\ ~Live(task)
    /\ task \notin hooks
    /\ UNCHANGED <<subscribers, closing, at, cancel, hooks, fatal, abandoned>>
    /\ Release
    /\ \/ at[task] \in {"returned", "cancelled"} /\ task' = None /\ Return(p)
       \/ at[task] \in {"failed", "fatal"} /\ UNCHANGED task /\ Raise(p)

\* Slip: a failure is logged and no restart is arranged.
_log_task_failure_only(l) ==
    /\ l \in hooks
    /\ hooks' = hooks \ {l}
    /\ fatal' = (fatal \/ at[l] = "fatal")
    /\ UNCHANGED <<pc, subscribers, lock, closing, task, at, cancel, abandoned>>

_log_task_failure(l) ==
    /\ l \in hooks
    /\ hooks' = hooks \ {l}
    /\ fatal' = (fatal \/ at[l] = "fatal")
    /\ IF at[l] = "failed" /\ subscribers # {}
         THEN \E r \in Restarters : pc[r] = "idle" /\ Goto(r, "sleep")
         ELSE UNCHANGED pc
    /\ UNCHANGED <<subscribers, lock, closing, task, at, cancel, abandoned>>

_restart_after_failure(r) ==
    /\ pc[r] = "sleep"
    /\ Call(r, "restart", subscribers)
    /\ UNCHANGED <<subscribers, closing, at, hooks, fatal, abandoned>>

-----------------------------------------------------------------------------
(***************************************************************************)
(* main.run().                                                             *)
(***************************************************************************)
sync ==
    /\ pc[Main] = "booting"
    /\ UNCHANGED closing
    /\ Call(Main, IF subscribers # {} THEN "start" ELSE "stop", subscribers)
    /\ UNCHANGED <<subscribers, at, hooks, fatal, abandoned>>

\* ble_fatal was set, or Ctrl+C was pressed: the finally block calls stop().
Close ==
    /\ pc[Main] = "watching"
    /\ closing' = TRUE
    /\ Call(Main, "stop", subscribers)
    /\ UNCHANGED <<subscribers, at, hooks, fatal, abandoned>>

OnFatal == fatal /\ Close

Interrupt == ~fatal /\ Close

\* The process ends and is started again with the saved list.
NewProcess ==
    /\ holder' = None
    /\ waiters' = <<>>
    /\ pc' = [p \in Procs |-> IF p = Main THEN "booting" ELSE "idle"]
    /\ closing' = FALSE
    /\ task' = None
    /\ at' = [l \in Loops |-> "unused"]
    /\ cancel' = {}
    /\ hooks' = {}
    /\ fatal' = FALSE
    /\ abandoned' = FALSE
    /\ UNCHANGED subscribers

Exit == pc[Main] = "leaving" /\ NewProcess

\* Killed, or out of power, at any moment.
Crash == pc[Main] # "leaving" /\ NewProcess

-----------------------------------------------------------------------------
(***************************************************************************)
(* run_sensor_loop().  A step of a loop with a cancellation pending is its *)
(* delivery.                                                               *)
(***************************************************************************)
Become(l, state) ==
    /\ at' = [at EXCEPT ![l] = state]
    /\ hooks' = IF state \in Ended THEN hooks \cup {l} ELSE hooks

LoopFrame == UNCHANGED <<subscribers, lock, pc, closing, task, fatal, abandoned>>

Undisturbed(l, state) ==
    /\ at[l] = state
    /\ l \notin cancel
    /\ UNCHANGED cancel
    /\ LoopFrame

\* The inner and the outer while ask should_continue() after a session.
NextAttempt == IF subscribers = {} THEN "returned" ELSE "probe"

\* Resolving the address and the loop's own adapter check.  An unexpected
\* error there is the only one that fails the task; the guard bounds the
\* restarts that can sleep at a time.
FirstAttempt(l) ==
    /\ Undisturbed(l, "init")
    /\ \/ Become(l, IF subscribers = {} THEN "returned" ELSE "session")
       \/ Become(l, "fatal")
       \/ /\ \E r \in Restarters : pc[r] = "idle"
          /\ hooks = {}
          /\ Become(l, "failed")

\* The connection fails (no client to clean up after), the link is lost or
\* the session fails (clean up), or the adapter has gone.
SessionEnds(l) ==
    /\ Undisturbed(l, "session")
    /\ \E state \in {NextAttempt, "cleanup", "fatal"} : Become(l, state)

CleanedUp(l) ==
    /\ Undisturbed(l, "cleanup")
    /\ Become(l, NextAttempt)

\* The pause and the scan.  Nothing found and still subscribers: the same again.
ProbeFinds(l) ==
    /\ Undisturbed(l, "probe")
    /\ subscribers # {}
    /\ \E state \in {"session", "fatal"} : Become(l, state)

ProbeEnds(l) ==
    /\ Undisturbed(l, "probe")
    /\ subscribers = {}
    /\ \E state \in {"returned", "fatal"} : Become(l, state)

\* CancelledError is raised at the await the loop is suspended at.  In a
\* session it runs the finally block; there it is swallowed when the await is
\* the join of the poll or the watch task (except CancelledError: pass).
Cancelled(l) ==
    /\ l \in cancel
    /\ cancel' = cancel \ {l}
    /\ \/ at[l] \in {"init", "probe"} /\ Become(l, "cancelled")
       \/ at[l] = "session" /\ \E state \in {"aborting", "cancelled"} : Become(l, state)
       \/ at[l] = "cleanup" /\ \E state \in {"cleanup", "cancelled"} : Become(l, state)
    /\ LoopFrame

\* The finally block of a cancelled session: when client.disconnect() raises,
\* its exception takes the place of CancelledError and the loop logs it.
Aborted(l) ==
    /\ Undisturbed(l, "aborting")
    /\ \E state \in {NextAttempt, "cancelled"} : Become(l, state)

-----------------------------------------------------------------------------
LoopStep(l) ==
    \/ FirstAttempt(l)
    \/ SessionEnds(l)
    \/ CleanedUp(l)
    \/ ProbeFinds(l)
    \/ ProbeEnds(l)
    \/ Cancelled(l)
    \/ Aborted(l)

Awaited(p) ==
    \/ Granted(p)
    \/ AdapterReady(p)
    \/ AdapterMissing(p)
    \/ AdapterBusy(p)
    \/ Joined(p)

Next ==
    \/ \E w \in Workers :
         \/ \E j \in Jids : _handle_start(w, j) \/ _handle_stop(w, j)
         \/ Reply(w)
    \/ \E p \in Procs : Awaited(p)
    \/ \E r \in Restarters : _restart_after_failure(r)
    \/ \E l \in Loops : _log_task_failure(l) \/ LoopStep(l)
    \/ sync
    \/ OnFatal
    \/ Interrupt
    \/ Exit
    \/ Crash

\* asyncio runs what is ready and every await below ends: the scanner answers
\* or raises, a message is sent, sleep(10) elapses, a finally block has
\* timeouts.  Nothing makes users write, links break or sensors appear.
Fairness ==
    /\ \A p \in Procs : WF_vars(Awaited(p))
    /\ \A w \in Workers : WF_vars(Reply(w))
    /\ \A r \in Restarters : WF_vars(_restart_after_failure(r))
    /\ \A l \in Loops :
         /\ WF_vars(_log_task_failure(l))
         /\ WF_vars(FirstAttempt(l) \/ CleanedUp(l) \/ ProbeEnds(l)
                      \/ Cancelled(l) \/ Aborted(l))
    /\ WF_vars(sync)
    /\ WF_vars(OnFatal)
    /\ WF_vars(Exit)

Spec == Init /\ [][Next]_vars /\ Fairness

-----------------------------------------------------------------------------
TypeOK ==
    /\ subscribers \in SUBSET Jids
    /\ holder \in Procs \cup {None}
    /\ waiters \in Seq(Procs)
    /\ pc \in [Procs -> Places]
    /\ closing \in BOOLEAN
    /\ task \in Loops \cup {None}
    /\ at \in [Loops -> Alive \cup Ended \cup {"unused"}]
    /\ cancel \in SUBSET Loops
    /\ hooks \in SUBSET Loops
    /\ fatal \in BOOLEAN
    /\ abandoned \in BOOLEAN

\* Two sensor loops would scan with the same adapter and connect to the same
\* sensor: start(), stop() and the restart after a failure never leave a live
\* task behind that _task does not name.
AtMostOneLoop ==
    \A l, m \in Loops : Live(l) /\ Live(m) => l = m

\* Nothing is under way in the orchestrator.
Settled ==
    /\ \A w \in Workers : pc[w] \in {"idle", "reply"}
    /\ \A r \in Restarters : pc[r] = "idle"
    /\ pc[Main] = "watching"
    /\ hooks = {}
    /\ ~fatal

\* Monitoring follows the list of subscribers: whatever commands, failures and
\* restarts have overlapped, once they are over the loop runs if and only if
\* somebody is subscribed, except after a start() that was abandoned.
FollowsSubscribers ==
    Settled /\ ~abandoned => (Running <=> subscribers # {})

\* The same without the exception: the module docstring says that monitoring
\* is started and stopped by the list of subscribers.
AlwaysFollowsSubscribers ==
    Settled => (Running <=> subscribers # {})

\* stop() waits for a loop that has lost its cancellation.
Survivor ==
    \E p \in Procs : /\ pc[p] = "joining"
                     /\ task \notin cancel
                     /\ at[task] \in {"session", "cleanup", "probe"}

\* Every command comes to its end, unless a loop survives its cancellation for
\* good: no coroutine waits for the lock or for a task for ever.
AnsweredUnlessSurvivor ==
    (\A w \in Workers : pc[w] # "idle" ~> pc[w] = "idle") \/ <>[]Survivor

\* When there are subscribers and no loop, one is made, unless the list
\* empties, the adapter is reported missing, a start() is abandoned or the
\* process begins anew.
MonitoringResumes ==
    (subscribers # {} /\ ~Running) ~>
        (Running \/ subscribers = {} \/ fatal \/ abandoned \/ pc[Main] = "booting")
=============================================================================
