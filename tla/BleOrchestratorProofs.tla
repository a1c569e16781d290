----------------------- MODULE BleOrchestratorProofs -----------------------
(***************************************************************************)
(* At most one sensor loop lives, for any number of users, simultaneous    *)
(* commands, pending restarts and loops.                                   *)
(*                                                                         *)
(* AtMostOneLoop is not inductive: that a new loop is made only when the   *)
(* last one has ended depends on the lock being held from the test of      *)
(* _task to the assignment to it, across the adapter check.                *)
(*                                                                         *)
(* And the loop follows the list of subscribers (FollowsSubscribers): as   *)
(* long as it does not, somebody is going to make it.                      *)
(***************************************************************************)
EXTENDS BleOrchestrator, SequenceTheorems, TLAPS

\* A live loop is the one that _task names.
OnlyTask == \A l \in Loops : Live(l) => l = task

\* The awaits inside "async with self._lock" are made by its holder.
LockHeld == \A p \in Procs : pc[p] \in {"checking", "joining"} => holder = p

\* While start() awaits the adapter check there is no loop.
NoneWhileChecking == \A p \in Procs : pc[p] = "checking" => ~Running

IInv == TypeOK /\ OnlyTask /\ LockHeld /\ NoneWhileChecking

\* What a call of the orchestrator may do up to its first suspension.
Segment ==
    /\ holder' \in Procs \cup {None}
    /\ waiters' \in Seq(Procs)
    /\ pc' \in [Procs -> Places]
    /\ cancel' \in SUBSET Loops
    /\ task' = task \/ (task' = None /\ ~Running)
    /\ \A q \in Procs : pc'[q] \in {"checking", "joining"} => holder' = q
    /\ \A q \in Procs : pc'[q] = "checking" => ~Running

\* Releasing the lock leaves a queue of coroutines and a holder from it.
LEMMA ReleaseType ==
    ASSUME TypeOK, Release
    PROVE  holder' \in Procs \cup {None} /\ waiters' \in Seq(Procs)
<1>1. CASE waiters = <<>>
    BY <1>1 DEF Release, TypeOK
<1>2. CASE waiters # <<>>
    BY <1>2, SMT DEF Release, TypeOK
<1> QED BY <1>1, <1>2

\* A place that keeps no lock may be entered with any holder, as long as nobody
\* else is inside the lock.
LEMMA GotoOutside ==
    ASSUME IInv, NEW p \in Procs, NEW place \in Places \ {"checking", "joining"},
           holder \in {None, p}, Goto(p, place)
    PROVE  /\ pc' \in [Procs -> Places]
           /\ \A q \in Procs : pc'[q] \notin {"checking", "joining"}
<1>1. pc' = [pc EXCEPT ![p] = place] /\ pc \in [Procs -> Places]
    BY DEF Goto, IInv, TypeOK
<1>2. \A q \in Procs : pc[q] \in {"checking", "joining"} => q = p
    BY ProcsAssumption DEF IInv, LockHeld
<1> QED BY <1>1, <1>2

\* The coroutine that has the lock stays inside it.
LEMMA GotoInside ==
    ASSUME IInv, NEW p \in Procs, NEW place \in {"checking", "joining"},
           holder \in {None, p}, Goto(p, place), holder' = p,
           place = "checking" => ~Running
    PROVE  /\ pc' \in [Procs -> Places]
           /\ \A q \in Procs : pc'[q] \in {"checking", "joining"} => holder' = q
           /\ \A q \in Procs : pc'[q] = "checking" => ~Running
<1>1. pc' = [pc EXCEPT ![p] = place] /\ pc \in [Procs -> Places]
    BY DEF Goto, IInv, TypeOK
<1>2. \A q \in Procs : pc[q] \in {"checking", "joining"} => q = p
    BY ProcsAssumption DEF IInv, LockHeld
<1> QED BY <1>1, <1>2 DEF Places

\* A call that returns leaves its coroutine outside the lock.
LEMMA ReturnOutside ==
    ASSUME NEW p \in Procs, Return(p)
    PROVE  \E place \in Places \ {"checking", "joining"} : Goto(p, place)
BY DEF Return, Places, Waiting

\* A call that raises leaves its coroutine outside the lock.
LEMMA RaiseOutside ==
    ASSUME NEW p \in Procs, Raise(p)
    PROVE  \E place \in Places \ {"checking", "joining"} : Goto(p, place)
BY DEF Raise, Places, Waiting

\* start() up to the adapter check.
LEMMA StartSegment ==
    ASSUME IInv, NEW p \in Procs, NEW S, holder \in {None, p}, start(p, S)
    PROVE  Segment
<1>1. task' = task /\ cancel' \in SUBSET Loops
    BY DEF start, IInv, TypeOK
<1>2. CASE Release /\ Return(p)
    BY <1>1, <1>2, ReleaseType, ReturnOutside, GotoOutside DEF Segment, IInv
<1>3. CASE ~Running /\ Hold(p) /\ Goto(p, "checking")
  <2>1. holder' = p /\ waiters' \in Seq(Procs)
      BY <1>3 DEF Hold, IInv, TypeOK
  <2> QED BY <1>1, <1>3, <2>1, GotoInside DEF Segment
<1> QED BY <1>2, <1>3 DEF start

\* stop() up to the join of the task it cancels.
LEMMA StopSegment ==
    ASSUME IInv, NEW p \in Procs, holder \in {None, p}, stop(p)
    PROVE  Segment
<1>1. CASE ~Running /\ task' = None /\ Release /\ Return(p) /\ UNCHANGED cancel
  <2>1. cancel' \in SUBSET Loops
      BY <1>1 DEF IInv, TypeOK
  <2> QED BY <1>1, <2>1, ReleaseType, ReturnOutside, GotoOutside DEF Segment, IInv
<1>2. CASE Running /\ cancel' = cancel \cup {task} /\ Hold(p)
             /\ Goto(p, "joining") /\ UNCHANGED task
  <2>1. cancel' \in SUBSET Loops
      BY <1>2 DEF IInv, TypeOK, Running
  <2>2. holder' = p /\ waiters' \in Seq(Procs)
      BY <1>2 DEF Hold, IInv, TypeOK
  <2> QED BY <1>2, <2>1, <2>2, GotoInside DEF Segment
<1> QED BY <1>1, <1>2 DEF stop

\* _restart_after_failure() up to the adapter check, or to its place in the
\* queue of the lock.
LEMMA RestartSegment ==
    ASSUME IInv, NEW p \in Procs, NEW S, holder \in {None, p}, restart(p, S)
    PROVE  Segment
<1>0. cancel' \in SUBSET Loops
    BY DEF restart, IInv, TypeOK
<1>1. CASE Release /\ Goto(p, "idle") /\ UNCHANGED task
  <2>1. "idle" \in Places \ {"checking", "joining"}
      BY DEF Places
  <2> QED BY <1>0, <1>1, <2>1, ReleaseType, GotoOutside DEF Segment, IInv
<1>2. CASE ~Running /\ task' = None /\ Hold(p) /\ Goto(p, "checking")
  <2>1. holder' = p /\ waiters' \in Seq(Procs)
      BY <1>2 DEF Hold, IInv, TypeOK
  <2> QED BY <1>0, <1>2, <2>1, GotoInside DEF Segment
<1>3. CASE /\ ~Running /\ task' = None
           /\ waiters # <<>>
           /\ holder' = Head(waiters)
           /\ waiters' = Append(Tail(waiters), p)
           /\ Goto(p, "start")
  <2>1. "start" \in Places \ {"checking", "joining"}
      BY DEF Places, Waiting
  <2>2. holder' \in Procs \cup {None} /\ waiters' \in Seq(Procs)
      BY <1>3, SMT DEF IInv, TypeOK
  <2> QED BY <1>0, <1>3, <2>1, <2>2, GotoOutside DEF Segment
<1> QED BY <1>1, <1>2, <1>3 DEF restart

\* Whichever call it is that has the lock.
LEMMA RunSegment ==
    ASSUME IInv, NEW p \in Procs, NEW call, NEW S, holder \in {None, p},
           Run(p, call, S)
    PROVE  Segment
BY StartSegment, StopSegment, RestartSegment DEF Run

\* A call that takes a free lock or queues for it.
LEMMA CallSegment ==
    ASSUME IInv, NEW p \in Procs, NEW call \in Waiting, NEW S, Call(p, call, S)
    PROVE  Segment
<1>1. CASE holder = None
    BY <1>1, RunSegment DEF Call
<1>2. CASE holder # None
  <2>1. /\ waiters' = Append(waiters, p) /\ UNCHANGED <<holder, task, cancel>>
        /\ pc' = [pc EXCEPT ![p] = call]
      BY <1>2 DEF Call, Goto
  <2>2. pc \in [Procs -> Places] /\ call \in Places \ {"checking", "joining"}
      BY DEF IInv, TypeOK, Places, Waiting
  <2>3. waiters' \in Seq(Procs)
      BY <2>1 DEF IInv, TypeOK
  <2>4. \A q \in Procs : pc'[q] \in {"checking", "joining"} => pc[q] = pc'[q]
      BY <2>1, <2>2
  <2> QED BY <2>1, <2>2, <2>3, <2>4 DEF Segment, IInv, TypeOK, LockHeld,
             NoneWhileChecking
<1> QED BY <1>1, <1>2

\* A segment that leaves the loops alone keeps the invariant.
LEMMA SegmentInv ==
    ASSUME IInv, Segment, UNCHANGED <<at, hooks, fatal>>,
           subscribers' \in SUBSET Jids, closing' \in BOOLEAN,
           abandoned' \in BOOLEAN
    PROVE  IInv'
<1>1. TypeOK'
    BY DEF Segment, IInv, TypeOK
<1>2. OnlyTask'
    BY DEF Segment, IInv, OnlyTask, Live, Running
<1>3. LockHeld'
    BY DEF Segment, LockHeld
<1>4. NoneWhileChecking'
    BY DEF Segment, NoneWhileChecking, Running, Live
<1> QED BY <1>1, <1>2, <1>3, <1>4 DEF IInv

-----------------------------------------------------------------------------
\* An empty queue is a queue of coroutines.
LEMMA NobodyWaits == <<>> \in Seq(Procs)
OBVIOUS

\* A new process has no loop and nobody inside the lock.
LEMMA InitInv == Init => IInv
<1> SUFFICES ASSUME Init
             PROVE  IInv
    OBVIOUS
<1>1. pc \in [Procs -> Places] /\ \A p \in Procs : pc[p] \in {"booting", "idle"}
    BY DEF Init, Places
<1>2. at \in [Loops -> Alive \cup Ended \cup {"unused"}] /\ \A l \in Loops : ~Live(l)
    BY DEF Init, Live, Alive, Ended
<1>3. TypeOK
    BY <1>1, <1>2, NobodyWaits DEF Init, TypeOK
<1> QED BY <1>1, <1>2, <1>3 DEF IInv, OnlyTask, LockHeld, NoneWhileChecking

\* A command keeps the invariant, whether or not it calls the orchestrator.
LEMMA CommandInv ==
    ASSUME IInv, NEW w \in Workers, NEW j \in Jids,
           _handle_start(w, j) \/ _handle_stop(w, j)
    PROVE  IInv'
<1>1. w \in Procs
    BY DEF Procs
<1>2. /\ subscribers' \in SUBSET Jids
      /\ UNCHANGED <<at, hooks, fatal, closing>>
      /\ abandoned' \in BOOLEAN
    BY DEF _handle_start, _handle_stop, IInv, TypeOK
<1>3. closing' \in BOOLEAN
    BY <1>2 DEF IInv, TypeOK
<1>4. "start" \in Waiting /\ "stop" \in Waiting
    BY DEF Waiting
<1>5. CASE \E call \in Waiting : Call(w, call, subscribers')
    BY <1>1, <1>2, <1>3, <1>5, CallSegment, SegmentInv
<1>6. CASE Goto(w, "reply") /\ UNCHANGED <<lock, task, cancel>>
  <2>1. pc' = [pc EXCEPT ![w] = "reply"] /\ pc \in [Procs -> Places]
        /\ "reply" \in Places \ {"checking", "joining"}
      BY <1>6 DEF Goto, IInv, TypeOK, Places
  <2>2. \A q \in Procs : pc'[q] \in {"checking", "joining"} => pc[q] = pc'[q]
      BY <2>1
  <2>3. Segment
      BY <1>1, <1>6, <2>1, <2>2 DEF Segment, IInv, TypeOK, LockHeld,
         NoneWhileChecking, lock
  <2> QED BY <1>2, <1>3, <2>3, SegmentInv
<1> QED BY <1>4, <1>5, <1>6 DEF _handle_start, _handle_stop

\* A coroutine that only moves between places outside the lock.
LEMMA MoveInv ==
    ASSUME IInv, NEW p \in Procs, NEW place \in Places \ {"checking", "joining"},
           Goto(p, place), UNCHANGED <<lock, task, at, cancel>>,
           subscribers' \in SUBSET Jids, closing' \in BOOLEAN,
           hooks' \in SUBSET Loops, fatal' \in BOOLEAN, abandoned' \in BOOLEAN
    PROVE  IInv'
<1>1. pc' = [pc EXCEPT ![p] = place] /\ pc \in [Procs -> Places]
    BY DEF Goto, IInv, TypeOK
<1>2. \A q \in Procs : pc'[q] \in {"checking", "joining"} => pc[q] = pc'[q]
    BY <1>1
<1> QED BY <1>1, <1>2 DEF IInv, TypeOK, OnlyTask, LockHeld, NoneWhileChecking,
           Live, Running, lock

\* A coroutine that resumes inside the orchestrator keeps it: a loop is made
\* only by the holder of the lock, and only where there is none.
LEMMA AwaitedInv ==
    ASSUME IInv, NEW p \in Procs, Awaited(p)
    PROVE  IInv'
<1>1. CASE Granted(p)
  <2>1. Segment
      BY <1>1, RunSegment DEF Granted
  <2> QED BY <1>1, <2>1, SegmentInv DEF Granted, IInv, TypeOK
<1>2. CASE AdapterReady(p)
  <2>1. holder = p /\ ~Running
      BY <1>2 DEF AdapterReady, IInv, LockHeld, NoneWhileChecking
  <2>2. holder' \in Procs \cup {None} /\ waiters' \in Seq(Procs)
      BY <1>2, ReleaseType DEF AdapterReady, IInv
  <2>3. /\ pc' \in [Procs -> Places]
        /\ \A q \in Procs : pc'[q] \notin {"checking", "joining"}
      BY <1>2, <2>1, ReturnOutside, GotoOutside DEF AdapterReady
  <2>4. PICK l \in Loops : task' = l /\ at' = [at EXCEPT ![l] = "init"]
      BY <1>2 DEF AdapterReady
  <2>5. \A m \in Loops : ~Live(m)
      BY <2>1, ProcsAssumption DEF IInv, OnlyTask, Running
  <2>6. TypeOK'
      BY <1>2, <2>2, <2>3, <2>4 DEF AdapterReady, IInv, TypeOK, Alive
  <2>7. OnlyTask'
      BY <2>4, <2>5 DEF OnlyTask, Live, IInv, TypeOK
  <2> QED BY <2>3, <2>6, <2>7 DEF IInv, LockHeld, NoneWhileChecking
<1>3. CASE AdapterMissing(p) \/ AdapterBusy(p)
  <2>1. holder = p
      BY <1>3 DEF AdapterMissing, AdapterBusy, IInv, LockHeld
  <2>2. holder' \in Procs \cup {None} /\ waiters' \in Seq(Procs)
      BY <1>3, ReleaseType DEF AdapterMissing, AdapterBusy, IInv
  <2>3. /\ pc' \in [Procs -> Places]
        /\ \A q \in Procs : pc'[q] \notin {"checking", "joining"}
      BY <1>3, <2>1, ReturnOutside, RaiseOutside, GotoOutside
         DEF AdapterMissing, AdapterBusy
  <2>4. TypeOK'
      BY <1>3, <2>2, <2>3 DEF AdapterMissing, AdapterBusy, IInv, TypeOK
  <2> QED BY <1>3, <2>3, <2>4 DEF AdapterMissing, AdapterBusy, IInv, OnlyTask,
             LockHeld, NoneWhileChecking, Live
<1>4. CASE Joined(p)
  <2>1. holder = p
      BY <1>4 DEF Joined, IInv, LockHeld
  <2>2. holder' \in Procs \cup {None} /\ waiters' \in Seq(Procs)
      BY <1>4, ReleaseType DEF Joined, IInv
  <2>3. /\ pc' \in [Procs -> Places]
        /\ \A q \in Procs : pc'[q] \notin {"checking", "joining"}
      BY <1>4, <2>1, ReturnOutside, RaiseOutside, GotoOutside DEF Joined
  <2>4. task' = task \/ (task' = None /\ ~Live(task))
      BY <1>4 DEF Joined
  <2>5. TypeOK'
      BY <1>4, <2>2, <2>3, <2>4 DEF Joined, IInv, TypeOK
  <2>6. OnlyTask'
      BY <1>4, <2>4 DEF Joined, IInv, OnlyTask, Live
  <2> QED BY <2>3, <2>5, <2>6 DEF IInv, LockHeld, NoneWhileChecking
<1> QED BY <1>1, <1>2, <1>3, <1>4 DEF Awaited

\* The callback of an ended task touches no loop and no lock.
LEMMA FailureInv ==
    ASSUME IInv, NEW l \in Loops, _log_task_failure(l)
    PROVE  IInv'
<1>1. /\ UNCHANGED <<subscribers, lock, closing, task, at, cancel, abandoned>>
      /\ hooks' \in SUBSET Loops /\ fatal' \in BOOLEAN
    BY DEF _log_task_failure, IInv, TypeOK
<1>2. subscribers' \in SUBSET Jids /\ closing' \in BOOLEAN /\ abandoned' \in BOOLEAN
    BY <1>1 DEF IInv, TypeOK
<1>3. CASE \E r \in Restarters : Goto(r, "sleep")
  <2>1. Restarters \subseteq Procs /\ "sleep" \in Places \ {"checking", "joining"}
      BY DEF Procs, Places
  <2> QED BY <1>1, <1>2, <1>3, <2>1, MoveInv DEF lock
<1>4. CASE UNCHANGED pc
    BY <1>1, <1>4 DEF IInv, TypeOK, OnlyTask, LockHeld, NoneWhileChecking,
       Live, Running, lock
<1> QED BY <1>3, <1>4 DEF _log_task_failure

\* A step of a loop changes that loop alone and never revives it.
LEMMA LoopInv ==
    ASSUME IInv, NEW l \in Loops, LoopStep(l)
    PROVE  IInv'
<1>1. /\ UNCHANGED <<subscribers, lock, pc, closing, task, fatal, abandoned>>
      /\ cancel' \in SUBSET Loops
      /\ Live(l)
      /\ \E state \in Alive \cup Ended : Become(l, state)
  <2> USE DEF LoopFrame, Undisturbed, Live, Alive, Ended, NextAttempt, IInv, TypeOK
  <2>1. CASE FirstAttempt(l)
      BY <2>1 DEF FirstAttempt
  <2>2. CASE SessionEnds(l)
      BY <2>2 DEF SessionEnds
  <2>3. CASE CleanedUp(l)
      BY <2>3 DEF CleanedUp
  <2>4. CASE ProbeFinds(l)
      BY <2>4 DEF ProbeFinds
  <2>5. CASE ProbeEnds(l)
      BY <2>5 DEF ProbeEnds
  <2>6. CASE Cancelled(l)
      BY <2>6 DEF Cancelled
  <2>7. CASE Aborted(l)
      BY <2>7 DEF Aborted
  <2> QED BY <2>1, <2>2, <2>3, <2>4, <2>5, <2>6, <2>7 DEF LoopStep
<1>2. PICK state \in Alive \cup Ended : Become(l, state)
    BY <1>1
<1>3. at' = [at EXCEPT ![l] = state] /\ hooks' \in SUBSET Loops
    BY <1>2 DEF Become, IInv, TypeOK
<1>4. TypeOK'
    BY <1>1, <1>3 DEF IInv, TypeOK, lock
<1>5. \A m \in Loops : Live(m)' => Live(m)
    BY <1>1, <1>3 DEF Live, IInv, TypeOK
<1>6. OnlyTask' /\ LockHeld'
    BY <1>1, <1>5 DEF IInv, OnlyTask, LockHeld, lock
<1>7. NoneWhileChecking'
    BY <1>1, <1>5 DEF IInv, TypeOK, NoneWhileChecking, Running
<1> QED BY <1>4, <1>6, <1>7 DEF IInv

\* main.run() keeps it, at its start and in its finally block.
LEMMA MainInv ==
    ASSUME IInv, sync \/ OnFatal \/ Interrupt
    PROVE  IInv'
<1>1. Main \in Procs /\ "start" \in Waiting /\ "stop" \in Waiting
    BY DEF Procs, Waiting
<1>2. \E call \in Waiting : Call(Main, call, subscribers)
    BY <1>1 DEF sync, OnFatal, Interrupt, Close
<1>3. Segment
    BY <1>1, <1>2, CallSegment
<1>4. UNCHANGED <<subscribers, at, hooks, fatal, abandoned>> /\ closing' \in BOOLEAN
    BY DEF sync, OnFatal, Interrupt, Close, IInv, TypeOK
<1>5. subscribers' \in SUBSET Jids /\ abandoned' \in BOOLEAN
    BY <1>4 DEF IInv, TypeOK
<1> QED BY <1>3, <1>4, <1>5, SegmentInv

\* A new process, after an exit or a crash, is as at the beginning.
LEMMA NewProcessInv ==
    ASSUME IInv, NewProcess
    PROVE  IInv'
<1>1. /\ pc' \in [Procs -> Places]
      /\ \A p \in Procs : pc'[p] \in {"booting", "idle"}
    BY DEF NewProcess, Places
<1>2. /\ at' \in [Loops -> Alive \cup Ended \cup {"unused"}]
      /\ \A l \in Loops : ~Live(l)'
    BY DEF NewProcess, Live, Alive, Ended
<1>3. TypeOK'
    BY <1>1, <1>2, NobodyWaits DEF NewProcess, TypeOK, IInv
<1> QED BY <1>1, <1>2, <1>3 DEF IInv, OnlyTask, LockHeld, NoneWhileChecking

\* Every step of the orchestrator and its callers keeps the invariant.
LEMMA StepInv == IInv /\ [Next]_vars => IInv'
<1> SUFFICES ASSUME IInv, [Next]_vars
             PROVE  IInv'
    OBVIOUS
<1>1. ASSUME NEW w \in Workers, NEW j \in Jids,
             _handle_start(w, j) \/ _handle_stop(w, j)
      PROVE  IInv'
    BY <1>1, CommandInv
<1>2. ASSUME NEW w \in Workers, Reply(w)
      PROVE  IInv'
  <2>1. w \in Procs /\ "idle" \in Places \ {"checking", "joining"}
      BY DEF Procs, Places
  <2>2. /\ Goto(w, "idle") /\ UNCHANGED <<lock, task, at, cancel>>
        /\ subscribers' \in SUBSET Jids /\ closing' \in BOOLEAN
        /\ hooks' \in SUBSET Loops /\ fatal' \in BOOLEAN /\ abandoned' \in BOOLEAN
      BY <1>2 DEF Reply, IInv, TypeOK
  <2> QED BY <2>1, <2>2, MoveInv
<1>3. ASSUME NEW p \in Procs, Awaited(p)
      PROVE  IInv'
    BY <1>3, AwaitedInv
<1>4. ASSUME NEW r \in Restarters, _restart_after_failure(r)
      PROVE  IInv'
  <2>1. r \in Procs /\ "restart" \in Waiting
      BY DEF Procs, Waiting
  <2>2. Segment
      BY <1>4, <2>1, CallSegment DEF _restart_after_failure
  <2> QED BY <1>4, <2>2, SegmentInv DEF _restart_after_failure, IInv, TypeOK
<1>5. ASSUME NEW l \in Loops, _log_task_failure(l) \/ LoopStep(l)
      PROVE  IInv'
    BY <1>5, FailureInv, LoopInv
<1>6. CASE sync \/ OnFatal \/ Interrupt
    BY <1>6, MainInv
<1>7. CASE Exit \/ Crash
    BY <1>7, NewProcessInv DEF Exit, Crash
<1>8. CASE UNCHANGED vars
    BY <1>8 DEF vars, lock, IInv, TypeOK, OnlyTask, LockHeld, NoneWhileChecking,
       Live, Running
<1> QED BY <1>1, <1>2, <1>3, <1>4, <1>5, <1>6, <1>7, <1>8 DEF Next

\* The strengthened invariant holds in every reachable state.
LEMMA Invariance == Spec => []IInv
<1>1. Init => IInv
    BY InitInv
<1>2. IInv /\ [Next]_vars => IInv'
    BY StepInv
<1> QED BY <1>1, <1>2, PTL DEF Spec

\* Every reachable state of the orchestrator is typed.
THEOREM TypeCorrect == Spec => []TypeOK
<1>1. IInv => TypeOK
    BY DEF IInv
<1> QED BY <1>1, Invariance, PTL

\* Whatever commands, failures, restarts and cancellations overlap, there are
\* never two live sensor loops.
THEOREM OneLoop == Spec => []AtMostOneLoop
<1>1. IInv => AtMostOneLoop
    BY DEF IInv, OnlyTask, AtMostOneLoop
<1> QED BY <1>1, Invariance, PTL

-----------------------------------------------------------------------------
(***************************************************************************)
(* FollowsSubscribers.  The lock is handed over in the order in which it   *)
(* was asked for, and that is what makes it true: a stop() that is still   *)
(* to come, when somebody has subscribed since, has a start() behind it    *)
(* (StopFollowed).  What else can still change the loop is on its way      *)
(* (StopPending, StartPending).                                            *)
(***************************************************************************)
Inside == Waiting \cup {"checking", "joining"}

\* Where a call that is over leaves its coroutine.
Resting == {"reply", "idle", "watching", "leaving"}

Starting(p) == pc[p] \in {"start", "restart", "checking"}
Stopping(p) == pc[p] \in {"stop", "joining"}

\* A coroutine waits for the lock once, and not while it holds it; a free lock is
\* waited for by nobody.
QueuedOnce ==
    /\ \A i \in DOMAIN waiters : waiters[i] # holder /\ pc[waiters[i]] \in Waiting
    /\ \A i, j \in DOMAIN waiters : waiters[i] = waiters[j] => i = j
    /\ holder = None => waiters = <<>>
    /\ holder # None => pc[holder] \in Inside

\* Every stop() has a start() behind it.
Order ==
    /\ holder # None /\ Stopping(holder) => \E j \in DOMAIN waiters : Starting(waiters[j])
    /\ \A i \in DOMAIN waiters :
           Stopping(waiters[i]) => \E j \in DOMAIN waiters : j > i /\ Starting(waiters[j])

StopFollowed == subscribers # {} /\ ~closing => Order

\* A loop that is being cancelled is waited for.
CancelsJoined ==
    \A l \in Loops : l \in cancel \/ at[l] = "aborting"
                         => Live(l) /\ \E p \in Procs : pc[p] = "joining"

\* The finally block of main.run() stops and leaves.
ClosingStops == closing => pc[Main] \in {"stop", "joining", "leaving"}

\* A loop that nobody wants, or that is about to be made, is going to be stopped.
StopPending ==
    subscribers = {} /\ (Running \/ \E p \in Procs : pc[p] = "checking")
        => \E p \in Procs : Stopping(p)

\* A loop that is wanted is there or is going to be started.
Coming(p) == Starting(p) \/ pc[p] \in {"booting", "sleep"}
Wanted ==
    /\ subscribers # {} /\ ~closing /\ ~abandoned /\ ~fatal
    /\ \A l \in hooks : at[l] # "fatal"
StartPending ==
    Wanted => \/ Running
              \/ \E p \in Procs : Coming(p)
              \/ \E l \in hooks : at[l] = "failed"

FInv ==
    /\ QueuedOnce /\ StopFollowed /\ CancelsJoined /\ ClosingStops
    /\ StopPending /\ StartPending

\* The places of a queue and of what is behind its head.
LEMMA BehindHead ==
    ASSUME NEW q \in Seq(Procs), q # <<>>
    PROVE  /\ Tail(q) \in Seq(Procs) /\ Head(q) \in Procs /\ Head(q) = q[1]
           /\ 1 \in DOMAIN q
           /\ \A i \in DOMAIN Tail(q) : /\ i \in Nat /\ i + 1 \in DOMAIN q /\ i + 1 # 1
                                        /\ Tail(q)[i] = q[i + 1]
           /\ \A j \in DOMAIN q : j # 1 => /\ j > 1 /\ j - 1 \in DOMAIN Tail(q)
                                           /\ Tail(q)[j - 1] = q[j]
           /\ \A i \in DOMAIN q : i \in Nat /\ i >= 1
<1>1. /\ Head(q) \in Procs /\ Tail(q) \in Seq(Procs) /\ Len(Tail(q)) = Len(q) - 1
      /\ \A i \in 1..Len(Tail(q)) : Tail(q)[i] = q[i + 1]
  BY HeadTailProperties
<1>2. Len(q) \in Nat \ {0} /\ DOMAIN q = 1..Len(q)
  BY EmptySeq, LenProperties
<1>3. DOMAIN Tail(q) = 1..Len(Tail(q))
  BY <1>1, LenProperties
<1>4. Head(q) = q[1]
  OBVIOUS
<1> QED BY <1>1, <1>2, <1>3, <1>4

\* The places of a queue that a coroutine has joined.
LEMMA AtTheEnd ==
    ASSUME NEW q \in Seq(Procs), NEW p \in Procs
    PROVE  /\ Append(q, p) \in Seq(Procs)
           /\ \A i \in DOMAIN q : /\ i \in DOMAIN Append(q, p) /\ Append(q, p)[i] = q[i]
                                  /\ q[i] \in Procs
           /\ \E n \in DOMAIN Append(q, p) :
                  /\ Append(q, p)[n] = p /\ n \notin DOMAIN q
                  /\ \A i \in DOMAIN Append(q, p) : i = n \/ (i \in DOMAIN q /\ n > i)
<1>1. /\ Append(q, p) \in Seq(Procs) /\ Len(Append(q, p)) = Len(q) + 1
      /\ \A i \in 1..Len(q) : Append(q, p)[i] = q[i]
      /\ Append(q, p)[Len(q) + 1] = p
  BY AppendProperties
<1>2. Len(q) \in Nat /\ DOMAIN q = 1..Len(q) /\ DOMAIN Append(q, p) = 1..(Len(q) + 1)
  BY <1>1, LenProperties
<1>3. \A i \in 1..Len(q) : q[i] \in Procs
  BY <1>2, ElementOfSeq
<1>4. /\ Len(q) + 1 \in DOMAIN Append(q, p) /\ Len(q) + 1 \notin DOMAIN q
      /\ \A i \in DOMAIN Append(q, p) : i = Len(q) + 1 \/ (i \in DOMAIN q /\ Len(q) + 1 > i)
      /\ \A i \in DOMAIN q : i \in DOMAIN Append(q, p)
  BY <1>2
<1> QED BY <1>1, <1>2, <1>3, <1>4

\* A coroutine that is where it waits for the lock or has it is there for it.
LEMMA NotInQueue ==
    ASSUME QueuedOnce, NEW p \in Procs, holder \in {None, p} \/ pc[p] \notin Inside
    PROVE  \A i \in DOMAIN waiters : waiters[i] # p
BY DEF QueuedOnce, Inside

\* The lock is released by a call that is over.
LEMMA Released ==
    ASSUME IInv, QueuedOnce, NEW p \in Procs, NEW place \in Resting,
           holder \in {None, p}, Release, Goto(p, place)
    PROVE  QueuedOnce' /\ (Order => Order')
<1>1. pc' = [pc EXCEPT ![p] = place] /\ pc \in [Procs -> Places] /\ waiters \in Seq(Procs)
  BY DEF Goto, IInv, TypeOK
<1>2. CASE waiters = <<>>
  BY <1>2 DEF Release, QueuedOnce, Order
<1>3. CASE waiters # <<>>
  <2>1. holder' = Head(waiters) /\ waiters' = Tail(waiters)
    BY <1>3 DEF Release
  <2>2. \A i \in DOMAIN waiters : waiters[i] \in Procs \ {p} /\ pc'[waiters[i]] = pc[waiters[i]]
    BY <1>1, NotInQueue, ElementOfSeq, LenProperties
  <2>3. /\ 1 \in DOMAIN waiters /\ holder' = waiters[1]
        /\ \A i \in DOMAIN waiters' : /\ i \in Nat /\ i + 1 \in DOMAIN waiters /\ i + 1 # 1
                                      /\ waiters'[i] = waiters[i + 1]
        /\ \A j \in DOMAIN waiters : j # 1 => /\ j > 1 /\ j - 1 \in DOMAIN waiters'
                                              /\ waiters'[j - 1] = waiters[j]
        /\ \A i \in DOMAIN waiters : i \in Nat /\ i >= 1
    BY <1>1, <1>3, <2>1, BehindHead
  <2>4. holder' \in Procs /\ holder' # None
    BY <2>2, <2>3, ProcsAssumption
  <2>5. QueuedOnce'
    <3>1. ASSUME NEW i \in DOMAIN waiters'
          PROVE  waiters'[i] # holder' /\ pc'[waiters'[i]] \in Waiting
      BY <2>2, <2>3 DEF QueuedOnce
    <3>2. ASSUME NEW i \in DOMAIN waiters', NEW j \in DOMAIN waiters', waiters'[i] = waiters'[j]
          PROVE  i = j
      <4>1. i + 1 = j + 1
        BY <2>3, <3>2 DEF QueuedOnce
      <4> QED BY <2>3, <4>1
    <3>3. pc'[holder'] \in Inside
      BY <2>2, <2>3 DEF QueuedOnce, Inside
    <3> QED BY <2>4, <3>1, <3>2, <3>3 DEF QueuedOnce
  <2>6. ASSUME Order PROVE Order'
    <3>1. ASSUME NEW i \in DOMAIN waiters, Stopping(waiters[i])
          PROVE  \E j \in DOMAIN waiters : j > i /\ j # 1 /\ Starting(waiters[j])
      <4>1. PICK j \in DOMAIN waiters : j > i /\ Starting(waiters[j])
        BY <2>6, <3>1 DEF Order
      <4>2. j # 1
        BY <2>3, <4>1
      <4> QED BY <4>1, <4>2
    <3>2. ASSUME pc'[holder'] \in {"stop", "joining"}
          PROVE  \E j \in DOMAIN waiters' : pc'[waiters'[j]] \in {"start", "restart", "checking"}
      <4>1. PICK j \in DOMAIN waiters : j # 1 /\ Starting(waiters[j])
        BY <2>2, <2>3, <3>1, <3>2 DEF Stopping
      <4> QED BY <2>2, <2>3, <4>1 DEF Starting
    <3>3. ASSUME NEW i \in DOMAIN waiters', pc'[waiters'[i]] \in {"stop", "joining"}
          PROVE  \E j \in DOMAIN waiters' : /\ j > i
                                            /\ pc'[waiters'[j]] \in {"start", "restart", "checking"}
      <4>1. /\ i \in Nat /\ i + 1 \in DOMAIN waiters /\ waiters'[i] = waiters[i + 1]
            /\ Stopping(waiters[i + 1])
        BY <2>2, <2>3, <3>3 DEF Stopping
      <4>2. PICK j \in DOMAIN waiters : j > i + 1 /\ j # 1 /\ Starting(waiters[j])
        BY <3>1, <4>1
      <4>3. j - 1 \in DOMAIN waiters' /\ waiters'[j - 1] = waiters[j] /\ j - 1 > i
        BY <2>3, <4>1, <4>2
      <4> QED BY <2>2, <4>2, <4>3 DEF Starting
    <3> QED BY <3>2, <3>3 DEF Order, Stopping, Starting
  <2> QED BY <2>5, <2>6
<1> QED BY <1>2, <1>3

\* The lock is taken or kept; a stop() keeps it.
LEMMA Kept ==
    ASSUME IInv, QueuedOnce, NEW p \in Procs, NEW place \in {"checking", "joining"},
           holder \in {None, p}, Hold(p), Goto(p, place)
    PROVE  /\ QueuedOnce'
           /\ Order /\ (place = "joining" => holder = p /\ pc[p] = "stop") => Order'
<1>1. pc' = [pc EXCEPT ![p] = place] /\ pc \in [Procs -> Places] /\ waiters \in Seq(Procs)
  BY DEF Goto, IInv, TypeOK
<1>2. \A i \in DOMAIN waiters : waiters[i] \in Procs \ {p} /\ pc'[waiters[i]] = pc[waiters[i]]
  BY <1>1, NotInQueue, ElementOfSeq, LenProperties
<1>3. holder' = p /\ waiters' = waiters /\ pc'[p] = place /\ p # None
  BY <1>1, ProcsAssumption DEF Hold
<1>4. QueuedOnce'
  BY <1>2, <1>3 DEF QueuedOnce, Inside
<1>5. ASSUME Order, place = "joining" => holder = p /\ pc[p] = "stop"
      PROVE  Order'
  <2>1. pc'[p] \in {"stop", "joining"} => holder # None /\ Stopping(holder)
    BY <1>3, <1>5 DEF Stopping
  <2> QED BY <1>2, <1>3, <1>5, <2>1 DEF Order, Stopping, Starting
<1> QED BY <1>4, <1>5

\* A call waits for the lock, behind all others.
LEMMA Enqueued ==
    ASSUME IInv, QueuedOnce, NEW p \in Procs, NEW place \in Waiting,
           holder # None, pc[p] \notin Inside,
           holder' = holder, waiters' = Append(waiters, p), Goto(p, place)
    PROVE  QueuedOnce' /\ (place # "stop" => Order')
<1>1. pc' = [pc EXCEPT ![p] = place] /\ pc \in [Procs -> Places] /\ waiters \in Seq(Procs)
  BY DEF Goto, IInv, TypeOK
<1>2. \A i \in DOMAIN waiters : waiters[i] \in Procs \ {p} /\ pc'[waiters[i]] = pc[waiters[i]]
  BY <1>1, NotInQueue, ElementOfSeq, LenProperties
<1>3. /\ \A i \in DOMAIN waiters : i \in DOMAIN waiters' /\ waiters'[i] = waiters[i]
      /\ \E n \in DOMAIN waiters' :
             /\ waiters'[n] = p /\ n \notin DOMAIN waiters
             /\ \A i \in DOMAIN waiters' : i = n \/ (i \in DOMAIN waiters /\ n > i)
  BY <1>1, AtTheEnd
<1>4. PICK n \in DOMAIN waiters' :
          /\ waiters'[n] = p /\ n \notin DOMAIN waiters
          /\ \A i \in DOMAIN waiters' : i = n \/ (i \in DOMAIN waiters /\ n > i)
  BY <1>3
<1>5. pc'[p] = place /\ holder # p /\ holder \in Procs /\ pc'[holder] = pc[holder]
  BY <1>1 DEF QueuedOnce, IInv, TypeOK
<1>6. QueuedOnce'
  BY <1>2, <1>3, <1>4, <1>5 DEF QueuedOnce
<1>7. ASSUME place # "stop" PROVE Order'
  <2>1. pc'[waiters'[n]] \in {"start", "restart", "checking"}
    BY <1>4, <1>5, <1>7 DEF Waiting
  <2>2. \A i \in DOMAIN waiters' : pc'[waiters'[i]] \in {"stop", "joining"} => n > i
    BY <1>4, <2>1
  <2> QED BY <1>4, <2>1, <2>2 DEF Order, Stopping, Starting
<1> QED BY <1>6, <1>7

\* The second start() of a restart waits for the lock that the first call has
\* released.
LEMMA Requeued ==
    ASSUME IInv, QueuedOnce, NEW p \in Procs, holder = p, waiters # <<>>,
           holder' = Head(waiters), waiters' = Append(Tail(waiters), p), Goto(p, "start")
    PROVE  QueuedOnce' /\ Order'
<1> DEFINE q == Tail(waiters)
<1>1. pc' = [pc EXCEPT ![p] = "start"] /\ pc \in [Procs -> Places] /\ waiters \in Seq(Procs)
  BY DEF Goto, IInv, TypeOK
<1>2. \A i \in DOMAIN waiters : waiters[i] \in Procs \ {p} /\ pc'[waiters[i]] = pc[waiters[i]]
  BY <1>1, NotInQueue, ElementOfSeq, LenProperties
<1>3. /\ q \in Seq(Procs) /\ 1 \in DOMAIN waiters /\ holder' = waiters[1]
      /\ \A i \in DOMAIN q : /\ i \in Nat /\ i + 1 \in DOMAIN waiters /\ i + 1 # 1
                             /\ q[i] = waiters[i + 1]
  BY <1>1, BehindHead
<1> HIDE DEF q
<1>4. /\ \A i \in DOMAIN q : i \in DOMAIN waiters' /\ waiters'[i] = q[i]
      /\ \E n \in DOMAIN waiters' :
             /\ waiters'[n] = p /\ n \notin DOMAIN q
             /\ \A i \in DOMAIN waiters' : i = n \/ (i \in DOMAIN q /\ n > i)
  BY <1>3, AtTheEnd DEF q
<1>5. PICK n \in DOMAIN waiters' :
          /\ waiters'[n] = p /\ n \notin DOMAIN q
          /\ \A i \in DOMAIN waiters' : i = n \/ (i \in DOMAIN q /\ n > i)
  BY <1>4
<1>6. pc'[p] = "start" /\ holder' # p /\ holder' # None /\ pc'[holder'] \in Waiting
  BY <1>1, <1>2, <1>3, ProcsAssumption DEF QueuedOnce
<1>7. \A i, j \in DOMAIN q : q[i] = q[j] => i = j
  <2> SUFFICES ASSUME NEW i \in DOMAIN q, NEW j \in DOMAIN q, q[i] = q[j]
               PROVE  i = j
    OBVIOUS
  <2>1. i + 1 = j + 1
    BY <1>3 DEF QueuedOnce
  <2> QED BY <1>3, <2>1
<1>8. \A i \in DOMAIN q : q[i] # holder' /\ q[i] # p /\ pc'[q[i]] \in Waiting
  BY <1>2, <1>3 DEF QueuedOnce
<1>9. QueuedOnce'
  <2>1. \A i \in DOMAIN waiters' : waiters'[i] # holder' /\ pc'[waiters'[i]] \in Waiting
    BY <1>4, <1>5, <1>6, <1>8 DEF Waiting
  <2>2. ASSUME NEW i \in DOMAIN waiters', NEW j \in DOMAIN waiters', waiters'[i] = waiters'[j]
        PROVE  i = j
    <3>1. \A k \in DOMAIN waiters' : k = n \/ (k \in DOMAIN q /\ waiters'[k] = q[k])
      BY <1>4, <1>5
    <3>2. \A k \in DOMAIN q : q[k] # p
      BY <1>8
    <3> QED BY <1>5, <1>7, <2>2, <3>1, <3>2
  <2> QED BY <1>6, <2>1, <2>2 DEF QueuedOnce, Inside
<1>10. Order'
  <2>1. \A i \in DOMAIN waiters' : pc'[waiters'[i]] \in {"stop", "joining"} => n > i
    BY <1>5, <1>6
  <2> QED BY <1>5, <1>6, <2>1 DEF Order, Stopping, Starting
<1> QED BY <1>9, <1>10

\* A coroutine that is not inside the orchestrator moves outside it.
LEMMA Moved ==
    ASSUME IInv, QueuedOnce, NEW p \in Procs, NEW place \in Places \ Inside,
           pc[p] \notin Inside, Goto(p, place), UNCHANGED lock
    PROVE  QueuedOnce' /\ (Order => Order')
<1>1. pc' = [pc EXCEPT ![p] = place] /\ pc \in [Procs -> Places] /\ waiters \in Seq(Procs)
      /\ holder' = holder /\ waiters' = waiters
  BY DEF Goto, IInv, TypeOK, lock
<1>2. \A i \in DOMAIN waiters : waiters[i] \in Procs \ {p} /\ pc'[waiters[i]] = pc[waiters[i]]
  BY <1>1, NotInQueue, ElementOfSeq, LenProperties
<1>3. holder # None => holder \in Procs \ {p} /\ pc'[holder] = pc[holder]
  BY <1>1 DEF QueuedOnce, IInv, TypeOK
<1> QED BY <1>1, <1>2, <1>3 DEF QueuedOnce, Order, Stopping, Starting

\* What a call does with the lock it has been given.
LEMMA RunEffect ==
    ASSUME NEW p \in Procs, NEW call, NEW S, Run(p, call, S)
    PROVE  \/ /\ \E place \in Resting : Goto(p, place) /\ (p = Main /\ closing' => place = "leaving"
                                                               \/ call = "restart")
              /\ Release /\ cancel' = cancel
              /\ \/ call # "stop" /\ (S = {} \/ Running) /\ task' = task
                 \/ call = "stop" /\ ~Running /\ task' = None
           \/ /\ call # "stop" /\ S # {} /\ ~Running /\ task' \in {task, None}
              /\ Hold(p) /\ Goto(p, "checking") /\ cancel' = cancel
           \/ /\ call = "stop" /\ Running /\ task' = task
              /\ Hold(p) /\ Goto(p, "joining") /\ cancel' = cancel \cup {task}
           \/ /\ call = "restart" /\ S # {} /\ ~Running /\ task' = None /\ cancel' = cancel
              /\ waiters # <<>> /\ holder' = Head(waiters)
              /\ waiters' = Append(Tail(waiters), p) /\ Goto(p, "start")
<1>1. Return(p) => \E place \in Resting : Goto(p, place) /\ (p = Main /\ closing' => place = "leaving")
  BY ProcsAssumption DEF Return, Resting
<1>2. CASE call = "start" /\ start(p, S)
  BY <1>1, <1>2 DEF start
<1>3. CASE call = "stop" /\ stop(p)
  BY <1>1, <1>3 DEF stop
<1>4. CASE call = "restart" /\ restart(p, S)
  BY <1>4 DEF restart, Resting
<1> QED BY <1>2, <1>3, <1>4 DEF Run

\* A call that has the lock keeps the invariant: a start() or a restart whoever
\* subscribes, a stop() of the last subscriber or of main.run(), and a stop() that
\* has waited.
LEMMA RunFollows ==
    ASSUME IInv, FInv, NEW p \in Procs, NEW call \in Waiting,
           Run(p, call, subscribers'), holder \in {None, p},
           pc[p] \notin {"checking", "joining"},
           UNCHANGED <<at, hooks, fatal>>,
           closing => closing', closing' => closing \/ p = Main,
           p = Main /\ closing' => call = "stop",
           call # "stop" => /\ pc[p] # "stop"
                            /\ subscribers' = {} => subscribers = {}
                            /\ subscribers' = subscribers \/ holder = None,
           call = "stop" => \/ subscribers' = {} \/ closing'
                            \/ /\ holder = p /\ pc[p] = "stop"
                               /\ UNCHANGED <<subscribers, closing, abandoned>>
    PROVE  FInv'
<1>1. /\ QueuedOnce /\ StopFollowed /\ CancelsJoined /\ ClosingStops
      /\ StopPending /\ StartPending
      /\ pc \in [Procs -> Places]
  BY DEF FInv, IInv, TypeOK
<1>2. subscribers' # {} /\ ~closing'
          => Order /\ (call = "stop" => holder = p /\ pc[p] = "stop")
  BY <1>1 DEF StopFollowed, QueuedOnce, Order
<1>3. \A q \in Procs : pc[q] \notin {"checking", "joining"}
  BY ProcsAssumption DEF IInv, LockHeld
<1>4. \A l \in Loops : l \notin cancel /\ at[l] # "aborting"
  BY <1>1, <1>3 DEF CancelsJoined
<1>5. Main \in Procs
  BY DEF Procs
<1>6. Running' <=> task' # None /\ at[task'] \in Alive
  BY DEF Running, Live
<1>7. ASSUME NEW place \in Resting, Goto(p, place), Release, cancel' = cancel,
             p = Main /\ closing' => place = "leaving",
             \/ call # "stop" /\ (subscribers' = {} \/ Running) /\ task' = task
             \/ call = "stop" /\ ~Running /\ task' = None
      PROVE  FInv'
  <2>1. /\ pc'[p] = place /\ place \notin Inside
        /\ \A q \in Procs \ {p} : pc'[q] = pc[q]
    BY <1>1, <1>7 DEF Goto, Resting, Inside, Waiting
  <2>2. QueuedOnce' /\ StopFollowed'
    BY <1>1, <1>2, <1>7, Released DEF StopFollowed
  <2>3. CancelsJoined'
    BY <1>4, <1>7 DEF CancelsJoined
  <2>4. ClosingStops'
    BY <1>1, <1>5, <1>7, <2>1 DEF ClosingStops
  <2>5. Running' => Running /\ call # "stop"
    BY <1>6, <1>7 DEF Running, Live
  <2>6. StopPending'
    <3>1. \A q \in Procs : pc'[q] # "checking"
      BY <1>3, <2>1 DEF Inside
    <3>2. \A q \in Procs : call # "stop" /\ pc[q] \in {"stop", "joining"} => pc'[q] = pc[q]
      BY <1>3, <2>1
    <3> QED BY <1>1, <2>5, <3>1, <3>2 DEF StopPending, Stopping
  <2>7. StartPending'
    <3>1. CASE call # "stop"
      BY <1>7, <3>1 DEF StartPending, Wanted, Running, Live
    <3>2. CASE call = "stop"
      <4> SUFFICES ASSUME Wanted'
                   PROVE  \/ \E q \in Procs : Coming(q)'
                          \/ \E l \in hooks' : at'[l] = "failed"
        BY DEF StartPending
      <4>1. pc[p] = "stop" /\ UNCHANGED <<subscribers, closing, abandoned>>
        BY <3>2 DEF Wanted
      <4>2. Wanted /\ ~Running
        BY <1>7, <3>2, <4>1 DEF Wanted
      <4>3. \A q \in Procs : Coming(q) => Coming(q)'
        BY <2>1, <4>1 DEF Coming, Starting
      <4> QED BY <1>1, <4>2, <4>3 DEF StartPending
    <3> QED BY <3>1, <3>2
  <2> QED BY <2>2, <2>3, <2>4, <2>6, <2>7 DEF FInv
<1>8. ASSUME NEW place \in {"checking", "start"}, Goto(p, place), cancel' = cancel,
             call # "stop", subscribers' # {}, QueuedOnce', StopFollowed'
      PROVE  FInv'
  <2>1. pc'[p] = place /\ \A q \in Procs \ {p} : pc'[q] = pc[q]
    BY <1>1, <1>8 DEF Goto
  <2>2. CancelsJoined'
    BY <1>4, <1>8 DEF CancelsJoined
  <2>3. ClosingStops'
    BY <1>1, <1>5, <1>8, <2>1 DEF ClosingStops
  <2>4. StopPending' /\ StartPending'
    BY <1>8, <2>1 DEF StopPending, StartPending, Coming, Starting
  <2> QED BY <1>8, <2>2, <2>3, <2>4 DEF FInv
<1>9. ASSUME Hold(p), Goto(p, "joining"), cancel' = cancel \cup {task},
             call = "stop", Running, task' = task
      PROVE  FInv'
  <2>1. pc'[p] = "joining" /\ \A q \in Procs \ {p} : pc'[q] = pc[q]
    BY <1>1, <1>9 DEF Goto
  <2>2. QueuedOnce' /\ StopFollowed'
    BY <1>1, <1>2, <1>9, Kept DEF StopFollowed
  <2>3. CancelsJoined'
    BY <1>4, <1>9, <2>1 DEF CancelsJoined, Running, Live
  <2>4. ClosingStops'
    BY <1>1, <1>5, <2>1 DEF ClosingStops
  <2>5. StopPending' /\ StartPending'
    BY <1>9, <2>1 DEF StopPending, StartPending, Stopping, Running, Live
  <2> QED BY <2>2, <2>3, <2>4, <2>5 DEF FInv
<1>10. CASE call # "stop" /\ subscribers' # {} /\ Hold(p) /\ Goto(p, "checking") /\ cancel' = cancel
  <2>1. QueuedOnce' /\ StopFollowed'
    BY <1>1, <1>2, <1>10, Kept DEF StopFollowed
  <2> QED BY <1>8, <1>10, <2>1
<1>11. CASE /\ call = "restart" /\ subscribers' # {} /\ cancel' = cancel
            /\ waiters # <<>> /\ holder' = Head(waiters)
            /\ waiters' = Append(Tail(waiters), p) /\ Goto(p, "start")
  <2>1. holder = p
    BY <1>1, <1>11 DEF QueuedOnce
  <2>2. QueuedOnce' /\ StopFollowed'
    BY <1>1, <1>11, <2>1, Requeued DEF StopFollowed
  <2> QED BY <1>8, <1>11, <2>2
<1> QED BY <1>7, <1>9, <1>10, <1>11, RunEffect

\* A call that is made from outside the orchestrator, with the lock free or not.
LEMMA CallFollows ==
    ASSUME IInv, FInv, NEW p \in Procs, NEW call \in Waiting,
           Call(p, call, subscribers'), pc[p] \notin Inside,
           UNCHANGED <<at, hooks, fatal>>,
           closing => closing', closing' => closing \/ p = Main,
           p = Main /\ closing' => call = "stop",
           call = "restart" => subscribers' = subscribers,
           call # "stop" => /\ subscribers' = {} => subscribers = {},
           call = "start" \/ subscribers' = subscribers \/ subscribers' = {},
           call = "stop" => subscribers' = {} \/ closing'
    PROVE  FInv'
<1>1. CASE holder = None
  <2>1. Run(p, call, subscribers') /\ pc[p] \notin {"checking", "joining", "stop"}
    BY <1>1 DEF Call, Inside, Waiting
  <2> QED BY <1>1, <2>1, RunFollows
<1>2. CASE holder # None
  <2>1. /\ waiters' = Append(waiters, p) /\ Goto(p, call)
        /\ UNCHANGED <<holder, task, cancel>>
    BY <1>2 DEF Call
  <2>2. /\ QueuedOnce /\ StopFollowed /\ CancelsJoined /\ ClosingStops
        /\ StopPending /\ StartPending
        /\ pc \in [Procs -> Places] /\ Main \in Procs
    BY DEF FInv, IInv, TypeOK, Procs
  <2>3. pc'[p] = call /\ \A q \in Procs \ {p} : pc'[q] = pc[q]
    BY <2>1, <2>2 DEF Goto
  <2>4. QueuedOnce' /\ (call # "stop" => Order')
    BY <1>2, <2>1, <2>2, Enqueued
  <2>5. StopFollowed'
    BY <2>4 DEF StopFollowed
  <2>6. \A q \in Procs : pc[q] \in {"checking", "joining", "stop"} => pc'[q] = pc[q]
    BY <2>3 DEF Inside, Waiting
  <2>7. CancelsJoined'
    BY <2>1, <2>2, <2>6 DEF CancelsJoined, Live
  <2>8. ClosingStops'
    BY <2>2, <2>3 DEF ClosingStops
  <2>9. Running' = Running
    BY <2>1 DEF Running, Live
  <2>10. StopPending'
    <3>1. CASE call = "stop"
      BY <2>3, <3>1 DEF StopPending, Stopping
    <3>2. CASE call # "stop"
      <4>1. \A q \in Procs : pc'[q] = "checking" => pc[q] = "checking"
        BY <2>3 DEF Waiting
      <4> QED BY <2>2, <2>6, <2>9, <3>2, <4>1 DEF StopPending, Stopping
    <3> QED BY <3>1, <3>2
  <2>11. StartPending'
    <3>1. CASE call = "stop"
      BY <3>1 DEF StartPending, Wanted
    <3>2. CASE call # "stop"
      BY <2>3, <3>2 DEF StartPending, Coming, Starting, Waiting
    <3> QED BY <3>1, <3>2
  <2> QED BY <2>4, <2>5, <2>7, <2>8, <2>10, <2>11 DEF FInv
<1> QED BY <1>1, <1>2

\* A coroutine that moves outside the orchestrator, while somebody stays subscribed
\* or nobody is; a failure that is no longer to be looked at has a restart asleep.
LEMMA MoveFollows ==
    ASSUME IInv, FInv, NEW p \in Procs \ {Main}, NEW place \in Places \ Inside,
           pc[p] \in {"idle", "reply"}, Goto(p, place),
           UNCHANGED <<lock, task, cancel, at, closing>>,
           subscribers = {} <=> subscribers' = {},
           Wanted' => Wanted \/ place = "sleep",
           \A l \in hooks : at[l] = "failed" => l \in hooks' \/ place = "sleep"
    PROVE  FInv'
<1>1. /\ QueuedOnce /\ StopFollowed /\ CancelsJoined /\ ClosingStops
      /\ StopPending /\ StartPending
      /\ pc \in [Procs -> Places] /\ Main \in Procs
  BY DEF FInv, IInv, TypeOK, Procs
<1>2. pc'[p] = place /\ \A q \in Procs \ {p} : pc'[q] = pc[q]
  BY <1>1 DEF Goto
<1>3. QueuedOnce' /\ StopFollowed'
  <2>1. pc[p] \notin Inside
    BY DEF Inside, Waiting
  <2> QED BY <1>1, <2>1, Moved DEF StopFollowed
<1>4. \A q \in Procs : /\ pc[q] \in {"joining", "stop"} => pc'[q] = pc[q]
                       /\ pc'[q] = "checking" => pc[q] = "checking"
                       /\ Coming(q) => Coming(q)'
  BY <1>2 DEF Inside, Waiting, Coming, Starting
<1>5. CancelsJoined'
  BY <1>1, <1>4 DEF CancelsJoined, Live
<1>6. ClosingStops'
  BY <1>1, <1>2 DEF ClosingStops
<1>7. Running' = Running
  BY DEF Running, Live
<1>8. StopPending'
  BY <1>1, <1>4, <1>7 DEF StopPending, Stopping
<1>9. StartPending'
  <2>1. CASE place = "sleep"
    BY <1>2, <2>1 DEF StartPending, Coming
  <2>2. CASE place # "sleep"
    BY <1>1, <1>4, <1>7, <2>2 DEF StartPending
  <2> QED BY <2>1, <2>2
<1> QED BY <1>3, <1>5, <1>6, <1>8, <1>9 DEF FInv

\* A command of a user.
LEMMA CommandFollows ==
    ASSUME IInv, FInv, NEW w \in Workers, NEW j \in Jids,
           _handle_start(w, j) \/ _handle_stop(w, j)
    PROVE  FInv'
<1>1. /\ w \in Procs \ {Main} /\ pc[w] = "idle" /\ pc[w] \notin Inside
      /\ "reply" \in Places \ Inside
      /\ UNCHANGED <<at, hooks, fatal, closing>>
  BY ProcsAssumption
     DEF Procs, _handle_start, _handle_stop, Inside, Waiting, Places
<1>2. CASE _handle_start(w, j)
  <2>1. subscribers' = subscribers \cup {j} /\ UNCHANGED abandoned
    BY <1>2 DEF _handle_start
  <2>2. CASE subscribers = {}
    <3>1. Call(w, "start", subscribers') /\ "start" \in Waiting
      BY <1>2, <2>2 DEF _handle_start, Waiting
    <3> QED BY <1>1, <2>1, <3>1, CallFollows
  <2>3. CASE subscribers # {}
    <3>1. Goto(w, "reply") /\ UNCHANGED <<lock, task, cancel>>
      BY <1>2, <2>3 DEF _handle_start
    <3>2. Wanted' => Wanted
      BY <1>1, <2>1, <2>3 DEF Wanted
    <3> QED BY <1>1, <2>1, <2>3, <3>1, <3>2, MoveFollows
  <2> QED BY <2>2, <2>3
<1>3. CASE _handle_stop(w, j)
  <2>1. subscribers' = subscribers \ {j} /\ abandoned' = (abandoned /\ subscribers' # {})
    BY <1>3 DEF _handle_stop
  <2>2. CASE j \in subscribers /\ subscribers' = {}
    <3>1. Call(w, "stop", subscribers') /\ "stop" \in Waiting
      BY <1>3, <2>2 DEF _handle_stop, Waiting
    <3> QED BY <1>1, <2>2, <3>1, CallFollows
  <2>3. CASE ~(j \in subscribers /\ subscribers' = {})
    <3>1. Goto(w, "reply") /\ UNCHANGED <<lock, task, cancel>>
      BY <1>3, <2>3 DEF _handle_stop
    <3>2. subscribers = {} <=> subscribers' = {}
      BY <2>1, <2>3
    <3>3. Wanted' => Wanted
      BY <1>1, <2>1, <3>2 DEF Wanted
    <3> QED BY <1>1, <3>1, <3>2, <3>3, MoveFollows
  <2> QED BY <2>2, <2>3
<1> QED BY <1>2, <1>3

\* A coroutine that resumes inside the orchestrator: a loop that is made is wanted,
\* or stopped by who comes behind.
LEMMA AwaitedFollows ==
    ASSUME IInv, FInv, NEW p \in Procs, Awaited(p)
    PROVE  FInv'
<1>1. /\ QueuedOnce /\ StopFollowed /\ CancelsJoined /\ ClosingStops
      /\ StopPending /\ StartPending
      /\ pc \in [Procs -> Places] /\ Main \in Procs
  BY DEF FInv, IInv, TypeOK, Procs
<1>2. CASE Granted(p)
  <2>1. /\ Run(p, pc[p], subscribers') /\ pc[p] \in Waiting /\ holder = p
        /\ UNCHANGED <<subscribers, closing, abandoned, at, hooks, fatal>>
    BY <1>2 DEF Granted
  <2>2. p = Main /\ closing' => pc[p] = "stop"
    BY <1>1, <2>1 DEF ClosingStops, Waiting
  <2>3. pc[p] \notin {"checking", "joining"}
    BY <2>1 DEF Waiting
  <2> QED BY <2>1, <2>2, <2>3, RunFollows
<1>3. ASSUME holder = p, pc[p] \in {"checking", "joining"}, Release, Return(p) \/ Raise(p),
             UNCHANGED <<subscribers, closing>>
      PROVE  /\ QueuedOnce' /\ StopFollowed' /\ ClosingStops'
             /\ \A q \in Procs \ {p} : pc'[q] = pc[q] /\ pc[q] \notin {"checking", "joining"}
             /\ pc'[p] \in Resting
  <2>1. PICK place \in Resting : Goto(p, place) /\ (p = Main /\ closing' => place = "leaving")
    BY <1>3, ProcsAssumption DEF Return, Raise, Resting
  <2>2. /\ pc'[p] = place
        /\ \A q \in Procs \ {p} : pc'[q] = pc[q] /\ pc[q] \notin {"checking", "joining"}
    BY <1>1, <1>3, <2>1 DEF Goto, IInv, LockHeld
  <2>3. QueuedOnce' /\ StopFollowed'
    BY <1>1, <1>3, <2>1, Released DEF StopFollowed
  <2>4. ClosingStops'
    BY <1>1, <1>3, <2>1, <2>2 DEF ClosingStops
  <2> QED BY <2>2, <2>3, <2>4
<1>4. CASE AdapterReady(p) \/ AdapterMissing(p) \/ AdapterBusy(p)
  <2>1. /\ holder = p /\ pc[p] = "checking" /\ Release /\ (Return(p) \/ Raise(p))
        /\ UNCHANGED <<subscribers, closing, cancel, hooks>>
    BY <1>4 DEF AdapterReady, AdapterMissing, AdapterBusy, IInv, LockHeld
  <2>2. /\ QueuedOnce' /\ StopFollowed' /\ ClosingStops'
        /\ \A q \in Procs \ {p} : pc'[q] = pc[q] /\ pc[q] \notin {"checking", "joining"}
        /\ pc'[p] \in Resting
    BY <1>3, <2>1
  <2>3. \A l \in Loops : l \notin cancel /\ at[l] # "aborting"
    BY <1>1, <2>1, <2>2 DEF CancelsJoined
  <2>4. \/ at' = at
        \/ \E l \in Loops : at' = [at EXCEPT ![l] = "init"]
    BY <1>4 DEF AdapterReady, AdapterMissing, AdapterBusy
  <2>5. CancelsJoined'
    BY <2>1, <2>3, <2>4 DEF CancelsJoined, IInv, TypeOK
  <2>6. StopPending'
    <3>1. subscribers = {} => \E q \in Procs \ {p} : Stopping(q)
      BY <1>1, <2>1 DEF StopPending, Stopping
    <3> QED BY <2>1, <2>2, <3>1 DEF StopPending, Stopping
  <2>7. StartPending'
    <3>1. CASE AdapterReady(p)
      <4>1. PICK l \in Loops : task' = l /\ at' = [at EXCEPT ![l] = "init"]
        BY <3>1 DEF AdapterReady
      <4>2. Running'
        BY <4>1, ProcsAssumption DEF Running, Live, Alive, IInv, TypeOK
      <4> QED BY <4>2 DEF StartPending
    <3>2. CASE AdapterMissing(p)
      BY <3>2 DEF AdapterMissing, StartPending, Wanted
    <3>3. CASE AdapterBusy(p)
      BY <3>3 DEF AdapterBusy, StartPending, Wanted
    <3> QED BY <1>4, <3>1, <3>2, <3>3
  <2> QED BY <2>2, <2>5, <2>6, <2>7 DEF FInv
<1>5. CASE Joined(p)
  <2>1. /\ holder = p /\ pc[p] = "joining" /\ Release /\ (Return(p) \/ Raise(p))
        /\ UNCHANGED <<subscribers, closing, at, cancel, hooks, fatal, abandoned>>
        /\ ~Live(task) /\ task' \in {task, None}
    BY <1>5 DEF Joined, IInv, LockHeld
  <2>2. /\ QueuedOnce' /\ StopFollowed' /\ ClosingStops'
        /\ \A q \in Procs \ {p} : pc'[q] = pc[q] /\ pc[q] \notin {"checking", "joining"}
        /\ pc'[p] \in Resting
    BY <1>3, <2>1
  <2>3. \A l \in Loops : l \notin cancel /\ at[l] # "aborting"
    BY <1>1, <2>1 DEF CancelsJoined, IInv, OnlyTask
  <2>4. CancelsJoined'
    BY <2>1, <2>3 DEF CancelsJoined
  <2>5. ~Running /\ ~Running'
    BY <2>1 DEF Running, Live
  <2>6. StopPending'
    BY <2>2, <2>5 DEF StopPending, Resting
  <2>7. StartPending'
    <3>1. \A q \in Procs : Coming(q) => Coming(q)'
      BY <2>1, <2>2 DEF Coming, Starting
    <3> QED BY <1>1, <2>1, <2>5, <3>1 DEF StartPending, Wanted
  <2> QED BY <2>2, <2>4, <2>6, <2>7 DEF FInv
<1> QED BY <1>2, <1>4, <1>5 DEF Awaited

\* A failure is followed by a restart, or by the end of the program.
LEMMA FailureFollows ==
    ASSUME IInv, FInv, NEW l \in Loops, _log_task_failure(l)
    PROVE  FInv'
<1>1. /\ l \in hooks /\ hooks' = hooks \ {l}
      /\ fatal' = (fatal \/ at[l] = "fatal")
      /\ UNCHANGED <<subscribers, lock, closing, task, at, cancel, abandoned>>
  BY DEF _log_task_failure
<1>2. Wanted' => Wanted
  BY <1>1 DEF Wanted
<1>3. CASE \E r \in Restarters : pc[r] = "idle" /\ Goto(r, "sleep")
  <2>1. PICK r \in Restarters : pc[r] = "idle" /\ Goto(r, "sleep")
    BY <1>3
  <2>2. r \in Procs \ {Main} /\ "sleep" \in Places \ Inside
    BY ProcsAssumption DEF Procs, Places, Inside, Waiting
  <2> QED BY <1>1, <1>2, <2>1, <2>2, MoveFollows
<1>4. CASE UNCHANGED pc /\ ~(at[l] = "failed" /\ subscribers # {})
  <2>1. UNCHANGED <<pc, holder, waiters>>
    BY <1>1, <1>4 DEF lock
  <2>2. QueuedOnce' /\ StopFollowed' /\ CancelsJoined' /\ ClosingStops' /\ StopPending'
    BY <1>1, <2>1
       DEF FInv, QueuedOnce, StopFollowed, Order, CancelsJoined, ClosingStops, StopPending,
           Stopping, Starting, Running, Live
  <2>3. Running' = Running /\ \A q \in Procs : Coming(q)' = Coming(q)
    BY <1>1, <2>1 DEF Running, Live, Coming, Starting
  <2>4. \A m \in hooks : Wanted /\ at[m] = "failed" => m \in hooks'
    BY <1>1, <1>4 DEF Wanted
  <2>5. StartPending'
    BY <1>1, <1>2, <2>3, <2>4 DEF FInv, StartPending
  <2> QED BY <2>2, <2>5 DEF FInv
<1> QED BY <1>3, <1>4 DEF _log_task_failure

\* How a loop can end: by itself when nobody is subscribed, by a cancellation, by a
\* failure or by a fatal error.
LEMMA LoopEffect ==
    ASSUME NEW l \in Loops, LoopStep(l)
    PROVE  /\ LoopFrame /\ Live(l)
           /\ cancel' \subseteq cancel /\ l \notin cancel'
           /\ \A m \in cancel : m \in cancel' \/ m = l
           /\ \E state \in Alive \cup Ended :
                  /\ Become(l, state)
                  /\ state = "returned" => subscribers = {}
                  /\ state = "cancelled" => l \in cancel \/ at[l] = "aborting"
                  /\ state = "aborting" => l \in cancel
<1> USE DEF Undisturbed, Live, Alive, Ended, NextAttempt, LoopFrame
<1>1. CASE FirstAttempt(l)
  BY <1>1 DEF FirstAttempt
<1>2. CASE SessionEnds(l)
  BY <1>2 DEF SessionEnds
<1>3. CASE CleanedUp(l)
  BY <1>3 DEF CleanedUp
<1>4. CASE ProbeFinds(l)
  BY <1>4 DEF ProbeFinds
<1>5. CASE ProbeEnds(l)
  BY <1>5 DEF ProbeEnds
<1>6. CASE Cancelled(l)
  BY <1>6 DEF Cancelled
<1>7. CASE Aborted(l)
  BY <1>7 DEF Aborted
<1> QED BY <1>1, <1>2, <1>3, <1>4, <1>5, <1>6, <1>7 DEF LoopStep

\* A loop that ends while it is wanted has a start() behind the stop() that ended
\* it, or a failure to be looked at.
LEMMA LoopFollows ==
    ASSUME IInv, FInv, NEW l \in Loops, LoopStep(l)
    PROVE  FInv'
<1>1. /\ QueuedOnce /\ StopFollowed /\ CancelsJoined /\ ClosingStops
      /\ StopPending /\ StartPending
  BY DEF FInv
<1>2. /\ UNCHANGED <<subscribers, holder, waiters, pc, closing, task, fatal, abandoned>>
      /\ Live(l) /\ cancel' \subseteq cancel /\ l \notin cancel'
  BY LoopEffect DEF LoopFrame, lock
<1>3. PICK state \in Alive \cup Ended :
          /\ Become(l, state)
          /\ state = "returned" => subscribers = {}
          /\ state = "cancelled" => l \in cancel \/ at[l] = "aborting"
          /\ state = "aborting" => l \in cancel
  BY LoopEffect
<1>4. /\ at'[l] = state /\ \A m \in Loops \ {l} : at'[m] = at[m]
      /\ hooks' = IF state \in Ended THEN hooks \cup {l} ELSE hooks
      /\ hooks \subseteq Loops /\ task \in Loops \cup {None}
  BY <1>3 DEF Become, IInv, TypeOK
<1>5. QueuedOnce' /\ StopFollowed' /\ ClosingStops'
  BY <1>1, <1>2
     DEF QueuedOnce, StopFollowed, Order, ClosingStops, Stopping, Starting
<1>6. CancelsJoined'
  <2> SUFFICES ASSUME NEW m \in Loops, m \in cancel' \/ at'[m] = "aborting"
               PROVE  at'[m] \in Alive /\ \E p \in Procs : pc[p] = "joining"
    BY <1>2 DEF CancelsJoined, Live
  <2>1. CASE m = l
    BY <1>1, <1>2, <1>3, <1>4, <2>1 DEF CancelsJoined, Alive
  <2>2. CASE m # l
    BY <1>1, <1>2, <1>4, <2>2 DEF CancelsJoined, Live
  <2> QED BY <2>1, <2>2
<1>7. Running' => Running
  BY <1>2, <1>4 DEF Running, Live
<1>8. StopPending'
  BY <1>1, <1>2, <1>7 DEF StopPending, Stopping
<1>9. StartPending'
  <2> SUFFICES ASSUME Wanted', ~Running'
               PROVE  (\E p \in Procs : Coming(p)) \/ \E m \in hooks' : at'[m] = "failed"
    BY <1>2 DEF StartPending, Coming, Starting
  <2>1. \A m \in hooks : m # l \/ at[m] \in Alive
    BY <1>2 DEF Live
  <2>2. Wanted /\ state # "fatal"
    BY <1>2, <1>4, <2>1 DEF Wanted, Alive, Ended
  <2>3. (\E m \in hooks : at[m] = "failed") => \E m \in hooks' : at'[m] = "failed"
    BY <1>4, <2>1 DEF Alive
  <2>4. CASE Running
    <3>1. l = task /\ state \in Ended
      BY <1>2, <1>3, <1>4, <2>4 DEF Running, Live
    <3>2. CASE state = "failed"
      BY <1>4, <3>1, <3>2
    <3>3. CASE state = "cancelled"
      <4>1. PICK p \in Procs : pc[p] = "joining"
        BY <1>1, <1>3, <3>3 DEF CancelsJoined
      <4>2. holder = p /\ holder # None /\ Stopping(holder)
        BY <4>1, ProcsAssumption DEF IInv, LockHeld, Stopping
      <4>3. PICK j \in DOMAIN waiters : Starting(waiters[j])
        BY <1>1, <2>2, <4>2 DEF StopFollowed, Order, Wanted
      <4>4. waiters[j] \in Procs
        BY ElementOfSeq, LenProperties DEF IInv, TypeOK
      <4> QED BY <4>3, <4>4 DEF Coming
    <3> QED BY <1>3, <2>2, <3>1, <3>2, <3>3 DEF Ended, Wanted
  <2>5. CASE ~Running
    BY <1>1, <2>2, <2>3, <2>5 DEF StartPending
  <2> QED BY <2>4, <2>5
<1> QED BY <1>5, <1>6, <1>8, <1>9 DEF FInv

\* main.run() at its start and in its finally block.
LEMMA MainFollows ==
    ASSUME IInv, FInv, sync \/ OnFatal \/ Interrupt
    PROVE  FInv'
<1>1. /\ Main \in Procs /\ "start" \in Waiting /\ "stop" \in Waiting
      /\ UNCHANGED <<subscribers, at, hooks, fatal>>
      /\ pc[Main] \in {"booting", "watching"} /\ pc[Main] \notin Inside
  BY DEF Procs, Waiting, Inside, sync, OnFatal, Interrupt, Close
<1>2. ~closing
  BY <1>1 DEF FInv, ClosingStops
<1>3. CASE sync
  <2>1. closing' = closing
    BY <1>3 DEF sync
  <2>2. CASE subscribers # {}
    <3>1. Call(Main, "start", subscribers')
      BY <1>1, <1>3, <2>2 DEF sync
    <3> QED BY <1>1, <1>2, <2>1, <3>1, CallFollows
  <2>3. CASE subscribers = {}
    <3>1. Call(Main, "stop", subscribers')
      BY <1>1, <1>3, <2>3 DEF sync
    <3> QED BY <1>1, <1>2, <2>1, <2>3, <3>1, CallFollows
  <2> QED BY <2>2, <2>3
<1>4. CASE OnFatal \/ Interrupt
  <2>1. closing' = TRUE /\ Call(Main, "stop", subscribers')
    BY <1>1, <1>4 DEF OnFatal, Interrupt, Close
  <2> QED BY <1>1, <2>1, CallFollows
<1> QED BY <1>3, <1>4

\* A new process starts by asking for the loop that is wanted.
LEMMA NewProcessFollows ==
    ASSUME IInv, NewProcess
    PROVE  FInv'
<1>1. /\ Main \in Procs /\ pc'[Main] = "booting"
      /\ \A p \in Procs : pc'[p] \in {"booting", "idle"}
      /\ holder' = None /\ waiters' = <<>> /\ ~closing' /\ task' = None
      /\ cancel' = {} /\ hooks' = {} /\ \A l \in Loops : at'[l] = "unused"
  BY DEF NewProcess, Procs
<1>2. QueuedOnce' /\ StopFollowed' /\ CancelsJoined' /\ ClosingStops'
  BY <1>1 DEF QueuedOnce, StopFollowed, Order, CancelsJoined, ClosingStops
<1>3. StopPending' /\ StartPending'
  BY <1>1 DEF StopPending, StartPending, Running, Coming
<1> QED BY <1>2, <1>3 DEF FInv

\* So does the first one.
LEMMA InitFollows == Init => FInv
<1> SUFFICES ASSUME Init
             PROVE  FInv
    OBVIOUS
<1>1. /\ Main \in Procs /\ pc[Main] = "booting"
      /\ \A p \in Procs : pc[p] \in {"booting", "idle"}
      /\ holder = None /\ waiters = <<>> /\ ~closing /\ task = None
      /\ cancel = {} /\ hooks = {} /\ \A l \in Loops : at[l] = "unused"
  BY DEF Init, Procs
<1>2. QueuedOnce /\ StopFollowed /\ CancelsJoined /\ ClosingStops
  BY <1>1 DEF QueuedOnce, StopFollowed, Order, CancelsJoined, ClosingStops
<1>3. StopPending /\ StartPending
  BY <1>1 DEF StopPending, StartPending, Running, Coming
<1> QED BY <1>2, <1>3 DEF FInv

\* Every step keeps the invariant.
LEMMA StepFollows == IInv /\ FInv /\ [Next]_vars => FInv'
<1> SUFFICES ASSUME IInv, FInv, [Next]_vars
             PROVE  FInv'
    OBVIOUS
<1>1. ASSUME NEW w \in Workers, NEW j \in Jids, _handle_start(w, j) \/ _handle_stop(w, j)
      PROVE  FInv'
    BY <1>1, CommandFollows
<1>2. ASSUME NEW w \in Workers, Reply(w)
      PROVE  FInv'
  <2>1. w \in Procs \ {Main} /\ "idle" \in Places \ Inside
      BY ProcsAssumption DEF Procs, Places, Inside, Waiting
  <2>2. /\ Goto(w, "idle") /\ pc[w] = "reply"
        /\ UNCHANGED <<lock, task, at, cancel, closing, subscribers, hooks, fatal, abandoned>>
      BY <1>2 DEF Reply
  <2>3. Wanted' => Wanted
      BY <2>2 DEF Wanted
  <2> QED BY <2>1, <2>2, <2>3, MoveFollows
<1>3. ASSUME NEW p \in Procs, Awaited(p)
      PROVE  FInv'
    BY <1>3, AwaitedFollows
<1>4. ASSUME NEW r \in Restarters, _restart_after_failure(r)
      PROVE  FInv'
  <2>1. r \in Procs /\ r # Main /\ "restart" \in Waiting
      BY ProcsAssumption DEF Procs, Waiting
  <2>2. /\ pc[r] = "sleep" /\ pc[r] \notin Inside /\ Call(r, "restart", subscribers')
        /\ UNCHANGED <<subscribers, closing, at, hooks, fatal>>
      BY <1>4 DEF _restart_after_failure, Inside, Waiting
  <2> QED BY <2>1, <2>2, CallFollows
<1>5. ASSUME NEW l \in Loops, _log_task_failure(l) \/ LoopStep(l)
      PROVE  FInv'
    BY <1>5, FailureFollows, LoopFollows
<1>6. CASE sync \/ OnFatal \/ Interrupt
    BY <1>6, MainFollows
<1>7. CASE Exit \/ Crash
    BY <1>7, NewProcessFollows DEF Exit, Crash
<1>8. CASE UNCHANGED vars
    BY <1>8 DEF vars, lock, FInv, QueuedOnce, StopFollowed, Order, CancelsJoined,
       ClosingStops, StopPending, StartPending, Wanted, Coming, Starting, Stopping,
       Running, Live
<1> QED BY <1>1, <1>2, <1>3, <1>4, <1>5, <1>6, <1>7, <1>8 DEF Next

\* Monitoring follows the list of subscribers, for any number of users, commands
\* and restarts: once nothing is under way, the loop runs if and only if somebody
\* is subscribed, unless a start() was abandoned (start, stop,
\* _restart_after_failure, and the order in which asyncio.Lock is handed over).
THEOREM MonitoringFollows == Spec => []FollowsSubscribers
<1>1. Init => FInv
    BY InitFollows
<1>2. IInv /\ FInv /\ [Next]_vars => FInv'
    BY StepFollows
<1>3. FInv => FollowsSubscribers
  <2> SUFFICES ASSUME FInv, Settled, ~abandoned
               PROVE  Running <=> subscribers # {}
      BY DEF FollowsSubscribers
  <2>1. \A p \in Procs : pc[p] \in {"idle", "reply", "watching"}
      BY DEF Settled, Procs
  <2>2. CASE subscribers = {}
      BY <2>1, <2>2 DEF FInv, StopPending, Stopping
  <2>3. CASE subscribers # {}
    <3>1. Wanted
        BY <2>3 DEF Wanted, Settled, FInv, ClosingStops
    <3>2. \A p \in Procs : ~Coming(p)
        BY <2>1 DEF Coming, Starting
    <3> QED BY <2>3, <3>1, <3>2 DEF FInv, StartPending, Settled
  <2> QED BY <2>2, <2>3
<1> QED BY <1>1, <1>2, <1>3, Invariance, PTL DEF Spec
=============================================================================
