------------------------- MODULE SensorValveProofs -------------------------
(***************************************************************************)
(* That the state the bot shows under valve control is that of the valve,  *)
(* for any number of simultaneous notifications.                           *)
(*                                                                         *)
(* Whatever older state is still in asyncio's queue has the notified one   *)
(* behind it (CoveredUp), and as long as the bot does not show it, it is   *)
(* in the queue or is going to be looked at (ToCome).                      *)
(***************************************************************************)
EXTENDS SensorSessionProofs, SequenceTheorems

Queue == Seq(Appliers)

-----------------------------------------------------------------------------
(***************************************************************************)
(* The invariant.                                                          *)
(***************************************************************************)

\* TypeOK but for the appliers and their queue.
SensorOK ==
    /\ by \in {"notify", "read"}
    /\ valve \in BOOLEAN
    /\ link \in {"none", "up", "down"}
    /\ subscribed \subseteq {"state", "control"}
    /\ notice \in BOOLEAN
CourseOK ==
    /\ bus \in {"closed", "opening", "agent", "registered"}
    /\ place \in {"over"} \cup Pairing \cup Monitoring \cup Leaving
    /\ outcome \in {None, "ended", "cancelled", "fatal"}
    /\ cancel \in {"no", "requested", "delivered"}
    /\ disconnected \in BOOLEAN
    /\ session_active \in BOOLEAN
    /\ watch \in {"none", "running", "over"}
    /\ parted \in BOOLEAN
    /\ spoilt \in BOOLEAN
ValveOK ==
    /\ valve_control_active \in BOOLEAN
    /\ valve_open \in BOOLEAN \cup {None}
    /\ valve_state_last_seen \in BOOLEAN \cup {None}
    /\ missed \in BOOLEAN

\* An applier is in the queue once, with something to do.
AppliersOK ==
    /\ doing \in [Appliers -> Doings]
    /\ arg \in [Appliers -> BOOLEAN \cup {None}]
QueueOK ==
    /\ ready \in Queue
    /\ \A i, j \in DOMAIN ready : ready[i] = ready[j] => i = j
    /\ \A i \in DOMAIN ready : doing[ready[i]] \in Works

\* What has been notified is there to be applied.
ArgKnown ==
    \A p \in Appliers :
        doing[p] \in {"applying_control", "applying_state"} => arg[p] \in BOOLEAN

\* Nothing is notified, and nothing polled, before it is subscribed to.
Fresh == place \in Pairing \cup {"subscribing"} => subscribed = {}
PollLate == place \in Pairing \cup {"subscribing", "control"} => doing[Poll] = "idle"

\* The valve has not moved since it was last notified.
Seen ==
    valve_state_last_seen # None
        => "state" \in subscribed /\ valve_state_last_seen = valve

TInv ==
    /\ SensorOK /\ CourseOK /\ ValveOK /\ AppliersOK /\ QueueOK
    /\ ArgKnown /\ Fresh /\ PollLate /\ Seen

\* The valve has been notified, and not in vain.
Following == place \in Monitoring /\ valve_state_last_seen # None /\ ~missed

\* p is going to apply a state.
Bears(p) == doing[p] \in {"applying_state", "asking"}

\* The place in the queue of a notification that is true.
Tells(j) == doing[ready[j]] = "applying_state" /\ arg[ready[j]] = valve

\* A state in the queue that is not the valve's has the valve's behind it.
CoveredUp ==
    Following =>
        \A i \in DOMAIN ready :
            Bears(ready[i]) /\ arg[ready[i]] \notin {None, valve}
                => \E j \in DOMAIN ready : j > i /\ Tells(j)

\* What the bot does not show yet is in the queue, or an applier that has just
\* turned the control on is going to look.
ToCome ==
    Following /\ link = "up" /\ valve_control_active =>
        \/ valve_open = valve
        \/ \E p \in Appliers : doing[p] = "enabling"
        \/ \E j \in DOMAIN ready : Tells(j)

VInv == CoveredUp /\ ToCome

-----------------------------------------------------------------------------
(***************************************************************************)
(* The queue.                                                              *)
(***************************************************************************)

\* The places of a queue and of the one that is longer by an applier.
LEMMA Longer ==
    ASSUME NEW q \in Queue, NEW p \in Appliers
    PROVE  /\ Append(q, p) \in Queue /\ Len(q) \in Nat
           /\ DOMAIN q = 1..Len(q) /\ DOMAIN Append(q, p) = 1..(Len(q) + 1)
           /\ \A i \in 1..Len(q) : Append(q, p)[i] = q[i]
           /\ Append(q, p)[Len(q) + 1] = p
<1>1. /\ Append(q, p) \in Queue /\ Len(Append(q, p)) = Len(q) + 1
      /\ \A i \in 1..Len(q) : Append(q, p)[i] = q[i]
      /\ Append(q, p)[Len(q) + 1] = p
  BY AppendProperties DEF Queue
<1>2. Len(q) \in Nat /\ DOMAIN q = 1..Len(q)
  BY LenProperties DEF Queue
<1>3. DOMAIN Append(q, p) = 1..Len(Append(q, p))
  BY <1>1, LenProperties DEF Queue
<1>4. QED
  BY <1>1, <1>2, <1>3

\* The places of a queue and of what is behind its head.
LEMMA Shorter ==
    ASSUME NEW q \in Queue, q # <<>>
    PROVE  /\ Tail(q) \in Queue /\ Head(q) \in Appliers /\ Head(q) = q[1]
           /\ Len(q) \in Nat \ {0} /\ DOMAIN q = 1..Len(q)
           /\ DOMAIN Tail(q) = 1..(Len(q) - 1)
           /\ \A i \in 1..(Len(q) - 1) : Tail(q)[i] = q[i + 1]
<1>1. /\ Head(q) \in Appliers /\ Tail(q) \in Queue /\ Len(Tail(q)) = Len(q) - 1
      /\ \A i \in 1..Len(Tail(q)) : Tail(q)[i] = q[i + 1]
  BY HeadTailProperties DEF Queue
<1>2. Len(q) \in Nat \ {0} /\ DOMAIN q = 1..Len(q)
  BY EmptySeq, LenProperties DEF Queue
<1>3. DOMAIN Tail(q) = 1..Len(Tail(q))
  BY <1>1, LenProperties DEF Queue
<1>4. Head(q) = q[1]
  BY DEF Queue
<1>5. QED
  BY <1>1, <1>2, <1>3, <1>4

\* A coroutine that is cancelled leaves the queue to the others.
LEMMA Fewer ==
    ASSUME QueueOK, NEW p \in Appliers
    PROVE  /\ Without(p) \in Queue
           /\ \A i, j \in DOMAIN Without(p) : Without(p)[i] = Without(p)[j] => i = j
           /\ \A i \in DOMAIN Without(p) :
                  Without(p)[i] # p /\ \E j \in DOMAIN ready : Without(p)[i] = ready[j]
<1>1. CASE NotQueued(p)
  BY <1>1 DEF QueueOK, Without, NotQueued
<1>2. CASE ~NotQueued(p)
  <2> DEFINE k == CHOOSE i \in DOMAIN ready : ready[i] = p
             n == Len(ready)
             new == [i \in 1..(n - 1) |-> ready[IF i < k THEN i ELSE i + 1]]
  <2>1. n \in Nat /\ DOMAIN ready = 1..n /\ \A i \in 1..n : ready[i] \in Appliers
    BY LenProperties, ElementOfSeq DEF QueueOK, Queue
  <2>2. k \in 1..n /\ ready[k] = p
    BY <1>2, <2>1 DEF NotQueued
  <2>3. Without(p) = new
    BY <1>2 DEF Without
  <2> HIDE DEF k, n
  <2>4. \A i \in 1..(n - 1) : /\ (IF i < k THEN i ELSE i + 1) \in 1..n \ {k}
                              /\ \A j \in 1..(n - 1) : (IF i < k THEN i ELSE i + 1)
                                      = (IF j < k THEN j ELSE j + 1) => i = j
    BY <2>1, <2>2
  <2>5. \A i \in 1..(n - 1) : \E j \in 1..n \ {k} :
            j = (IF i < k THEN i ELSE i + 1) /\ new[i] = ready[j]
    BY <2>4
  <2>6. DOMAIN new = 1..(n - 1) /\ \A i \in 1..(n - 1) : new[i] \in Appliers
    BY <2>1, <2>5
  <2>7. n - 1 \in Nat
    BY <2>1, <2>2
  <2>8. new \in Queue
    BY <2>6, <2>7, SeqDef DEF Queue
  <2>9. \A i \in DOMAIN new : new[i] # p /\ \E j \in DOMAIN ready : new[i] = ready[j]
    BY <2>1, <2>2, <2>5, <2>6 DEF QueueOK
  <2>10. \A i, j \in DOMAIN new : new[i] = new[j] => i = j
    BY <2>1, <2>4, <2>5, <2>6 DEF QueueOK
  <2> HIDE DEF new
  <2>11. QED
    BY <2>3, <2>8, <2>9, <2>10
<1>3. QED
  BY <1>1, <1>2

-----------------------------------------------------------------------------
(***************************************************************************)
(* The steps of the appliers.                                              *)
(***************************************************************************)

\* A step that leaves the appliers and the valve alone.
LEMMA Untouched ==
    ASSUME UNCHANGED <<doing, arg, ready>>
    PROVE  /\ AppliersOK => AppliersOK'
           /\ QueueOK => QueueOK'
           /\ ArgKnown => ArgKnown'
BY DEF AppliersOK, QueueOK, ArgKnown

LEMMA Quiet ==
    ASSUME VInv, UNCHANGED <<doing, arg, ready, valve, valveVars>>,
           Following' => Following, Following' /\ link' = "up" => link = "up"
    PROVE  VInv'
<1>1. UNCHANGED <<valve_control_active, valve_open, valve_state_last_seen, missed>>
  BY DEF valveVars
<1>2. CoveredUp'
  BY <1>1 DEF VInv, CoveredUp, Bears, Tells
<1>3. ToCome'
  BY <1>1 DEF VInv, ToCome, Tells
<1>4. QED
  BY <1>2, <1>3 DEF VInv

\* An applier that has something to do becomes ready.
LEMMA BecomesReady ==
    ASSUME TInv, NEW p \in Appliers, NotQueued(p),
           ready' = Append(ready, p),
           AppliersOK', doing'[p] \in Works,
           \A q \in Appliers \ {p} : doing'[q] = doing[q] /\ arg'[q] = arg[q]
    PROVE  /\ QueueOK'
           /\ \A i \in DOMAIN ready : /\ i \in DOMAIN ready' /\ ready'[i] = ready[i]
                                      /\ ready[i] \in Appliers \ {p}
           /\ Len(ready) \in Nat /\ DOMAIN ready = 1..Len(ready)
           /\ \A i \in DOMAIN ready' : i \in DOMAIN ready \/ i = Len(ready) + 1
           /\ Len(ready) + 1 \in DOMAIN ready' /\ ready'[Len(ready) + 1] = p
<1> DEFINE n == Len(ready)
<1>1. /\ ready' \in Queue /\ n \in Nat /\ DOMAIN ready = 1..n /\ DOMAIN ready' = 1..(n + 1)
      /\ \A i \in 1..n : ready'[i] = ready[i]
      /\ ready'[n + 1] = p
  BY Longer DEF TInv, QueueOK
<1>2. \A i \in DOMAIN ready : ready[i] \in Appliers \ {p}
  BY ElementOfSeq, <1>1 DEF TInv, QueueOK, Queue, NotQueued
<1> HIDE DEF n
<1>3. \A i \in DOMAIN ready' : i \in DOMAIN ready \/ i = n + 1
  BY <1>1
<1>4. \A i \in DOMAIN ready : i \in DOMAIN ready' /\ ready'[i] = ready[i] /\ i # n + 1
  BY <1>1
<1>5. \A i, j \in DOMAIN ready' : ready'[i] = ready'[j] => i = j
  BY <1>1, <1>2, <1>3, <1>4 DEF TInv, QueueOK
<1>6. \A i \in DOMAIN ready' : doing'[ready'[i]] \in Works
  BY <1>1, <1>2, <1>3, <1>4 DEF TInv, QueueOK
<1>7. QED
  BY <1>1, <1>2, <1>3, <1>4, <1>5, <1>6 DEF QueueOK, n

\* It brings nothing, or the state of the valve.
LEMMA BringsTruth ==
    ASSUME TInv, VInv, NEW p \in Appliers, NotQueued(p),
           ready' = Append(ready, p),
           AppliersOK', doing'[p] \in Works,
           \A q \in Appliers \ {p} : doing'[q] = doing[q] /\ arg'[q] = arg[q],
           Bears(p)' => arg'[p] \in {None, valve},
           doing[p] = "enabling" => doing'[p] = "enabling",
           UNCHANGED <<valve, link, place, valveVars>>
    PROVE  QueueOK' /\ VInv'
<1> DEFINE n == Len(ready)
<1>1. /\ QueueOK' /\ n \in Nat /\ DOMAIN ready = 1..n
      /\ \A i \in DOMAIN ready : /\ i \in DOMAIN ready' /\ ready'[i] = ready[i]
                                 /\ ready[i] \in Appliers \ {p}
      /\ \A i \in DOMAIN ready' : i \in DOMAIN ready \/ i = n + 1
      /\ ready'[n + 1] = p
  BY BecomesReady
<1> HIDE DEF n
<1>2. /\ UNCHANGED <<valve_control_active, valve_open, valve_state_last_seen, missed>>
      /\ Following' => Following
  BY DEF valveVars, Following
<1>3. \A i \in DOMAIN ready : (Bears(ready[i])' => Bears(ready[i])) /\ (Tells(i) => Tells(i)')
  BY <1>1 DEF Bears, Tells
<1>4. CoveredUp'
  <2>1. SUFFICES ASSUME Following', NEW i \in DOMAIN ready', Bears(ready[i])',
                        arg'[ready'[i]] \notin {None, valve}
                 PROVE  \E j \in DOMAIN ready' : j > i /\ Tells(j)'
    BY DEF CoveredUp
  <2>2. i \in DOMAIN ready
    BY <1>1, <2>1
  <2>3. doing'[ready[i]] = doing[ready[i]] /\ arg'[ready[i]] = arg[ready[i]]
    BY <1>1, <2>2
  <2>4. Bears(ready[i]) /\ arg[ready[i]] \notin {None, valve}
    BY <1>1, <2>1, <2>2, <2>3 DEF Bears
  <2>5. PICK j \in DOMAIN ready : j > i /\ Tells(j)
    BY <1>2, <2>1, <2>2, <2>4 DEF VInv, CoveredUp
  <2>6. QED
    BY <1>1, <1>3, <2>5
<1>5. ToCome'
  <2>1. SUFFICES ASSUME Following, link = "up", valve_control_active
                 PROVE  \/ valve_open = valve
                        \/ \E q \in Appliers : doing'[q] = "enabling"
                        \/ \E j \in DOMAIN ready' : Tells(j)'
    BY <1>2 DEF ToCome
  <2>2. \A q \in Appliers : doing[q] = "enabling" => doing'[q] = "enabling"
    OBVIOUS
  <2>3. QED
    BY <1>1, <1>3, <2>1, <2>2 DEF VInv, ToCome
<1>6. QED
  BY <1>1, <1>4, <1>5 DEF VInv

\* What is behind an applier that is resumed.
LEMMA Behind ==
    ASSUME TInv, ready # <<>>, ready' = Tail(ready) \/ ready' = ready
    PROVE  /\ 1 \in DOMAIN ready /\ Head(ready) = ready[1] /\ ready' \in Queue
           /\ \A i \in DOMAIN ready : i # 1 => i > 1 /\ ready[i] \in Appliers \ {ready[1]}
           /\ \A i \in DOMAIN ready' : \/ i = 1 /\ ready' = ready
                                       \/ \E k \in DOMAIN ready : k # 1 /\ ready'[i] = ready[k]
           /\ \A i \in DOMAIN ready', j, k \in DOMAIN ready :
                  k # 1 /\ ready'[i] = ready[k] /\ j > k
                      => \E m \in DOMAIN ready' : m > i /\ ready'[m] = ready[j]
           /\ \A j \in DOMAIN ready : j # 1 => \E m \in DOMAIN ready' : ready'[m] = ready[j]
           /\ \A i, j \in DOMAIN ready' : ready'[i] = ready'[j] => i = j
<1> DEFINE n == Len(ready)
<1>1. /\ Tail(ready) \in Queue /\ Head(ready) = ready[1] /\ n \in Nat \ {0}
      /\ DOMAIN ready = 1..n /\ DOMAIN Tail(ready) = 1..(n - 1)
      /\ \A i \in 1..(n - 1) : Tail(ready)[i] = ready[i + 1]
  BY Shorter DEF TInv, QueueOK
<1>2. /\ \A i, j \in DOMAIN ready : ready[i] = ready[j] => i = j
      /\ \A i \in DOMAIN ready : ready[i] \in Appliers
      /\ ready \in Queue
  BY ElementOfSeq, <1>1 DEF TInv, QueueOK, Queue
<1> HIDE DEF n
<1>3. 1 \in DOMAIN ready /\ \A i \in DOMAIN ready : i # 1 => i > 1 /\ ready[i] # ready[1]
  BY <1>1, <1>2
<1>4. CASE ready' = ready
  BY <1>1, <1>2, <1>3, <1>4
<1>5. CASE ready' = Tail(ready)
  <2>1. /\ \A i \in DOMAIN ready' : /\ i \in Nat /\ i + 1 \in DOMAIN ready /\ i + 1 # 1
                                    /\ ready'[i] = ready[i + 1]
        /\ \A j \in DOMAIN ready : j # 1 => j - 1 \in DOMAIN ready' /\ ready'[j - 1] = ready[j]
    BY <1>1, <1>5
  <2>2. ASSUME NEW i \in DOMAIN ready', NEW j \in DOMAIN ready, NEW k \in DOMAIN ready,
               k # 1, ready'[i] = ready[k], j > k
        PROVE  \E m \in DOMAIN ready' : m > i /\ ready'[m] = ready[j]
    <3>1. k = i + 1
      BY <1>2, <2>1, <2>2
    <3>2. j # 1 /\ j - 1 > i
      BY <1>1, <1>3, <2>1, <2>2, <3>1
    <3>3. QED
      BY <2>1, <3>2
  <2>3. ASSUME NEW i \in DOMAIN ready', NEW j \in DOMAIN ready', ready'[i] = ready'[j]
        PROVE  i = j
    <3>1. i + 1 = j + 1
      BY <1>2, <2>1, <2>3
    <3>2. QED
      BY <2>1, <3>1
  <2>4. \A j \in DOMAIN ready : j # 1 => \E m \in DOMAIN ready' : ready'[m] = ready[j]
    BY <2>1
  <2>5. \A i \in DOMAIN ready' : \E k \in DOMAIN ready : k # 1 /\ ready'[i] = ready[k]
    BY <2>1
  <2>6. QED
    BY <1>1, <1>2, <1>3, <1>5, <2>2, <2>3, <2>4, <2>5
<1>6. QED
  BY <1>4, <1>5

\* The appliers and their places.
LEMMA Names ==
    /\ Session \in Appliers /\ Poll \in Appliers /\ Session # Poll
    /\ Tasks \subseteq Appliers /\ Session \notin Tasks /\ Poll \notin Tasks
    /\ None \notin BOOLEAN
    /\ Doings = {"idle", "pausing", "over"} \cup Works
    /\ Works = {"applying_control", "applying_state", "enabling", "telling", "asking", "reading"}
    /\ Sending = {"enabling", "telling"} /\ Reading = {"asking", "reading"}
BY AppliersAssumption DEF Appliers, Doings, Works, Sending, Reading

\* What a resumed applier does with what it was to apply.
LEMMA RunApplies ==
    ASSUME TInv, SInv, NEW p \in Appliers, Run(p)
    PROVE  /\ AppliersOK'
           /\ valve_control_active' \in BOOLEAN /\ valve_open' \in BOOLEAN \cup {None}
           /\ ready # <<>> /\ p = Head(ready)
           /\ ready' = Tail(ready) \/ ready' = ready
           /\ ready' = ready => doing'[p] \in Sending
           /\ doing'[p] \notin {"applying_control", "applying_state"}
           /\ \A q \in Appliers \ {p} :
                  /\ arg'[q] = arg[q]
                  /\ \/ doing'[q] = doing[q]
                     \/ q = Poll /\ p = Session /\ doing[q] = "idle" /\ doing'[q] = "pausing"
           /\ place' = place \/ (place = "control" /\ place' = "temperature")
           /\ PollLate'
           /\ UNCHANGED <<by, valve, link, subscribed, valve_state_last_seen, missed>>
<1>1. Segment(p) /\ p = Head(ready) /\ ready # <<>> /\ arg' = [arg EXCEPT ![p] = None]
  BY DEF Run
<1>2. doing \in [Appliers -> Doings] /\ arg \in [Appliers -> BOOLEAN \cup {None}]
  BY DEF TInv, AppliersOK
<1>3. doing[p] \in Works
  BY <1>1, Behind DEF TInv, QueueOK, Run
<1>4. UNCHANGED <<by, valve, link, subscribed, valve_state_last_seen, missed>>
  BY DEF Run, sensor, connection
<1>5. /\ doing' \in [Appliers -> Doings]
      /\ doing'[p] \notin {"applying_control", "applying_state"}
      /\ \A q \in Appliers \ {p} : \/ doing'[q] = doing[q]
                                   \/ q = Poll /\ p = Session /\ doing'[q] = "pausing"
      /\ place' = place \/ (p = Session /\ place' = "temperature")
      /\ doing'[Poll] = doing[Poll] \/ p = Poll \/ place' = "temperature"
  <2>1. (\E w \in Sending \cup Reading : Goto(p, w)) \/ Finish(p)
    BY <1>1, Names
       DEF Segment, apply_valve_state, report_initial_valve_state, apply_valve_control_state
  <2>2. CASE \E w \in Sending \cup Reading : Goto(p, w)
    BY <1>2, <2>2, Names DEF Goto
  <2>3. CASE Finish(p)
    BY <1>2, <2>3, Names DEF Finish, Goto
  <2>4. QED
    BY <2>1, <2>2, <2>3
<1>6. doing[Session] # "idle" => place = "control" /\ doing[Poll] = "idle"
  BY Names DEF SInv, SessionApplies, TInv, PollLate
<1>7. valve_control_active' \in BOOLEAN /\ valve_open' \in BOOLEAN \cup {None}
  <2>1. /\ valve_control_active \in BOOLEAN /\ valve_open \in BOOLEAN \cup {None}
        /\ valve_state_last_seen \in BOOLEAN \cup {None}
        /\ arg[p] \in BOOLEAN \cup {None}
        /\ doing[p] \in {"applying_control", "applying_state"} => arg[p] \in BOOLEAN
    BY <1>2 DEF TInv, ValveOK, ArgKnown
  <2>2. QED
    BY <1>1, <2>1, Names
       DEF Segment, apply_valve_state, report_initial_valve_state, apply_valve_control_state
<1>8. AppliersOK' /\ \A q \in Appliers \ {p} : arg'[q] = arg[q]
  BY <1>1, <1>2, <1>5 DEF AppliersOK
<1>9. PollLate'
  <2>1. doing[Poll] # "idle" => place \notin Pairing \cup {"subscribing", "control"}
    BY DEF TInv, PollLate
  <2>2. doing[p] # "idle" /\ (p = Session => place = "control")
    BY <1>3, <1>6, Names
  <2>3. CASE place' = "temperature"
    BY <2>3 DEF PollLate, Pairing
  <2>4. CASE place' = place
    BY <1>5, <2>1, <2>2, <2>4, Names DEF Pairing, PollLate
  <2>5. QED
    BY <1>5, <2>3, <2>4
<1>10. /\ ready' = Tail(ready) \/ ready' = ready
       /\ ready' = ready => doing'[p] \in Sending
  <2>1. ready' = Tail(ready) => ready' # ready
    <3>1. /\ Len(ready) \in Nat \ {0} /\ DOMAIN ready = 1..Len(ready)
          /\ DOMAIN Tail(ready) = 1..(Len(ready) - 1)
      BY <1>1, Shorter DEF TInv, QueueOK
    <3>2. Len(ready) \in DOMAIN ready /\ Len(ready) \notin DOMAIN Tail(ready)
      BY <3>1
    <3>3. QED
      BY <3>2
  <2>2. QED
    BY <2>1 DEF Run
<1>11. \A q \in Appliers \ {p} :
           \/ doing'[q] = doing[q]
           \/ q = Poll /\ p = Session /\ doing[q] = "idle" /\ doing'[q] = "pausing"
  BY <1>3, <1>5, <1>6, Names
<1>12. place' = place \/ (place = "control" /\ place' = "temperature")
  BY <1>3, <1>5, <1>6, Names
<1>13. QED
  BY <1>1, <1>4, <1>5, <1>7, <1>8, <1>9, <1>10, <1>11, <1>12

\* A resumed applier keeps the types.
LEMMA RunTInv == ASSUME TInv, SInv, NEW p \in Appliers, Run(p) PROVE TInv'
<1>1. /\ AppliersOK'
      /\ valve_control_active' \in BOOLEAN /\ valve_open' \in BOOLEAN \cup {None}
      /\ ready # <<>> /\ p = Head(ready)
      /\ ready' = Tail(ready) \/ ready' = ready
      /\ ready' = ready => doing'[p] \in Sending
      /\ doing'[p] \notin {"applying_control", "applying_state"}
      /\ \A q \in Appliers \ {p} :
             /\ arg'[q] = arg[q]
             /\ \/ doing'[q] = doing[q]
                \/ q = Poll /\ p = Session /\ doing[q] = "idle" /\ doing'[q] = "pausing"
      /\ place' = place \/ (place = "control" /\ place' = "temperature")
      /\ PollLate'
      /\ UNCHANGED <<by, valve, link, subscribed, valve_state_last_seen, missed>>
  BY RunApplies
<1>2. QueueOK'
  <2>1. /\ p = ready[1] /\ ready' \in Queue
        /\ \A i \in DOMAIN ready : i # 1 => ready[i] \in Appliers \ {p}
        /\ \A i \in DOMAIN ready' : \/ i = 1 /\ ready' = ready
                                    \/ \E k \in DOMAIN ready : k # 1 /\ ready'[i] = ready[k]
        /\ \A i, j \in DOMAIN ready' : ready'[i] = ready'[j] => i = j
    BY <1>1, Behind
  <2>2. \A i \in DOMAIN ready : i # 1 => doing'[ready[i]] \in Works
    BY <1>1, <2>1, Names DEF TInv, QueueOK
  <2>3. ASSUME NEW i \in DOMAIN ready' PROVE doing'[ready'[i]] \in Works
    BY <1>1, <2>1, <2>2, Names
  <2>4. QED
    BY <2>1, <2>3 DEF QueueOK
<1>3. ArgKnown'
  BY <1>1 DEF TInv, ArgKnown
<1>4. SensorOK' /\ ValveOK'
  BY <1>1 DEF TInv, SensorOK, ValveOK, Run, connection
<1>5. CourseOK'
  <2>1. UNCHANGED <<bus, outcome, cancel, parted, spoilt, disconnected, session_active, watch>>
    BY DEF Run
  <2>2. place' \in {"over"} \cup Pairing \cup Monitoring \cup Leaving
    BY <1>1 DEF TInv, CourseOK, Monitoring, Setup
  <2>3. QED
    BY <2>1, <2>2 DEF TInv, CourseOK
<1>6. Fresh' /\ Seen'
  BY <1>1 DEF TInv, Fresh, Seen, Pairing
<1>7. QED
  BY <1>1, <1>2, <1>3, <1>4, <1>5, <1>6 DEF TInv

\* A resumed applier that has brought an older state has left the newer one behind
\* it; one that looks at the valve finds what was notified.
LEMMA RunVInv == ASSUME TInv, VInv, SInv, NEW p \in Appliers, Run(p) PROVE VInv'
<1>1. /\ ready # <<>> /\ p = Head(ready)
      /\ ready' = Tail(ready) \/ ready' = ready
      /\ ready' = ready => doing'[p] \in Sending
      /\ doing'[p] \notin {"applying_control", "applying_state"}
      /\ \A q \in Appliers \ {p} :
             /\ arg'[q] = arg[q]
             /\ \/ doing'[q] = doing[q]
                \/ q = Poll /\ p = Session /\ doing[q] = "idle" /\ doing'[q] = "pausing"
      /\ place' = place \/ (place = "control" /\ place' = "temperature")
      /\ UNCHANGED <<valve, link, valve_state_last_seen, missed>>
  BY RunApplies
<1>2. /\ p = ready[1] /\ 1 \in DOMAIN ready
      /\ \A i \in DOMAIN ready : i # 1 => i > 1 /\ ready[i] \in Appliers \ {p}
      /\ \A i \in DOMAIN ready' : \/ i = 1 /\ ready' = ready
                                  \/ \E k \in DOMAIN ready : k # 1 /\ ready'[i] = ready[k]
      /\ \A i \in DOMAIN ready', j, k \in DOMAIN ready :
             k # 1 /\ ready'[i] = ready[k] /\ j > k
                 => \E m \in DOMAIN ready' : m > i /\ ready'[m] = ready[j]
      /\ \A j \in DOMAIN ready : j # 1 => \E m \in DOMAIN ready' : ready'[m] = ready[j]
  BY <1>1, Behind
<1>3. Following' => Following
  BY <1>1 DEF Following, Monitoring, Setup
<1>4. \A i \in DOMAIN ready : i # 1 => /\ doing'[ready[i]] = doing[ready[i]]
                                      /\ arg'[ready[i]] = arg[ready[i]]
  BY <1>1, <1>2, Names DEF TInv, QueueOK
<1>5. \A j \in DOMAIN ready, m \in DOMAIN ready' :
          j # 1 /\ Tells(j) /\ ready'[m] = ready[j] => Tells(m)'
  BY <1>1, <1>4 DEF Tells
<1>6. CoveredUp'
  <2>1. SUFFICES ASSUME Following', NEW i \in DOMAIN ready', Bears(ready[i])',
                        arg'[ready'[i]] \notin {None, valve}
                 PROVE  \E m \in DOMAIN ready' : m > i /\ Tells(m)'
    BY <1>1 DEF CoveredUp
  <2>2. ~(i = 1 /\ ready' = ready)
    BY <1>1, <1>2, <2>1, Names DEF Bears
  <2>3. PICK k \in DOMAIN ready : k # 1 /\ ready'[i] = ready[k]
    BY <1>2, <2>2
  <2>4. Bears(ready[k]) /\ arg[ready[k]] \notin {None, valve}
    BY <1>4, <2>1, <2>3 DEF Bears
  <2>5. PICK j \in DOMAIN ready : j > k /\ Tells(j)
    BY <1>3, <2>1, <2>3, <2>4 DEF VInv, CoveredUp
  <2>6. k > 1 /\ DOMAIN ready \subseteq Int
    BY <1>2, <2>3, LenProperties DEF TInv, QueueOK, Queue
  <2>7. j # 1
    BY <2>5, <2>6
  <2>8. PICK m \in DOMAIN ready' : m > i /\ ready'[m] = ready[j]
    BY <1>2, <2>3, <2>5
  <2>9. QED
    BY <1>5, <2>5, <2>7, <2>8
<1>7. ASSUME Following, NEW j \in DOMAIN ready, j > 1, Tells(j)
      PROVE  \E m \in DOMAIN ready' : Tells(m)'
  <2>1. j # 1
    BY <1>7
  <2>2. QED
    BY <1>2, <1>5, <1>7, <2>1
<1>8. ASSUME Following, link = "up",
             doing[p] \notin {"applying_state", "enabling"},
             UNCHANGED <<valve_control_active, valve_open>>, valve_control_active
      PROVE  \/ valve_open' = valve
             \/ \E q \in Appliers : doing'[q] = "enabling"
             \/ \E m \in DOMAIN ready' : Tells(m)'
  <2>1. CASE valve_open = valve
    BY <1>8, <2>1
  <2>2. CASE \E q \in Appliers : doing[q] = "enabling"
    BY <1>1, <1>8, <2>2, Names
  <2>3. CASE \E j \in DOMAIN ready : Tells(j)
    <3>1. PICK j \in DOMAIN ready : Tells(j)
      BY <2>3
    <3>2. j # 1
      BY <1>2, <1>8, <3>1 DEF Tells
    <3>3. QED
      BY <1>2, <1>7, <1>8, <3>1, <3>2
  <2>4. QED
    BY <1>8, <2>1, <2>2, <2>3 DEF VInv, ToCome
<1>9. ToCome'
  <2>1. SUFFICES ASSUME Following, link = "up", valve_control_active'
                 PROVE  \/ valve_open' = valve
                        \/ \E q \in Appliers : doing'[q] = "enabling"
                        \/ \E m \in DOMAIN ready' : Tells(m)'
    BY <1>1, <1>3 DEF ToCome
  <2>2. /\ Segment(p) /\ doing[p] \in Works
        /\ doing[p] \in {"applying_control", "applying_state"} => arg[p] \in BOOLEAN
        /\ valve_control_active \in BOOLEAN
    BY <1>2 DEF Run, TInv, QueueOK, ArgKnown, ValveOK
  <2>3. CASE \/ doing[p] = "applying_state" /\ apply_valve_state(p, arg[p], FALSE)
             \/ doing[p] = "asking" /\ arg[p] # None /\ apply_valve_state(p, arg[p], TRUE)
    <3>1. valve_open' = arg[p] /\ arg[p] # None
      BY <2>1, <2>2, <2>3, Names DEF apply_valve_state
    <3>2. CASE arg[p] = valve
      BY <3>1, <3>2
    <3>3. CASE arg[p] # valve
      <4>1. PICK j \in DOMAIN ready : j > 1 /\ Tells(j)
        BY <1>2, <2>1, <2>3, <3>1, <3>3 DEF VInv, CoveredUp, Bears
      <4>2. QED
        BY <1>7, <2>1, <4>1
    <3>4. QED
      BY <3>2, <3>3
  <2>4. CASE doing[p] = "enabling" /\ report_initial_valve_state(p)
    <3>1. valve_state_last_seen # None /\ valve_state_last_seen = valve
      BY <2>1 DEF Following, TInv, Seen
    <3>2. valve_open' = valve
      BY <2>1, <2>4, <3>1 DEF report_initial_valve_state, apply_valve_state
    <3>3. QED
      BY <3>2
  <2>5. CASE /\ doing[p] \in {"applying_control", "reading"} /\ arg[p] # None
             /\ apply_valve_control_state(p, arg[p])
    <3>1. CASE arg[p] = valve_control_active
      BY <1>8, <2>1, <2>5, <3>1 DEF apply_valve_control_state
    <3>2. CASE arg[p] # valve_control_active
      <4>1. arg[p] = valve_control_active' /\ Goto(p, "enabling")
        BY <2>1, <2>5, <3>2 DEF apply_valve_control_state
      <4>2. doing'[p] = "enabling"
        BY <4>1 DEF Goto, TInv, AppliersOK
      <4>3. QED
        BY <4>2
    <3>3. QED
      BY <3>1, <3>2
  <2>6. CASE /\ doing[p] = "telling" \/ (doing[p] \in Reading /\ arg[p] = None)
             /\ UNCHANGED <<valve_control_active, valve_open>>
    BY <1>8, <2>1, <2>6, Names
  <2>7. QED
    BY <2>2, <2>3, <2>4, <2>5, <2>6, Names DEF Segment
<1>10. QED
  BY <1>6, <1>9 DEF VInv

\* A message that is sent and a reading that ends put their applier behind all
\* others; a reading brings what the valve is then.
LEMMA AwaitValve ==
    ASSUME TInv, VInv, NEW p \in Appliers, Sent(p) \/ Answered(p)
    PROVE  TInv' /\ VInv'
<1>1. /\ doing' = doing /\ doing[p] \in Works /\ NotQueued(p) /\ ready' = Append(ready, p)
      /\ UNCHANGED <<by, valve, link, subscribed, notice, bus, place, outcome, cancel, parted,
                     spoilt, disconnected, session_active, watch, valveVars>>
  BY Names DEF Sent, Answered, AppliersFrame, sensor, connection, course
<1>2. /\ arg' \in [Appliers -> BOOLEAN \cup {None}]
      /\ \A q \in Appliers \ {p} : arg'[q] = arg[q]
      /\ Bears(p) => arg'[p] \in {None, valve}
      /\ doing[p] \notin {"applying_control", "applying_state"}
  <2>1. CASE Sent(p)
    BY <2>1, Names DEF Sent, TInv, AppliersOK, Bears
  <2>2. CASE Answered(p)
    <3>1. PICK value \in BOOLEAN \cup {None} :
              /\ value # None => (doing[p] = "asking" => value = valve)
              /\ arg' = [arg EXCEPT ![p] = value]
      BY <2>2 DEF Answered
    <3>2. doing[p] \in {"asking", "reading"}
      BY <2>2, Names DEF Answered
    <3>3. QED
      BY <3>1, <3>2 DEF TInv, AppliersOK, Bears
  <2>3. QED
    BY <2>1, <2>2
<1>3. AppliersOK' /\ Bears(p)' = Bears(p)
  BY <1>1, <1>2 DEF TInv, AppliersOK, Bears
<1>4. QueueOK' /\ VInv'
  BY <1>1, <1>2, <1>3, BringsTruth
<1>5. ArgKnown'
  BY <1>1, <1>2 DEF TInv, ArgKnown
<1>6. SensorOK' /\ CourseOK' /\ ValveOK'
  BY <1>1 DEF TInv, SensorOK, CourseOK, ValveOK, valveVars
<1>7. Fresh' /\ PollLate' /\ Seen'
  BY <1>1 DEF TInv, Fresh, PollLate, Seen, valveVars
<1>8. QED
  BY <1>3, <1>4, <1>5, <1>6, <1>7 DEF TInv

\* The poll goes on, without a state to apply.
LEMMA PollAgainValve ==
    ASSUME TInv, VInv, PollAgain
    PROVE  TInv' /\ VInv'
<1>1. /\ doing[Poll] = "pausing" /\ doing'[Poll] \in {"over", "reading"}
      /\ \A q \in Appliers \ {Poll} : doing'[q] = doing[q]
      /\ doing' \in [Appliers -> Doings]
  BY Names DEF PollAgain, TInv, AppliersOK
<1>2. UNCHANGED <<arg, ready, by, valve, link, subscribed, notice, bus, place, outcome, cancel,
                  parted, spoilt, disconnected, session_active, watch, valveVars>>
  BY DEF PollAgain, AppliersFrame, sensor, connection, course
<1>3. \A i \in DOMAIN ready : ready[i] \in Appliers \ {Poll}
  BY <1>1, ElementOfSeq, LenProperties, Names DEF TInv, QueueOK, Queue
<1>4. AppliersOK' /\ QueueOK' /\ ArgKnown'
  BY <1>1, <1>2, <1>3 DEF TInv, AppliersOK, QueueOK, ArgKnown
<1>5. SensorOK' /\ CourseOK' /\ ValveOK'
  BY <1>2 DEF TInv, SensorOK, CourseOK, ValveOK, valveVars
<1>6. Fresh' /\ PollLate' /\ Seen'
  BY <1>1, <1>2 DEF TInv, Fresh, PollLate, Seen, valveVars
<1>7. UNCHANGED <<valve_control_active, valve_open, valve_state_last_seen, missed>>
  BY <1>2 DEF valveVars
<1>8. \A i \in DOMAIN ready : Bears(ready[i])' = Bears(ready[i]) /\ Tells(i)' = Tells(i)
  BY <1>1, <1>2, <1>3 DEF Bears, Tells
<1>9. Following' = Following
  BY <1>2, <1>7 DEF Following
<1>10. CoveredUp'
  BY <1>2, <1>3, <1>8, <1>9 DEF VInv, CoveredUp
<1>11. \A q \in Appliers : doing[q] = "enabling" => doing'[q] = "enabling"
  BY <1>1
<1>12. ToCome'
  BY <1>2, <1>7, <1>8, <1>9, <1>11 DEF VInv, ToCome
<1>13. QED
  BY <1>4, <1>5, <1>6, <1>10, <1>12 DEF TInv, VInv

-----------------------------------------------------------------------------
(***************************************************************************)
(* The callbacks of the library, the watch and the command to stop.        *)
(***************************************************************************)

\* A handler creates a task that was not in the queue.
LEMMA TaskCreated ==
    ASSUME TInv, NEW value \in BOOLEAN,
           NEW work \in {"applying_control", "applying_state"}, CreateTask(work, value)
    PROVE  /\ AppliersOK' /\ ArgKnown' /\ doing'[Poll] = doing[Poll]
           /\ \E t \in Tasks :
                  /\ t \in Appliers /\ NotQueued(t) /\ ready' = Append(ready, t)
                  /\ doing[t] = "idle" /\ doing'[t] = work /\ work \in Works /\ arg'[t] = value
                  /\ \A q \in Appliers \ {t} : doing'[q] = doing[q] /\ arg'[q] = arg[q]
<1>1. PICK t \in Tasks :
          /\ doing[t] = "idle"
          /\ doing' = [doing EXCEPT ![t] = work]
          /\ arg' = [arg EXCEPT ![t] = value]
          /\ ready' = Append(ready, t)
  BY DEF CreateTask
<1>2. t \in Appliers /\ t # Poll /\ work \in Works
  BY Names
<1>3. NotQueued(t)
  BY <1>1, Names DEF NotQueued, TInv, QueueOK
<1>4. /\ AppliersOK' /\ doing'[t] = work /\ arg'[t] = value
      /\ \A q \in Appliers \ {t} : doing'[q] = doing[q] /\ arg'[q] = arg[q]
  BY <1>1, <1>2, Names DEF TInv, AppliersOK
<1>5. ArgKnown'
  BY <1>2, <1>4 DEF TInv, ArgKnown
<1>6. QED
  BY <1>1, <1>2, <1>3, <1>4, <1>5, Names

\* The control is notified.
LEMMA ControlValve ==
    ASSUME TInv, VInv, NEW b \in BOOLEAN, valve_control_handler(b)
    PROVE  TInv' /\ VInv'
<1>1. /\ CreateTask("applying_control", b)
      /\ UNCHANGED <<by, valve, link, subscribed, notice, disconnected, bus, place, outcome,
                     cancel, parted, spoilt, session_active, watch, valve_control_active,
                     valve_open, valve_state_last_seen, missed>>
  BY DEF valve_control_handler, CallbackFrame, sensor, connection, course
<1>2. AppliersOK' /\ ArgKnown' /\ doing'[Poll] = doing[Poll]
  BY <1>1, TaskCreated
<1>3. PICK t \in Tasks :
          /\ t \in Appliers /\ NotQueued(t) /\ ready' = Append(ready, t)
          /\ doing[t] = "idle" /\ doing'[t] = "applying_control" /\ "applying_control" \in Works
          /\ \A q \in Appliers \ {t} : doing'[q] = doing[q] /\ arg'[q] = arg[q]
  BY <1>1, TaskCreated
<1>4. QueueOK' /\ VInv'
  BY <1>1, <1>2, <1>3, BringsTruth DEF Bears, valveVars
<1>5. SensorOK' /\ CourseOK' /\ ValveOK'
  BY <1>1 DEF TInv, SensorOK, CourseOK, ValveOK
<1>6. Fresh' /\ PollLate' /\ Seen'
  BY <1>1, <1>2 DEF TInv, Fresh, PollLate, Seen
<1>7. QED
  BY <1>2, <1>4, <1>5, <1>6 DEF TInv

\* The valve is notified: behind all others under valve control, and else without
\* anything in the queue that could cover it up, unless it is missed.
LEMMA StateValve ==
    ASSUME TInv, VInv, NEW b \in BOOLEAN, valve_state_handler(b)
    PROVE  TInv' /\ VInv'
<1>1. /\ valve' = b /\ valve_state_last_seen' = b /\ "state" \in subscribed
      /\ missed' = Unapplied
      /\ UNCHANGED <<by, link, subscribed, notice, disconnected, bus, place, outcome, cancel,
                     parted, spoilt, session_active, watch, valve_control_active, valve_open>>
  BY DEF valve_state_handler, CallbackFrame, connection, course
<1>2. SensorOK' /\ CourseOK' /\ ValveOK'
  <2>1. missed' \in BOOLEAN
    BY <1>1 DEF Unapplied
  <2>2. SensorOK'
    BY <1>1 DEF TInv, SensorOK
  <2>3. CourseOK'
    BY <1>1 DEF TInv, CourseOK
  <2>4. ValveOK'
    BY <1>1, <2>1 DEF TInv, ValveOK
  <2>5. QED
    BY <2>2, <2>3, <2>4
<1>3. Fresh' /\ Seen'
  BY <1>1 DEF TInv, Fresh, Seen
<1>4. CASE valve_control_active
  <2>1. CreateTask("applying_state", b)
    BY <1>4 DEF valve_state_handler
  <2>2. AppliersOK' /\ ArgKnown' /\ doing'[Poll] = doing[Poll]
    BY <2>1, TaskCreated
  <2>3. PICK t \in Tasks :
            /\ t \in Appliers /\ NotQueued(t) /\ ready' = Append(ready, t)
            /\ doing'[t] = "applying_state" /\ "applying_state" \in Works /\ arg'[t] = b
            /\ \A q \in Appliers \ {t} : doing'[q] = doing[q] /\ arg'[q] = arg[q]
    BY <2>1, TaskCreated
  <2>4. /\ QueueOK' /\ Len(ready) \in Nat /\ DOMAIN ready = 1..Len(ready)
        /\ \A i \in DOMAIN ready' : i \in DOMAIN ready \/ i = Len(ready) + 1
        /\ Len(ready) + 1 \in DOMAIN ready' /\ ready'[Len(ready) + 1] = t
    BY <2>2, <2>3, BecomesReady
  <2>5. PICK k \in DOMAIN ready' : ready'[k] = t /\ \A i \in DOMAIN ready' : k > i \/ i = k
    BY <2>4
  <2>6. Tells(k)' /\ arg'[ready'[k]] = valve'
    BY <1>1, <2>3, <2>5 DEF Tells
  <2>7. CoveredUp'
    BY <2>5, <2>6 DEF CoveredUp
  <2>8. ToCome'
    BY <2>6 DEF ToCome
  <2>9. PollLate'
    BY <1>1, <2>2 DEF TInv, PollLate
  <2>10. QED
    BY <1>2, <1>3, <2>2, <2>4, <2>7, <2>8, <2>9 DEF TInv, VInv
<1>5. CASE ~valve_control_active
  <2>1. UNCHANGED <<doing, arg, ready>>
    BY <1>5 DEF valve_state_handler
  <2>2. AppliersOK' /\ QueueOK' /\ ArgKnown'
    BY <2>1, Untouched DEF TInv
  <2>3. CoveredUp'
    <3>1. SUFFICES ASSUME ~missed', NEW i \in DOMAIN ready, Bears(ready[i])
                   PROVE  FALSE
      BY <2>1 DEF CoveredUp, Following, Bears
    <3>2. ready[i] \in Appliers
      BY ElementOfSeq, LenProperties DEF TInv, QueueOK, Queue
    <3>3. QED
      BY <1>1, <1>5, <3>1, <3>2 DEF Unapplied, Bears
  <2>4. ToCome'
    BY <1>1, <1>5 DEF ToCome
  <2>5. PollLate'
    BY <1>1, <2>1 DEF TInv, PollLate
  <2>6. QED
    BY <1>2, <1>3, <2>2, <2>3, <2>4, <2>5 DEF TInv, VInv
<1>6. QED
  BY <1>4, <1>5

\* The other callbacks, the watch and Stop apply nothing.
LEMMA AsideValve ==
    ASSUME TInv, VInv,
           ValveMoves \/ LinkLost \/ on_ble_disconnect \/ _watch_connection \/ Stop
    PROVE  TInv' /\ VInv'
<1>1. /\ UNCHANGED <<doing, arg, ready, by, subscribed, bus, place, outcome, parted, spoilt,
                     session_active>>
      /\ UNCHANGED valveVars
      /\ notice' \in BOOLEAN /\ disconnected' \in BOOLEAN
      /\ valve' = valve \/ (valve' \in BOOLEAN /\ "state" \notin subscribed)
      /\ link' = link \/ link' = "down"
      /\ cancel' \in {"no", "requested", "delivered"} /\ watch' \in {"none", "running", "over"}
  BY DEF ValveMoves, LinkLost, on_ble_disconnect, _watch_connection, Stop, CallbackFrame,
     SessionFrame, sensor, connection, course, valveVars, TInv, SensorOK, CourseOK
<1>2. AppliersOK' /\ QueueOK' /\ ArgKnown'
  BY <1>1, Untouched DEF TInv
<1>3. SensorOK' /\ CourseOK' /\ ValveOK'
  <2>1. SensorOK'
    BY <1>1 DEF TInv, SensorOK
  <2>2. CourseOK'
    BY <1>1 DEF TInv, CourseOK
  <2>3. ValveOK'
    BY <1>1 DEF TInv, ValveOK, valveVars
  <2>4. QED
    BY <2>1, <2>2, <2>3
<1>4. Fresh' /\ PollLate' /\ Seen'
  BY <1>1 DEF TInv, Fresh, PollLate, Seen, valveVars
<1>5. CASE valve' = valve
  <2>1. VInv'
    BY <1>1, <1>5, Quiet DEF Following, valveVars
  <2>2. QED
    BY <1>2, <1>3, <1>4, <2>1 DEF TInv
<1>6. CASE "state" \notin subscribed
  <2>1. ~Following'
    BY <1>1, <1>6 DEF Following, TInv, Seen, valveVars
  <2>2. QED
    BY <1>2, <1>3, <1>4, <2>1 DEF TInv, VInv, CoveredUp, ToCome
<1>7. QED
  BY <1>1, <1>5, <1>6

-----------------------------------------------------------------------------
(***************************************************************************)
(* The steps of the session.                                               *)
(***************************************************************************)

\* What the session takes part in has been subscribed to on the way there.
LEMMA Unheard ==
    ASSUME TInv, place \in Pairing \cup {"subscribing"}
    PROVE  valve_state_last_seen = None
BY DEF TInv, Fresh, Seen

\* A step from one await of the session to the next leaves the appliers alone.
LEMMA QuietCourse ==
    ASSUME TInv, VInv,
           UNCHANGED <<doing, arg, ready, by, valve, notice, disconnected>>,
           UNCHANGED valveVars,
           subscribed' = subscribed \/ (place = "control" /\ subscribed' = subscribed \cup {"control"}),
           link' = link \/ link' = "down" \/ (place \in Pairing /\ link' = "up"),
           bus' \in {"closed", "opening", "agent", "registered"},
           outcome' \in {None, "ended", "cancelled", "fatal"},
           cancel' \in {"no", "requested", "delivered"},
           session_active' \in BOOLEAN, watch' \in {"none", "running", "over"},
           parted' \in BOOLEAN, spoilt' \in BOOLEAN,
           \/ place \in Pairing /\ place' \in Pairing \cup {"subscribing"}
           \/ place \in Monitoring /\ place' \in Monitoring \ {"subscribing", "control"}
           \/ place' \in Leaving \cup {"over"}
    PROVE  TInv' /\ VInv'
<1>1. AppliersOK' /\ QueueOK' /\ ArgKnown'
  BY Untouched DEF TInv
<1>2. SensorOK' /\ ValveOK'
  BY DEF TInv, SensorOK, ValveOK, valveVars
<1>3. CourseOK'
  <2>1. place' \in {"over"} \cup Pairing \cup Monitoring \cup Leaving
    BY DEF Pairing, Monitoring, Setup, Leaving
  <2>2. disconnected' \in BOOLEAN
    BY DEF TInv, CourseOK
  <2>3. QED
    BY <2>1, <2>2 DEF CourseOK
<1>4. Fresh' /\ PollLate'
  BY DEF TInv, Fresh, PollLate, Pairing, Monitoring, Setup, Leaving
<1>5. Seen'
  BY DEF TInv, Seen, valveVars
<1>6. place \in Pairing => ~Following'
  BY Unheard DEF Following, valveVars
<1>7. Following' => Following
  BY <1>6 DEF Following, valveVars, Pairing, Monitoring, Setup, Leaving
<1>8. Following' /\ link' = "up" => link = "up"
  BY <1>6
<1>9. VInv'
  BY <1>7, <1>8, Quiet
<1>10. QED
  BY <1>1, <1>2, <1>3, <1>4, <1>5, <1>9 DEF TInv

\* The pairing agent and the connection.
LEMMA PairingValve ==
    ASSUME TInv, VInv, SInv,
           \/ AgentRegistered \/ Registered \/ RegisterFails \/ ConnectFails \/ Connected
           \/ UnregisterFails \/ Unregistered
    PROVE  TInv' /\ VInv'
<1>1. /\ UNCHANGED <<doing, arg, ready, by, valve, notice, disconnected, subscribed>>
      /\ UNCHANGED valveVars
      /\ UNCHANGED <<cancel, spoilt, session_active, watch>>
      /\ link' = link \/ (place \in Pairing /\ link' = "up")
      /\ bus' \in {bus, "closed", "agent", "registered"}
      /\ outcome' \in {outcome, "ended", "fatal"}
      /\ place \in Pairing
  BY DEF AgentRegistered, Registered, RegisterFails, ConnectFails, Connected,
     UnregisterFails, Unregistered, Quietly, SessionFrame, Leave, sensor, connection, Pairing
<1>2. /\ parted' \in BOOLEAN
      /\ place' \in Pairing \cup {"subscribing"} \cup Leaving \cup {"over"}
  <2>1. CASE Arrive(Finally)
    BY <2>1, FinallyArrives DEF Arrive, TInv, CourseOK
  <2>2. CASE ~Arrive(Finally)
    BY <2>2 DEF AgentRegistered, Registered, RegisterFails, ConnectFails, Connected, UnregisterFails,
       Unregistered, Leave, AfterConnecting, Arrive, TInv, CourseOK, Pairing
  <2>3. QED
    BY <2>1, <2>2
<1>3. /\ bus' \in {"closed", "opening", "agent", "registered"}
      /\ outcome' \in {None, "ended", "cancelled", "fatal"}
      /\ cancel' \in {"no", "requested", "delivered"}
      /\ session_active' \in BOOLEAN /\ watch' \in {"none", "running", "over"}
      /\ spoilt' \in BOOLEAN
  BY <1>1 DEF TInv, CourseOK
<1>4. QED
  BY <1>1, <1>2, <1>3, QuietCourse

\* The session after its subscription to the valve state, and its finally block.
LEMMA FollowedCourse ==
    ASSUME TInv, VInv, SInv,
           \/ ControlSubscribed \/ TemperatureSubscribed \/ SetupFails \/ Greeted \/ Lost
           \/ WatchCancelled \/ Joined \/ Parted \/ PartingFails \/ SaidFarewell
    PROVE  TInv' /\ VInv'
<1>1. /\ UNCHANGED <<doing, arg, ready, by, valve, notice, disconnected, bus>>
      /\ UNCHANGED valveVars
      /\ subscribed' = subscribed \/ (place = "control" /\ subscribed' = subscribed \cup {"control"})
      /\ link' \in {link, "down"}
      /\ outcome' \in {outcome, "ended"}
      /\ cancel' \in {cancel, "delivered"}
      /\ session_active' \in {session_active, TRUE} /\ watch' \in {watch, "running", "over"}
      /\ spoilt' \in {spoilt, TRUE}
  BY DEF ControlSubscribed, TemperatureSubscribed, SetupFails, Greeted, Lost, WatchCancelled,
     Joined, Parted, PartingFails, SaidFarewell, Quietly, SessionFrame, Leave, sensor,
     connection, course
<1>2. /\ parted' \in BOOLEAN
      /\ \/ place \in Monitoring /\ place' \in Monitoring \ {"subscribing", "control"}
         \/ place' \in Leaving \cup {"over"}
  <2>1. CASE ControlSubscribed \/ TemperatureSubscribed \/ Greeted
    BY <2>1 DEF ControlSubscribed, TemperatureSubscribed, Greeted, Arrive, TInv, CourseOK,
       Monitoring, Setup
  <2>2. CASE SetupFails \/ Lost
    BY <2>2, FinallyArrives DEF SetupFails, Lost, Leave, Arrive, TInv, CourseOK
  <2>3. CASE WatchCancelled
    BY <2>3 DEF WatchCancelled, course, TInv, CourseOK, Leaving
  <2>4. CASE Joined
    <3>1. \/ doing[Poll] \in {"idle", "over"} /\ Arrive(AfterPoll)
          \/ doing[Poll] \in {"idle", "over"} /\ watch # "running" /\ Arrive(AfterWatch)
      BY <2>4 DEF Joined, SInv, PollJoined
    <3>2. QED
      BY <3>1, FinallyArrives DEF Arrive, TInv, CourseOK
  <2>5. CASE Parted \/ PartingFails \/ SaidFarewell
    BY <2>5 DEF Parted, PartingFails, SaidFarewell, AfterDisconnect, Arrive, TInv, CourseOK, Leaving
  <2>6. QED
    BY <2>1, <2>2, <2>3, <2>4, <2>5
<1>3. /\ bus' \in {"closed", "opening", "agent", "registered"}
      /\ outcome' \in {None, "ended", "cancelled", "fatal"}
      /\ cancel' \in {"no", "requested", "delivered"}
      /\ session_active' \in BOOLEAN /\ watch' \in {"none", "running", "over"}
      /\ spoilt' \in BOOLEAN
  BY <1>1 DEF TInv, CourseOK
<1>4. QED
  BY <1>1, <1>2, <1>3, QuietCourse

\* Nothing has been notified when the valve state is subscribed to.
LEMMA SubscribedValve == ASSUME TInv, VInv, Subscribed PROVE TInv' /\ VInv'
<1>1. /\ place = "subscribing" /\ place' = "control" /\ subscribed' = {"state"}
      /\ UNCHANGED <<arg, ready, by, valve, link, notice, disconnected, bus, outcome, cancel,
                     spoilt, session_active, watch>>
      /\ UNCHANGED valveVars
      /\ parted' \in BOOLEAN
      /\ doing' = doing \/ doing' = [doing EXCEPT ![Session] = "reading"]
  BY DEF Subscribed, Quietly, SessionFrame, Arrive, sensor, TInv, CourseOK
<1>2. valve_state_last_seen = None
  BY <1>1, Unheard
<1>3. /\ doing' \in [Appliers -> Doings] /\ doing'[Session] \in {doing[Session], "reading"}
      /\ \A q \in Appliers \ {Session} : doing'[q] = doing[q]
  BY <1>1, Names DEF TInv, AppliersOK
<1>4. AppliersOK' /\ ArgKnown' /\ PollLate'
  BY <1>1, <1>3, Names DEF TInv, AppliersOK, ArgKnown, PollLate
<1>5. QueueOK'
  <2>1. \A i \in DOMAIN ready : ready[i] \in Appliers
    BY ElementOfSeq, LenProperties DEF TInv, QueueOK, Queue
  <2>2. \A i \in DOMAIN ready : doing'[ready[i]] \in Works
    BY <1>3, <2>1, Names DEF TInv, QueueOK
  <2>3. QED
    BY <1>1, <2>2 DEF TInv, QueueOK
<1>6. SensorOK' /\ CourseOK' /\ ValveOK'
  BY <1>1 DEF TInv, SensorOK, CourseOK, ValveOK, valveVars, Monitoring, Setup
<1>7. Fresh' /\ Seen' /\ ~Following'
  BY <1>1, <1>2 DEF Fresh, Seen, Following, valveVars, Pairing
<1>8. QED
  BY <1>4, <1>5, <1>6, <1>7 DEF TInv, VInv, CoveredUp, ToCome

\* A coroutine that is cancelled is taken from the queue.
LEMMA GivesUp ==
    ASSUME TInv, NEW p \in Appliers, NEW where \in Doings \ Works,
           doing' = [doing EXCEPT ![p] = where], ready' = Without(p),
           arg' = arg \/ arg' = [arg EXCEPT ![p] = None]
    PROVE  /\ AppliersOK' /\ QueueOK' /\ ArgKnown'
           /\ \A q \in Appliers \ {p} : doing'[q] = doing[q]
           /\ doing'[p] = where
<1>1. /\ doing' \in [Appliers -> Doings] /\ doing'[p] = where
      /\ arg' \in [Appliers -> BOOLEAN \cup {None}]
      /\ \A q \in Appliers \ {p} : doing'[q] = doing[q] /\ arg'[q] = arg[q]
  BY DEF TInv, AppliersOK
<1>2. ArgKnown'
  BY <1>1, Names DEF TInv, ArgKnown
<1>3. QueueOK'
  <2>1. /\ ready' \in Queue
        /\ \A i, j \in DOMAIN ready' : ready'[i] = ready'[j] => i = j
        /\ \A i \in DOMAIN ready' : ready'[i] # p /\ \E j \in DOMAIN ready : ready'[i] = ready[j]
    BY Fewer DEF TInv
  <2>2. \A j \in DOMAIN ready : ready[j] \in Appliers /\ doing[ready[j]] \in Works
    BY ElementOfSeq, LenProperties DEF TInv, QueueOK, Queue
  <2>3. \A i \in DOMAIN ready' : doing'[ready'[i]] \in Works
    BY <1>1, <2>1, <2>2
  <2>4. QED
    BY <2>1, <2>3 DEF QueueOK
<1>4. QED
  BY <1>1, <1>2, <1>3 DEF AppliersOK

\* The poll ends where it is suspended.
LEMMA PollCancelledValve == ASSUME TInv, VInv, PollCancelled PROVE TInv' /\ VInv'
<1>1. /\ place = "joining_poll"
      /\ doing' = [doing EXCEPT ![Poll] = "over"] /\ ready' = Without(Poll)
      /\ UNCHANGED <<arg, by, valve, link, subscribed, notice, disconnected, bus, place,
                     outcome, cancel, parted, spoilt, session_active, watch>>
      /\ UNCHANGED valveVars
  BY DEF PollCancelled, SessionFrame, sensor, connection, course
<1>2. AppliersOK' /\ QueueOK' /\ ArgKnown'
  BY <1>1, GivesUp, Names
<1>3. SensorOK' /\ CourseOK' /\ ValveOK'
  BY <1>1 DEF TInv, SensorOK, CourseOK, ValveOK, valveVars
<1>4. Fresh' /\ PollLate' /\ Seen' /\ ~Following'
  BY <1>1 DEF TInv, Fresh, PollLate, Seen, Following, valveVars, Pairing, Monitoring, Setup
<1>5. QED
  BY <1>2, <1>3, <1>4 DEF TInv, VInv, CoveredUp, ToCome

\* A cancelled session monitors no more.
LEMMA CancelledValve == ASSUME TInv, VInv, Cancelled PROVE TInv' /\ VInv'
<1>1. /\ doing' = [doing EXCEPT ![Session] = "idle"] /\ ready' = Without(Session)
      /\ arg' = [arg EXCEPT ![Session] = None]
      /\ UNCHANGED <<by, valve, link, subscribed, notice, disconnected, session_active, watch>>
      /\ UNCHANGED valveVars
      /\ cancel' = "delivered" /\ outcome' = "cancelled"
      /\ bus' \in {bus, "closed"} /\ spoilt' \in {spoilt, TRUE}
  BY DEF Cancelled, Unwound, sensor, connection
<1>2. /\ AppliersOK' /\ QueueOK' /\ ArgKnown'
      /\ doing'[Poll] = doing[Poll]
  BY <1>1, GivesUp, Names
<1>3. /\ parted' \in BOOLEAN
      /\ place' \in Leaving \cup {"over"} \/ (place \in Pairing /\ place' = "unregistering")
  <2>1. CASE Arrive(Finally)
    BY <2>1, FinallyArrives DEF Arrive, TInv, CourseOK
  <2>2. CASE ~Arrive(Finally)
    BY <2>2 DEF Cancelled, AfterConnecting, Arrive, TInv, CourseOK, Pairing
  <2>3. QED
    BY <2>1, <2>2
<1>4. SensorOK' /\ ValveOK'
  BY <1>1 DEF TInv, SensorOK, ValveOK, valveVars
<1>5. CourseOK'
  BY <1>1, <1>3 DEF TInv, CourseOK, Pairing
<1>6. Fresh' /\ PollLate' /\ Seen' /\ ~Following'
  BY <1>1, <1>2, <1>3
     DEF TInv, Fresh, PollLate, Seen, Following, valveVars, Pairing, Monitoring, Setup, Leaving
<1>7. QED
  BY <1>2, <1>4, <1>5, <1>6 DEF TInv, VInv, CoveredUp, ToCome

-----------------------------------------------------------------------------
(***************************************************************************)
(* The theorems.                                                           *)
(***************************************************************************)

\* The initial state satisfies the invariant.
LEMMA InitValve == Init => TInv /\ VInv
<1> SUFFICES ASSUME Init PROVE TInv /\ VInv
  OBVIOUS
<1>1. ready \in Queue /\ DOMAIN ready = {}
  BY EmptySeq DEF Init, Queue
<1>2. QueueOK
  BY <1>1 DEF QueueOK
<1>3. AppliersOK /\ ArgKnown
  BY Names DEF Init, AppliersOK, ArgKnown
<1>4. SensorOK /\ CourseOK /\ ValveOK
  BY DEF Init, SensorOK, CourseOK, ValveOK, Pairing
<1>5. Fresh /\ PollLate /\ Seen
  BY Names DEF Init, Fresh, PollLate, Seen
<1>6. CoveredUp /\ ToCome
  BY DEF Init, CoveredUp, ToCome, Following
<1>7. QED
  BY <1>2, <1>3, <1>4, <1>5, <1>6 DEF TInv, VInv

\* Every step keeps the invariant.
LEMMA NextValve == TInv /\ VInv /\ SInv /\ [Next]_vars => (TInv /\ VInv)'
<1> SUFFICES ASSUME TInv, VInv, SInv, [Next]_vars PROVE TInv' /\ VInv'
  OBVIOUS
<1>1. CASE UNCHANGED vars
  <2>1. UNCHANGED <<by, valve, link, subscribed, notice, bus, place, outcome, cancel, parted,
                    spoilt, disconnected, session_active, watch, doing, arg, ready>>
    BY <1>1 DEF vars, sensor, connection, course
  <2>2. UNCHANGED valveVars
    BY <1>1 DEF vars
  <2>3. AppliersOK' /\ QueueOK' /\ ArgKnown'
    BY <2>1, Untouched DEF TInv
  <2>4. TInv'
    BY <2>1, <2>2, <2>3
       DEF TInv, SensorOK, CourseOK, ValveOK, Fresh, PollLate, Seen, valveVars
  <2>5. VInv'
    BY <2>1, <2>2, Quiet DEF Following, valveVars
  <2>6. QED
    BY <2>4, <2>5
<1>2. CASE \E p \in Appliers : Run(p)
  BY <1>2, RunTInv, RunVInv
<1>3. CASE (\E p \in Appliers : Sent(p) \/ Answered(p)) \/ PollAgain
  BY <1>3, AwaitValve, PollAgainValve
<1>4. CASE \E b \in BOOLEAN : valve_control_handler(b) \/ valve_state_handler(b)
  BY <1>4, ControlValve, StateValve
<1>5. CASE ValveMoves \/ LinkLost \/ on_ble_disconnect \/ _watch_connection \/ Stop
  BY <1>5, AsideValve
<1>6. CASE Course
  BY <1>6, PairingValve, FollowedCourse, SubscribedValve, PollCancelledValve, CancelledValve
     DEF Course
<1>7. QED
  BY <1>1, <1>2, <1>3, <1>4, <1>5, <1>6 DEF Next

LEMMA Invariant == Spec => [](TInv /\ VInv /\ SInv)
<1>1. Init => TInv /\ VInv /\ SInv
  BY InitValve, InitSInv
<1>2. TInv /\ VInv /\ SInv /\ [Next]_vars => (TInv /\ VInv /\ SInv)'
  BY NextValve, NextSInv
<1>3. QED
  BY <1>1, <1>2, PTL DEF Spec

\* The type invariant: the coroutines of a session are where the code has a place
\* for them, and each is in asyncio's queue once at most (_run_monitoring_session).
THEOREM TypeCorrect == Spec => []TypeOK
<1>1. TInv => TypeOK
  BY Names DEF TInv, SensorOK, CourseOK, ValveOK, AppliersOK, QueueOK, Queue, TypeOK
<1>2. QED
  BY Invariant, <1>1, PTL

\* The valve: once everything that was notified or read has been applied, the bot
\* shows the state of the valve, whatever the number of tasks of the handlers and
\* the order in which their messages end (apply_valve_state,
\* report_initial_valve_state).
THEOREM ValveIsFollowed == Spec => []ValveFollowed
<1>1. ASSUME TInv, VInv PROVE ValveFollowed
  <2>1. SUFFICES ASSUME Applied, Following, link = "up", valve_control_active
                 PROVE  valve_open = valve
    BY DEF ValveFollowed, Following
  <2>2. \A p \in Appliers : doing[p] # "enabling"
    BY <2>1, Names DEF Applied
  <2>3. ~\E j \in DOMAIN ready : Tells(j)
    <3>1. ready = <<>>
      BY <2>1 DEF Applied
    <3>2. DOMAIN ready = {}
      BY <3>1
    <3>3. QED
      BY <3>2
  <2>4. ToCome
    BY <1>1 DEF VInv
  <2>5. QED
    BY <2>1, <2>2, <2>3, <2>4 DEF ToCome
<1>2. QED
  BY Invariant, <1>1, PTL
=============================================================================
