-------------------------- MODULE WeinDeviceProofs --------------------------
(***************************************************************************)
(* That the device follows the connection to its sensor, for a queue of    *)
(* the loop of any length and every kind of valve characteristic: neither  *)
(* MaxReady nor Kinds is used.                                             *)
(*                                                                         *)
(* The steps are proved with the queue seen through a few predicates: what *)
(* is in it, what comes before what, and which valve state is the last.    *)
(***************************************************************************)
EXTENDS WeinDevice, SequenceTheorems, TLAPS

Item == {"connect", "poll", "lost"} \cup Valve
Queue == Seq(Item)

\* No task is in the queue twice.
Once(q) ==
    \A i, j \in DOMAIN q : q[i] = q[j] /\ q[i] \in {"connect", "poll"} => i = j

\* Wherever both are, x is before y.
Before(q, x, y) == \A i, j \in DOMAIN q : q[i] = x /\ q[j] = y => i < j

NoValve(q) == \A i \in DOMAIN q : q[i] \notin Valve

\* After every notification the loss of its link.
LostAfter(q) ==
    \A i \in DOMAIN q : q[i] \in Valve => \E j \in DOMAIN q : j > i /\ q[j] = "lost"

\* The state of the valve that an item brings, when the answer of the attempt is c.
Brings(item, c) == IF item = "connect" THEN c ELSE item

\* The last item that brings a state brings v; no item brings any.
Ends(q, c, v) ==
    \E i \in DOMAIN q :
        /\ Brings(q[i], c) = v
        /\ \A j \in DOMAIN q : j > i => Brings(q[j], c) \notin Valve
Silent(q, c) == \A i \in DOMAIN q : Brings(q[i], c) \notin Valve

-----------------------------------------------------------------------------
(***************************************************************************)
(* The queue.                                                              *)
(***************************************************************************)

\* The places of a queue and of the one that is longer by an item.
LEMMA Longer ==
    ASSUME NEW q \in Queue, NEW x \in Item
    PROVE  /\ Append(q, x) \in Queue /\ Len(q) \in Nat
           /\ DOMAIN q = 1..Len(q) /\ DOMAIN Append(q, x) = 1..(Len(q) + 1)
           /\ \A i \in 1..Len(q) : Append(q, x)[i] = q[i]
           /\ Append(q, x)[Len(q) + 1] = x
<1>1. /\ Append(q, x) \in Queue /\ Len(Append(q, x)) = Len(q) + 1
      /\ \A i \in 1..Len(q) : Append(q, x)[i] = q[i]
      /\ Append(q, x)[Len(q) + 1] = x
  BY AppendProperties DEF Queue
<1>2. Len(q) \in Nat /\ DOMAIN q = 1..Len(q)
  BY LenProperties DEF Queue
<1>3. DOMAIN Append(q, x) = 1..Len(Append(q, x))
  BY <1>1, LenProperties DEF Queue
<1>4. QED
  BY <1>1, <1>2, <1>3

\* The places of a queue and of what is behind its head.
LEMMA Shorter ==
    ASSUME NEW q \in Queue, q # <<>>
    PROVE  /\ Tail(q) \in Queue /\ Head(q) \in Item /\ Head(q) = q[1]
           /\ Len(q) \in Nat \ {0} /\ DOMAIN q = 1..Len(q)
           /\ DOMAIN Tail(q) = 1..(Len(q) - 1)
           /\ \A i \in 1..(Len(q) - 1) : Tail(q)[i] = q[i + 1]
<1>1. /\ Head(q) \in Item /\ Tail(q) \in Queue /\ Len(Tail(q)) = Len(q) - 1
      /\ \A i \in 1..Len(Tail(q)) : Tail(q)[i] = q[i + 1]
  BY HeadTailProperties DEF Queue
<1>2. Len(q) \in Nat \ {0} /\ DOMAIN q = 1..Len(q)
  BY EmptySeq, LenProperties DEF Queue
<1>3. DOMAIN Tail(q) = 1..Len(Tail(q))
  BY <1>1, LenProperties DEF Queue
<1>4. Head(q) = q[1]
  BY DEF Queue
<1>5. QED
  BY <1>1, <1>2, <1>3, <1>4

\* What Append does to the queue's predicates.
LEMMA Appending ==
    ASSUME NEW q \in Queue, NEW x \in Item, NEW c
    PROVE  /\ Append(q, x) \in Queue
           /\ \A y : InQueue(Append(q, x), y) <=> InQueue(q, y) \/ y = x
           /\ Once(q) /\ (x \in {"connect", "poll"} => ~InQueue(q, x)) => Once(Append(q, x))
           /\ \A y, z : Before(q, y, z) /\ y # z /\ (x = y => ~InQueue(q, z))
                            => Before(Append(q, x), y, z)
           /\ NoValve(q) /\ x \notin Valve => NoValve(Append(q, x))
           /\ LostAfter(q) /\ x \notin Valve => LostAfter(Append(q, x))
           /\ x = "lost" => LostAfter(Append(q, x))
           /\ \A v : Ends(q, c, v) /\ Brings(x, c) \notin Valve => Ends(Append(q, x), c, v)
           /\ Ends(Append(q, x), c, Brings(x, c))
           /\ Silent(q, c) /\ Brings(x, c) \notin Valve => Silent(Append(q, x), c)
<1> DEFINE new == Append(q, x)
           n == Len(q)
<1>1. /\ new \in Queue /\ n \in Nat /\ DOMAIN q = 1..n /\ DOMAIN new = 1..(n + 1)
      /\ \A i \in 1..n : new[i] = q[i]
      /\ new[n + 1] = x
  BY Longer
<1> HIDE DEF new, n
<1>2. \A i \in DOMAIN new : (i \in DOMAIN q /\ i < n + 1) \/ i = n + 1
  BY <1>1
<1>3. n + 1 \in DOMAIN new /\ \A i \in DOMAIN q : i \in DOMAIN new /\ i < n + 1 /\ new[i] = q[i]
  BY <1>1
<1>4. \A y : InQueue(new, y) <=> InQueue(q, y) \/ y = x
  BY <1>1, <1>2, <1>3 DEF InQueue
<1>5. Once(q) /\ (x \in {"connect", "poll"} => ~InQueue(q, x)) => Once(new)
  BY <1>1, <1>2, <1>3 DEF Once, InQueue
<1>6. ASSUME NEW y, NEW z, Before(q, y, z), y # z, x = y => ~InQueue(q, z)
      PROVE  Before(new, y, z)
  BY <1>1, <1>2, <1>3, <1>6 DEF Before, InQueue
<1>7. NoValve(q) /\ x \notin Valve => NoValve(new)
  BY <1>1, <1>2, <1>3 DEF NoValve
<1>8. LostAfter(q) /\ x \notin Valve => LostAfter(new)
  BY <1>1, <1>2, <1>3 DEF LostAfter
<1>9. x = "lost" => LostAfter(new)
  BY <1>1, <1>2, <1>3 DEF LostAfter, Valve
<1>10. ASSUME NEW v, Ends(q, c, v), Brings(x, c) \notin Valve
       PROVE  Ends(new, c, v)
  BY <1>1, <1>2, <1>3, <1>10 DEF Ends
<1>11. Ends(new, c, Brings(x, c))
  <2>1. \A j \in DOMAIN new : ~(j > n + 1)
    BY <1>1
  <2>2. QED
    BY <1>1, <1>3, <2>1 DEF Ends
<1>12. Silent(q, c) /\ Brings(x, c) \notin Valve => Silent(new, c)
  BY <1>1, <1>2, <1>3 DEF Silent
<1>13. QED
  BY <1>1, <1>4, <1>5, <1>6, <1>7, <1>8, <1>9, <1>10, <1>11, <1>12 DEF new

\* What Tail does to them.
LEMMA Taking ==
    ASSUME NEW q \in Queue, q # <<>>, NEW c
    PROVE  /\ Tail(q) \in Queue /\ Head(q) \in Item
           /\ \A y : InQueue(q, y) <=> InQueue(Tail(q), y) \/ y = Head(q)
           /\ Once(q) => /\ Once(Tail(q))
                         /\ Head(q) \in {"connect", "poll"} => ~InQueue(Tail(q), Head(q))
           /\ \A y, z : Before(q, y, z) /\ y # z
                            => Before(Tail(q), y, z) /\ (Head(q) = z => ~InQueue(q, y))
           /\ NoValve(q) => NoValve(Tail(q))
           /\ LostAfter(q) => LostAfter(Tail(q))
           /\ \A v : Ends(q, c, v) => \/ Ends(Tail(q), c, v)
                                      \/ Brings(Head(q), c) = v /\ Silent(Tail(q), c)
           /\ Silent(q, c) => Silent(Tail(q), c) /\ Brings(Head(q), c) \notin Valve
<1> DEFINE new == Tail(q)
           n == Len(q)
           x == Head(q)
<1>1. /\ new \in Queue /\ n \in Nat \ {0} /\ x \in Item /\ q[1] = x
      /\ DOMAIN q = 1..n /\ DOMAIN new = 1..(n - 1)
      /\ \A i \in 1..(n - 1) : new[i] = q[i + 1]
  BY Shorter
<1> HIDE DEF new, n, x
<1>2. 1 \in DOMAIN q /\ \A i \in DOMAIN new : i \in Nat /\ i + 1 \in DOMAIN q /\ new[i] = q[i + 1]
  BY <1>1
<1>3. \A i \in DOMAIN q : i = 1 \/ (i > 1 /\ i - 1 \in DOMAIN new /\ new[i - 1] = q[i])
  BY <1>1
<1>4. \A y : InQueue(q, y) <=> InQueue(new, y) \/ y = x
  BY <1>1, <1>2, <1>3 DEF InQueue
<1>5. ASSUME Once(q)
      PROVE  Once(new) /\ (x \in {"connect", "poll"} => ~InQueue(new, x))
  <2>1. \A i, j \in DOMAIN new : i + 1 = j + 1 => i = j
    BY <1>2
  <2>2. Once(new)
    BY <1>2, <1>5, <2>1 DEF Once
  <2>3. \A i \in DOMAIN new : i + 1 # 1
    BY <1>1
  <2>4. QED
    BY <1>1, <1>2, <1>5, <2>2, <2>3 DEF Once, InQueue
<1>6. ASSUME NEW y, NEW z, Before(q, y, z), y # z
      PROVE  Before(new, y, z) /\ (x = z => ~InQueue(q, y))
  <2>1. \A i, j \in DOMAIN new : i + 1 < j + 1 => i < j
    BY <1>2
  <2>2. Before(new, y, z)
    BY <1>2, <1>6, <2>1 DEF Before
  <2>3. \A i \in DOMAIN q : ~(i < 1)
    BY <1>1
  <2>4. QED
    BY <1>1, <1>2, <1>6, <2>2, <2>3 DEF Before, InQueue
<1>7. NoValve(q) => NoValve(new)
  BY <1>2 DEF NoValve
<1>8. ASSUME LostAfter(q), NEW i \in DOMAIN new, new[i] \in Valve
      PROVE  \E j \in DOMAIN new : j > i /\ new[j] = "lost"
  <2>1. PICK j \in DOMAIN q : j > i + 1 /\ q[j] = "lost"
    BY <1>2, <1>8 DEF LostAfter
  <2>2. j - 1 \in DOMAIN new /\ j - 1 > i /\ new[j - 1] = "lost"
    BY <1>1, <1>2, <1>3, <2>1
  <2>3. QED
    BY <2>2
<1>9. ASSUME NEW v, Ends(q, c, v)
      PROVE  Ends(new, c, v) \/ (Brings(x, c) = v /\ Silent(new, c))
  <2>1. PICK i \in DOMAIN q : /\ Brings(q[i], c) = v
                              /\ \A j \in DOMAIN q : j > i => Brings(q[j], c) \notin Valve
    BY <1>9 DEF Ends
  <2>2. CASE i = 1
    <3>1. \A j \in DOMAIN new : Brings(new[j], c) \notin Valve
      <4>1. \A j \in DOMAIN new : j + 1 > 1
        BY <1>1
      <4>2. QED
        BY <1>2, <2>1, <2>2, <4>1
    <3>2. QED
      BY <1>1, <2>1, <2>2, <3>1 DEF Silent
  <2>3. CASE i > 1
    <3>1. i - 1 \in DOMAIN new /\ Brings(new[i - 1], c) = v
      BY <1>3, <2>1, <2>3
    <3>2. \A j \in DOMAIN new : j > i - 1 => j + 1 > i
      BY <1>1, <2>1
    <3>3. \A j \in DOMAIN new : j > i - 1 => Brings(new[j], c) \notin Valve
      BY <1>2, <2>1, <3>2
    <3>4. QED
      BY <3>1, <3>3 DEF Ends
  <2>4. QED
    BY <1>3, <2>2, <2>3
<1>10. Silent(q, c) => Silent(new, c) /\ Brings(x, c) \notin Valve
  BY <1>1, <1>2 DEF Silent
<1>11. LostAfter(q) => LostAfter(new)
  BY <1>8 DEF LostAfter
<1>12. QED
  BY <1>1, <1>4, <1>5, <1>6, <1>7, <1>9, <1>10, <1>11 DEF new, x

\* Without the attempt in the queue it does not matter what its answer is.
LEMMA Indifferent ==
    ASSUME NEW q \in Queue, ~InQueue(q, "connect"), NEW c, NEW d
    PROVE  /\ \A v : Ends(q, c, v) => Ends(q, d, v)
           /\ Silent(q, c) => Silent(q, d)
<1>1. \A i \in DOMAIN q : Brings(q[i], c) = Brings(q[i], d)
  BY DEF InQueue, Brings
<1>2. QED
  BY <1>1 DEF Ends, Silent

\* With its loss handled, nothing notified on an earlier link is left.
LEMMA NothingLeft ==
    ASSUME NEW q \in Queue, LostAfter(q), ~InQueue(q, "lost")
    PROVE  NoValve(q)
BY DEF LostAfter, InQueue, NoValve

\* Without notifications and without an answer no state is on its way.
LEMMA NothingBrought ==
    ASSUME NEW q \in Queue, NoValve(q), NEW c, c \notin Valve
    PROVE  Silent(q, c)
BY DEF NoValve, Silent, Brings

\* The attempt goes to the end of the queue.
LEMMA QueueConnect ==
    ASSUME NEW q \in Queue, Once(q), ~InQueue(q, "connect"), NEW c, NEW d, NEW v
    PROVE  LET new == Append(q, "connect")
           IN  /\ new \in Queue /\ Once(new)
               /\ InQueue(new, "connect") /\ Before(new, "lost", "connect")
               /\ Before(new, "poll", "connect")
               /\ InQueue(new, "poll") <=> InQueue(q, "poll")
               /\ InQueue(new, "lost") <=> InQueue(q, "lost")
               /\ NoValve(q) => NoValve(new)
               /\ LostAfter(q) => LostAfter(new)
               /\ Ends(q, c, v) /\ d \notin Valve => Ends(new, d, v)
               /\ Silent(q, c) /\ d \notin Valve => Silent(new, d)
               /\ Ends(new, d, d)
<1>1. /\ "connect" \in Item /\ "connect" \notin Valve
      /\ "connect" # "poll" /\ "connect" # "lost" /\ Brings("connect", d) = d
  BY DEF Item, Valve, Brings
<1>2. Before(q, "lost", "connect") /\ Before(q, "poll", "connect")
  BY DEF Before, InQueue
<1>3. (Ends(q, c, v) => Ends(q, d, v)) /\ (Silent(q, c) => Silent(q, d))
  BY Indifferent
<1> DEFINE new == Append(q, "connect")
<1>4. /\ new \in Queue /\ \A y : InQueue(new, y) <=> InQueue(q, y) \/ y = "connect"
      /\ Once(q) /\ ("connect" \in {"connect", "poll"} => ~InQueue(q, "connect")) => Once(new)
      /\ \A y, z : Before(q, y, z) /\ y # z /\ ("connect" = y => ~InQueue(q, z))
                       => Before(new, y, z)
      /\ NoValve(q) /\ "connect" \notin Valve => NoValve(new)
      /\ LostAfter(q) /\ "connect" \notin Valve => LostAfter(new)
      /\ \A w : Ends(q, d, w) /\ Brings("connect", d) \notin Valve => Ends(new, d, w)
      /\ Ends(new, d, Brings("connect", d))
      /\ Silent(q, d) /\ Brings("connect", d) \notin Valve => Silent(new, d)
  BY <1>1, Appending
<1> HIDE DEF new
<1>5. Once(new)
  BY <1>4
<1>6. /\ InQueue(new, "connect")
      /\ InQueue(new, "poll") <=> InQueue(q, "poll")
      /\ InQueue(new, "lost") <=> InQueue(q, "lost")
  BY <1>1, <1>4
<1>7. Before(new, "lost", "connect") /\ Before(new, "poll", "connect")
  BY <1>1, <1>2, <1>4
<1>8. QED
  BY <1>1, <1>3, <1>4, <1>5, <1>6, <1>7 DEF new

\* The poll goes to the end of the queue.
LEMMA QueuePoll ==
    ASSUME NEW q \in Queue, Once(q), ~InQueue(q, "poll"), NEW c, NEW v
    PROVE  LET new == Append(q, "poll")
           IN  /\ new \in Queue /\ Once(new) /\ InQueue(new, "poll")
               /\ InQueue(new, "connect") <=> InQueue(q, "connect")
               /\ InQueue(new, "lost") <=> InQueue(q, "lost")
               /\ Before(q, "lost", "connect") => Before(new, "lost", "connect")
               /\ NoValve(q) => NoValve(new)
               /\ LostAfter(q) => LostAfter(new)
               /\ Ends(q, c, v) => Ends(new, c, v)
               /\ Silent(q, c) => Silent(new, c)
<1>1. /\ "poll" \in Item /\ "poll" \notin Valve /\ "poll" # "lost" /\ "poll" # "connect"
      /\ "lost" # "connect" /\ Brings("poll", c) \notin Valve
  BY DEF Item, Valve, Brings
<1> DEFINE new == Append(q, "poll")
<1>2. /\ new \in Queue /\ \A y : InQueue(new, y) <=> InQueue(q, y) \/ y = "poll"
      /\ Once(q) /\ ("poll" \in {"connect", "poll"} => ~InQueue(q, "poll")) => Once(new)
      /\ \A y, z : Before(q, y, z) /\ y # z /\ ("poll" = y => ~InQueue(q, z))
                       => Before(new, y, z)
      /\ NoValve(q) /\ "poll" \notin Valve => NoValve(new)
      /\ LostAfter(q) /\ "poll" \notin Valve => LostAfter(new)
      /\ \A w : Ends(q, c, w) /\ Brings("poll", c) \notin Valve => Ends(new, c, w)
      /\ Silent(q, c) /\ Brings("poll", c) \notin Valve => Silent(new, c)
  BY <1>1, Appending
<1> HIDE DEF new
<1>3. Once(new)
  BY <1>2
<1>4. /\ InQueue(new, "poll")
      /\ InQueue(new, "connect") <=> InQueue(q, "connect")
      /\ InQueue(new, "lost") <=> InQueue(q, "lost")
  BY <1>1, <1>2
<1>5. Before(q, "lost", "connect") => Before(new, "lost", "connect")
  BY <1>1, <1>2
<1>6. QED
  BY <1>1, <1>2, <1>3, <1>4, <1>5 DEF new

\* The loss of the link goes to the end of the queue.
LEMMA QueueLost ==
    ASSUME NEW q \in Queue, Once(q)
    PROVE  LET new == Append(q, "lost")
           IN  /\ new \in Queue /\ Once(new) /\ InQueue(new, "lost") /\ LostAfter(new)
               /\ InQueue(new, "connect") <=> InQueue(q, "connect")
               /\ InQueue(new, "poll") <=> InQueue(q, "poll")
               /\ Before(q, "poll", "connect") => Before(new, "poll", "connect")
<1>1. /\ "lost" \in Item /\ "lost" # "poll" /\ "lost" # "connect" /\ "poll" # "connect"
      /\ "lost" \notin {"connect", "poll"}
  BY DEF Item
<1> DEFINE new == Append(q, "lost")
<1>2. /\ new \in Queue /\ \A y : InQueue(new, y) <=> InQueue(q, y) \/ y = "lost"
      /\ Once(q) /\ ("lost" \in {"connect", "poll"} => ~InQueue(q, "lost")) => Once(new)
      /\ \A y, z : Before(q, y, z) /\ y # z /\ ("lost" = y => ~InQueue(q, z))
                       => Before(new, y, z)
      /\ LostAfter(new)
  BY <1>1, Appending
<1> HIDE DEF new
<1>3. Once(new)
  BY <1>1, <1>2
<1>4. /\ InQueue(new, "lost")
      /\ InQueue(new, "connect") <=> InQueue(q, "connect")
      /\ InQueue(new, "poll") <=> InQueue(q, "poll")
  BY <1>1, <1>2
<1>5. Before(q, "poll", "connect") => Before(new, "poll", "connect")
  BY <1>1, <1>2
<1>6. QED
  BY <1>2, <1>3, <1>4, <1>5 DEF new

\* A notification goes to the end of the queue.
LEMMA QueueValve ==
    ASSUME NEW q \in Queue, Once(q), NEW v \in Valve, NEW c
    PROVE  LET new == Append(q, v)
           IN  /\ new \in Queue /\ Once(new) /\ Ends(new, c, v)
               /\ InQueue(new, "connect") <=> InQueue(q, "connect")
               /\ InQueue(new, "poll") <=> InQueue(q, "poll")
               /\ InQueue(new, "lost") <=> InQueue(q, "lost")
               /\ Before(q, "lost", "connect") => Before(new, "lost", "connect")
               /\ Before(q, "poll", "connect") => Before(new, "poll", "connect")
<1>1. /\ v \in Item /\ v # "lost" /\ v # "poll" /\ v # "connect"
      /\ v \notin {"connect", "poll"} /\ Brings(v, c) = v
      /\ "lost" # "connect" /\ "poll" # "connect"
  BY DEF Item, Valve, Brings
<1> DEFINE new == Append(q, v)
<1>2. /\ new \in Queue /\ \A y : InQueue(new, y) <=> InQueue(q, y) \/ y = v
      /\ Once(q) /\ (v \in {"connect", "poll"} => ~InQueue(q, v)) => Once(new)
      /\ \A y, z : Before(q, y, z) /\ y # z /\ (v = y => ~InQueue(q, z))
                       => Before(new, y, z)
      /\ Ends(new, c, Brings(v, c))
  BY <1>1, Appending
<1> HIDE DEF new
<1>3. Once(new) /\ Ends(new, c, v)
  BY <1>1, <1>2
<1>4. /\ InQueue(new, "connect") <=> InQueue(q, "connect")
      /\ InQueue(new, "poll") <=> InQueue(q, "poll")
      /\ InQueue(new, "lost") <=> InQueue(q, "lost")
  BY <1>1, <1>2
<1>5. /\ Before(q, "lost", "connect") => Before(new, "lost", "connect")
      /\ Before(q, "poll", "connect") => Before(new, "poll", "connect")
  BY <1>1, <1>2
<1>6. QED
  BY <1>2, <1>3, <1>4, <1>5 DEF new

\* The loop takes the head of the queue.
LEMMA Dequeue ==
    ASSUME NEW q \in Queue, q # <<>>, Once(q), NEW x, x = Head(q), NEW c, NEW v
    PROVE  LET new == Tail(q)
           IN  /\ new \in Queue /\ Once(new) /\ InQueue(q, x)
               /\ x \in {"connect", "poll"} => ~InQueue(new, x)
               /\ \A y \in Item : y # x => (InQueue(new, y) <=> InQueue(q, y))
               /\ \A y \in Item : InQueue(new, y) => InQueue(q, y)
               /\ Before(q, "lost", "connect") =>
                      /\ Before(new, "lost", "connect")
                      /\ x = "connect" => ~InQueue(q, "lost")
               /\ Before(q, "poll", "connect") =>
                      /\ Before(new, "poll", "connect")
                      /\ x = "connect" => ~InQueue(q, "poll")
               /\ NoValve(q) => NoValve(new)
               /\ LostAfter(q) => LostAfter(new)
               /\ Ends(q, c, v) => Ends(new, c, v) \/ (Brings(x, c) = v /\ Silent(new, c))
               /\ Silent(q, c) => Silent(new, c) /\ Brings(x, c) \notin Valve
<1>1. "lost" # "connect" /\ "poll" # "connect"
  OBVIOUS
<1> DEFINE new == Tail(q)
<1>2. /\ new \in Queue
      /\ \A y : InQueue(q, y) <=> InQueue(new, y) \/ y = x
      /\ Once(new)
      /\ x \in {"connect", "poll"} => ~InQueue(new, x)
      /\ \A y, z : Before(q, y, z) /\ y # z
                       => Before(new, y, z) /\ (x = z => ~InQueue(q, y))
      /\ NoValve(q) => NoValve(new)
      /\ LostAfter(q) => LostAfter(new)
      /\ \A w : Ends(q, c, w) => Ends(new, c, w) \/ (Brings(x, c) = w /\ Silent(new, c))
      /\ Silent(q, c) => Silent(new, c) /\ Brings(x, c) \notin Valve
  BY Taking
<1> HIDE DEF new
<1>3. /\ Before(q, "lost", "connect") =>
             Before(new, "lost", "connect") /\ (x = "connect" => ~InQueue(q, "lost"))
      /\ Before(q, "poll", "connect") =>
             Before(new, "poll", "connect") /\ (x = "connect" => ~InQueue(q, "poll"))
  BY <1>1, <1>2
<1>4. InQueue(q, x) /\ \A y : /\ y # x => (InQueue(new, y) <=> InQueue(q, y))
                              /\ InQueue(new, y) => InQueue(q, y)
  BY <1>2
<1>5. QED
  BY <1>2, <1>3, <1>4 DEF new

-----------------------------------------------------------------------------
(***************************************************************************)
(* The invariant.                                                          *)
(***************************************************************************)

\* TypeOK but for the queue.
SensorOK ==
    /\ props \in Kinds /\ near \in BOOLEAN /\ valve \in Valve
    /\ link \in BOOLEAN /\ notifying \in BOOLEAN
DeviceOK ==
    /\ life \in {"new", "running", "parting", "stopped"}
    /\ client \in {"none", "live", "dead"} /\ available \in BOOLEAN
    /\ valve_open \in Valve \cup {"unknown"}
    /\ shown \in Valve \cup {"unavailable"}
    /\ fresh \in BOOLEAN /\ blind \in BOOLEAN
TasksOK ==
    /\ attempt \in {"off", "created", "establish", "temperature", "valve", "read"}
    /\ result \in {"none", "ok", "error", "cancelled"} \cup Valve
    /\ poll \in {"off", "look", "read", "pause"} /\ polled \in BOOLEAN
    /\ answer \in {"none", "error", "cancelled"} \cup Valve
Scalars == SensorOK /\ DeviceOK /\ TasksOK

QueueOK == ready \in Queue /\ Once(ready)

\* The connection, and what rests on it.
OnLink ==
    /\ client = "live" => link /\ available /\ attempt = "off"
    /\ notifying => link /\ "notify" \in props
    /\ polled => link
    /\ life = "new" => ~link /\ attempt = "off" /\ poll = "off" /\ client = "none"

\* The loss of a link is handled before the next link comes up.
LostFirst ==
    /\ InQueue(ready, "lost") => ~link
    /\ attempt = "created" => ~link /\ Before(ready, "lost", "connect")
    /\ attempt = "establish" /\ result # "ok" /\ ~unloaded => ~link /\ ~InQueue(ready, "lost")

\* Where the attempt is, and what has become of what it awaits.
ConnectInOrder ==
    /\ InQueue(ready, "connect") =>
           \/ attempt # "off" /\ result = "cancelled"
           \/ attempt = "created" /\ result = "none"
           \/ attempt \in {"establish", "temperature", "valve"} /\ result \in {"ok", "error"}
           \/ attempt = "read" /\ result \in {"error"} \cup Valve
    /\ ~InQueue(ready, "connect") => attempt # "created" /\ result = "none"

\* The same for the poll, and that a sensor which notifies needs none.
PollInOrder ==
    /\ InQueue(ready, "poll") =>
           \/ poll # "off" /\ answer = "cancelled"
           \/ poll = "look" /\ answer = "none"
           \/ poll = "read" /\ answer \in {"error"} \cup Valve
    /\ ~InQueue(ready, "poll") => answer = "none" /\ poll # "look"
    /\ "notify" \in props => poll = "off"

\* The poll is about to end.
Ending == InQueue(ready, "poll") /\ (answer = "cancelled" \/ poll = "look") /\ ~polled

OnlyRead == props = {"read"}

\* The poll of a connection in use.
PollLives == client = "live" /\ OnlyRead => poll # "off" /\ polled /\ answer # "cancelled"

\* A poll whose link is down ends before it does anything else.
PollEnds == poll # "off" /\ ~polled => InQueue(ready, "lost") \/ Ending

\* The poll of an earlier connection is over before the attempt goes on.
PollBefore ==
    /\ attempt = "establish" /\ poll # "off" => Ending /\ Before(ready, "poll", "connect")
    /\ attempt \in {"temperature", "valve", "read"} => poll = "off"

\* Notifications of a link that is down are handled before its loss is.
NotifiedBefore ==
    \/ link /\ notifying
    \/ link /\ NoValve(ready)
    \/ ~link /\ LostAfter(ready)

\* A sensor that can notify is read only when it does.
NotifiesFirst ==
    /\ link /\ attempt = "valve" /\ result = "ok" => notifying
    /\ link /\ attempt = "read" /\ "notify" \in props => notifying
    /\ attempt = "valve" => "notify" \in props
    /\ link /\ ~notifying /\ "notify" \in props => ~fresh

\* The answer of the attempt, if it is one of the first reading.
Reading == IF attempt = "read" THEN result ELSE "none"

\* The last state that is on its way, or else the one applied, is the sensor's.
LastIsTrue ==
    notifying /\ ~unloaded =>
        \/ Ends(ready, Reading, valve)
        \/ Silent(ready, Reading) /\ (fresh => valve_open = valve)

\* The entity shows what the device knows.
Told == ~unloaded => shown = Entity(available, valve_open)

DInv ==
    /\ Scalars /\ QueueOK
    /\ UnloadedHoldsNothing /\ AvailableIsConnected /\ PollLives
    /\ OnLink /\ LostFirst /\ ConnectInOrder /\ PollInOrder /\ PollEnds /\ PollBefore
    /\ NotifiedBefore /\ NotifiesFirst /\ LastIsTrue /\ Told

\* The type invariant in two parts.
LEMMA TypeParts == TypeOK <=> Scalars /\ QueueOK
BY DEF TypeOK, Scalars, SensorOK, DeviceOK, TasksOK, QueueOK, Once, Queue, Item

\* What resuming the cancelled attempt does to the queue.
LEMMA WokenConnect ==
    ASSUME NEW q \in Queue, Once(q)
    PROVE  LET new == Woken(q, "connect")
           IN  /\ new \in Queue /\ Once(new) /\ InQueue(new, "connect")
               /\ InQueue(new, "poll") <=> InQueue(q, "poll")
               /\ InQueue(new, "lost") <=> InQueue(q, "lost")
               /\ Before(q, "lost", "connect") => Before(new, "lost", "connect")
               /\ Before(q, "poll", "connect") => Before(new, "poll", "connect")
               /\ NoValve(q) => NoValve(new)
               /\ LostAfter(q) => LostAfter(new)
<1>1. CASE InQueue(q, "connect")
  BY <1>1 DEF Woken
<1>2. CASE ~InQueue(q, "connect")
  <2>1. Woken(q, "connect") = Append(q, "connect")
    BY <1>2 DEF Woken
  <2>2. QED
    BY <1>2, <2>1, QueueConnect
<1>3. QED
  BY <1>1, <1>2

\* What resuming the cancelled poll does to it.
LEMMA WokenPoll ==
    ASSUME NEW q \in Queue, Once(q), NEW c, NEW v
    PROVE  LET new == Woken(q, "poll")
           IN  /\ new \in Queue /\ Once(new) /\ InQueue(new, "poll")
               /\ InQueue(new, "connect") <=> InQueue(q, "connect")
               /\ InQueue(new, "lost") <=> InQueue(q, "lost")
               /\ Before(q, "lost", "connect") => Before(new, "lost", "connect")
               /\ Before(q, "poll", "connect") /\ InQueue(q, "poll")
                      => Before(new, "poll", "connect")
               /\ NoValve(q) => NoValve(new)
               /\ LostAfter(q) => LostAfter(new)
               /\ Ends(q, c, v) => Ends(new, c, v)
               /\ Silent(q, c) => Silent(new, c)
<1>1. CASE InQueue(q, "poll")
  BY <1>1 DEF Woken
<1>2. CASE ~InQueue(q, "poll")
  <2>1. Woken(q, "poll") = Append(q, "poll")
    BY <1>2 DEF Woken
  <2>2. QED
    BY <1>2, <2>1, QueuePoll
<1>3. QED
  BY <1>1, <1>2

-----------------------------------------------------------------------------
(***************************************************************************)
(* Every step keeps the invariant: the sensor and the library.             *)
(***************************************************************************)

\* A step that changes nothing of the device, its queue and its connection.
LEMMA NextUnchanged ==
    ASSUME DInv, UNCHANGED vars
    PROVE  DInv'
<1>1. /\ Scalars' <=> Scalars
      /\ QueueOK' <=> QueueOK
  BY DEF Scalars, SensorOK, DeviceOK, TasksOK, QueueOK, vars, sensor, tasks
<1>2. /\ UnloadedHoldsNothing' <=> UnloadedHoldsNothing
      /\ AvailableIsConnected' <=> AvailableIsConnected
      /\ PollLives' <=> PollLives
  BY DEF UnloadedHoldsNothing, AvailableIsConnected, PollLives, OnlyRead, unloaded, vars, sensor, tasks
<1>3. OnLink' /\ LostFirst' /\ ConnectInOrder' /\ PollInOrder'
  BY DEF DInv, OnLink, LostFirst, ConnectInOrder, PollInOrder, unloaded, vars, sensor, tasks
<1>4. PollEnds' /\ PollBefore' /\ NotifiedBefore' /\ NotifiesFirst'
  BY DEF DInv, PollEnds, PollBefore, Ending, NotifiedBefore, NotifiesFirst, vars, sensor, tasks
<1>5. LastIsTrue' /\ Told'
  BY DEF DInv, LastIsTrue, Told, Reading, unloaded, vars, sensor, tasks
<1>6. QED
  BY <1>1, <1>2, <1>3, <1>4, <1>5 DEF DInv

\* The sensor comes into range, or leaves it.
LEMMA NextMoves ==
    ASSUME DInv, Moves
    PROVE  DInv'
<1>1. /\ Scalars /\ QueueOK /\ UnloadedHoldsNothing /\ AvailableIsConnected /\ PollLives
      /\ OnLink /\ LostFirst /\ ConnectInOrder /\ PollInOrder /\ PollEnds /\ PollBefore
      /\ NotifiedBefore /\ NotifiesFirst /\ LastIsTrue /\ Told
  BY DEF DInv
<1>2. ready' = ready
  BY DEF Moves
<1>3. Scalars'
  <2>1. SensorOK'
    BY <1>1 DEF Scalars, SensorOK, DeviceOK, TasksOK, Moves, tasks
  <2>2. DeviceOK'
    BY <1>1 DEF Scalars, SensorOK, DeviceOK, TasksOK, Moves, tasks
  <2>3. TasksOK'
    BY <1>1, <1>2 DEF Scalars, SensorOK, DeviceOK, TasksOK, Moves, tasks
  <2>4. QED
    BY <2>1, <2>2, <2>3 DEF Scalars
<1>4. QueueOK'
  BY <1>1, <1>2 DEF QueueOK
<1>5. UnloadedHoldsNothing'
  BY <1>1, <1>2 DEF Scalars, SensorOK, DeviceOK, TasksOK, UnloadedHoldsNothing, unloaded,
     Moves, tasks
<1>6. AvailableIsConnected'
  BY <1>1, <1>2 DEF Scalars, SensorOK, DeviceOK, TasksOK, AvailableIsConnected,
     UnloadedHoldsNothing, unloaded, Moves, tasks
<1>7. PollLives'
  BY <1>1, <1>2 DEF Scalars, SensorOK, DeviceOK, TasksOK, PollLives, OnlyRead, Valve,
     OnLink, PollInOrder, Moves, tasks
<1>8. OnLink' /\ LostFirst'
  BY <1>1, <1>2 DEF Scalars, SensorOK, DeviceOK, TasksOK, OnLink, LostFirst,
     ConnectInOrder, unloaded, Moves, tasks
<1>9. ConnectInOrder' /\ PollInOrder'
  BY <1>1, <1>2 DEF Scalars, SensorOK, DeviceOK, TasksOK, ConnectInOrder, PollInOrder,
     OnLink, Moves, tasks
<1>10. PollEnds' /\ PollBefore'
  BY <1>1, <1>2 DEF Scalars, SensorOK, DeviceOK, TasksOK, PollEnds, PollBefore, Ending,
     OnLink, Moves, tasks
<1>11. NotifiedBefore' /\ NotifiesFirst'
  BY <1>1, <1>2 DEF Scalars, SensorOK, DeviceOK, TasksOK, NotifiedBefore, NotifiesFirst,
     OnLink, LostFirst, Moves, tasks
<1>12. LastIsTrue' /\ Told'
  BY <1>1, <1>2 DEF Scalars, SensorOK, DeviceOK, TasksOK, LastIsTrue, Told, Reading,
     unloaded, NotifiedBefore, NotifiesFirst, OnLink, Moves, tasks
<1>13. QED
  BY <1>3, <1>4, <1>5, <1>6, <1>7, <1>8, <1>9, <1>10, <1>11, <1>12 DEF DInv

\* The link breaks: its loss is now in the queue, after all it has notified.
LEMMA NextBreaks ==
    ASSUME DInv, Breaks
    PROVE  DInv'
<1>1. /\ Scalars /\ QueueOK /\ UnloadedHoldsNothing /\ AvailableIsConnected /\ PollLives
      /\ OnLink /\ LostFirst /\ ConnectInOrder /\ PollInOrder /\ PollEnds /\ PollBefore
      /\ NotifiedBefore /\ NotifiesFirst /\ LastIsTrue /\ Told
  BY DEF DInv
<1>2. /\ ready' \in Queue /\ Once(ready') /\ InQueue(ready', "lost") /\ LostAfter(ready')
      /\ InQueue(ready', "connect") <=> InQueue(ready, "connect")
      /\ InQueue(ready', "poll") <=> InQueue(ready, "poll")
      /\ Before(ready, "poll", "connect") => Before(ready', "poll", "connect")
  BY <1>1, QueueLost DEF Breaks, QueueOK
<1>3. Scalars'
  <2>1. SensorOK'
    BY <1>1 DEF Scalars, SensorOK, DeviceOK, TasksOK, Breaks
  <2>2. DeviceOK'
    BY <1>1 DEF Scalars, SensorOK, DeviceOK, TasksOK, Breaks
  <2>3. TasksOK'
    BY <1>1, <1>2 DEF Scalars, SensorOK, DeviceOK, TasksOK, Breaks
  <2>4. QED
    BY <2>1, <2>2, <2>3 DEF Scalars
<1>4. QueueOK'
  BY <1>1, <1>2 DEF QueueOK
<1>5. UnloadedHoldsNothing'
  BY <1>1, <1>2 DEF Scalars, SensorOK, DeviceOK, TasksOK, UnloadedHoldsNothing, unloaded,
     Breaks
<1>6. AvailableIsConnected'
  BY <1>1, <1>2 DEF Scalars, SensorOK, DeviceOK, TasksOK, AvailableIsConnected,
     UnloadedHoldsNothing, unloaded, Breaks
<1>7. PollLives'
  BY <1>1, <1>2 DEF Scalars, SensorOK, DeviceOK, TasksOK, PollLives, OnlyRead, Valve,
     OnLink, PollInOrder, Breaks
<1>8. OnLink' /\ LostFirst'
  BY <1>1, <1>2 DEF Scalars, SensorOK, DeviceOK, TasksOK, OnLink, LostFirst,
     ConnectInOrder, unloaded, Breaks
<1>9. ConnectInOrder' /\ PollInOrder'
  BY <1>1, <1>2 DEF Scalars, SensorOK, DeviceOK, TasksOK, ConnectInOrder, PollInOrder,
     OnLink, Breaks
<1>10. PollEnds' /\ PollBefore'
  BY <1>1, <1>2 DEF Scalars, SensorOK, DeviceOK, TasksOK, PollEnds, PollBefore, Ending,
     OnLink, Breaks
<1>11. NotifiedBefore' /\ NotifiesFirst'
  BY <1>1, <1>2 DEF Scalars, SensorOK, DeviceOK, TasksOK, NotifiedBefore, NotifiesFirst,
     OnLink, LostFirst, Breaks
<1>12. LastIsTrue' /\ Told'
  BY <1>1, <1>2 DEF Scalars, SensorOK, DeviceOK, TasksOK, LastIsTrue, Told, Reading,
     unloaded, NotifiedBefore, NotifiesFirst, OnLink, Breaks
<1>13. QED
  BY <1>3, <1>4, <1>5, <1>6, <1>7, <1>8, <1>9, <1>10, <1>11, <1>12 DEF DInv

\* The reading or the pause of the poll ends.
LEMMA NextPollAwaited ==
    ASSUME DInv, PollAwaited
    PROVE  DInv'
<1>1. /\ Scalars /\ QueueOK /\ UnloadedHoldsNothing /\ AvailableIsConnected /\ PollLives
      /\ OnLink /\ LostFirst /\ ConnectInOrder /\ PollInOrder /\ PollEnds /\ PollBefore
      /\ NotifiedBefore /\ NotifiesFirst /\ LastIsTrue /\ Told
  BY DEF DInv
<1>2. /\ ready' \in Queue /\ Once(ready') /\ InQueue(ready', "poll")
      /\ ~InQueue(ready, "poll")
      /\ InQueue(ready', "connect") <=> InQueue(ready, "connect")
      /\ InQueue(ready', "lost") <=> InQueue(ready, "lost")
      /\ Before(ready, "lost", "connect") => Before(ready', "lost", "connect")
      /\ NoValve(ready) => NoValve(ready')
      /\ LostAfter(ready) => LostAfter(ready')
      /\ Ends(ready, Reading, valve) => Ends(ready', Reading, valve)
      /\ Silent(ready, Reading) => Silent(ready', Reading)
  <2>1. ready \in Queue /\ Once(ready) /\ ready' = Append(ready, "poll") /\ ~InQueue(ready, "poll")
    BY <1>1 DEF PollAwaited, QueueOK
  <2>2. QED
    BY <2>1, QueuePoll
<1>3. Scalars'
  <2>1. SensorOK'
    BY <1>1 DEF Scalars, SensorOK, DeviceOK, TasksOK, PollAwaited, sensor
  <2>2. DeviceOK'
    BY <1>1 DEF Scalars, SensorOK, DeviceOK, TasksOK, PollAwaited, sensor
  <2>3. TasksOK'
    BY <1>1, <1>2 DEF Scalars, SensorOK, DeviceOK, TasksOK, PollAwaited, sensor
  <2>4. QED
    BY <2>1, <2>2, <2>3 DEF Scalars
<1>4. QueueOK'
  BY <1>1, <1>2 DEF QueueOK
<1>5. UnloadedHoldsNothing'
  BY <1>1, <1>2 DEF Scalars, SensorOK, DeviceOK, TasksOK, UnloadedHoldsNothing, unloaded,
     PollAwaited, sensor
<1>6. AvailableIsConnected'
  BY <1>1, <1>2 DEF Scalars, SensorOK, DeviceOK, TasksOK, AvailableIsConnected,
     UnloadedHoldsNothing, unloaded, PollAwaited, sensor
<1>7. PollLives'
  BY <1>1, <1>2 DEF Scalars, SensorOK, DeviceOK, TasksOK, PollLives, OnlyRead, Valve,
     OnLink, PollInOrder, PollAwaited, sensor
<1>8. OnLink' /\ LostFirst'
  BY <1>1, <1>2 DEF Scalars, SensorOK, DeviceOK, TasksOK, OnLink, LostFirst,
     ConnectInOrder, unloaded, PollAwaited, sensor
<1>9. ConnectInOrder' /\ PollInOrder'
  BY <1>1, <1>2 DEF Scalars, SensorOK, DeviceOK, TasksOK, ConnectInOrder, PollInOrder,
     OnLink, PollAwaited, sensor
<1>10. PollEnds' /\ PollBefore'
  BY <1>1, <1>2 DEF Scalars, SensorOK, DeviceOK, TasksOK, PollEnds, PollBefore, Ending,
     OnLink, PollAwaited, sensor
<1>11. NotifiedBefore' /\ NotifiesFirst'
  BY <1>1, <1>2 DEF Scalars, SensorOK, DeviceOK, TasksOK, NotifiedBefore, NotifiesFirst,
     OnLink, LostFirst, PollAwaited, sensor
<1>12. LastIsTrue' /\ Told'
  BY <1>1, <1>2 DEF Scalars, SensorOK, DeviceOK, TasksOK, LastIsTrue, Told, Reading,
     unloaded, NotifiedBefore, NotifiesFirst, OnLink, PollAwaited, sensor
<1>13. QED
  BY <1>3, <1>4, <1>5, <1>6, <1>7, <1>8, <1>9, <1>10, <1>11, <1>12 DEF DInv

\* The sensor is heard, and an attempt to connect is scheduled.
LEMMA NextAdvertised ==
    ASSUME DInv, _async_advertisement, attempt = "off", client # "live"
    PROVE  DInv'
<1>1. /\ Scalars /\ QueueOK /\ UnloadedHoldsNothing /\ AvailableIsConnected /\ PollLives
      /\ OnLink /\ LostFirst /\ ConnectInOrder /\ PollInOrder /\ PollEnds /\ PollBefore
      /\ NotifiedBefore /\ NotifiesFirst /\ LastIsTrue /\ Told
  BY DEF DInv
<1>2. /\ ready' \in Queue /\ Once(ready') /\ attempt' = "created" /\ result' = "none"
      /\ InQueue(ready', "connect") /\ Before(ready', "lost", "connect")
      /\ InQueue(ready', "poll") <=> InQueue(ready, "poll")
      /\ InQueue(ready', "lost") <=> InQueue(ready, "lost")
      /\ NoValve(ready) => NoValve(ready')
      /\ LostAfter(ready) => LostAfter(ready')
  <2>1. /\ ready \in Queue /\ Once(ready) /\ ready' = Append(ready, "connect")
        /\ attempt' = "created" /\ result' = "none"
    BY <1>1 DEF _async_advertisement, _schedule_connect, QueueOK
  <2>2. ~InQueue(ready, "connect")
    BY <1>1 DEF ConnectInOrder
  <2>3. QED
    BY <2>1, <2>2, QueueConnect
<1>3. Scalars'
  <2>1. SensorOK'
    BY <1>1 DEF Scalars, SensorOK, DeviceOK, TasksOK, _async_advertisement, sensor
  <2>2. DeviceOK'
    BY <1>1 DEF Scalars, SensorOK, DeviceOK, TasksOK, _async_advertisement, sensor
  <2>3. TasksOK'
    BY <1>1, <1>2 DEF Scalars, SensorOK, DeviceOK, TasksOK, _async_advertisement, sensor
  <2>4. QED
    BY <2>1, <2>2, <2>3 DEF Scalars
<1>4. QueueOK'
  BY <1>1, <1>2 DEF QueueOK
<1>5. UnloadedHoldsNothing'
  BY <1>1, <1>2 DEF Scalars, SensorOK, DeviceOK, TasksOK, UnloadedHoldsNothing, unloaded,
     _async_advertisement, sensor
<1>6. AvailableIsConnected'
  BY <1>1, <1>2 DEF Scalars, SensorOK, DeviceOK, TasksOK, AvailableIsConnected,
     UnloadedHoldsNothing, unloaded, _async_advertisement, sensor
<1>7. PollLives'
  BY <1>1, <1>2 DEF Scalars, SensorOK, DeviceOK, TasksOK, PollLives, OnlyRead, Valve,
     OnLink, PollInOrder, _async_advertisement, sensor
<1>8. OnLink' /\ LostFirst'
  BY <1>1, <1>2 DEF Scalars, SensorOK, DeviceOK, TasksOK, OnLink, LostFirst,
     ConnectInOrder, unloaded, _async_advertisement, sensor
<1>9. ConnectInOrder' /\ PollInOrder'
  BY <1>1, <1>2 DEF Scalars, SensorOK, DeviceOK, TasksOK, ConnectInOrder, PollInOrder,
     OnLink, _async_advertisement, sensor
<1>10. PollEnds' /\ PollBefore'
  BY <1>1, <1>2 DEF Scalars, SensorOK, DeviceOK, TasksOK, PollEnds, PollBefore, Ending,
     OnLink, _async_advertisement, sensor
<1>11. NotifiedBefore' /\ NotifiesFirst'
  BY <1>1, <1>2 DEF Scalars, SensorOK, DeviceOK, TasksOK, NotifiedBefore, NotifiesFirst,
     OnLink, LostFirst, _async_advertisement, sensor
<1>12. LastIsTrue' /\ Told'
  BY <1>1, <1>2 DEF Scalars, SensorOK, DeviceOK, TasksOK, LastIsTrue, Told, Reading,
     unloaded, NotifiedBefore, NotifiesFirst, OnLink, _async_advertisement, sensor
<1>13. QED
  BY <1>3, <1>4, <1>5, <1>6, <1>7, <1>8, <1>9, <1>10, <1>11, <1>12 DEF DInv

\* The valve moves, and the notification goes behind all others.
LEMMA NextValveMoves ==
    ASSUME DInv, ValveMoves
    PROVE  DInv'
<1>1. /\ Scalars /\ QueueOK /\ UnloadedHoldsNothing /\ AvailableIsConnected /\ PollLives
      /\ OnLink /\ LostFirst /\ ConnectInOrder /\ PollInOrder /\ PollEnds /\ PollBefore
      /\ NotifiedBefore /\ NotifiesFirst /\ LastIsTrue /\ Told
  BY DEF DInv
<1>2. /\ ready' \in Queue /\ Once(ready')
      /\ InQueue(ready', "connect") <=> InQueue(ready, "connect")
      /\ InQueue(ready', "poll") <=> InQueue(ready, "poll")
      /\ InQueue(ready', "lost") <=> InQueue(ready, "lost")
      /\ Before(ready, "lost", "connect") => Before(ready', "lost", "connect")
      /\ Before(ready, "poll", "connect") => Before(ready', "poll", "connect")
      /\ notifying => Ends(ready', Reading, valve')
      /\ ~notifying => (NoValve(ready) => NoValve(ready')) /\ (LostAfter(ready) => LostAfter(ready'))
  <2>1. ready \in Queue /\ Once(ready) /\ valve' \in Valve
    BY <1>1 DEF ValveMoves, QueueOK
  <2>2. CASE notifying
    <3>1. ready' = Append(ready, valve')
      BY <2>2 DEF ValveMoves
    <3>2. QED
      BY <2>1, <2>2, <3>1, QueueValve
  <2>3. CASE ~notifying
    <3>1. ready' = ready
      BY <2>3 DEF ValveMoves
    <3>2. QED
      BY <2>1, <2>3, <3>1
  <2>4. QED
    BY <2>2, <2>3
<1>3. Scalars'
  <2>1. SensorOK'
    BY <1>1 DEF Scalars, SensorOK, DeviceOK, TasksOK, ValveMoves, tasks
  <2>2. DeviceOK'
    BY <1>1 DEF Scalars, SensorOK, DeviceOK, TasksOK, ValveMoves, tasks
  <2>3. TasksOK'
    BY <1>1, <1>2 DEF Scalars, SensorOK, DeviceOK, TasksOK, ValveMoves, tasks
  <2>4. QED
    BY <2>1, <2>2, <2>3 DEF Scalars
<1>4. QueueOK'
  BY <1>1, <1>2 DEF QueueOK
<1>5. UnloadedHoldsNothing'
  BY <1>1, <1>2 DEF Scalars, SensorOK, DeviceOK, TasksOK, UnloadedHoldsNothing, unloaded,
     ValveMoves, tasks
<1>6. AvailableIsConnected'
  BY <1>1, <1>2 DEF Scalars, SensorOK, DeviceOK, TasksOK, AvailableIsConnected,
     UnloadedHoldsNothing, unloaded, ValveMoves, tasks
<1>7. PollLives'
  BY <1>1, <1>2 DEF Scalars, SensorOK, DeviceOK, TasksOK, PollLives, OnlyRead, Valve,
     OnLink, PollInOrder, ValveMoves, tasks
<1>8. OnLink' /\ LostFirst'
  BY <1>1, <1>2 DEF Scalars, SensorOK, DeviceOK, TasksOK, OnLink, LostFirst,
     ConnectInOrder, unloaded, ValveMoves, tasks
<1>9. ConnectInOrder' /\ PollInOrder'
  BY <1>1, <1>2 DEF Scalars, SensorOK, DeviceOK, TasksOK, ConnectInOrder, PollInOrder,
     OnLink, ValveMoves, tasks
<1>10. PollEnds' /\ PollBefore'
  BY <1>1, <1>2 DEF Scalars, SensorOK, DeviceOK, TasksOK, PollEnds, PollBefore, Ending,
     OnLink, ValveMoves, tasks
<1>11. NotifiedBefore' /\ NotifiesFirst'
  BY <1>1, <1>2 DEF Scalars, SensorOK, DeviceOK, TasksOK, NotifiedBefore, NotifiesFirst,
     OnLink, LostFirst, ValveMoves, tasks
<1>12. LastIsTrue' /\ Told'
  BY <1>1, <1>2 DEF Scalars, SensorOK, DeviceOK, TasksOK, LastIsTrue, Told, Reading,
     unloaded, NotifiedBefore, NotifiesFirst, OnLink, ValveMoves, tasks
<1>13. QED
  BY <1>3, <1>4, <1>5, <1>6, <1>7, <1>8, <1>9, <1>10, <1>11, <1>12 DEF DInv

\* The await of the attempt ends; its answer goes behind all notifications.
LEMMA NextConnectAwaited ==
    ASSUME DInv, ConnectAwaited
    PROVE  DInv'
<1>1. /\ Scalars /\ QueueOK /\ UnloadedHoldsNothing /\ AvailableIsConnected /\ PollLives
      /\ OnLink /\ LostFirst /\ ConnectInOrder /\ PollInOrder /\ PollEnds /\ PollBefore
      /\ NotifiedBefore /\ NotifiesFirst /\ LastIsTrue /\ Told
  BY DEF DInv
<1>2. /\ ready' \in Queue /\ Once(ready') /\ ~InQueue(ready, "connect")
      /\ InQueue(ready', "connect")
      /\ Before(ready', "lost", "connect") /\ Before(ready', "poll", "connect")
      /\ InQueue(ready', "poll") <=> InQueue(ready, "poll")
      /\ InQueue(ready', "lost") <=> InQueue(ready, "lost")
      /\ NoValve(ready) => NoValve(ready')
      /\ LostAfter(ready) => LostAfter(ready')
  <2>1. /\ ready \in Queue /\ Once(ready) /\ ready' = Append(ready, "connect")
        /\ ~InQueue(ready, "connect")
    BY <1>1 DEF ConnectAwaited, Awaiting, QueueOK
  <2>2. QED
    BY <2>1, QueueConnect
<1>3. /\ attempt # "off" /\ attempt # "created" /\ result = "none" /\ ~unloaded
      /\ attempt' = attempt /\ life' = life /\ valve' = valve
  <2>1. attempt # "off" /\ attempt' = attempt /\ life' = life /\ valve' = valve
    BY DEF ConnectAwaited, Awaiting
  <2>2. QED
    BY <1>1, <1>2, <2>1 DEF ConnectInOrder, UnloadedHoldsNothing
<1>4. LostAfter(ready) /\ ~InQueue(ready, "lost") => NoValve(ready)
  BY <1>1, NothingLeft DEF QueueOK
<1>5. /\ Reading' \notin Valve => /\ Ends(ready, Reading, valve) => Ends(ready', Reading', valve)
                                  /\ Silent(ready, Reading) => Silent(ready', Reading')
                                  /\ NoValve(ready) => Silent(ready', Reading')
      /\ Ends(ready', Reading', Reading')
  <2>1. /\ ready \in Queue /\ Once(ready) /\ ready' = Append(ready, "connect")
        /\ ~InQueue(ready, "connect")
    BY <1>1 DEF ConnectAwaited, Awaiting, QueueOK
  <2>2. \A c, d : LET new == Append(ready, "connect")
                 IN  /\ Ends(ready, c, valve) /\ d \notin Valve => Ends(new, d, valve)
                     /\ Silent(ready, c) /\ d \notin Valve => Silent(new, d)
                     /\ Ends(new, d, d)
    BY <2>1, QueueConnect
  <2>3. NoValve(ready) => Silent(ready, "none")
    BY <2>1, NothingBrought DEF Valve
  <2>4. QED
    BY <2>1, <2>2, <2>3
<1>6. Scalars'
  <2>1. SensorOK'
    BY <1>1 DEF Scalars, SensorOK, DeviceOK, TasksOK, ConnectAwaited, Awaiting
  <2>2. DeviceOK'
    BY <1>1 DEF Scalars, SensorOK, DeviceOK, TasksOK, ConnectAwaited, Awaiting
  <2>3. TasksOK'
    BY <1>1, <1>2, <1>3, <1>4, <1>5 DEF Scalars, SensorOK, DeviceOK, TasksOK,
     ConnectAwaited, Awaiting
  <2>4. QED
    BY <2>1, <2>2, <2>3 DEF Scalars
<1>7. QueueOK'
  BY <1>1, <1>2, <1>3, <1>4, <1>5 DEF QueueOK
<1>8. UnloadedHoldsNothing'
  BY <1>1, <1>2, <1>3, <1>4, <1>5 DEF Scalars, SensorOK, DeviceOK, TasksOK,
     UnloadedHoldsNothing, unloaded, ConnectAwaited, Awaiting
<1>9. AvailableIsConnected'
  BY <1>1, <1>2, <1>3, <1>4, <1>5 DEF Scalars, SensorOK, DeviceOK, TasksOK,
     AvailableIsConnected, UnloadedHoldsNothing, unloaded, ConnectAwaited, Awaiting
<1>10. PollLives'
  BY <1>1, <1>2, <1>3, <1>4, <1>5 DEF Scalars, SensorOK, DeviceOK, TasksOK, PollLives,
     OnlyRead, Valve, OnLink, PollInOrder, ConnectAwaited, Awaiting
<1>11. OnLink' /\ LostFirst'
  <2>1. OnLink'
    BY <1>1, <1>3 DEF Scalars, SensorOK, OnLink, NotifiesFirst, ConnectAwaited
  <2>2. InQueue(ready', "lost") => ~link'
    BY <1>1, <1>2, <1>3 DEF LostFirst, ConnectAwaited
  <2>3. attempt' = "establish" /\ result' # "ok" => ~link' /\ ~InQueue(ready', "lost")
    BY <1>1, <1>2, <1>3 DEF LostFirst, ConnectAwaited
  <2>4. QED
    BY <1>3, <2>1, <2>2, <2>3 DEF LostFirst
<1>12. ConnectInOrder' /\ PollInOrder'
  BY <1>1, <1>2, <1>3, <1>4, <1>5 DEF Scalars, SensorOK, DeviceOK, TasksOK,
     ConnectInOrder, PollInOrder, OnLink, ConnectAwaited, Awaiting
<1>13. PollEnds' /\ PollBefore'
  BY <1>1, <1>2, <1>3, <1>4, <1>5 DEF Scalars, SensorOK, DeviceOK, TasksOK, PollEnds,
     PollBefore, Ending, OnLink, ConnectAwaited, Awaiting
<1>14. NotifiedBefore' /\ NotifiesFirst'
  BY <1>1, <1>2, <1>3, <1>4, <1>5 DEF Scalars, SensorOK, DeviceOK, TasksOK,
     NotifiedBefore, NotifiesFirst, OnLink, LostFirst, ConnectAwaited, Awaiting
<1>15. LastIsTrue' /\ Told'
  <2>1. Told'
    BY <1>1, <1>3 DEF Told, unloaded, ConnectAwaited
  <2>2. ASSUME notifying', Reading' \notin Valve
        PROVE  \/ Ends(ready', Reading', valve)
               \/ Silent(ready', Reading') /\ (fresh' => valve_open' = valve)
    <3>1. CASE notifying
      <4>1. fresh' => fresh
        BY <1>1 DEF Scalars, DeviceOK, ConnectAwaited
      <4>2. valve_open' = valve_open
        BY DEF ConnectAwaited
      <4>3. QED
        BY <1>1, <1>3, <1>5, <2>2, <3>1, <4>1, <4>2 DEF LastIsTrue
    <3>2. CASE ~notifying
      <4>1. link /\ attempt = "valve" /\ fresh' = fresh
        BY <2>2, <3>2 DEF ConnectAwaited
      <4>2. ~fresh
        BY <1>1, <3>2, <4>1 DEF NotifiesFirst
      <4>3. NoValve(ready)
        BY <1>1, <3>2, <4>1 DEF NotifiedBefore
      <4>4. QED
        BY <1>5, <2>2, <4>1, <4>2, <4>3
    <3>3. QED
      BY <3>1, <3>2
  <2>3. Reading' \in Valve => Reading' = valve
    BY <1>3 DEF Reading, ConnectAwaited, Valve
  <2>4. LastIsTrue'
    BY <1>3, <1>5, <2>2, <2>3 DEF LastIsTrue
  <2>5. QED
    BY <2>1, <2>4
<1>16. QED
  BY <1>6, <1>7, <1>8, <1>9, <1>10, <1>11, <1>12, <1>13, <1>14, <1>15 DEF DInv

-----------------------------------------------------------------------------
(***************************************************************************)
(* Every step keeps the invariant: the entry.                              *)
(***************************************************************************)

\* The entry is set up, with an attempt to connect if the sensor was heard.
LEMMA NextStart ==
    ASSUME DInv, async_start
    PROVE  DInv'
<1>1. /\ Scalars /\ QueueOK /\ UnloadedHoldsNothing /\ AvailableIsConnected /\ PollLives
      /\ OnLink /\ LostFirst /\ ConnectInOrder /\ PollInOrder /\ PollEnds /\ PollBefore
      /\ NotifiedBefore /\ NotifiesFirst /\ LastIsTrue /\ Told
  BY DEF DInv
<1>2. /\ ready' \in Queue /\ Once(ready') /\ ~InQueue(ready, "connect")
      /\ InQueue(ready', "poll") <=> InQueue(ready, "poll")
      /\ InQueue(ready', "lost") <=> InQueue(ready, "lost")
      /\ NoValve(ready) => NoValve(ready')
      /\ LostAfter(ready) => LostAfter(ready')
      /\ \/ attempt' = attempt /\ result' = result /\ ~InQueue(ready', "connect")
         \/ /\ attempt' = "created" /\ result' = "none"
            /\ InQueue(ready', "connect") /\ Before(ready', "lost", "connect")
  <2>1. ready \in Queue /\ Once(ready) /\ ~InQueue(ready, "connect")
    BY <1>1 DEF async_start, OnLink, ConnectInOrder, QueueOK
  <2>2. CASE ready' = Append(ready, "connect") /\ attempt' = "created" /\ result' = "none"
    BY <2>1, <2>2, QueueConnect
  <2>3. CASE ready' = ready /\ attempt' = attempt /\ result' = result
    BY <2>1, <2>3
  <2>4. QED
    BY <2>2, <2>3 DEF async_start, _schedule_connect
<1>3. /\ life = "new" /\ life' = "running" /\ ~unloaded /\ ~unloaded'
      /\ ~link /\ ~link' /\ attempt = "off" /\ poll = "off" /\ poll' = "off"
      /\ client = "none" /\ client' = "none"
  BY <1>1 DEF async_start, OnLink, unloaded, sensor
<1>4. Scalars'
  <2>1. SensorOK'
    BY <1>1 DEF Scalars, SensorOK, DeviceOK, TasksOK, async_start, sensor
  <2>2. DeviceOK'
    BY <1>1 DEF Scalars, SensorOK, DeviceOK, TasksOK, async_start, sensor
  <2>3. TasksOK'
    BY <1>1, <1>2, <1>3 DEF Scalars, SensorOK, DeviceOK, TasksOK, async_start, sensor
  <2>4. QED
    BY <2>1, <2>2, <2>3 DEF Scalars
<1>5. QueueOK'
  BY <1>1, <1>2, <1>3 DEF QueueOK
<1>6. UnloadedHoldsNothing'
  BY <1>1, <1>2, <1>3 DEF Scalars, SensorOK, DeviceOK, TasksOK, UnloadedHoldsNothing,
     unloaded, async_start, sensor
<1>7. AvailableIsConnected'
  BY <1>1, <1>2, <1>3 DEF Scalars, SensorOK, DeviceOK, TasksOK, AvailableIsConnected,
     UnloadedHoldsNothing, unloaded, async_start, sensor
<1>8. PollLives'
  BY <1>1, <1>2, <1>3 DEF Scalars, SensorOK, DeviceOK, TasksOK, PollLives, OnlyRead,
     Valve, OnLink, PollInOrder, async_start, sensor
<1>9. OnLink' /\ LostFirst'
  BY <1>1, <1>2, <1>3 DEF Scalars, SensorOK, DeviceOK, TasksOK, OnLink, LostFirst,
     ConnectInOrder, unloaded, async_start, sensor
<1>10. ConnectInOrder' /\ PollInOrder'
  BY <1>1, <1>2, <1>3 DEF Scalars, SensorOK, DeviceOK, TasksOK, ConnectInOrder,
     PollInOrder, OnLink, async_start, sensor
<1>11. PollEnds' /\ PollBefore'
  BY <1>1, <1>2, <1>3 DEF Scalars, SensorOK, DeviceOK, TasksOK, PollEnds, PollBefore,
     Ending, OnLink, async_start, sensor
<1>12. NotifiedBefore' /\ NotifiesFirst'
  BY <1>1, <1>2, <1>3 DEF Scalars, SensorOK, DeviceOK, TasksOK, NotifiedBefore,
     NotifiesFirst, OnLink, LostFirst, async_start, sensor
<1>13. LastIsTrue' /\ Told'
  BY <1>1, <1>2, <1>3 DEF Scalars, SensorOK, DeviceOK, TasksOK, LastIsTrue, Told,
     Reading, unloaded, NotifiedBefore, NotifiesFirst, OnLink, async_start, sensor
<1>14. QED
  BY <1>4, <1>5, <1>6, <1>7, <1>8, <1>9, <1>10, <1>11, <1>12, <1>13 DEF DInv

\* The entry is being unloaded: both tasks are in the queue, to be cancelled.
LEMMA NextStop ==
    ASSUME DInv, async_stop
    PROVE  DInv'
<1>1. /\ Scalars /\ QueueOK /\ UnloadedHoldsNothing /\ AvailableIsConnected /\ PollLives
      /\ OnLink /\ LostFirst /\ ConnectInOrder /\ PollInOrder /\ PollEnds /\ PollBefore
      /\ NotifiedBefore /\ NotifiesFirst /\ LastIsTrue /\ Told
  BY DEF DInv
<1>2. /\ ready' \in Queue /\ Once(ready')
      /\ InQueue(ready', "connect") <=> InQueue(ready, "connect") \/ attempt # "off"
      /\ InQueue(ready', "poll") <=> InQueue(ready, "poll") \/ poll # "off"
      /\ InQueue(ready', "lost") <=> InQueue(ready, "lost")
      /\ Before(ready, "lost", "connect") => Before(ready', "lost", "connect")
      /\ Before(ready, "poll", "connect") /\ InQueue(ready, "poll")
             => Before(ready', "poll", "connect")
      /\ NoValve(ready) => NoValve(ready')
      /\ LostAfter(ready) => LostAfter(ready')
  <2> DEFINE q == IF attempt = "off" THEN ready ELSE Woken(ready, "connect")
  <2>1. /\ q \in Queue /\ Once(q)
        /\ InQueue(q, "connect") <=> InQueue(ready, "connect") \/ attempt # "off"
        /\ InQueue(q, "poll") <=> InQueue(ready, "poll")
        /\ InQueue(q, "lost") <=> InQueue(ready, "lost")
        /\ Before(ready, "lost", "connect") => Before(q, "lost", "connect")
        /\ Before(ready, "poll", "connect") => Before(q, "poll", "connect")
        /\ NoValve(ready) => NoValve(q)
        /\ LostAfter(ready) => LostAfter(q)
    <3>1. ready \in Queue /\ Once(ready)
      BY <1>1 DEF QueueOK
    <3>2. QED
      BY <3>1, WokenConnect
  <2> HIDE DEF q
  <2>2. ready' = IF poll = "off" THEN q ELSE Woken(q, "poll")
    BY DEF async_stop, _cancel_valve_poll, q
  <2>3. QED
    BY <2>1, <2>2, WokenPoll
<1>3. /\ life = "running" /\ life' \in {"parting", "stopped"} /\ unloaded' /\ ~unloaded
      /\ client' = "none" /\ ~available'
      /\ result' = IF attempt = "off" THEN result ELSE "cancelled"
      /\ answer' = IF poll = "off" THEN answer ELSE "cancelled"
  BY DEF async_stop, _cancel_valve_poll, unloaded
<1>4. Scalars'
  <2>1. SensorOK'
    BY <1>1 DEF Scalars, SensorOK, DeviceOK, TasksOK, async_stop, sensor
  <2>2. DeviceOK'
    BY <1>1 DEF Scalars, SensorOK, DeviceOK, TasksOK, async_stop, sensor
  <2>3. TasksOK'
    BY <1>1, <1>2, <1>3 DEF Scalars, SensorOK, DeviceOK, TasksOK, async_stop, sensor
  <2>4. QED
    BY <2>1, <2>2, <2>3 DEF Scalars
<1>5. QueueOK'
  BY <1>1, <1>2, <1>3 DEF QueueOK
<1>6. UnloadedHoldsNothing'
  BY <1>1, <1>2, <1>3 DEF Scalars, SensorOK, DeviceOK, TasksOK, UnloadedHoldsNothing,
     unloaded, async_stop, sensor
<1>7. AvailableIsConnected'
  BY <1>1, <1>2, <1>3 DEF Scalars, SensorOK, DeviceOK, TasksOK, AvailableIsConnected,
     UnloadedHoldsNothing, unloaded, async_stop, sensor
<1>8. PollLives'
  BY <1>1, <1>2, <1>3 DEF Scalars, SensorOK, DeviceOK, TasksOK, PollLives, OnlyRead,
     Valve, OnLink, PollInOrder, async_stop, sensor
<1>9. OnLink' /\ LostFirst'
  BY <1>1, <1>2, <1>3 DEF Scalars, SensorOK, DeviceOK, TasksOK, OnLink, LostFirst,
     ConnectInOrder, unloaded, async_stop, sensor
<1>10. ConnectInOrder' /\ PollInOrder'
  BY <1>1, <1>2, <1>3 DEF Scalars, SensorOK, DeviceOK, TasksOK, ConnectInOrder,
     PollInOrder, OnLink, async_stop, sensor
<1>11. PollEnds' /\ PollBefore'
  BY <1>1, <1>2, <1>3 DEF Scalars, SensorOK, DeviceOK, TasksOK, PollEnds, PollBefore,
     Ending, OnLink, async_stop, sensor
<1>12. NotifiedBefore' /\ NotifiesFirst'
  BY <1>1, <1>2, <1>3 DEF Scalars, SensorOK, DeviceOK, TasksOK, NotifiedBefore,
     NotifiesFirst, OnLink, LostFirst, async_stop, sensor
<1>13. LastIsTrue' /\ Told'
  BY <1>1, <1>2, <1>3 DEF Scalars, SensorOK, DeviceOK, TasksOK, LastIsTrue, Told,
     Reading, unloaded, NotifiedBefore, NotifiesFirst, OnLink, async_stop, sensor
<1>14. QED
  BY <1>4, <1>5, <1>6, <1>7, <1>8, <1>9, <1>10, <1>11, <1>12, <1>13 DEF DInv

\* The client is disconnected, if it was connected.
LEMMA NextParted ==
    ASSUME DInv, Parted
    PROVE  DInv'
<1>1. /\ Scalars /\ QueueOK /\ UnloadedHoldsNothing /\ AvailableIsConnected /\ PollLives
      /\ OnLink /\ LostFirst /\ ConnectInOrder /\ PollInOrder /\ PollEnds /\ PollBefore
      /\ NotifiedBefore /\ NotifiesFirst /\ LastIsTrue /\ Told
  BY DEF DInv
<1>2. /\ ready' \in Queue /\ Once(ready')
      /\ InQueue(ready', "connect") <=> InQueue(ready, "connect")
      /\ InQueue(ready', "poll") <=> InQueue(ready, "poll")
      /\ Before(ready, "poll", "connect") => Before(ready', "poll", "connect")
      /\ \/ link /\ ~link' /\ LostAfter(ready') /\ InQueue(ready', "lost")
         \/ link' = link /\ ready' = ready
  <2>1. ready \in Queue /\ Once(ready)
    BY <1>1 DEF QueueOK
  <2>2. CASE link /\ link' = FALSE /\ ready' = Append(ready, "lost")
    BY <2>1, <2>2, QueueLost
  <2>3. CASE UNCHANGED <<link, ready>>
    BY <2>1, <2>3
  <2>4. QED
    BY <2>2, <2>3 DEF Parted
<1>3. life = "parting" /\ life' = "stopped" /\ unloaded /\ unloaded'
  BY DEF Parted, unloaded
<1>4. Scalars'
  <2>1. SensorOK'
    BY <1>1 DEF Scalars, SensorOK, DeviceOK, TasksOK, Parted
  <2>2. DeviceOK'
    BY <1>1 DEF Scalars, SensorOK, DeviceOK, TasksOK, Parted
  <2>3. TasksOK'
    BY <1>1, <1>2, <1>3 DEF Scalars, SensorOK, DeviceOK, TasksOK, Parted
  <2>4. QED
    BY <2>1, <2>2, <2>3 DEF Scalars
<1>5. QueueOK'
  BY <1>1, <1>2, <1>3 DEF QueueOK
<1>6. UnloadedHoldsNothing'
  BY <1>1, <1>2, <1>3 DEF Scalars, SensorOK, DeviceOK, TasksOK, UnloadedHoldsNothing,
     unloaded, Parted
<1>7. AvailableIsConnected'
  BY <1>1, <1>2, <1>3 DEF Scalars, SensorOK, DeviceOK, TasksOK, AvailableIsConnected,
     UnloadedHoldsNothing, unloaded, Parted
<1>8. PollLives'
  BY <1>1, <1>3 DEF PollLives, UnloadedHoldsNothing, Parted
<1>9. OnLink' /\ LostFirst'
  <2>1. client' = "none" /\ (attempt' = "off" \/ result' = "cancelled") /\ life' # "new"
    BY <1>1, <1>3 DEF UnloadedHoldsNothing, Parted
  <2>2. OnLink'
    BY <1>1, <1>2, <2>1 DEF Scalars, SensorOK, TasksOK, OnLink, Parted
  <2>3. InQueue(ready', "lost") => ~link'
    BY <1>1, <1>2 DEF LostFirst
  <2>4. attempt' = "created" => ~link' /\ Before(ready', "lost", "connect")
    BY <1>1, <1>2 DEF LostFirst, Parted
  <2>5. QED
    BY <1>3, <2>2, <2>3, <2>4 DEF LostFirst
<1>10. ConnectInOrder' /\ PollInOrder'
  BY <1>1, <1>2, <1>3 DEF Scalars, SensorOK, DeviceOK, TasksOK, ConnectInOrder,
     PollInOrder, OnLink, Parted
<1>11. PollEnds' /\ PollBefore'
  BY <1>1, <1>2, <1>3 DEF Scalars, SensorOK, DeviceOK, TasksOK, PollEnds, PollBefore,
     Ending, OnLink, Parted
<1>12. NotifiedBefore' /\ NotifiesFirst'
  BY <1>1, <1>2, <1>3 DEF Scalars, SensorOK, DeviceOK, TasksOK, NotifiedBefore,
     NotifiesFirst, OnLink, LostFirst, Parted
<1>13. LastIsTrue' /\ Told'
  BY <1>1, <1>2, <1>3 DEF Scalars, SensorOK, DeviceOK, TasksOK, LastIsTrue, Told,
     Reading, unloaded, NotifiedBefore, NotifiesFirst, OnLink, Parted
<1>14. QED
  BY <1>4, <1>5, <1>6, <1>7, <1>8, <1>9, <1>10, <1>11, <1>12, <1>13 DEF DInv

-----------------------------------------------------------------------------
(***************************************************************************)
(* Every step keeps the invariant: _async_connect().                       *)
(***************************************************************************)

\* The loop resumes the attempt.
ConnectResumed ==
    /\ ready # <<>> /\ Head(ready) = "connect"
    /\ result' = "none"
    /\ UNCHANGED <<sensor, life, answer>>

\* What is behind the attempt, and what cannot have been before it.
LEMMA ConnectTaken ==
    ASSUME DInv, ConnectResumed
    PROVE  LET q == Tail(ready)
           IN  /\ q \in Queue /\ Once(q)
               /\ InQueue(ready, "connect") /\ ~InQueue(q, "connect")
               /\ InQueue(q, "poll") <=> InQueue(ready, "poll")
               /\ InQueue(q, "lost") <=> InQueue(ready, "lost")
               /\ Before(q, "lost", "connect") /\ Before(q, "poll", "connect")
               /\ Before(ready, "lost", "connect") => ~InQueue(ready, "lost")
               /\ Before(ready, "poll", "connect") => ~InQueue(ready, "poll")
               /\ NoValve(ready) => NoValve(q)
               /\ LostAfter(ready) => LostAfter(q)
               /\ Ends(ready, Reading, valve) =>
                      Ends(q, "none", valve) \/ (Reading = valve /\ Silent(q, "none"))
               /\ Silent(ready, Reading) => Silent(q, "none") /\ Reading \notin Valve
<1> DEFINE q == Tail(ready)
<1>1. ready \in Queue /\ Once(ready) /\ ready # <<>> /\ "connect" = Head(ready)
  BY DEF DInv, QueueOK, ConnectResumed
<1>2. /\ "poll" \in Item /\ "poll" # "connect" /\ "lost" \in Item /\ "lost" # "connect"
      /\ Brings("connect", Reading) = Reading
  BY DEF Item, Brings
<1>3. /\ q \in Queue /\ Once(q) /\ InQueue(ready, "connect") /\ ~InQueue(q, "connect")
      /\ \A y \in Item : y # "connect" => (InQueue(q, y) <=> InQueue(ready, y))
      /\ Before(ready, "lost", "connect") => ~InQueue(ready, "lost")
      /\ Before(ready, "poll", "connect") => ~InQueue(ready, "poll")
      /\ NoValve(ready) => NoValve(q)
      /\ LostAfter(ready) => LostAfter(q)
      /\ Ends(ready, Reading, valve) =>
             Ends(q, Reading, valve) \/ (Brings("connect", Reading) = valve /\ Silent(q, Reading))
      /\ Silent(ready, Reading) => Silent(q, Reading) /\ Brings("connect", Reading) \notin Valve
  BY <1>1, Dequeue
<1> HIDE DEF q
<1>4. Before(q, "lost", "connect") /\ Before(q, "poll", "connect")
  BY <1>3 DEF Before, InQueue
<1>5. /\ Ends(q, Reading, valve) => Ends(q, "none", valve)
      /\ Silent(q, Reading) => Silent(q, "none")
  BY <1>3, Indifferent
<1>6. QED
  BY <1>2, <1>3, <1>4, <1>5 DEF q

\* The attempt ends before it has begun, or is cancelled.
LEMMA NextGivenUp ==
    ASSUME DInv, ConnectResumed, Go("off"), result = "cancelled" \/ attempt = "created"
    PROVE  DInv'
<1>1. /\ Scalars /\ QueueOK /\ UnloadedHoldsNothing /\ AvailableIsConnected /\ PollLives
      /\ OnLink /\ LostFirst /\ ConnectInOrder /\ PollInOrder /\ PollEnds /\ PollBefore
      /\ NotifiedBefore /\ NotifiesFirst /\ LastIsTrue /\ Told
  BY DEF DInv
<1>2. /\ ready' \in Queue /\ Once(ready')
      /\ InQueue(ready, "connect") /\ ~InQueue(ready', "connect")
      /\ InQueue(ready', "poll") <=> InQueue(ready, "poll")
      /\ InQueue(ready', "lost") <=> InQueue(ready, "lost")
      /\ Before(ready', "lost", "connect") /\ Before(ready', "poll", "connect")
      /\ Before(ready, "lost", "connect") => ~InQueue(ready, "lost")
      /\ Before(ready, "poll", "connect") => ~InQueue(ready, "poll")
      /\ NoValve(ready) => NoValve(ready')
      /\ LostAfter(ready) => LostAfter(ready')
  BY ConnectTaken DEF Go
<1>3. /\ Ends(ready, Reading, valve) =>
             Ends(ready', "none", valve) \/ (Reading = valve /\ Silent(ready', "none"))
      /\ Silent(ready, Reading) => Silent(ready', "none")
  BY ConnectTaken DEF Go
<1>4. Scalars'
  <2>1. SensorOK'
    BY <1>1 DEF Scalars, SensorOK, DeviceOK, TasksOK, ConnectResumed, Go, sensor
  <2>2. DeviceOK'
    BY <1>1 DEF Scalars, SensorOK, DeviceOK, TasksOK, ConnectResumed, Go, sensor
  <2>3. TasksOK'
    BY <1>1, <1>2, <1>3 DEF Scalars, SensorOK, DeviceOK, TasksOK, ConnectResumed, Go, sensor
  <2>4. QED
    BY <2>1, <2>2, <2>3 DEF Scalars
<1>5. QueueOK'
  BY <1>1, <1>2, <1>3 DEF QueueOK
<1>6. UnloadedHoldsNothing'
  BY <1>1, <1>2, <1>3 DEF Scalars, SensorOK, DeviceOK, TasksOK, UnloadedHoldsNothing,
     unloaded, ConnectResumed, Go, sensor
<1>7. AvailableIsConnected'
  BY <1>1, <1>2, <1>3 DEF Scalars, SensorOK, DeviceOK, TasksOK, AvailableIsConnected,
     UnloadedHoldsNothing, unloaded, ConnectResumed, Go, sensor
<1>8. PollLives'
  BY <1>1, <1>2, <1>3 DEF Scalars, SensorOK, DeviceOK, TasksOK, PollLives, OnlyRead,
     Valve, OnLink, PollInOrder, ConnectResumed, Go, sensor
<1>9. OnLink' /\ LostFirst'
  BY <1>1, <1>2, <1>3 DEF Scalars, SensorOK, DeviceOK, TasksOK, OnLink, LostFirst,
     ConnectInOrder, unloaded, ConnectResumed, Go, sensor
<1>10. ConnectInOrder' /\ PollInOrder'
  BY <1>1, <1>2, <1>3 DEF Scalars, SensorOK, DeviceOK, TasksOK, ConnectInOrder,
     PollInOrder, OnLink, ConnectResumed, Go, sensor
<1>11. PollEnds' /\ PollBefore'
  BY <1>1, <1>2, <1>3 DEF Scalars, SensorOK, DeviceOK, TasksOK, PollEnds, PollBefore,
     Ending, OnLink, ConnectResumed, Go, sensor
<1>12. NotifiedBefore' /\ NotifiesFirst'
  BY <1>1, <1>2, <1>3 DEF Scalars, SensorOK, DeviceOK, TasksOK, NotifiedBefore,
     NotifiesFirst, OnLink, LostFirst, ConnectResumed, Go, sensor
<1>13. LastIsTrue' /\ Told'
  <2>1. Reading' = "none" /\ Reading \notin Valve /\ valve' = valve /\ unloaded' = unloaded
    BY <1>1 DEF Reading, ConnectInOrder, unloaded, ConnectResumed, Go, sensor, Valve
  <2>2. fresh' = fresh /\ valve_open' = valve_open /\ notifying' = notifying
    BY DEF ConnectResumed, Go, sensor
  <2>3. notifying => valve \in Valve
    BY <1>1 DEF Scalars, SensorOK
  <2>4. LastIsTrue'
    BY <1>1, <1>3, <2>1, <2>2, <2>3 DEF LastIsTrue
  <2>5. Told'
    BY <1>1, <2>1 DEF Told, ConnectResumed, Go, sensor
  <2>6. QED
    BY <2>4, <2>5
<1>14. QED
  BY <1>4, <1>5, <1>6, <1>7, <1>8, <1>9, <1>10, <1>11, <1>12, <1>13 DEF DInv

\* The attempt begins, behind the loss of every earlier link.
LEMMA NextBegun ==
    ASSUME DInv, ConnectResumed, Go("establish"), attempt = "created",
           ~unloaded, client # "live"
    PROVE  DInv'
<1>1. /\ Scalars /\ QueueOK /\ UnloadedHoldsNothing /\ AvailableIsConnected /\ PollLives
      /\ OnLink /\ LostFirst /\ ConnectInOrder /\ PollInOrder /\ PollEnds /\ PollBefore
      /\ NotifiedBefore /\ NotifiesFirst /\ LastIsTrue /\ Told
  BY DEF DInv
<1>2. /\ ready' \in Queue /\ Once(ready')
      /\ InQueue(ready, "connect") /\ ~InQueue(ready', "connect")
      /\ InQueue(ready', "poll") <=> InQueue(ready, "poll")
      /\ InQueue(ready', "lost") <=> InQueue(ready, "lost")
      /\ Before(ready', "lost", "connect") /\ Before(ready', "poll", "connect")
      /\ Before(ready, "lost", "connect") => ~InQueue(ready, "lost")
      /\ Before(ready, "poll", "connect") => ~InQueue(ready, "poll")
      /\ NoValve(ready) => NoValve(ready')
      /\ LostAfter(ready) => LostAfter(ready')
  BY ConnectTaken DEF Go
<1>3. /\ Ends(ready, Reading, valve) =>
             Ends(ready', "none", valve) \/ (Reading = valve /\ Silent(ready', "none"))
      /\ Silent(ready, Reading) => Silent(ready', "none")
  BY ConnectTaken DEF Go
<1>4. Scalars'
  <2>1. SensorOK'
    BY <1>1 DEF Scalars, SensorOK, DeviceOK, TasksOK, ConnectResumed, Go, sensor
  <2>2. DeviceOK'
    BY <1>1 DEF Scalars, SensorOK, DeviceOK, TasksOK, ConnectResumed, Go, sensor
  <2>3. TasksOK'
    BY <1>1, <1>2, <1>3 DEF Scalars, SensorOK, DeviceOK, TasksOK, ConnectResumed, Go, sensor
  <2>4. QED
    BY <2>1, <2>2, <2>3 DEF Scalars
<1>5. QueueOK'
  BY <1>1, <1>2, <1>3 DEF QueueOK
<1>6. UnloadedHoldsNothing'
  BY <1>1, <1>2, <1>3 DEF Scalars, SensorOK, DeviceOK, TasksOK, UnloadedHoldsNothing,
     unloaded, ConnectResumed, Go, sensor
<1>7. AvailableIsConnected'
  BY <1>1, <1>2, <1>3 DEF Scalars, SensorOK, DeviceOK, TasksOK, AvailableIsConnected,
     UnloadedHoldsNothing, unloaded, ConnectResumed, Go, sensor
<1>8. PollLives'
  BY <1>1, <1>2, <1>3 DEF Scalars, SensorOK, DeviceOK, TasksOK, PollLives, OnlyRead,
     Valve, OnLink, PollInOrder, ConnectResumed, Go, sensor
<1>9. OnLink' /\ LostFirst'
  BY <1>1, <1>2, <1>3 DEF Scalars, SensorOK, DeviceOK, TasksOK, OnLink, LostFirst,
     ConnectInOrder, unloaded, ConnectResumed, Go, sensor
<1>10. ConnectInOrder' /\ PollInOrder'
  BY <1>1, <1>2, <1>3 DEF Scalars, SensorOK, DeviceOK, TasksOK, ConnectInOrder,
     PollInOrder, OnLink, ConnectResumed, Go, sensor
<1>11. PollEnds' /\ PollBefore'
  <2>1. ~link /\ ~InQueue(ready, "lost")
    BY <1>1, <1>2 DEF LostFirst
  <2>2. poll # "off" => ~polled /\ Ending
    BY <1>1, <2>1 DEF OnLink, PollEnds
  <2>3. poll' = poll /\ polled' = polled /\ answer' = answer /\ attempt' = "establish"
    BY DEF ConnectResumed, Go
  <2>4. Ending => Ending'
    BY <1>2, <2>3 DEF Ending
  <2>5. QED
    BY <1>2, <2>2, <2>3, <2>4 DEF PollEnds, PollBefore
<1>12. NotifiedBefore' /\ NotifiesFirst'
  BY <1>1, <1>2, <1>3 DEF Scalars, SensorOK, DeviceOK, TasksOK, NotifiedBefore,
     NotifiesFirst, OnLink, LostFirst, ConnectResumed, Go, sensor
<1>13. LastIsTrue' /\ Told'
  <2>1. Reading' = "none" /\ Reading \notin Valve /\ valve' = valve /\ unloaded' = unloaded
    BY <1>1 DEF Reading, unloaded, ConnectResumed, Go, sensor, Valve
  <2>2. fresh' = fresh /\ valve_open' = valve_open /\ notifying' = notifying
    BY DEF ConnectResumed, Go, sensor
  <2>3. notifying => valve \in Valve
    BY <1>1 DEF Scalars, SensorOK
  <2>4. LastIsTrue'
    BY <1>1, <1>3, <2>1, <2>2, <2>3 DEF LastIsTrue
  <2>5. Told'
    BY <1>1, <2>1 DEF Told, ConnectResumed, Go, sensor
  <2>6. QED
    BY <2>4, <2>5
<1>14. QED
  BY <1>4, <1>5, <1>6, <1>7, <1>8, <1>9, <1>10, <1>11, <1>12, <1>13 DEF DInv

\* A step of _subscribe() that leads to its next await.
LEMMA NextSubscribes ==
    ASSUME DInv, ConnectResumed, result = "ok",
           \/ attempt = "establish" /\ Go("temperature")
           \/ attempt = "temperature" /\ "notify" \in props /\ Go("valve")
           \/ attempt = "temperature" /\ "notify" \notin props /\ Go("read")
           \/ attempt = "valve" /\ Go("read")
    PROVE  DInv'
<1>1. /\ Scalars /\ QueueOK /\ UnloadedHoldsNothing /\ AvailableIsConnected /\ PollLives
      /\ OnLink /\ LostFirst /\ ConnectInOrder /\ PollInOrder /\ PollEnds /\ PollBefore
      /\ NotifiedBefore /\ NotifiesFirst /\ LastIsTrue /\ Told
  BY DEF DInv
<1>2. /\ ready' \in Queue /\ Once(ready')
      /\ InQueue(ready, "connect") /\ ~InQueue(ready', "connect")
      /\ InQueue(ready', "poll") <=> InQueue(ready, "poll")
      /\ InQueue(ready', "lost") <=> InQueue(ready, "lost")
      /\ Before(ready', "lost", "connect") /\ Before(ready', "poll", "connect")
      /\ Before(ready, "lost", "connect") => ~InQueue(ready, "lost")
      /\ Before(ready, "poll", "connect") => ~InQueue(ready, "poll")
      /\ NoValve(ready) => NoValve(ready')
      /\ LostAfter(ready) => LostAfter(ready')
  BY ConnectTaken DEF Go
<1>3. /\ Ends(ready, Reading, valve) =>
             Ends(ready', "none", valve) \/ (Reading = valve /\ Silent(ready', "none"))
      /\ Silent(ready, Reading) => Silent(ready', "none")
  BY ConnectTaken DEF Go
<1>4. Scalars'
  <2>1. SensorOK'
    BY <1>1 DEF Scalars, SensorOK, DeviceOK, TasksOK, ConnectResumed, Go, sensor
  <2>2. DeviceOK'
    BY <1>1 DEF Scalars, SensorOK, DeviceOK, TasksOK, ConnectResumed, Go, sensor
  <2>3. TasksOK'
    BY <1>1, <1>2, <1>3 DEF Scalars, SensorOK, DeviceOK, TasksOK, ConnectResumed, Go, sensor
  <2>4. QED
    BY <2>1, <2>2, <2>3 DEF Scalars
<1>5. QueueOK'
  BY <1>1, <1>2, <1>3 DEF QueueOK
<1>6. UnloadedHoldsNothing'
  BY <1>1, <1>2, <1>3 DEF Scalars, SensorOK, DeviceOK, TasksOK, UnloadedHoldsNothing,
     unloaded, ConnectResumed, Go, sensor
<1>7. AvailableIsConnected'
  BY <1>1, <1>2, <1>3 DEF Scalars, SensorOK, DeviceOK, TasksOK, AvailableIsConnected,
     UnloadedHoldsNothing, unloaded, ConnectResumed, Go, sensor
<1>8. PollLives'
  BY <1>1, <1>2, <1>3 DEF Scalars, SensorOK, DeviceOK, TasksOK, PollLives, OnlyRead,
     Valve, OnLink, PollInOrder, ConnectResumed, Go, sensor
<1>9. OnLink' /\ LostFirst'
  BY <1>1, <1>2, <1>3 DEF Scalars, SensorOK, DeviceOK, TasksOK, OnLink, LostFirst,
     ConnectInOrder, unloaded, ConnectResumed, Go, sensor
<1>10. ConnectInOrder' /\ PollInOrder'
  BY <1>1, <1>2, <1>3 DEF Scalars, SensorOK, DeviceOK, TasksOK, ConnectInOrder,
     PollInOrder, OnLink, ConnectResumed, Go, sensor
<1>11. PollEnds' /\ PollBefore'
  BY <1>1, <1>2, <1>3 DEF Scalars, SensorOK, DeviceOK, TasksOK, PollEnds, PollBefore,
     Ending, OnLink, ConnectResumed, Go, sensor
<1>12. NotifiedBefore' /\ NotifiesFirst'
  BY <1>1, <1>2, <1>3 DEF Scalars, SensorOK, DeviceOK, TasksOK, NotifiedBefore,
     NotifiesFirst, OnLink, LostFirst, ConnectResumed, Go, sensor
<1>13. LastIsTrue' /\ Told'
  <2>1. Reading' = "none" /\ Reading \notin Valve /\ valve' = valve /\ unloaded' = unloaded
    BY <1>1 DEF Reading, unloaded, ConnectResumed, Go, sensor, Valve
  <2>2. fresh' = fresh /\ valve_open' = valve_open /\ notifying' = notifying
    BY DEF ConnectResumed, Go, sensor
  <2>3. notifying => valve \in Valve
    BY <1>1 DEF Scalars, SensorOK
  <2>4. LastIsTrue'
    BY <1>1, <1>3, <2>1, <2>2, <2>3 DEF LastIsTrue
  <2>5. Told'
    BY <1>1, <2>1 DEF Told, ConnectResumed, Go, sensor
  <2>6. QED
    BY <2>4, <2>5
<1>14. QED
  BY <1>4, <1>5, <1>6, <1>7, <1>8, <1>9, <1>10, <1>11, <1>12, <1>13 DEF DInv

\* The attempt fails, with no client or with one that is given up.
LEMMA NextFails ==
    ASSUME DInv, ConnectResumed, ConnectFails,
           attempt \in {"establish", "temperature", "valve"}, result # "cancelled"
    PROVE  DInv'
<1>1. /\ Scalars /\ QueueOK /\ UnloadedHoldsNothing /\ AvailableIsConnected /\ PollLives
      /\ OnLink /\ LostFirst /\ ConnectInOrder /\ PollInOrder /\ PollEnds /\ PollBefore
      /\ NotifiedBefore /\ NotifiesFirst /\ LastIsTrue /\ Told
  BY DEF DInv
<1>2. /\ ready' \in Queue /\ Once(ready')
      /\ InQueue(ready, "connect") /\ ~InQueue(ready', "connect")
      /\ InQueue(ready', "poll") <=> InQueue(ready, "poll")
      /\ InQueue(ready', "lost") <=> InQueue(ready, "lost")
      /\ Before(ready', "lost", "connect") /\ Before(ready', "poll", "connect")
      /\ Before(ready, "lost", "connect") => ~InQueue(ready, "lost")
      /\ Before(ready, "poll", "connect") => ~InQueue(ready, "poll")
      /\ NoValve(ready) => NoValve(ready')
      /\ LostAfter(ready) => LostAfter(ready')
  BY ConnectTaken DEF ConnectFails
<1>3. /\ Ends(ready, Reading, valve) =>
             Ends(ready', "none", valve) \/ (Reading = valve /\ Silent(ready', "none"))
      /\ Silent(ready, Reading) => Silent(ready', "none")
  BY ConnectTaken DEF ConnectFails
<1>4. ~unloaded /\ ~unloaded' /\ client # "live"
  BY <1>1, <1>2 DEF UnloadedHoldsNothing, OnLink, unloaded, ConnectResumed
<1>5. Scalars'
  <2>1. SensorOK'
    BY <1>1 DEF Scalars, SensorOK, ConnectResumed, ConnectFails, sensor
  <2>2. shown' = "unavailable"
    BY <1>4 DEF ConnectFails, Update, Entity
  <2>3. DeviceOK'
    BY <1>1, <2>2 DEF Scalars, DeviceOK, ConnectResumed, ConnectFails
  <2>4. TasksOK'
    BY <1>1 DEF Scalars, TasksOK, ConnectResumed, ConnectFails
  <2>5. QED
    BY <2>1, <2>3, <2>4 DEF Scalars
<1>6. QueueOK'
  BY <1>1, <1>2, <1>3, <1>4 DEF QueueOK
<1>7. UnloadedHoldsNothing'
  BY <1>1, <1>2, <1>3, <1>4 DEF Scalars, SensorOK, DeviceOK, TasksOK,
     UnloadedHoldsNothing, unloaded, ConnectResumed, ConnectFails, sensor
<1>8. AvailableIsConnected'
  BY <1>1, <1>2, <1>3, <1>4 DEF Scalars, SensorOK, DeviceOK, TasksOK,
     AvailableIsConnected, UnloadedHoldsNothing, unloaded, ConnectResumed, ConnectFails,
     sensor
<1>9. PollLives'
  BY <1>1, <1>2, <1>3, <1>4 DEF Scalars, SensorOK, DeviceOK, TasksOK, PollLives,
     OnlyRead, Valve, OnLink, PollInOrder, ConnectResumed, ConnectFails, sensor
<1>10. OnLink' /\ LostFirst'
  BY <1>1, <1>2, <1>3, <1>4 DEF Scalars, SensorOK, DeviceOK, TasksOK, OnLink, LostFirst,
     ConnectInOrder, unloaded, ConnectResumed, ConnectFails, sensor
<1>11. ConnectInOrder' /\ PollInOrder'
  BY <1>1, <1>2, <1>3, <1>4 DEF Scalars, SensorOK, DeviceOK, TasksOK, ConnectInOrder,
     PollInOrder, OnLink, ConnectResumed, ConnectFails, sensor
<1>12. PollEnds' /\ PollBefore'
  BY <1>1, <1>2, <1>3, <1>4 DEF Scalars, SensorOK, DeviceOK, TasksOK, PollEnds,
     PollBefore, Ending, OnLink, ConnectResumed, ConnectFails, sensor
<1>13. NotifiedBefore' /\ NotifiesFirst'
  BY <1>1, <1>2, <1>3, <1>4 DEF Scalars, SensorOK, DeviceOK, TasksOK, NotifiedBefore,
     NotifiesFirst, OnLink, LostFirst, ConnectResumed, ConnectFails, sensor
<1>14. LastIsTrue' /\ Told'
  <2>1. Reading' = "none" /\ Reading \notin Valve /\ valve' = valve /\ unloaded' = unloaded
    BY <1>1 DEF Reading, unloaded, ConnectResumed, ConnectFails, sensor, Valve
  <2>2. fresh' = fresh /\ valve_open' = valve_open /\ notifying' = notifying
    BY DEF ConnectResumed, ConnectFails, sensor
  <2>3. notifying => valve \in Valve
    BY <1>1 DEF Scalars, SensorOK
  <2>4. LastIsTrue'
    BY <1>1, <1>3, <2>1, <2>2, <2>3 DEF LastIsTrue
  <2>5. Told'
    BY <1>4 DEF Told, ConnectResumed, ConnectFails, Update, Entity
  <2>6. QED
    BY <2>4, <2>5
<1>15. QED
  BY <1>5, <1>6, <1>7, <1>8, <1>9, <1>10, <1>11, <1>12, <1>13, <1>14 DEF DInv

\* The attempt succeeds, with the state its first reading brought or the one known.
LEMMA NextEstablished ==
    ASSUME DInv, ConnectResumed, NEW v, Established(v),
           attempt \in {"valve", "read"}, result # "cancelled",
           attempt = "valve" => result = "ok",
           \/ v = valve_open /\ fresh' = fresh /\ Reading \notin Valve
           \/ v = Reading /\ fresh' = TRUE /\ Reading \in Valve
    PROVE  DInv'
<1>1. /\ Scalars /\ QueueOK /\ UnloadedHoldsNothing /\ AvailableIsConnected /\ PollLives
      /\ OnLink /\ LostFirst /\ ConnectInOrder /\ PollInOrder /\ PollEnds /\ PollBefore
      /\ NotifiedBefore /\ NotifiesFirst /\ LastIsTrue /\ Told
  BY DEF DInv
<1>2. ~unloaded /\ ~unloaded' /\ poll = "off" /\ answer = "none" /\ ~InQueue(ready, "poll")
  <2>1. ~unloaded /\ ~unloaded'
    BY <1>1 DEF UnloadedHoldsNothing, unloaded, ConnectResumed
  <2>2. poll = "off"
    BY <1>1 DEF PollBefore
  <2>3. QED
    BY <1>1, <2>1, <2>2 DEF PollInOrder
<1>3. /\ ready' \in Queue /\ Once(ready') /\ ~InQueue(ready', "connect")
      /\ IF "notify" \in props THEN ~InQueue(ready', "poll") ELSE InQueue(ready', "poll")
      /\ InQueue(ready', "lost") <=> InQueue(ready, "lost")
      /\ NoValve(ready) => NoValve(ready')
      /\ LostAfter(ready) => LostAfter(ready')
  <2> DEFINE q == Tail(ready)
  <2>1. /\ q \in Queue /\ Once(q) /\ ~InQueue(q, "connect") /\ ~InQueue(q, "poll")
        /\ InQueue(q, "lost") <=> InQueue(ready, "lost")
        /\ NoValve(ready) => NoValve(q)
        /\ LostAfter(ready) => LostAfter(q)
    BY <1>2, ConnectTaken
  <2> HIDE DEF q
  <2>2. ready' = IF "notify" \in props THEN q ELSE Append(q, "poll")
    BY DEF Established, q
  <2>3. QED
    BY <2>1, <2>2, QueuePoll
<1>4. "notify" \in props =>
          /\ Ends(ready, Reading, valve) =>
                 Ends(ready', "none", valve) \/ (Reading = valve /\ Silent(ready', "none"))
          /\ Silent(ready, Reading) => Silent(ready', "none") /\ Reading \notin Valve
  BY ConnectTaken DEF Established
<1>5. /\ attempt' = "off" /\ client' = IF link THEN "live" ELSE "dead"
      /\ blind' = ~link /\ available' = TRUE /\ valve_open' = v /\ shown' = Entity(TRUE, v)
      /\ IF "notify" \in props THEN poll' = "off" /\ polled' = polled
                               ELSE poll' = "look" /\ polled' = link
  BY <1>2 DEF Established, Update
<1>6. /\ result' = "none" /\ answer' = answer /\ life' = life /\ link' = link
      /\ props' = props /\ near' = near /\ valve' = valve /\ notifying' = notifying
  BY DEF ConnectResumed, sensor
<1>7. Scalars'
  <2>1. v \in Valve \cup {"unknown"} /\ fresh' \in BOOLEAN
    BY <1>1 DEF Scalars, DeviceOK
  <2>2. SensorOK'
    BY <1>1, <1>6 DEF Scalars, SensorOK
  <2>3. DeviceOK'
    BY <1>1, <1>5, <1>6, <2>1 DEF Scalars, SensorOK, DeviceOK, Entity
  <2>4. TasksOK'
    BY <1>1, <1>5, <1>6 DEF Scalars, SensorOK, TasksOK
  <2>5. QED
    BY <2>2, <2>3, <2>4 DEF Scalars
<1>8. QueueOK'
  BY <1>3 DEF QueueOK
<1>9. UnloadedHoldsNothing'
  BY <1>2 DEF UnloadedHoldsNothing
<1>10. AvailableIsConnected'
  BY <1>1, <1>5, <1>6 DEF AvailableIsConnected, Scalars, SensorOK
<1>11. PollLives'
  BY <1>2, <1>5, <1>6 DEF PollLives, OnlyRead
<1>12. OnLink' /\ LostFirst'
  BY <1>1, <1>3, <1>5, <1>6 DEF OnLink, LostFirst
<1>13. ConnectInOrder' /\ PollInOrder'
  BY <1>2, <1>3, <1>5, <1>6 DEF ConnectInOrder, PollInOrder
<1>14. PollEnds' /\ PollBefore'
  BY <1>3, <1>5, <1>6 DEF PollEnds, PollBefore, Ending
<1>15. NotifiedBefore' /\ NotifiesFirst'
  <2>1. NotifiedBefore'
    BY <1>1, <1>3, <1>6 DEF NotifiedBefore
  <2>2. link /\ ~notifying /\ "notify" \in props => ~fresh'
    BY <1>1 DEF NotifiesFirst
  <2>3. NotifiesFirst'
    BY <1>5, <1>6, <2>2 DEF NotifiesFirst
  <2>4. QED
    BY <2>1, <2>3
<1>16. LastIsTrue' /\ Told'
  <2>1. Told'
    BY <1>2, <1>5 DEF Told
  <2>2. notifying => "notify" \in props /\ valve \in Valve
    BY <1>1 DEF OnLink, Scalars, SensorOK
  <2>3. Reading' = "none"
    BY <1>5 DEF Reading
  <2>4. LastIsTrue'
    BY <1>1, <1>2, <1>4, <1>5, <1>6, <2>2, <2>3 DEF LastIsTrue
  <2>5. QED
    BY <2>1, <2>4
<1>17. QED
  BY <1>7, <1>8, <1>9, <1>10, <1>11, <1>12, <1>13, <1>14, <1>15, <1>16 DEF DInv

\* The loop resumes _async_connect().
LEMMA NextConnect ==
    ASSUME DInv, _async_connect
    PROVE  DInv'
<1>1. ConnectResumed
  BY DEF _async_connect, ConnectResumed
<1>2. \/ result = "cancelled"
      \/ result = "none" /\ attempt = "created"
      \/ result \in {"error"} \cup Valve /\ attempt = "read"
      \/ result = "error" /\ attempt \in {"establish", "temperature", "valve"}
      \/ result = "ok" /\ attempt \in {"establish", "temperature", "valve"}
  <2>1. InQueue(ready, "connect")
    BY <1>1, ConnectTaken
  <2>2. QED
    BY <2>1 DEF DInv, ConnectInOrder
<1>3. CASE result = "cancelled"
  <2>1. Go("off")
    BY <1>3 DEF _async_connect
  <2>2. QED
    BY <1>1, <1>3, <2>1, NextGivenUp
<1>4. CASE result = "none" /\ attempt = "created"
  <2>1. Begin
    BY <1>4 DEF _async_connect
  <2>2. CASE Go("off")
    BY <1>1, <1>4, <2>2, NextGivenUp
  <2>3. CASE Go("establish") /\ ~unloaded /\ client # "live"
    BY <1>1, <1>4, <2>3, NextBegun
  <2>4. QED
    BY <2>1, <2>2, <2>3 DEF Begin
<1>5. CASE result \in {"error"} \cup Valve /\ attempt = "read"
  <2>1. FirstReading /\ Reading = result
    BY <1>5 DEF _async_connect, Valve, Reading
  <2>2. CASE result \in Valve
    <3>1. Established(result) /\ fresh' = TRUE
      BY <2>1, <2>2 DEF FirstReading
    <3>2. QED
      BY <1>1, <1>5, <2>1, <2>2, <3>1, NextEstablished DEF Valve
  <2>3. CASE result = "error"
    <3>1. result \notin Valve
      BY <2>3 DEF Valve
    <3>2. Established(valve_open) /\ fresh' = fresh
      BY <2>1, <3>1 DEF FirstReading
    <3>3. QED
      BY <1>1, <1>5, <2>1, <2>3, <3>1, <3>2, NextEstablished
  <2>4. QED
    BY <1>5, <2>2, <2>3
<1>6. CASE result = "error" /\ attempt \in {"establish", "temperature", "valve"}
  <2>1. ConnectFails
    BY <1>6 DEF _async_connect
  <2>2. QED
    BY <1>1, <1>6, <2>1, NextFails
<1>7. CASE result = "ok" /\ attempt \in {"establish", "temperature", "valve"}
  <2>1. _subscribe
    BY <1>7 DEF _async_connect
  <2>2. CASE attempt = "establish"
    <3>1. Go("temperature")
      BY <2>1, <2>2 DEF _subscribe
    <3>2. QED
      BY <1>1, <1>7, <2>2, <3>1, NextSubscribes
  <2>3. CASE attempt = "temperature"
    <3>1. IF "notify" \in props THEN Go("valve")
          ELSE IF "read" \in props THEN Go("read") ELSE ConnectFails
      BY <2>1, <2>3 DEF _subscribe
    <3>2. CASE ConnectFails
      BY <1>1, <1>7, <2>3, <3>2, NextFails
    <3>3. CASE \/ "notify" \in props /\ Go("valve")
               \/ "notify" \notin props /\ Go("read")
      BY <1>1, <1>7, <2>3, <3>3, NextSubscribes
    <3>4. QED
      BY <3>1, <3>2, <3>3
  <2>4. CASE attempt = "valve" /\ "read" \in props
    <3>1. Go("read")
      BY <2>1, <2>4 DEF _subscribe
    <3>2. QED
      BY <1>1, <1>7, <2>4, <3>1, NextSubscribes
  <2>5. CASE attempt = "valve" /\ "read" \notin props
    <3>1. Established(valve_open) /\ fresh' = fresh
      BY <2>1, <2>5 DEF _subscribe
    <3>2. Reading \notin Valve
      BY <2>5 DEF Reading, Valve
    <3>3. QED
      BY <1>1, <1>7, <2>5, <3>1, <3>2, NextEstablished
  <2>6. QED
    BY <1>7, <2>2, <2>3, <2>4, <2>5
<1>8. QED
  BY <1>2, <1>3, <1>4, <1>5, <1>6, <1>7

-----------------------------------------------------------------------------
(***************************************************************************)
(* Every step keeps the invariant: the poll and the callbacks.             *)
(***************************************************************************)

\* The loop resumes the poll.
LEMMA NextPoll ==
    ASSUME DInv, _poll_valve
    PROVE  DInv'
<1>1. /\ Scalars /\ QueueOK /\ UnloadedHoldsNothing /\ AvailableIsConnected /\ PollLives
      /\ OnLink /\ LostFirst /\ ConnectInOrder /\ PollInOrder /\ PollEnds /\ PollBefore
      /\ NotifiedBefore /\ NotifiesFirst /\ LastIsTrue /\ Told
  BY DEF DInv
<1>2. /\ ready' \in Queue /\ Once(ready')
      /\ InQueue(ready, "poll") /\ ~InQueue(ready', "poll")
      /\ InQueue(ready', "connect") <=> InQueue(ready, "connect")
      /\ InQueue(ready', "lost") <=> InQueue(ready, "lost")
      /\ Before(ready, "lost", "connect") => Before(ready', "lost", "connect")
      /\ NoValve(ready) => NoValve(ready')
      /\ LostAfter(ready) => LostAfter(ready')
  <2>1. /\ ready \in Queue /\ Once(ready) /\ ready # <<>> /\ "poll" = Head(ready)
        /\ ready' = Tail(ready)
    BY <1>1 DEF QueueOK, _poll_valve
  <2>2. "connect" \in Item /\ "lost" \in Item /\ "connect" # "poll" /\ "lost" # "poll"
    BY DEF Item
  <2>3. QED
    BY <2>1, <2>2, Dequeue
<1>3. /\ poll # "off" /\ "notify" \notin props /\ ~notifying
      /\ \/ answer = "cancelled" /\ poll' = "off"
         \/ /\ answer # "cancelled" /\ poll = "look"
            /\ poll' = IF unloaded \/ ~polled THEN "off" ELSE "read"
         \/ answer # "cancelled" /\ poll = "read" /\ poll' = "pause"
  <2>1. poll # "off" /\ "notify" \notin props /\ ~notifying
    BY <1>1, <1>2 DEF PollInOrder, OnLink
  <2>2. answer = "cancelled" \/ poll \in {"look", "read"}
    BY <1>1, <1>2 DEF PollInOrder
  <2>3. CASE answer = "cancelled"
    BY <2>1, <2>3 DEF _poll_valve
  <2>4. CASE answer # "cancelled" /\ poll = "look"
    BY <2>1, <2>4 DEF _poll_valve
  <2>5. CASE answer # "cancelled" /\ poll = "read"
    BY <2>1, <2>5 DEF _poll_valve
  <2>6. QED
    BY <2>2, <2>3, <2>4, <2>5
<1>4. /\ fresh' \in BOOLEAN /\ valve_open' \in Valve \cup {"unknown"}
      /\ shown' \in Valve \cup {"unavailable"}
      /\ ~unloaded => shown' = Entity(available, valve_open')
  <2>1. CASE UNCHANGED <<valve_open, shown, fresh>>
    BY <1>1, <2>1 DEF Scalars, DeviceOK, Told
  <2>2. CASE answer \in Valve /\ Apply(answer)
    BY <1>1, <2>2 DEF Scalars, DeviceOK, Told, Apply, Update, Entity
  <2>3. QED
    BY <2>1, <2>2 DEF _poll_valve
<1>5. /\ answer' = "none" /\ life' = life /\ client' = client /\ available' = available
      /\ attempt' = attempt /\ result' = result /\ polled' = polled /\ blind' = blind
      /\ props' = props /\ near' = near /\ valve' = valve /\ link' = link /\ notifying' = notifying
  BY DEF _poll_valve, sensor
<1>6. Scalars'
  <2>1. SensorOK'
    BY <1>1, <1>5 DEF Scalars, SensorOK
  <2>2. DeviceOK'
    BY <1>1, <1>4, <1>5 DEF Scalars, DeviceOK
  <2>3. TasksOK'
    BY <1>1, <1>3, <1>5 DEF Scalars, TasksOK
  <2>4. QED
    BY <2>1, <2>2, <2>3 DEF Scalars
<1>7. QueueOK'
  BY <1>2 DEF QueueOK
<1>8. UnloadedHoldsNothing'
  BY <1>1, <1>2, <1>3, <1>4, <1>5 DEF Scalars, SensorOK, DeviceOK, TasksOK,
     UnloadedHoldsNothing, unloaded, Reading
<1>9. AvailableIsConnected'
  BY <1>1, <1>2, <1>3, <1>4, <1>5 DEF Scalars, SensorOK, DeviceOK, TasksOK,
     AvailableIsConnected, UnloadedHoldsNothing, unloaded, Reading
<1>10. PollLives'
  <2>1. client = "live" => ~unloaded
    BY <1>1 DEF UnloadedHoldsNothing
  <2>2. QED
    BY <1>1, <1>3, <1>5, <2>1 DEF PollLives, OnlyRead
<1>11. OnLink' /\ LostFirst'
  BY <1>1, <1>2, <1>3, <1>4, <1>5 DEF Scalars, SensorOK, DeviceOK, TasksOK, OnLink,
     LostFirst, ConnectInOrder, unloaded, Reading
<1>12. ConnectInOrder' /\ PollInOrder'
  BY <1>1, <1>2, <1>3, <1>4, <1>5 DEF Scalars, SensorOK, DeviceOK, TasksOK,
     ConnectInOrder, PollInOrder, OnLink, Reading
<1>13. PollEnds' /\ PollBefore'
  BY <1>1, <1>2, <1>3, <1>4, <1>5 DEF Scalars, SensorOK, DeviceOK, TasksOK, PollEnds,
     PollBefore, Ending, OnLink, Reading
<1>14. NotifiedBefore' /\ NotifiesFirst'
  BY <1>1, <1>2, <1>3, <1>4, <1>5 DEF Scalars, SensorOK, DeviceOK, TasksOK,
     NotifiedBefore, NotifiesFirst, OnLink, LostFirst, Reading
<1>15. LastIsTrue' /\ Told'
  BY <1>3, <1>4, <1>5 DEF LastIsTrue, Told, unloaded
<1>16. QED
  BY <1>6, <1>7, <1>8, <1>9, <1>10, <1>11, <1>12, <1>13, <1>14, <1>15 DEF DInv

\* The loop runs _handle_disconnect(), after a link and before the next.
LEMMA NextLost ==
    ASSUME DInv, _handle_disconnect
    PROVE  DInv'
<1>1. /\ Scalars /\ QueueOK /\ UnloadedHoldsNothing /\ AvailableIsConnected /\ PollLives
      /\ OnLink /\ LostFirst /\ ConnectInOrder /\ PollInOrder /\ PollEnds /\ PollBefore
      /\ NotifiedBefore /\ NotifiesFirst /\ LastIsTrue /\ Told
  BY DEF DInv
<1>2. /\ ready' \in Queue /\ Once(ready') /\ InQueue(ready, "lost")
      /\ InQueue(ready', "connect") <=> InQueue(ready, "connect")
      /\ InQueue(ready', "poll") <=> InQueue(ready, "poll") \/ poll # "off"
      /\ InQueue(ready', "lost") => InQueue(ready, "lost")
      /\ Before(ready, "lost", "connect") => Before(ready', "lost", "connect")
      /\ Before(ready, "poll", "connect") /\ InQueue(ready, "poll")
             => Before(ready', "poll", "connect")
      /\ LostAfter(ready) => LostAfter(ready')
  <2> DEFINE q == Tail(ready)
  <2>1. /\ ready \in Queue /\ Once(ready) /\ ready # <<>> /\ "lost" = Head(ready)
        /\ ready' = IF poll = "off" THEN q ELSE Woken(q, "poll")
    BY <1>1 DEF QueueOK, _handle_disconnect, _cancel_valve_poll
  <2>2. /\ "connect" \in Item /\ "poll" \in Item /\ "lost" \in Item
        /\ "connect" # "lost" /\ "poll" # "lost"
    BY DEF Item
  <2>3. /\ q \in Queue /\ Once(q) /\ InQueue(ready, "lost")
        /\ \A y \in Item : y # "lost" => (InQueue(q, y) <=> InQueue(ready, y))
        /\ \A y \in Item : InQueue(q, y) => InQueue(ready, y)
        /\ Before(ready, "lost", "connect") => Before(q, "lost", "connect")
        /\ Before(ready, "poll", "connect") => Before(q, "poll", "connect")
        /\ LostAfter(ready) => LostAfter(q)
    BY <2>1, Dequeue
  <2> HIDE DEF q
  <2>4. /\ InQueue(q, "connect") <=> InQueue(ready, "connect")
        /\ InQueue(q, "poll") <=> InQueue(ready, "poll")
        /\ InQueue(q, "lost") => InQueue(ready, "lost")
    BY <2>2, <2>3
  <2>5. QED
    BY <2>1, <2>3, <2>4, WokenPoll
<1>3. /\ ~link /\ ~notifying /\ ~polled /\ client' = "none" /\ ~available'
      /\ answer' = IF poll = "off" THEN answer ELSE "cancelled"
  <2>1. ~link /\ ~notifying /\ ~polled
    BY <1>1, <1>2 DEF LostFirst, OnLink
  <2>2. QED
    BY <2>1 DEF _handle_disconnect, _cancel_valve_poll
<1>4. Scalars'
  <2>1. SensorOK'
    BY <1>1 DEF Scalars, SensorOK, _handle_disconnect, sensor
  <2>2. shown' = shown \/ shown' = "unavailable"
    BY DEF _handle_disconnect, Update, Entity
  <2>3. available' = FALSE
    BY DEF _handle_disconnect
  <2>4. DeviceOK'
    BY <1>1, <2>2, <2>3 DEF Scalars, DeviceOK, _handle_disconnect
  <2>5. TasksOK'
    BY <1>1, <1>3 DEF Scalars, TasksOK, _handle_disconnect
  <2>6. QED
    BY <2>1, <2>4, <2>5 DEF Scalars
<1>5. QueueOK'
  BY <1>1, <1>2, <1>3 DEF QueueOK
<1>6. UnloadedHoldsNothing'
  BY <1>1, <1>2, <1>3 DEF Scalars, SensorOK, DeviceOK, TasksOK, UnloadedHoldsNothing,
     unloaded, _handle_disconnect, sensor
<1>7. AvailableIsConnected'
  BY <1>1, <1>2, <1>3 DEF Scalars, SensorOK, DeviceOK, TasksOK, AvailableIsConnected,
     UnloadedHoldsNothing, unloaded, _handle_disconnect, sensor
<1>8. PollLives'
  BY <1>1, <1>2, <1>3 DEF Scalars, SensorOK, DeviceOK, TasksOK, PollLives, OnlyRead,
     Valve, OnLink, PollInOrder, _handle_disconnect, sensor
<1>9. OnLink' /\ LostFirst'
  BY <1>1, <1>2, <1>3 DEF Scalars, SensorOK, DeviceOK, TasksOK, OnLink, LostFirst,
     ConnectInOrder, unloaded, _handle_disconnect, sensor
<1>10. ConnectInOrder' /\ PollInOrder'
  BY <1>1, <1>2, <1>3 DEF Scalars, SensorOK, DeviceOK, TasksOK, ConnectInOrder,
     PollInOrder, OnLink, _handle_disconnect, sensor
<1>11. PollEnds' /\ PollBefore'
  BY <1>1, <1>2, <1>3 DEF Scalars, SensorOK, DeviceOK, TasksOK, PollEnds, PollBefore,
     Ending, OnLink, _handle_disconnect, sensor
<1>12. NotifiedBefore' /\ NotifiesFirst'
  BY <1>1, <1>2, <1>3 DEF Scalars, SensorOK, DeviceOK, TasksOK, NotifiedBefore,
     NotifiesFirst, OnLink, LostFirst, _handle_disconnect, sensor
<1>13. LastIsTrue' /\ Told'
  BY <1>1, <1>3 DEF LastIsTrue, Told, Update, Entity, unloaded, _handle_disconnect, sensor
<1>14. QED
  BY <1>4, <1>5, <1>6, <1>7, <1>8, <1>9, <1>10, <1>11, <1>12, <1>13 DEF DInv

\* The loop runs the callback of a notification.
LEMMA NextNotified ==
    ASSUME DInv, _set_valve_from_bytes
    PROVE  DInv'
<1>1. /\ Scalars /\ QueueOK /\ UnloadedHoldsNothing /\ AvailableIsConnected /\ PollLives
      /\ OnLink /\ LostFirst /\ ConnectInOrder /\ PollInOrder /\ PollEnds /\ PollBefore
      /\ NotifiedBefore /\ NotifiesFirst /\ LastIsTrue /\ Told
  BY DEF DInv
<1>2. /\ ready' \in Queue /\ Once(ready') /\ ~NoValve(ready)
      /\ InQueue(ready', "connect") <=> InQueue(ready, "connect")
      /\ InQueue(ready', "poll") <=> InQueue(ready, "poll")
      /\ InQueue(ready', "lost") <=> InQueue(ready, "lost")
      /\ Before(ready, "lost", "connect") => Before(ready', "lost", "connect")
      /\ Before(ready, "poll", "connect") => Before(ready', "poll", "connect")
      /\ LostAfter(ready) => LostAfter(ready')
      /\ Ends(ready, Reading, valve) =>
             \/ Ends(ready', Reading, valve)
             \/ Head(ready) = valve /\ Silent(ready', Reading)
      /\ ~Silent(ready, Reading)
  <2> DEFINE x == Head(ready)
  <2>1. /\ ready \in Queue /\ Once(ready) /\ ready # <<>> /\ x \in Valve
        /\ ready' = Tail(ready)
    BY <1>1 DEF QueueOK, _set_valve_from_bytes
  <2>2. /\ "connect" \in Item /\ "poll" \in Item /\ "lost" \in Item
        /\ "connect" # x /\ "poll" # x /\ "lost" # x /\ Brings(x, Reading) = x
    BY <2>1 DEF Item, Valve, Brings
  <2>3. InQueue(ready, x)
    BY <2>1, Dequeue
  <2>4. ~NoValve(ready)
    BY <2>1, <2>3 DEF InQueue, NoValve
  <2> HIDE DEF x
  <2>5. /\ ready' \in Queue /\ Once(ready')
        /\ \A y \in Item : y # x => (InQueue(ready', y) <=> InQueue(ready, y))
        /\ Before(ready, "lost", "connect") => Before(ready', "lost", "connect")
        /\ Before(ready, "poll", "connect") => Before(ready', "poll", "connect")
        /\ LostAfter(ready) => LostAfter(ready')
        /\ Ends(ready, Reading, valve) =>
               \/ Ends(ready', Reading, valve)
               \/ Brings(x, Reading) = valve /\ Silent(ready', Reading)
        /\ Silent(ready, Reading) => Brings(x, Reading) \notin Valve
    BY <2>1, Dequeue DEF x
  <2>6. QED
    BY <2>1, <2>2, <2>4, <2>5 DEF x
<1>3. /\ fresh' = TRUE /\ valve_open' = Head(ready) /\ valve_open' \in Valve
      /\ shown' \in Valve \cup {"unavailable"}
      /\ ~unloaded => shown' = Entity(available, valve_open')
  BY <1>1 DEF Scalars, DeviceOK, Told, _set_valve_from_bytes, Apply, Update, Entity
<1>4. Scalars'
  <2>1. SensorOK'
    BY <1>1 DEF Scalars, SensorOK, _set_valve_from_bytes, sensor
  <2>2. DeviceOK'
    BY <1>1, <1>3 DEF Scalars, DeviceOK, _set_valve_from_bytes
  <2>3. TasksOK'
    BY <1>1 DEF Scalars, TasksOK, _set_valve_from_bytes, tasks
  <2>4. QED
    BY <2>1, <2>2, <2>3 DEF Scalars
<1>5. QueueOK'
  BY <1>1, <1>2, <1>3 DEF QueueOK
<1>6. UnloadedHoldsNothing'
  BY <1>1, <1>2, <1>3 DEF Scalars, SensorOK, DeviceOK, TasksOK, UnloadedHoldsNothing,
     unloaded, _set_valve_from_bytes, sensor, tasks
<1>7. AvailableIsConnected'
  BY <1>1, <1>2, <1>3 DEF Scalars, SensorOK, DeviceOK, TasksOK, AvailableIsConnected,
     UnloadedHoldsNothing, unloaded, _set_valve_from_bytes, sensor, tasks
<1>8. PollLives'
  BY <1>1, <1>2, <1>3 DEF Scalars, SensorOK, DeviceOK, TasksOK, PollLives, OnlyRead,
     Valve, OnLink, PollInOrder, _set_valve_from_bytes, sensor, tasks
<1>9. OnLink' /\ LostFirst'
  BY <1>1, <1>2, <1>3 DEF Scalars, SensorOK, DeviceOK, TasksOK, OnLink, LostFirst,
     ConnectInOrder, unloaded, _set_valve_from_bytes, sensor, tasks
<1>10. ConnectInOrder' /\ PollInOrder'
  BY <1>1, <1>2, <1>3 DEF Scalars, SensorOK, DeviceOK, TasksOK, ConnectInOrder,
     PollInOrder, OnLink, _set_valve_from_bytes, sensor, tasks
<1>11. PollEnds' /\ PollBefore'
  BY <1>1, <1>2, <1>3 DEF Scalars, SensorOK, DeviceOK, TasksOK, PollEnds, PollBefore,
     Ending, OnLink, _set_valve_from_bytes, sensor, tasks
<1>12. NotifiedBefore' /\ NotifiesFirst'
  BY <1>1, <1>2, <1>3 DEF Scalars, SensorOK, DeviceOK, TasksOK, NotifiedBefore,
     NotifiesFirst, OnLink, LostFirst, _set_valve_from_bytes, sensor, tasks
<1>13. LastIsTrue' /\ Told'
  <2>1. Told'
    BY <1>3 DEF Told, unloaded, _set_valve_from_bytes
  <2>2. Reading' = Reading /\ valve' = valve /\ notifying' = notifying /\ unloaded' = unloaded
    BY DEF Reading, unloaded, _set_valve_from_bytes, sensor, tasks
  <2>3. LastIsTrue'
    BY <1>1, <1>2, <1>3, <2>2 DEF LastIsTrue
  <2>4. QED
    BY <2>1, <2>3
<1>14. QED
  BY <1>4, <1>5, <1>6, <1>7, <1>8, <1>9, <1>10, <1>11, <1>12, <1>13 DEF DInv

-----------------------------------------------------------------------------
(***************************************************************************)
(* The theorems.                                                           *)
(***************************************************************************)

\* The invariant holds before async_start().
LEMMA InitInv ==
    ASSUME Init
    PROVE  DInv
<1>1. ready = <<>> /\ ready \in Queue /\ Once(ready)
  BY DEF Init, Queue, Once
<1>2. \A x : ~InQueue(ready, x)
  BY <1>1 DEF InQueue
<1>3. Before(ready, "lost", "connect") /\ LostAfter(ready)
  BY <1>1 DEF Before, LostAfter
<1>4. Scalars
  BY DEF Init, Scalars, SensorOK, DeviceOK, TasksOK
<1>5. UnloadedHoldsNothing /\ AvailableIsConnected /\ PollLives /\ OnLink
  BY DEF Init, UnloadedHoldsNothing, unloaded, AvailableIsConnected, PollLives, OnLink
<1>6. LostFirst /\ ConnectInOrder /\ PollInOrder /\ PollEnds /\ PollBefore
  BY <1>2 DEF Init, LostFirst, ConnectInOrder, PollInOrder, PollEnds, PollBefore
<1>7. NotifiedBefore /\ NotifiesFirst /\ LastIsTrue /\ Told
  BY <1>3 DEF Init, NotifiedBefore, NotifiesFirst, LastIsTrue, Told, Entity
<1>8. QED
  BY <1>1, <1>4, <1>5, <1>6, <1>7 DEF DInv, QueueOK

\* Every step keeps it.
LEMMA NextInv ==
    ASSUME DInv, [Next]_vars
    PROVE  DInv'
<1>1. CASE UNCHANGED vars
  BY <1>1, NextUnchanged
<1>2. CASE async_start
  BY <1>2, NextStart
<1>3. CASE async_stop
  BY <1>3, NextStop
<1>4. CASE Parted
  BY <1>4, NextParted
<1>5. CASE Loop
  BY <1>5, NextConnect, NextPoll, NextLost, NextNotified DEF Loop
<1>6. CASE _async_advertisement
  <2>1. CASE attempt = "off" /\ client # "live"
    BY <1>6, <2>1, NextAdvertised
  <2>2. CASE ~(attempt = "off" /\ client # "live")
    <3>1. UNCHANGED vars
      BY <1>6, <2>2 DEF _async_advertisement, _schedule_connect, vars, sensor, tasks
    <3>2. QED
      BY <3>1, NextUnchanged
  <2>3. QED
    BY <2>1, <2>2
<1>7. CASE ConnectAwaited
  BY <1>7, NextConnectAwaited
<1>8. CASE PollAwaited
  BY <1>8, NextPollAwaited
<1>9. CASE ValveMoves
  BY <1>9, NextValveMoves
<1>10. CASE Breaks
  BY <1>10, NextBreaks
<1>11. CASE Moves
  BY <1>11, NextMoves
<1>12. QED
  BY <1>1, <1>2, <1>3, <1>4, <1>5, <1>6, <1>7, <1>8, <1>9, <1>10, <1>11 DEF Next

\* The invariant holds in every state.
LEMMA Invariant == Spec => []DInv
<1>1. Init => DInv
  BY InitInv
<1>2. DInv /\ [Next]_vars => DInv'
  BY NextInv
<1>3. QED
  BY <1>1, <1>2, PTL DEF Spec

\* Every variable stays within its values, and no task is in the loop's queue twice.
THEOREM TypeCorrect == Spec => []TypeOK
<1>1. DInv => TypeOK
  BY TypeParts DEF DInv
<1>2. QED
  BY <1>1, Invariant, PTL

\* A device that is available has a connection, or the loss of it is still in the
\* queue, or the link went down under an attempt that succeeded all the same.
THEOREM AvailableOnlyConnected == Spec => []AvailableIsConnected
<1>1. DInv => AvailableIsConnected
  BY DEF DInv
<1>2. QED
  BY <1>1, Invariant, PTL

\* _poll_valve() runs for the connection of _client, or is about to end: none is
\* left when _subscribe() of the next connection can overwrite _valve_poll_task.
THEOREM PollFollowsLink == Spec => []PollOfThisLink
<1>1. DInv => PollOfThisLink
  BY DEF DInv, PollOfThisLink, PollLives, OnlyRead, PollEnds, Ending, PollBefore
<1>2. QED
  BY <1>1, Invariant, PTL

\* From the beginning of async_stop() on there is no client, and what is left of
\* the two tasks is cancelled and in the queue.
THEOREM NothingComesBack == Spec => []UnloadedHoldsNothing
<1>1. DInv => UnloadedHoldsNothing
  BY DEF DInv
<1>2. QED
  BY <1>1, Invariant, PTL

\* When the loop has run all it had to run, the entity of a valve that notifies
\* shows the sensor's valve, if this connection has brought a state at all.
THEOREM EntityIsTrue == Spec => []EntityFollowsValve
<1>1. ASSUME DInv, ready = <<>>, client = "live", fresh, "notify" \in props
      PROVE  shown = valve
  <2>1. link /\ available /\ ~unloaded
    BY <1>1 DEF DInv, OnLink, UnloadedHoldsNothing
  <2>2. notifying
    BY <1>1, <2>1 DEF DInv, NotifiesFirst
  <2>3. ~Ends(ready, Reading, valve)
    BY <1>1 DEF Ends
  <2>4. valve_open = valve
    BY <1>1, <2>1, <2>2, <2>3 DEF DInv, LastIsTrue
  <2>5. valve # "unknown"
    BY <1>1 DEF DInv, Scalars, SensorOK, Valve
  <2>6. QED
    BY <1>1, <2>1, <2>4, <2>5 DEF DInv, Told, Entity
<1>2. DInv => EntityFollowsValve
  BY <1>1 DEF EntityFollowsValve
<1>3. QED
  BY <1>2, Invariant, PTL

\* No late _handle_disconnect() of an earlier connection, nor any other step but
\* async_stop(), makes the device give up a client whose link is up.
THEOREM SessionKept == Spec => NeverDropsSession
<1>1. ASSUME DInv, [Next]_vars, client = "live", link'
      PROVE  client' = "live" \/ life' # "running"
  <2>1. link /\ attempt = "off" /\ ~InQueue(ready, "lost") /\ ~InQueue(ready, "connect")
    BY <1>1 DEF DInv, OnLink, LostFirst, ConnectInOrder
  <2>2. CASE async_start \/ Parted \/ _async_advertisement \/ ConnectAwaited
                \/ PollAwaited \/ ValveMoves \/ Moves \/ UNCHANGED vars
    BY <1>1, <2>2 DEF async_start, Parted, _async_advertisement, ConnectAwaited,
       PollAwaited, ValveMoves, Moves, vars
  <2>3. CASE async_stop
    BY <2>3 DEF async_stop
  <2>4. CASE Breaks
    BY <1>1, <2>4 DEF Breaks
  <2>5. CASE _poll_valve \/ _set_valve_from_bytes
    BY <1>1, <2>5 DEF _poll_valve, _set_valve_from_bytes
  <2>6. ready # <<>> => InQueue(ready, Head(ready))
    BY <1>1, Dequeue DEF DInv, QueueOK
  <2>7. CASE _handle_disconnect
    BY <2>1, <2>6, <2>7 DEF _handle_disconnect
  <2>8. CASE _async_connect
    BY <2>1, <2>6, <2>8 DEF _async_connect
  <2>9. QED
    BY <1>1, <2>2, <2>3, <2>4, <2>5, <2>7, <2>8 DEF Next, Loop
<1>2. DInv /\ [Next]_vars
          => [client = "live" /\ link' => client' = "live" \/ life' # "running"]_vars
  BY <1>1
<1>3. QED
  BY <1>2, Invariant, PTL DEF Spec, NeverDropsSession
=============================================================================
