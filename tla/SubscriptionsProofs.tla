------------------------ MODULE SubscriptionsProofs ------------------------
(***************************************************************************)
(* What users are told, what the orchestrator is asked for and who gets an *)
(* alert, for any number of users, messages and alerts at a time.          *)
(***************************************************************************)
EXTENDS Subscriptions, FiniteSetTheorems, TLAPS

\* The handlers of one user's messages are alone or remembered as overlapping.
Alone ==
    \A g, h \in Handlers :
        at[g] # "idle" /\ at[h] # "idle" /\ who[g] = who[h] /\ who[g] \notin overlap => g = h

\* A user whose message is in hand has no answer to it yet.
Silent == \A h \in Handlers :
    at[h] # "idle" /\ who[h] \notin overlap => told[who[h]] = "none"

\* What a handler is going to answer is so.
WillBeTrue == \A h \in Handlers :
    at[h] \in {"call", "reply"} /\ who[h] \notin overlap
        => (answer[h] <=> who[h] \in Members(subscribers))

\* The file follows the list, but for a save that failed, and nobody has been told
\* anything about a torn file.
OnDisk ==
    /\ up /\ ~unsaved => disk = subscribers
    /\ ~up /\ disk = Torn => told = [u \in Users |-> "none"]
    /\ ~up => at = [h \in Handlers |-> "idle"]

\* Whoever was in the copied list has been tried or is left.
Walks == \A a \in Alerts : alert[a].at = "walking" =>
    alert[a].audience = alert[a].tried \cup Members(alert[a].left)

IInv == TypeOK /\ Alone /\ Silent /\ WillBeTrue /\ OnDisk
          /\ AnswerTrue /\ AskedForTheList /\ Walks

-----------------------------------------------------------------------------
(***************************************************************************)
(* Lists.                                                                  *)
(***************************************************************************)

\* A list of a configuration is a sequence of users without repetition.
LEMMA ListType ==
    ASSUME NEW list \in Lists
    PROVE  list \in Seq(Users) /\ Distinct(list)
<1>1. Cardinality(Users) \in Nat
    BY SubscriptionsAssumption, FS_CardinalityType
<1>2. PICK n \in 0..Cardinality(Users) : list \in [1..n -> Users]
    BY DEF Lists
<1>3. n \in Nat
    BY <1>1, <1>2
<1> QED BY <1>2, <1>3 DEF Lists

\* What add_subscriber() appends is in the list, which stays without repetition.
LEMMA AppendList ==
    ASSUME NEW list \in Seq(Users), Distinct(list),
           NEW u \in Users, u \notin Members(list)
    PROVE  /\ Append(list, u) \in Seq(Users) /\ Distinct(Append(list, u))
           /\ Members(Append(list, u)) = Members(list) \cup {u}
           /\ Append(list, u) # <<>>
<1> DEFINE new == Append(list, u)
<1>1. /\ new \in Seq(Users) /\ Len(new) = Len(list) + 1
      /\ \A i \in 1..Len(list) : new[i] = list[i]
      /\ new[Len(list) + 1] = u
      /\ DOMAIN new = 1..(Len(list) + 1) /\ DOMAIN list = 1..Len(list)
      /\ Len(list) \in Nat
    OBVIOUS
<1> HIDE DEF new
<1>2. Distinct(new)
    BY <1>1 DEF Distinct, Members
<1>3. Members(new) = Members(list) \cup {u}
  <2>1. \A v \in Members(new) : v \in Members(list) \cup {u}
      BY <1>1 DEF Members
  <2>2. \A v \in Members(list) : v \in Members(new)
      BY <1>1 DEF Members
  <2>3. u \in Members(new)
      BY <1>1 DEF Members
  <2> QED BY <2>1, <2>2, <2>3
<1>4. new # <<>>
    BY <1>1
<1> QED BY <1>1, <1>2, <1>3, <1>4 DEF new

\* What remove_subscriber() removes is not in the list any more, and nobody else
\* is missing.
LEMMA WithoutList ==
    ASSUME NEW list \in Seq(Users), Distinct(list),
           NEW u \in Members(list)
    PROVE  /\ Without(list, u) \in Seq(Users) /\ Distinct(Without(list, u))
           /\ Members(Without(list, u)) = Members(list) \ {u}
<1> DEFINE k == CHOOSE i \in DOMAIN list : list[i] = u
           n == Len(list)
           new == Without(list, u)
<1>1. k \in 1..n /\ list[k] = u /\ n \in Nat /\ DOMAIN list = 1..n
    BY DEF Members
<1> HIDE DEF k, n
<1>2. new = [i \in 1..(n - 1) |-> IF i < k THEN list[i] ELSE list[i + 1]]
    BY DEF Without, k, n
<1> HIDE DEF new
<1>3. \A i \in 1..n : list[i] \in Users
    BY <1>1
<1>4. n - 1 \in Nat
    BY <1>1
<1>5. new \in Seq(Users) /\ Len(new) = n - 1 /\ DOMAIN new = 1..(n - 1)
  <2>1. \A i \in 1..(n - 1) : (IF i < k THEN list[i] ELSE list[i + 1]) \in Users
      BY <1>1, <1>3
  <2>2. new \in [1..(n - 1) -> Users]
      BY <1>2, <2>1
  <2> QED BY <1>4, <2>2
<1>6. \A i \in 1..(n - 1) : new[i] = IF i < k THEN list[i] ELSE list[i + 1]
    BY <1>2
<1>7. \A i \in 1..(n - 1) : \E j \in 1..n :
            /\ new[i] = list[j] /\ j # k
            /\ (i < k => j = i) /\ (i >= k => j = i + 1)
  <2> TAKE i \in 1..(n - 1)
  <2>1. CASE i < k
      BY <1>1, <1>6, <2>1
  <2>2. CASE i >= k
    <3>1. i + 1 \in 1..n /\ i + 1 # k /\ ~(i < k)
        BY <1>1, <2>2
    <3>2. new[i] = list[i + 1]
        BY <1>6, <3>1
    <3> QED BY <2>2, <3>1, <3>2
  <2> QED BY <1>1, <2>1, <2>2
<1>8. Distinct(new)
  <2> SUFFICES ASSUME NEW i \in 1..(n - 1), NEW j \in 1..(n - 1), new[i] = new[j]
               PROVE  i = j
      BY <1>5 DEF Distinct
  <2>1. PICK i1 \in 1..n : /\ new[i] = list[i1]
                           /\ (i < k => i1 = i) /\ (i >= k => i1 = i + 1)
      BY <1>7
  <2>2. PICK j1 \in 1..n : /\ new[j] = list[j1]
                           /\ (j < k => j1 = j) /\ (j >= k => j1 = j + 1)
      BY <1>7
  <2>3. i1 = j1
      BY <1>1, <2>1, <2>2 DEF Distinct
  <2> QED BY <1>1, <2>1, <2>2, <2>3
<1>9. Members(new) = Members(list) \ {u}
  <2>1. ASSUME NEW v \in Members(new)
        PROVE  v \in Members(list) \ {u}
    <3>1. PICK i \in 1..(n - 1) : v = new[i]
        BY <1>5 DEF Members
    <3>2. PICK j \in 1..n : v = list[j] /\ j # k
        BY <1>7, <3>1
    <3> QED BY <1>1, <3>2 DEF Distinct, Members
  <2>2. ASSUME NEW v \in Members(list) \ {u}
        PROVE  v \in Members(new)
    <3>1. PICK j \in 1..n : v = list[j]
        BY <1>1 DEF Members
    <3>2. j # k
        BY <1>1, <3>1
    <3>3. \E i \in 1..(n - 1) : new[i] = v
      <4>1. CASE j < k
          BY <1>1, <1>6, <3>1, <4>1
      <4>2. CASE j > k
        <5>1. j - 1 \in 1..(n - 1) /\ ~(j - 1 < k) /\ (j - 1) + 1 = j
            BY <1>1, <4>2
        <5>2. new[j - 1] = list[j]
            BY <1>6, <5>1
        <5> QED BY <3>1, <5>1, <5>2
      <4> QED BY <1>1, <3>2, <4>1, <4>2
    <3> QED BY <1>5, <3>3 DEF Members
  <2> QED BY <2>1, <2>2
<1> QED BY <1>5, <1>8, <1>9 DEF new

-----------------------------------------------------------------------------
(***************************************************************************)
(* The invariant.                                                          *)
(***************************************************************************)

\* A configuration of any users starts without a message and without an answer.
LEMMA InitInv == Init => IInv
<1> SUFFICES ASSUME Init
             PROVE  IInv
    OBVIOUS
<1>1. disk \in Seq(Users) /\ Distinct(disk) /\ subscribers = disk
    BY ListType DEF Init
<1>2. alert \in [Alerts -> [at : {"idle", "raised", "walking"}, own : BOOLEAN,
                            left : Seq(Users), audience : SUBSET Users, tried : SUBSET Users]]
    BY DEF Init, NoAlert
<1>3. TypeOK
    BY <1>1, <1>2 DEF Init, TypeOK
<1>4. \A h \in Handlers : at[h] = "idle"
    BY DEF Init
<1>5. Alone /\ Silent /\ WillBeTrue
    BY <1>4 DEF Alone, Silent, WillBeTrue
<1>6. OnDisk /\ AnswerTrue /\ AskedForTheList
    BY DEF Init, OnDisk, AnswerTrue, AskedForTheList
<1>7. Walks
    BY DEF Init, NoAlert, Walks
<1> QED BY <1>3, <1>5, <1>6, <1>7 DEF IInv

\* A command that changes the list: the save succeeds or fails, and the orchestrator
\* is to be called or not.
LEMMA ChangedInv ==
    ASSUME IInv, NEW h \in Handlers, up, at[h] = "decrypt",
           UNCHANGED <<up, synced, who, alert, told, overlap>>,
           NEW list \in Seq(Users), Distinct(list),
           NEW calls \in BOOLEAN, NEW wanted \in BOOLEAN,
           Changed(h, list, calls, wanted),
           who[h] \in Members(list) <=> wanted,
           \A v \in Users \ {who[h]} : v \in Members(list) <=> v \in Members(subscribers),
           calls => (wanted <=> list # <<>>),
           ~calls => (list # <<>> <=> subscribers # <<>>)
    PROVE  IInv'
<1> USE DEF IInv
<1>1. /\ subscribers' = list
      /\ answer' = [answer EXCEPT ![h] = wanted]
      /\ \E place \in {"call", "reply", "idle"} : at' = [at EXCEPT ![h] = place]
    BY DEF Changed
<1>2. /\ \A g \in Handlers \ {h} : at'[g] = at[g] /\ answer'[g] = answer[g]
      /\ answer'[h] = wanted
      /\ at' \in [Handlers -> {"idle", "decrypt", "call", "reply"}]
      /\ answer' \in [Handlers -> BOOLEAN]
    BY <1>1 DEF TypeOK
<1>3. TypeOK'
  <2>1. disk' = Torn \/ (disk' \in Seq(Users) /\ Distinct(disk')) \/ disk' = disk
      BY DEF Changed, Saved, SaveFails
  <2>2. disk' # Torn => disk' \in Seq(Users) /\ Distinct(disk')
      BY <2>1 DEF TypeOK
  <2>3. asked' \in BOOLEAN /\ unsaved' \in BOOLEAN /\ uncalled' \in BOOLEAN
      BY DEF Changed, Saved, SaveFails, TypeOK
  <2> QED BY <1>1, <1>2, <2>2, <2>3 DEF TypeOK
<1>4. Alone'
    BY <1>2 DEF Alone
<1>5. Silent'
    BY <1>2 DEF Silent
<1>6. WillBeTrue'
  <2> SUFFICES ASSUME NEW g \in Handlers, at'[g] \in {"call", "reply"}, who[g] \notin overlap
               PROVE  answer'[g] <=> who[g] \in Members(list)
      BY <1>1 DEF WillBeTrue
  <2>1. CASE g = h
      BY <1>2, <2>1
  <2>2. CASE g # h
    <3>1. at[g] \in {"call", "reply"} /\ answer'[g] = answer[g]
        BY <1>2, <2>2
    <3>2. who[g] # who[h] /\ who[g] \in Users
        BY <2>2, <3>1 DEF Alone, TypeOK
    <3>3. answer[g] <=> who[g] \in Members(subscribers)
        BY <3>1 DEF WillBeTrue
    <3> QED BY <3>1, <3>2, <3>3
  <2> QED BY <2>1, <2>2
<1>7. OnDisk'
    BY <1>1 DEF Changed, Saved, SaveFails, OnDisk
<1>8. AnswerTrue'
  <2> SUFFICES ASSUME NEW u \in Users \ overlap, told[u] # "none"
               PROVE  (told[u] = "yes") = (u \in Members(list))
      BY <1>1 DEF AnswerTrue
  <2>1. u # who[h]
      BY DEF Silent
  <2>2. (told[u] = "yes") = (u \in Members(subscribers))
      BY DEF AnswerTrue
  <2> QED BY <2>1, <2>2
<1>9. AskedForTheList'
  <2> SUFFICES ASSUME synced, ~uncalled'
               PROVE  asked' = (list # <<>>)
      BY <1>1 DEF AskedForTheList
  <2>1. CASE calls
      BY <2>1 DEF Changed
  <2>2. CASE ~calls
    <3>1. asked' = asked /\ ~uncalled
        BY <2>2 DEF Changed, TypeOK
    <3>2. asked = (subscribers # <<>>)
        BY <3>1 DEF AskedForTheList
    <3> QED BY <2>2, <3>1, <3>2
  <2> QED BY <2>1, <2>2
<1>10. Walks'
    BY DEF Walks
<1> QED BY <1>3, <1>4, <1>5, <1>6, <1>7, <1>8, <1>9, <1>10

\* A command that finds the list as it is wanted.
LEMMA UnchangedInv ==
    ASSUME IInv, NEW h \in Handlers, up, at[h] = "decrypt",
           UNCHANGED <<up, synced, who, alert, told, overlap>>,
           NEW wanted \in BOOLEAN, Unchanged(h, wanted),
           who[h] \in Members(subscribers) <=> wanted
    PROVE  IInv'
<1> USE DEF IInv
<1>1. /\ \A g \in Handlers \ {h} : at'[g] = at[g] /\ answer'[g] = answer[g]
      /\ answer'[h] = wanted
      /\ at' \in [Handlers -> {"idle", "decrypt", "call", "reply"}]
      /\ answer' \in [Handlers -> BOOLEAN]
    BY DEF Unchanged, TypeOK
<1>2. UNCHANGED <<subscribers, disk, asked, unsaved, uncalled>>
    BY DEF Unchanged
<1>3. TypeOK'
    BY <1>1, <1>2 DEF TypeOK
<1>4. Alone' /\ Silent'
    BY <1>1 DEF Alone, Silent
<1>5. WillBeTrue'
    BY <1>1, <1>2 DEF WillBeTrue
<1>6. OnDisk' /\ AnswerTrue' /\ AskedForTheList' /\ Walks'
    BY <1>2 DEF OnDisk, AnswerTrue, AskedForTheList, Walks
<1> QED BY <1>3, <1>4, <1>5, <1>6

\* The two commands.
LEMMA CommandInv ==
    ASSUME IInv, NEW h \in Handlers, _handle_start(h) \/ _handle_stop(h)
    PROVE  IInv'
<1> DEFINE u == who[h]
<1>1. /\ u \in Users /\ up /\ at[h] = "decrypt"
      /\ UNCHANGED <<up, synced, who, alert, told, overlap>>
      /\ subscribers \in Seq(Users) /\ Distinct(subscribers)
    BY DEF IInv, TypeOK, _handle_start, _handle_stop
<1> HIDE DEF u
<1>2. CASE _handle_start(h) /\ u \in Members(subscribers)
  <2>1. Unchanged(h, TRUE)
      BY <1>2 DEF _handle_start, u
  <2> QED BY <1>1, <1>2, <2>1, UnchangedInv DEF u
<1>3. CASE _handle_start(h) /\ u \notin Members(subscribers)
  <2> DEFINE list == Append(subscribers, u)
             calls == subscribers = <<>>
  <2>1. Changed(h, list, calls, TRUE)
      BY <1>3 DEF _handle_start, u
  <2>2. /\ list \in Seq(Users) /\ Distinct(list) /\ list # <<>>
        /\ Members(list) = Members(subscribers) \cup {u}
      BY <1>1, <1>3, AppendList
  <2>3. calls \in BOOLEAN
      OBVIOUS
  <2>4. \A v \in Users \ {u} : v \in Members(list) <=> v \in Members(subscribers)
      BY <2>2
  <2>5. calls => (TRUE <=> list # <<>>)
      BY <2>2
  <2>6. ~calls => (list # <<>> <=> subscribers # <<>>)
      BY <2>2
  <2>7. u \in Members(list) <=> TRUE
      BY <2>2
  <2> HIDE DEF list, calls
  <2> QED BY <1>1, <2>1, <2>2, <2>3, <2>4, <2>5, <2>6, <2>7, ChangedInv DEF u
<1>4. CASE _handle_stop(h) /\ u \notin Members(subscribers)
  <2>1. Unchanged(h, FALSE)
      BY <1>4 DEF _handle_stop, u
  <2> QED BY <1>1, <1>4, <2>1, UnchangedInv DEF u
<1>5. CASE _handle_stop(h) /\ u \in Members(subscribers)
  <2> DEFINE list == Without(subscribers, u)
             calls == list = <<>>
  <2>1. Changed(h, list, calls, FALSE)
      BY <1>5 DEF _handle_stop, u
  <2>2. /\ list \in Seq(Users) /\ Distinct(list)
        /\ Members(list) = Members(subscribers) \ {u}
      BY <1>1, <1>5, WithoutList
  <2>3. calls \in BOOLEAN
      OBVIOUS
  <2>4. \A v \in Users \ {u} : v \in Members(list) <=> v \in Members(subscribers)
      BY <2>2
  <2>5. calls => (FALSE <=> list # <<>>)
      OBVIOUS
  <2>6. ~calls => (list # <<>> <=> subscribers # <<>>)
      BY <1>5 DEF Members
  <2>7. u \in Members(list) <=> FALSE
      BY <2>2
  <2> HIDE DEF list, calls
  <2> QED BY <1>1, <2>1, <2>2, <2>3, <2>4, <2>5, <2>6, <2>7, ChangedInv DEF u
<1> QED BY <1>2, <1>3, <1>4, <1>5

\* A message arrives; whoever has another one in hand is remembered.
LEMMA ArrivesInv ==
    ASSUME IInv, NEW h \in Handlers, NEW u \in Users, Arrives(h, u)
    PROVE  IInv'
<1> USE DEF IInv
<1>1. /\ at[h] = "idle" /\ at'[h] = "decrypt" /\ who'[h] = u /\ told'[u] = "none"
      /\ \A g \in Handlers \ {h} : at'[g] = at[g] /\ who'[g] = who[g]
      /\ \A v \in Users \ {u} : told'[v] = told[v] /\ (v \in overlap' <=> v \in overlap)
      /\ u \notin overlap' => ~\E g \in Handlers : at[g] # "idle" /\ who[g] = u
      /\ UNCHANGED <<store, answer, alert, unsaved, uncalled>>
    BY DEF Arrives, TypeOK
<1>2. TypeOK'
    BY DEF Arrives, TypeOK, store
<1>3. Alone'
  <2> SUFFICES ASSUME NEW f \in Handlers, NEW g \in Handlers, f # g,
                      at'[f] # "idle", at'[g] # "idle", who'[f] = who'[g]
               PROVE  who'[f] \in overlap'
      BY DEF Alone
  <2>1. CASE f = h \/ g = h
      BY <1>1, <2>1
  <2>2. CASE f # h /\ g # h
    <3>1. who[f] \in overlap /\ who[f] \in Users
        BY <1>1, <2>2 DEF Alone, TypeOK
    <3> QED BY <1>1, <2>2, <3>1
  <2> QED BY <2>1, <2>2
<1>4. Silent'
  <2> SUFFICES ASSUME NEW g \in Handlers, at'[g] # "idle", who'[g] \notin overlap'
               PROVE  told'[who'[g]] = "none"
      BY DEF Silent
  <2>1. CASE who'[g] = u
      BY <1>1, <2>1
  <2>2. CASE who'[g] # u
      BY <1>1, <2>2 DEF Silent, TypeOK
  <2> QED BY <2>1, <2>2
<1>5. WillBeTrue'
  <2> SUFFICES ASSUME NEW g \in Handlers, at'[g] \in {"call", "reply"}, who'[g] \notin overlap'
               PROVE  answer'[g] <=> who'[g] \in Members(subscribers')
      BY DEF WillBeTrue
  <2>1. g # h /\ at[g] = at'[g] /\ who'[g] = who[g] /\ who[g] \in Users
      BY <1>1 DEF TypeOK
  <2>2. who[g] # u
      BY <1>1, <2>1
  <2>3. who[g] \notin overlap
      BY <1>1, <2>1, <2>2
  <2>4. answer[g] <=> who[g] \in Members(subscribers)
      BY <2>1, <2>3 DEF WillBeTrue
  <2> QED BY <1>1, <2>1, <2>4 DEF store
<1>6. OnDisk'
    BY <1>1 DEF Arrives, store, OnDisk
<1>7. AnswerTrue'
  <2> SUFFICES ASSUME NEW v \in Users \ overlap', told'[v] # "none"
               PROVE  (told'[v] = "yes")
                        = (v \in Members(IF up' THEN subscribers' ELSE disk'))
      BY DEF AnswerTrue
  <2>1. v # u /\ told'[v] = told[v] /\ v \notin overlap
      BY <1>1
  <2> QED BY <1>1, <2>1 DEF AnswerTrue, store
<1>8. AskedForTheList' /\ Walks'
    BY <1>1 DEF store, AskedForTheList, Walks
<1> QED BY <1>2, <1>3, <1>4, <1>5, <1>6, <1>7, <1>8

\* A handler goes on or ends without an answer.
LEMMA MovesOnInv ==
    ASSUME IInv, NEW h \in Handlers, Dropped(h) \/ Called(h) \/ CallFails(h)
    PROVE  IInv'
<1> USE DEF IInv
<1>1. /\ UNCHANGED <<store, who, answer, alert, history>>
      /\ \A g \in Handlers \ {h} : at'[g] = at[g]
      /\ at[h] # "idle"
      /\ at'[h] = "idle" \/ (at[h] = "call" /\ at'[h] = "reply")
      /\ at' \in [Handlers -> {"idle", "decrypt", "call", "reply"}]
      /\ up
    BY DEF Dropped, Called, CallFails, TypeOK
<1>2. TypeOK'
    BY <1>1 DEF TypeOK, store, history
<1>3. Alone' /\ Silent'
    BY <1>1 DEF Alone, Silent, history
<1>4. WillBeTrue'
    BY <1>1 DEF WillBeTrue, store, history
<1>5. OnDisk' /\ AnswerTrue' /\ AskedForTheList' /\ Walks'
    BY <1>1 DEF OnDisk, AnswerTrue, AskedForTheList, Walks, store, history
<1> QED BY <1>2, <1>3, <1>4, <1>5

\* The user is told what is so.
LEMMA ReplyInv ==
    ASSUME IInv, NEW h \in Handlers, Reply(h)
    PROVE  IInv'
<1> USE DEF IInv
<1>1. /\ UNCHANGED <<store, who, answer, alert, overlap, unsaved, uncalled>>
      /\ \A g \in Handlers \ {h} : at'[g] = at[g]
      /\ at[h] = "reply" /\ at'[h] = "idle" /\ up
      /\ at' \in [Handlers -> {"idle", "decrypt", "call", "reply"}]
      /\ \A v \in Users \ {who[h]} : told'[v] = told[v]
      /\ \/ told' = told
         \/ told'[who[h]] = IF answer[h] THEN "yes" ELSE "no"
      /\ who \in [Handlers -> Users] /\ answer[h] \in BOOLEAN
    BY DEF Reply, TypeOK
<1>2. TypeOK'
  <2>1. told' \in [Users -> {"none", "yes", "no"}]
      BY DEF Reply, TypeOK
  <2> QED BY <1>1, <2>1 DEF TypeOK, store
<1>3. Alone'
    BY <1>1 DEF Alone
<1>4. Silent'
  <2> SUFFICES ASSUME NEW g \in Handlers, at'[g] # "idle", who[g] \notin overlap
               PROVE  told'[who[g]] = "none"
      BY <1>1 DEF Silent
  <2>1. g # h /\ who[g] # who[h] /\ who[g] \in Users
      BY <1>1 DEF Alone
  <2> QED BY <1>1, <2>1 DEF Silent
<1>5. WillBeTrue'
    BY <1>1 DEF WillBeTrue, store
<1>6. OnDisk'
    BY <1>1 DEF OnDisk, store
<1>7. AnswerTrue'
  <2> SUFFICES ASSUME NEW u \in Users \ overlap, told'[u] # "none"
               PROVE  (told'[u] = "yes") = (u \in Members(subscribers))
      BY <1>1 DEF AnswerTrue, store
  <2>1. CASE told'[u] = told[u]
      BY <1>1, <2>1 DEF AnswerTrue
  <2>2. CASE told'[u] # told[u]
    <3>1. u = who[h] /\ told'[u] = IF answer[h] THEN "yes" ELSE "no"
        BY <1>1, <2>2
    <3>2. answer[h] <=> u \in Members(subscribers)
        BY <1>1, <3>1 DEF WillBeTrue
    <3> QED BY <1>1, <3>1, <3>2
  <2> QED BY <2>1, <2>2
<1>8. AskedForTheList' /\ Walks'
    BY <1>1 DEF AskedForTheList, Walks, store
<1> QED BY <1>2, <1>3, <1>4, <1>5, <1>6, <1>7, <1>8

\* An alert is raised, copies the list, walks the copy, and may be cut short.
LEMMA AlertInv ==
    ASSUME IInv, NEW a \in Alerts,
           \/ Raised(a) \/ Begins(a) \/ \E own \in BOOLEAN : Awaited(a, own)
           \/ Sent(a) \/ Cut(a) \/ Finished(a)
    PROVE  IInv'
<1> USE DEF IInv
<1> DEFINE AlertType == [at : {"idle", "raised", "walking"}, own : BOOLEAN,
                         left : Seq(Users), audience : SUBSET Users, tried : SUBSET Users]
<1>1. UNCHANGED <<store, handling, history>>
    BY DEF Raised, Begins, Awaited, Sent, Cut, Finished
<1>2. NoAlert \in AlertType
    BY DEF NoAlert
<1>3. PICK new : /\ alert' = [alert EXCEPT ![a] = new] /\ new \in AlertType
                 /\ new.at = "walking" => new.audience = new.tried \cup Members(new.left)
  <2>1. CASE Raised(a)
    <3> DEFINE new == [NoAlert EXCEPT !.at = "raised", !.own = TRUE]
    <3>1. new \in AlertType /\ new.at = "raised"
        BY <1>2
    <3> HIDE DEF new
    <3>2. alert' = [alert EXCEPT ![a] = new]
        BY <2>1 DEF Raised, new
    <3> QED BY <3>1, <3>2
  <2>2. CASE Begins(a) /\ subscribers = <<>>
      BY <1>2, <2>2 DEF Begins, NoAlert
  <2>3. ASSUME NEW own \in BOOLEAN, alert' = [alert EXCEPT ![a] = Walk(own)]
        PROVE  /\ alert' = [alert EXCEPT ![a] = Walk(own)] /\ Walk(own) \in AlertType
               /\ Walk(own).audience = Walk(own).tried \cup Members(Walk(own).left)
    <3>1. subscribers \in Seq(Users) /\ Members(subscribers) \subseteq Users
        BY DEF TypeOK, Members
    <3> QED BY <2>3, <3>1 DEF Walk
  <2>4. CASE Sent(a)
    <3> DEFINE old == alert[a]
               new == [old EXCEPT !.left = Tail(old.left),
                                  !.tried = old.tried \cup {Head(old.left)}]
    <3>1. old \in AlertType /\ old.left # <<>> /\ old.left \in Seq(Users)
        BY <2>4 DEF Sent, TypeOK
    <3>2. /\ Tail(old.left) \in Seq(Users) /\ Head(old.left) \in Users
          /\ Members(old.left) = {Head(old.left)} \cup Members(Tail(old.left))
      <4> DEFINE s == old.left
      <4>1. s \in Seq(Users) /\ s # <<>>
          BY <3>1
      <4> HIDE DEF s
      <4>2. /\ Tail(s) \in Seq(Users) /\ Head(s) = s[1] /\ Head(s) \in Users
            /\ Len(s) \in Nat /\ Len(s) >= 1 /\ Len(Tail(s)) = Len(s) - 1
            /\ \A i \in 1..(Len(s) - 1) : Tail(s)[i] = s[i + 1]
            /\ DOMAIN s = 1..Len(s) /\ DOMAIN Tail(s) = 1..(Len(s) - 1)
          BY <4>1
      <4>3. ASSUME NEW v \in Members(s)
            PROVE  v \in {Head(s)} \cup Members(Tail(s))
        <5>1. PICK i \in 1..Len(s) : v = s[i]
            BY <4>2 DEF Members
        <5>2. CASE i = 1
            BY <4>2, <5>1, <5>2
        <5>3. CASE i # 1
          <6>1. i - 1 \in 1..(Len(s) - 1) /\ (i - 1) + 1 = i
              BY <4>2, <5>3
          <6>2. Tail(s)[i - 1] = v
              BY <4>2, <5>1, <6>1
          <6> QED BY <4>2, <6>1, <6>2 DEF Members
        <5> QED BY <5>2, <5>3
      <4>4. {Head(s)} \cup Members(Tail(s)) \subseteq Members(s)
          BY <4>2 DEF Members
      <4> QED BY <4>2, <4>3, <4>4 DEF s
    <3>3. alert' = [alert EXCEPT ![a] = new]
        BY <2>4, <3>1 DEF Sent, Left, TypeOK
    <3>4. old.at = "walking" /\ old.audience = old.tried \cup Members(old.left)
        BY <2>4 DEF Sent, Walks
    <3> HIDE DEF old
    <3>5. new \in AlertType
        BY <3>1, <3>2
    <3>6. /\ new.left = Tail(old.left) /\ new.audience = old.audience
          /\ new.tried = old.tried \cup {Head(old.left)}
        BY <3>1
    <3>7. new.audience = new.tried \cup Members(new.left)
        BY <3>2, <3>4, <3>6
    <3> HIDE DEF new
    <3> QED BY <3>3, <3>5, <3>7
  <2>5. CASE Cut(a) \/ Finished(a)
      BY <1>2, <2>5 DEF Cut, Finished, NoAlert
  <2>6. CASE (Begins(a) /\ subscribers # <<>>) \/ \E own \in BOOLEAN : Awaited(a, own)
      BY <2>3, <2>6 DEF Begins, Awaited
  <2> QED BY <2>1, <2>2, <2>4, <2>5, <2>6
<1>4. TypeOK'
    BY <1>1, <1>3 DEF TypeOK, store, handling, history
<1>5. Walks'
    BY <1>3 DEF Walks, TypeOK
<1>6. /\ Alone' /\ Silent' /\ WillBeTrue' /\ OnDisk' /\ AnswerTrue' /\ AskedForTheList'
    BY <1>1 DEF Alone, Silent, WillBeTrue, OnDisk, AnswerTrue, AskedForTheList,
                store, handling, history
<1> QED BY <1>4, <1>5, <1>6

\* The process ends, between two steps or within a save, and nothing is in hand.
LEMMA EndedInv ==
    ASSUME IInv, up, Ended,
           \/ UNCHANGED <<subscribers, disk>> /\ (~unsaved => UNCHANGED told)
                /\ (unsaved => Forgotten)
           \/ UNCHANGED subscribers /\ disk' = Torn /\ Forgotten
    PROVE  IInv'
<1> USE DEF IInv
<1>1. /\ ~up' /\ at' = [h \in Handlers |-> "idle"]
      /\ alert' = [a \in Alerts |-> NoAlert]
      /\ UNCHANGED <<subscribers, who, overlap>>
    BY DEF Ended
<1>2. told' \in [Users -> {"none", "yes", "no"}]
    BY DEF Forgotten, TypeOK
<1>3. alert' \in [Alerts -> [at : {"idle", "raised", "walking"}, own : BOOLEAN,
                             left : Seq(Users), audience : SUBSET Users, tried : SUBSET Users]]
    BY <1>1 DEF NoAlert
<1>4. TypeOK'
    BY <1>1, <1>2, <1>3 DEF Ended, TypeOK
<1>5. Alone' /\ Silent' /\ WillBeTrue'
    BY <1>1 DEF Alone, Silent, WillBeTrue
<1>6. OnDisk'
  <2>1. CASE told' = [u \in Users |-> "none"]
      BY <1>1, <2>1 DEF OnDisk
  <2>2. CASE UNCHANGED <<subscribers, disk>> /\ ~unsaved
    <3>1. disk' # Torn
        BY <2>2, SubscriptionsAssumption DEF OnDisk, TypeOK
    <3> QED BY <1>1, <3>1 DEF OnDisk
  <2> QED BY <2>1, <2>2 DEF Forgotten
<1>7. AnswerTrue'
  <2>1. CASE told' = [u \in Users |-> "none"]
      BY <2>1 DEF AnswerTrue
  <2>2. CASE UNCHANGED <<subscribers, disk, told>> /\ ~unsaved
      BY <1>1, <2>2 DEF OnDisk, AnswerTrue
  <2> QED BY <2>1, <2>2 DEF Forgotten
<1>8. AskedForTheList'
    BY <1>1 DEF AskedForTheList
<1>9. Walks'
    BY <1>1 DEF Walks, NoAlert
<1> QED BY <1>4, <1>5, <1>6, <1>7, <1>8, <1>9

\* The process starts, synchronises the orchestrator, ends, and its file is repaired.
LEMMA ProcessInv ==
    ASSUME IInv,
           Boot \/ Synced \/ Crash \/ Repaired \/ \E h \in Handlers : CrashInSave(h)
    PROVE  IInv'
<1>1. CASE Boot
  <2> USE DEF IInv
  <2>1. TypeOK'
      BY <1>1 DEF Boot, TypeOK, handling, history
  <2>2. Alone' /\ Silent' /\ WillBeTrue'
      BY <1>1 DEF Boot, Alone, Silent, WillBeTrue, OnDisk, handling, history
  <2>3. OnDisk' /\ AnswerTrue' /\ AskedForTheList' /\ Walks'
      BY <1>1 DEF Boot, OnDisk, AnswerTrue, AskedForTheList, Walks, history
  <2> QED BY <2>1, <2>2, <2>3
<1>2. CASE Synced
  <2> USE DEF IInv
  <2>1. TypeOK'
      BY <1>2 DEF Synced, TypeOK, handling
  <2>2. Alone' /\ Silent' /\ WillBeTrue'
      BY <1>2 DEF Synced, Alone, Silent, WillBeTrue, handling
  <2>3. OnDisk' /\ AnswerTrue' /\ AskedForTheList' /\ Walks'
      BY <1>2 DEF Synced, OnDisk, AnswerTrue, AskedForTheList, Walks, handling
  <2> QED BY <2>1, <2>2, <2>3
<1>3. CASE Crash
    BY <1>3, EndedInv DEF Crash
<1>4. CASE Repaired
  <2> USE DEF IInv
  <2>1. disk' \in Seq(Users) /\ Distinct(disk') /\ told = [u \in Users |-> "none"]
      BY <1>4, ListType DEF Repaired, OnDisk
  <2>2. TypeOK'
      BY <1>4, <2>1 DEF Repaired, TypeOK, handling, history
  <2>3. Alone' /\ Silent' /\ WillBeTrue'
      BY <1>4 DEF Repaired, Alone, Silent, WillBeTrue, handling, history
  <2>4. OnDisk' /\ AnswerTrue'
      BY <1>4, <2>1 DEF Repaired, OnDisk, AnswerTrue, handling, history
  <2>5. AskedForTheList' /\ Walks'
      BY <1>4 DEF Repaired, AskedForTheList, Walks
  <2> QED BY <2>2, <2>3, <2>4, <2>5
<1>5. ASSUME NEW h \in Handlers, CrashInSave(h)
      PROVE  IInv'
    BY <1>5, EndedInv DEF CrashInSave
<1> QED BY <1>1, <1>2, <1>3, <1>4, <1>5

\* Every step keeps the invariant.
LEMMA StepInv == IInv /\ [Next]_vars => IInv'
<1> SUFFICES ASSUME IInv, [Next]_vars
             PROVE  IInv'
    OBVIOUS
<1>1. CASE UNCHANGED vars
    BY <1>1 DEF vars, store, handling, history, IInv, TypeOK, Alone, Silent, WillBeTrue,
                OnDisk, AnswerTrue, AskedForTheList, Walks
<1> QED BY <1>1, ArrivesInv, MovesOnInv, CommandInv, ReplyInv, AlertInv, ProcessInv
        DEF Next

\* The invariant holds in every reachable state.
LEMMA Invariance == Spec => []IInv
<1> QED BY InitInv, StepInv, PTL DEF Spec

-----------------------------------------------------------------------------
\* The list, in memory and in the file, holds nobody twice, and every variable
\* keeps its type, for any number of users, messages and alerts.
THEOREM TypeCorrect == Spec => []TypeOK
<1>1. IInv => TypeOK
    BY DEF IInv
<1> QED BY <1>1, Invariance, PTL

\* A user whose messages were not handled at the same time has been told the truth,
\* and it stays true over crashes and restarts.
THEOREM Truthful == Spec => []AnswerTrue
<1>1. IInv => AnswerTrue
    BY DEF IInv
<1> QED BY <1>1, Invariance, PTL

\* However commands overlap, the orchestrator is asked to monitor exactly if
\* somebody is subscribed.
THEOREM Asked == Spec => []AskedForTheList
<1>1. IInv => AskedForTheList
    BY DEF IInv
<1> QED BY <1>1, Invariance, PTL

\* A walk in a task of its own that ends has tried everybody: no other step than its
\* last one ends it while the process runs.
LEMMA EndsTried ==
    ASSUME IInv, [Next]_vars, up', NEW a \in Alerts,
           alert[a].at = "walking", alert[a].own, alert'[a].at # "walking"
    PROVE  alert[a].tried = alert[a].audience
<1>1. \E b \in Alerts :
        \/ Raised(b) \/ Begins(b) \/ \E own \in BOOLEAN : Awaited(b, own)
        \/ Sent(b) \/ Cut(b) \/ Finished(b)
  <2>1. alert' # alert
      OBVIOUS
  <2>2. ~Boot /\ ~Synced /\ ~Crash /\ ~Repaired
      BY <2>1 DEF Boot, Synced, Crash, Repaired, Ended, history, handling
  <2>3. ASSUME NEW h \in Handlers
        PROVE  /\ \A u \in Users : ~Arrives(h, u)
               /\ ~Dropped(h) /\ ~_handle_start(h) /\ ~_handle_stop(h) /\ ~CrashInSave(h)
               /\ ~Called(h) /\ ~CallFails(h) /\ ~Reply(h)
      BY <2>1 DEF Arrives, Dropped, _handle_start, _handle_stop, CrashInSave, Ended,
                  Called, CallFails, Reply
  <2> QED BY <2>1, <2>2, <2>3 DEF Next, vars
<1>2. PICK b \in Alerts :
        \/ Raised(b) \/ Begins(b) \/ \E own \in BOOLEAN : Awaited(b, own)
        \/ Sent(b) \/ Cut(b) \/ Finished(b)
    BY <1>1
<1>3. alert \in [Alerts -> [at : {"idle", "raised", "walking"}, own : BOOLEAN,
                            left : Seq(Users), audience : SUBSET Users,
                            tried : SUBSET Users]]
    BY DEF IInv, TypeOK
<1>4. a = b
    BY <1>2, <1>3 DEF Raised, Begins, Awaited, Sent, Cut, Finished
<1>5. ~Sent(a)
    BY <1>3 DEF Sent
<1>6. Finished(a)
    BY <1>2, <1>4, <1>5 DEF Raised, Begins, Awaited, Cut
<1>7. Members(alert[a].left) = {}
    BY <1>6 DEF Finished, Members
<1> QED BY <1>7 DEF IInv, Walks

\* The alerts of thresholds and of valve notifications pass over nobody who was
\* subscribed when their sending began, for any number of users and alerts.
THEOREM Tried == Spec => EveryoneTried
<1>1. IInv /\ [Next]_vars =>
        [\A a \in Alerts :
            alert[a].at = "walking" /\ alert[a].own /\ alert'[a].at # "walking" /\ up'
                => alert[a].tried = alert[a].audience]_vars
    BY EndsTried
<1> QED BY <1>1, Invariance, PTL DEF Spec, EveryoneTried
=============================================================================
