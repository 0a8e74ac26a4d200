----------------------------- MODULE QueueProofs -----------------------------
(***************************************************************************)
(* Proofs about the two kinds of queues: the message broker inside the     *)
(* program, PubSub, for every set of events and callbacks, every number of *)
(* messages and subscription changes, and whether or not a callback may    *)
(* raise or hang; and the connectors of Kafka and of files,                *)
(* QueueConnector, for every limit, window, log, number of reads, clients  *)
(* and faults.                                                             *)
(***************************************************************************)
EXTENDS PubSub, QueueConnector, TLAPS, FiniteSetTheorems, SequenceTheorems, WellFoundedInduction

(***************************************************************************)
(* PubSub.                                                                 *)
(***************************************************************************)

-----------------------------------------------------------------------------
(* What unsubscribing leaves of a list.                                    *)

(* A set of naturals that is not empty has a least element.                *)
LEMMA LeastNat ==
  ASSUME NEW S \in SUBSET Nat, S # {}
  PROVE  \E n \in S : \A m \in S : n <= m
<1> DEFINE R == OpToRel(<, Nat)
<1>1. IsWellFoundedOn(R, Nat)
  BY NatLessThanWellFounded
<1>2. \A m, n \in Nat : m < n => <<m, n>> \in R
  BY DEF OpToRel
<1> HIDE DEF R
<1>3. \E n \in S : \A m \in S : ~(<<m, n>> \in R)
  <2>1. S \subseteq Nat
    OBVIOUS
  <2> QED
    BY <1>1, <2>1, WFMin
<1>4. PICK n \in S : \A m \in S : ~(<<m, n>> \in R)
  BY <1>3
<1>5. \A m \in S : n <= m
  <2> SUFFICES ASSUME NEW m \in S PROVE n <= m
    OBVIOUS
  <2>1. m \in Nat /\ n \in Nat /\ ~(m < n)
    BY <1>2, <1>4
  <2> QED
    BY <2>1
<1> QED
  BY <1>5

(* The function by which Without is defined exists: take the least length  *)
(* for which it would not, and extend the function of the one before.      *)
LEMMA WithoutSteps ==
  ASSUME NEW s \in Seq(Callback), NEW c
  PROVE  \E f : /\ Without(s, c) = f[Len(s)]
                /\ f[0] = <<>>
                /\ \A i \in 1 .. Len(s) :
                     f[i] = IF s[i] = c THEN f[i - 1] ELSE Append(f[i - 1], s[i])
<1> DEFINE Def(f, n) == f = [i \in 0 .. n |->
             IF i = 0 THEN <<>>
             ELSE IF s[i] = c THEN f[i - 1] ELSE Append(f[i - 1], s[i])]
           Has(n) == \E f : Def(f, n)
           Bad == {n \in Nat : n <= Len(s) /\ ~Has(n)}
           kept == CHOOSE f : Def(f, Len(s))
<1>1. Len(s) \in Nat
  OBVIOUS
<1>2. Has(0)
  <2>1. Def([i \in 0 .. 0 |-> <<>>], 0)
    OBVIOUS
  <2> QED
    BY <2>1
<1>3. ASSUME NEW n \in 1 .. Len(s), Has(n - 1) PROVE Has(n)
  <2>1. PICK f : Def(f, n - 1)
    BY <1>3
  <2>2. n # 0 /\ n \in Nat /\ n - 1 \in Nat
    BY <1>1
  <2>3. \A i \in 0 .. n - 1 : f[i] = IF i = 0 THEN <<>>
             ELSE IF s[i] = c THEN f[i - 1] ELSE Append(f[i - 1], s[i])
    BY <2>1
  <2> DEFINE g == [i \in 0 .. n |->
               IF i = n THEN IF s[n] = c THEN f[n - 1] ELSE Append(f[n - 1], s[n])
               ELSE f[i]]
  <2>4. \A i \in 0 .. n : g[i] = IF i = 0 THEN <<>>
             ELSE IF s[i] = c THEN g[i - 1] ELSE Append(g[i - 1], s[i])
    <3> SUFFICES ASSUME NEW i \in 0 .. n
                 PROVE  g[i] = IF i = 0 THEN <<>>
                          ELSE IF s[i] = c THEN g[i - 1] ELSE Append(g[i - 1], s[i])
      OBVIOUS
    <3>1. CASE i = n
      <4>1. g[n - 1] = f[n - 1]
        BY <2>2
      <4> QED
        BY <2>2, <3>1, <4>1
    <3>2. CASE i # n
      <4>1. i \in 0 .. n - 1 /\ g[i] = f[i]
        BY <2>2, <3>2
      <4>2. i # 0 => g[i - 1] = f[i - 1]
        BY <2>2, <3>2
      <4> HIDE DEF g
      <4> QED
        BY <2>3, <4>1, <4>2
    <3> QED
      BY <3>1, <3>2
  <2>5. Def(g, n)
    <3>1. g = [i \in 0 .. n |-> g[i]]
      OBVIOUS
    <3> HIDE DEF g
    <3> QED
      BY <2>4, <3>1
  <2> QED
    BY <2>5
<1> HIDE DEF Has
<1>4. ASSUME Bad # {} PROVE FALSE
  <2>1. PICK n \in Bad : \A m \in Bad : n <= m
    <3>1. Bad \in SUBSET Nat
      OBVIOUS
    <3> QED
      BY <1>4, <3>1, LeastNat
  <2>2. n \in 1 .. Len(s) /\ n - 1 \in Nat /\ n - 1 < n
    BY <1>2
  <2>3. n - 1 \notin Bad
    BY <2>1, <2>2
  <2> QED
    BY <1>3, <2>1, <2>2, <2>3
<1>5. Has(Len(s))
  BY <1>1, <1>4
<1> HIDE DEF Def
<1>6. Def(kept, Len(s))
  BY <1>5 DEF Has
<1>7. Without(s, c) = kept[Len(s)]
  BY DEF Without, Def
<1> HIDE DEF kept
<1>8. \A i \in 0 .. Len(s) : kept[i] = IF i = 0 THEN <<>>
             ELSE IF s[i] = c THEN kept[i - 1] ELSE Append(kept[i - 1], s[i])
  BY <1>6 DEF Def
<1>9. \A i \in 1 .. Len(s) : i \in 0 .. Len(s) /\ i # 0
  BY <1>1
<1>10. kept[0] = <<>>
  BY <1>1, <1>8
<1> QED
  BY <1>7, <1>8, <1>9, <1>10

(* Appending an element.                                                   *)
LEMMA AddLast ==
  ASSUME NEW S, NEW s \in Seq(S), NEW m \in S
  PROVE  /\ Append(s, m) \in Seq(S) /\ Len(Append(s, m)) = Len(s) + 1
         /\ Append(s, m)[Len(s) + 1] = m
         /\ \A i \in 1 .. Len(s) : Append(s, m)[i] = s[i]
  OBVIOUS

(* Its elements, and the new one.                                          *)
LEMMA ElementsOfAppend ==
  ASSUME NEW S, NEW s \in Seq(S), NEW m \in S
  PROVE  Elements(Append(s, m)) = Elements(s) \cup {m}
<1>0. Append(s, m) \in Seq(S) /\ Len(s) \in Nat
  BY AddLast, LenProperties
<1>1. PICK t \in Seq(S), n \in Nat : t = Append(s, m) /\ n = Len(s)
  BY <1>0
<1>2. t[n + 1] = m /\ \A i \in 1 .. n : t[i] = s[i]
  BY <1>1, AddLast
<1>3. DOMAIN s = 1 .. n /\ DOMAIN t = 1 .. n + 1
  BY <1>1, AddLast, LenProperties
<1>4. 1 .. n + 1 = (1 .. n) \cup {n + 1}
  OBVIOUS
<1>5. Elements(t) = {t[i] : i \in 1 .. n} \cup {t[n + 1]}
  BY <1>3, <1>4 DEF Elements
<1>6. {t[i] : i \in 1 .. n} = Elements(s)
  BY <1>2, <1>3 DEF Elements
<1> QED
  BY <1>1, <1>2, <1>5, <1>6

(* Unsubscribing leaves a list of the callbacks that were on it, but for   *)
(* the one that was taken off.                                             *)
LEMMA WithoutKeepsOthers ==
  ASSUME NEW s \in Seq(Callback), NEW c
  PROVE  /\ Without(s, c) \in Seq(Callback)
         /\ Elements(Without(s, c)) = Elements(s) \ {c}
<1>1. PICK f : /\ Without(s, c) = f[Len(s)]
               /\ f[0] = <<>>
               /\ \A i \in 1 .. Len(s) :
                    f[i] = IF s[i] = c THEN f[i - 1] ELSE Append(f[i - 1], s[i])
  BY WithoutSteps
<1> DEFINE Good(i) == /\ f[i] \in Seq(Callback)
                      /\ Elements(f[i]) = {s[j] : j \in 1 .. i} \ {c}
           Bad == {i \in Nat : i <= Len(s) /\ ~Good(i)}
<1>2. Good(0)
  <2>1. 1 .. 0 = {} /\ DOMAIN <<>> = {}
    OBVIOUS
  <2> QED
    BY <1>1, <2>1 DEF Elements
<1>3. ASSUME NEW i \in 1 .. Len(s), Good(i - 1) PROVE Good(i)
  <2>1. s[i] \in Callback /\ i \in Nat /\ i - 1 \in Nat /\ i # 0 /\ f[i - 1] \in Seq(Callback)
    BY <1>3
  <2>2. {s[j] : j \in 1 .. i} = {s[j] : j \in 1 .. i - 1} \cup {s[i]}
    <3>1. 1 .. i = (1 .. i - 1) \cup {i}
      BY <2>1
    <3> QED
      BY <3>1
  <2>3. CASE s[i] = c
    <3>1. f[i] = f[i - 1]
      BY <1>1, <2>3
    <3> QED
      BY <1>3, <2>2, <2>3, <3>1
  <2>4. CASE s[i] # c
    <3>1. f[i] = Append(f[i - 1], s[i])
      BY <1>1, <2>4
    <3>2. Elements(f[i]) = Elements(f[i - 1]) \cup {s[i]}
      BY <2>1, <3>1, ElementsOfAppend
    <3>3. f[i] \in Seq(Callback)
      BY <2>1, <3>1
    <3> QED
      BY <1>3, <2>2, <2>4, <3>2, <3>3
  <2> QED
    BY <2>3, <2>4
<1> HIDE DEF Good
<1>4. ASSUME Bad # {} PROVE FALSE
  <2>1. PICK n \in Bad : \A m \in Bad : n <= m
    <3>1. Bad \in SUBSET Nat
      OBVIOUS
    <3> QED
      BY <1>4, <3>1, LeastNat
  <2>2. n \in 1 .. Len(s) /\ n - 1 \in Nat /\ n - 1 < n
    BY <1>2
  <2>3. n - 1 \notin Bad
    BY <2>1, <2>2
  <2>4. Good(n - 1)
    BY <2>2, <2>3
  <2> QED
    BY <1>3, <2>1, <2>2, <2>4
<1>5. Good(Len(s))
  BY <1>4
<1>6. {s[j] : j \in 1 .. Len(s)} = Elements(s)
  BY DEF Elements
<1> QED
  BY <1>1, <1>5, <1>6 DEF Good

-----------------------------------------------------------------------------
(* What the operations on the two queues and the lists do.                 *)

(* Taking the first element.                                               *)
LEMMA TakeFirst ==
  ASSUME NEW S, NEW s \in Seq(S), s # <<>>
  PROVE  /\ Len(s) \in Nat /\ Len(s) >= 1 /\ Head(s) = s[1] /\ s[1] \in S
         /\ Tail(s) \in Seq(S) /\ Len(Tail(s)) = Len(s) - 1
         /\ \A i \in 1 .. Len(s) - 1 : Tail(s)[i] = s[i + 1]
  OBVIOUS

(* A sequence of one element appended.                                     *)
LEMMA AddOne ==
  ASSUME NEW S, NEW s \in Seq(S), NEW t \in Seq(S), Len(t) = 1
  PROVE  s \o t = Append(s, t[1]) /\ t[1] \in S
<1>1. /\ s \o t \in Seq(S) /\ Len(s \o t) = Len(s) + 1
      /\ \A i \in 1 .. Len(s) + 1 : (s \o t)[i] = IF i <= Len(s) THEN s[i] ELSE t[i - Len(s)]
  <2>1. /\ s \o t \in Seq(S) /\ Len(s \o t) = Len(s) + Len(t)
        /\ \A i \in 1 .. Len(s) + Len(t) : (s \o t)[i] = IF i <= Len(s) THEN s[i] ELSE t[i - Len(s)]
    BY ConcatProperties
  <2> QED
    BY <2>1
<1>2. t[1] \in S
  BY ElementOfSeq
<1>3. Append(s, t[1]) \in Seq(S) /\ Len(Append(s, t[1])) = Len(s) + 1
  BY <1>2
<1>4. \A i \in 1 .. Len(s) + 1 : (s \o t)[i] = Append(s, t[1])[i]
  BY <1>1, <1>2, AddLast
<1> QED
  BY <1>1, <1>2, <1>3, <1>4, SeqEqual

(* The lists change so: one is made, of callbacks, or one grows at its end. *)
Made(s) == lists' = Append(lists, s)
Grown(k, c) == lists' = [lists EXCEPT ![k] = Append(@, c)]

(* A list that is there keeps its callbacks in their places.               *)
LEMMA ListsGrow ==
  ASSUME lists \in Seq(Seq(Callback)),
         \/ \E s \in Seq(Callback) : Made(s)
         \/ \E k \in 1 .. Len(lists), c \in Callback : Grown(k, c)
  PROVE  /\ lists' \in Seq(Seq(Callback)) /\ Len(lists') >= Len(lists)
         /\ \A k \in 1 .. Len(lists) :
              /\ lists'[k] \in Seq(Callback) /\ Len(lists'[k]) >= Len(lists[k])
              /\ \A i \in 1 .. Len(lists[k]) : lists'[k][i] = lists[k][i]
<1>1. Len(lists) \in Nat /\ \A k \in 1 .. Len(lists) : lists[k] \in Seq(Callback) /\ Len(lists[k]) \in Nat
  OBVIOUS
<1>2. ASSUME NEW s \in Seq(Callback), Made(s) PROVE
         /\ lists' \in Seq(Seq(Callback)) /\ Len(lists') = Len(lists) + 1
         /\ \A k \in 1 .. Len(lists) : lists'[k] = lists[k]
  BY <1>2, AddLast DEF Made
<1>3. ASSUME NEW k \in 1 .. Len(lists), NEW c \in Callback, Grown(k, c) PROVE
         /\ lists' \in Seq(Seq(Callback)) /\ Len(lists') = Len(lists)
         /\ lists'[k] = Append(lists[k], c)
         /\ \A j \in 1 .. Len(lists) : j # k => lists'[j] = lists[j]
  <2>1. Append(lists[k], c) \in Seq(Callback)
    BY <1>1
  <2> QED
    BY <1>3, <2>1 DEF Grown
<1>4. ASSUME NEW k \in 1 .. Len(lists), NEW c \in Callback PROVE
         /\ Append(lists[k], c) \in Seq(Callback) /\ Len(Append(lists[k], c)) = Len(lists[k]) + 1
         /\ \A i \in 1 .. Len(lists[k]) : Append(lists[k], c)[i] = lists[k][i]
  BY <1>1, AddLast
<1>5. CASE \E s \in Seq(Callback) : Made(s)
  <2>1. PICK s \in Seq(Callback) : Made(s)
    BY <1>5
  <2>2. /\ lists' \in Seq(Seq(Callback)) /\ Len(lists') = Len(lists) + 1
        /\ \A k \in 1 .. Len(lists) : lists'[k] = lists[k]
    BY <1>2, <2>1
  <2> QED
    BY <1>1, <2>2
<1>6. CASE \E k \in 1 .. Len(lists), c \in Callback : Grown(k, c)
  <2>1. PICK k \in 1 .. Len(lists), c \in Callback : Grown(k, c)
    BY <1>6
  <2>2. /\ lists' \in Seq(Seq(Callback)) /\ Len(lists') = Len(lists)
        /\ lists'[k] = Append(lists[k], c)
        /\ \A j \in 1 .. Len(lists) : j # k => lists'[j] = lists[j]
    BY <1>3, <2>1
  <2>3. /\ lists'[k] \in Seq(Callback) /\ Len(lists'[k]) >= Len(lists[k])
        /\ \A i \in 1 .. Len(lists[k]) : lists'[k][i] = lists[k][i]
    BY <1>1, <1>4, <2>2
  <2>4. ASSUME NEW j \in 1 .. Len(lists), j # k
        PROVE  /\ lists'[j] \in Seq(Callback) /\ Len(lists'[j]) >= Len(lists[j])
               /\ \A i \in 1 .. Len(lists[j]) : lists'[j][i] = lists[j][i]
    <3>1. lists'[j] = lists[j]
      BY <2>2, <2>4
    <3>2. lists[j] \in Seq(Callback) /\ Len(lists[j]) \in Nat
      BY <1>1
    <3> QED
      BY <3>1, <3>2
  <2>5. Len(lists') >= Len(lists)
    BY <1>1, <2>2
  <2> QED
    BY <2>2, <2>3, <2>4, <2>5
<1> QED
  BY <1>5, <1>6

(* What a change of the subscriptions does.                                *)
SubNext == \E e \in Event, c \in Callback : Subscribe(e, c) \/ Unsubscribe(e, c)

ListsKept ==
  /\ lists' \in Seq(Seq(Callback)) /\ Len(lists') >= Len(lists)
  /\ \A k \in 1 .. Len(lists) :
       /\ lists'[k] \in Seq(Callback) /\ Len(lists'[k]) >= Len(lists[k])
       /\ \A i \in 1 .. Len(lists[k]) : lists'[k][i] = lists[k][i]

LEMMA SubEffect ==
  ASSUME TypeOK, SubNext
  PROVE  /\ ListsKept
         /\ subs' \in [Event -> 0 .. Len(lists')] /\ changes' \in 0 .. MaxChanges
         /\ UNCHANGED <<callerVars, queueVars, workerVars, listenerVars, published>>
<1>1. lists \in Seq(Seq(Callback)) /\ subs \in [Event -> 0 .. Len(lists)] /\ Len(lists) \in Nat
  BY DEF TypeOK
<1>2. PICK e \in Event, c \in Callback : Subscribe(e, c) \/ Unsubscribe(e, c)
  BY DEF SubNext
<1>3. /\ changes' \in 0 .. MaxChanges
      /\ UNCHANGED <<callerVars, queueVars, workerVars, listenerVars, published>>
  <2>1. changes < MaxChanges /\ changes' = changes + 1 /\ changes \in Nat /\ MaxChanges \in Nat
    BY <1>2, BoundAssumption DEF Subscribe, Unsubscribe, TypeOK
  <2> QED
    BY <1>2, <2>1 DEF Subscribe, Unsubscribe
<1>4. CASE subs[e] = 0
  <2>1. <<c>> \in Seq(Callback)
    OBVIOUS
  <2>2. Made(<<c>>) /\ subs' = [subs EXCEPT ![e] = Len(lists) + 1]
    BY <1>2, <1>4 DEF Subscribe, Unsubscribe, Made
  <2>3. Len(lists') = Len(lists) + 1
    BY <1>1, <2>1, <2>2 DEF Made
  <2>4. subs' \in [Event -> 0 .. Len(lists')]
    BY <1>1, <2>2, <2>3
  <2>5. ListsKept
    BY <1>1, <2>1, <2>2, ListsGrow DEF ListsKept
  <2> QED
    BY <1>3, <2>4, <2>5
<1>5. CASE subs[e] # 0 /\ Subscribe(e, c)
  <2>1. Grown(subs[e], c) /\ subs' = subs /\ subs[e] \in 1 .. Len(lists)
    BY <1>1, <1>5 DEF Subscribe, Grown
  <2>2. ListsKept
    BY <1>1, <2>1, ListsGrow DEF ListsKept
  <2>3. subs' \in [Event -> 0 .. Len(lists')]
    BY <1>1, <2>1, <2>2 DEF ListsKept
  <2> QED
    BY <1>3, <2>2, <2>3
<1>6. CASE subs[e] # 0 /\ Unsubscribe(e, c)
  <2>1. lists[subs[e]] \in Seq(Callback)
    BY <1>1, <1>6
  <2>2. PICK s \in Seq(Callback) : s = Without(lists[subs[e]], c)
    BY <2>1, WithoutKeepsOthers
  <2>3. Made(s) /\ subs' = [subs EXCEPT ![e] = Len(lists) + 1]
    BY <1>6, <2>2 DEF Unsubscribe, Made
  <2>4. Len(lists') = Len(lists) + 1
    BY <1>1, <2>3 DEF Made
  <2>5. subs' \in [Event -> 0 .. Len(lists')]
    BY <1>1, <2>3, <2>4
  <2>6. ListsKept
    BY <1>1, <2>3, ListsGrow DEF ListsKept
  <2> QED
    BY <1>3, <2>5, <2>6
<1> QED
  BY <1>2, <1>4, <1>5, <1>6

-----------------------------------------------------------------------------
(* The inductive invariant.                                                *)

(* The worker holds a message only between the two queues.                 *)
HandInv == Len(hand) <= 1 /\ (wpc \in {"new", "get", "done"} => hand = <<>>)

(* Messages the worker has passed on.                                      *)
Passed == Len(dispatched) + Len(messageQ)

(* What was published is what was dispatched, then what waits in the       *)
(* message channel, then what the worker holds, then the publish channel.  *)
FifoInv ==
  /\ Len(published) = Passed + Len(hand) + Len(publishQ)
  /\ \A i \in 1 .. Len(dispatched) : dispatched[i] = published[i]
  /\ \A i \in 1 .. Len(messageQ) : messageQ[i] = published[Len(dispatched) + i]
  /\ \A i \in 1 .. Len(hand) : hand[i] = published[Passed + i]
  /\ \A i \in 1 .. Len(publishQ) : publishQ[i] = published[Passed + Len(hand) + i]

(* The worker passes nothing on after an end.                              *)
EndInv == \A i \in 1 .. Passed : published[i].last => i = Passed /\ wpc = "done"

(* Nothing is published before both threads run, and the worker starts     *)
(* with nothing behind it.                                                 *)
StartInv ==
  /\ mpc \in {"initialize", "startWorker", "startListener"} => published = <<>>
  /\ mpc \in {"initialize", "startWorker"} => wpc = "new"

(* The listener handles what it dispatched last, and ends at an end.       *)
TurnInv ==
  /\ lpc = "dispatch" => Len(dispatched) > 0 /\ task[1] = dispatched[Len(dispatched)]
  /\ lpc = "done" => Len(dispatched) > 0 /\ dispatched[Len(dispatched)].last

(* A join that was in time found its thread at an end.                     *)
JoinInv == mpc \in {"close", "closed"} /\ ~overdue => Ended(lpc)

(* In the middle of a round: the list that is iterated still has everyone  *)
(* who was subscribed, and those before pos have been called.              *)
RoundInv == lpc = "dispatch" =>
  /\ owed \subseteq Elements(Iterated)
  /\ \A i \in 1 .. pos : Iterated[i] \in served

IInv == TypeOK /\ HandInv /\ FifoInv /\ EndInv /\ StartInv /\ TurnInv /\ JoinInv /\ RoundInv

-----------------------------------------------------------------------------
(* Publishing puts a new message at the end of the publish channel.        *)
PutOne == \E m \in Message : publishQ' = Append(publishQ, m) /\ published' = Append(published, m)

LEMMA PutEffect ==
  ASSUME TypeOK, NEW e \in Event, NEW last \in BOOLEAN, Put(e, last)
  PROVE  PutOne
<1>1. Len(published) \in Nat /\ Len(published) < MaxMessages /\ MaxMessages \in Nat
  BY BoundAssumption DEF TypeOK, Put
<1>2. [no |-> Len(published) + 1, event |-> e, last |-> last] \in Message
  BY <1>1 DEF Message
<1> QED
  BY <1>2 DEF Put, PutOne

LEMMA PutKeeps ==
  ASSUME IInv, PutOne, UNCHANGED <<messageQ, hand, dispatched, wpc>>
  PROVE  /\ publishQ' \in Seq(Message) /\ published' \in Seq(Message)
         /\ FifoInv' /\ EndInv'
<1>1. PICK m \in Message : publishQ' = Append(publishQ, m) /\ published' = Append(published, m)
  BY DEF PutOne
<1>2. /\ publishQ \in Seq(Message) /\ published \in Seq(Message) /\ messageQ \in Seq(Message)
      /\ hand \in Seq(Message) /\ dispatched \in Seq(Message)
  BY DEF IInv, TypeOK
<1>3. /\ publishQ' \in Seq(Message) /\ published' \in Seq(Message)
      /\ Len(publishQ') = Len(publishQ) + 1 /\ Len(published') = Len(published) + 1
      /\ publishQ'[Len(publishQ) + 1] = m /\ published'[Len(published) + 1] = m
      /\ \A i \in 1 .. Len(publishQ) : publishQ'[i] = publishQ[i]
      /\ \A i \in 1 .. Len(published) : published'[i] = published[i]
  BY <1>1, <1>2, AddLast
<1>4. /\ Len(publishQ) \in Nat /\ Len(published) \in Nat /\ Len(messageQ) \in Nat
      /\ Len(hand) \in Nat /\ Len(dispatched) \in Nat
  BY <1>2
<1>5. Len(published) = Passed + Len(hand) + Len(publishQ) /\ Passed \in Nat /\ Passed' = Passed
  BY <1>4 DEF IInv, FifoInv, Passed
<1>6. EndInv'
  BY <1>3, <1>4, <1>5 DEF IInv, EndInv
<1>7. Len(published)' = (Passed + Len(hand) + Len(publishQ))'
  BY <1>3, <1>4, <1>5
<1>10. /\ \A i \in 1 .. Len(dispatched) : dispatched[i] = published[i]
       /\ \A i \in 1 .. Len(messageQ) : messageQ[i] = published[Len(dispatched) + i]
       /\ \A i \in 1 .. Len(hand) : hand[i] = published[Passed + i]
       /\ \A i \in 1 .. Len(publishQ) : publishQ[i] = published[Passed + Len(hand) + i]
       /\ Passed = Len(dispatched) + Len(messageQ)
  BY DEF IInv, FifoInv, Passed
<1>8. /\ \A i \in 1 .. Len(dispatched) : dispatched[i] = published'[i]
      /\ \A i \in 1 .. Len(messageQ) : messageQ[i] = published'[Len(dispatched) + i]
      /\ \A i \in 1 .. Len(hand) : hand[i] = published'[Passed + i]
  <2>1. ASSUME NEW i \in 1 .. Len(dispatched) PROVE dispatched[i] = published'[i]
    <3>1. i \in 1 .. Len(published)
      BY <1>4, <1>5, <1>10
    <3> QED
      BY <1>3, <1>10, <3>1
  <2>2. ASSUME NEW i \in 1 .. Len(messageQ) PROVE messageQ[i] = published'[Len(dispatched) + i]
    <3>1. Len(dispatched) + i \in 1 .. Len(published)
      BY <1>4, <1>5, <1>10
    <3> QED
      BY <1>3, <1>10, <3>1
  <2>3. ASSUME NEW i \in 1 .. Len(hand) PROVE hand[i] = published'[Passed + i]
    <3>1. Passed + i \in 1 .. Len(published)
      BY <1>4, <1>5
    <3> QED
      BY <1>3, <1>10, <3>1
  <2> QED
    BY <2>1, <2>2, <2>3
<1>9. ASSUME NEW i \in 1 .. Len(publishQ') PROVE publishQ'[i] = published'[Passed + Len(hand) + i]
  <2>1. CASE i <= Len(publishQ)
    <3>1. i \in 1 .. Len(publishQ) /\ Passed + Len(hand) + i \in 1 .. Len(published)
      BY <1>3, <1>4, <1>5, <2>1
    <3> QED
      BY <1>3, <1>10, <3>1
  <2>2. CASE i = Len(publishQ) + 1
    BY <1>3, <1>4, <1>5, <2>2
  <2> QED
    BY <1>3, <1>4, <2>1, <2>2
<1> QED
  BY <1>3, <1>5, <1>6, <1>7, <1>8, <1>9 DEF FifoInv

(* Nothing moves in the queues.                                            *)
LEMMA QuietKeeps ==
  ASSUME IInv, UNCHANGED <<publishQ, messageQ, hand, dispatched, published>>,
         wpc = "done" => wpc' = "done"
  PROVE  FifoInv' /\ EndInv'
<1>1. Passed' = Passed
  BY DEF Passed
<1> QED
  BY <1>1 DEF IInv, FifoInv, EndInv

(* The worker takes the first message of the publish channel.              *)
LEMMA TakeKeeps ==
  ASSUME IInv, WorkerGet
  PROVE  /\ publishQ' \in Seq(Message) /\ hand' \in Seq(Message) /\ Len(hand') = 1
         /\ FifoInv' /\ EndInv'
<1>1. /\ publishQ \in Seq(Message) /\ published \in Seq(Message) /\ messageQ \in Seq(Message)
      /\ dispatched \in Seq(Message) /\ hand = <<>> /\ publishQ # <<>> /\ Len(hand) = 0
  BY DEF IInv, TypeOK, HandInv, WorkerGet
<1>2. /\ publishQ' = Tail(publishQ) /\ hand' = <<publishQ[1]>> /\ publishQ[1] \in Message
      /\ publishQ' \in Seq(Message) /\ Len(publishQ') = Len(publishQ) - 1
      /\ Len(publishQ) \in Nat /\ Len(publishQ) >= 1
      /\ \A i \in 1 .. Len(publishQ) - 1 : publishQ'[i] = publishQ[i + 1]
  BY <1>1, TakeFirst DEF WorkerGet
<1>3. hand' \in Seq(Message) /\ Len(hand') = 1 /\ hand'[1] = publishQ[1]
  BY <1>2
<1>4. Len(published) \in Nat /\ Len(messageQ) \in Nat /\ Len(dispatched) \in Nat
  BY <1>1
<1>5. Passed \in Nat /\ Passed' = Passed /\ UNCHANGED <<published, messageQ, dispatched>>
  BY <1>4 DEF Passed, WorkerGet, subVars, callerVars, listenerVars
<1>6. EndInv'
  BY <1>5 DEF IInv, EndInv, WorkerGet
<1>7. Len(published) = Passed + Len(publishQ)
  BY <1>1, <1>2, <1>5 DEF IInv, FifoInv
<1>8. \A i \in 1 .. Len(publishQ) : publishQ[i] = published[Passed + i]
  BY <1>1, <1>2, <1>5 DEF IInv, FifoInv
<1>9. Len(published)' = (Passed + Len(hand) + Len(publishQ))'
  BY <1>2, <1>3, <1>5, <1>7
<1>10. \A i \in 1 .. Len(hand') : hand'[i] = published[Passed + i]
  BY <1>2, <1>3, <1>8
<1>11. \A i \in 1 .. Len(publishQ') : publishQ'[i] = published[Passed + Len(hand') + i]
  <2> SUFFICES ASSUME NEW i \in 1 .. Len(publishQ')
               PROVE  publishQ'[i] = published[Passed + Len(hand') + i]
    OBVIOUS
  <2>1. i \in 1 .. Len(publishQ) - 1 /\ i + 1 \in 1 .. Len(publishQ)
    BY <1>2
  <2>2. publishQ'[i] = published[Passed + (i + 1)]
    BY <1>2, <1>8, <2>1
  <2>3. Passed + (i + 1) = Passed + Len(hand') + i
    BY <1>3, <1>5, <2>1
  <2> QED
    BY <2>2, <2>3
<1> QED
  BY <1>2, <1>3, <1>5, <1>6, <1>9, <1>10, <1>11 DEF IInv, FifoInv

(* The worker passes on the message it holds.                              *)
LEMMA PassKeeps ==
  ASSUME IInv, WorkerPut
  PROVE  messageQ' \in Seq(Message) /\ FifoInv' /\ EndInv'
<1>1. /\ publishQ \in Seq(Message) /\ published \in Seq(Message) /\ messageQ \in Seq(Message)
      /\ dispatched \in Seq(Message) /\ hand \in Seq(Message) /\ Len(hand) = 1
  BY DEF IInv, TypeOK, HandInv, WorkerPut
<1>2. /\ messageQ' = Append(messageQ, hand[1]) /\ hand[1] \in Message /\ hand' = <<>>
  BY <1>1, AddOne DEF WorkerPut
<1>3. /\ messageQ' \in Seq(Message) /\ Len(messageQ') = Len(messageQ) + 1
      /\ messageQ'[Len(messageQ) + 1] = hand[1] /\ Len(hand') = 0
      /\ \A i \in 1 .. Len(messageQ) : messageQ'[i] = messageQ[i]
  BY <1>1, <1>2, AddLast
<1>4. /\ Len(published) \in Nat /\ Len(messageQ) \in Nat /\ Len(dispatched) \in Nat
      /\ Len(publishQ) \in Nat
  BY <1>1
<1>5. /\ Passed \in Nat /\ Passed' = Passed + 1 /\ Passed = Len(dispatched) + Len(messageQ)
      /\ UNCHANGED <<published, publishQ, dispatched>>
  BY <1>3, <1>4 DEF Passed, WorkerPut, subVars, callerVars, listenerVars
<1>6. hand[1] = published[Passed + 1] /\ Len(published) = Passed + 1 + Len(publishQ)
  BY <1>1 DEF IInv, FifoInv
<1>7. EndInv'
  <2> SUFFICES ASSUME NEW i \in 1 .. Passed + 1, published[i].last
               PROVE  i = Passed + 1 /\ wpc' = "done"
    BY <1>5 DEF EndInv
  <2>1. \A j \in 1 .. Passed : ~published[j].last
    BY DEF IInv, EndInv, WorkerPut
  <2>2. i = Passed + 1
    BY <1>5, <2>1
  <2> QED
    BY <1>6, <2>2 DEF WorkerPut
<1>8. Len(published)' = (Passed + Len(hand) + Len(publishQ))'
  BY <1>3, <1>4, <1>5, <1>6
<1>9. ASSUME NEW i \in 1 .. Len(messageQ') PROVE messageQ'[i] = published[Len(dispatched) + i]
  <2>1. CASE i <= Len(messageQ)
    BY <1>3, <1>4, <2>1 DEF IInv, FifoInv
  <2>2. CASE i = Len(messageQ) + 1
    BY <1>3, <1>4, <1>5, <1>6, <2>2
  <2> QED
    BY <1>3, <1>4, <2>1, <2>2
<1>10. \A i \in 1 .. Len(publishQ) : publishQ[i] = published[Passed + Len(hand) + i]
  BY DEF IInv, FifoInv
<1>11. \A i \in 1 .. Len(publishQ') : publishQ'[i] = published[Passed' + Len(hand') + i]
  BY <1>1, <1>3, <1>5, <1>10
<1>12. \A i \in 1 .. Len(hand') : hand'[i] = published[Passed' + i]
  BY <1>3
<1>13. \A i \in 1 .. Len(dispatched) : dispatched[i] = published[i]
  BY DEF IInv, FifoInv
<1>14. FifoInv'
  BY <1>5, <1>8, <1>9, <1>11, <1>12, <1>13 DEF FifoInv
<1> QED
  BY <1>3, <1>7, <1>14

(* The listener takes the first message of the message channel.            *)
LEMMA TurnKeeps ==
  ASSUME IInv, ListenerGet
  PROVE  /\ messageQ' \in Seq(Message) /\ messageQ[1] \in Message /\ task' = <<messageQ[1]>>
         /\ dispatched' = Append(dispatched, messageQ[1])
         /\ dispatched' \in Seq(Message) /\ Len(dispatched') = Len(dispatched) + 1
         /\ messageQ[1] = published[Len(dispatched) + 1]
         /\ Len(dispatched) < Len(published)
         /\ \A i \in 1 .. Len(dispatched) : ~dispatched[i].last
         /\ FifoInv' /\ EndInv'
<1>1. /\ publishQ \in Seq(Message) /\ published \in Seq(Message) /\ messageQ \in Seq(Message)
      /\ dispatched \in Seq(Message) /\ hand \in Seq(Message) /\ messageQ # <<>>
  BY DEF IInv, TypeOK, ListenerGet
<1>2. /\ messageQ' = Tail(messageQ) /\ messageQ[1] \in Message /\ task' = <<messageQ[1]>>
      /\ dispatched' = Append(dispatched, messageQ[1])
      /\ messageQ' \in Seq(Message) /\ Len(messageQ') = Len(messageQ) - 1
      /\ Len(messageQ) \in Nat /\ Len(messageQ) >= 1
      /\ \A i \in 1 .. Len(messageQ) - 1 : messageQ'[i] = messageQ[i + 1]
  BY <1>1, TakeFirst DEF ListenerGet
<1>3. /\ dispatched' \in Seq(Message) /\ Len(dispatched') = Len(dispatched) + 1
      /\ dispatched'[Len(dispatched) + 1] = messageQ[1]
      /\ \A i \in 1 .. Len(dispatched) : dispatched'[i] = dispatched[i]
  BY <1>1, <1>2, AddLast
<1>4. /\ Len(published) \in Nat /\ Len(dispatched) \in Nat /\ Len(publishQ) \in Nat /\ Len(hand) \in Nat
  BY <1>1
<1>5. /\ Passed \in Nat /\ Passed' = Passed /\ Passed = Len(dispatched) + Len(messageQ)
      /\ UNCHANGED <<published, publishQ, hand, wpc>>
  BY <1>2, <1>3, <1>4 DEF Passed, ListenerGet, subVars, callerVars, workerVars
<1>6. /\ messageQ[1] = published[Len(dispatched) + 1]
      /\ Len(published) = Passed + Len(hand) + Len(publishQ)
      /\ \A i \in 1 .. Len(dispatched) : dispatched[i] = published[i]
  BY <1>2 DEF IInv, FifoInv
<1>7. Len(dispatched) < Len(published)
  BY <1>2, <1>4, <1>5, <1>6
<1>8. \A i \in 1 .. Len(dispatched) : ~dispatched[i].last
  <2> SUFFICES ASSUME NEW i \in 1 .. Len(dispatched) PROVE ~published[i].last
    BY <1>6
  <2>1. i \in 1 .. Passed /\ i # Passed
    BY <1>2, <1>4, <1>5
  <2> QED
    BY <2>1 DEF IInv, EndInv
<1>9. EndInv'
  BY <1>5 DEF IInv, EndInv
<1>10. \A i \in 1 .. Len(messageQ') : messageQ'[i] = published[Len(dispatched') + i]
  <2> SUFFICES ASSUME NEW i \in 1 .. Len(messageQ') PROVE messageQ'[i] = published[Len(dispatched') + i]
    OBVIOUS
  <2>1. messageQ'[i] = messageQ[i + 1] /\ i + 1 \in 1 .. Len(messageQ)
    BY <1>2
  <2>2. messageQ[i + 1] = published[Len(dispatched) + (i + 1)]
    BY <2>1 DEF IInv, FifoInv
  <2> QED
    BY <1>2, <1>3, <1>4, <2>1, <2>2
<1>11. \A i \in 1 .. Len(dispatched') : dispatched'[i] = published[i]
  BY <1>3, <1>4, <1>6
<1>12. FifoInv'
  BY <1>5, <1>10, <1>11 DEF IInv, FifoInv
<1> QED
  BY <1>2, <1>3, <1>6, <1>7, <1>8, <1>9, <1>12

-----------------------------------------------------------------------------
(* Every step keeps the invariant.                                         *)

LEMMA InitIInv == Init => IInv
<1> SUFFICES ASSUME Init PROVE IInv
  OBVIOUS
<1>1. <<>> \in Seq(Message) /\ <<>> \in Seq(Seq(Callback)) /\ Len(<<>>) = 0
  OBVIOUS
<1>2. TypeOK
  <2>1. subs \in [Event -> 0 .. 0]
    BY DEF Init
  <2>2. 0 \in 0 .. 0 /\ 0 \in 0 .. MaxChanges
    BY BoundAssumption
  <2>3. Iterated = <<>> /\ pos \in 0 .. Len(Iterated)
    BY <1>1, <2>2 DEF Init, Iterated
  <2>4. listId \in 0 .. Len(lists) /\ subs \in [Event -> 0 .. Len(lists)]
    BY <1>1, <2>1, <2>2 DEF Init
  <2>5. owed \subseteq Callback /\ served \subseteq Callback
    BY DEF Init
  <2> QED
    BY <1>1, <2>2, <2>3, <2>4, <2>5 DEF Init, TypeOK
<1>3. HandInv /\ FifoInv /\ EndInv
  BY <1>1 DEF Init, HandInv, FifoInv, EndInv, Passed
<1> QED
  BY <1>2, <1>3 DEF Init, IInv, StartInv, TurnInv, JoinInv, RoundInv

(* The lists that can be iterated are lists of callbacks.                  *)
LEMMA ListFacts ==
  ASSUME TypeOK
  PROVE  /\ Iterated \in Seq(Callback) /\ Len(Iterated) \in Nat
         /\ \A e \in Event : /\ subs[e] \in 0 .. Len(lists)
                             /\ Contents(e) \in Seq(Callback)
                             /\ Len(Contents(e)) \in Nat
                             /\ Elements(Contents(e)) \subseteq Callback
<1>1. lists \in Seq(Seq(Callback)) /\ Len(lists) \in Nat /\ <<>> \in Seq(Callback)
  BY DEF TypeOK
<1>2. Iterated \in Seq(Callback)
  BY <1>1 DEF TypeOK, Iterated
<1>3. \A s \in Seq(Callback) : Elements(s) \subseteq Callback /\ Len(s) \in Nat
  BY DEF Elements
<1>4. \A e \in Event : subs[e] \in 0 .. Len(lists) /\ Contents(e) \in Seq(Callback)
  BY <1>1 DEF TypeOK, Contents
<1> QED
  BY <1>2, <1>3, <1>4

LEMMA CallerKeeps ==
  ASSUME IInv, CallerNext \/ \E e \in Event : PublishStray(e)
  PROVE  IInv'
<1>1. CASE Initialize \/ StartWorker \/ StartListener \/ GiveUp \/ JoinWorker \/ JoinListener \/ Close
  <2> USE DEF Initialize, StartWorker, StartListener, GiveUp, JoinWorker, JoinListener, Close,
              queueVars, workerVars, listenerVars, subVars
  <2>1. FifoInv' /\ EndInv'
    <3>1. wpc = "done" => wpc' = "done"
      BY <1>1 DEF IInv, StartInv
    <3> QED
      BY <1>1, <3>1, QuietKeeps
  <2>2. TypeOK'
    <3>1. UNCHANGED <<queueVars, hand, task, listId, pos, dispatched, owed, served, subVars, published>>
      BY <1>1
    <3>2. /\ mpc' \in {"startWorker", "startListener", "publish", "joinWorker", "joinListener",
                       "close", "closed"}
          /\ managerUp' \in BOOLEAN
          /\ wpc' = wpc \/ wpc' = "get"
          /\ lpc' = lpc \/ lpc' = "get"
      BY <1>1 DEF IInv, TypeOK
    <3>3. overdue' \in BOOLEAN
      <4>1. overdue' = overdue \/ overdue' = (overdue \/ ~Ended(wpc))
              \/ overdue' = (overdue \/ ~Ended(lpc))
        BY <1>1
      <4> QED
        BY <4>1, Zenon DEF IInv, TypeOK
    <3> QED
      BY <3>1, <3>2, <3>3 DEF IInv, TypeOK, Iterated
  <2>3. HandInv' /\ StartInv'
    BY <1>1 DEF IInv, HandInv, StartInv
  <2>4. TurnInv' /\ JoinInv' /\ RoundInv'
    BY <1>1 DEF IInv, TurnInv, JoinInv, RoundInv, Iterated, Elements, Ended
  <2> QED
    BY <2>1, <2>2, <2>3, <2>4 DEF IInv
<1>2. ASSUME NEW e \in Event, Publish(e) \/ PublishLast(e) \/ PublishStray(e) PROVE IInv'
  <2>1. PutOne
    <3>1. PICK last \in BOOLEAN : Put(e, last)
      BY <1>2 DEF Publish, PublishLast, PublishStray
    <3> QED
      BY <3>1, PutEffect DEF IInv
  <2>2. /\ UNCHANGED <<managerUp, overdue, messageQ, workerVars, listenerVars, subVars>>
        /\ mpc \in {"publish", "joinWorker", "joinListener", "close"}
        /\ mpc' = mpc \/ mpc' = "joinWorker"
    BY <1>2 DEF Publish, PublishLast, PublishStray, callerVars
  <2> USE DEF workerVars, listenerVars, subVars
  <2>3. /\ publishQ' \in Seq(Message) /\ published' \in Seq(Message)
        /\ FifoInv' /\ EndInv'
    BY <2>1, <2>2, PutKeeps
  <2>4. TypeOK'
    BY <2>2, <2>3 DEF IInv, TypeOK, Iterated
  <2>5. HandInv' /\ StartInv'
    BY <2>2 DEF IInv, HandInv, StartInv
  <2>6. TurnInv' /\ JoinInv' /\ RoundInv'
    BY <2>2 DEF IInv, TurnInv, JoinInv, RoundInv, Iterated, Elements, Ended
  <2> QED
    BY <2>3, <2>4, <2>5, <2>6 DEF IInv
<1> QED
  BY <1>1, <1>2 DEF CallerNext

LEMMA WorkerKeeps ==
  ASSUME IInv, WorkerNext
  PROVE  IInv'
<1>1. /\ UNCHANGED <<callerVars, listenerVars, subVars, published>>
      /\ wpc \in {"get", "put"}
  BY DEF WorkerNext, WorkerGet, WorkerPut, WorkerCutOff
<1>2. /\ publishQ' \in Seq(Message) /\ messageQ' \in Seq(Message) /\ hand' \in Seq(Message)
      /\ wpc' \in {"get", "put", "done", "failed"} /\ (wpc' = "put" => Len(hand') = 1)
      /\ HandInv' /\ FifoInv' /\ EndInv'
  <2>1. CASE WorkerGet
    <3>1. messageQ' \in Seq(Message)
      BY <2>1 DEF WorkerGet, IInv, TypeOK
    <3> QED
      BY <2>1, <3>1, TakeKeeps DEF WorkerGet, HandInv
  <2>2. CASE WorkerPut
    <3>1. publishQ' \in Seq(Message) /\ hand' = <<>> /\ wpc' \in {"get", "done"}
      BY <2>2 DEF WorkerPut, IInv, TypeOK
    <3>2. hand' \in Seq(Message) /\ Len(hand') = 0
      BY <3>1
    <3> QED
      BY <2>2, <3>1, <3>2, PassKeeps DEF HandInv
  <2>3. CASE WorkerCutOff
    <3>1. UNCHANGED <<publishQ, messageQ, hand, dispatched, published>> /\ wpc # "done"
      BY <2>3 DEF WorkerCutOff, queueVars, listenerVars
    <3> QED
      BY <2>3, <3>1, QuietKeeps DEF WorkerCutOff, HandInv, IInv, TypeOK
  <2> QED
    BY <2>1, <2>2, <2>3 DEF WorkerNext
<1> USE DEF callerVars, listenerVars, subVars
<1>3. TypeOK'
  BY <1>1, <1>2 DEF IInv, TypeOK, Iterated
<1>4. StartInv'
  BY <1>1 DEF IInv, StartInv
<1>5. TurnInv' /\ JoinInv' /\ RoundInv'
  BY <1>1 DEF IInv, TurnInv, JoinInv, RoundInv, Iterated, Elements, Ended
<1> QED
  BY <1>2, <1>3, <1>4, <1>5 DEF IInv

LEMMA ListenerKeeps ==
  ASSUME IInv, ListenerNext
  PROVE  IInv'
<1>1. /\ UNCHANGED <<callerVars, workerVars, subVars, published, publishQ>>
      /\ lpc \in {"get", "dispatch"}
  BY DEF ListenerNext, ListenerGet, ListenerCall, ListenerEnd, ListenerCutOff, queueVars
<1>2. HandInv' /\ StartInv' /\ JoinInv'
  BY <1>1 DEF IInv, HandInv, StartInv, JoinInv, Ended, callerVars, workerVars
<1>3. TypeOK' /\ FifoInv' /\ EndInv' /\ TurnInv' /\ RoundInv'
  <2>1. CASE ListenerGet
    <3>1. /\ messageQ' \in Seq(Message) /\ messageQ[1] \in Message /\ task' = <<messageQ[1]>>
          /\ dispatched' = Append(dispatched, messageQ[1])
          /\ dispatched' \in Seq(Message) /\ Len(dispatched') = Len(dispatched) + 1
          /\ FifoInv' /\ EndInv' /\ Head(messageQ) = messageQ[1]
      <4>1. messageQ \in Seq(Message) /\ messageQ # <<>>
        BY <2>1 DEF IInv, TypeOK, ListenerGet
      <4> QED
        BY <2>1, <4>1, TurnKeeps, TakeFirst
    <3>2. PICK e \in Event : e = messageQ[1].event
      BY <3>1 DEF Message
    <3>3. /\ listId' = subs[e] /\ owed' = Elements(Contents(e)) /\ pos' = 0 /\ served' = {}
          /\ lpc' = "dispatch" /\ UNCHANGED <<lists, subs>>
      BY <2>1, <3>1, <3>2 DEF ListenerGet, subVars
    <3>4. Iterated' = Contents(e)
      BY <3>3 DEF Iterated, Contents
    <3>5. /\ Contents(e) \in Seq(Callback) /\ Len(Contents(e)) \in Nat
          /\ Elements(Contents(e)) \subseteq Callback /\ subs[e] \in 0 .. Len(lists)
      BY ListFacts DEF IInv
    <3>6. task' \in Seq(Message) /\ Len(task') = 1
      BY <3>1
    <3>7. TypeOK'
      <4>1. pos' \in 0 .. Len(Iterated')
        BY <3>3, <3>4, <3>5
      <4> HIDE DEF Iterated
      <4> QED
        BY <1>1, <3>1, <3>3, <3>5, <3>6, <4>1
           DEF IInv, TypeOK, callerVars, workerVars, subVars
    <3>8. TurnInv'
      <4>1. /\ dispatched \in Seq(Message) /\ Len(dispatched) \in Nat
            /\ dispatched'[Len(dispatched')] = messageQ[1]
        BY <3>1, AddLast DEF IInv, TypeOK
      <4> QED
        BY <3>1, <3>3, <4>1 DEF TurnInv
    <3>9. RoundInv'
      BY <3>3, <3>4 DEF RoundInv
    <3> QED
      BY <3>1, <3>7, <3>8, <3>9
  <2>2. CASE ListenerCall
    <3>1. FifoInv' /\ EndInv'
      BY <1>1, <2>2, QuietKeeps DEF ListenerCall, queueVars, workerVars
    <3>2. Iterated' = Iterated /\ Iterated \in Seq(Callback) /\ Len(Iterated) \in Nat
      BY <1>1, <2>2, ListFacts DEF Iterated, ListenerCall, subVars, IInv
    <3>3. pos \in Nat /\ pos + 1 \in 1 .. Len(Iterated) /\ Iterated[pos + 1] \in Callback
      BY <2>2, <3>2 DEF ListenerCall, IInv, TypeOK
    <3>4. TypeOK'
      <4>1. pos' \in 0 .. Len(Iterated')
        BY <2>2, <3>2, <3>3 DEF ListenerCall
      <4>2. served' \subseteq Callback
        BY <2>2, <3>3 DEF ListenerCall, IInv, TypeOK
      <4>3. lpc' \in {"dispatch", "failed", "hung"} /\ task' = task /\ lpc = "dispatch"
        BY <2>2 DEF ListenerCall
      <4> QED
        BY <1>1, <2>2, <4>1, <4>2, <4>3
           DEF IInv, TypeOK, ListenerCall, callerVars, workerVars, subVars, queueVars
    <3>5. TurnInv'
      BY <2>2 DEF ListenerCall, IInv, TurnInv
    <3>6. RoundInv'
      <4>1. owed' = owed /\ pos' = pos + 1 /\ served' = served \cup {Iterated[pos + 1]}
        BY <2>2 DEF ListenerCall
      <4>2. owed \subseteq Elements(Iterated) /\ \A i \in 1 .. pos : Iterated[i] \in served
        BY <2>2 DEF ListenerCall, IInv, RoundInv
      <4>3. \A i \in 1 .. pos + 1 : Iterated[i] \in served'
        BY <3>3, <4>1, <4>2
      <4> QED
        BY <3>2, <4>1, <4>2, <4>3 DEF RoundInv
    <3> QED
      BY <3>1, <3>4, <3>5, <3>6
  <2>3. CASE ListenerEnd \/ ListenerCutOff
    <3>1. FifoInv' /\ EndInv'
      BY <1>1, <2>3, QuietKeeps DEF ListenerEnd, ListenerCutOff, queueVars, workerVars
    <3>2. TypeOK'
      <4>1. task' \in Seq(Message) /\ lpc' \in {"get", "done", "failed"}
        <5>1. task' = task \/ task' = <<>>
          BY <2>3 DEF ListenerEnd, ListenerCutOff
        <5>2. task \in Seq(Message) /\ <<>> \in Seq(Message)
          BY DEF IInv, TypeOK
        <5>3. lpc' \in {"get", "done", "failed"}
          BY <2>3 DEF ListenerEnd, ListenerCutOff
        <5> QED
          BY <5>1, <5>2, <5>3
      <4> QED
        BY SMTT(30), <1>1, <2>3, <4>1
           DEF IInv, TypeOK, ListenerEnd, ListenerCutOff, Iterated, callerVars, workerVars,
               subVars, queueVars
    <3>3. TurnInv' /\ RoundInv'
      <4>1. lpc' = "done" => lpc = "dispatch" /\ task[1].last
        BY <2>3 DEF ListenerEnd, ListenerCutOff
      <4>2. lpc' # "dispatch" /\ dispatched' = dispatched
        BY <2>3 DEF ListenerEnd, ListenerCutOff
      <4> QED
        BY <4>1, <4>2 DEF IInv, TurnInv, RoundInv
    <3> QED
      BY <3>1, <3>2, <3>3
  <2> QED
    BY <2>1, <2>2, <2>3 DEF ListenerNext
<1> QED
  BY <1>2, <1>3 DEF IInv

LEMMA SubKeeps ==
  ASSUME IInv, SubNext
  PROVE  IInv'
<1>1. /\ ListsKept
      /\ subs' \in [Event -> 0 .. Len(lists')] /\ changes' \in 0 .. MaxChanges
      /\ UNCHANGED <<callerVars, queueVars, workerVars, listenerVars, published>>
  BY SubEffect DEF IInv
<1> USE DEF callerVars, queueVars, workerVars, listenerVars
<1>2. lists' \in Seq(Seq(Callback)) /\ Len(lists) \in Nat /\ Len(lists') \in Nat /\ Len(lists') >= Len(lists)
  BY <1>1 DEF ListsKept, IInv, TypeOK
<1>3. /\ Iterated' \in Seq(Callback) /\ Iterated \in Seq(Callback)
      /\ Len(Iterated') \in Nat /\ Len(Iterated) \in Nat /\ Len(Iterated') >= Len(Iterated)
      /\ \A i \in 1 .. Len(Iterated) : Iterated'[i] = Iterated[i]
  <2>1. listId' = listId /\ listId \in 0 .. Len(lists)
    BY <1>1 DEF IInv, TypeOK
  <2>2. CASE listId = 0
    BY <2>1, <2>2, ListFacts DEF Iterated, IInv
  <2>3. CASE listId # 0
    <3>1. listId \in 1 .. Len(lists)
      BY <1>2, <2>1, <2>3
    <3>2. Iterated = lists[listId] /\ Iterated' = lists'[listId]
      BY <2>1, <2>3 DEF Iterated
    <3> QED
      BY <1>1, <3>1, <3>2, ListFacts DEF ListsKept, IInv
  <2> QED
    BY <2>2, <2>3
<1>4. TypeOK'
  <2>1. pos' \in 0 .. Len(Iterated') /\ listId' \in 0 .. Len(lists')
    BY <1>1, <1>2, <1>3 DEF IInv, TypeOK
  <2> QED
    BY <1>1, <1>2, <2>1 DEF IInv, TypeOK
<1>5. FifoInv' /\ EndInv'
  BY <1>1, QuietKeeps
<1>6. HandInv' /\ StartInv' /\ TurnInv' /\ JoinInv'
  BY <1>1 DEF IInv, HandInv, StartInv, TurnInv, JoinInv, Ended
<1>7. RoundInv'
  <2>1. Elements(Iterated) \subseteq Elements(Iterated')
    BY <1>3 DEF Elements
  <2>2. pos \in 0 .. Len(Iterated)
    BY DEF IInv, TypeOK
  <2> QED
    BY <1>1, <1>3, <2>1, <2>2 DEF IInv, RoundInv
<1> QED
  BY <1>4, <1>5, <1>6, <1>7 DEF IInv

LEMMA IdleKeeps ==
  ASSUME IInv, UNCHANGED vars
  PROVE  IInv'
<1> USE DEF vars, callerVars, queueVars, workerVars, listenerVars, subVars
<1>1. FifoInv' /\ EndInv'
  BY QuietKeeps
<1>2. TypeOK'
  BY DEF IInv, TypeOK, Iterated
<1>3. HandInv' /\ StartInv' /\ TurnInv' /\ JoinInv' /\ RoundInv'
  BY DEF IInv, HandInv, StartInv, TurnInv, JoinInv, RoundInv, Iterated, Elements, Ended
<1> QED
  BY <1>1, <1>2, <1>3 DEF IInv

LEMMA NextIInv == IInv /\ [Next]_vars => IInv'
  BY CallerKeeps, WorkerKeeps, ListenerKeeps, SubKeeps, IdleKeeps DEF Next, SubNext

LEMMA Invariance == Spec => []IInv
  BY InitIInv, NextIInv, PTL DEF Spec

-----------------------------------------------------------------------------
(* The values of the variables: every list the broker iterates is a list   *)
(* of callbacks, and no round gets beyond the end of its list.             *)
THEOREM TypeCorrect == Spec => []TypeOK
  BY Invariance, PTL DEF IInv

(* A caller that has joined both threads in time, after an end was         *)
(* published and unless a callback raised, leaves no message up to the end *)
(* unhandled (MessageBroker.join, EventListener.run).                      *)
THEOREM JoinMeansDrained == Spec => []Drained
<1>1. IInv => Drained
  <2> SUFFICES ASSUME IInv, mpc \in {"close", "closed"}, ~overdue, lpc # "failed"
               PROVE  \E i \in DOMAIN published :
                        published[i].last /\ dispatched = SubSeq(published, 1, i)
    BY DEF Drained
  <2>1. lpc = "done"
    BY DEF IInv, JoinInv, Ended
  <2>2. /\ dispatched \in Seq(Message) /\ published \in Seq(Message)
        /\ Len(dispatched) \in Nat /\ Len(dispatched) > 0
        /\ dispatched[Len(dispatched)].last
    BY <2>1 DEF IInv, TurnInv, TypeOK
  <2>3. /\ Len(dispatched) \in 1 .. Len(published)
        /\ \A i \in 1 .. Len(dispatched) : dispatched[i] = published[i]
    <3>1. Len(published) = Len(dispatched) + Len(messageQ) + Len(hand) + Len(publishQ)
      BY DEF IInv, FifoInv, Passed
    <3>2. Len(messageQ) \in Nat /\ Len(hand) \in Nat /\ Len(publishQ) \in Nat
      BY DEF IInv, TypeOK
    <3> QED
      BY <2>2, <3>1, <3>2 DEF IInv, FifoInv
  <2>4. published[Len(dispatched)].last /\ Len(dispatched) \in DOMAIN published
    BY <2>2, <2>3
  <2>5. dispatched = SubSeq(published, 1, Len(dispatched))
    <3> DEFINE n == Len(dispatched)
               begun == SubSeq(published, 1, n)
    <3>1. begun \in Seq(Message) /\ Len(begun) = n /\ \A i \in 1 .. n : begun[i] = published[i]
      BY <2>2, <2>3
    <3> HIDE DEF begun
    <3>2. dispatched = begun
      BY <2>2, <2>3, <3>1, SeqEqual
    <3> QED
      BY <3>2 DEF begun
  <2> QED
    BY <2>4, <2>5
<1> QED
  BY <1>1, Invariance, PTL

(* A round that comes to its end has called everyone who was subscribed    *)
(* when it began, whatever was subscribed or unsubscribed meanwhile        *)
(* (EventListener.run, MessageBroker.subscribe and unsubscribe).           *)
THEOREM RoundsAreComplete == Spec => EveryoneServed
<1>1. ASSUME IInv, [Next]_vars, lpc = "dispatch", lpc' \in {"get", "done"}
      PROVE  owed \subseteq served
  <2>1. ListenerEnd \/ StartListener
    BY <1>1, SubEffect
       DEF Next, CallerNext, WorkerNext, ListenerNext, Initialize, StartWorker, Publish,
           PublishLast, GiveUp, JoinWorker, JoinListener, Close, WorkerGet, WorkerPut,
           WorkerCutOff, ListenerGet, ListenerCall, ListenerCutOff, PublishStray, Subscribe,
           Unsubscribe, vars, listenerVars
  <2>2. Len(dispatched) > 0 /\ Len(dispatched) <= Len(published)
    <3>1. Len(published) = Len(dispatched) + Len(messageQ) + Len(hand) + Len(publishQ)
      BY <1>1 DEF IInv, FifoInv, Passed
    <3>2. Len(messageQ) \in Nat /\ Len(hand) \in Nat /\ Len(publishQ) \in Nat /\ Len(dispatched) \in Nat
      BY <1>1 DEF IInv, TypeOK
    <3> QED
      BY <1>1, <3>1, <3>2 DEF IInv, TurnInv
  <2>3. ListenerEnd
    BY <1>1, <2>1, <2>2 DEF StartListener, IInv, StartInv
  <2>4. /\ owed \subseteq Elements(Iterated) /\ \A i \in 1 .. pos : Iterated[i] \in served
        /\ pos >= Len(Iterated) /\ pos \in Nat
        /\ Iterated \in Seq(Callback) /\ Len(Iterated) \in Nat
    BY <1>1, <2>3, ListFacts DEF IInv, RoundInv, ListenerEnd, TypeOK
  <2> QED
    BY <2>4 DEF Elements
<1> QED
  BY <1>1, Invariance, PTL DEF Spec, EveryoneServed

-----------------------------------------------------------------------------
(* The broker as a delivery service.                                       *)

(* A message that is published is accepted.                                *)
LEMMA PutAccepts ==
  ASSUME PutOne, dispatched' = dispatched
  PROVE  Delivery!Next
<1>1. PICK m \in Message : published' = Append(published, m)
  BY DEF PutOne
<1>2. Delivery!Accept(m)
  BY <1>1 DEF Delivery!Accept
<1> QED
  BY <1>2 DEF Delivery!Next

(* A message whose turn comes is the one to be delivered next.             *)
LEMMA TurnDelivers ==
  ASSUME IInv, ListenerGet
  PROVE  Delivery!Next
<1>1. /\ dispatched' = Append(dispatched, published[Len(dispatched) + 1])
      /\ Len(dispatched) < Len(published)
      /\ \A i \in 1 .. Len(dispatched) : ~dispatched[i].last
      /\ published' = published
  BY TurnKeeps DEF ListenerGet
<1>2. DOMAIN dispatched = 1 .. Len(dispatched)
  BY DEF IInv, TypeOK
<1>3. ~Delivery!Ended
  BY <1>1, <1>2 DEF Delivery!Ended
<1> QED
  BY <1>1, <1>3 DEF Delivery!Deliver, Delivery!Next

(* The broker hands every accepted message on, once and in order, until    *)
(* the end (MessageBrokerWorker.run, EventListener.run).                   *)
THEOREM BrokerImplementsDelivery == Spec => DeliverySpec
<1>1. Init => Delivery!Init
  BY DEF Init, Delivery!Init
<1>2. ASSUME IInv, [Next]_vars PROVE [Delivery!Next]_(Delivery!vars)
  <2>1. ASSUME NEW e \in Event, Publish(e) \/ PublishLast(e) \/ PublishStray(e)
        PROVE  Delivery!Next
    <3>1. PICK last \in BOOLEAN : Put(e, last)
      BY <2>1 DEF Publish, PublishLast, PublishStray
    <3>2. PutOne
      BY <1>2, <3>1, PutEffect DEF IInv
    <3>3. dispatched' = dispatched
      BY <2>1 DEF Publish, PublishLast, PublishStray, listenerVars
    <3> QED
      BY <3>2, <3>3, PutAccepts
  <2>2. CASE ListenerGet
    BY <1>2, <2>2, TurnDelivers
  <2>3. CASE \/ Initialize \/ StartWorker \/ StartListener \/ GiveUp
             \/ JoinWorker \/ JoinListener \/ Close
             \/ WorkerNext \/ ListenerCall \/ ListenerEnd \/ ListenerCutOff \/ UNCHANGED vars
    BY <2>3 DEF Initialize, StartWorker, StartListener, GiveUp, JoinWorker, JoinListener, Close,
                WorkerNext, WorkerGet, WorkerPut, WorkerCutOff, ListenerCall, ListenerEnd,
                ListenerCutOff, vars, listenerVars, Delivery!vars
  <2>4. CASE SubNext
    <3>1. UNCHANGED <<listenerVars, published>>
      BY <1>2, <2>4, SubEffect DEF IInv
    <3> QED
      BY <3>1 DEF listenerVars, Delivery!vars
  <2> QED
    BY <1>2, <2>1, <2>2, <2>3, <2>4 DEF Next, CallerNext, ListenerNext, SubNext
<1> QED
  BY <1>1, <1>2, Invariance, PTL DEF Spec, DeliverySpec, Delivery!Spec

(***************************************************************************)
(* QueueConnector.                                                         *)
(***************************************************************************)

(* A page in the queue, or the frame that get_data returns.                *)
Maybe == Nat \cup {None}
Sheet == [Id : Maybe, Data : Seq(Nat), Start : Maybe, End : Maybe]

ReaderTypeOK ==
  /\ plan \in Plans
  /\ log \in Seq(Entry)
  /\ committed \in Maybe /\ first \in Nat /\ position \in Nat
  /\ op \in {"none", "unpredicted", "data"}
  /\ pc \in {"idle", "poll", "full", "rest", "await"}
  /\ start \in Nat /\ total \in Nat /\ sent \in Nat
  /\ data \in Seq(Nat) /\ pages \in Seq(Sheet)
  /\ waiting \in Nat /\ answers \in Seq(BOOLEAN)
  /\ reads \in Nat /\ failed \in Nat
  /\ passedOn \subseteq Nat /\ jumped \subseteq Nat

Places == {"ready", "creating", "recreating", "created", "deleting", "deleted", "writing",
           "flushing", "written", "raised"}

TargetTypeOK ==
  /\ target \in {"absent", "present", "doomed"} /\ doomed \in BOOLEAN
  /\ calls \in [Clients -> Nat]
  /\ cpc \in [Clients -> Places]
  /\ buffer \in [Clients -> Nat]

ConnectorTypeOK ==
  /\ ReaderTypeOK /\ TargetTypeOK
  /\ faults \in 0 .. MaxFaults /\ answering \in BOOLEAN

(* Where a read is in its source, and how much the open page holds.        *)
PlaceInv ==
  /\ ~Kafka => committed = None /\ \A i \in DOMAIN log : log[i] # "tombstone"
  /\ first <= position /\ position <= Len(log)
  /\ committed # None => committed <= position
  /\ op = "none" => pc = "idle"
  /\ op = "data" => pc # "await" /\ (pc # "idle" => pages = <<>>)
  /\ pc \in {"idle", "await"} => data = <<>>
  /\ pc \in {"poll", "rest"} => Len(data) < Limit
  /\ pc = "full" => Len(data) = Limit
  /\ Len(data) <= total

(* The pages out come on top of what earlier reads left in the queues.     *)
Room == ProcessCount * (IF plan.shared THEN reads ELSE 1)
WindowInv ==
  /\ WindowHolds
  /\ pc # "idle" => waiting + Len(answers) + (ProcessCount - sent) <= Room
  /\ pc \in {"poll", "full", "rest"} => sent < ProcessCount
  /\ pc = "await" => sent = ProcessCount

(* A read under way has handed over, or holds, what it polled.             *)
OrderInv ==
  op # "none" =>
    /\ InOrder
    /\ HandedOver \subseteq Polled
    /\ pc # "idle" \/ failed = 0 => Polled \subseteq HandedOver

FrameInv ==
  ~Kafka =>
    /\ pc # "idle" => \A o \in first .. position - 1 : log[o + 1] = "value"
    /\ op = "data" /\ pc # "idle" => first <= start
    /\ op = "data" /\ pages # <<>> => start \in HandedOver

RangeInv ==
  op = "unpredicted" =>
    /\ \A i \in DOMAIN pages : RangeHolds(i) /\ pages[i].Start \in Nat /\ pages[i].End \in Nat
    /\ pc # "idle" =>
         /\ \A i \in DOMAIN pages : pages[i].Start = EndBefore(i)
         /\ total = EndBefore(Len(pages) + 1) + Len(data)

(* A read of a file is at its end when it is through with polling, and has *)
(* a page, put or open, unless it has not begun; nothing comes of no rows. *)
EmptyInv ==
  /\ log = <<>> => data = <<>>
  /\ ~Kafka /\ op = "unpredicted" =>
       /\ pc = "rest" => position = Len(log)
       /\ pc # "idle" /\ data = <<>> /\ pages = <<>> => position = 0

(* A deletion leaves its mark; a producer that has nothing to flush.       *)
TargetInv ==
  /\ TargetHolds
  /\ target = "doomed" => doomed
  /\ ~Kafka => \A c \in Clients : buffer[c] = 0 /\ cpc[c] # "flushing"

ConnectorInv ==
  /\ ConnectorTypeOK /\ PlaceInv /\ WindowInv /\ LossBounded
  /\ OrderInv /\ FrameInv /\ RangeInv /\ EmptyInv /\ TargetInv

-----------------------------------------------------------------------------
(* The constants, and sequences.                                           *)

LEMMA Caps ==
  /\ Limit \in Nat /\ Limit >= 1 /\ ProcessCount \in Nat /\ ProcessCount >= 1
  /\ MaxFaults \in Nat
BY WindowAssumption, CapAssumption

LEMMA LenDomain ==
  ASSUME NEW S, NEW s \in Seq(S)
  PROVE  Len(s) \in Nat /\ DOMAIN s = 1 .. Len(s) /\ \A i \in 1 .. Len(s) : s[i] \in S
BY LenProperties, ElementOfSeq

LEMMA Appended ==
  ASSUME NEW S, NEW s \in Seq(S), NEW e \in S
  PROVE  /\ Append(s, e) \in Seq(S) /\ Len(Append(s, e)) = Len(s) + 1
         /\ DOMAIN Append(s, e) = 1 .. Len(s) + 1
         /\ \A i \in 1 .. Len(s) : Append(s, e)[i] = s[i]
         /\ Append(s, e)[Len(s) + 1] = e
BY AppendProperties, LenProperties

LEMMA Blank ==
  ASSUME NEW S
  PROVE  <<>> \in Seq(S) /\ Len(<<>>) = 0 /\ DOMAIN <<>> = {} /\ ToSet(<<>>) = {}
BY DEF ToSet

LEMMA AppendedSet ==
  ASSUME NEW S, NEW s \in Seq(S), NEW e \in S
  PROVE  ToSet(Append(s, e)) = ToSet(s) \cup {e}
<1>1. /\ DOMAIN Append(s, e) = 1 .. Len(s) + 1 /\ DOMAIN s = 1 .. Len(s)
      /\ \A i \in 1 .. Len(s) : Append(s, e)[i] = s[i]
      /\ Append(s, e)[Len(s) + 1] = e
  BY Appended, LenDomain
<1>2. Len(s) \in Nat
  BY LenDomain
<1>3. 1 .. Len(s) + 1 = (1 .. Len(s)) \cup {Len(s) + 1}
  BY <1>2
<1> QED
  BY <1>1, <1>3 DEF ToSet

-----------------------------------------------------------------------------
(* Types, and where a read is in its source.                               *)

LEMMA BeginsProps ==
  ASSUME ReaderTypeOK, PlaceInv, NEW offset \in Offsets, NEW begin \in Begins(offset)
  PROVE  /\ offset \in Maybe /\ begin \in Nat /\ begin <= Len(log)
         /\ offset # None => offset = begin /\ begin <= position
<1> USE DEF ReaderTypeOK, PlaceInv, Maybe
<1>0. Len(log) \in Nat
  BY LenDomain
<1>1. offset \in Maybe /\ (offset # None => offset \in Nat /\ offset <= position)
  BY DEF Offsets
<1>2. CASE offset # None
  BY <1>0, <1>1, <1>2 DEF Begins
<1>3. CASE offset = None /\ plan.reset = "latest"
  BY <1>0, <1>1, <1>3 DEF Begins
<1>4. CASE offset = None /\ plan.reset # "latest"
  BY <1>0, <1>1, <1>4 DEF Begins
<1> QED
  BY <1>2, <1>3, <1>4

LEMMA StartReadPlace ==
  ASSUME ReaderTypeOK, PlaceInv, NEW call \in {"unpredicted", "data"},
         NEW offset \in Offsets, NEW begin \in Begins(offset), StartRead(call, offset, begin)
  PROVE  ReaderTypeOK' /\ PlaceInv'
<1>1. /\ offset \in Maybe /\ begin \in Nat /\ begin <= Len(log)
      /\ offset # None => offset = begin
  BY BeginsProps
<1>2. /\ committed' = offset /\ first' = begin /\ position' = begin
      /\ op' = call /\ pc' = "poll" /\ data' = <<>> /\ total' = 0 /\ sent' = 0 /\ pages' = <<>>
      /\ UNCHANGED <<plan, log, failed, passedOn>> /\ reads' = reads + 1
  BY DEF StartRead
<1>3. start' \in Nat
  <2>1. start' \in 0 .. Len(log) \cup {0}
    BY DEF StartRead
  <2>2. Len(log) \in Nat
    BY LenDomain DEF ReaderTypeOK
  <2> QED
    BY <2>1, <2>2
<1>4. jumped' \subseteq Nat
  <2>1. 0 .. begin - 1 \subseteq Nat
    BY <1>1
  <2> QED
    BY <2>1 DEF StartRead, ReaderTypeOK
<1>5. waiting' \in Nat /\ answers' \in Seq(BOOLEAN)
  <2>1. CASE plan.shared
    BY <2>1 DEF StartRead, ReaderTypeOK, windowVars
  <2>2. CASE ~plan.shared
    BY <2>2, Blank DEF StartRead
  <2> QED
    BY <2>1, <2>2
<1>6. ReaderTypeOK'
  BY <1>1, <1>2, <1>3, <1>4, <1>5, Blank DEF ReaderTypeOK
<1>7. Len(data') < Limit /\ Len(data') <= total'
  BY <1>2, Caps, Blank
<1>8. ~Kafka => offset = None
  BY DEF Offsets, PlaceInv, Kafka, Plans, ReaderTypeOK
<1> QED
  BY <1>1, <1>2, <1>6, <1>7, <1>8 DEF PlaceInv, Kafka

LEMMA PollPlace ==
  ASSUME ReaderTypeOK, PlaceInv, Poll
  PROVE  ReaderTypeOK' /\ PlaceInv'
<1> USE DEF ReaderTypeOK, PlaceInv
<1>1. /\ pc = "poll" /\ position < Len(log) /\ position' = position + 1
      /\ UNCHANGED <<plan, log, committed, first, op, start, sent, pages, waiting, answers,
                     reads, passedOn, jumped>>
  BY DEF Poll, windowVars
<1>2. Len(log) \in Nat /\ position + 1 \in Nat /\ position + 1 <= Len(log)
  BY <1>1, LenDomain
<1>3. /\ first' <= position' /\ position' <= Len(log')
      /\ committed' # None => committed' <= position'
  BY <1>1, <1>2 DEF Maybe
<1>4. ~Kafka' => committed' = None /\ \A i \in DOMAIN log' : log'[i] # "tombstone"
  BY <1>1 DEF Kafka
<1>5. CASE log[position + 1] = "value"
  <2>1. /\ data' = Append(data, position) /\ total' = total + 1 /\ UNCHANGED failed
        /\ pc' = IF Len(data') >= Limit THEN "full" ELSE "poll"
    BY <1>5 DEF Poll
  <2>2. data' \in Seq(Nat) /\ Len(data') = Len(data) + 1
    BY <2>1, Appended
  <2>3. Len(data) \in Nat /\ Len(data) < Limit /\ Limit \in Nat
    BY <1>1, LenDomain, Caps
  <2>4. /\ pc' = "poll" => Len(data') < Limit
        /\ pc' = "full" => Len(data') = Limit
        /\ Len(data') <= total'
    BY <2>1, <2>2, <2>3
  <2> QED
    BY <1>1, <1>2, <1>3, <1>4, <2>1, <2>2, <2>4
<1>6. CASE log[position + 1] = "tombstone"
  <2>1. UNCHANGED <<pc, data, total, failed>>
    BY <1>6 DEF Poll
  <2> QED
    BY <1>1, <1>2, <1>3, <1>4, <2>1
<1>7. CASE log[position + 1] \notin {"value", "tombstone"}
  <2>1. pc' = "idle" /\ failed' = failed + 1 /\ data' = <<>> /\ total' = total
    BY <1>7 DEF Poll, Raise
  <2> QED
    BY <1>1, <1>2, <1>3, <1>4, <2>1, Blank
<1> QED
  BY <1>5, <1>6, <1>7

LEMMA QuietPlace ==
  ASSUME ReaderTypeOK, PlaceInv, PollNone \/ EndRead
  PROVE  ReaderTypeOK' /\ PlaceInv'
BY DEF PollNone, EndRead, AtEnd, ReaderTypeOK, PlaceInv, Kafka, windowVars, ghostVars

LEMMA PollErrorPlace ==
  ASSUME ReaderTypeOK, PlaceInv, PollError
  PROVE  ReaderTypeOK' /\ PlaceInv'
BY Blank DEF PollError, Raise, ReaderTypeOK, PlaceInv, Kafka, windowVars

(* A page that is put.                                                     *)
LEMMA PageProps ==
  ASSUME ReaderTypeOK, PlaceInv, NEW p \in {FullPage, RestPage}
  PROVE  /\ p \in Sheet /\ p.Id = Len(pages) + 1 /\ p.Data = data
         /\ p.Start \in Nat /\ p.End \in Nat /\ p.End - p.Start = Len(data)
         /\ p = FullPage \/ ~Kafka => p.Start = total - Len(data) /\ p.End = total
         /\ p = RestPage /\ Kafka => p.Start = total
<1>1. /\ Len(data) \in Nat /\ total \in Nat /\ Len(data) <= total /\ Len(pages) \in Nat
      /\ data \in Seq(Nat)
  BY LenDomain DEF ReaderTypeOK, PlaceInv
<1>2. /\ total - Len(data) \in Nat /\ total + Len(data) \in Nat
      /\ (total + Len(data)) - Len(data) = total
      /\ (total + Len(data)) - total = Len(data)
      /\ total - (total - Len(data)) = Len(data) /\ Len(pages) + 1 \in Nat
  BY <1>1
<1>3. CASE p = FullPage \/ (p = RestPage /\ ~Kafka)
  <2>1. p = [Id |-> Len(pages) + 1, Data |-> data, Start |-> total - Len(data), End |-> total]
    BY <1>3 DEF FullPage, RestPage, Page
  <2>2. ~(p = RestPage /\ Kafka) \/ p.Start = total
    <3>1. CASE Kafka /\ p = RestPage
      <4>1. p.Start = (total + Len(data)) - Len(data)
        BY <3>1 DEF RestPage, Page
      <4> QED
        BY <1>2, <4>1
    <3> QED
      BY <3>1
  <2> QED
    BY <1>1, <1>2, <2>1, <2>2 DEF Sheet, Maybe
<1>4. CASE p = RestPage /\ Kafka /\ p # FullPage
  <2>1. p = [Id |-> Len(pages) + 1, Data |-> data, Start |-> (total + Len(data)) - Len(data),
             End |-> total + Len(data)]
    BY <1>4 DEF RestPage, Page
  <2> QED
    BY <1>1, <1>2, <1>4, <2>1 DEF Sheet, Maybe
<1> QED
  BY <1>3, <1>4

(* What putting a page does: a full one, or the rest.                      *)
Puts(p) ==
  /\ op = "unpredicted" /\ pc \in {"full", "rest"} /\ PutPage(p)
  /\ Len(data) \in 0 .. Limit
  /\ data = <<>> => ~Kafka /\ pc = "rest" /\ pages = <<>>
  /\ UNCHANGED <<plan, log, committed, first, position, op, start, total, answers, reads,
                 failed, jumped>>
  /\ \/ /\ sent' = sent + 1 /\ pc' = (IF WindowFull(sent') THEN "await" ELSE "poll")
        /\ p = FullPage \/ ~Kafka
     \/ Kafka /\ p = RestPage /\ pc' = "idle" /\ sent' = sent /\ Len(data) < Limit

LEMMA PuttingPuts ==
  ASSUME ReaderTypeOK, PlaceInv, FullPagePut \/ RestPagePut
  PROVE  \E p \in {FullPage, RestPage} : Puts(p)
<1>1. Len(data) \in Nat /\ Len(<<>>) = 0 /\ Limit \in Nat /\ Limit >= 1
  BY LenDomain, Caps, Blank DEF ReaderTypeOK
<1>2. CASE FullPagePut
  <2>1. Len(data) \in 0 .. Limit /\ data # <<>>
    BY <1>1, <1>2 DEF FullPagePut, PlaceInv
  <2> QED
    BY <1>2, <2>1 DEF FullPagePut, PutAndAwait, Puts
<1>3. CASE RestPagePut
  <2>1. /\ Len(data) \in 0 .. Limit /\ Len(data) < Limit
        /\ data = <<>> => ~Kafka /\ pc = "rest" /\ pages = <<>>
    BY <1>1, <1>3 DEF RestPagePut, EmptyChunk, PlaceInv
  <2>2. CASE Kafka
    BY <1>3, <2>1, <2>2 DEF RestPagePut, Puts
  <2>3. CASE ~Kafka
    BY <1>3, <2>1, <2>3 DEF RestPagePut, PutAndAwait, Puts
  <2> QED
    BY <1>3, <2>2, <2>3 DEF RestPagePut
<1> QED
  BY <1>2, <1>3

LEMMA PutPlace ==
  ASSUME ReaderTypeOK, PlaceInv, NEW p \in {FullPage, RestPage}, Puts(p)
  PROVE  ReaderTypeOK' /\ PlaceInv'
<1>1. p \in Sheet /\ p.Data = data
  BY PageProps
<1>2. /\ pages' = Append(pages, p) /\ waiting' = waiting + 1 /\ data' = <<>>
      /\ passedOn' = passedOn \cup ToSet(data) /\ op = "unpredicted"
      /\ UNCHANGED <<plan, log, committed, first, position, op, start, total, answers, reads,
                     failed, jumped>>
      /\ pc' \in {"await", "poll", "idle"} /\ sent' \in {sent, sent + 1}
  BY <1>1 DEF Puts, PutPage
<1>3. ToSet(data) \subseteq Nat
  BY LenDomain DEF ToSet, ReaderTypeOK
<1>4. pages' \in Seq(Sheet)
  BY <1>1, <1>2, Appended DEF ReaderTypeOK
<1>5. sent' \in Nat /\ waiting' \in Nat
  BY <1>2 DEF ReaderTypeOK
<1>6. data' \in Seq(Nat) /\ Len(data') = 0
  BY <1>2, Blank
<1>7. ReaderTypeOK'
  BY <1>2, <1>3, <1>4, <1>5, <1>6 DEF ReaderTypeOK
<1>8. Len(data') < Limit /\ Len(data') <= total'
  BY <1>6, <1>7, Caps DEF ReaderTypeOK
<1> QED
  BY <1>2, <1>7, <1>8 DEF PlaceInv, Kafka

LEMMA SkipChunkPlace ==
  ASSUME ReaderTypeOK, PlaceInv, SkipChunk
  PROVE  ReaderTypeOK' /\ PlaceInv'
<1>1. /\ data' = <<>> /\ first' = position /\ pc \in {"full", "rest"}
      /\ pc' = (IF pc = "full" THEN "poll" ELSE pc)
      /\ UNCHANGED <<plan, log, committed, position, op, start, total, sent, pages, waiting,
                     answers, reads, failed, passedOn, jumped>>
  BY DEF SkipChunk, windowVars, ghostVars
<1>2. data' \in Seq(Nat) /\ Len(data') = 0
  BY <1>1, Blank
<1>3. ReaderTypeOK'
  BY <1>1, <1>2 DEF ReaderTypeOK
<1>4. Len(data') < Limit /\ Len(data') <= total'
  BY <1>2, <1>3, Caps DEF ReaderTypeOK
<1>5. first' <= position'
  BY <1>1 DEF ReaderTypeOK
<1> QED
  BY <1>1, <1>3, <1>4, <1>5 DEF PlaceInv, Kafka

LEMMA ReturnFramePlace ==
  ASSUME ReaderTypeOK, PlaceInv, ReturnFrame
  PROVE  ReaderTypeOK' /\ PlaceInv'
<1>1. /\ data' = <<>> /\ pc' = "idle" /\ pages' = <<Page(None, None, None)>>
      /\ passedOn' = passedOn \cup ToSet(data)
      /\ UNCHANGED <<plan, log, committed, first, position, op, start, total, sent, waiting,
                     answers, reads, failed, jumped>>
  BY DEF ReturnFrame, windowVars
<1>2. data' \in Seq(Nat) /\ Len(data') = 0
  BY <1>1, Blank
<1>3. Page(None, None, None) \in Sheet
  BY DEF Page, Sheet, Maybe, ReaderTypeOK
<1>4. ToSet(data) \subseteq Nat
  BY LenDomain DEF ToSet, ReaderTypeOK
<1>5. pages' \in Seq(Sheet)
  BY <1>1, <1>3
<1>6. ReaderTypeOK'
  BY <1>1, <1>2, <1>4, <1>5 DEF ReaderTypeOK
<1>7. Len(data') <= total'
  BY <1>2, <1>6 DEF ReaderTypeOK
<1> QED
  BY <1>1, <1>6, <1>7 DEF PlaceInv, Kafka

LEMMA AwaitPlace ==
  ASSUME ReaderTypeOK, PlaceInv, WindowInv, Await
  PROVE  ReaderTypeOK' /\ PlaceInv'
<1>1. /\ pc = "await" /\ answers # <<>> /\ answers' = Tail(answers)
      /\ \/ pc' = "poll" /\ sent' = sent - 1
         \/ pc' = "idle" /\ sent' = sent
      /\ UNCHANGED <<plan, log, committed, first, position, op, start, data, total, pages,
                     waiting, reads, failed, passedOn, jumped>>
  BY DEF Await, ghostVars
<1>2. answers' \in Seq(BOOLEAN)
  BY <1>1, HeadTailProperties DEF ReaderTypeOK
<1>3. sent = ProcessCount
  BY <1>1 DEF WindowInv
<1>4. sent' \in Nat
  BY <1>1, <1>3, Caps DEF ReaderTypeOK
<1>5. ReaderTypeOK'
  BY <1>1, <1>2, <1>4 DEF ReaderTypeOK
<1>6. Len(data) < Limit
  BY <1>1, Caps, Blank DEF PlaceInv
<1> QED
  BY <1>1, <1>5, <1>6 DEF PlaceInv, Kafka

LEMMA AnswerPlace ==
  ASSUME ReaderTypeOK, PlaceInv, NEW yes \in BOOLEAN, Answer(yes)
  PROVE  ReaderTypeOK' /\ PlaceInv'
<1>1. /\ waiting > 0 /\ waiting' = waiting - 1 /\ answers' = Append(answers, yes)
      /\ UNCHANGED <<plan, log, committed, first, position, op, pc, start, data, total, sent,
                     pages, reads, failed, passedOn, jumped>>
  BY DEF Answer, readVars, ghostVars
<1>2. waiting' \in Nat /\ answers' \in Seq(BOOLEAN)
  <2>1. answers' \in Seq(BOOLEAN)
    BY <1>1, Appended DEF ReaderTypeOK
  <2> QED
    BY <1>1, <2>1 DEF ReaderTypeOK
<1> QED
  BY <1>1, <1>2 DEF ReaderTypeOK, PlaceInv, Kafka

(* The steps of readers and their callers, and those of targets.           *)
SourceStep ==
  \/ \E call \in {"unpredicted", "data"}, offset \in Offsets :
       \E begin \in Begins(offset) : StartRead(call, offset, begin)
  \/ Poll \/ PollNone \/ PollError \/ \E p \in {FullPage, RestPage} : Puts(p)
  \/ EndRead \/ SkipChunk \/ ReturnFrame \/ Await
  \/ \E yes \in BOOLEAN : Answer(yes)

SourceStays == UNCHANGED <<plan, log, readVars, windowVars, ghostVars>>
TargetStep ==
  \/ \E c \in Clients :
       Begin(c) \/ BeginFails(c) \/ Create(c) \/ Delete(c) \/ Produce(c) \/ Deliver(c) \/ Flush(c)
  \/ Vanish

LEMMA StepsOfTwo ==
  ASSUME ReaderTypeOK, PlaceInv, [ConnectorNext]_connectorVars
  PROVE  /\ SourceStep \/ SourceStays
         /\ TargetStep \/ (UNCHANGED targetVars /\ plan' = plan)
<1>1. CASE TargetStep
  <2>1. SourceStays
    BY <1>1 DEF TargetStep, SourceStays, Begin, BeginFails, Call, Create, Delete, Produce, Deliver,
                Flush, Vanish, sourceVars
  <2> QED
    BY <1>1, <2>1
<1>2. CASE CallerDies
  BY <1>2 DEF CallerDies, SourceStays
<1>3. CASE FullPagePut \/ RestPagePut
  <2>1. \E p \in {FullPage, RestPage} : Puts(p)
    BY <1>3, PuttingPuts
  <2>2. UNCHANGED targetVars /\ plan' = plan
    BY <1>3 DEF FullPagePut, RestPagePut
  <2> QED
    BY <2>1, <2>2 DEF SourceStep
<1>4. CASE UNCHANGED connectorVars
  BY <1>4 DEF connectorVars, sourceVars, SourceStays
<1>5. CASE \E call \in {"unpredicted", "data"}, offset \in Offsets :
             \E begin \in Begins(offset) : StartRead(call, offset, begin)
  <2>1. UNCHANGED targetVars /\ plan' = plan
    BY <1>5 DEF StartRead
  <2> QED
    BY <1>5, <2>1 DEF SourceStep
<1>6. CASE \/ Poll \/ PollNone \/ PollError \/ EndRead \/ SkipChunk \/ ReturnFrame \/ Await
           \/ \E yes \in BOOLEAN : Answer(yes)
  <2>1. UNCHANGED targetVars /\ plan' = plan
    BY <1>6 DEF Poll, PollNone, PollError, EndRead, SkipChunk, ReturnFrame, Await, Answer
  <2>2. SourceStep
    BY <1>6 DEF SourceStep
  <2> QED
    BY <2>1, <2>2
<1> QED
  BY <1>1, <1>2, <1>3, <1>4, <1>5, <1>6 DEF ConnectorNext, Reader, TargetStep

LEMMA PlaceKept ==
  ASSUME ReaderTypeOK, PlaceInv, WindowInv, SourceStep \/ SourceStays
  PROVE  ReaderTypeOK' /\ PlaceInv'
<1>1. CASE SourceStays
  BY <1>1 DEF SourceStays, ReaderTypeOK, PlaceInv, Kafka, readVars, windowVars, ghostVars
<1> QED
  BY <1>1, StartReadPlace, PollPlace, QuietPlace, PollErrorPlace, PutPlace, SkipChunkPlace,
     ReturnFramePlace, AwaitPlace, AnswerPlace DEF SourceStep

-----------------------------------------------------------------------------
(* The window.                                                             *)

LEMMA OneMore ==
  ASSUME NEW n \in Nat
  PROVE  /\ ProcessCount * (n + 1) = ProcessCount * n + ProcessCount
         /\ ProcessCount * 1 = ProcessCount /\ ProcessCount * n \in Nat
BY Caps

LEMMA RoomType == ReaderTypeOK => Room \in Nat
BY OneMore DEF Room, ReaderTypeOK

LEMMA WindowKept ==
  ASSUME ReaderTypeOK, PlaceInv, WindowInv, SourceStep \/ SourceStays
  PROVE  WindowInv'
<1> USE DEF WindowInv
<1>0. /\ Room \in Nat /\ ProcessCount \in Nat /\ ProcessCount >= 1 /\ sent \in Nat
      /\ waiting \in Nat /\ Len(answers) \in Nat
      /\ waiting + Len(answers) <= Room
      /\ WindowHolds' <=> waiting' + Len(answers') <= Room'
  BY RoomType, Caps, LenDomain DEF ReaderTypeOK, WindowHolds, Room
<1>1. ASSUME NEW call \in {"unpredicted", "data"}, NEW offset \in Offsets,
             NEW begin \in Begins(offset), StartRead(call, offset, begin)
      PROVE  WindowInv'
  <2>1. /\ pc' = "poll" /\ sent' = 0 /\ reads' = reads + 1 /\ plan' = plan /\ reads \in Nat
    BY <1>1 DEF StartRead, ReaderTypeOK
  <2>2. CASE plan.shared
    <3>1. waiting' = waiting /\ answers' = answers
      BY <1>1, <2>2 DEF StartRead, windowVars
    <3>2. Room' = Room + ProcessCount
      BY <2>1, <2>2, OneMore DEF Room
    <3> QED
      BY <1>0, <2>1, <3>1, <3>2
  <2>3. CASE ~plan.shared
    <3>1. waiting' = 0 /\ answers' = <<>>
      BY <1>1, <2>3 DEF StartRead
    <3>2. Room' = ProcessCount
      BY <2>1, <2>3, OneMore DEF Room
    <3>3. Len(answers') = 0
      BY <3>1, Blank
    <3> QED
      BY <1>0, <2>1, <3>1, <3>2, <3>3
  <2> QED
    BY <2>2, <2>3
<1>2. ASSUME UNCHANGED <<plan, reads, waiting, answers, sent>>,
             pc' = pc \/ pc' = "idle" \/ (pc \in {"poll", "full", "rest"} /\
                                           pc' \in {"poll", "full", "rest"})
      PROVE  WindowInv'
  BY <1>0, <1>2 DEF Room
<1>3. CASE Poll \/ PollNone \/ PollError \/ EndRead \/ SkipChunk \/ ReturnFrame \/ SourceStays
  <2>1. UNCHANGED <<plan, reads, waiting, answers, sent>>
    BY <1>3 DEF Poll, PollNone, PollError, EndRead, SkipChunk, ReturnFrame, SourceStays,
                readVars, windowVars, ghostVars
  <2>2. \/ pc' = pc \/ pc' = "idle"
        \/ pc \in {"poll", "full", "rest"} /\ pc' \in {"poll", "full", "rest"}
    BY <1>3 DEF Poll, PollNone, PollError, Raise, AtEnd, EndRead, SkipChunk, ReturnFrame,
                SourceStays, readVars
  <2> QED
    BY <1>2, <2>1, <2>2
<1>4. ASSUME NEW p \in {FullPage, RestPage}, Puts(p) PROVE WindowInv'
  <2>1. /\ waiting' = waiting + 1 /\ UNCHANGED <<plan, answers, reads>>
        /\ \/ sent' = sent + 1 /\ pc' = (IF sent' >= ProcessCount THEN "await" ELSE "poll")
           \/ sent' = sent /\ pc' = "idle"
    BY <1>4 DEF Puts, PutPage, WindowFull
  <2>2. sent < ProcessCount /\ waiting + Len(answers) + (ProcessCount - sent) <= Room
    BY <1>4 DEF Puts
  <2>3. Room' = Room
    BY <2>1 DEF Room
  <2>4. waiting' + Len(answers') <= Room'
    BY <1>0, <2>1, <2>2, <2>3
  <2>5. CASE sent' = sent + 1 /\ pc' = (IF sent' >= ProcessCount THEN "await" ELSE "poll")
    BY <1>0, <2>1, <2>2, <2>3, <2>4, <2>5
  <2>6. CASE sent' = sent /\ pc' = "idle"
    BY <1>0, <2>4, <2>6
  <2> QED
    BY <2>1, <2>5, <2>6
<1>5. CASE Await
  <2>1. /\ pc = "await" /\ answers # <<>> /\ answers' = Tail(answers)
        /\ \/ pc' = "poll" /\ sent' = sent - 1
           \/ pc' = "idle" /\ sent' = sent
        /\ UNCHANGED <<plan, waiting, reads>>
    BY <1>5 DEF Await, ghostVars
  <2>2. Len(answers') = Len(answers) - 1
    BY <2>1, HeadTailProperties DEF ReaderTypeOK
  <2>3. Room' = Room
    BY <2>1 DEF Room
  <2>4. sent = ProcessCount /\ waiting + Len(answers) + (ProcessCount - sent) <= Room
    BY <2>1
  <2> QED
    BY <1>0, <2>1, <2>2, <2>3, <2>4
<1>6. ASSUME NEW yes \in BOOLEAN, Answer(yes) PROVE WindowInv'
  <2>1. /\ waiting' = waiting - 1 /\ answers' = Append(answers, yes)
        /\ UNCHANGED <<plan, reads, pc, sent>>
    BY <1>6 DEF Answer, readVars, ghostVars
  <2>2. Len(answers') = Len(answers) + 1
    BY <2>1, Appended DEF ReaderTypeOK
  <2>3. Room' = Room
    BY <2>1 DEF Room
  <2> QED
    BY <1>0, <2>1, <2>2, <2>3
<1> QED
  BY <1>1, <1>3, <1>4, <1>5, <1>6 DEF SourceStep

-----------------------------------------------------------------------------
(* Targets.                                                                *)

(* A client's place changes, to one that is not special to the target.     *)
LEMMA ClientMoves ==
  ASSUME TargetTypeOK, TargetInv, NEW c \in Clients, NEW place \in Places,
         Go(c, place), UNCHANGED <<plan, target, doomed>>,
         place = "created" /\ ~doomed => target = "present",
         place = "written" => buffer'[c] = 0,
         ~Kafka => place # "flushing" /\ buffer'[c] = 0,
         \A d \in Clients : d # c => buffer'[d] = buffer[d]
  PROVE  cpc' \in [Clients -> Places] /\ TargetInv'
<1>1. cpc' = [cpc EXCEPT ![c] = place] /\ cpc \in [Clients -> Places]
  BY DEF Go, TargetTypeOK
<1>2. Kafka' = Kafka
  BY DEF Kafka
<1>3. ASSUME NEW d \in Clients
      PROVE  /\ cpc'[d] = "created" /\ ~doomed' => target' = "present"
             /\ cpc'[d] = "written" => buffer'[d] = 0
             /\ ~Kafka => buffer'[d] = 0 /\ cpc'[d] # "flushing"
  <2>1. CASE d = c
    BY <1>1, <2>1
  <2>2. CASE d # c
    BY <1>1, <2>2 DEF TargetInv, TargetHolds
  <2> QED
    BY <2>1, <2>2
<1>4. target' = "doomed" => doomed'
  BY DEF TargetInv
<1> QED
  BY <1>1, <1>2, <1>3, <1>4 DEF TargetInv, TargetHolds

LEMMA BeginKeeps ==
  ASSUME TargetTypeOK, TargetInv, NEW c \in Clients, Begin(c)
  PROVE  TargetTypeOK' /\ TargetInv'
<1>1. /\ calls' = [calls EXCEPT ![c] = @ + 1]
      /\ UNCHANGED <<plan, target, doomed, buffer>>
      /\ \E place \in {"creating", "created", "recreating", "deleted", "deleting", "writing"} :
           Go(c, place) /\ (place = "created" => target # "absent")
  <2>1. /\ calls' = [calls EXCEPT ![c] = @ + 1]
        /\ UNCHANGED <<plan, target, doomed, buffer>>
    BY DEF Begin, Call
  <2>2. \E place \in {"creating", "created", "recreating", "deleted", "deleting", "writing"} :
          Go(c, place) /\ (place = "created" => target # "absent")
    BY DEF Begin
  <2> QED
    BY <2>1, <2>2
<1>2. PICK place \in {"creating", "created", "recreating", "deleted", "deleting", "writing"} :
        Go(c, place) /\ (place = "created" => target # "absent")
  BY <1>1
<1>3. place = "created" /\ ~doomed => target = "present"
  BY <1>2 DEF TargetInv, TargetTypeOK
<1>4. ~Kafka => buffer'[c] = 0
  BY <1>1 DEF TargetInv
<1>5. place \in Places /\ place # "written" /\ place # "flushing"
  BY DEF Places
<1>6. cpc' \in [Clients -> Places] /\ TargetInv'
  BY <1>1, <1>2, <1>3, <1>4, <1>5, ClientMoves
<1>7. calls' \in [Clients -> Nat]
  BY <1>1 DEF TargetTypeOK
<1> QED
  BY <1>1, <1>6, <1>7 DEF TargetTypeOK

LEMMA BeginFailsKeeps ==
  ASSUME TargetTypeOK, TargetInv, NEW c \in Clients, BeginFails(c)
  PROVE  TargetTypeOK' /\ TargetInv'
<1>1. /\ Go(c, "raised") /\ UNCHANGED <<plan, target, doomed, buffer>>
      /\ calls' = [calls EXCEPT ![c] = @ + 1]
  BY DEF BeginFails, Refused, Call
<1>2. ~Kafka => buffer'[c] = 0
  BY <1>1 DEF TargetInv
<1>3. "raised" \in Places
  BY DEF Places
<1>4. cpc' \in [Clients -> Places] /\ TargetInv'
  BY <1>1, <1>2, <1>3, ClientMoves
<1>5. calls' \in [Clients -> Nat]
  BY <1>1 DEF TargetTypeOK
<1> QED
  BY <1>1, <1>4, <1>5 DEF TargetTypeOK

(* The target may change with the step, as long as it does not go away     *)
(* without a mark.                                                         *)
LEMMA TargetMoves ==
  ASSUME TargetTypeOK, TargetInv, NEW c \in Clients, NEW place \in Places,
         Go(c, place), plan' = plan, buffer' = buffer, doomed' \in BOOLEAN,
         target' \in {"absent", "present", "doomed"},
         target = "present" /\ ~doomed' => target' = "present",
         doomed => doomed',
         target' = "doomed" => doomed',
         place \notin {"written", "flushing"},
         place = "created" /\ ~doomed' => target' = "present"
  PROVE  cpc' \in [Clients -> Places] /\ TargetInv'
<1>1. cpc' = [cpc EXCEPT ![c] = place] /\ cpc \in [Clients -> Places]
  BY DEF Go, TargetTypeOK
<1>2. Kafka' = Kafka
  BY DEF Kafka
<1>3. ASSUME NEW d \in Clients
      PROVE  /\ cpc'[d] = "created" /\ ~doomed' => target' = "present"
             /\ cpc'[d] = "written" => buffer'[d] = 0
             /\ ~Kafka => buffer'[d] = 0 /\ cpc'[d] # "flushing"
  <2>1. CASE d = c
    BY <1>1, <2>1 DEF TargetInv
  <2>2. CASE d # c
    BY <1>1, <2>2 DEF TargetInv, TargetHolds
  <2> QED
    BY <2>1, <2>2
<1> QED
  BY <1>1, <1>2, <1>3 DEF TargetInv, TargetHolds

LEMMA CreateKeeps ==
  ASSUME TargetTypeOK, TargetInv, NEW c \in Clients, Create(c)
  PROVE  TargetTypeOK' /\ TargetInv'
<1>1. UNCHANGED <<plan, doomed, calls, buffer>>
  BY DEF Create
<1>2. \/ Go(c, "created") /\ target' = (IF target = "absent" THEN "present" ELSE target)
      \/ Go(c, "raised") /\ target' = target
  BY DEF Create, Refused
<1>3. "created" \in Places /\ "raised" \in Places
  BY DEF Places
<1>4. target' \in {"absent", "present", "doomed"}
  BY <1>2 DEF TargetTypeOK
<1>5. CASE Go(c, "created") /\ target' = (IF target = "absent" THEN "present" ELSE target)
  <2>1. ~doomed' => target' = "present"
    BY <1>1, <1>5 DEF TargetInv, TargetTypeOK
  <2>2. target' = "doomed" => doomed'
    BY <1>1, <1>5 DEF TargetInv
  <2>3. cpc' \in [Clients -> Places] /\ TargetInv'
    BY <1>1, <1>3, <1>4, <1>5, <2>1, <2>2, TargetMoves DEF TargetTypeOK
  <2> QED
    BY <1>1, <1>4, <2>3 DEF TargetTypeOK
<1>6. CASE Go(c, "raised") /\ target' = target
  <2>1. cpc' \in [Clients -> Places] /\ TargetInv'
    BY <1>1, <1>3, <1>4, <1>6, TargetMoves DEF TargetTypeOK, TargetInv
  <2> QED
    BY <1>1, <1>4, <2>1 DEF TargetTypeOK
<1> QED
  BY <1>2, <1>5, <1>6

LEMMA DeleteKeeps ==
  ASSUME TargetTypeOK, TargetInv, NEW c \in Clients, Delete(c)
  PROVE  TargetTypeOK' /\ TargetInv'
<1>1. UNCHANGED <<plan, calls, buffer>>
  BY DEF Delete
<1>2. /\ \/ UNCHANGED <<target, doomed>>
         \/ target' \in {"absent", "doomed"} /\ doomed' = TRUE
      /\ \E place \in {"deleted", "raised", "creating"} : Go(c, place)
  <2>1. CASE Kafka
    BY <2>1 DEF Delete
  <2>2. CASE ~Kafka
    <3>1. target' = "absent" /\ doomed' = TRUE
      BY <2>2 DEF Delete
    <3>2. \E place \in {"deleted", "raised", "creating"} : Go(c, place)
      BY <2>2 DEF Delete
    <3> QED
      BY <3>1, <3>2
  <2> QED
    BY <2>1, <2>2
<1>3. PICK place \in {"deleted", "raised", "creating"} : Go(c, place)
  BY <1>2
<1>4. place \in Places /\ place \notin {"created", "written", "flushing"}
  BY DEF Places
<1>5. target' \in {"absent", "present", "doomed"} /\ doomed' \in BOOLEAN
  BY <1>2 DEF TargetTypeOK
<1>6. /\ target = "present" /\ ~doomed' => target' = "present"
      /\ doomed => doomed'
      /\ target' = "doomed" => doomed'
  BY <1>2 DEF TargetInv
<1>7. cpc' \in [Clients -> Places] /\ TargetInv'
  BY <1>1, <1>3, <1>4, <1>5, <1>6, TargetMoves
<1> QED
  BY <1>1, <1>5, <1>7 DEF TargetTypeOK

LEMMA VanishKeeps ==
  ASSUME TargetTypeOK, TargetInv, Vanish
  PROVE  TargetTypeOK' /\ TargetInv'
<1>1. /\ target = "doomed" /\ target' = "absent"
      /\ UNCHANGED <<plan, doomed, calls, cpc, buffer>>
  BY DEF Vanish
<1>2. doomed
  BY <1>1 DEF TargetInv
<1> QED
  BY <1>1, <1>2 DEF TargetTypeOK, TargetInv, TargetHolds, Kafka

LEMMA ProduceKeeps ==
  ASSUME TargetTypeOK, TargetInv, NEW c \in Clients, Produce(c)
  PROVE  TargetTypeOK' /\ TargetInv'
<1>1. /\ UNCHANGED <<plan, doomed, calls>>
      /\ buffer \in [Clients -> Nat] /\ cpc \in [Clients -> Places]
  BY DEF Produce, TargetTypeOK
<1>2. "flushing" \in Places /\ "raised" \in Places /\ "written" \in Places
  BY DEF Places
<1>3. CASE Kafka
  <2>1. /\ target' = target
        /\ \/ buffer' = [buffer EXCEPT ![c] = @ + 2] /\ Go(c, "flushing")
           \/ buffer' = [buffer EXCEPT ![c] = @ + 1] /\ Go(c, "raised")
    BY <1>3 DEF Produce, Refused
  <2>4. buffer' \in [Clients -> Nat]
    BY <1>1, <2>1
  <2>5. \A d \in Clients : d # c => buffer'[d] = buffer[d]
    BY <1>1, <2>1
  <2>6. cpc' \in [Clients -> Places] /\ TargetInv'
    <3>1. CASE Go(c, "flushing")
      BY <1>1, <1>2, <1>3, <2>1, <2>5, <3>1, ClientMoves
    <3>2. CASE Go(c, "raised")
      BY <1>1, <1>2, <1>3, <2>1, <2>5, <3>2, ClientMoves
    <3> QED
      BY <2>1, <3>1, <3>2
  <2> QED
    BY <1>1, <2>1, <2>4, <2>6 DEF TargetTypeOK
<1>4. CASE ~Kafka
  <2>1. /\ buffer' = buffer
        /\ \/ target' = "present" /\ Go(c, "written")
           \/ target' = target /\ Go(c, "raised")
    BY <1>4 DEF Produce, Refused
  <2>2. target' \in {"absent", "present", "doomed"}
    BY <2>1 DEF TargetTypeOK
  <2>3. \A d \in Clients : buffer'[d] = 0 /\ cpc[d] # "flushing"
    BY <1>4, <2>1 DEF TargetInv
  <2>4. PICK place \in {"written", "raised"} :
          Go(c, place) /\ (place = "written" => target' = "present") /\
          (place = "raised" => target' = target)
    BY <2>1
  <2>5. cpc' = [cpc EXCEPT ![c] = place] /\ cpc' \in [Clients -> Places]
    BY <1>2, <2>4 DEF Go, TargetTypeOK
  <2>6. \A d \in Clients : cpc'[d] = cpc[d] \/ cpc'[d] \in {"written", "raised"}
    BY <2>4, <2>5 DEF TargetTypeOK
  <2>7. /\ target = "present" => target' = "present"
        /\ target' = "doomed" => target = "doomed"
    BY <2>1
  <2>8. Kafka' = Kafka /\ doomed' = doomed
    BY <1>1 DEF Kafka
  <2>9. TargetHolds'
    <3> SUFFICES ASSUME NEW d \in Clients
                 PROVE  /\ cpc'[d] = "created" /\ ~doomed => target' = "present"
                        /\ cpc'[d] = "written" => buffer'[d] = 0
      BY <2>8 DEF TargetHolds
    <3>1. cpc'[d] = "created" => cpc[d] = "created"
      BY <2>6
    <3> QED
      BY <2>3, <2>7, <3>1 DEF TargetInv, TargetHolds
  <2>10. \A d \in Clients : buffer'[d] = 0 /\ cpc'[d] # "flushing"
    BY <2>3, <2>6
  <2>11. TargetInv'
    BY <2>7, <2>8, <2>9, <2>10 DEF TargetInv
  <2> QED
    BY <1>1, <2>1, <2>2, <2>5, <2>11 DEF TargetTypeOK
<1> QED
  BY <1>3, <1>4

LEMMA DeliverKeeps ==
  ASSUME TargetTypeOK, TargetInv, NEW c \in Clients, Deliver(c)
  PROVE  TargetTypeOK' /\ TargetInv'
<1>1. /\ buffer[c] > 0 /\ buffer' = [buffer EXCEPT ![c] = @ - 1]
      /\ UNCHANGED <<plan, target, doomed, calls, cpc>>
  BY DEF Deliver
<1>2. buffer \in [Clients -> Nat] /\ buffer[c] - 1 \in Nat /\ buffer[c] # 0
  BY <1>1 DEF TargetTypeOK
<1>3. buffer' \in [Clients -> Nat]
  BY <1>1, <1>2
<1>6. TargetTypeOK'
  BY <1>1, <1>3 DEF TargetTypeOK
<1>7. Kafka /\ Kafka' /\ cpc[c] # "written"
  BY <1>1, <1>2 DEF TargetInv, TargetHolds, Kafka
<1>8. \A d \in Clients : cpc[d] = "written" => buffer'[d] = 0
  BY <1>1, <1>7 DEF TargetInv, TargetHolds, TargetTypeOK
<1> QED
  BY <1>1, <1>6, <1>7, <1>8 DEF TargetInv, TargetHolds

LEMMA FlushKeeps ==
  ASSUME TargetTypeOK, TargetInv, NEW c \in Clients, Flush(c)
  PROVE  TargetTypeOK' /\ TargetInv'
<1>1. /\ cpc[c] = "flushing" /\ buffer[c] = 0 /\ Go(c, "written")
      /\ UNCHANGED <<plan, target, doomed, calls, buffer>>
  BY DEF Flush
<1>2. "written" \in Places
  BY DEF Places
<1>3. cpc' \in [Clients -> Places] /\ TargetInv'
  BY <1>1, <1>2, ClientMoves
<1> QED
  BY <1>1, <1>3 DEF TargetTypeOK

LEMMA TargetKept ==
  ASSUME TargetTypeOK, TargetInv, TargetStep \/ (UNCHANGED targetVars /\ plan' = plan)
  PROVE  TargetTypeOK' /\ TargetInv'
<1>1. CASE UNCHANGED targetVars /\ plan' = plan
  BY <1>1 DEF targetVars, TargetTypeOK, TargetInv, TargetHolds, Kafka
<1>2. CASE TargetStep
  BY <1>2, BeginKeeps, BeginFailsKeeps, CreateKeeps, DeleteKeeps, ProduceKeeps, DeliverKeeps,
     FlushKeeps, VanishKeeps DEF TargetStep
<1> QED
  BY <1>1, <1>2

(* The two variables that belong to neither.                               *)
LEMMA FaultsKept ==
  ASSUME faults \in 0 .. MaxFaults, answering \in BOOLEAN, [ConnectorNext]_connectorVars
  PROVE  faults' \in 0 .. MaxFaults /\ answering' \in BOOLEAN
<1>0. MaxFaults \in Nat
  BY Caps
<1>1. answering' \in BOOLEAN
  <2>1. CASE CallerDies
    BY <2>1 DEF CallerDies
  <2>2. CASE ~CallerDies
    BY <2>2 DEF ConnectorNext, Reader, StartRead, Poll, PollNone, PollError, FullPagePut,
                RestPagePut, EndRead, SkipChunk, ReturnFrame, Await, Answer, Begin, BeginFails,
                Call, Create, Delete, Produce, Deliver, Flush, Vanish, sourceVars, connectorVars
  <2> QED
    BY <2>1, <2>2
<1>2. faults' = faults \/ (faults < MaxFaults /\ faults' = faults + 1)
  BY DEF ConnectorNext, Reader, StartRead, Poll, PollNone, PollError, FullPagePut,
         RestPagePut, EndRead, SkipChunk, ReturnFrame, Await, Answer, CallerDies, Begin,
         BeginFails, Call, Create, Delete, Produce, Deliver, Flush, Vanish, Refused, connectorVars
<1> QED
  BY <1>0, <1>1, <1>2

-----------------------------------------------------------------------------
(* Values that no read handed over.                                        *)

Lost == Reached \ (passedOn \cup jumped \cup ToSet(data))

LEMMA LossOfLost ==
  /\ LossBounded <=> (Kafka => Cardinality(Lost) <= failed * (Limit - 1))
  /\ LossBounded' <=> (Kafka' => Cardinality(Lost') <= failed' * (Limit - 1))
BY DEF LossBounded, Lost

LEMMA LostFinite == ReaderTypeOK => IsFiniteSet(Lost) /\ Cardinality(Lost) \in Nat
<1> SUFFICES ASSUME ReaderTypeOK PROVE IsFiniteSet(Lost) /\ Cardinality(Lost) \in Nat
  OBVIOUS
<1>1. IsFiniteSet(0 .. position - 1)
  BY FS_Interval DEF ReaderTypeOK
<1>2. Lost \subseteq 0 .. position - 1
  BY DEF Lost, Reached
<1> QED
  BY <1>1, <1>2, FS_Subset, FS_CardinalityType

LEMMA FewerThanLen ==
  ASSUME NEW S, NEW s \in Seq(S)
  PROVE  IsFiniteSet(ToSet(s)) /\ Cardinality(ToSet(s)) <= Len(s)
<1>1. Len(s) \in Nat /\ DOMAIN s = 1 .. Len(s)
  BY LenDomain
<1>2. s \in Surjection(1 .. Len(s), ToSet(s))
  <2>1. s \in [1 .. Len(s) -> ToSet(s)]
    <3>1. s = [i \in 1 .. Len(s) |-> s[i]]
      BY <1>1
    <3> QED
      BY <1>1, <3>1 DEF ToSet
  <2>2. \A e \in ToSet(s) : \E i \in 1 .. Len(s) : s[i] = e
    BY <1>1 DEF ToSet
  <2> QED
    BY <2>1, <2>2 DEF Surjection
<1>3. IsFiniteSet(1 .. Len(s)) /\ Cardinality(1 .. Len(s)) = Len(s)
  <2>1. /\ IsFiniteSet(1 .. Len(s))
        /\ Cardinality(1 .. Len(s)) = IF 1 > Len(s) THEN 0 ELSE Len(s) - 1 + 1
    BY <1>1, FS_Interval
  <2> QED
    BY <1>1, <2>1
<1>4. IsFiniteSet(ToSet(s)) /\ Cardinality(ToSet(s)) <= Cardinality(1 .. Len(s))
  BY <1>2, <1>3, FS_Surjection
<1> QED
  BY <1>3, <1>4

LEMMA NoMoreLost ==
  ASSUME ReaderTypeOK, LossBounded, plan' = plan, failed' = failed, Lost' \subseteq Lost
  PROVE  LossBounded'
<1>1. IsFiniteSet(Lost') /\ Cardinality(Lost') <= Cardinality(Lost)
  BY LostFinite, FS_Subset
<1>2. Cardinality(Lost) \in Nat /\ Cardinality(Lost') \in Nat
  BY <1>1, LostFinite, FS_CardinalityType
<1>3. CASE Kafka
  <2>1. Cardinality(Lost) <= failed * (Limit - 1)
    BY <1>3, LossOfLost
  <2>2. failed * (Limit - 1) \in Nat
    BY Caps DEF ReaderTypeOK
  <2>3. Cardinality(Lost') <= failed * (Limit - 1)
    BY <1>1, <1>2, <2>1, <2>2
  <2> QED
    BY <2>3, LossOfLost
<1>4. CASE ~Kafka
  BY <1>4 DEF LossBounded, Kafka
<1> QED
  BY <1>3, <1>4

(* A read that raises loses its open page.                                 *)
LEMMA OpenPageLost ==
  ASSUME ReaderTypeOK, PlaceInv, LossBounded, plan' = plan, failed' = failed + 1, pc = "poll",
         Lost' \subseteq Lost \cup ToSet(data)
  PROVE  LossBounded'
<1>1. IsFiniteSet(ToSet(data)) /\ Cardinality(ToSet(data)) <= Len(data)
  BY FewerThanLen DEF ReaderTypeOK
<1>2. Len(data) \in Nat /\ Len(data) < Limit /\ Limit \in Nat
  BY LenDomain, Caps DEF ReaderTypeOK, PlaceInv
<1>3. Cardinality(Lost) \in Nat /\ Cardinality(ToSet(data)) \in Nat
  BY <1>1, LostFinite, FS_CardinalityType
<1>4. /\ IsFiniteSet(Lost \cup ToSet(data))
      /\ Cardinality(Lost \cup ToSet(data)) =
           Cardinality(Lost) + Cardinality(ToSet(data)) - Cardinality(Lost \cap ToSet(data))
  BY <1>1, LostFinite, FS_Union
<1>5. Cardinality(Lost \cap ToSet(data)) \in Nat
  BY <1>1, FS_Intersection, FS_CardinalityType
<1>6. /\ Cardinality(Lost') \in Nat
      /\ Cardinality(Lost') <= Cardinality(Lost \cup ToSet(data))
  BY <1>4, FS_Subset, FS_CardinalityType
<1>7. CASE Kafka
  <2>1. Cardinality(Lost) <= failed * (Limit - 1)
    BY <1>7, LossOfLost
  <2>2. failed \in Nat /\ failed * (Limit - 1) \in Nat
    BY Caps DEF ReaderTypeOK
  <2>3. (failed + 1) * (Limit - 1) = failed * (Limit - 1) + (Limit - 1)
    BY <1>2, <2>2
  <2>4. Cardinality(Lost') <= failed * (Limit - 1) + (Limit - 1)
    BY <1>1, <1>2, <1>3, <1>4, <1>5, <1>6, <2>1, <2>2
  <2>5. Cardinality(Lost') <= failed' * (Limit - 1)
    BY <2>3, <2>4
  <2> QED
    BY <2>5, LossOfLost
<1>8. CASE ~Kafka
  BY <1>8 DEF LossBounded, Kafka
<1> QED
  BY <1>7, <1>8

LEMMA LossKept ==
  ASSUME ReaderTypeOK, PlaceInv, LossBounded, SourceStep \/ SourceStays
  PROVE  LossBounded'
<1> USE DEF Lost
<1>0. position \in Nat /\ data \in Seq(Nat)
  BY DEF ReaderTypeOK
<1>1. ASSUME NEW call \in {"unpredicted", "data"}, NEW offset \in Offsets,
             NEW begin \in Begins(offset), StartRead(call, offset, begin)
      PROVE  LossBounded'
  <2>1. /\ begin \in Nat /\ position' = begin /\ UNCHANGED <<plan, log, failed, passedOn>>
        /\ jumped' = (IF offset = None THEN jumped \cup 0 .. begin - 1 ELSE jumped)
        /\ data' = <<>> /\ data = <<>>
    BY <1>1, BeginsProps DEF StartRead, PlaceInv
  <2>2. CASE offset = None
    <3>1. Lost' = {}
      BY <2>1, <2>2 DEF Reached
    <3> QED
      BY <2>1, <3>1, NoMoreLost
  <2>3. CASE offset # None
    <3>1. begin <= position
      BY <1>1, <2>3, BeginsProps
    <3>2. Reached' \subseteq Reached
      <4>1. 0 .. begin - 1 \subseteq 0 .. position - 1
        BY <1>0, <2>1, <3>1
      <4> QED
        BY <2>1, <4>1 DEF Reached
    <3>3. Lost' \subseteq Lost
      BY <2>1, <2>3, <3>2
    <3> QED
      BY <2>1, <3>3, NoMoreLost
  <2> QED
    BY <2>2, <2>3
<1>2. CASE Poll
  <2>1. /\ pc = "poll" /\ position' = position + 1
        /\ UNCHANGED <<plan, log, passedOn, jumped>>
    BY <1>2 DEF Poll
  <2>2. 0 .. position' - 1 = (0 .. position - 1) \cup {position}
    BY <1>0, <2>1
  <2>3. CASE log[position + 1] = "value"
    <3>1. data' = Append(data, position) /\ failed' = failed
      BY <1>2, <2>3 DEF Poll
    <3>2. ToSet(data') = ToSet(data) \cup {position}
      BY <1>0, <3>1, AppendedSet
    <3>3. Reached' \subseteq Reached \cup {position}
      BY <2>1, <2>2 DEF Reached
    <3>4. Lost' \subseteq Lost
      BY <2>1, <3>2, <3>3
    <3> QED
      BY <2>1, <3>1, <3>4, NoMoreLost
  <2>4. CASE log[position + 1] # "value"
    <3>1. Reached' = Reached
      BY <2>1, <2>2, <2>4 DEF Reached
    <3>2. CASE log[position + 1] = "tombstone"
      <4>1. data' = data /\ failed' = failed
        BY <1>2, <3>2 DEF Poll
      <4>2. Lost' \subseteq Lost
        BY <2>1, <3>1, <4>1
      <4> QED
        BY <2>1, <4>1, <4>2, NoMoreLost
    <3>3. CASE log[position + 1] # "tombstone"
      <4>1. data' = <<>> /\ failed' = failed + 1
        BY <1>2, <2>4, <3>3 DEF Poll, Raise
      <4>2. Lost' \subseteq Lost \cup ToSet(data)
        BY <2>1, <3>1, <4>1
      <4> QED
        BY <2>1, <4>1, <4>2, OpenPageLost
    <3> QED
      BY <3>2, <3>3
  <2> QED
    BY <2>3, <2>4
<1>3. CASE PollError
  <2>1. /\ pc = "poll" /\ data' = <<>> /\ failed' = failed + 1
        /\ UNCHANGED <<plan, log, position, passedOn, jumped>>
    BY <1>3 DEF PollError, Raise
  <2>2. Lost' \subseteq Lost \cup ToSet(data)
    BY <2>1 DEF Reached
  <2> QED
    BY <2>1, <2>2, OpenPageLost
<1>4. ASSUME UNCHANGED <<plan, log, position, failed, jumped>>,
             \/ data' = data /\ passedOn' = passedOn
             \/ passedOn' = passedOn \cup ToSet(data)
      PROVE  LossBounded'
  <2>1. Lost' \subseteq Lost
    BY <1>4 DEF Reached
  <2> QED
    BY <1>4, <2>1, NoMoreLost
<1>5. CASE PollNone \/ EndRead \/ Await \/ (\E yes \in BOOLEAN : Answer(yes)) \/ SourceStays
  BY <1>4, <1>5 DEF PollNone, EndRead, Await, Answer, SourceStays, readVars, ghostVars
<1>6. ASSUME NEW p \in {FullPage, RestPage}, Puts(p) PROVE LossBounded'
  <2>1. p.Data = data
    BY PageProps
  <2> QED
    BY <1>4, <1>6, <2>1 DEF Puts, PutPage
<1>7. CASE ReturnFrame
  BY <1>4, <1>7 DEF ReturnFrame
<1>8. CASE SkipChunk
  BY <1>8 DEF SkipChunk, LossBounded, Kafka
<1> QED
  BY <1>1, <1>2, <1>3, <1>5, <1>6, <1>7, <1>8 DEF SourceStep

-----------------------------------------------------------------------------
(* The order of what is handed over.                                       *)

LEMMA PollsOne ==
  ASSUME ReaderTypeOK, InOrder, HandedOver \subseteq Polled, data' = Append(data, position),
         pages' = pages
  PROVE  InOrder' /\ HandedOver' = HandedOver \cup {position}
<1>1. /\ data \in Seq(Nat) /\ position \in Nat /\ Len(data) \in Nat /\ DOMAIN data = 1 .. Len(data)
      /\ DOMAIN data' = 1 .. Len(data) + 1 /\ data'[Len(data) + 1] = position
      /\ \A i \in 1 .. Len(data) : data'[i] = data[i]
      /\ ToSet(data') = ToSet(data) \cup {position}
  <2>1. data \in Seq(Nat) /\ position \in Nat
    BY DEF ReaderTypeOK
  <2> QED
    BY <2>1, Appended, AppendedSet, LenDomain
<1>2. \A o \in HandedOver : o \in Nat /\ o < position
  BY <1>1 DEF Polled, ReaderTypeOK
<1>3. Ascends(data')
  <2> SUFFICES ASSUME NEW i \in 1 .. Len(data) + 1, NEW j \in 1 .. Len(data) + 1, i < j
               PROVE  data'[i] < data'[j]
    BY <1>1 DEF Ascends
  <2>1. i \in 1 .. Len(data) /\ data'[i] = data[i]
    BY <1>1
  <2>2. CASE j = Len(data) + 1
    <3>1. data[i] \in HandedOver
      BY <1>1, <2>1 DEF HandedOver, ToSet
    <3> QED
      BY <1>1, <1>2, <2>1, <2>2, <3>1
  <2>3. CASE j # Len(data) + 1
    <3>1. j \in 1 .. Len(data) /\ data'[j] = data[j]
      BY <1>1, <2>3
    <3> QED
      BY <1>1, <2>1, <3>1 DEF InOrder, Ascends
  <2> QED
    BY <2>2, <2>3
<1>4. ASSUME NEW i \in DOMAIN pages PROVE Below(pages[i].Data, data')
  <2>1. ToSet(pages[i].Data) \subseteq HandedOver
    BY DEF HandedOver, InPages
  <2> QED
    BY <1>1, <1>2, <2>1 DEF InOrder, Below
<1>5. InOrder'
  BY <1>3, <1>4 DEF InOrder
<1>6. InPages' = InPages
  BY DEF InPages
<1> QED
  BY <1>1, <1>5, <1>6 DEF HandedOver

LEMMA HandsOver ==
  ASSUME ReaderTypeOK, InOrder, NEW p \in Sheet, p.Data = data, pages' = Append(pages, p),
         data' = <<>>
  PROVE  InOrder' /\ HandedOver' = HandedOver
<1>1. /\ Len(pages) \in Nat /\ DOMAIN pages = 1 .. Len(pages)
      /\ DOMAIN pages' = 1 .. Len(pages) + 1 /\ pages'[Len(pages) + 1] = p
      /\ \A i \in 1 .. Len(pages) : pages'[i] = pages[i]
  BY Appended, LenDomain DEF ReaderTypeOK
<1>2. 1 .. Len(pages) + 1 = (1 .. Len(pages)) \cup {Len(pages) + 1}
  BY <1>1
<1>3. ToSet(data') = {} /\ DOMAIN data' = {}
  BY Blank
<1>4. HandedOver' = HandedOver
  <2>1. InPages' = UNION {ToSet(pages'[i].Data) : i \in DOMAIN pages'}
    BY DEF InPages
  <2>2. InPages' = InPages \cup ToSet(data)
    BY <1>1, <1>2, <2>1 DEF InPages
  <2> QED
    BY <1>3, <2>2 DEF HandedOver
<1>5. Ascends(data') /\ \A i \in DOMAIN pages' : Below(pages'[i].Data, data')
  BY <1>3 DEF Ascends, Below
<1>6. \A i \in DOMAIN pages' : Ascends(pages'[i].Data)
  BY <1>1, <1>2 DEF InOrder
<1>7. ASSUME NEW i \in DOMAIN pages', NEW j \in DOMAIN pages', i < j
      PROVE  Below(pages'[i].Data, pages'[j].Data)
  <2>1. i \in 1 .. Len(pages) /\ pages'[i] = pages[i]
    BY <1>1, <1>7
  <2>2. CASE j \in 1 .. Len(pages)
    BY <1>1, <1>7, <2>1, <2>2 DEF InOrder
  <2>3. CASE j \notin 1 .. Len(pages)
    BY <1>1, <1>2, <2>1, <2>3 DEF InOrder
  <2> QED
    BY <2>2, <2>3
<1>8. InOrder'
  BY <1>5, <1>6, <1>7 DEF InOrder
<1> QED
  BY <1>4, <1>8

LEMMA DropsPage ==
  ASSUME InOrder, pages' = pages, data' = <<>>
  PROVE  InOrder' /\ HandedOver' = InPages /\ HandedOver' \subseteq HandedOver
<1>1. ToSet(data') = {} /\ DOMAIN data' = {}
  BY Blank
<1>2. InPages' = InPages
  BY DEF InPages
<1>3. Ascends(data') /\ \A i \in DOMAIN pages' : Below(pages'[i].Data, data')
  BY <1>1 DEF Ascends, Below
<1> QED
  BY <1>1, <1>2, <1>3 DEF InOrder, HandedOver

LEMMA NothingHanded == pages = <<>> => InPages = {}
BY DEF InPages

LEMMA FirstPage ==
  ASSUME ReaderTypeOK, NEW p, pages = <<>>, pages' = <<p>>
  PROVE  pages' = Append(pages, p)
OBVIOUS

LEMMA FrameProps ==
  /\ ReaderTypeOK => Page(None, None, None) \in Sheet
  /\ Page(None, None, None).Data = data
BY DEF Page, Sheet, Maybe, ReaderTypeOK

LEMMA OrderKept ==
  ASSUME ReaderTypeOK, PlaceInv, OrderInv, SourceStep \/ SourceStays
  PROVE  OrderInv'
<1>0. first \in Nat /\ position \in Nat /\ first <= position
  BY DEF ReaderTypeOK, PlaceInv
<1>1. ASSUME NEW call \in {"unpredicted", "data"}, NEW offset \in Offsets,
             NEW begin \in Begins(offset), StartRead(call, offset, begin)
      PROVE  OrderInv'
  <2>1. pages' = <<>> /\ data' = <<>> /\ first' = begin /\ position' = begin /\ begin \in Nat
    BY <1>1, BeginsProps DEF StartRead
  <2>2. InOrder'
    BY <2>1, Blank DEF InOrder, Ascends
  <2>3. HandedOver' = {}
    BY <2>1, Blank DEF HandedOver, InPages
  <2>4. Polled' = {}
    BY <2>1 DEF Polled
  <2> QED
    BY <2>2, <2>3, <2>4 DEF OrderInv
<1>2. CASE Poll
  <2>1. /\ pc = "poll" /\ position' = position + 1 /\ UNCHANGED <<log, first, op, pages>>
        /\ op # "none"
    BY <1>2 DEF Poll, PlaceInv
  <2>2. InOrder /\ HandedOver = Polled
    BY <2>1 DEF OrderInv
  <2>3. first' .. position' - 1 = (first .. position - 1) \cup {position}
    BY <1>0, <2>1
  <2>4. CASE log[position + 1] = "value"
    <3>1. data' = Append(data, position)
      BY <1>2, <2>4 DEF Poll
    <3>2. InOrder' /\ HandedOver' = HandedOver \cup {position}
      BY <2>1, <2>2, <3>1, PollsOne
    <3>3. Polled' = Polled \cup {position}
      BY <2>1, <2>3, <2>4 DEF Polled
    <3> QED
      BY <2>2, <3>2, <3>3 DEF OrderInv
  <2>5. CASE log[position + 1] # "value"
    <3>1. Polled' = Polled
      BY <2>1, <2>3, <2>5 DEF Polled
    <3>2. CASE log[position + 1] = "tombstone"
      <4>1. data' = data
        BY <1>2, <3>2 DEF Poll
      <4>2. InOrder' /\ HandedOver' = HandedOver
        BY <2>1, <2>2, <4>1 DEF InOrder, HandedOver, InPages
      <4> QED
        BY <2>2, <3>1, <4>2 DEF OrderInv
    <3>3. CASE log[position + 1] # "tombstone"
      <4>1. data' = <<>> /\ failed' = failed + 1 /\ pc' = "idle"
        BY <1>2, <2>5, <3>3 DEF Poll, Raise
      <4>2. InOrder' /\ HandedOver' \subseteq HandedOver
        BY <2>1, <2>2, <4>1, DropsPage
      <4>3. failed' # 0
        BY <4>1 DEF ReaderTypeOK
      <4> QED
        BY <2>2, <3>1, <4>1, <4>2, <4>3 DEF OrderInv
    <3> QED
      BY <3>2, <3>3
  <2> QED
    BY <2>4, <2>5
<1>3. CASE PollError
  <2>1. /\ pc = "poll" /\ data' = <<>> /\ failed' = failed + 1 /\ pc' = "idle" /\ op # "none"
        /\ UNCHANGED <<log, first, position, op, pages>>
    BY <1>3 DEF PollError, Raise, PlaceInv
  <2>2. InOrder' /\ HandedOver' \subseteq HandedOver
    BY <2>1, DropsPage DEF OrderInv
  <2>3. failed' # 0 /\ Polled' = Polled
    BY <2>1 DEF ReaderTypeOK, Polled
  <2> QED
    BY <2>1, <2>2, <2>3 DEF OrderInv
<1>4. CASE PollNone \/ EndRead \/ Await \/ (\E yes \in BOOLEAN : Answer(yes)) \/ SourceStays
  <2>1. UNCHANGED <<log, first, position, op, pages, data, failed>>
    BY <1>4 DEF PollNone, EndRead, Await, Answer, SourceStays, readVars, ghostVars
  <2>2. pc = "idle" => pc' = "idle"
    BY <1>4 DEF PollNone, AtEnd, EndRead, Await, Answer, SourceStays, readVars
  <2>3. Polled' = Polled /\ HandedOver' = HandedOver
    BY <2>1 DEF Polled, HandedOver, InPages
  <2>4. InOrder' <=> InOrder
    BY <2>1 DEF InOrder
  <2> QED
    BY <2>1, <2>2, <2>3, <2>4 DEF OrderInv
<1>5. ASSUME NEW p \in Sheet, p.Data = data, pages' = Append(pages, p), data' = <<>>,
             UNCHANGED <<log, first, position, op, failed>>, pc \in {"full", "rest"}
      PROVE  OrderInv'
  <2>1. op # "none" /\ pc # "idle"
    BY <1>5 DEF PlaceInv
  <2>2. InOrder' /\ HandedOver' = HandedOver
    BY <1>5, <2>1, HandsOver DEF OrderInv
  <2>3. Polled' = Polled
    BY <1>5 DEF Polled
  <2> QED
    BY <2>1, <2>2, <2>3 DEF OrderInv
<1>6. ASSUME NEW p \in {FullPage, RestPage}, Puts(p) PROVE OrderInv'
  <2>1. p \in Sheet /\ p.Data = data
    BY PageProps
  <2>2. /\ pages' = Append(pages, p) /\ data' = <<>> /\ pc \in {"full", "rest"}
        /\ UNCHANGED <<log, first, position, op, failed>>
    BY <1>6 DEF Puts, PutPage
  <2> QED
    BY <1>5, <2>1, <2>2
<1>7. CASE ReturnFrame
  <2>1. /\ pages' = <<Page(None, None, None)>> /\ data' = <<>> /\ pc \in {"full", "rest"}
        /\ UNCHANGED <<log, first, position, op, failed>> /\ pages = <<>>
    BY <1>7 DEF ReturnFrame, PlaceInv
  <2>2. pages' = Append(pages, Page(None, None, None))
    BY <2>1, FirstPage
  <2> QED
    BY <1>5, <2>1, <2>2, FrameProps
<1>8. CASE SkipChunk
  <2>1. /\ first' = position /\ data' = <<>> /\ pages = <<>> /\ op # "none"
        /\ UNCHANGED <<log, position, op, pages>>
    BY <1>8 DEF SkipChunk, PlaceInv
  <2>2. InOrder' /\ HandedOver' = {}
    BY <2>1, DropsPage, NothingHanded DEF OrderInv
  <2>3. Polled' = {}
    BY <1>0, <2>1 DEF Polled
  <2> QED
    BY <2>2, <2>3 DEF OrderInv
<1> QED
  BY <1>1, <1>2, <1>3, <1>4, <1>6, <1>7, <1>8 DEF SourceStep

-----------------------------------------------------------------------------
(* The frame of a file.                                                    *)

LEMMA FrameKept ==
  ASSUME ReaderTypeOK, PlaceInv, OrderInv, FrameInv, SourceStep \/ SourceStays
  PROVE  FrameInv'
<1>0. first \in Nat /\ position \in Nat /\ first <= position /\ start \in Nat
  BY DEF ReaderTypeOK, PlaceInv
<1>1. ASSUME NEW call \in {"unpredicted", "data"}, NEW offset \in Offsets,
             NEW begin \in Begins(offset), StartRead(call, offset, begin)
      PROVE  FrameInv'
  <2>1. /\ pages' = <<>> /\ first' = begin /\ position' = begin /\ begin \in Nat /\ plan' = plan
        /\ start' \in (IF call = "data" /\ ~Kafka THEN 0 .. Len(log) ELSE {0})
    BY <1>1, BeginsProps DEF StartRead
  <2>2. ASSUME ~Kafka PROVE first' <= start'
    <3>1. offset = None
      BY <2>2 DEF Offsets, Kafka, Plans, ReaderTypeOK, PlaceInv
    <3>2. begin = 0
      BY <2>2, <3>1 DEF Begins, Kafka, Plans, ReaderTypeOK
    <3>3. start' \in Nat
      <4>1. Len(log) \in Nat
        BY LenDomain DEF ReaderTypeOK
      <4> QED
        BY <2>1, <4>1
    <3> QED
      BY <2>1, <3>2, <3>3
  <2> QED
    BY <2>1, <2>2 DEF FrameInv, Kafka
<1>2. CASE Poll
  <2>1. /\ pc = "poll" /\ position' = position + 1 /\ position < Len(log)
        /\ UNCHANGED <<plan, log, first, op, start, pages>>
    BY <1>2 DEF Poll
  <2>2. op = "data" => pages' = <<>>
    BY <2>1 DEF PlaceInv
  <2>3. ASSUME ~Kafka, pc' # "idle" PROVE \A o \in first' .. position' - 1 : log'[o + 1] = "value"
    <3>1. log[position + 1] # "tombstone"
      <4>1. Len(log) \in Nat /\ DOMAIN log = 1 .. Len(log)
        BY LenDomain DEF ReaderTypeOK
      <4>2. position + 1 \in DOMAIN log
        BY <1>0, <2>1, <4>1
      <4> QED
        BY <2>3, <4>2 DEF PlaceInv
    <3>2. log[position + 1] = "value"
      BY <1>2, <2>3, <3>1 DEF Poll, Raise
    <3>3. first' .. position' - 1 = (first .. position - 1) \cup {position}
      BY <1>0, <2>1
    <3> QED
      BY <2>1, <2>3, <3>2, <3>3 DEF FrameInv
  <2> QED
    BY <2>1, <2>2, <2>3 DEF FrameInv, Kafka
<1>3. CASE PollError
  <2>1. /\ pc = "poll" /\ pc' = "idle" /\ UNCHANGED <<plan, op, pages>>
    BY <1>3 DEF PollError, Raise
  <2>2. op = "data" => pages' = <<>>
    BY <2>1 DEF PlaceInv
  <2> QED
    BY <2>1, <2>2 DEF FrameInv, Kafka
<1>4. CASE PollNone \/ EndRead \/ Await \/ (\E yes \in BOOLEAN : Answer(yes)) \/ SourceStays
  <2>1. UNCHANGED <<plan, log, first, position, op, start, pages, data>>
    BY <1>4 DEF PollNone, EndRead, Await, Answer, SourceStays, readVars, ghostVars
  <2>2. pc = "idle" => pc' = "idle"
    BY <1>4 DEF PollNone, AtEnd, EndRead, Await, Answer, SourceStays, readVars
  <2>3. HandedOver' = HandedOver
    BY <2>1 DEF HandedOver, InPages
  <2> QED
    BY <2>1, <2>2, <2>3 DEF FrameInv, Kafka
<1>5. ASSUME NEW p \in {FullPage, RestPage}, Puts(p) PROVE FrameInv'
  <2>1. /\ op = "unpredicted" /\ pc # "idle" /\ UNCHANGED <<plan, log, first, position, op>>
    BY <1>5 DEF Puts
  <2> QED
    BY <2>1 DEF FrameInv, Kafka
<1>6. CASE SkipChunk
  <2>1. /\ first' = position /\ pages' = pages /\ start >= position /\ pages = <<>>
        /\ UNCHANGED <<plan, log, position, op, start>>
    BY <1>6 DEF SkipChunk, PlaceInv
  <2>2. first' .. position' - 1 = {}
    BY <1>0, <2>1
  <2> QED
    BY <1>0, <2>1, <2>2 DEF FrameInv, Kafka
<1>7. CASE ReturnFrame
  <2>1. /\ pages' = <<Page(None, None, None)>> /\ data' = <<>> /\ pc \in {"full", "rest"}
        /\ pc' = "idle" /\ (Kafka \/ start < position) /\ op = "data" /\ pages = <<>>
        /\ UNCHANGED <<plan, log, first, position, op, start>>
    BY <1>7 DEF ReturnFrame, PlaceInv
  <2>2. pages' = Append(pages, Page(None, None, None))
    BY <2>1, FirstPage
  <2>3. HandedOver = Polled /\ InOrder
    BY <2>1 DEF OrderInv
  <2>4. HandedOver' = HandedOver
    BY <2>1, <2>2, <2>3, HandsOver, FrameProps
  <2>5. ASSUME ~Kafka PROVE start \in Polled
    <3>1. start \in first .. position - 1
      BY <1>0, <2>1, <2>5 DEF FrameInv
    <3> QED
      BY <2>1, <2>5, <3>1 DEF FrameInv, Polled
  <2> QED
    BY <2>1, <2>3, <2>4, <2>5 DEF FrameInv, Kafka
<1> QED
  BY <1>1, <1>2, <1>3, <1>4, <1>5, <1>6, <1>7 DEF SourceStep

-----------------------------------------------------------------------------
(* Files without rows.                                                     *)

LEMMA EmptyKept ==
  ASSUME ReaderTypeOK, PlaceInv, EmptyInv, SourceStep \/ SourceStays
  PROVE  EmptyInv'
<1>0. position \in Nat /\ Len(log) \in Nat /\ DOMAIN log = 1 .. Len(log)
  BY LenDomain DEF ReaderTypeOK
<1>1. ASSUME NEW call \in {"unpredicted", "data"}, NEW offset \in Offsets,
             NEW begin \in Begins(offset), StartRead(call, offset, begin)
      PROVE  EmptyInv'
  <2>1. data' = <<>> /\ pc' = "poll" /\ position' = begin /\ plan' = plan
    BY <1>1 DEF StartRead
  <2>2. ~Kafka => offset = None
    BY DEF Offsets, Kafka, Plans, ReaderTypeOK, PlaceInv
  <2>3. ~Kafka => begin = 0
    BY <2>2 DEF Begins, Kafka, Plans, ReaderTypeOK
  <2> QED
    BY <2>1, <2>3 DEF EmptyInv, Kafka
<1>2. CASE Poll
  <2>1. position < Len(log) /\ UNCHANGED <<plan, log, pages, op>> /\ log # <<>>
    BY <1>0, <1>2, Blank DEF Poll
  <2>2. pc' # "rest"
    BY <1>2 DEF Poll, Raise
  <2>3. ASSUME ~Kafka, pc' # "idle" PROVE data' # <<>>
    <3>1. log[position + 1] # "tombstone"
      <4>1. position + 1 \in DOMAIN log
        BY <1>0, <2>1
      <4> QED
        BY <2>3, <4>1 DEF PlaceInv
    <3>2. data' = Append(data, position)
      BY <1>2, <2>3, <3>1 DEF Poll, Raise
    <3>3. Len(data') # 0
      <4>1. Len(data') = Len(data) + 1 /\ Len(data) \in Nat
        BY <3>2, Appended, LenDomain DEF ReaderTypeOK
      <4> QED
        BY <4>1
    <3> QED
      BY <3>3, Blank
  <2> QED
    BY <2>1, <2>2, <2>3 DEF EmptyInv, Kafka
<1>3. CASE PollNone
  <2>1. /\ Kafka \/ position = Len(log)
        /\ pc = "poll" /\ UNCHANGED <<plan, log, position, data, pages, op>>
    BY <1>3 DEF PollNone, AtEnd
  <2> QED
    BY <2>1 DEF EmptyInv, Kafka
<1>4. ASSUME UNCHANGED <<plan, log>>, data' \in {data, <<>>}, pc' = "idle"
      PROVE  EmptyInv'
  BY <1>4 DEF EmptyInv
<1>5. CASE PollError \/ EndRead \/ ReturnFrame
  BY <1>4, <1>5 DEF PollError, Raise, EndRead, ReturnFrame
<1>6. CASE Await \/ (\E yes \in BOOLEAN : Answer(yes)) \/ SourceStays
  <2>1. UNCHANGED <<plan, log, position, data, pages, op>>
    BY <1>6 DEF Await, Answer, SourceStays, readVars, ghostVars
  <2>2. /\ pc' = "rest" => pc = "rest"
        /\ pc' # "idle" => pc # "idle"
    BY <1>6 DEF Await, Answer, SourceStays, readVars
  <2> QED
    BY <2>1, <2>2 DEF EmptyInv, Kafka
<1>7. ASSUME NEW p \in {FullPage, RestPage}, Puts(p) PROVE EmptyInv'
  <2>1. data' = <<>> /\ pages' = Append(pages, p) /\ pc' # "rest" /\ plan' = plan
    BY <1>7 DEF Puts, PutPage
  <2>2. pages' # <<>>
    <3>1. Len(pages') = Len(pages) + 1 /\ Len(pages) \in Nat
      BY <2>1, PageProps, Appended, LenDomain DEF ReaderTypeOK
    <3> QED
      BY <3>1, Blank
  <2> QED
    BY <2>1, <2>2 DEF EmptyInv
<1>8. CASE SkipChunk
  BY <1>8 DEF SkipChunk, EmptyInv
<1> QED
  BY <1>1, <1>2, <1>3, <1>5, <1>6, <1>7, <1>8 DEF SourceStep

-----------------------------------------------------------------------------
(* The ranges of the pages.                                                *)

LEMMA RangeKept ==
  ASSUME ReaderTypeOK, PlaceInv, EmptyInv, RangeInv, SourceStep \/ SourceStays
  PROVE  RangeInv'
<1>0. /\ Len(pages) \in Nat /\ DOMAIN pages = 1 .. Len(pages) /\ Len(data) \in Nat /\ total \in Nat
  BY LenDomain DEF ReaderTypeOK
<1>1. ASSUME NEW call \in {"unpredicted", "data"}, NEW offset \in Offsets,
             NEW begin \in Begins(offset), StartRead(call, offset, begin)
      PROVE  RangeInv'
  <2>1. pages' = <<>> /\ data' = <<>> /\ total' = 0
    BY <1>1 DEF StartRead
  <2>2. Len(pages') = 0 /\ Len(data') = 0 /\ DOMAIN pages' = {}
    BY <2>1, Blank
  <2>3. EndBefore(Len(pages) + 1)' = 0
    BY <2>2 DEF EndBefore
  <2> QED
    BY <2>1, <2>2, <2>3 DEF RangeInv
<1>2. ASSUME UNCHANGED <<plan, log, op, pages>>,
             pc' # "idle" => pc # "idle" /\ total' - Len(data') = total - Len(data),
             Len(data') \in Nat, total' \in Nat
      PROVE  RangeInv'
  <2>1. \A i : EndBefore(i)' = EndBefore(i)
    BY <1>2 DEF EndBefore
  <2>2. \A i : RangeHolds(i)' <=> RangeHolds(i)
    BY <1>2, <2>1 DEF RangeHolds, Kafka
  <2>3. ASSUME op = "unpredicted", pc' # "idle"
        PROVE  total' = EndBefore(Len(pages) + 1) + Len(data')
    <3>1. total = EndBefore(Len(pages) + 1) + Len(data)
      BY <1>2, <2>3 DEF RangeInv
    <3>2. EndBefore(Len(pages) + 1) \in Nat
      <4>1. CASE Len(pages) = 0
        BY <4>1 DEF EndBefore
      <4>2. CASE Len(pages) # 0
        <5>1. Len(pages) \in DOMAIN pages /\ Len(pages) + 1 # 1 /\ (Len(pages) + 1) - 1 = Len(pages)
          BY <1>0, <4>2
        <5> QED
          BY <2>3, <5>1 DEF EndBefore, RangeInv
      <4> QED
        BY <4>1, <4>2
    <3> QED
      BY <1>0, <1>2, <2>3, <3>1, <3>2
  <2> QED
    BY <1>2, <2>1, <2>2, <2>3 DEF RangeInv
<1>3. CASE Poll
  <2>1. pc = "poll" /\ UNCHANGED <<plan, log, op, pages>>
    BY <1>3 DEF Poll
  <2>2. CASE log[position + 1] = "value"
    <3>1. data' = Append(data, position) /\ total' = total + 1
      BY <1>3, <2>2 DEF Poll
    <3>2. Len(data') = Len(data) + 1
      BY <3>1, Appended DEF ReaderTypeOK
    <3> QED
      BY <1>0, <1>2, <2>1, <3>1, <3>2
  <2>3. CASE log[position + 1] = "tombstone"
    <3>1. data' = data /\ total' = total
      BY <1>3, <2>3 DEF Poll
    <3> QED
      BY <1>0, <1>2, <2>1, <3>1
  <2>4. CASE log[position + 1] \notin {"value", "tombstone"}
    <3>1. data' = <<>> /\ total' = total /\ pc' = "idle"
      BY <1>3, <2>4 DEF Poll, Raise
    <3> QED
      BY <1>0, <1>2, <2>1, <3>1, Blank
  <2> QED
    BY <2>2, <2>3, <2>4
<1>4. CASE PollError
  <2>1. /\ pc = "poll" /\ pc' = "idle" /\ data' = <<>> /\ UNCHANGED <<plan, log, op, pages, total>>
    BY <1>4 DEF PollError, Raise
  <2> QED
    BY <1>0, <1>2, <2>1, Blank
<1>5. CASE PollNone \/ EndRead \/ Await \/ (\E yes \in BOOLEAN : Answer(yes)) \/ SourceStays
  <2>1. UNCHANGED <<plan, log, op, pages, data, total>>
    BY <1>5 DEF PollNone, EndRead, Await, Answer, SourceStays, readVars, ghostVars
  <2>2. pc = "idle" => pc' = "idle"
    BY <1>5 DEF PollNone, AtEnd, EndRead, Await, Answer, SourceStays, readVars
  <2> QED
    BY <1>0, <1>2, <2>1, <2>2
<1>6. CASE SkipChunk \/ ReturnFrame
  BY <1>6 DEF SkipChunk, ReturnFrame, RangeInv
<1>7. ASSUME NEW p \in {FullPage, RestPage}, Puts(p) PROVE RangeInv'
  <2>1. /\ op = "unpredicted" /\ op' = op /\ pc # "idle" /\ plan' = plan /\ total' = total
        /\ pages' = Append(pages, p) /\ data' = <<>> /\ Len(data) <= Limit /\ log' = log
        /\ data = <<>> => ~Kafka /\ pages = <<>> /\ log = <<>>
    <3>1. data = <<>> => ~Kafka /\ pc = "rest" /\ pages = <<>> /\ op = "unpredicted"
      BY <1>7 DEF Puts
    <3>2. data = <<>> => Len(log) = 0
      BY <3>1 DEF EmptyInv
    <3>3. data = <<>> => log = <<>>
      BY <3>2, EmptySeq DEF ReaderTypeOK
    <3> QED
      BY <1>0, <1>7, <3>1, <3>3, Caps DEF Puts, PutPage
  <2>2. /\ p \in Sheet /\ p.Id = Len(pages) + 1 /\ p.Data = data
        /\ p.Start \in Nat /\ p.End \in Nat /\ p.End - p.Start = Len(data)
    BY PageProps
  <2>3. /\ Len(pages') = Len(pages) + 1 /\ DOMAIN pages' = 1 .. Len(pages) + 1
        /\ \A i \in 1 .. Len(pages) : pages'[i] = pages[i]
        /\ pages'[Len(pages) + 1] = p
    BY <2>1, <2>2, Appended DEF ReaderTypeOK
  <2>4. /\ total = EndBefore(Len(pages) + 1) + Len(data)
        /\ \A i \in DOMAIN pages : /\ RangeHolds(i) /\ pages[i].Start = EndBefore(i)
                                   /\ pages[i].Start \in Nat /\ pages[i].End \in Nat
    BY <2>1 DEF RangeInv
  <2>5. \A i \in 1 .. Len(pages) + 1 : EndBefore(i)' = EndBefore(i)
    <3> SUFFICES ASSUME NEW i \in 1 .. Len(pages) + 1 PROVE EndBefore(i)' = EndBefore(i)
      OBVIOUS
    <3>1. CASE i = 1
      BY <3>1 DEF EndBefore
    <3>2. CASE i # 1
      <4>1. i - 1 \in 1 .. Len(pages)
        BY <1>0, <3>2
      <4> QED
        BY <2>3, <3>2, <4>1 DEF EndBefore
    <3> QED
      BY <3>1, <3>2
  <2>6. EndBefore(Len(pages) + 1) \in Nat
    <3>1. CASE Len(pages) = 0
      BY <3>1 DEF EndBefore
    <3>2. CASE Len(pages) # 0
      <4>1. Len(pages) \in DOMAIN pages /\ Len(pages) + 1 # 1 /\ (Len(pages) + 1) - 1 = Len(pages)
        BY <1>0, <3>2
      <4> QED
        BY <2>4, <4>1 DEF EndBefore
    <3> QED
      BY <3>1, <3>2
  <2>7. ASSUME NEW i \in 1 .. Len(pages)
        PROVE  /\ RangeHolds(i)' /\ pages'[i].Start \in Nat /\ pages'[i].End \in Nat
               /\ pages'[i].Start = EndBefore(i)'
    <3>1. i \in 1 .. Len(pages) + 1 /\ i \in DOMAIN pages /\ pages'[i] = pages[i]
      BY <1>0, <2>3
    <3>2. EndBefore(i)' = EndBefore(i) /\ pages[i].Start = EndBefore(i) /\ RangeHolds(i)
      BY <2>4, <2>5, <3>1
    <3>3. pages[i].Data # <<>>
      <4>1. pages # <<>>
        BY <3>1, Blank
      <4> QED
        BY <2>1, <3>2, <4>1 DEF RangeHolds, EmptyInv
    <3> QED
      BY <2>1, <2>4, <3>1, <3>2, <3>3 DEF RangeHolds, Kafka
  <2>8. EndBefore(Len(pages) + 1)' = p.End
    <3>1. Len(pages') + 1 # 1 /\ (Len(pages') + 1) - 1 = Len(pages) + 1
      BY <1>0, <2>3
    <3> QED
      BY <2>3, <3>1 DEF EndBefore
  <2>9. PICK n \in Nat : n = Len(pages)
    BY <1>0
  <2>10. /\ n + 1 \in 1 .. n + 1 /\ pages'[n + 1] = p /\ EndBefore(n + 1)' = EndBefore(n + 1)
         /\ Len(pages') = n + 1
    BY <2>3, <2>5, <2>9
  <2>11. total - Len(data) = EndBefore(n + 1) /\ total = EndBefore(n + 1) + Len(data)
    BY <1>0, <2>4, <2>6, <2>9
  <2>12. CASE p.Start = total - Len(data) /\ p.End = total
    <3>1. p.Start = EndBefore(n + 1)'
      BY <2>10, <2>11, <2>12
    <3>2. RangeHolds(n + 1)'
      <4>1. data = <<>> => ~Kafka' /\ log' = <<>> /\ Len(pages') = 1
        <5>1. data = <<>> => n = 0
          BY <2>1, <2>9, Blank
        <5> QED
          BY <2>1, <2>10, <5>1 DEF Kafka
      <4> QED
        BY <2>1, <2>2, <2>9, <2>10, <3>1, <4>1 DEF RangeHolds
    <3>3. total' = EndBefore(Len(pages) + 1)' + Len(data')
      BY <1>0, <2>1, <2>8, <2>12, Blank
    <3>4. ASSUME NEW i \in DOMAIN pages'
          PROVE  /\ RangeHolds(i)' /\ pages'[i].Start \in Nat /\ pages'[i].End \in Nat
                 /\ pages'[i].Start = EndBefore(i)'
      <4>1. i \in 1 .. n \/ i = n + 1
        BY <2>3, <2>9
      <4> QED
        BY <2>2, <2>7, <2>9, <2>10, <3>1, <3>2, <4>1
    <3> QED
      BY <3>3, <3>4 DEF RangeInv
  <2>13. CASE Kafka /\ p = RestPage /\ pc' = "idle" /\ Len(data) < Limit
    <3>1. p.Start = total
      BY <2>13, PageProps
    <3>2. p.Start = EndBefore(n + 1)' + Len(data)
      BY <2>10, <2>11, <3>1
    <3>3. Kafka'
      BY <2>1, <2>13 DEF Kafka
    <3>4. RangeHolds(n + 1)'
      BY <2>1, <2>2, <2>9, <2>10, <2>13, <3>2, <3>3 DEF RangeHolds
    <3>5. ASSUME NEW i \in DOMAIN pages'
          PROVE  RangeHolds(i)' /\ pages'[i].Start \in Nat /\ pages'[i].End \in Nat
      <4>1. i \in 1 .. n \/ i = n + 1
        BY <2>3, <2>9
      <4> QED
        BY <2>2, <2>7, <2>9, <2>10, <3>4, <4>1
    <3> QED
      BY <2>13, <3>5 DEF RangeInv
  <2>14. \/ p.Start = total - Len(data) /\ p.End = total
         \/ Kafka /\ p = RestPage /\ pc' = "idle" /\ Len(data) < Limit
    BY <1>7, PageProps DEF Puts
  <2> QED
    BY <2>12, <2>13, <2>14
<1> QED
  BY <1>1, <1>3, <1>4, <1>5, <1>6, <1>7 DEF SourceStep

-----------------------------------------------------------------------------
(* At the beginning.                                                       *)

LEMMA ConnectorInitInv == ConnectorInit => ConnectorInv
<1> SUFFICES ASSUME ConnectorInit PROVE ConnectorInv
  OBVIOUS
<1>1. /\ plan \in Plans /\ committed = None /\ first = 0 /\ position = 0 /\ op = "none"
      /\ pc = "idle" /\ start = 0 /\ data = <<>> /\ total = 0 /\ sent = 0 /\ pages = <<>>
      /\ waiting = 0 /\ answers = <<>> /\ reads = 0 /\ failed = 0 /\ passedOn = {} /\ jumped = {}
  BY DEF ConnectorInit
<1>2. log \in Seq(Entry) /\ (~Kafka => \A i \in DOMAIN log : log[i] # "tombstone")
  <2>1. CASE plan.use = "target"
    BY <2>1, Blank DEF ConnectorInit
  <2>2. CASE plan.use # "target"
    <3>1. log \in BoundedSeq(IF Kafka THEN Entry ELSE Entry \ {"tombstone"}, MaxEntries)
      BY <2>2 DEF ConnectorInit
    <3>2. PICK m \in 0 .. MaxEntries :
            log \in [1 .. m -> IF Kafka THEN Entry ELSE Entry \ {"tombstone"}]
      BY <3>1 DEF BoundedSeq, SeqOf
    <3>3. log \in [1 .. m -> Entry] /\ (~Kafka => log \in [1 .. m -> Entry \ {"tombstone"}])
      BY <3>2
    <3>4. m \in Nat
      BY CapAssumption
    <3>5. log \in Seq(Entry)
      BY <3>3, <3>4, IsASeq
    <3> QED
      BY <3>3, <3>5
  <2> QED
    BY <2>1, <2>2
<1>3. ReaderTypeOK
  BY <1>1, <1>2, Blank DEF ReaderTypeOK, Maybe
<1>4. Len(log) \in Nat /\ Limit \in Nat /\ Limit >= 1 /\ ProcessCount \in Nat
  BY <1>2, LenDomain, Caps
<1>5. Len(data) = 0 /\ Len(answers) = 0 /\ ToSet(data) = {} /\ DOMAIN pages = {}
  BY <1>1, Blank
<1>6. PlaceInv
  BY <1>1, <1>2, <1>4, <1>5 DEF PlaceInv
<1>7. WindowInv
  BY <1>1, <1>3, <1>5, RoomType DEF WindowInv, WindowHolds, Room
<1>8. LossBounded
  <2>1. Lost = {}
    BY <1>1 DEF Lost, Reached
  <2>2. Cardinality(Lost) = 0
    BY <2>1, FS_EmptySet
  <2>3. failed * (Limit - 1) = 0
    BY <1>1, <1>4
  <2> QED
    BY <2>2, <2>3, LossOfLost
<1>9. OrderInv /\ RangeInv /\ EmptyInv
  BY <1>1 DEF OrderInv, RangeInv, EmptyInv
<1>10. FrameInv
  BY <1>1 DEF FrameInv
<1>11. TargetTypeOK /\ TargetInv
  <2>1. /\ target \in {"absent", "present"} /\ doomed = FALSE
        /\ calls = [c \in Clients |-> 0] /\ cpc = [c \in Clients |-> "ready"]
        /\ buffer = [c \in Clients |-> 0]
    BY DEF ConnectorInit
  <2> QED
    BY <2>1 DEF TargetTypeOK, TargetInv, TargetHolds, Places
<1>12. faults \in 0 .. MaxFaults /\ answering \in BOOLEAN
  BY Caps DEF ConnectorInit
<1> QED
  BY <1>3, <1>6, <1>7, <1>8, <1>9, <1>10, <1>11, <1>12 DEF ConnectorInv, ConnectorTypeOK

LEMMA ConnectorStepInv == ConnectorInv /\ [ConnectorNext]_connectorVars => ConnectorInv'
<1> SUFFICES ASSUME ConnectorInv, [ConnectorNext]_connectorVars PROVE ConnectorInv'
  OBVIOUS
<1>1. /\ ReaderTypeOK /\ PlaceInv /\ WindowInv /\ LossBounded /\ OrderInv /\ FrameInv /\ RangeInv
      /\ EmptyInv /\ TargetTypeOK /\ TargetInv /\ faults \in 0 .. MaxFaults /\ answering \in BOOLEAN
  BY DEF ConnectorInv, ConnectorTypeOK
<1>2. /\ SourceStep \/ SourceStays
      /\ TargetStep \/ (UNCHANGED targetVars /\ plan' = plan)
  BY <1>1, StepsOfTwo
<1>3. /\ ReaderTypeOK' /\ PlaceInv' /\ WindowInv' /\ LossBounded' /\ OrderInv' /\ FrameInv'
      /\ RangeInv' /\ EmptyInv'
  BY <1>1, <1>2, PlaceKept, WindowKept, LossKept, OrderKept, FrameKept, EmptyKept, RangeKept
<1>4. TargetTypeOK' /\ TargetInv'
  BY <1>1, <1>2, TargetKept
<1>5. faults' \in 0 .. MaxFaults /\ answering' \in BOOLEAN
  BY <1>1, FaultsKept
<1> QED
  BY <1>3, <1>4, <1>5 DEF ConnectorInv, ConnectorTypeOK

(* The connectors stay within their types, and offsets, windows, pages and *)
(* targets stay related as the parts of ConnectorInv say.                  *)
THEOREM ConnectorInvariant == ConnectorSpec => []ConnectorInv
BY ConnectorInitInv, ConnectorStepInv, PTL DEF ConnectorSpec

(* The window of unanswered pages never grows past process_count for each  *)
(* read that used its queues, however many answers stay behind.            *)
THEOREM WindowHoldsAlways == ConnectorSpec => []WindowHolds
<1>1. ConnectorInv => WindowHolds
  BY DEF ConnectorInv, WindowInv
<1> QED
  BY <1>1, ConnectorInvariant, PTL

(* Background commits lose fewer than Limit values with each read that     *)
(* raises, however polls, commits and restarts interleave.                 *)
THEOREM LossBoundedHolds == ConnectorSpec => []LossBounded
<1>1. ConnectorInv => LossBounded
  BY DEF ConnectorInv
<1> QED
  BY <1>1, ConnectorInvariant, PTL

(* A create that returns leaves a topic unless a deletion was asked for,   *)
(* and a write that returns has nothing left to deliver.                   *)
THEOREM TargetHoldsAlways == ConnectorSpec => []TargetHolds
<1>1. ConnectorInv => TargetHolds
  BY DEF ConnectorInv, TargetInv
<1> QED
  BY <1>1, ConnectorInvariant, PTL

(* A read hands over just the values it polled, in their order, in pages   *)
(* whose numbers and ranges fit together; an empty page comes alone, of a  *)
(* file without rows.                                                      *)
THEOREM ReadsFaithful == ConnectorSpec => []PagesFaithful
<1>1. ConnectorInv => PagesFaithful
  <2> SUFFICES ASSUME ConnectorInv, op # "none" PROVE PagesFaithful
    BY DEF PagesFaithful
  <2>1. InOrder /\ HandedOver \subseteq Polled /\ (failed = 0 => Polled \subseteq HandedOver)
    BY DEF ConnectorInv, OrderInv
  <2>2. failed \in Nat
    BY DEF ConnectorInv, ConnectorTypeOK, ReaderTypeOK
  <2>3. IF failed > 0 THEN HandedOver \subseteq Polled ELSE HandedOver = Polled
    BY <2>1, <2>2
  <2>4. op = "data" /\ ~Kafka /\ pages # <<>> => start \in HandedOver
    BY DEF ConnectorInv, FrameInv
  <2>5. op = "unpredicted" => \A i \in DOMAIN pages : RangeHolds(i)
    BY DEF ConnectorInv, RangeInv
  <2> QED
    BY <2>1, <2>3, <2>4, <2>5 DEF PagesFaithful
<1> QED
  BY <1>1, ConnectorInvariant, PTL
=============================================================================
