------------------------------ MODULE SqlProofs ------------------------------
(***************************************************************************)
(* Proofs about the adapters' transfer of a source into a target,          *)
(* SqlTransfer, for every number of rows, page size and number of changes  *)
(* by other clients, and about one write of the contexts below them,       *)
(* DatabaseWrite, for every set of connectors, every number of rows and    *)
(* retries and every choice of faults.                                     *)
(***************************************************************************)
EXTENDS DatabaseWrite, SqlTransfer, TLAPS, FiniteSetTheorems, SequenceTheorems

(***************************************************************************)
(* DatabaseWrite.                                                          *)
(***************************************************************************)

Whole == [r \in Row |-> 1]

(* What the open transaction holds.  Before a try it is empty, and when    *)
(* the commit is due it is the batch.                                      *)
PendingInv ==
  /\ kind = "autocommit" => pending = Nothing
  /\ pc \in {"connect", "send"} => pending = Nothing /\ ~stayed
  /\ pc = "commit" /\ kind # "autocommit" => pending = Whole /\ ~stayed
  /\ pc = "retry" => ~stayed

(* With autocommit all rows are there when the commit is due; when the     *)
(* call returns they are in any case.                                      *)
ThereInv ==
  /\ pc = "commit" /\ kind = "autocommit" => \A r \in Row : copies[r] >= 1
  /\ outcome = "returned" /\ kind # "silent" => \A r \in Row : copies[r] >= 1
  /\ outcome = "none" <=> pc \notin {"disconnect", "done"}

(* How many tries the attempts that are over can have made.                *)
Over(attempts) == IF Tries = 2 THEN 2 * attempts ELSE attempts

(* A try that is at work comes on top of the attempts before it.           *)
TriesInv ==
  /\ slow => Tries = 2
  /\ pc \in {"connect", "send", "commit", "undo"} =>
       ghosts <= Over(retry - 1) + (IF slow THEN 1 ELSE 0)
  /\ Landings <= Over(retry)
  /\ operation = "execute" => retry = 1 /\ pc # "retry"

IInv == TypeOK /\ PendingInv /\ CopiesExplained /\ ThereInv /\ TriesInv /\ RaisedIsExplained

-----------------------------------------------------------------------------
(* The invariant is inductive.                                             *)

LEMMA RowsAreNumbers == \A r \in Row : r \in 1 .. RowCount /\ r <= RowCount
BY CountAssumption DEF Row

LEMMA InitInv == Init => IInv
<1> SUFFICES ASSUME Init PROVE IInv
  OBVIOUS
<1>1. Nothing \in [Row -> Nat]
  BY DEF Nothing
<1>2. TypeOK
  <2>1. 1 \in 1 .. RetryCount + 1
    BY CountAssumption
  <2> QED
    BY <1>1, <2>1 DEF Init, TypeOK
<1>3. PendingInv /\ ThereInv /\ RaisedIsExplained
  BY DEF Init, PendingInv, ThereInv, RaisedIsExplained
<1>4. CopiesExplained
  BY DEF Init, CopiesExplained, Landings, Nothing
<1>5. TriesInv
  BY DEF Init, TriesInv, Landings, Over
<1> QED
  BY <1>2, <1>3, <1>4, <1>5 DEF IInv

(* Numbers the steps compute with.                                         *)
LEMMA Numbers ==
  ASSUME IInv
  PROVE  /\ ghosts \in Nat /\ retry \in Nat /\ retry >= 1 /\ RetryCount \in Nat
         /\ slow \in BOOLEAN /\ stayed \in BOOLEAN
         /\ Tries = 1 \/ Tries = 2
BY CountAssumption DEF IInv, TypeOK, Tries

(* What a driver that has sent the first n rows leaves behind, after a try *)
(* that began with an empty transaction.                                   *)
LEMMA SentProps ==
  ASSUME IInv, pc = "send", NEW n \in 0 .. RowCount, Sent(n)
  PROVE  /\ pending' \in [Row -> Nat] /\ copies' \in [Row -> Nat] /\ stayed' \in BOOLEAN
         /\ kind = "autocommit" => pending' = Nothing
         /\ kind # "autocommit" =>
              copies' = copies /\ stayed' = FALSE /\ (n = RowCount => pending' = Whole)
         /\ \A r \in Row : kind = "autocommit" /\ n = RowCount => copies'[r] >= 1
         /\ \A r \in Row : kind = "autocommit" =>
              copies'[r] <= ghosts + (IF stayed' THEN 1 ELSE 0)
<1> USE CountAssumption, RowsAreNumbers DEF IInv, TypeOK
<1>0. pending = Nothing /\ stayed = FALSE
  BY DEF PendingInv
<1>1. CASE kind = "autocommit"
  <2>1. /\ copies' = [r \in Row |-> IF r <= n THEN copies[r] + 1 ELSE copies[r]]
        /\ stayed' = (n > 0) /\ pending' = Nothing
    BY <1>0, <1>1 DEF Sent
  <2>2. \A r \in Row : copies[r] <= ghosts
    BY <1>0 DEF CopiesExplained, Landings
  <2>3. ASSUME NEW r \in Row PROVE copies'[r] <= ghosts + (IF stayed' THEN 1 ELSE 0)
    <3>1. CASE r <= n
      <4>1. n > 0
        BY <3>1
      <4>2. stayed' = TRUE /\ copies'[r] = copies[r] + 1
        BY <2>1, <3>1, <4>1
      <4>3. copies[r] \in Nat /\ copies[r] <= ghosts
        BY <2>2
      <4> QED
        BY <4>2, <4>3
    <3>2. CASE ~(r <= n)
      BY <2>1, <2>2, <3>2
    <3> QED
      BY <3>1, <3>2
  <2> QED
    BY <1>0, <1>1, <2>1, <2>3
<1>2. CASE kind # "autocommit"
  <2>1. /\ pending' = [r \in Row |-> IF r <= n THEN Nothing[r] + 1 ELSE Nothing[r]]
        /\ UNCHANGED <<copies, stayed>>
    BY <1>0, <1>2 DEF Sent
  <2>2. \A r \in Row : Nothing[r] = 0
    BY DEF Nothing
  <2> QED
    BY <1>0, <1>2, <2>1, <2>2 DEF Whole
<1> QED
  BY <1>1, <1>2

(* What a commit leaves behind.                                            *)
LEMMA CommittedProps ==
  ASSUME IInv, pc = "commit", Committed
  PROVE  /\ pending' = Nothing /\ pending' \in [Row -> Nat]
         /\ copies' \in [Row -> Nat] /\ stayed' \in BOOLEAN
         /\ \A r \in Row : copies'[r] >= 1
         /\ \A r \in Row : /\ copies'[r] <= ghosts + (IF stayed' THEN 1 ELSE 0)
                           /\ kind # "autocommit" =>
                                copies'[r] = ghosts + (IF stayed' THEN 1 ELSE 0)
<1> USE DEF IInv, TypeOK, Committed
<1>1. CASE kind = "autocommit"
  <2>1. pending = Nothing /\ \A r \in Row : Nothing[r] = 0
    BY <1>1 DEF PendingInv, Nothing
  <2>2. copies' = copies /\ stayed' = stayed
    BY <2>1
  <2> QED
    BY <1>1, <2>1, <2>2 DEF CopiesExplained, Landings, ThereInv
<1>2. CASE kind # "autocommit"
  <2>1. pending = Whole /\ stayed = FALSE /\ \A r \in Row : Whole[r] = 1 /\ Nothing[r] = 0
    BY <1>2 DEF PendingInv, Nothing, Whole
  <2>2. \A r \in Row : copies[r] = ghosts
    BY <1>2, <2>1 DEF CopiesExplained, Landings
  <2>3. ASSUME NEW r \in Row PROVE stayed' = TRUE
    <3>1. Whole[r] # Nothing[r]
      BY <2>1
    <3>2. pending # Nothing
      BY <2>1, <3>1
    <3> QED
      BY <3>2
  <2>4. /\ pending' = Nothing /\ pending' \in [Row -> Nat]
        /\ copies' = [r \in Row |-> copies[r] + pending[r]] /\ stayed' \in BOOLEAN
    BY DEF Nothing
  <2>5. \A r \in Row : copies[r] \in Nat /\ pending[r] = 1
    BY <2>1
  <2>6. \A r \in Row : copies'[r] = ghosts + 1 /\ copies'[r] \in Nat
    BY <2>2, <2>4, <2>5
  <2>7. copies' \in [Row -> Nat]
    BY <2>4, <2>5
  <2>8. ghosts + 1 >= 1 /\ ghosts + 1 <= ghosts + 1
    BY Numbers
  <2>9. ASSUME NEW r \in Row
        PROVE  copies'[r] >= 1 /\ copies'[r] <= ghosts + 1 /\ copies'[r] = ghosts + 1 /\ stayed' = TRUE
    <3>1. stayed' = TRUE
      BY <2>3
    <3>2. copies'[r] = ghosts + 1
      BY <2>6
    <3>3. copies'[r] >= 1 /\ copies'[r] <= ghosts + 1
      BY <2>8, <3>2, Zenon
    <3> QED
      BY <3>1, <3>2, <3>3
  <2> QED
    BY <2>4, <2>7, <2>9
<1> QED
  BY <1>1, <1>2

-----------------------------------------------------------------------------
(* Before the first try, and with the driver at work.                      *)

LEMMA ConnectInv == ASSUME IInv, Connect PROVE IInv'
<1> USE DEF IInv, callVars, dataVars, GoOn, Leave
<1>1. /\ UNCHANGED <<kind, operation, retry, slow, pending, copies, stayed, ghosts>>
      /\ pc = "connect"
      /\ \/ pc' = "send" /\ outcome' = outcome /\ refused' = refused /\ link' = "up"
         \/ pc' = "disconnect" /\ outcome' = "raised" /\ refused' = TRUE /\ link' = link
  BY DEF Connect
<1>2. TypeOK'
  BY <1>1 DEF TypeOK
<1>3. PendingInv' /\ ThereInv' /\ RaisedIsExplained'
  BY <1>1 DEF PendingInv, ThereInv, RaisedIsExplained
<1>4. CopiesExplained' /\ TriesInv'
  BY <1>1 DEF CopiesExplained, TriesInv, Landings, Over, Tries
<1> QED
  BY <1>2, <1>3, <1>4

LEMMA SendInv == ASSUME IInv, Send \/ SendFails PROVE IInv'
<1> USE Numbers DEF IInv, callVars, dataVars, GoOn, Leave
<1>1. PICK n \in 0 .. RowCount :
        /\ Sent(n) /\ pc = "send"
        /\ UNCHANGED <<kind, operation, retry, slow, ghosts, refused, outcome>>
        /\ \/ n = RowCount /\ pc' = "commit" /\ link' = link
           \/ pc' = "undo" /\ link' \in {"up", "lost"}
  BY CountAssumption DEF Send, SendFails, Links
<1>2. /\ pending' \in [Row -> Nat] /\ copies' \in [Row -> Nat] /\ stayed' \in BOOLEAN
      /\ kind = "autocommit" => pending' = Nothing
      /\ kind # "autocommit" =>
           copies' = copies /\ stayed' = FALSE /\ (n = RowCount => pending' = Whole)
      /\ \A r \in Row : kind = "autocommit" /\ n = RowCount => copies'[r] >= 1
      /\ \A r \in Row : kind = "autocommit" =>
           copies'[r] <= ghosts + (IF stayed' THEN 1 ELSE 0)
  BY <1>1, SentProps
<1>3. TypeOK'
  BY <1>1, <1>2 DEF TypeOK
<1>4. PendingInv' /\ RaisedIsExplained'
  BY <1>1, <1>2 DEF PendingInv, RaisedIsExplained
<1>5. ThereInv'
  BY <1>1, <1>2 DEF ThereInv
<1>6. CopiesExplained'
  <2>1. CASE kind = "autocommit"
    BY <1>1, <1>2, <2>1 DEF CopiesExplained, Landings
  <2>2. CASE kind # "autocommit"
    <3>1. stayed = FALSE
      BY <1>1 DEF PendingInv
    <3> QED
      BY <1>1, <1>2, <2>2, <3>1 DEF CopiesExplained, Landings
  <2> QED
    BY <2>1, <2>2
<1>7. TriesInv'
  <2>1. ghosts + 1 <= Over(retry)
    BY <1>1 DEF TriesInv, Over
  <2>2. ghosts' = ghosts /\ retry' = retry /\ (stayed' = TRUE \/ stayed' = FALSE)
    BY <1>1, <1>2
  <2> QED
    BY <1>1, <2>1, <2>2 DEF TriesInv, Landings, Over, Tries
<1> QED
  BY <1>3, <1>4, <1>5, <1>6, <1>7

LEMMA CommitInv == ASSUME IInv, Commit \/ CommitFails PROVE IInv'
<1> USE Numbers DEF IInv, callVars, dataVars, GoOn, Leave
<1>1. /\ pc = "commit"
      /\ UNCHANGED <<kind, operation, retry, slow, ghosts, refused>>
      /\ \/ /\ Committed
            /\ \/ pc' = "disconnect" /\ outcome' = "returned" /\ link' = link
               \/ pc' = "undo" /\ outcome' = outcome /\ link' \in {"up", "lost"}
         \/ /\ UNCHANGED <<pending, copies, stayed>>
            /\ pc' = "undo" /\ outcome' = outcome /\ link' \in {"up", "lost"}
  BY DEF Commit, CommitFails, Links
<1>2. ghosts + 1 <= Over(retry) /\ Landings <= Over(retry)
  BY <1>1 DEF TriesInv, Over
<1>3. CASE Committed
  <2>1. /\ pending' = Nothing /\ pending' \in [Row -> Nat]
        /\ copies' \in [Row -> Nat] /\ stayed' \in BOOLEAN
        /\ \A r \in Row : copies'[r] >= 1
        /\ \A r \in Row : /\ copies'[r] <= ghosts + (IF stayed' THEN 1 ELSE 0)
                          /\ kind # "autocommit" =>
                               copies'[r] = ghosts + (IF stayed' THEN 1 ELSE 0)
    BY <1>1, <1>3, CommittedProps
  <2>2. TypeOK'
    BY <1>1, <2>1 DEF TypeOK
  <2>3. PendingInv' /\ RaisedIsExplained'
    BY <1>1, <2>1 DEF PendingInv, RaisedIsExplained
  <2>4. ThereInv'
    BY <1>1, <2>1 DEF ThereInv
  <2>5. CopiesExplained'
    BY <1>1, <2>1 DEF CopiesExplained, Landings
  <2>6. TriesInv'
    BY <1>1, <1>2, <2>1 DEF TriesInv, Landings, Over, Tries
  <2> QED
    BY <2>2, <2>3, <2>4, <2>5, <2>6
<1>4. CASE UNCHANGED <<pending, copies, stayed>> /\ ~Committed
  <2>1. TypeOK'
    BY <1>1, <1>4 DEF TypeOK
  <2>2. PendingInv' /\ RaisedIsExplained' /\ ThereInv'
    BY <1>1, <1>4 DEF PendingInv, RaisedIsExplained, ThereInv
  <2>3. CopiesExplained' /\ TriesInv'
    BY <1>1, <1>4 DEF CopiesExplained, TriesInv, Landings, Over, Tries
  <2> QED
    BY <2>1, <2>2, <2>3
<1> QED
  BY <1>1, <1>3, <1>4

-----------------------------------------------------------------------------
(* After a try that raised.                                                *)

(* The try becomes one of those before, and the sum stays what it is.      *)
LEMMA EndTryProps ==
  ASSUME IInv, EndTry
  PROVE  /\ ghosts' = Landings /\ stayed' = FALSE /\ ghosts' \in Nat
         /\ Landings' = Landings
BY Numbers DEF EndTry, Landings

LEMMA UndoInv == ASSUME IInv, Undo \/ UndoFails \/ Propagate PROVE IInv'
<1> USE Numbers DEF IInv, callVars, dataVars, GoOn, Leave
<1>1. /\ EndTry /\ pc = "undo"
      /\ UNCHANGED <<kind, operation, retry, link, copies, refused>>
      /\ pending' \in {pending, Nothing}
  BY DEF Undo, UndoFails, Propagate
<1>2. \/ /\ pc' = "send" /\ slow' = TRUE /\ slow = FALSE /\ Tries = 2
         /\ outcome' = outcome /\ pending' = Nothing
      \/ pc' = "retry" /\ slow' = slow /\ outcome' = outcome /\ operation = "execute_many"
      \/ pc' = "disconnect" /\ slow' = slow /\ outcome' = "returned" /\ kind = "silent"
      \/ pc' = "disconnect" /\ slow' = slow /\ outcome' = "raised" /\ operation = "execute"
  BY DEF Undo, UndoFails, Propagate, AfterRollback, TypeOK, Tries
<1>3. /\ ghosts' = Landings /\ stayed' = FALSE /\ ghosts' \in Nat
      /\ Landings' = Landings
  BY <1>1, EndTryProps
<1>4. Nothing \in [Row -> Nat]
  BY DEF Nothing
<1>5. TypeOK'
  BY <1>1, <1>2, <1>3, <1>4 DEF TypeOK
<1>6. PendingInv'
  BY <1>1, <1>2, <1>3 DEF PendingInv
<1>7. ThereInv' /\ RaisedIsExplained'
  BY <1>1, <1>2 DEF ThereInv, RaisedIsExplained
<1>8. CopiesExplained'
  BY <1>1, <1>3 DEF CopiesExplained
<1>9. TriesInv'
  <2>1. Landings <= Over(retry)
    BY DEF TriesInv
  <2>2. slow = FALSE /\ Tries = 2 => Landings <= Over(retry - 1) + 1
    BY <1>1 DEF TriesInv, Over, Landings
  <2>3. Tries' = Tries
    BY <1>1 DEF Tries
  <2> QED
    BY <1>1, <1>2, <1>3, <2>1, <2>2, <2>3 DEF TriesInv, Over
<1> QED
  BY <1>5, <1>6, <1>7, <1>8, <1>9

LEMMA RetryInv == ASSUME IInv, Retry \/ RetriesExhausted PROVE IInv'
<1> USE Numbers DEF IInv, callVars, dataVars, GoOn, Leave
<1>1. pc = "retry" /\ UNCHANGED <<kind, operation, copies, stayed, ghosts>> /\ stayed = FALSE
  BY DEF Retry, RetriesExhausted, PendingInv
<1>2. CASE pc' = "send"
  <2>1. /\ link' = "up" /\ pending' = Nothing /\ retry' = retry + 1 /\ slow' = FALSE
        /\ UNCHANGED <<outcome, refused>> /\ retry <= RetryCount
    BY <1>1, <1>2 DEF Retry, RetriesExhausted
  <2>2. retry + 1 \in 1 .. RetryCount + 1 /\ Nothing \in [Row -> Nat]
    BY <2>1 DEF Nothing
  <2>3. TypeOK'
    BY <1>1, <1>2, <2>1, <2>2 DEF TypeOK
  <2>4. PendingInv' /\ ThereInv' /\ RaisedIsExplained'
    BY <1>1, <1>2, <2>1 DEF PendingInv, ThereInv, RaisedIsExplained
  <2>5. CopiesExplained'
    BY <1>1 DEF CopiesExplained, Landings
  <2>6. TriesInv'
    <3>1. ghosts <= Over(retry) /\ ghosts <= Over(retry + 1) /\ operation # "execute"
      BY <1>1 DEF TriesInv, Over, Landings
    <3>2. retry + 1 - 1 = retry
      OBVIOUS
    <3> QED
      BY <1>1, <1>2, <2>1, <3>1, <3>2 DEF TriesInv, Over, Landings, Tries
  <2> QED
    BY <2>3, <2>4, <2>5, <2>6
<1>3. CASE pc' = "disconnect"
  <2>1. /\ UNCHANGED <<link, pending, retry, slow>> /\ outcome' = "raised"
        /\ refused' \in {refused, TRUE}
        /\ refused' = TRUE \/ retry = RetryCount + 1
    <3>1. CASE Retry
      BY <1>1, <1>3, <3>1 DEF Retry
    <3>2. CASE RetriesExhausted
      <4>1. retry > RetryCount /\ retry \in 1 .. RetryCount + 1
        BY <3>2 DEF RetriesExhausted, TypeOK
      <4>2. retry = RetryCount + 1
        BY <4>1
      <4> QED
        BY <1>3, <3>2, <4>2 DEF RetriesExhausted
    <3> QED
      BY <3>1, <3>2
  <2>2. TypeOK'
    BY <1>1, <1>3, <2>1 DEF TypeOK
  <2>3. PendingInv' /\ ThereInv'
    BY <1>1, <1>3, <2>1 DEF PendingInv, ThereInv
  <2>4. RaisedIsExplained'
    BY <1>1, <1>3, <2>1 DEF RaisedIsExplained
  <2>5. CopiesExplained' /\ TriesInv'
    BY <1>1, <1>3, <2>1 DEF CopiesExplained, TriesInv, Landings, Over, Tries
  <2> QED
    BY <2>2, <2>3, <2>4, <2>5
<1> QED
  BY <1>2, <1>3 DEF Retry, RetriesExhausted

LEMMA EndInv == ASSUME IInv, CutOff \/ Disconnect PROVE IInv'
<1> USE Numbers DEF IInv, callVars, dataVars, GoOn, Leave
<1>1. /\ UNCHANGED <<kind, operation, retry, slow, copies, stayed, ghosts, refused>>
      /\ \/ pc' = "disconnect" /\ outcome' = "cut" /\ UNCHANGED <<link, pending>>
         \/ /\ pc = "disconnect" /\ pc' = "done" /\ outcome' = outcome
            /\ link' = "none" /\ pending' = Nothing
  BY DEF CutOff, Disconnect
<1>2. Nothing \in [Row -> Nat]
  BY DEF Nothing
<1>3. TypeOK'
  BY <1>1, <1>2 DEF TypeOK
<1>4. PendingInv' /\ ThereInv' /\ RaisedIsExplained'
  BY <1>1 DEF PendingInv, ThereInv, RaisedIsExplained
<1>5. CopiesExplained' /\ TriesInv'
  BY <1>1 DEF CopiesExplained, TriesInv, Landings, Over, Tries
<1> QED
  BY <1>3, <1>4, <1>5

LEMMA StepInv == IInv /\ [Next]_vars => IInv'
<1> SUFFICES ASSUME IInv, [Next]_vars PROVE IInv'
  OBVIOUS
<1>1. CASE Next
  BY <1>1, ConnectInv, SendInv, CommitInv, UndoInv, RetryInv, EndInv DEF Next
<1>2. CASE UNCHANGED vars
  <2>1. UNCHANGED <<kind, operation, pc, retry, slow, link, pending, copies, stayed, ghosts, refused, outcome>>
    BY <1>2 DEF vars, callVars, dataVars
  <2>2. TypeOK' /\ PendingInv' /\ ThereInv' /\ RaisedIsExplained'
    BY <2>1 DEF IInv, TypeOK, PendingInv, ThereInv, RaisedIsExplained
  <2>3. CopiesExplained' /\ TriesInv'
    BY <2>1 DEF IInv, CopiesExplained, TriesInv, Landings, Over, Tries
  <2> QED
    BY <2>2, <2>3 DEF IInv
<1> QED
  BY <1>1, <1>2

LEMMA Invariance == Spec => []IInv
BY InitInv, StepInv, PTL DEF Spec

-----------------------------------------------------------------------------
(* The type invariant: every variable of a call keeps its type, and        *)
(* _execute_with_retry is never entered with more than retry_count + 1.    *)
THEOREM TypeCorrect == Spec => []TypeOK
BY Invariance, PTL DEF IInv

(* A row is at the target once for each try that left rows behind, for     *)
(* every connector; with transactions exactly as often, all rows alike.    *)
THEOREM EveryCopyExplained == Spec => []CopiesExplained
BY Invariance, PTL DEF IInv

(* A row is never there more often than tries are made: one, or two where  *)
(* the connector tries twice, for each of retry_count + 1 attempts.        *)
THEOREM CopiesLimited == Spec => []CopiesBounded
<1>1. IInv => CopiesBounded
  <2> SUFFICES ASSUME IInv, NEW r \in Row PROVE copies[r] <= Tries * (RetryCount + 1)
    BY DEF CopiesBounded
  <2> USE Numbers
  <2>1. copies[r] \in Nat /\ Landings \in Nat /\ retry <= RetryCount + 1
    BY DEF IInv, TypeOK, Landings
  <2>2. copies[r] <= Landings /\ Landings <= Over(retry)
    BY DEF IInv, CopiesExplained, TriesInv
  <2>3. CASE Tries = 1
    BY <2>1, <2>2, <2>3 DEF Over
  <2>4. CASE Tries = 2
    BY <2>1, <2>2, <2>4 DEF Over
  <2> QED
    BY <2>3, <2>4
<1> QED
  BY <1>1, Invariance, PTL

(* A call that returns has committed every row, and exactly once if none   *)
(* of its tries before had left rows behind.                               *)
THEOREM ReturnMeansWritten == Spec => []WrittenOnReturn
<1>1. IInv => WrittenOnReturn
  <2> SUFFICES ASSUME IInv, outcome = "returned", kind # "silent", NEW r \in Row
               PROVE  copies[r] >= 1 /\ (ghosts = 0 => copies[r] = 1)
    BY DEF WrittenOnReturn
  <2>1. copies[r] \in Nat /\ copies[r] >= 1
    BY DEF IInv, TypeOK, ThereInv
  <2>2. ghosts = 0 => copies[r] <= 1
    BY <2>1 DEF IInv, CopiesExplained, Landings, TypeOK
  <2> QED
    BY <2>1, <2>2
<1> QED
  BY <1>1, Invariance, PTL

(* execute_many raises only after retry_count + 1 attempts, or when it     *)
(* cannot connect.                                                         *)
THEOREM RaiseMeansExhausted == Spec => []RaisedIsExplained
BY Invariance, PTL DEF IInv

(***************************************************************************)
(* SqlTransfer.                                                            *)
(***************************************************************************)

(* The rows in a table that were copied, and that none is there twice.     *)
RowsIn(rows) == {rows[i].row : i \in {k \in DOMAIN rows : rows[k].row # 0}}
Once(rows) ==
  \A i, j \in DOMAIN rows : rows[i].row # 0 /\ rows[i].row = rows[j].row => i = j
Increasing(s) == \A i, j \in DOMAIN s : i < j => s[i] < s[j]
Identity == [i \in 1 .. plan.size |-> i]

(* What a row of this transfer may be: one that was there, or one that a   *)
(* write of this plan makes.                                               *)
Writable ==
  /\ Kind \in {"sql", "async"} /\ CanWrite
  /\ Elements(Prepared) \subseteq Elements(Keys)
  /\ Slots # None
  /\ Len(Prepared) = Len(Slots) \/ (Prepared = <<>> /\ dialect.blankRows)

Number == Nat \ {0}
RowsMade == {Old} \cup (IF Writable THEN {RowAt(r) : r \in Number} ELSE {})

TransferTypeOK ==
  /\ plan \in ReadPlans \cup WritePlans
  /\ stable \in BOOLEAN /\ table \in BOOLEAN
  /\ step \in {"adapter", "create", "make", "clear", "read", "page", "fetch", "write", "done"}
  /\ result \in {"none", "returned", "raised", "exists"}
  /\ rel \in Seq(Number) /\ batch \in Seq(Number) /\ unread \in Seq(Number)
  /\ landed \in Seq(RowsMade)
  /\ changes \in Nat /\ counted \in Nat /\ start \in Nat

(* Where a transfer of each kind can be.                                   *)
PlaceInv ==
  /\ step \notin {"adapter", "done"} => SourceAdapter(Kind)
  /\ step \in {"fetch", "write"} => CanRead
  /\ step = "page" => plan.paged /\ batch = <<>>
  /\ step = "fetch" => ~plan.paged /\ batch = <<>>
  /\ step \notin {"page", "fetch", "write", "done"} =>
       /\ batch = <<>> /\ unread = <<>> /\ start = 0 /\ RowsIn(landed) = {}
  /\ step \notin {"page", "write", "done"} \/ ~plan.paged => moves = {}
  /\ moves = {} => rel = Identity
  /\ step \in {"page", "write"} /\ plan.paged /\ ~(plan.query /\ plan.tableSize < plan.size) =>
       counted >= plan.size \/ moves # {}
  /\ result # "none" => step = "done"

(* Pages of one order move forward in it, as long as nothing is inserted.  *)
PagedInv ==
  /\ \A i \in DOMAIN rel : rel[i] <= plan.size + changes
  /\ "inserted" \notin moves => Increasing(rel)
  /\ plan.paged /\ Ordered /\ "inserted" \notin moves =>
       /\ \A r \in RowsIn(landed) : \A k \in DOMAIN batch : r < batch[k]
       /\ \A r \in RowsIn(landed) \cup Elements(batch) :
            /\ r <= plan.size + changes
            /\ \A k \in DOMAIN rel : k > start => r < rel[k]
       /\ Increasing(batch) /\ Once(landed)
  /\ plan.paged /\ Ordered /\ moves = {} =>
       RowsIn(landed) \cup Elements(batch) =
         1 .. MinOf(start, plan.size) \/ step = "done"

(* An iterator's rows are written, in the batch, or not fetched.           *)
IteratorInv ==
  ~plan.paged =>
    /\ Once(landed) /\ IsInjective(batch) /\ IsInjective(unread)
    /\ RowsIn(landed) \cap Elements(batch) = {} /\ RowsIn(landed) \cap Elements(unread) = {}
    /\ Elements(batch) \cap Elements(unread) = {}
    /\ step \in {"fetch", "write"} =>
         RowsIn(landed) \cup Elements(batch) \cup Elements(unread) = 1 .. plan.size

ReturnInv ==
  /\ result = "returned" /\ (Ordered \/ ~plan.paged) =>
       \/ moves # {}
       \/ plan.paged /\ plan.query /\ plan.tableSize < plan.size
       \/ RowsIn(landed) = 1 .. plan.size

MakeInv == step = "make" => dialect.create = "check" /\ (table => changes > 0)

TransferInv ==
  TransferTypeOK /\ PlaceInv /\ PagedInv /\ IteratorInv /\ ReturnInv /\ MakeInv /\ QuietCreation

-----------------------------------------------------------------------------
(* Sequences.                                                              *)

LEMMA DomainLen ==
  ASSUME NEW S, NEW s \in Seq(S)
  PROVE  Len(s) \in Nat /\ DOMAIN s = 1 .. Len(s) /\ \A i \in 1 .. Len(s) : s[i] \in S
BY LenProperties, ElementOfSeq

(* A cut of a sequence.                                                    *)
LEMMA CutProps ==
  ASSUME NEW S, NEW s \in Seq(S), NEW m \in Nat \ {0}, NEW n \in Nat, n <= Len(s)
  PROVE  /\ SubSeq(s, m, n) \in Seq(S)
         /\ Len(SubSeq(s, m, n)) = IF m <= n THEN n - m + 1 ELSE 0
         /\ \A i \in 1 .. Len(SubSeq(s, m, n)) : SubSeq(s, m, n)[i] = s[m + i - 1]
<1>1. \A i \in m .. n : s[i] \in S
  BY DomainLen
<1>2. m \in Int /\ n \in Int
  OBVIOUS
<1>3. /\ SubSeq(s, m, n) \in Seq(S)
      /\ Len(SubSeq(s, m, n)) = IF m <= n THEN n - m + 1 ELSE 0
      /\ \A i \in 1 .. n - m + 1 : SubSeq(s, m, n)[i] = s[m + i - 1]
  BY <1>1, <1>2, SubSeqProperties
<1>4. 1 .. Len(SubSeq(s, m, n)) \subseteq 1 .. n - m + 1
  BY <1>3
<1> QED
  BY <1>3, <1>4

(* What is left without the element at i.                                  *)
Rest(s, i) == SubSeq(s, 1, i - 1) \o SubSeq(s, i + 1, Len(s))

LEMMA RestProps ==
  ASSUME NEW S, NEW s \in Seq(S), NEW i \in 1 .. Len(s)
  PROVE  /\ Rest(s, i) \in Seq(S) /\ Len(Rest(s, i)) = Len(s) - 1
         /\ \A k \in 1 .. Len(Rest(s, i)) :
              Rest(s, i)[k] = IF k < i THEN s[k] ELSE s[k + 1]
<1> DEFINE t == Rest(s, i)
           a == SubSeq(s, 1, i - 1)
           b == SubSeq(s, i + 1, Len(s))
<1>0. Len(s) \in Nat /\ i \in Nat /\ 1 <= i /\ i <= Len(s)
  BY DomainLen
<1>1. /\ a \in Seq(S) /\ Len(a) = i - 1
      /\ \A k \in 1 .. Len(a) : a[k] = s[k]
  <2>1. /\ a \in Seq(S) /\ Len(a) = IF 1 <= i - 1 THEN i - 1 - 1 + 1 ELSE 0
        /\ \A k \in 1 .. Len(a) : a[k] = s[1 + k - 1]
    BY <1>0, CutProps
  <2> QED
    BY <1>0, <2>1
<1>2. /\ b \in Seq(S) /\ Len(b) = Len(s) - i
      /\ \A k \in 1 .. Len(b) : b[k] = s[i + k]
  <2>1. /\ b \in Seq(S) /\ Len(b) = IF i + 1 <= Len(s) THEN Len(s) - (i + 1) + 1 ELSE 0
        /\ \A k \in 1 .. Len(b) : b[k] = s[i + 1 + k - 1]
    BY <1>0, CutProps
  <2> QED
    BY <1>0, <2>1
<1> HIDE DEF a, b
<1>3. /\ a \o b \in Seq(S) /\ Len(a \o b) = Len(a) + Len(b)
      /\ \A k \in 1 .. Len(a) + Len(b) :
           (a \o b)[k] = IF k <= Len(a) THEN a[k] ELSE b[k - Len(a)]
  BY <1>1, <1>2, ConcatProperties
<1>4. t = a \o b
  BY DEF a, b, Rest
<1>5. Len(t) = Len(s) - 1 /\ Len(t) = Len(a) + Len(b) /\ Len(a) = i - 1 /\ Len(b) = Len(s) - i
  <2>1. Len(t) = Len(a) + Len(b)
    BY <1>3, <1>4
  <2>2. Len(a) = i - 1 /\ Len(b) = Len(s) - i
    BY <1>1, <1>2
  <2> QED
    BY ONLY <1>0, <2>1, <2>2
<1>6. ASSUME NEW k \in 1 .. Len(t) PROVE t[k] = IF k < i THEN s[k] ELSE s[k + 1]
  <2>1. k \in 1 .. Len(a) + Len(b) /\ k \in Nat
    BY ONLY <1>0, <1>5, k \in 1 .. Len(t)
  <2>2. t[k] = IF k <= Len(a) THEN a[k] ELSE b[k - Len(a)]
    BY <1>3, <1>4, <2>1
  <2>3. CASE k < i
    <3>1. k \in 1 .. Len(a)
      BY <1>0, <1>5, <2>1, <2>3
    <3> QED
      BY <1>1, <2>2, <2>3, <3>1
  <2>4. CASE ~(k < i)
    <3>1. k - Len(a) \in 1 .. Len(b) /\ i + (k - Len(a)) = k + 1 /\ ~(k <= Len(a))
      BY <1>0, <1>5, <2>1, <2>4
    <3> QED
      BY <1>2, <2>2, <2>4, <3>1
  <2> QED
    BY <2>3, <2>4
<1> QED
  BY <1>3, <1>4, <1>5, <1>6

(* A sequence with e put in after its first i elements.                    *)
LEMMA InsertedProps ==
  ASSUME NEW s \in Seq(Number), NEW i \in 0 .. Len(s), NEW e \in Number
  PROVE  LET t == SubSeq(s, 1, i) \o <<e>> \o SubSeq(s, i + 1, Len(s))
         IN  /\ t \in Seq(Number) /\ Len(t) = Len(s) + 1
             /\ \A k \in 1 .. Len(t) :
                  t[k] = IF k <= i THEN s[k] ELSE IF k = i + 1 THEN e ELSE s[k - 1]
<1> DEFINE t == SubSeq(s, 1, i) \o <<e>> \o SubSeq(s, i + 1, Len(s))
<1> DEFINE a == SubSeq(s, 1, i)
           b == SubSeq(s, i + 1, Len(s))
           c == a \o <<e>>
<1>0. Len(s) \in Nat /\ i \in Nat /\ i <= Len(s)
  BY DomainLen
<1>1. /\ a \in Seq(Number) /\ Len(a) = i
      /\ \A k \in 1 .. Len(a) : a[k] = s[k]
  <2>1. /\ a \in Seq(Number) /\ Len(a) = IF 1 <= i THEN i - 1 + 1 ELSE 0
        /\ \A k \in 1 .. Len(a) : a[k] = s[1 + k - 1]
    BY <1>0, CutProps
  <2> QED
    BY <1>0, <2>1
<1>2. /\ b \in Seq(Number) /\ Len(b) = Len(s) - i
      /\ \A k \in 1 .. Len(b) : b[k] = s[i + k]
  <2>0. i + 1 \in Nat \ {0} /\ Len(s) <= Len(s)
    BY <1>0
  <2>1. /\ b \in Seq(Number) /\ Len(b) = IF i + 1 <= Len(s) THEN Len(s) - (i + 1) + 1 ELSE 0
        /\ \A k \in 1 .. Len(b) : b[k] = s[i + 1 + k - 1]
    BY <1>0, <2>0, CutProps
  <2> QED
    BY <1>0, <2>1
<1> HIDE DEF a, b
<1>3. <<e>> \in Seq(Number) /\ Len(<<e>>) = 1 /\ <<e>>[1] = e
  OBVIOUS
<1>4. /\ c \in Seq(Number) /\ Len(c) = i + 1
      /\ \A k \in 1 .. i + 1 : c[k] = IF k <= i THEN s[k] ELSE e
  <2>1. /\ c \in Seq(Number) /\ Len(c) = Len(a) + 1
        /\ \A k \in 1 .. Len(a) + 1 : c[k] = IF k <= Len(a) THEN a[k] ELSE <<e>>[k - Len(a)]
    BY <1>1, <1>3, ConcatProperties
  <2> QED
    BY <1>0, <1>1, <1>3, <2>1
<1> HIDE DEF c
<1>5. /\ c \o b \in Seq(Number) /\ Len(c \o b) = Len(c) + Len(b)
      /\ \A k \in 1 .. Len(c) + Len(b) :
           (c \o b)[k] = IF k <= Len(c) THEN c[k] ELSE b[k - Len(c)]
  BY <1>2, <1>4, ConcatProperties
<1>6. t = c \o b
  BY DEF a, b, c
<1> HIDE DEF t
<1>7. Len(t) = Len(s) + 1 /\ Len(t) = Len(c) + Len(b) /\ Len(c) = i + 1 /\ Len(b) = Len(s) - i
  <2>1. Len(t) = Len(c) + Len(b)
    BY <1>5, <1>6
  <2>2. Len(c) = i + 1 /\ Len(b) = Len(s) - i
    BY <1>2, <1>4
  <2> QED
    BY ONLY <1>0, <2>1, <2>2
<1>8. ASSUME NEW k \in 1 .. Len(t)
      PROVE  t[k] = IF k <= i THEN s[k] ELSE IF k = i + 1 THEN e ELSE s[k - 1]
  <2>1. k \in 1 .. Len(c) + Len(b) /\ k \in Nat /\ 1 <= k
    BY ONLY <1>0, <1>7, k \in 1 .. Len(t)
  <2>2. t[k] = IF k <= Len(c) THEN c[k] ELSE b[k - Len(c)]
    BY <1>5, <1>6, <2>1
  <2>3. CASE k <= i + 1
    BY <1>0, <1>4, <2>1, <2>2, <2>3
  <2>4. CASE ~(k <= i + 1)
    <3>1. k - Len(c) \in 1 .. Len(b) /\ i + (k - Len(c)) = k - 1 /\ ~(k <= Len(c))
      BY <1>0, <1>7, <2>1, <2>4
    <3>2. t[k] = s[k - 1]
      BY <1>2, <2>2, <3>1
    <3>3. ~(k <= i) /\ k # i + 1
      BY <1>0, <2>1, <2>4
    <3> QED
      BY <3>2, <3>3
  <2> QED
    BY <2>3, <2>4
<1> QED
  BY <1>5, <1>6, <1>7, <1>8 DEF t

(* Rows written behind those of a table.                                   *)
LEMMA JoinedProps ==
  ASSUME NEW R, NEW rows \in Seq(R), NEW added \in Seq(R)
  PROVE  /\ rows \o added \in Seq(R)
         /\ RowsIn(rows \o added) = RowsIn(rows) \cup RowsIn(added)
         /\ Once(rows) /\ Once(added) /\ RowsIn(rows) \cap RowsIn(added) = {} =>
              Once(rows \o added)
<1> DEFINE t == rows \o added
           m == Len(rows)
           n == Len(added)
<1>1. /\ t \in Seq(R) /\ Len(t) = m + n
      /\ \A i \in 1 .. m + n : t[i] = IF i <= m THEN rows[i] ELSE added[i - m]
  BY ConcatProperties
<1>2. /\ m \in Nat /\ n \in Nat
      /\ DOMAIN t = 1 .. m + n /\ DOMAIN rows = 1 .. m /\ DOMAIN added = 1 .. n
  BY <1>1, LenProperties
<1> HIDE DEF t, m, n
<1>3. \A i \in 1 .. m : i \in DOMAIN t /\ t[i] = rows[i]
  BY <1>1, <1>2
<1>4. \A i \in 1 .. n : m + i \in DOMAIN t /\ t[m + i] = added[i]
  <2> SUFFICES ASSUME NEW i \in 1 .. n PROVE m + i \in DOMAIN t /\ t[m + i] = added[i]
    OBVIOUS
  <2>1. m + i \in 1 .. m + n /\ ~(m + i <= m) /\ (m + i) - m = i
    BY <1>2
  <2> QED
    BY <1>1, <1>2, <2>1
<1>5. \A i \in DOMAIN t : \/ i \in 1 .. m
                          \/ \E j \in 1 .. n : i = m + j
  <2> SUFFICES ASSUME NEW i \in DOMAIN t, ~(i \in 1 .. m) PROVE \E j \in 1 .. n : i = m + j
    OBVIOUS
  <2>1. i - m \in 1 .. n /\ i = m + (i - m)
    BY <1>2
  <2> QED
    BY <2>1
<1>6. RowsIn(t) = RowsIn(rows) \cup RowsIn(added)
  <2>1. ASSUME NEW r \in RowsIn(t) PROVE r \in RowsIn(rows) \cup RowsIn(added)
    <3>1. PICK i \in DOMAIN t : t[i].row # 0 /\ r = t[i].row
      BY <2>1 DEF RowsIn
    <3>2. CASE i \in 1 .. m
      BY <1>2, <1>3, <3>1, <3>2 DEF RowsIn
    <3>3. CASE \E j \in 1 .. n : i = m + j
      BY <1>2, <1>4, <3>1, <3>3 DEF RowsIn
    <3> QED
      BY <1>5, <3>2, <3>3
  <2>2. ASSUME NEW r \in RowsIn(rows) PROVE r \in RowsIn(t)
    BY <1>2, <1>3, <2>2 DEF RowsIn
  <2>3. ASSUME NEW r \in RowsIn(added) PROVE r \in RowsIn(t)
    BY <1>2, <1>4, <2>3 DEF RowsIn
  <2> QED
    BY <2>1, <2>2, <2>3
<1>7. ASSUME Once(rows), Once(added), RowsIn(rows) \cap RowsIn(added) = {}
      PROVE  Once(t)
  <2> SUFFICES ASSUME NEW i \in DOMAIN t, NEW j \in DOMAIN t,
                      t[i].row # 0, t[i].row = t[j].row
               PROVE  i = j
    BY DEF Once
  <2>1. CASE i \in 1 .. m /\ j \in 1 .. m
    BY <1>2, <1>3, <1>7, <2>1 DEF Once
  <2>2. CASE i \in 1 .. m /\ \E k \in 1 .. n : j = m + k
    <3>1. PICK k \in 1 .. n : j = m + k
      BY <2>2
    <3>2. t[i].row \in RowsIn(rows)
      BY <1>2, <1>3, <2>2 DEF RowsIn
    <3>3. t[j].row \in RowsIn(added)
      BY <1>2, <1>4, <3>1 DEF RowsIn
    <3> QED
      BY <1>7, <3>2, <3>3
  <2>3. CASE j \in 1 .. m /\ \E k \in 1 .. n : i = m + k
    <3>1. PICK k \in 1 .. n : i = m + k
      BY <2>3
    <3>2. t[i].row \in RowsIn(added)
      BY <1>2, <1>4, <3>1 DEF RowsIn
    <3>3. t[j].row \in RowsIn(rows)
      BY <1>2, <1>3, <2>3 DEF RowsIn
    <3> QED
      BY <1>7, <3>2, <3>3
  <2>4. CASE (\E k \in 1 .. n : i = m + k) /\ (\E k \in 1 .. n : j = m + k)
    <3>1. PICK k \in 1 .. n : i = m + k
      BY <2>4
    <3>2. PICK l \in 1 .. n : j = m + l
      BY <2>4
    <3>3. k \in DOMAIN added /\ l \in DOMAIN added /\ added[k] = t[i] /\ added[l] = t[j]
      BY <1>2, <1>4, <3>1, <3>2
    <3>4. k = l
      BY <1>7, <3>3 DEF Once
    <3> QED
      BY <3>1, <3>2, <3>4
  <2> QED
    BY <1>5, <2>1, <2>2, <2>3, <2>4
<1> QED
  BY <1>1, <1>6, <1>7 DEF t

-----------------------------------------------------------------------------
(* Integrations.                                                           *)

LEMMA PlanTypes ==
  ASSUME plan \in ReadPlans \cup WritePlans
  PROVE  /\ plan.backend \in Backends
         /\ {plan.paged, plan.query, plan.ordered, plan.named} \subseteq BOOLEAN
         /\ plan.size \in Nat /\ plan.tableSize \in Nat
         /\ plan.columns \in {None} \cup SourceLists
         /\ plan.targetColumns \in {None} \cup TargetLists
         /\ plan.targetQuery \in {None} \cup QueryLists
<1>1. CASE plan \in ReadPlans
  <2>1. PICK b \in Backends, paged \in BOOLEAN, query \in BOOLEAN, ordered \in BOOLEAN,
             named \in BOOLEAN, n \in Sizes, m \in Sizes :
               plan = Plan(b, paged, query, query /\ ordered, named, n, m, None, None, None)
    BY <1>1 DEF ReadPlans
  <2> QED
    BY <2>1, SizeAssumption DEF Plan
<1>2. CASE plan \in WritePlans
  <2>1. PICK b \in Backends, query \in BOOLEAN, named \in BOOLEAN,
             c \in {None} \cup SourceLists, t \in {None} \cup TargetLists,
             q \in {None} \cup QueryLists :
               plan = Plan(b, FALSE, query, FALSE, named, 1, 1, c, t, q)
    BY <1>2 DEF WritePlans, Plan
  <2> QED
    BY <2>1 DEF Plan
<1> QED
  BY <1>1, <1>2

(* Every dialect but Impala's knows one of the three ways to page.         *)
LEMMA PagingKnown ==
  ASSUME plan \in ReadPlans \cup WritePlans, Kind \in {"sql", "async"}
  PROVE  dialect.paging \in {"row_number", "rownum", "offset", "fetch"}
<1>1. plan.backend \in Backends
  BY PlanTypes
<1>2. CASE Kind = "sql"
  <2>1. plan.backend.connector \in SyncSql
    BY <1>1, <1>2 DEF Backends, Kind
  <2>2. dialect = SqlPolicy(plan.backend.connector)
    BY <1>2 DEF dialect, DialectOf, Kind
  <2> QED
    BY <2>1, <2>2 DEF SyncSql, SqlPolicy, Dialect, MssqlDialect, OracleDialect,
                      PostgresqlDialect, MysqlDialect, ClickHouseDialect
<1>3. CASE Kind = "async"
  <2>1. dialect = AsyncDialectFor(plan.backend.connector)
    BY <1>3 DEF dialect, DialectOf, Kind
  <2> QED
    BY <2>1 DEF AsyncDialectFor, Dialect, AsyncSqlDialect, AsyncMssqlDialect
<1> QED
  BY <1>2, <1>3

(* All of them cut the same page.                                          *)
PageCut(s, page) ==
  /\ page \in Seq(Number)
  /\ Len(page) = IF start < Len(s) THEN MinOf(End, Len(s)) - start ELSE 0
  /\ \A i \in 1 .. Len(page) : page[i] = s[start + i]

LEMMA PageNumbers ==
  ASSUME NEW n \in Nat, start \in Nat
  PROVE  /\ Limit \in Nat /\ Limit >= 1 /\ End \in Nat /\ End = start + Limit /\ End - start = Limit
         /\ MinOf(End, n) \in Nat /\ MinOf(End, n) <= n /\ MinOf(End, n) <= End
         /\ MinOf(End, n) = End \/ MinOf(End, n) = n
         /\ start < n => start < MinOf(End, n)
BY SizeAssumption DEF End, MinOf

LEMMA RowNumberPageCuts ==
  ASSUME NEW s \in Seq(Number), start \in Nat
  PROVE  PageCut(s, RowNumberPage(s))
<1> DEFINE n == Len(s)
           e == MinOf(End, n)
           page == SubSeq(s, start + 1, e)
<1>1. n \in Nat
  BY LenProperties
<1>2. e \in Nat /\ e <= n /\ (start < n => start < e) /\ (start >= n => e < start + 1)
  <2>1. e \in Nat /\ e <= n /\ (start < n => start < e)
    BY <1>1, PageNumbers
  <2> QED
    BY <1>1, <2>1
<1>3. /\ page \in Seq(Number) /\ Len(page) = IF start + 1 <= e THEN e - (start + 1) + 1 ELSE 0
      /\ \A i \in 1 .. Len(page) : page[i] = s[start + 1 + i - 1]
  BY <1>2, CutProps
<1>4. RowNumberPage(s) = page
  BY DEF RowNumberPage
<1> HIDE DEF page, e
<1>5. Len(page) = IF start < n THEN e - start ELSE 0
  BY <1>1, <1>2, <1>3
<1>6. \A i \in 1 .. Len(page) : page[i] = s[start + i]
  BY <1>3
<1> QED
  BY <1>3, <1>4, <1>5, <1>6 DEF PageCut, e

LEMMA RownumPageCuts ==
  ASSUME NEW s \in Seq(Number), start \in Nat
  PROVE  PageCut(s, RownumPage(s))
<1> DEFINE n == Len(s)
           e == MinOf(End, n)
           inner == SubSeq(s, 1, e)
           page == SubSeq(inner, start + 1, Len(inner))
<1>1. n \in Nat
  BY LenProperties
<1>2. e \in Nat /\ e <= n /\ (start < n => start < e) /\ (start >= n => e < start + 1)
  <2>1. e \in Nat /\ e <= n /\ (start < n => start < e)
    BY <1>1, PageNumbers
  <2> QED
    BY <1>1, <2>1
<1>3. /\ inner \in Seq(Number) /\ Len(inner) = IF 1 <= e THEN e - 1 + 1 ELSE 0
      /\ \A i \in 1 .. Len(inner) : inner[i] = s[1 + i - 1]
  BY <1>2, CutProps
<1>4. Len(inner) = e /\ \A i \in 1 .. e : inner[i] = s[i]
  BY <1>2, <1>3
<1>5. RownumPage(s) = page
  BY DEF RownumPage
<1> HIDE DEF inner, e
<1>6. /\ page \in Seq(Number)
      /\ Len(page) = IF start + 1 <= Len(inner) THEN Len(inner) - (start + 1) + 1 ELSE 0
      /\ \A i \in 1 .. Len(page) : page[i] = inner[start + 1 + i - 1]
  <2>1. start + 1 \in Nat \ {0} /\ Len(inner) \in Nat /\ Len(inner) <= Len(inner)
    BY <1>2, <1>4
  <2> QED
    BY <1>3, <2>1, CutProps
<1> HIDE DEF page
<1>7. Len(page) = IF start < n THEN e - start ELSE 0
  BY <1>1, <1>2, <1>4, <1>6
<1>8. ASSUME NEW i \in 1 .. Len(page) PROVE page[i] = s[start + i]
  <2>1. start + i \in 1 .. e /\ start + 1 + i - 1 = start + i
    BY <1>1, <1>2, <1>7
  <2> QED
    BY <1>4, <1>6, <2>1
<1> QED
  BY <1>5, <1>6, <1>7, <1>8 DEF PageCut, e

LEMMA OffsetPageCuts ==
  ASSUME NEW s \in Seq(Number), start \in Nat
  PROVE  PageCut(s, OffsetPage(s))
<1> DEFINE n == Len(s)
           e == MinOf(End, n)
           rest == SubSeq(s, start + 1, n)
           k == MinOf(End - start, Len(rest))
           page == SubSeq(rest, 1, k)
<1>1. n \in Nat
  BY LenProperties
<1>2. /\ e \in Nat /\ e <= n /\ (e = End \/ e = n) /\ (start < n => start < e) /\ e <= End
      /\ End = start + Limit /\ Limit \in Nat /\ Limit >= 1 /\ End - start = Limit
  BY <1>1, PageNumbers
<1>3. /\ rest \in Seq(Number) /\ Len(rest) = IF start + 1 <= n THEN n - (start + 1) + 1 ELSE 0
      /\ \A i \in 1 .. Len(rest) : rest[i] = s[start + 1 + i - 1]
  BY <1>1, CutProps
<1>4. /\ Len(rest) = IF start < n THEN n - start ELSE 0
      /\ \A i \in 1 .. Len(rest) : rest[i] = s[start + i]
  BY <1>1, <1>3
<1>5. OffsetPage(s) = page
  BY DEF OffsetPage
<1> HIDE DEF rest
<1>6. /\ k \in Nat /\ k <= Len(rest) /\ k = IF Limit <= Len(rest) THEN Limit ELSE Len(rest)
  BY <1>1, <1>2, <1>4 DEF MinOf
<1>7. k = IF start < n THEN e - start ELSE 0
  BY <1>1, <1>2, <1>4, <1>6 DEF MinOf
<1> HIDE DEF k, e
<1>8. /\ page \in Seq(Number) /\ Len(page) = IF 1 <= k THEN k - 1 + 1 ELSE 0
      /\ \A i \in 1 .. Len(page) : page[i] = rest[1 + i - 1]
  BY <1>3, <1>6, CutProps
<1> HIDE DEF page
<1>9. Len(page) = k
  BY <1>6, <1>8
<1>10. ASSUME NEW i \in 1 .. Len(page) PROVE page[i] = s[start + i]
  <2>1. i \in 1 .. Len(rest) /\ 1 + i - 1 = i
    BY <1>1, <1>4, <1>6, <1>9
  <2> QED
    BY <1>4, <1>8, <2>1
<1> QED
  BY <1>5, <1>7, <1>8, <1>9, <1>10 DEF PageCut, e

LEMMA PageCuts ==
  ASSUME plan \in ReadPlans \cup WritePlans, Kind \in {"sql", "async"}, start \in Nat,
         NEW s \in Seq(Number)
  PROVE  PageCut(s, PageOf(s))
<1>1. dialect.paging \in {"row_number", "rownum", "offset", "fetch"}
  BY PagingKnown
<1>2. CASE dialect.paging = "row_number"
  BY <1>2, RowNumberPageCuts DEF PageOf
<1>3. CASE dialect.paging = "rownum"
  BY <1>3, RownumPageCuts DEF PageOf
<1>4. CASE dialect.paging \in {"offset", "fetch"}
  BY <1>4, OffsetPageCuts DEF PageOf
<1> QED
  BY <1>1, <1>2, <1>3, <1>4

(* What depends on the integration alone stays what it is.                 *)
LEMMA PlanSame ==
  ASSUME UNCHANGED <<plan, stable>>
  PROVE  /\ Kind' = Kind /\ dialect' = dialect /\ CanRead' = CanRead
         /\ Ordered' = Ordered /\ Identity' = Identity /\ RowsMade' = RowsMade
         /\ SourceAdapter(Kind)' = SourceAdapter(Kind)
<1>1. Kind' = Kind /\ dialect' = dialect
  BY DEF Kind, dialect
<1>2. CanRead' = CanRead /\ CanWrite' = CanWrite /\ Ordered' = Ordered /\ Identity' = Identity
      /\ SourceAdapter(Kind)' = SourceAdapter(Kind)
  BY <1>1 DEF CanRead, CanWrite, Ordered, Identity, SourceAdapter
<1>3. Keys' = Keys /\ OwnQuery' = OwnQuery /\ ByPosition' = ByPosition
  BY DEF Keys, OwnQuery, ByPosition
<1>4. TargetQuery' = TargetQuery
  BY <1>3 DEF TargetQuery
<1>5. Prepared' = Prepared
  BY <1>1, <1>3 DEF Prepared, AsyncPrepared, SyncPrepared
<1>6. Slots' = Slots
  BY <1>1, <1>4, <1>5 DEF Slots
<1>7. Writable' = Writable
  BY <1>1, <1>2, <1>3, <1>5, <1>6 DEF Writable
<1>8. \A r : RowAt(r)' = RowAt(r)
  BY <1>5, <1>6 DEF RowAt
<1>9. RowsMade' = RowsMade
  BY <1>7, <1>8 DEF RowsMade
<1> QED
  BY <1>1, <1>2, <1>9

-----------------------------------------------------------------------------
(* The invariant is inductive.                                             *)

LEMMA EmptyRows == RowsIn(<<>>) = {} /\ Once(<<>>) /\ Elements(<<>>) = {}
BY DEF RowsIn, Once, Elements

LEMMA TransferInitInv == TransferInit => TransferInv
<1> SUFFICES ASSUME TransferInit PROVE TransferInv
  OBVIOUS
<1>1. plan.size \in Nat
  BY PlanTypes DEF TransferInit
<1>2. rel = Identity /\ Identity \in Seq(Number) /\ Len(Identity) = plan.size
  <2>1. Identity \in [1 .. plan.size -> Number]
    BY <1>1 DEF Identity, Number
  <2> QED
    BY <1>1, <2>1 DEF TransferInit, Identity
<1>3. DOMAIN rel = 1 .. plan.size /\ \A i \in DOMAIN rel : rel[i] = i
  BY <1>2 DEF Identity
<1>4. landed \in Seq(RowsMade) /\ RowsIn(landed) = {} /\ Once(landed)
  <2>1. Old \in RowsMade /\ Old.row = 0
    BY DEF RowsMade, Old
  <2>2. <<>> \in Seq(RowsMade)
    OBVIOUS
  <2>3. <<Old>> \in Seq(RowsMade)
    BY <2>1
  <2>4. RowsIn(<<Old>>) = {} /\ Once(<<Old>>)
    BY <2>1 DEF RowsIn, Once
  <2> QED
    BY <2>2, <2>3, <2>4, EmptyRows DEF TransferInit
<1>5. TransferTypeOK
  BY <1>2, <1>4 DEF TransferInit, TransferTypeOK
<1>6. PlaceInv
  BY <1>2, <1>4 DEF TransferInit, PlaceInv
<1>7. PagedInv
  <2>1. Increasing(rel) /\ \A i \in DOMAIN rel : rel[i] <= plan.size + changes
    BY <1>1, <1>3 DEF TransferInit, Increasing
  <2>2. batch = <<>> /\ Elements(batch) = {} /\ Increasing(batch) /\ DOMAIN batch = {}
    BY EmptyRows DEF TransferInit, Increasing
  <2>3. 1 .. MinOf(start, plan.size) = {}
    BY <1>1 DEF TransferInit, MinOf
  <2> QED
    BY <1>4, <2>1, <2>2, <2>3 DEF PagedInv
<1>8. IteratorInv
  <2>1. IsInjective(<<>>)
    BY DEF IsInjective
  <2> QED
    BY <1>4, <2>1, EmptyRows DEF TransferInit, IteratorInv
<1>9. ReturnInv /\ MakeInv /\ QuietCreation
  BY DEF TransferInit, ReturnInv, MakeInv, QuietCreation
<1> QED
  BY <1>5, <1>6, <1>7, <1>8, <1>9 DEF TransferInv

(* A step that leaves the data alone, or only empties a target nothing was *)
(* copied to.                                                              *)
LEMMA DataKept ==
  ASSUME TransferInv, UNCHANGED <<plan, stable, rel, moves, start, batch, unread>>,
         changes' \in Nat, changes' >= changes,
         landed' = landed \/ (landed' = <<>> /\ RowsIn(landed) = {}),
         step # "done", plan.paged \/ step' \notin {"fetch", "write"}
  PROVE  /\ PagedInv' /\ IteratorInv'
         /\ landed' \in Seq(RowsMade') /\ RowsIn(landed') = RowsIn(landed)
<1>1. /\ Ordered' = Ordered /\ RowsMade' = RowsMade
      /\ plan.size \in Nat /\ changes \in Nat /\ plan.size + changes <= plan.size + changes'
  BY PlanSame, PlanTypes DEF TransferInv, TransferTypeOK
<1>2. /\ RowsIn(landed') = RowsIn(landed) /\ (Once(landed) => Once(landed'))
      /\ landed' \in Seq(RowsMade)
  <2>1. landed \in Seq(RowsMade) /\ <<>> \in Seq(RowsMade)
    BY DEF TransferInv, TransferTypeOK
  <2>2. CASE landed' = landed
    BY <2>1, <2>2
  <2>3. CASE landed' = <<>> /\ RowsIn(landed) = {}
    BY <2>1, <2>3, EmptyRows
  <2> QED
    BY <2>2, <2>3
<1>3. \A n \in Nat : n <= plan.size + changes => n <= plan.size + changes'
  BY <1>1
<1>4. /\ \A i \in DOMAIN rel : rel[i] \in Nat
      /\ \A r \in RowsIn(landed) \cup Elements(batch) : r \in Nat
  <2>1. ASSUME NEW s \in Seq(Number) PROVE \A i \in DOMAIN s : s[i] \in Nat
    BY DomainLen DEF Number
  <2>2. ASSUME NEW r \in RowsIn(landed) PROVE r \in Nat
    <3>1. PICK i \in DOMAIN landed : r = landed[i].row
      BY <2>2 DEF RowsIn
    <3>2. landed[i] \in RowsMade
      BY <3>1, DomainLen DEF TransferInv, TransferTypeOK
    <3> QED
      BY <3>1, <3>2 DEF RowsMade, RowAt, Old, Number
  <2> QED
    BY <2>1, <2>2 DEF TransferInv, TransferTypeOK, Elements
<1>5. PagedInv'
  <2>1. \A i \in DOMAIN rel' : rel'[i] <= plan'.size + changes'
    BY <1>3, <1>4 DEF TransferInv, PagedInv
  <2>2. "inserted" \notin moves' => Increasing(rel')
    BY DEF TransferInv, PagedInv
  <2>3. ASSUME plan.paged, Ordered, "inserted" \notin moves
        PROVE  /\ \A r \in RowsIn(landed) : \A k \in DOMAIN batch : r < batch[k]
               /\ \A r \in RowsIn(landed) \cup Elements(batch) :
                    /\ r <= plan.size + changes'
                    /\ \A k \in DOMAIN rel : k > start => r < rel[k]
               /\ Increasing(batch) /\ Once(landed')
    BY <1>2, <1>3, <1>4, <2>3 DEF TransferInv, PagedInv
  <2>4. plan.paged /\ Ordered /\ moves = {} =>
          RowsIn(landed') \cup Elements(batch) = 1 .. MinOf(start, plan.size) \/ step' = "done"
    BY <1>2 DEF TransferInv, PagedInv
  <2>5. Elements(batch') = Elements(batch) /\ MinOf(start', plan'.size) = MinOf(start, plan.size)
    OBVIOUS
  <2> QED
    BY <1>1, <1>2, <2>1, <2>2, <2>3, <2>4, <2>5 DEF PagedInv
<1>6. IteratorInv'
  <2>1. Elements(batch') = Elements(batch) /\ Elements(unread') = Elements(unread)
        /\ IsInjective(batch') = IsInjective(batch) /\ IsInjective(unread') = IsInjective(unread)
    OBVIOUS
  <2> QED
    BY <1>2, <2>1 DEF TransferInv, IteratorInv
<1> QED
  BY <1>1, <1>2, <1>5, <1>6

(* What stays, by and large, in a step before the first page.              *)
LEMMA EarlyKeeps ==
  ASSUME TransferInv, UNCHANGED <<plan, stable, rel, moves, readVars>>,
         step \in {"adapter", "create", "make", "clear"},
         changes' \in Nat, changes' >= changes, landed' = landed \/ landed' = <<>>,
         step' \in {"adapter", "create", "make", "clear", "read", "done"},
         step' # "done" => SourceAdapter(Kind) /\ UNCHANGED result,
         result' # "none" => step' = "done",
         result' \in {"none", "raised", "exists"}, table' \in BOOLEAN,
         step' = "make" => dialect.create = "check" /\ (table' => changes' > 0),
         result' = "exists" => dialect.create = "check" /\ changes' > 0
  PROVE  TransferInv'
<1> USE DEF TransferInv, readVars
<1>1. /\ RowsIn(landed) = {} /\ rel = Identity /\ moves = {} /\ batch = <<>>
      /\ unread = <<>> /\ start = 0 /\ step # "done"
  BY DEF PlaceInv
<1>2. /\ PagedInv' /\ IteratorInv'
      /\ landed' \in Seq(RowsMade') /\ RowsIn(landed') = RowsIn(landed)
  BY <1>1, DataKept
<1>3. /\ Kind' = Kind /\ dialect' = dialect /\ Identity' = Identity
      /\ SourceAdapter(Kind)' = SourceAdapter(Kind) /\ RowsMade' = RowsMade
  BY PlanSame
<1>4. TransferTypeOK'
  BY <1>2, <1>3 DEF TransferTypeOK
<1>5. PlaceInv'
  BY <1>1, <1>2, <1>3 DEF PlaceInv
<1>6. ReturnInv' /\ MakeInv' /\ QuietCreation'
  BY <1>3 DEF ReturnInv, MakeInv, QuietCreation
<1> QED
  BY <1>2, <1>4, <1>5, <1>6

LEMMA GetAdapterKeeps == TransferInv /\ GetAdapter => TransferInv'
<1> SUFFICES ASSUME TransferInv, GetAdapter PROVE TransferInv'
  OBVIOUS
<1>1. step = "adapter" /\ result = "none" /\ table \in BOOLEAN /\ changes \in Nat
  BY DEF GetAdapter, TransferInv, PlaceInv, TransferTypeOK
<1>2. /\ UNCHANGED <<plan, stable, rel, moves, readVars, changes, landed, table>>
      /\ \/ step' \in {"clear", "create"} /\ UNCHANGED result /\ SourceAdapter(Kind)
         \/ step' = "done" /\ result' = "raised"
  BY DEF GetAdapter, Goto, Finish, sourceVars, targetVars
<1> QED
  BY <1>1, <1>2, EarlyKeeps

LEMMA CreateTableKeeps == TransferInv /\ CreateTable => TransferInv'
<1> SUFFICES ASSUME TransferInv, CreateTable PROVE TransferInv'
  OBVIOUS
<1>1. /\ step = "create" /\ result = "none" /\ table \in BOOLEAN /\ changes \in Nat
      /\ SourceAdapter(Kind)
  BY DEF CreateTable, TransferInv, PlaceInv, TransferTypeOK
<1>2. /\ UNCHANGED <<plan, stable, rel, moves, readVars, changes, landed>> /\ table' \in BOOLEAN
      /\ \/ step' = "done" /\ result' = "raised"
         \/ step' = "clear" /\ UNCHANGED result
         \/ step' = "make" /\ UNCHANGED result /\ ~table' /\ dialect.create = "check"
  <2>1. CASE StatementsRaise /\ Finish("raised") /\ UNCHANGED table
    BY <1>1, <2>1 DEF CreateTable, Finish, sourceVars
  <2>2. CASE table /\ Goto("clear") /\ UNCHANGED table
    BY <1>1, <2>2 DEF CreateTable, Goto, sourceVars
  <2>3. CASE ~table /\ dialect.create = "whole" /\ table' = TRUE /\ Goto("clear")
    BY <1>1, <2>3 DEF CreateTable, Goto, sourceVars
  <2>4. CASE ~table /\ dialect.create = "check" /\ Goto("make") /\ UNCHANGED table
    BY <1>1, <2>4 DEF CreateTable, Goto, sourceVars
  <2> QED
    BY <2>1, <2>2, <2>3, <2>4 DEF CreateTable
<1> QED
  BY <1>1, <1>2, EarlyKeeps

LEMMA MakeTableKeeps == TransferInv /\ MakeTable => TransferInv'
<1> SUFFICES ASSUME TransferInv, MakeTable PROVE TransferInv'
  OBVIOUS
<1>1. /\ step = "make" /\ result = "none" /\ table \in BOOLEAN /\ changes \in Nat
      /\ SourceAdapter(Kind) /\ dialect.create = "check" /\ (table => changes > 0)
  BY DEF MakeTable, TransferInv, PlaceInv, TransferTypeOK, MakeInv
<1>2. /\ UNCHANGED <<plan, stable, rel, moves, readVars, changes, landed>> /\ table' \in BOOLEAN
      /\ \/ step' = "done" /\ result' = "exists" /\ table
         \/ step' = "clear" /\ UNCHANGED result
  BY DEF MakeTable, Goto, Finish, sourceVars
<1> QED
  BY <1>1, <1>2, EarlyKeeps

LEMMA ClearDataKeeps == TransferInv /\ ClearData => TransferInv'
<1> SUFFICES ASSUME TransferInv, ClearData PROVE TransferInv'
  OBVIOUS
<1>1. /\ step = "clear" /\ result = "none" /\ table \in BOOLEAN /\ changes \in Nat
      /\ SourceAdapter(Kind)
  BY DEF ClearData, TransferInv, PlaceInv, TransferTypeOK
<1>2. /\ UNCHANGED <<plan, stable, rel, moves, readVars, changes, table>>
      /\ landed' = landed \/ landed' = <<>>
      /\ \/ step' = "done" /\ result' = "raised"
         \/ step' = "read" /\ UNCHANGED result
  BY DEF ClearData, Goto, Finish, sourceVars
<1> QED
  BY <1>1, <1>2, EarlyKeeps

LEMMA TableChangesKeeps == TransferInv /\ TableChanges => TransferInv'
<1> SUFFICES ASSUME TransferInv, TableChanges PROVE TransferInv'
  OBVIOUS
<1>1. /\ step \in {"create", "make", "clear"} /\ result = "none" /\ table \in BOOLEAN
      /\ changes \in Nat /\ SourceAdapter(Kind)
      /\ step = "make" => dialect.create = "check"
  BY DEF TableChanges, TransferInv, PlaceInv, TransferTypeOK, MakeInv
<1>2. /\ UNCHANGED <<plan, stable, rel, moves, readVars, step, result>>
      /\ landed' = <<>> /\ table' \in BOOLEAN /\ changes' = changes + 1
  BY DEF TableChanges
<1>3. changes' \in Nat /\ changes' >= changes /\ changes' > 0
  BY <1>1, <1>2
<1> QED
  BY <1>1, <1>2, <1>3, EarlyKeeps

(* A call of the source or the target that raises.                         *)
LEMMA RaisingKeeps ==
  ASSUME TransferInv, step # "done", ReadRaises
  PROVE  TransferInv'
<1> USE DEF TransferInv
<1>1. /\ UNCHANGED <<plan, stable, rel, moves, start, batch, unread, landed, changes, counted,
                     table>>
      /\ step' = "done" /\ result' = "raised" /\ changes \in Nat
  BY DEF ReadRaises, Finish, sourceVars, readVars, targetVars, TransferTypeOK
<1>2. PagedInv' /\ IteratorInv' /\ landed' \in Seq(RowsMade')
  BY <1>1, DataKept
<1>3. Identity' = Identity
  BY <1>1, PlanSame
<1>4. TransferTypeOK'
  BY <1>1, <1>2 DEF TransferTypeOK
<1>5. PlaceInv'
  BY <1>1, <1>3 DEF PlaceInv
<1>6. ReturnInv' /\ MakeInv' /\ QuietCreation'
  BY <1>1 DEF ReturnInv, MakeInv, QuietCreation
<1> QED
  BY <1>2, <1>4, <1>5, <1>6

LEMMA CountKeeps == TransferInv /\ Count => TransferInv'
<1> SUFFICES ASSUME TransferInv, Count PROVE TransferInv'
  OBVIOUS
<1> USE DEF TransferInv
<1>1. /\ step = "read" /\ plan.paged /\ result = "none"
      /\ UNCHANGED <<plan, stable, rel, moves, start, batch, unread, landed, changes, table,
                     result>>
      /\ counted' = IF plan.query THEN plan.tableSize ELSE Len(rel)
      /\ step' = "page"
  BY DEF Count, Goto, sourceVars, targetVars, PlaceInv, TransferTypeOK
<1>2. /\ plan.size \in Nat /\ plan.tableSize \in Nat /\ changes \in Nat /\ Len(rel) \in Nat
      /\ batch = <<>> /\ SourceAdapter(Kind) /\ moves = {} /\ rel = Identity
  BY <1>1, PlanTypes, LenProperties DEF TransferTypeOK, PlaceInv
<1>3. Len(rel) = plan.size
  <2>1. DOMAIN rel = 1 .. plan.size /\ DOMAIN rel = 1 .. Len(rel)
    BY <1>2, LenProperties DEF Identity, TransferTypeOK
  <2> QED
    BY <1>2, <2>1
<1>4. PagedInv' /\ IteratorInv' /\ landed' \in Seq(RowsMade')
  BY <1>1, <1>2, DataKept
<1>5. Identity' = Identity /\ SourceAdapter(Kind)' = SourceAdapter(Kind)
  BY <1>1, PlanSame
<1>6. TransferTypeOK'
  BY <1>1, <1>2, <1>4 DEF TransferTypeOK
<1>7. counted' >= plan.size \/ (plan.query /\ plan.tableSize < plan.size)
  BY <1>1, <1>2, <1>3
<1>8. PlaceInv'
  BY <1>1, <1>2, <1>5, <1>7 DEF PlaceInv
<1>9. ReturnInv' /\ MakeInv' /\ QuietCreation'
  BY <1>1 DEF ReturnInv, MakeInv, QuietCreation
<1> QED
  BY <1>4, <1>6, <1>8, <1>9

LEMMA LastPageKeeps == TransferInv /\ LastPage => TransferInv'
<1> SUFFICES ASSUME TransferInv, LastPage PROVE TransferInv'
  OBVIOUS
<1> USE DEF TransferInv
<1>1. /\ step = "page" /\ start >= counted
      /\ UNCHANGED <<plan, stable, rel, moves, start, batch, unread, landed, changes, counted,
                     table>>
      /\ step' = "done" /\ result' = "returned"
  BY DEF LastPage, Finish, sourceVars, readVars, targetVars
<1>2. /\ plan.size \in Nat /\ plan.tableSize \in Nat /\ changes \in Nat /\ start \in Nat
      /\ counted \in Nat /\ plan.paged /\ batch = <<>> /\ step # "done"
  BY <1>1, PlanTypes DEF TransferTypeOK, PlaceInv
<1>3. PagedInv' /\ IteratorInv' /\ landed' \in Seq(RowsMade') /\ RowsIn(landed') = RowsIn(landed)
  BY <1>1, <1>2, DataKept
<1>4. Identity' = Identity /\ Ordered' = Ordered
  BY <1>1, PlanSame
<1>5. TransferTypeOK'
  BY <1>1, <1>3 DEF TransferTypeOK
<1>6. PlaceInv'
  BY <1>1, <1>2, <1>4 DEF PlaceInv
<1>7. ASSUME Ordered, moves = {}, ~(plan.query /\ plan.tableSize < plan.size)
      PROVE  RowsIn(landed) = 1 .. plan.size
  <2>1. counted >= plan.size
    BY <1>1, <1>2, <1>7 DEF PlaceInv
  <2>2. MinOf(start, plan.size) = plan.size
    BY <1>1, <1>2, <2>1 DEF MinOf
  <2>3. RowsIn(landed) \cup Elements(batch) = 1 .. MinOf(start, plan.size)
    BY <1>1, <1>2, <1>7 DEF PagedInv
  <2> QED
    BY <1>2, <2>2, <2>3, EmptyRows
<1>8. ReturnInv'
  BY <1>1, <1>2, <1>3, <1>4, <1>7 DEF ReturnInv
<1>9. MakeInv' /\ QuietCreation'
  BY <1>1 DEF MakeInv, QuietCreation
<1> QED
  BY <1>3, <1>5, <1>6, <1>8, <1>9

(* Whatever the order in which the engine returns them, the rows of a      *)
(* source that did not change are the numbers up to its size, each once.   *)
LEMMA ResultsProps ==
  ASSUME plan.size \in Nat, rel = Identity, NEW s \in Results
  PROVE  s \in Seq(Number) /\ IsInjective(s) /\ Elements(s) = 1 .. plan.size
<1> DEFINE N == 1 .. plan.size
<1>1. DOMAIN rel = N /\ rel \in [N -> N] /\ {rel[i] : i \in DOMAIN rel} = N
  BY DEF Identity
<1>2. s \in [N -> N] /\ IsInjective(s)
  <2>1. CASE Ordered
    BY <1>1, <2>1 DEF Results, IsInjective, Identity
  <2>2. CASE ~Ordered
    BY <1>1, <2>2 DEF Results, IsInjective
  <2> QED
    BY <2>1, <2>2
<1>3. s \in Seq(Number)
  <2>1. s \in [N -> Number]
    BY <1>2 DEF Number
  <2> QED
    BY <2>1
<1>4. IsFiniteSet(N)
  BY FS_Interval
<1>5. s \in Injection(N, N)
  BY <1>2 DEF Injection
<1>6. s \in Surjection(N, N)
  BY <1>4, <1>5, FS_Injection
<1>7. Elements(s) = N
  BY <1>2, <1>6 DEF Surjection, Elements
<1> QED
  BY <1>2, <1>3, <1>7

LEMMA OpenIteratorKeeps == TransferInv /\ OpenIterator => TransferInv'
<1> SUFFICES ASSUME TransferInv, OpenIterator PROVE TransferInv'
  OBVIOUS
<1> USE DEF TransferInv
<1>1. PICK s \in Results : unread' = s
  BY DEF OpenIterator
<1>2. /\ step = "read" /\ ~plan.paged /\ result = "none" /\ step' = "fetch"
      /\ UNCHANGED <<plan, stable, rel, moves, start, batch, landed, changes, counted, table,
                     result>>
  BY DEF OpenIterator, Goto, sourceVars, targetVars, PlaceInv
<1>0. CanRead /\ CanRead' = CanRead
  BY <1>2, PlanSame DEF OpenIterator, SelectOK
<1>3. /\ plan.size \in Nat /\ rel = Identity /\ moves = {} /\ batch = <<>>
      /\ RowsIn(landed) = {} /\ SourceAdapter(Kind)
  BY <1>2, PlanTypes DEF TransferTypeOK, PlaceInv
<1>4. s \in Seq(Number) /\ IsInjective(s) /\ Elements(s) = 1 .. plan.size
  BY <1>3, ResultsProps
<1>5. /\ RowsMade' = RowsMade /\ Identity' = Identity
      /\ SourceAdapter(Kind)' = SourceAdapter(Kind) /\ Ordered' = Ordered
  BY <1>2, PlanSame
<1>6. TransferTypeOK'
  BY <1>1, <1>2, <1>4, <1>5 DEF TransferTypeOK
<1>7. PlaceInv'
  BY <1>0, <1>2, <1>3, <1>5 DEF PlaceInv
<1>8. PagedInv'
  BY <1>2, <1>5 DEF PagedInv
<1>9. IteratorInv'
  <2>1. Once(landed) /\ IsInjective(batch)
    BY <1>2 DEF IteratorInv
  <2> QED
    BY <1>1, <1>2, <1>3, <1>4, <2>1, EmptyRows DEF IteratorInv
<1>10. ReturnInv' /\ MakeInv' /\ QuietCreation'
  BY <1>2 DEF ReturnInv, MakeInv, QuietCreation
<1> QED
  BY <1>6, <1>7, <1>8, <1>9, <1>10

(* A batch and what is left behind it.                                     *)
LEMMA FetchedProps ==
  ASSUME NEW s \in Seq(Number), NEW k \in 1 .. Len(s)
  PROVE  LET front == SubSeq(s, 1, k)
             rest == SubSeq(s, k + 1, Len(s))
         IN  /\ front \in Seq(Number) /\ rest \in Seq(Number) /\ Len(front) = k
             /\ Elements(front) \cup Elements(rest) = Elements(s)
             /\ IsInjective(s) => /\ IsInjective(front) /\ IsInjective(rest)
                                 /\ Elements(front) \cap Elements(rest) = {}
<1> DEFINE front == SubSeq(s, 1, k)
           rest == SubSeq(s, k + 1, Len(s))
<1>0. Len(s) \in Nat
  BY LenProperties
<1>1. Len(s) \in Nat /\ DOMAIN s = 1 .. Len(s)
  BY LenProperties
<1>2. k \in Nat /\ k >= 1 /\ k <= Len(s)
  BY <1>0
<1>3. front = SubSeq(s, 1, k) /\ rest = SubSeq(s, k + 1, Len(s))
  OBVIOUS
<1> HIDE DEF front, rest
<1>4. /\ SubSeq(s, 1, k) \in Seq(Number) /\ Len(SubSeq(s, 1, k)) = IF 1 <= k THEN k - 1 + 1 ELSE 0
      /\ \A i \in 1 .. Len(SubSeq(s, 1, k)) : SubSeq(s, 1, k)[i] = s[1 + i - 1]
  BY ONLY s \in Seq(Number), <1>2, CutProps
<1>5. /\ front \in Seq(Number) /\ Len(front) = k /\ DOMAIN front = 1 .. k
      /\ \A i \in 1 .. k : front[i] = s[i]
  <2>1. front \in Seq(Number) /\ Len(front) = k
    BY ONLY <1>2, <1>3, <1>4
  <2>2. \A i \in 1 .. k : front[i] = s[i]
    BY ONLY <1>2, <1>3, <1>4, <2>1
  <2> QED
    BY <2>1, <2>2, LenProperties
<1>6. /\ SubSeq(s, k + 1, Len(s)) \in Seq(Number)
      /\ Len(SubSeq(s, k + 1, Len(s))) = IF k + 1 <= Len(s) THEN Len(s) - (k + 1) + 1 ELSE 0
      /\ \A i \in 1 .. Len(SubSeq(s, k + 1, Len(s))) :
           SubSeq(s, k + 1, Len(s))[i] = s[k + 1 + i - 1]
  <2>1. k + 1 \in Nat \ {0} /\ Len(s) \in Nat /\ Len(s) <= Len(s)
    BY <1>1, <1>2
  <2> QED
    BY ONLY s \in Seq(Number), <2>1, CutProps
<1>7. /\ rest \in Seq(Number) /\ Len(rest) = Len(s) - k /\ DOMAIN rest = 1 .. Len(s) - k
      /\ \A i \in 1 .. Len(s) - k : rest[i] = s[k + i]
  <2>1. rest \in Seq(Number) /\ Len(rest) = IF k + 1 <= Len(s) THEN Len(s) - (k + 1) + 1 ELSE 0
    BY ONLY <1>3, <1>6
  <2>2. Len(rest) = Len(s) - k
    <3>1. Len(rest) = IF k + 1 <= Len(s) THEN Len(s) - (k + 1) + 1 ELSE 0
      BY <2>1
    <3>2. CASE k + 1 <= Len(s)
      BY ONLY <1>1, <1>2, <3>1, <3>2
    <3>3. CASE ~(k + 1 <= Len(s))
      <4>1. Len(rest) = 0
        BY <3>1, <3>3
      <4>2. Len(s) - k = 0
        BY ONLY <1>0, <1>2, <3>3
      <4> QED
        BY <4>1, <4>2
    <3> QED
      BY <3>2, <3>3
  <2>3. \A i \in 1 .. Len(s) - k : rest[i] = s[k + i]
    BY ONLY <1>2, <1>3, <1>6, <2>2
  <2> QED
    BY <2>1, <2>2, <2>3, LenProperties
<1>8. /\ \A i \in 1 .. k : i \in DOMAIN s
      /\ \A i \in 1 .. Len(s) - k : k + i \in DOMAIN s /\ k + i \notin 1 .. k
      /\ \A i \in DOMAIN s : i \in 1 .. k \/ \E j \in 1 .. Len(s) - k : i = k + j
  <2>1. ASSUME NEW i \in DOMAIN s, i \notin 1 .. k PROVE \E j \in 1 .. Len(s) - k : i = k + j
    <3>1. i - k \in 1 .. Len(s) - k /\ i = k + (i - k)
      BY <1>1, <1>2, <2>1
    <3> QED
      BY <3>1
  <2> QED
    BY <1>1, <1>2, <2>1
<1>9. Elements(front) \cup Elements(rest) = Elements(s)
  <2>1. ASSUME NEW r \in Elements(s) PROVE r \in Elements(front) \cup Elements(rest)
    <3>1. PICK i \in DOMAIN s : r = s[i]
      BY <2>1 DEF Elements
    <3>2. CASE i \in 1 .. k
      BY ONLY <1>5, <3>1, <3>2 DEF Elements
    <3>3. CASE \E j \in 1 .. Len(s) - k : i = k + j
      BY ONLY <1>7, <3>1, <3>3 DEF Elements
    <3> QED
      BY <1>8, <3>2, <3>3
  <2>2. ASSUME NEW r \in Elements(front) PROVE r \in Elements(s)
    BY ONLY <1>5, <1>8, r \in Elements(front) DEF Elements
  <2>3. ASSUME NEW r \in Elements(rest) PROVE r \in Elements(s)
    <3>1. PICK i \in 1 .. Len(s) - k : r = rest[i]
      BY <1>7, <2>3 DEF Elements
    <3>2. k + i \in DOMAIN s /\ r = s[k + i]
      BY <1>7, <1>8, <3>1
    <3> QED
      BY <3>2 DEF Elements
  <2> QED
    BY <2>1, <2>2, <2>3
<1>10. ASSUME IsInjective(s)
       PROVE  IsInjective(front) /\ IsInjective(rest) /\ Elements(front) \cap Elements(rest) = {}
  <2>1. IsInjective(front)
    BY <1>5, <1>8, <1>10 DEF IsInjective
  <2>2. IsInjective(rest)
    <3> SUFFICES ASSUME NEW i \in 1 .. Len(s) - k, NEW j \in 1 .. Len(s) - k, rest[i] = rest[j]
                 PROVE  i = j
      BY <1>7 DEF IsInjective
    <3>1. k + i = k + j
      BY <1>7, <1>8, <1>10 DEF IsInjective
    <3> QED
      BY <1>1, <1>2, <3>1
  <2>3. ASSUME NEW r \in Elements(front) \cap Elements(rest) PROVE FALSE
    <3>1. PICK i \in 1 .. k : r = s[i]
      BY <1>5, <2>3 DEF Elements
    <3>2. PICK j \in 1 .. Len(s) - k : r = s[k + j]
      BY <1>7, <2>3 DEF Elements
    <3>3. i = k + j
      BY <1>8, <1>10, <3>1, <3>2 DEF IsInjective
    <3> QED
      BY <1>8, <3>3
  <2> QED
    BY <2>1, <2>2, <2>3
<1> QED
  BY <1>5, <1>7, <1>9, <1>10 DEF front, rest

LEMMA FetchKeeps == TransferInv /\ Fetch => TransferInv'
<1> SUFFICES ASSUME TransferInv, Fetch PROVE TransferInv'
  OBVIOUS
<1> USE DEF TransferInv
<1>1. /\ step = "fetch" /\ ~plan.paged /\ batch = <<>> /\ result = "none" /\ changes \in Nat
      /\ UNCHANGED <<plan, stable, rel, moves, start, landed, changes, counted, table>>
  BY DEF Fetch, sourceVars, targetVars, PlaceInv, TransferTypeOK
<1>2. /\ RowsMade' = RowsMade /\ Identity' = Identity
      /\ SourceAdapter(Kind)' = SourceAdapter(Kind) /\ Ordered' = Ordered /\ CanRead' = CanRead
  BY <1>1, PlanSame
<1>3. RowsIn(landed) \cup Elements(unread) = 1 .. plan.size
  BY <1>1, EmptyRows DEF IteratorInv
<1>4. CASE unread = <<>>
  <2>1. step' = "done" /\ result' = "returned" /\ UNCHANGED <<batch, unread>>
    BY <1>4 DEF Fetch, Finish
  <2>2. PagedInv' /\ IteratorInv' /\ landed' \in Seq(RowsMade')
    BY <1>1, <2>1, DataKept
  <2>3. TransferTypeOK'
    BY <1>1, <2>1, <2>2 DEF TransferTypeOK
  <2>4. PlaceInv'
    BY <1>1, <1>2, <2>1 DEF PlaceInv
  <2>5. RowsIn(landed) = 1 .. plan.size
    BY <1>3, <1>4, EmptyRows
  <2>6. ReturnInv' /\ MakeInv' /\ QuietCreation'
    BY <1>1, <2>1, <2>5 DEF ReturnInv, MakeInv, QuietCreation
  <2> QED
    BY <2>2, <2>3, <2>4, <2>6
<1>5. CASE unread # <<>>
  <2>1. /\ batch' = SubSeq(unread, 1, MinOf(Limit, Len(unread)))
        /\ unread' = SubSeq(unread, Len(batch') + 1, Len(unread))
        /\ step' = "write" /\ UNCHANGED result
    BY <1>5 DEF Fetch, Goto
  <2>2. unread \in Seq(Number) /\ IsInjective(unread)
    BY <1>1 DEF TransferTypeOK, IteratorInv
  <2> HIDE DEF TransferInv
  <2>3. /\ batch' \in Seq(Number) /\ unread' \in Seq(Number)
        /\ Elements(batch') \cup Elements(unread') = Elements(unread)
        /\ IsInjective(batch') /\ IsInjective(unread')
        /\ Elements(batch') \cap Elements(unread') = {}
    <3> DEFINE k == MinOf(Limit, Len(unread))
               front == SubSeq(unread, 1, k)
               rest == SubSeq(unread, k + 1, Len(unread))
    <3>1. Len(unread) \in Nat /\ Len(unread) >= 1
      BY <1>5, <2>2, EmptySeq
    <3>2. k \in 1 .. Len(unread)
      BY <3>1, SizeAssumption DEF MinOf
    <3>3. batch' = SubSeq(unread, 1, k)
      BY <2>1
    <3> HIDE DEF k, front, rest
    <3>4. /\ front \in Seq(Number) /\ rest \in Seq(Number) /\ Len(front) = k
          /\ Elements(front) \cup Elements(rest) = Elements(unread)
          /\ IsInjective(unread) => /\ IsInjective(front) /\ IsInjective(rest)
                                   /\ Elements(front) \cap Elements(rest) = {}
      BY ONLY <2>2, <3>2, FetchedProps DEF front, rest
    <3>5. batch' = front
      BY <3>3 DEF front
    <3>6. unread' = rest
      BY ONLY <2>1, <3>4, <3>5 DEF rest
    <3> QED
      BY ONLY <2>2, <3>4, <3>5, <3>6
  <2> USE DEF TransferInv
  <2>4. TransferTypeOK'
    BY <1>1, <1>2, <2>1, <2>3 DEF TransferTypeOK
  <2>5. PlaceInv'
    <3>1. CanRead
      BY <1>1 DEF PlaceInv
    <3> QED
      BY <1>1, <1>2, <2>1, <3>1 DEF PlaceInv
  <2>6. PagedInv'
    BY <1>1, <1>2 DEF PagedInv
  <2>7. IteratorInv'
    <3>1. RowsIn(landed) \cap Elements(unread) = {} /\ Once(landed)
      BY <1>1 DEF IteratorInv
    <3>2. /\ RowsIn(landed) \cap Elements(batch') = {}
          /\ RowsIn(landed) \cap Elements(unread') = {}
          /\ RowsIn(landed) \cup Elements(batch') \cup Elements(unread') = 1 .. plan.size
      BY <1>3, <2>3, <3>1
    <3> QED
      BY <1>1, <2>1, <2>3, <3>1, <3>2 DEF IteratorInv
  <2>8. ReturnInv' /\ MakeInv' /\ QuietCreation'
    BY <1>1, <2>1 DEF ReturnInv, MakeInv, QuietCreation
  <2> QED
    BY <2>4, <2>5, <2>6, <2>7, <2>8
<1> QED
  BY <1>4, <1>5

(* A page of the rows in their order: it goes on where the page before it  *)
(* ended.                                                                  *)
LEMMA PageForward ==
  ASSUME TransferInv, plan.paged, Ordered, batch = <<>>, "inserted" \notin moves, NEW page,
         PageCut(rel, page), step # "done"
  PROVE  /\ \A r \in RowsIn(landed) : \A k \in DOMAIN page : r < page[k]
         /\ \A r \in RowsIn(landed) \cup Elements(page) :
              /\ r <= plan.size + changes
              /\ \A k \in DOMAIN rel : k > End => r < rel[k]
         /\ Increasing(page) /\ Once(landed)
         /\ moves = {} => RowsIn(landed) \cup Elements(page) = 1 .. MinOf(End, plan.size)
<1> DEFINE n == Len(rel)
<1>1. /\ start \in Nat /\ rel \in Seq(Number) /\ plan.size \in Nat /\ Limit \in Nat /\ Limit >= 1
      /\ End = start + Limit
  BY PlanTypes, SizeAssumption DEF TransferInv, TransferTypeOK, End
<1>2. n \in Nat
  BY <1>1, LenProperties
<1>3. DOMAIN rel = 1 .. n /\ \A i \in 1 .. n : rel[i] \in Nat
  BY <1>1, DomainLen DEF Number
<1>4. /\ MinOf(End, n) \in Nat /\ MinOf(End, n) <= n /\ MinOf(End, n) <= End
      /\ start < n => start < MinOf(End, n)
  BY <1>1, <1>2, PageNumbers
<1>5. /\ Len(page) = IF start < n THEN MinOf(End, n) - start ELSE 0
      /\ \A i \in 1 .. Len(page) : page[i] = rel[start + i]
      /\ DOMAIN page = 1 .. Len(page)
  BY LenProperties DEF PageCut
<1>6. \A i \in DOMAIN page : /\ i \in Nat /\ i >= 1 /\ start + i \in 1 .. n
                             /\ start + i > start /\ start + i <= End
                             /\ page[i] = rel[start + i]
  <2> SUFFICES ASSUME NEW i \in 1 .. Len(page)
               PROVE  /\ i \in Nat /\ i >= 1 /\ start + i \in 1 .. n
                      /\ start + i > start /\ start + i <= End
    BY <1>5
  <2>1. CASE start < n
    <3>1. i \in 1 .. MinOf(End, n) - start
      BY <1>5, <2>1
    <3> QED
      BY ONLY <1>1, <1>2, <1>4, <2>1, <3>1
  <2>2. CASE ~(start < n)
    BY <1>5, <2>2
  <2> QED
    BY <2>1, <2>2
<1>7. /\ \A i \in DOMAIN rel : rel[i] <= plan.size + changes
      /\ Increasing(rel) /\ Once(landed)
      /\ \A r \in RowsIn(landed) : /\ r <= plan.size + changes
                                   /\ \A k \in DOMAIN rel : k > start => r < rel[k]
  BY DEF TransferInv, PagedInv
<1>8. \A r \in RowsIn(landed) : \A k \in DOMAIN page : r < page[k]
  BY <1>3, <1>6, <1>7
<1>9. ASSUME NEW r \in RowsIn(landed) \cup Elements(page)
      PROVE  /\ r <= plan.size + changes
             /\ \A k \in DOMAIN rel : k > End => r < rel[k]
  <2>1. CASE r \in RowsIn(landed)
    BY <1>1, <1>3, <1>7, <2>1
  <2>2. CASE r \in Elements(page)
    <3>1. PICK i \in DOMAIN page : r = page[i]
      BY <2>2 DEF Elements
    <3>2. start + i \in DOMAIN rel /\ r = rel[start + i] /\ start + i <= End
      BY <1>3, <1>6, <3>1
    <3>3. ASSUME NEW k \in DOMAIN rel, k > End PROVE r < rel[k]
      <4>1. start + i < k
        BY <1>1, <1>3, <3>2, <3>3
      <4> QED
        BY <1>7, <3>2, <4>1 DEF Increasing
    <3> QED
      BY <1>7, <3>2, <3>3
  <2> QED
    BY <2>1, <2>2
<1>10. Increasing(page)
  <2> SUFFICES ASSUME NEW i \in DOMAIN page, NEW j \in DOMAIN page, i < j
               PROVE  page[i] < page[j]
    BY DEF Increasing
  <2>1. start + i < start + j
    BY <1>1, <1>6
  <2> QED
    BY <1>3, <1>6, <1>7, <2>1 DEF Increasing
<1>11. ASSUME moves = {}
       PROVE  RowsIn(landed) \cup Elements(page) = 1 .. MinOf(End, plan.size)
  <2>1. rel = Identity
    BY <1>11 DEF TransferInv, PlaceInv
  <2>2. DOMAIN rel = 1 .. plan.size /\ \A i \in 1 .. plan.size : rel[i] = i
    BY <1>1, <2>1 DEF Identity
  <2>3. n = plan.size
    BY <1>1, <1>2, <1>3, <2>2
  <2>4. RowsIn(landed) = 1 .. MinOf(start, plan.size)
    BY <1>11, EmptyRows DEF TransferInv, PagedInv
  <2>5. \A i \in DOMAIN page : page[i] = start + i
    BY <1>6, <2>2, <2>3
  <2>6. CASE start < n
    <3>1. DOMAIN page = 1 .. MinOf(End, n) - start
      BY <1>5, <2>6
    <3>2. Elements(page) = start + 1 .. MinOf(End, n)
      <4>1. ASSUME NEW r \in Elements(page) PROVE r \in start + 1 .. MinOf(End, n)
        <5>1. PICK i \in 1 .. MinOf(End, n) - start : r = start + i
          BY <2>5, <3>1, <4>1 DEF Elements
        <5> QED
          BY ONLY <1>1, <1>4, <2>6, <5>1
      <4>2. ASSUME NEW r \in start + 1 .. MinOf(End, n) PROVE r \in Elements(page)
        <5>1. r - start \in 1 .. MinOf(End, n) - start /\ start + (r - start) = r
          BY ONLY <1>1, <1>4, <2>6, r \in start + 1 .. MinOf(End, n)
        <5>2. r - start \in DOMAIN page /\ page[r - start] = r
          BY <2>5, <3>1, <5>1
        <5> QED
          BY <5>2 DEF Elements
      <4> QED
        BY <4>1, <4>2
    <3>3. MinOf(start, plan.size) = start
      BY <1>1, <1>2, <2>3, <2>6 DEF MinOf
    <3>4. (1 .. start) \cup (start + 1 .. MinOf(End, n)) = 1 .. MinOf(End, n)
      BY ONLY <1>1, <1>2, <1>4, <2>6
    <3> QED
      BY <2>3, <2>4, <3>2, <3>3, <3>4
  <2>7. CASE ~(start < n)
    <3>1. Len(page) = 0
      BY <1>5, <2>7
    <3>2. Elements(page) = {}
      BY <1>5, <3>1 DEF Elements
    <3>3. MinOf(start, plan.size) = plan.size /\ MinOf(End, plan.size) = plan.size
      BY <1>1, <1>2, <2>3, <2>7 DEF MinOf
    <3> QED
      BY <2>4, <3>2, <3>3
  <2> QED
    BY <2>6, <2>7
<1> QED
  BY <1>7, <1>8, <1>9, <1>10, <1>11

LEMMA ReadPageKeeps == TransferInv /\ ReadPage => TransferInv'
<1> SUFFICES ASSUME TransferInv, ReadPage PROVE TransferInv'
  OBVIOUS
<1> USE DEF TransferInv
<1>1. PICK s \in Results : batch' = PageOf(s)
  BY DEF ReadPage
<1>2. /\ step = "page" /\ plan.paged /\ batch = <<>> /\ result = "none" /\ step' = "write"
      /\ start' = End /\ CanRead /\ SourceAdapter(Kind)
      /\ UNCHANGED <<plan, stable, rel, moves, unread, landed, changes, counted, table, result>>
  BY DEF ReadPage, PageOK, SelectOK, Goto, sourceVars, targetVars, PlaceInv
<1>3. Kind \in {"sql", "async"}
  BY <1>2 DEF SourceAdapter, CanRead, BigDataReads, WebServiceReads
<1>4. /\ start \in Nat /\ End \in Nat /\ rel \in Seq(Number) /\ plan \in ReadPlans \cup WritePlans
  BY SizeAssumption DEF TransferTypeOK, End
<1>5. s \in Seq(Number)
  <2>1. CASE Ordered
    BY <1>4, <2>1 DEF Results
  <2>2. CASE ~Ordered
    <3>1. s \in [DOMAIN rel -> {rel[i] : i \in DOMAIN rel}]
      BY <2>2 DEF Results
    <3>2. DOMAIN rel = 1 .. Len(rel) /\ Len(rel) \in Nat /\ \A i \in DOMAIN rel : rel[i] \in Number
      BY <1>4, DomainLen
    <3>3. s \in [1 .. Len(rel) -> Number]
      BY <3>1, <3>2
    <3> QED
      BY <3>2, <3>3
  <2> QED
    BY <2>1, <2>2
<1>6. PageCut(s, batch')
  BY <1>1, <1>3, <1>4, <1>5, PageCuts
<1>7. /\ RowsMade' = RowsMade /\ Identity' = Identity /\ Ordered' = Ordered
      /\ SourceAdapter(Kind)' = SourceAdapter(Kind) /\ CanRead' = CanRead
  BY <1>2, PlanSame
<1>8. TransferTypeOK'
  BY <1>2, <1>4, <1>6, <1>7 DEF TransferTypeOK, PageCut
<1>9. PlaceInv'
  BY <1>2, <1>7 DEF PlaceInv
<1>10. PagedInv'
  <2>1. /\ \A i \in DOMAIN rel : rel[i] <= plan.size + changes
        /\ "inserted" \notin moves => Increasing(rel)
    BY DEF PagedInv
  <2>2. ASSUME Ordered, "inserted" \notin moves
        PROVE  /\ \A r \in RowsIn(landed) : \A k \in DOMAIN batch' : r < batch'[k]
               /\ \A r \in RowsIn(landed) \cup Elements(batch') :
                    /\ r <= plan.size + changes
                    /\ \A k \in DOMAIN rel : k > End => r < rel[k]
               /\ Increasing(batch') /\ Once(landed)
               /\ moves = {} =>
                    RowsIn(landed) \cup Elements(batch') = 1 .. MinOf(End, plan.size)
    <3>1. PageCut(rel, batch')
      BY <1>6, <2>2 DEF Results
    <3> QED
      BY <1>2, <2>2, <3>1, PageForward
  <2> QED
    BY <1>2, <1>7, <2>1, <2>2 DEF PagedInv
<1>11. IteratorInv'
  BY <1>2 DEF IteratorInv
<1>12. ReturnInv' /\ MakeInv' /\ QuietCreation'
  BY <1>2 DEF ReturnInv, MakeInv, QuietCreation
<1> QED
  BY <1>8, <1>9, <1>10, <1>11, <1>12

(* A write adds the rows of the batch to those in the target.              *)
LEMMA WrittenProps ==
  ASSUME TransferInv, WriteData
  PROVE  /\ landed' \in Seq(RowsMade)
         /\ RowsIn(landed') = RowsIn(landed) \cup Elements(batch)
         /\ Once(landed) /\ IsInjective(batch) /\ RowsIn(landed) \cap Elements(batch) = {} =>
              Once(landed')
<1>1. landed \in Seq(RowsMade) /\ batch \in Seq(Number)
  BY DEF TransferInv, TransferTypeOK
<1>2. CASE batch = <<>> /\ CanWrite /\ UNCHANGED landed
  BY <1>1, <1>2, EmptyRows
<1>3. CASE /\ batch # <<>> /\ WriteOK
           /\ landed' = landed \o [i \in DOMAIN batch |-> RowAt(batch[i])]
  <2> DEFINE added == [i \in DOMAIN batch |-> RowAt(batch[i])]
  <2>1. step = "write"
    BY DEF WriteData
  <2>2. Kind \in {"sql", "async"}
    BY <2>1 DEF TransferInv, PlaceInv, CanRead, SourceAdapter, BigDataReads, WebServiceReads
  <2>3. Writable
    BY <1>3, <2>2 DEF WriteOK, Writable
  <2>4. DOMAIN batch = 1 .. Len(batch) /\ Len(batch) \in Nat
        /\ \A i \in DOMAIN batch : batch[i] \in Number
    BY <1>1, DomainLen
  <2>5. \A r \in Number : RowAt(r) \in RowsMade /\ RowAt(r).row = r /\ r # 0
    BY <2>3 DEF RowsMade, RowAt, Number
  <2>6. /\ DOMAIN added = DOMAIN batch
        /\ \A i \in DOMAIN batch : added[i].row = batch[i] /\ batch[i] # 0
    BY <2>4, <2>5
  <2>7. added \in Seq(RowsMade)
    <3>1. added \in [1 .. Len(batch) -> RowsMade]
      BY <2>4, <2>5
    <3> QED
      BY <2>4, <3>1
  <2> HIDE DEF added
  <2>8. RowsIn(added) = Elements(batch)
    <3>1. ASSUME NEW r \in RowsIn(added) PROVE r \in Elements(batch)
      BY <2>6, <3>1 DEF RowsIn, Elements
    <3>2. ASSUME NEW r \in Elements(batch) PROVE r \in RowsIn(added)
      BY <2>6, <3>2 DEF RowsIn, Elements
    <3> QED
      BY <3>1, <3>2
  <2>9. IsInjective(batch) => Once(added)
    BY <2>6 DEF IsInjective, Once
  <2>10. landed' = landed \o added
    BY <1>3 DEF added
  <2>11. /\ landed \o added \in Seq(RowsMade)
         /\ RowsIn(landed \o added) = RowsIn(landed) \cup RowsIn(added)
         /\ Once(landed) /\ Once(added) /\ RowsIn(landed) \cap RowsIn(added) = {} =>
              Once(landed \o added)
    BY ONLY <1>1, <2>7, JoinedProps
  <2> QED
    BY ONLY <2>8, <2>9, <2>10, <2>11
<1> QED
  BY <1>2, <1>3 DEF WriteData

LEMMA WriteDataKeeps == TransferInv /\ WriteData => TransferInv'
<1> SUFFICES ASSUME TransferInv, WriteData PROVE TransferInv'
  OBVIOUS
<1>1. /\ landed' \in Seq(RowsMade)
      /\ RowsIn(landed') = RowsIn(landed) \cup Elements(batch)
      /\ Once(landed) /\ IsInjective(batch) /\ RowsIn(landed) \cap Elements(batch) = {} =>
           Once(landed')
  BY WrittenProps
<1> USE DEF TransferInv
<1>2. /\ step = "write" /\ result = "none" /\ batch' = <<>>
      /\ step' = IF plan.paged THEN "page" ELSE "fetch"
      /\ UNCHANGED <<plan, stable, rel, moves, changes, counted, start, unread, table, result>>
  BY DEF WriteData, ToNext, Goto, sourceVars, PlaceInv
<1>3. /\ RowsMade' = RowsMade /\ Identity' = Identity /\ Ordered' = Ordered
      /\ SourceAdapter(Kind)' = SourceAdapter(Kind) /\ CanRead' = CanRead
  BY <1>2, PlanSame
<1>4. plan.paged \in BOOLEAN
  BY PlanTypes DEF TransferTypeOK
<1>5. TransferTypeOK'
  BY <1>1, <1>2, <1>3, <1>4 DEF TransferTypeOK
<1>6. PlaceInv'
  BY <1>2, <1>3, <1>4 DEF PlaceInv
<1>7. PagedInv'
  <2>1. /\ \A i \in DOMAIN rel : rel[i] <= plan.size + changes
        /\ "inserted" \notin moves => Increasing(rel)
    BY DEF PagedInv
  <2>2. Elements(batch') = {} /\ Increasing(batch') /\ DOMAIN batch' = {}
    BY <1>2, EmptyRows DEF Increasing
  <2>3. ASSUME plan.paged, Ordered, "inserted" \notin moves
        PROVE  /\ \A r \in RowsIn(landed') :
                    /\ r <= plan.size + changes
                    /\ \A k \in DOMAIN rel : k > start => r < rel[k]
               /\ Once(landed')
               /\ moves = {} => RowsIn(landed') = 1 .. MinOf(start, plan.size)
    <3>1. /\ \A r \in RowsIn(landed) : \A k \in DOMAIN batch : r < batch[k]
          /\ \A r \in RowsIn(landed) \cup Elements(batch) :
               /\ r <= plan.size + changes
               /\ \A k \in DOMAIN rel : k > start => r < rel[k]
          /\ Increasing(batch) /\ Once(landed)
          /\ moves = {} => RowsIn(landed) \cup Elements(batch) = 1 .. MinOf(start, plan.size)
      BY <1>2, <2>3 DEF PagedInv
    <3>2. /\ DOMAIN batch = 1 .. Len(batch) /\ Len(batch) \in Nat
          /\ \A k \in DOMAIN batch : batch[k] \in Nat
      BY DomainLen DEF TransferTypeOK, Number
    <3>3. RowsIn(landed) \cap Elements(batch) = {}
      <4> SUFFICES ASSUME NEW r \in RowsIn(landed), r \in Elements(batch) PROVE FALSE
        OBVIOUS
      <4>1. PICK k \in DOMAIN batch : r = batch[k]
        BY DEF Elements
      <4> QED
        BY <3>1, <3>2, <4>1
    <3>4. IsInjective(batch)
      <4> SUFFICES ASSUME NEW i \in DOMAIN batch, NEW j \in DOMAIN batch, batch[i] = batch[j]
                   PROVE  i = j
        BY DEF IsInjective
      <4>1. ~(i < j) /\ ~(j < i)
        BY <3>1, <3>2 DEF Increasing
      <4> QED
        BY <3>2, <4>1
    <3> QED
      BY <1>1, <3>1, <3>3, <3>4
  <2> QED
    BY <1>2, <1>3, <2>1, <2>2, <2>3 DEF PagedInv
<1>8. IteratorInv'
  <2> SUFFICES ASSUME ~plan.paged PROVE IteratorInv'
    BY <1>2 DEF IteratorInv
  <2>1. /\ Once(landed) /\ IsInjective(batch) /\ IsInjective(unread)
        /\ RowsIn(landed) \cap Elements(batch) = {} /\ RowsIn(landed) \cap Elements(unread) = {}
        /\ Elements(batch) \cap Elements(unread) = {}
        /\ RowsIn(landed) \cup Elements(batch) \cup Elements(unread) = 1 .. plan.size
    BY <1>2 DEF IteratorInv
  <2>2. IsInjective(batch') /\ Elements(batch') = {}
    BY <1>2, EmptyRows DEF IsInjective
  <2> QED
    BY <1>1, <1>2, <2>1, <2>2 DEF IteratorInv
<1>9. ReturnInv' /\ MakeInv' /\ QuietCreation'
  BY <1>2, <1>4 DEF ReturnInv, MakeInv, QuietCreation
<1> QED
  BY <1>5, <1>6, <1>7, <1>8, <1>9

(* A row taken out, put in or added: those behind start are still above    *)
(* the copied ones.                                                        *)
LEMMA SourceChangesKeeps == TransferInv /\ SourceChanges => TransferInv'
<1> SUFFICES ASSUME TransferInv, SourceChanges PROVE TransferInv'
  OBVIOUS
<1> USE DEF TransferInv
<1>1. /\ step = "page" /\ plan.paged /\ batch = <<>> /\ changes' = changes + 1
      /\ UNCHANGED <<plan, stable, step, counted, start, batch, unread, landed, table, result>>
  BY DEF SourceChanges, PlaceInv, readVars, targetVars
<1>2. /\ RowsMade' = RowsMade /\ Identity' = Identity /\ Ordered' = Ordered
      /\ SourceAdapter(Kind)' = SourceAdapter(Kind) /\ CanRead' = CanRead
  BY <1>1, PlanSame
<1> DEFINE fresh == plan.size + changes + 1
           n == Len(rel)
<1>3. /\ plan.size \in Nat /\ changes \in Nat /\ start \in Nat /\ rel \in Seq(Number)
      /\ fresh \in Number
  BY PlanTypes DEF TransferTypeOK, Number
<1>4. /\ n \in Nat /\ DOMAIN rel = 1 .. n
      /\ \A k \in 1 .. n : rel[k] \in Nat /\ rel[k] <= plan.size + changes
  <2>1. n \in Nat /\ DOMAIN rel = 1 .. n /\ \A k \in 1 .. n : rel[k] \in Nat
    BY <1>3, DomainLen DEF Number
  <2> QED
    BY <2>1 DEF PagedInv
<1> DEFINE Moved ==
             /\ rel' \in Seq(Number) /\ moves' # {} /\ moves \subseteq moves'
             /\ \A k \in DOMAIN rel' : rel'[k] <= plan.size + changes'
             /\ "inserted" \notin moves' =>
                  /\ Increasing(rel')
                  /\ \A k \in DOMAIN rel' :
                       \/ rel'[k] = fresh
                       \/ \E l \in DOMAIN rel : rel'[k] = rel[l] /\ l >= k
<1>5. Moved
  <2>1. ASSUME NEW i \in DOMAIN rel,
               rel' = SubSeq(rel, 1, i - 1) \o SubSeq(rel, i + 1, Len(rel)),
               moves' = moves \cup {"removed"}
        PROVE  Moved
    <3>1. i \in 1 .. n /\ i \in Nat
      BY <1>4
    <3>2. /\ rel' \in Seq(Number) /\ Len(rel') = n - 1
          /\ \A k \in 1 .. Len(rel') : rel'[k] = IF k < i THEN rel[k] ELSE rel[k + 1]
      <4>1. rel' = Rest(rel, i)
        BY <2>1 DEF Rest
      <4>2. rel \in Seq(Number) /\ i \in 1 .. Len(rel)
        BY <1>3, <3>1
      <4> QED
        BY <4>1, <4>2, RestProps
    <3>3. DOMAIN rel' = 1 .. n - 1
      BY <3>2, LenProperties
    <3> HIDE DEF n
    <3>4. \A k \in 1 .. n - 1 : k \in 1 .. n /\ k + 1 \in 1 .. n
      BY <1>4
    <3>5. \A k \in DOMAIN rel' : \E l \in DOMAIN rel : rel'[k] = rel[l] /\ l >= k
      <4> SUFFICES ASSUME NEW k \in 1 .. n - 1 PROVE \E l \in 1 .. n : rel'[k] = rel[l] /\ l >= k
        BY <1>4, <3>3
      <4>1. k \in Nat /\ k <= k + 1 /\ k <= k
        BY <1>4
      <4>2. rel'[k] = IF k < i THEN rel[k] ELSE rel[k + 1]
        BY <3>2, <3>3
      <4>3. CASE k < i
        BY <3>4, <4>1, <4>2, <4>3
      <4>4. CASE ~(k < i)
        BY <3>4, <4>1, <4>2, <4>4
      <4> QED
        BY <4>3, <4>4
    <3>6. \A k \in DOMAIN rel' : rel'[k] <= plan.size + changes'
      BY <1>1, <1>3, <1>4, <3>5
    <3>7. ASSUME "inserted" \notin moves' PROVE Increasing(rel')
      <4>1. Increasing(rel)
        BY <2>1, <3>7 DEF PagedInv
      <4> SUFFICES ASSUME NEW j \in 1 .. n - 1, NEW k \in 1 .. n - 1, j < k
                   PROVE  rel'[j] < rel'[k]
        BY <3>3 DEF Increasing
      <4>2. j \in Nat /\ k \in Nat /\ j < k + 1 /\ j + 1 < k + 1
        BY <1>4
      <4>3. rel'[j] = (IF j < i THEN rel[j] ELSE rel[j + 1])
            /\ rel'[k] = (IF k < i THEN rel[k] ELSE rel[k + 1])
        BY <3>2, <3>3
      <4>4. CASE k < i
        <5>1. j < i
          BY <3>1, <4>2, <4>4
        <5> QED
          BY <1>4, <3>4, <4>1, <4>3, <4>4, <5>1 DEF Increasing
      <4>5. CASE ~(k < i) /\ j < i
        BY <1>4, <3>4, <4>1, <4>2, <4>3, <4>5 DEF Increasing
      <4>6. CASE ~(k < i) /\ ~(j < i)
        BY <1>4, <3>4, <4>1, <4>2, <4>3, <4>6 DEF Increasing
      <4> QED
        BY <4>4, <4>5, <4>6
    <3> QED
      BY <2>1, <3>2, <3>5, <3>6, <3>7
  <2>2. ASSUME NEW i \in 0 .. Len(rel),
               rel' = SubSeq(rel, 1, i) \o <<fresh>> \o SubSeq(rel, i + 1, Len(rel)),
               moves' = moves \cup {IF i = Len(rel) THEN "appended" ELSE "inserted"}
        PROVE  Moved
    <3>1. i \in 0 .. n /\ i \in Nat
      BY <1>4
    <3> HIDE DEF fresh
    <3>2. /\ rel' \in Seq(Number) /\ Len(rel') = n + 1
          /\ \A k \in 1 .. Len(rel') :
               rel'[k] = IF k <= i THEN rel[k] ELSE IF k = i + 1 THEN fresh ELSE rel[k - 1]
      <4>1. i \in 0 .. Len(rel) /\ fresh \in Number /\ rel \in Seq(Number)
        BY <1>3
      <4> QED
        <5>1. rel' = SubSeq(rel, 1, i) \o <<fresh>> \o SubSeq(rel, i + 1, Len(rel))
          BY <2>2
        <5> HIDE DEF n
        <5> DEFINE t == SubSeq(rel, 1, i) \o <<fresh>> \o SubSeq(rel, i + 1, Len(rel))
        <5>2. /\ t \in Seq(Number) /\ Len(t) = Len(rel) + 1
              /\ \A k \in 1 .. Len(t) :
                   t[k] = IF k <= i THEN rel[k] ELSE IF k = i + 1 THEN fresh ELSE rel[k - 1]
          BY ONLY <4>1, InsertedProps
        <5>3. rel' = t
          BY <5>1
        <5> HIDE DEF t
        <5> QED
          BY ONLY <5>2, <5>3 DEF n
    <3>3. DOMAIN rel' = 1 .. n + 1
      BY <3>2, LenProperties
    <3>4. i = n \/ "inserted" \in moves'
      BY <2>2
    <3> HIDE DEF n
    <3>5. /\ \A k \in 1 .. i : k \in 1 .. n
          /\ \A k \in 1 .. n + 1 : ~(k <= i) /\ k # i + 1 => k - 1 \in 1 .. n
          /\ i = n => \A k \in 1 .. n + 1 : k <= i \/ k = i + 1
      BY <1>4, <3>1
    <3>6. \A k \in DOMAIN rel' : rel'[k] = fresh \/ \E l \in DOMAIN rel : rel'[k] = rel[l]
      <4> SUFFICES ASSUME NEW k \in 1 .. n + 1
                   PROVE  rel'[k] = fresh \/ \E l \in 1 .. n : rel'[k] = rel[l]
        BY <1>4, <3>3
      <4>1. CASE k <= i
        BY <3>2, <3>3, <3>5, <4>1
      <4>2. CASE ~(k <= i)
        BY <3>2, <3>3, <3>5, <4>2
      <4> QED
        BY <4>1, <4>2
    <3>7. fresh \in Nat /\ fresh <= plan.size + changes' /\ fresh > plan.size + changes
      BY <1>1, <1>3 DEF fresh
    <3>8. \A k \in DOMAIN rel' : rel'[k] <= plan.size + changes'
      BY <1>1, <1>3, <1>4, <3>6, <3>7
    <3>9. ASSUME "inserted" \notin moves'
          PROVE  /\ Increasing(rel')
                 /\ \A k \in DOMAIN rel' :
                      rel'[k] = fresh \/ \E l \in DOMAIN rel : rel'[k] = rel[l] /\ l >= k
      <4>1. i = n /\ Increasing(rel)
        BY <2>2, <3>4, <3>9 DEF PagedInv
      <4>2. \A k \in 1 .. n + 1 : IF k <= n THEN rel'[k] = rel[k] /\ k \in 1 .. n
                                  ELSE rel'[k] = fresh /\ k = n + 1
        BY <1>4, <3>2, <3>3, <3>5, <4>1
      <4>3. Increasing(rel')
        <5> SUFFICES ASSUME NEW j \in 1 .. n + 1, NEW k \in 1 .. n + 1, j < k
                     PROVE  rel'[j] < rel'[k]
          BY <3>3 DEF Increasing
        <5>1. j <= n
          BY <1>4
        <5>2. CASE k <= n
          BY <1>4, <4>1, <4>2, <5>1, <5>2 DEF Increasing
        <5>3. CASE ~(k <= n)
          BY <1>3, <1>4, <3>7, <4>2, <5>1, <5>3
        <5> QED
          BY <5>2, <5>3
      <4>4. ASSUME NEW k \in DOMAIN rel'
            PROVE  rel'[k] = fresh \/ \E l \in DOMAIN rel : rel'[k] = rel[l] /\ l >= k
        BY <1>4, <3>3, <4>2
      <4> QED
        BY <4>3, <4>4
    <3> QED
      BY <2>2, <3>2, <3>8, <3>9
  <2> QED
    BY <2>1, <2>2 DEF SourceChanges
<1>6. TransferTypeOK'
  BY <1>1, <1>2, <1>3, <1>5 DEF TransferTypeOK
<1>7. PlaceInv'
  BY <1>1, <1>2, <1>5 DEF PlaceInv
<1>8. PagedInv'
  <2>1. Elements(batch) = {} /\ DOMAIN batch = {}
    BY <1>1, EmptyRows
  <2>2. ASSUME Ordered, "inserted" \notin moves'
        PROVE  /\ \A r \in RowsIn(landed) : \A k \in DOMAIN batch : r < batch[k]
               /\ \A r \in RowsIn(landed) \cup Elements(batch) :
                    /\ r <= plan.size + changes'
                    /\ \A k \in DOMAIN rel' : k > start => r < rel'[k]
               /\ Increasing(batch) /\ Once(landed)
    <3>1. /\ \A r \in RowsIn(landed) :
               /\ r <= plan.size + changes
               /\ \A k \in DOMAIN rel : k > start => r < rel[k]
          /\ Increasing(batch) /\ Once(landed)
      BY <1>1, <1>5, <2>2 DEF PagedInv
    <3>2. ASSUME NEW r \in RowsIn(landed)
          PROVE  /\ r <= plan.size + changes'
                 /\ \A k \in DOMAIN rel' : k > start => r < rel'[k]
      <4>1. r \in Nat
        <5>1. PICK i \in DOMAIN landed : r = landed[i].row
          BY <3>2 DEF RowsIn
        <5>2. landed[i] \in RowsMade
          BY <5>1, DomainLen DEF TransferTypeOK
        <5> QED
          BY <5>1, <5>2 DEF RowsMade, RowAt, Old, Number
      <4>2. ASSUME NEW k \in DOMAIN rel', k > start PROVE r < rel'[k]
        <5>1. CASE rel'[k] = fresh
          BY <1>3, <3>1, <4>1, <5>1
        <5>2. CASE \E l \in DOMAIN rel : rel'[k] = rel[l] /\ l >= k
          <6>1. PICK l \in DOMAIN rel : rel'[k] = rel[l] /\ l >= k
            BY <5>2
          <6>2. k \in Nat
            BY <1>5, LenProperties
          <6>3. l > start
            BY <1>3, <1>4, <4>2, <6>1, <6>2
          <6> QED
            BY <3>1, <6>1, <6>3
        <5> QED
          BY <1>5, <2>2, <5>1, <5>2
      <4> QED
        BY <1>1, <1>3, <3>1, <4>1, <4>2
    <3> QED
      BY <2>1, <3>1, <3>2
  <2> QED
    BY <1>1, <1>2, <1>5, <2>1, <2>2 DEF PagedInv
<1>9. IteratorInv'
  BY <1>1 DEF IteratorInv
<1>10. ReturnInv' /\ MakeInv' /\ QuietCreation'
  BY <1>1 DEF ReturnInv, MakeInv, QuietCreation, PlaceInv
<1> QED
  BY <1>6, <1>7, <1>8, <1>9, <1>10

LEMMA TransferStep == TransferInv /\ [TransferNext]_transferVars => TransferInv'
<1> SUFFICES ASSUME TransferInv, [TransferNext]_transferVars PROVE TransferInv'
  OBVIOUS
<1>1. CASE CountFails \/ ReadPageFails \/ OpenIteratorFails \/ WriteFails
  BY <1>1, RaisingKeeps DEF CountFails, ReadPageFails, OpenIteratorFails, WriteFails
<1>2. CASE UNCHANGED transferVars
  <2>1. /\ UNCHANGED <<plan, stable, step, rel, changes, moves, counted, start, batch, unread>>
        /\ UNCHANGED <<table, landed, result>>
    BY <1>2 DEF transferVars, sourceVars, readVars, targetVars
  <2>2. /\ RowsMade' = RowsMade /\ Identity' = Identity /\ Ordered' = Ordered
        /\ Kind' = Kind /\ dialect' = dialect
        /\ SourceAdapter(Kind)' = SourceAdapter(Kind) /\ CanRead' = CanRead
    BY <2>1, PlanSame
  <2>3. TransferTypeOK'
    BY <2>1, <2>2 DEF TransferInv, TransferTypeOK
  <2>4. PlaceInv'
    BY <2>1, <2>2 DEF TransferInv, PlaceInv
  <2>5. PagedInv'
    BY <2>1, <2>2 DEF TransferInv, PagedInv
  <2>6. IteratorInv' /\ ReturnInv' /\ MakeInv' /\ QuietCreation'
    BY <2>1, <2>2 DEF TransferInv, IteratorInv, ReturnInv, MakeInv, QuietCreation
  <2> QED
    BY <2>3, <2>4, <2>5, <2>6 DEF TransferInv
<1> QED
  BY <1>1, <1>2, GetAdapterKeeps, CreateTableKeeps, MakeTableKeeps, ClearDataKeeps, CountKeeps,
     ReadPageKeeps, LastPageKeeps, OpenIteratorKeeps, FetchKeeps, WriteDataKeeps,
     SourceChangesKeeps, TableChangesKeeps
  DEF TransferNext

(* A transfer stays within its types, in the order of its calls, and its   *)
(* rows are in the pages, the batch and the table they belong to.          *)
THEOREM TransferInvariant == TransferSpec => []TransferInv
<1>1. TransferInit => TransferInv
  BY TransferInitInv
<1>2. TransferInv /\ [TransferNext]_transferVars => TransferInv'
  BY TransferStep
<1> QED
  BY <1>1, <1>2, PTL DEF TransferSpec

-----------------------------------------------------------------------------
(* What follows from it.                                                   *)

(* With one order, or one result set, no row is copied twice unless one    *)
(* was inserted, and a transfer that returns has copied every row, however *)
(* many rows there are and however long a page is.                         *)
THEOREM PagesFaithfulHolds == TransferSpec => []PagesFaithful
<1>1. TransferInv => PagesFaithful
  <2> SUFFICES ASSUME TransferInv, Ordered \/ ~plan.paged PROVE PagesFaithful
    BY DEF PagesFaithful
  <2>1. Copied = RowsIn(landed)
    BY DEF Copied, CopiedAt, RowsIn
  <2>2. ASSUME "inserted" \notin moves
        PROVE  \A i, j \in CopiedAt : landed[i].row = landed[j].row => i = j
    <3>1. Once(landed)
      <4>1. CASE plan.paged
        BY <2>2, <4>1 DEF TransferInv, PagedInv
      <4>2. CASE ~plan.paged
        BY <4>2 DEF TransferInv, IteratorInv
      <4> QED
        BY <4>1, <4>2
    <3> QED
      BY <3>1 DEF Once, CopiedAt
  <2>3. ASSUME result = "returned", moves = {}, ~(plan.paged /\ plan.query /\ plan.tableSize < plan.size)
        PROVE  Copied = Elements(rel)
    <3>1. RowsIn(landed) = 1 .. plan.size
      BY <2>3 DEF TransferInv, ReturnInv
    <3>2. rel = Identity
      BY <2>3 DEF TransferInv, PlaceInv
    <3>3. Elements(rel) = 1 .. plan.size
      BY <3>2 DEF Elements, Identity
    <3> QED
      BY <2>1, <3>1, <3>3
  <2> QED
    BY <2>2, <2>3 DEF PagesFaithful
<1> QED
  BY <1>1, TransferInvariant, PTL

(* Only another client's table, made behind the check, lets a creation     *)
(* with "DoNothing" raise because the table exists.                        *)
THEOREM QuietCreationHolds == TransferSpec => []QuietCreation
<1>1. TransferInv => QuietCreation
  BY DEF TransferInv
<1> QED
  BY <1>1, TransferInvariant, PTL

(* Lists of columns name each column once.                                 *)
LEMMA ListProps ==
  ASSUME NEW s \in SourceLists \cup TargetLists \cup QueryLists
  PROVE  /\ s # None /\ Len(s) \in Nat /\ DOMAIN s = 1 .. Len(s)
         /\ \A i \in DOMAIN s : s[i] \in Column
         /\ \A i, j \in DOMAIN s : s[i] = s[j] => i = j
<1>1. s # None
  BY NoneAssumption
<1>2. CASE s = <<>>
  BY <1>1, <1>2
<1>3. CASE s = <<"a", "b">>
  BY <1>1, <1>3 DEF Column
<1>4. CASE s = <<"b", "a">>
  BY <1>1, <1>4 DEF Column
<1>5. CASE s = <<"a">>
  BY <1>1, <1>5 DEF Column
<1>6. CASE s = <<"b">>
  BY <1>1, <1>6 DEF Column
<1> QED
  BY <1>2, <1>3, <1>4, <1>5, <1>6 DEF SourceLists, TargetLists, QueryLists

(* A statement that lists the columns the values are of.                   *)
LEMMA SameColumns ==
  ASSUME NEW r, Slots = Prepared, Elements(Prepared) \subseteq Column
  PROVE  /\ \A c \in Column : RowAt(r).values[c] \in {c, None}
         /\ \A c \in Elements(Prepared) : RowAt(r).values[c] = c
<1> DEFINE filled(c) == {i \in DOMAIN Prepared : Slots[i] = c}
<1>1. \A c \in Column : RowAt(r).values[c] = IF filled(c) = {} THEN None
                                            ELSE Prepared[CHOOSE i \in filled(c) : TRUE]
  BY DEF RowAt
<1>2. ASSUME NEW c \in Column, filled(c) # {}
      PROVE  Prepared[CHOOSE i \in filled(c) : TRUE] = c
  <2>1. (CHOOSE i \in filled(c) : TRUE) \in filled(c)
    BY <1>2
  <2> QED
    BY <2>1
<1>3. \A c \in Elements(Prepared) : c \in Column /\ filled(c) # {}
  BY DEF Elements
<1> HIDE DEF filled
<1> QED
  BY <1>1, <1>2, <1>3

(* A statement that lists other columns at the places of these.            *)
LEMMA PairedColumns ==
  ASSUME NEW r, NEW k \in DOMAIN Slots,
         Prepared \in SourceLists, Slots \in TargetLists, Len(Prepared) = Len(Slots)
  PROVE  RowAt(r).values[Slots[k]] = Prepared[k]
<1> DEFINE filled == {i \in DOMAIN Prepared : Slots[i] = Slots[k]}
<1>1. /\ DOMAIN Prepared = DOMAIN Slots /\ Slots[k] \in Column
      /\ \A i \in DOMAIN Slots : Slots[i] = Slots[k] => i = k
  BY ListProps
<1>2. filled = {k}
  BY <1>1
<1>3. RowAt(r).values[Slots[k]] = IF filled = {} THEN None
                                  ELSE Prepared[CHOOSE i \in filled : TRUE]
  BY <1>1 DEF RowAt
<1>4. (CHOOSE i \in {k} : TRUE) = k
  OBVIOUS
<1> HIDE DEF filled
<1> QED
  BY <1>2, <1>3, <1>4

LEMMA RowInPlace ==
  ASSUME plan \in ReadPlans \cup WritePlans, Writable, ~Unlisted, ~Reordered, ~Emptied,
         NEW r \in Number
  PROVE  LET values == RowAt(r).values
         IN  IF Kind = "sql" /\ ByPosition
             THEN /\ plan.targetColumns # None
                  /\ \A k \in DOMAIN plan.targetColumns :
                       values[plan.targetColumns[k]] = plan.columns[k]
             ELSE /\ \A c \in Column : values[c] \in {c, None}
                  /\ \A c \in Elements(Prepared) : values[c] = c
<1>1. /\ plan.columns \in {None} \cup SourceLists
      /\ plan.targetColumns \in {None} \cup TargetLists
      /\ plan.targetQuery \in {None} \cup QueryLists
  BY PlanTypes
<1>2. Keys \in SourceLists /\ Elements(Prepared) \subseteq Column
  <2>1. Keys \in SourceLists
    BY <1>1 DEF Keys, QueryColumns, TableColumns, SourceLists
  <2>2. Elements(Keys) \subseteq Column
    BY <2>1, ListProps DEF Elements
  <2> QED
    BY <2>1, <2>2 DEF Writable
<1>3. CASE Kind = "async"
  <2>1. Slots = Prepared
    BY <1>3 DEF Slots
  <2> QED
    BY <1>2, <1>3, <2>1, SameColumns
<1>4. CASE Kind = "sql" /\ ByPosition
  <2>1. plan.columns \in SourceLists /\ plan.columns # <<>> /\ plan.columns # None
    BY <1>1, <1>4 DEF ByPosition, Listed
  <2>2. Prepared = plan.columns
    BY <1>4, <2>1 DEF Prepared, SyncPrepared
  <2>3. Slots = plan.targetColumns
    <3>1. ~OwnQuery
      BY <1>4 DEF ByPosition, OwnQuery
    <3> QED
      BY <1>4, <3>1 DEF Slots, TargetQuery
  <2>4. Slots \in TargetLists /\ Len(Prepared) = Len(Slots)
    BY <1>1, <2>1, <2>2, <2>3 DEF Writable
  <2> QED
    BY <1>4, <2>1, <2>2, <2>3, <2>4, PairedColumns, NoneAssumption
<1>5. CASE Kind = "sql" /\ OwnQuery
  <2>1. plan.targetQuery = plan.columns /\ plan.columns # None
    BY <1>5 DEF Reordered, OwnQuery, Listed
  <2>2. ~ByPosition
    BY <1>5 DEF ByPosition, OwnQuery
  <2>3. Slots = plan.targetQuery
    <3>1. TargetQuery = plan.targetQuery
      BY <1>5, <2>2 DEF TargetQuery
    <3> QED
      BY <1>5, <3>1 DEF Slots
  <2>4. Prepared = plan.columns
    BY <1>5, <2>1 DEF Prepared, SyncPrepared
  <2>5. Slots = Prepared
    BY <2>1, <2>3, <2>4
  <2> QED
    BY <1>2, <2>2, <2>5, SameColumns
<1>6. CASE Kind = "sql" /\ ~OwnQuery /\ ~ByPosition
  <2>1. Keys = TableColumns /\ plan.columns # <<>>
    BY <1>6 DEF Unlisted, Emptied
  <2>2. plan.columns = None
    BY <1>6, <2>1 DEF OwnQuery, ByPosition, Listed
  <2>3. Slots = Prepared
    BY <1>6, <2>1, <2>2 DEF Slots, TargetQuery, Prepared, SyncPrepared
  <2> QED
    BY <1>2, <1>6, <2>3, SameColumns
<1> QED
  BY <1>3, <1>4, <1>5, <1>6 DEF Writable

(* Every value that was sent is in the column it was meant for, for all    *)
(* lists of columns of the model but the three kinds that are excepted.    *)
THEOREM ValuesInPlaceHold == TransferSpec => []ValuesInPlace
<1>1. TransferInv => ValuesInPlace
  <2> SUFFICES ASSUME TransferInv, NEW i \in DOMAIN landed, landed[i].row # 0,
                      ~Unlisted, ~Reordered, ~Emptied
               PROVE  LET values == landed[i].values
                      IN  IF Kind = "sql" /\ ByPosition
                          THEN /\ plan.targetColumns # None
                               /\ \A k \in DOMAIN plan.targetColumns :
                                    values[plan.targetColumns[k]] = plan.columns[k]
                          ELSE /\ \A c \in Column : values[c] \in {c, None}
                               /\ \A c \in Elements(Prepared) : values[c] = c
    BY DEF ValuesInPlace
  <2>1. landed[i] \in RowsMade
    BY DomainLen DEF TransferInv, TransferTypeOK
  <2>2. landed[i] # Old
    BY DEF Old
  <2>3. Writable /\ \E r \in Number : landed[i] = RowAt(r)
    BY <2>1, <2>2 DEF RowsMade
  <2>4. PICK r \in Number : landed[i] = RowAt(r)
    BY <2>3
  <2> QED
    BY <2>3, <2>4, RowInPlace DEF TransferInv, TransferTypeOK
<1> QED
  BY <1>1, TransferInvariant, PTL
=============================================================================
