------------------------ MODULE SingleProcessProofs ------------------------
(***************************************************************************)
(* Proofs about SingleProcess, for every size of the result set, every     *)
(* limit and every choice of faults.                                       *)
(***************************************************************************)
EXTENDS SingleProcess, TLAPS, FiniteSetTheorems

(* The rows from a up to b, without b.                                     *)
Between(a, b) == {r \in Row : a <= r /\ r < b}

(* The target holds the first n rows of the result set, once.              *)
Holds(n) == written = [r \in Row |-> IF r < n THEN 1 ELSE 0]

(* Between a write and the counter, the page is what is fetched and not    *)
(* counted; afterwards nothing is.                                         *)
PageInv ==
  /\ count <= offset
  /\ pc \in {"adapters", "fetch"} => count = offset
  /\ pc \in {"write", "advance"} => page = Between(count, offset)
  /\ Between(count, offset) \subseteq page

(* The target is where the caller believes it to be, and after a failure   *)
(* somewhere in the last page.                                             *)
TargetInv ==
  /\ pc \in {"adapters", "fetch", "write"} => Holds(count)
  /\ pc = "advance" => Holds(offset)
  /\ pc \in {"handle", "done"} => \E n \in count .. offset : Holds(n)

(* Only a write that timed out is late, and it has landed nothing yet.     *)
LateInv ==
  late # {} =>
    /\ pc = "done" /\ verdict = "raised"
    /\ late = Between(count, offset) /\ Holds(count)

(* The iterator ends at the end of the result set, and so does a load that *)
(* returns.                                                                *)
EndInv ==
  /\ finished => offset = size /\ cursor = "closed"
  /\ verdict = "none" <=> pc # "done"
  /\ verdict = "none" => reported = 0
  /\ verdict = "returned" => count = size /\ reported = size /\ cursor = "closed"

IInv == TypeOK /\ PageInv /\ TargetInv /\ LateInv /\ EndInv

-----------------------------------------------------------------------------
(* Rows and pages.                                                         *)

LEMMA RowsAreNumbers == \A r \in Row : r \in Nat
BY SizeAssumption DEF Row

LEMMA SubsetOfRow ==
  ASSUME NEW S, S \subseteq Row
  PROVE  IsFiniteSet(S) /\ Cardinality(S) \in Nat /\ Cardinality(S) <= Cardinality(Row)
<1>1. IsFiniteSet(Row)
  BY SizeAssumption, FS_Interval DEF Row
<1> QED
  BY <1>1, FS_Subset, FS_CardinalityType

(* There are b - a rows from a up to b.                                    *)
LEMMA PageSize ==
  ASSUME NEW a \in Nat, NEW b \in Nat, a <= b, b <= MaxSize
  PROVE  Cardinality(Between(a, b)) = b - a
<1>1. Between(a, b) = a .. b - 1
  BY SizeAssumption DEF Between, Row
<1>2. Cardinality(a .. b - 1) = IF a > b - 1 THEN 0 ELSE b - 1 - a + 1
  BY FS_Interval
<1> QED
  BY <1>1, <1>2

(* The next page begins where the last one ended; it is empty only at the  *)
(* end of the result set, and without a limit it is all that is left.      *)
LEMMA NextPage ==
  ASSUME TypeOK
  PROVE  \E m \in offset .. size :
           /\ NextRows = Between(offset, m)
           /\ offset + Cardinality(NextRows) = m
           /\ ~Chunked \/ NextRows = {} => m = size
<1> DEFINE m == IF Chunked /\ offset + limit < size THEN offset + limit ELSE size
<1>1. offset \in Nat /\ size \in Nat /\ offset <= size /\ size <= MaxSize
  BY SizeAssumption DEF TypeOK
<1>2. Chunked => limit \in Nat /\ limit > 0
  BY DEF Chunked
<1>3. m \in offset .. size
  BY <1>1, <1>2
<1>4. NextRows = Between(offset, m)
  BY <1>1, <1>2, SizeAssumption DEF NextRows, Between, Row
<1>5. Cardinality(NextRows) = m - offset
  BY <1>1, <1>3, <1>4, PageSize, SizeAssumption
<1>6. offset + Cardinality(NextRows) = m
  BY <1>1, <1>3, <1>5
<1>7. ASSUME NextRows = {} PROVE m = size
  <2>1. m = offset
    BY <1>1, <1>3, <1>5, <1>7, FS_EmptySet
  <2> QED
    BY <2>1, <1>1, <1>2
<1> QED
  BY <1>3, <1>4, <1>6, <1>7

(* Once the rows up to a are there, landing those from a up to b makes it  *)
(* the rows up to b.                                                       *)
LEMMA LandAll ==
  ASSUME NEW a \in Nat, NEW b \in Nat, a <= b, Holds(a), Land(Between(a, b))
  PROVE  written' = [r \in Row |-> IF r < b THEN 1 ELSE 0]
<1>1. \A r \in Row : r \in Nat
  BY RowsAreNumbers
<1>2. \A r \in Row : written[r] = IF r < a THEN 1 ELSE 0
  BY DEF Holds
<1>3. \A r \in Row : (IF r \in Between(a, b) THEN written[r] + 1 ELSE written[r]) = IF r < b THEN 1 ELSE 0
  BY <1>1, <1>2 DEF Between
<1> QED
  BY <1>3 DEF Land

(* What the target keeps of them is a gapless beginning as well.           *)
LEMMA LandSome ==
  ASSUME NEW a \in Nat, NEW b \in Nat, a <= b, b <= MaxSize, Holds(a),
         NEW rows \in Kept(Between(a, b)), Land(rows)
  PROVE  \E n \in a .. b : written' = [r \in Row |-> IF r < n THEN 1 ELSE 0]
<1>1. PICK k \in 0 .. MaxSize : rows = {r \in Between(a, b) : r < k}
  BY DEF Kept
<1> DEFINE n == IF k < a THEN a ELSE IF k < b THEN k ELSE b
<1>2. n \in a .. b /\ n \in Nat /\ a <= n
  BY SizeAssumption
<1>3. rows = Between(a, n)
  BY <1>1, SizeAssumption DEF Between, Row
<1>4. written' = [r \in Row |-> IF r < n THEN 1 ELSE 0]
  BY <1>2, <1>3, LandAll
<1> QED
  BY <1>2, <1>4

-----------------------------------------------------------------------------
(* The invariant is inductive.                                             *)

LEMMA InitInv == Init => IInv
<1> SUFFICES ASSUME Init PROVE IInv
  OBVIOUS
<1>1. TypeOK
  <2>1. written \in [Row -> Nat]
    BY DEF Init
  <2>2. size \in 0 .. MaxSize /\ 0 \in 0 .. size
    BY SizeAssumption DEF Init
  <2> QED
    BY <2>1, <2>2 DEF Init, TypeOK
<1>2. PageInv
  BY RowsAreNumbers DEF Init, PageInv, Between
<1>3. TargetInv
  <2>1. \A r \in Row : ~(r < 0)
    BY RowsAreNumbers
  <2>2. Holds(0)
    BY <2>1 DEF Init, Holds
  <2> QED
    BY <2>2 DEF Init, TargetInv
<1>4. LateInv /\ EndInv
  BY DEF Init, LateInv, EndInv
<1> QED
  BY <1>1, <1>2, <1>3, <1>4 DEF IInv

(* Numbers the steps compute with.                                         *)
LEMMA Numbers ==
  ASSUME IInv
  PROVE  /\ count \in Nat /\ offset \in Nat /\ size \in Nat
         /\ count <= offset /\ offset <= size /\ size <= MaxSize
         /\ MaxSize \in Nat
BY SizeAssumption DEF IInv, TypeOK, PageInv

(* Steps that only move the caller, from where nothing is owed.            *)
LEMMA FetchInv ==
  ASSUME IInv, GetIterator \/ OpenCursor \/ FetchPage \/ FetchFails \/ Stop
  PROVE  IInv'
<1> USE Numbers, RowsAreNumbers DEF IInv, sourceVars, targetVars, resultVars, GoOn, Fail
<1>1. CASE GetIterator
  <2>1. /\ pc = "adapters" /\ pc' \in {"fetch", "handle"}
        /\ UNCHANGED <<size, limit, cursor, finished, offset, page, late, written, count, verdict, reported>>
    BY <1>1 DEF GetIterator
  <2> QED
    BY <2>1 DEF TypeOK, PageInv, TargetInv, LateInv, EndInv, Holds, Between
<1>2. CASE OpenCursor
  <2>1. /\ pc = "fetch" /\ pc' \in {"fetch", "handle"}
        /\ cursor' \in {"none", "open"} /\ finished' = FALSE
        /\ UNCHANGED <<size, limit, offset, page, late, written, count, verdict, reported>>
    BY <1>2 DEF OpenCursor
  <2>2. TypeOK'
    BY <2>1 DEF TypeOK
  <2>3. PageInv' /\ TargetInv'
    BY <2>1 DEF PageInv, TargetInv, Holds, Between
  <2>4. LateInv' /\ EndInv'
    BY <2>1 DEF LateInv, EndInv
  <2> QED
    BY <2>2, <2>3, <2>4
<1>3. CASE FetchPage
  <2>1. PICK m \in offset .. size :
          /\ NextRows = Between(offset, m)
          /\ offset + Cardinality(NextRows) = m
          /\ ~Chunked \/ NextRows = {} => m = size
    BY NextPage
  <2>2. /\ pc = "fetch" /\ pc' = "write" /\ page' = Between(offset, m) /\ offset' = m
        /\ UNCHANGED <<size, limit, late, written, count, verdict, reported>>
        /\ count = offset /\ Holds(count) /\ verdict = "none" /\ late = {}
    BY <1>3, <2>1 DEF FetchPage, PageInv, TargetInv, EndInv, LateInv
  <2>3. \/ UNCHANGED <<cursor, finished>> /\ ~finished
        \/ cursor' = "closed" /\ finished' = TRUE /\ m = size
    BY <1>3, <2>1 DEF FetchPage
  <2>4. TypeOK'
    <3>1. cursor' \in {"none", "open", "closed"} /\ finished' \in BOOLEAN
      BY <2>3 DEF TypeOK
    <3>2. page' \subseteq Row
      BY <2>2 DEF Between
    <3>3. offset' \in 0 .. size
      BY <2>2
    <3> QED
      BY <2>2, <3>1, <3>2, <3>3 DEF TypeOK
  <2>5. PageInv'
    BY <2>2 DEF PageInv, Between
  <2>6. TargetInv'
    BY <2>2 DEF TargetInv, Holds
  <2>7. LateInv' /\ EndInv'
    BY <2>2, <2>3 DEF LateInv, EndInv
  <2> QED
    BY <2>4, <2>5, <2>6, <2>7
<1>4. CASE FetchFails
  <2>1. /\ pc = "fetch" /\ pc' = "handle"
        /\ UNCHANGED <<size, limit, cursor, finished, offset, page, late, written, count, verdict, reported>>
    BY <1>4 DEF FetchFails
  <2> QED
    BY <2>1 DEF TypeOK, PageInv, TargetInv, LateInv, EndInv, Holds, Between
<1>5. CASE Stop
  <2>1. count = offset /\ offset = size
    <3>1. CASE finished
      BY <1>5, <3>1 DEF Stop, PageInv, EndInv
    <3>2. CASE NextRows = {}
      <4>1. offset + Cardinality(NextRows) = size
        BY <3>2, NextPage
      <4>2. Cardinality(NextRows) = 0
        BY <3>2, FS_EmptySet
      <4> QED
        BY <1>5, <4>1, <4>2 DEF Stop, PageInv
    <3> QED
      BY <1>5, <3>1, <3>2 DEF Stop
  <2>2. /\ pc = "fetch" /\ pc' = "done" /\ verdict' = "returned" /\ reported' = size
        /\ cursor' = "closed" /\ finished' = TRUE
        /\ UNCHANGED <<size, limit, offset, page, late, written, count>>
    BY <1>5, <2>1 DEF Stop, Return
  <2>3. late = {} /\ Holds(count)
    BY <2>2 DEF LateInv, TargetInv
  <2> QED
    BY <2>1, <2>2, <2>3 DEF TypeOK, PageInv, TargetInv, LateInv, EndInv, Holds, Between
<1> QED
  BY <1>1, <1>2, <1>3, <1>4, <1>5

(* Steps that write a page, or fail to.                                    *)
LEMMA WriteInv ==
  ASSUME IInv, WritePage \/ WriteFails \/ WriteTimesOut \/ LateWrite
  PROVE  IInv'
<1> USE Numbers, RowsAreNumbers DEF IInv, sourceVars, targetVars, resultVars, GoOn, Fail
<1>0. ASSUME Land(page) \/ \E rows \in Kept(page) \cup Kept(late) : Land(rows)
      PROVE  written' \in [Row -> Nat]
  BY <1>0 DEF Land, TypeOK
<1>1. CASE WritePage
  <2>1. /\ pc = "write" /\ pc' = "advance"
        /\ UNCHANGED <<size, limit, cursor, finished, offset, page, late, count, verdict, reported>>
        /\ Holds(count) /\ page = Between(count, offset) /\ late = {}
    BY <1>1 DEF WritePage, TargetInv, PageInv, LateInv
  <2>2. written' = [r \in Row |-> IF r < offset THEN 1 ELSE 0]
    BY <1>1, <2>1, LandAll DEF WritePage
  <2>3. TypeOK'
    BY <1>0, <1>1, <2>1 DEF WritePage, TypeOK
  <2>4. PageInv' /\ LateInv' /\ EndInv'
    BY <2>1 DEF PageInv, LateInv, EndInv, Between
  <2>5. TargetInv'
    BY <2>1, <2>2 DEF TargetInv, Holds
  <2> QED
    BY <2>3, <2>4, <2>5
<1>2. CASE WriteFails
  <2>1. /\ pc = "write" /\ pc' = "handle"
        /\ UNCHANGED <<size, limit, cursor, finished, offset, page, late, count, verdict, reported>>
        /\ Holds(count) /\ page = Between(count, offset) /\ late = {}
    BY <1>2 DEF WriteFails, TargetInv, PageInv, LateInv
  <2>2. \E n \in count .. offset : written' = [r \in Row |-> IF r < n THEN 1 ELSE 0]
    BY <1>2, <2>1, LandSome DEF WriteFails
  <2>3. TypeOK'
    BY <1>0, <1>2, <2>1 DEF WriteFails, TypeOK
  <2>4. PageInv' /\ LateInv' /\ EndInv'
    BY <2>1 DEF PageInv, LateInv, EndInv, Between
  <2>5. TargetInv'
    BY <2>1, <2>2 DEF TargetInv, Holds
  <2> QED
    BY <2>3, <2>4, <2>5
<1>3. CASE WriteTimesOut
  <2>1. /\ pc = "write" /\ pc' = "done" /\ verdict' = "raised" /\ late' = Between(count, offset)
        /\ UNCHANGED <<size, limit, cursor, finished, offset, page, written, count, reported>>
        /\ Holds(count) /\ page = Between(count, offset)
    BY <1>3 DEF WriteTimesOut, Raise, TargetInv, PageInv
  <2> QED
    BY <2>1 DEF TypeOK, PageInv, TargetInv, LateInv, EndInv, Holds, Between
<1>4. CASE LateWrite
  <2>1. /\ late' = {} /\ pc = "done" /\ verdict = "raised"
        /\ UNCHANGED <<size, limit, pc, cursor, finished, offset, page, count, verdict, reported>>
        /\ Holds(count) /\ late = Between(count, offset)
    BY <1>4 DEF LateWrite, LateInv
  <2>2. \E n \in count .. offset : written' = [r \in Row |-> IF r < n THEN 1 ELSE 0]
    BY <1>4, <2>1, LandSome DEF LateWrite
  <2>3. TypeOK'
    BY <1>0, <1>4, <2>1 DEF LateWrite, TypeOK
  <2>4. PageInv' /\ LateInv' /\ EndInv'
    BY <2>1 DEF PageInv, LateInv, EndInv, Between
  <2>5. TargetInv'
    BY <2>1, <2>2 DEF TargetInv, Holds
  <2> QED
    BY <2>3, <2>4, <2>5
<1> QED
  BY <1>1, <1>2, <1>3, <1>4

(* The counter and the handler.                                            *)
LEMMA AfterInv ==
  ASSUME IInv, Advance \/ Handle
  PROVE  IInv'
<1> USE Numbers, RowsAreNumbers DEF IInv, sourceVars, targetVars, resultVars, GoOn, Fail
<1>1. CASE Advance
  <2>1. /\ pc = "advance" /\ pc' \in {"fetch", "handle"}
        /\ UNCHANGED <<size, limit, cursor, finished, offset, page, late, written, verdict, reported>>
        /\ page = Between(count, offset) /\ Holds(offset) /\ late = {}
    BY <1>1 DEF Advance, PageInv, TargetInv, LateInv
  <2>2. count + Cardinality(page) = offset
    BY <2>1, PageSize
  <2>3. \/ count' = offset
        \/ count' = count /\ pc' = "handle"
    BY <1>1, <2>2 DEF Advance
  <2>4. CASE count' = offset
    BY <2>1, <2>4 DEF TypeOK, PageInv, TargetInv, LateInv, EndInv, Holds, Between
  <2>5. CASE count' = count /\ pc' = "handle"
    BY <2>1, <2>5 DEF TypeOK, PageInv, TargetInv, LateInv, EndInv, Holds, Between
  <2> QED
    BY <2>3, <2>4, <2>5
<1>2. CASE Handle
  <2>1. /\ pc = "handle" /\ pc' = "done" /\ verdict' = "raised"
        /\ UNCHANGED <<size, limit, cursor, finished, offset, page, late, written, count, reported>>
    BY <1>2 DEF Handle, Raise
  <2> QED
    BY <2>1 DEF TypeOK, PageInv, TargetInv, LateInv, EndInv, Holds, Between
<1> QED
  BY <1>1, <1>2

LEMMA StepInv == IInv /\ [Next]_vars => IInv'
<1> SUFFICES ASSUME IInv, [Next]_vars PROVE IInv'
  OBVIOUS
<1>1. CASE Next
  BY <1>1, FetchInv, WriteInv, AfterInv DEF Next, CallerNext
<1>2. CASE UNCHANGED vars
  BY <1>2 DEF vars, sourceVars, targetVars, resultVars, IInv, TypeOK, PageInv,
              TargetInv, LateInv, EndInv, Holds, Between
<1> QED
  BY <1>1, <1>2

LEMMA Invariance == Spec => []IInv
BY InitInv, StepInv, PTL DEF Spec

-----------------------------------------------------------------------------
(* What follows from it in every state.                                    *)

(* The target holds the first n rows of the result set, for some n between *)
(* what was counted and what was fetched.                                  *)
LEMMA Beginning == ASSUME IInv PROVE \E n \in count .. offset : Holds(n)
<1> USE Numbers DEF IInv
<1>1. pc \in {"adapters", "fetch", "write", "advance", "handle", "done"}
  BY DEF TypeOK
<1> QED
  BY <1>1 DEF TargetInv, PageInv

(* The type invariant: every variable of the loop keeps its type; the      *)
(* iterator never fetches, and execute never counts, more rows than the    *)
(* result set has.                                                         *)
THEOREM TypeCorrect == Spec => []TypeOK
BY Invariance, PTL DEF IInv

(* After every step, however the load fails, the target holds a gapless    *)
(* beginning of the result set and each row of it once.                    *)
THEOREM GaplessBeginning == Spec => []LandedIsPrefix
<1>1. IInv => LandedIsPrefix
  <2> SUFFICES ASSUME IInv PROVE LandedIsPrefix
    OBVIOUS
  <2> USE Numbers, RowsAreNumbers
  <2>1. PICK n \in count .. offset : Holds(n)
    BY Beginning
  <2>2. \A r \in Row : written[r] = IF r < n THEN 1 ELSE 0
    BY <2>1 DEF Holds
  <2>3. \A r \in Row : count <= r /\ r < offset => r \in page
    BY DEF IInv, PageInv, Between
  <2> QED
    BY <2>1, <2>2, <2>3 DEF LandedIsPrefix
<1> QED
  BY <1>1, Invariance, PTL

(* A load that returns is complete: all rows are at the target, execute    *)
(* returns their number, and the cursor of the source is closed.           *)
THEOREM ReturnIsComplete == Spec => []CompleteOnSuccess
<1>1. IInv => CompleteOnSuccess
  <2> SUFFICES ASSUME IInv, verdict = "returned" PROVE CompleteOnSuccess
    BY DEF CompleteOnSuccess
  <2> USE Numbers
  <2>1. PICK n \in count .. offset : Holds(n)
    BY Beginning
  <2>2. count = size /\ reported = size /\ cursor = "closed"
    BY DEF IInv, EndInv
  <2>3. n = size
    BY <2>1, <2>2
  <2> QED
    BY <2>1, <2>2, <2>3 DEF Holds, CompleteOnSuccess
<1> QED
  BY <1>1, Invariance, PTL

(* The rows counted are at the target, be it that more have landed.        *)
LEMMA Backed ==
  ASSUME IInv
  PROVE  count <= Cardinality({r \in Row : written[r] = 1})
<1> USE Numbers, RowsAreNumbers
<1>1. PICK n \in count .. offset : Holds(n)
  BY Beginning
<1>2. {r \in Row : written[r] = 1} = Between(0, n)
  BY <1>1 DEF Holds, Between
<1>3. Cardinality(Between(0, n)) = n - 0
  BY <1>1, PageSize
<1> QED
  BY <1>1, <1>2, <1>3

(* data_count never runs ahead of what was written, and lags behind what   *)
(* was fetched by one page at most.                                        *)
THEOREM CountBacked == Spec => []CountIsBacked
<1>1. IInv => CountIsBacked
  <2> SUFFICES ASSUME IInv PROVE CountIsBacked
    OBVIOUS
  <2> USE Numbers
  <2>1. page \subseteq Row /\ Between(count, offset) \subseteq page
    BY DEF IInv, TypeOK, PageInv
  <2>2. IsFiniteSet(page) /\ Cardinality(page) \in Nat
    BY <2>1, SubsetOfRow
  <2>3. Cardinality(Between(count, offset)) <= Cardinality(page)
    BY <2>1, <2>2, FS_Subset
  <2>4. Cardinality(Between(count, offset)) = offset - count
    BY PageSize
  <2>5. offset <= count + Cardinality(page)
    BY <2>2, <2>3, <2>4
  <2> QED
    BY <2>5, Backed DEF CountIsBacked
<1> QED
  BY <1>1, Invariance, PTL

-----------------------------------------------------------------------------
(* The strategy implements BulkLoad.                                       *)

(* BulkLoad counts as this module does.                                    *)
LEMMA BulkCardinality == \A S : Bulk!Cardinality(S) = Cardinality(S)
BY Zenon DEF Cardinality, Bulk!Cardinality

(* Rows that are not there yet, landing once, are a batch of BulkLoad.     *)
LEMMA LandBatch ==
  ASSUME IInv, NEW rows, rows \subseteq Between(count, offset), Holds(count),
         Land(rows), UNCHANGED <<verdict, reported>>
  PROVE  Bulk!Next
<1> USE Numbers, RowsAreNumbers
<1>1. \A r \in Row : written[r] = IF r < count THEN 1 ELSE 0
  BY DEF Holds
<1>2. rows \in SUBSET Row
  BY DEF Between
<1>3. rows \cap Bulk!Landed = {}
  BY <1>1 DEF Bulk!Landed, Between
<1>4. \A r \in rows : written[r] + 1 = 1
  BY <1>1 DEF Between
<1>5. written' = [r \in Row |-> IF r \in rows THEN 1 ELSE written[r]]
  BY <1>2, <1>4 DEF Land
<1>6. Bulk!Land(rows)
  BY <1>3, <1>5 DEF Bulk!Land
<1> QED
  BY <1>2, <1>6 DEF Bulk!Next

(* What is kept of rows is some of them.                                   *)
LEMMA KeptIsPart == ASSUME NEW rows, NEW part \in Kept(rows) PROVE part \subseteq rows
BY DEF Kept

LEMMA StepBulk == IInv /\ [Next]_vars => [Bulk!Next]_(Bulk!vars)
<1> SUFFICES ASSUME IInv, Next PROVE [Bulk!Next]_(Bulk!vars)
  BY DEF vars, sourceVars, targetVars, resultVars, Bulk!vars
<1> USE DEF sourceVars, targetVars, resultVars, GoOn, Fail
<1>1. CASE GetIterator \/ OpenCursor \/ FetchPage \/ FetchFails \/ Advance
  BY <1>1 DEF GetIterator, OpenCursor, FetchPage, FetchFails, Advance, Bulk!vars
<1>2. CASE WritePage \/ WriteFails
  <2>1. Holds(count) /\ page = Between(count, offset) /\ UNCHANGED <<verdict, reported>>
    BY <1>2 DEF WritePage, WriteFails, IInv, PageInv, TargetInv
  <2>2. \E rows : rows \subseteq page /\ Land(rows)
    BY <1>2, KeptIsPart DEF WritePage, WriteFails
  <2> QED
    BY <2>1, <2>2, LandBatch
<1>3. CASE LateWrite
  <2>1. Holds(count) /\ late = Between(count, offset) /\ UNCHANGED <<verdict, reported>>
    BY <1>3 DEF LateWrite, IInv, LateInv
  <2>2. \E rows : rows \subseteq late /\ Land(rows)
    BY <1>3, KeptIsPart DEF LateWrite
  <2> QED
    BY <2>1, <2>2, LandBatch
<1>4. CASE WriteTimesOut \/ Handle
  <2>1. pc # "done" /\ verdict' = "raised" /\ UNCHANGED <<written, reported>>
    BY <1>4 DEF WriteTimesOut, Handle, Raise
  <2>2. verdict = "none"
    BY <2>1 DEF IInv, EndInv
  <2> QED
    BY <2>1, <2>2 DEF Bulk!Next, Bulk!Raise
<1>5. CASE Stop
  <2>1. pc # "done" /\ verdict' = "returned" /\ reported' = count /\ UNCHANGED written
    BY <1>5 DEF Stop, Return
  <2>2. verdict = "none"
    BY <2>1 DEF IInv, EndInv
  <2>3. {r \in Row : written[r] = 1} \subseteq Bulk!Landed /\ Bulk!Landed \subseteq Row
    BY DEF Bulk!Landed
  <2>4. /\ count \in Nat
        /\ Cardinality({r \in Row : written[r] = 1}) <= Cardinality(Bulk!Landed)
        /\ Cardinality(Bulk!Landed) <= Cardinality(Row)
        /\ Cardinality({r \in Row : written[r] = 1}) \in Nat
        /\ Cardinality(Bulk!Landed) \in Nat /\ Cardinality(Row) \in Nat
    BY <2>3, SubsetOfRow, FS_Subset, Numbers
  <2>5. count <= Cardinality(Bulk!Landed) /\ count \in 0 .. Cardinality(Row)
    BY <2>4, Backed
  <2>6. Bulk!Return(count)
    BY <2>1, <2>2, <2>5, BulkCardinality, Zenon DEF Bulk!Return
  <2> QED
    BY <2>5, <2>6, BulkCardinality, Zenon DEF Bulk!Next
<1> QED
  BY <1>1, <1>2, <1>3, <1>4, <1>5 DEF Next, CallerNext

(* Every load of the single-process strategy is one BulkLoad allows: its   *)
(* pages, and what lands late, are batches of rows not written before, and *)
(* it gives one verdict with a row count that is backed.                   *)
THEOREM ImplementsBulkLoad == Spec => BulkSpec
<1>1. Init => Bulk!Init
  BY DEF Init, Bulk!Init
<1> QED
  BY <1>1, StepBulk, Invariance, PTL DEF Spec, BulkSpec, Bulk!Spec
=============================================================================
