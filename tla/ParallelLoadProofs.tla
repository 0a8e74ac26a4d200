------------------------- MODULE ParallelLoadProofs ------------------------
(***************************************************************************)
(* Proofs about ParallelLoad, for every number of writers, page size, row  *)
(* count and choice of faults.                                             *)
(***************************************************************************)
EXTENDS ParallelLoad, TLAPS, FiniteSetTheorems, SequenceTheorems

(* A page holds finitely many rows, so its row count is a number.          *)
LEMMA RowCountType == ASSUME NEW s PROVE RowCount(s) \in Nat
<1>1. IsFiniteSet(Row)
  BY SizeAssumption, FS_Interval DEF Row
<1>2. PageRows(s) \subseteq Row
  BY DEF PageRows
<1>3. IsFiniteSet(PageRows(s))
  BY <1>1, <1>2, FS_Subset
<1> QED
  BY <1>3, FS_CardinalityType DEF RowCount

(* Landing a batch leaves every row with a number of copies.               *)
LEMMA LandType ==
  ASSUME NEW rows, written \in [Row -> Nat], Land(rows)
  PROVE  written' \in [Row -> Nat]
  BY DEF Land

-----------------------------------------------------------------------------
(* The type invariant is inductive together with the window of the source  *)
(* thread: it has room when it puts a page and is full when it waits.      *)
WindowInv ==
  /\ spc \in {"new", "count"} => transmitted = 0
  /\ mpc = "source" => spc = "new"
  /\ spc = "put" => transmitted < ProcessCount
  /\ spc = "await" => transmitted = ProcessCount

TypeInv == TypeOK /\ WindowInv

LEMMA InitType == Init => TypeInv
<1> SUFFICES ASSUME Init PROVE TypeInv
  OBVIOUS
<1>1. 1 \in Writer
  BY SizeAssumption DEF Writer
<1>2. /\ wpc \in [Writer -> WriterState] /\ page \in [Writer -> Nat]
      /\ total \in [Writer -> Nat] /\ written \in [Row -> Nat]
      /\ record \in [Writer -> Report \cup {NoReport}]
  BY DEF Init, WriterState
<1>3. dataQ \in Seq(DataTask) /\ ackQ \in Seq(BOOLEAN) /\ resultQ \in Seq(Report)
  BY DEF Init
<1>4. /\ held \in HeldCounts /\ vanished \in BOOLEAN /\ queuesUp \in BOOLEAN
      /\ spc = "new" /\ mpc = "source" /\ idx \in Writer /\ verdict = "none"
  BY <1>1 DEF Init
<1>5. /\ start \in Nat /\ transmitted \in 0 .. ProcessCount /\ left \in 0 .. ProcessCount
      /\ late \subseteq Nat /\ marked \subseteq Writer /\ reported \in Nat
  BY SizeAssumption DEF Init
<1>6. WindowInv
  BY DEF Init, WindowInv
<1> QED
  BY <1>2, <1>3, <1>4, <1>5, <1>6 DEF TypeInv, TypeOK

LEMMA SourceType ==
  ASSUME TypeInv, SourceNext \/ SourceVanish
  PROVE  TypeInv'
<1> USE SizeAssumption DEF TypeInv, TypeOK, WindowInv, envVars, queueVars,
        sourceVars, writerVars, brokerVars, callerVars, EndTasks
<1>1. CASE SourceCount
  BY <1>1 DEF SourceCount
<1>2. CASE SourcePut
  <2>1. PageTask(start) \in DataTask
    BY DEF PageTask, DataTask
  <2> QED
    BY <1>2, <2>1 DEF SourcePut, WindowFull
<1>3. CASE SourceStop
  BY <1>3 DEF SourceStop
<1>4. CASE SourceAwait
  <2>1. ackQ' \in Seq(BOOLEAN)
    <3>1. ackQ \in Seq(BOOLEAN) /\ ackQ # <<>> /\ ackQ' = Tail(ackQ)
      BY <1>4, Zenon DEF SourceAwait
    <3> QED
      BY <3>1, HeadTailProperties, Zenon
  <2>0. /\ UNCHANGED <<envVars, dataQ, queuesUp, writerVars, brokerVars, callerVars>>
        /\ spc = "await"
    BY <1>4 DEF SourceAwait
  <2>2. CASE spc' = "put"
    <3>1. transmitted' = transmitted - 1 /\ start' = start + Limit /\ left' = left
      BY <1>4, <2>2 DEF SourceAwait
    <3> QED
      BY <2>0, <2>1, <2>2, <3>1
  <2>3. CASE spc' # "put"
    <3>1. spc' = "finish" /\ left' = EndTasks /\ transmitted' = transmitted /\ start' = start
      BY <1>4, <2>3 DEF SourceAwait
    <3> QED
      BY <2>0, <2>1, <3>1
  <2> QED
    BY <2>2, <2>3
<1>5. CASE SourceEnd
  <2>1. FinishTask \in DataTask /\ ErrorTask \in DataTask
    BY DEF DataTask
  <2> QED
    BY <1>5, <2>1 DEF SourceEnd
<1>6. CASE SourceCutOff
  BY <1>6 DEF SourceCutOff
<1>7. CASE SourceVanish
  BY <1>7 DEF SourceVanish
<1> QED
  BY <1>1, <1>2, <1>3, <1>4, <1>5, <1>6, <1>7 DEF SourceNext

LEMMA WriterType ==
  ASSUME TypeInv, NEW w \in Writer, WriterNext(w) \/ WriterVanish(w)
  PROVE  TypeInv'
<1> USE DEF TypeInv, TypeOK, WindowInv, envVars, queueVars, sourceVars,
        writerVars, brokerVars, callerVars
<1>1. CASE WriterBegin(w)
  <2>1. wpc' \in [Writer -> WriterState]
    BY <1>1 DEF WriterBegin, WriterState
  <2> QED
    BY <1>1, <2>1 DEF WriterBegin
<1>2. CASE WriterGet(w)
  <2>1. Head(dataQ) \in DataTask /\ Tail(dataQ) \in Seq(DataTask)
    BY <1>2 DEF WriterGet
  <2>2. Head(dataQ).kind = "page" => Head(dataQ).start \in Nat
    BY <2>1 DEF DataTask, FinishTask, ErrorTask
  <2>3. wpc' \in [Writer -> WriterState] /\ page' \in [Writer -> Nat]
    BY <1>2, <2>2 DEF WriterGet, WriterState
  <2> QED
    BY <1>2, <2>1, <2>3 DEF WriterGet
<1>3. CASE WriterWrite(w)
  BY <1>3, LandType, RowCountType DEF WriterWrite, WriterState
<1>4. CASE WriterError(w)
  BY <1>4, LandType DEF WriterError, WriterState
<1>5. CASE WriterTimeout(w)
  <2>1. wpc' \in [Writer -> WriterState]
    BY <1>5 DEF WriterTimeout, WriterState
  <2>2. late' \subseteq Nat
    BY <1>5 DEF WriterTimeout
  <2>3. UNCHANGED <<page, total, written, envVars, queueVars, sourceVars, brokerVars, callerVars>>
    BY <1>5 DEF WriterTimeout
  <2> QED
    BY <2>1, <2>2, <2>3
<1>6. CASE WriterAnswer(w)
  BY <1>6 DEF WriterAnswer, WriterState
<1>7. CASE WriterFail(w)
  BY <1>7 DEF WriterFail, WriterState
<1>8. CASE WriterCutOff(w)
  BY <1>8 DEF WriterCutOff, WriterState
<1>9. CASE WriterReport(w)
  BY <1>9 DEF WriterReport, WriterState, Report
<1>10. CASE WriterExit(w)
  BY <1>10 DEF WriterExit, WriterState
<1>11. CASE WriterVanish(w)
  BY <1>11 DEF WriterVanish, WriterState
<1> QED
  BY <1>1, <1>2, <1>3, <1>4, <1>5, <1>6, <1>7, <1>8, <1>9, <1>10, <1>11
     DEF WriterNext

LEMMA LateType ==
  ASSUME TypeInv, NEW s \in late, LateWrite(s)
  PROVE  TypeInv'
  BY LandType DEF TypeInv, TypeOK, WindowInv, envVars, queueVars, sourceVars,
     writerVars, brokerVars, callerVars, LateWrite

LEMMA CallerType ==
  ASSUME TypeInv, CallerNext
  PROVE  TypeInv'
<1> USE SizeAssumption DEF TypeInv, TypeOK, WindowInv, envVars, queueVars,
        sourceVars, writerVars, brokerVars, callerVars, Writer
<1>1. CASE StartSource
  BY <1>1 DEF StartSource
<1>2. CASE StartWriter
  <2>1. wpc' \in [Writer -> WriterState]
    BY <1>2 DEF StartWriter, WriterState
  <2> QED
    BY SMTT(30), <1>2, <2>1 DEF StartWriter
<1>3. CASE Collect
  <2>1. Head(resultQ) \in Report /\ Tail(resultQ) \in Seq(Report)
    BY <1>3 DEF Collect
  <2> QED
    BY <1>3, <2>1 DEF Collect, Report
<1>4. CASE CollectError
  <2>1. Head(resultQ) \in Report /\ Tail(resultQ) \in Seq(Report)
    BY <1>4 DEF CollectError
  <2> QED
    BY <1>4, <2>1 DEF CollectError, Report
<1>5. CASE CheckThread
  <2>1. idx' \in Writer
    BY <1>5 DEF CheckThread
  <2>2. marked' \subseteq Writer
    BY <1>5 DEF CheckThread
  <2>3. mpc' \in {"check", "sum", "collect"}
    BY <1>5 DEF CheckThread
  <2> QED
    BY SMTT(30), <1>5, <2>1, <2>2, <2>3 DEF CheckThread
<1>6. CASE SumReport
  <2>1. record[idx].rows \in Nat
    <3>1. record[idx] \in Report \cup {NoReport}
      OBVIOUS
    <3> QED
      BY <3>1 DEF Report, NoReport
  <2>2. idx' \in Writer
    BY <1>6 DEF SumReport
  <2>3. reported' \in Nat
    BY SMTT(30), <1>6, <2>1 DEF SumReport
  <2>4. mpc' \in {"sum", "shutdown"} /\ verdict' \in {"none", "returned", "raised"}
    BY <1>6 DEF SumReport
  <2> QED
    BY <1>6, <2>2, <2>3, <2>4 DEF SumReport
<1>7. CASE Shutdown
  BY <1>7 DEF Shutdown
<1> QED
  BY <1>1, <1>2, <1>3, <1>4, <1>5, <1>6, <1>7 DEF CallerNext

LEMMA NextType == TypeInv /\ [Next]_vars => TypeInv'
<1>1. ASSUME TypeInv, UNCHANGED vars PROVE TypeInv'
  BY <1>1 DEF vars, TypeInv, TypeOK, WindowInv, envVars, queueVars,
     sourceVars, writerVars, brokerVars, callerVars
<1> QED
  BY <1>1, SourceType, WriterType, LateType, CallerType DEF Next

(* Every variable keeps its type; in particular the source thread never    *)
(* counts more than ProcessCount pages as transmitted.                     *)
THEOREM TypeCorrect == Spec => []TypeOK
<1>1. TypeInv => TypeOK
  BY DEF TypeInv
<1> QED
  BY InitType, NextType, <1>1, PTL DEF Spec

-----------------------------------------------------------------------------
(* Every row is written at most once.                                      *)
(*                                                                         *)
(* A page that has been cut but not landed is on data_queue, with the      *)
(* writer that took it, or with a timed-out write.  The invariant says     *)
(* that the windows of these pages lie below the source thread's next      *)
(* page, are pairwise disjoint, and hold no row that was already written.  *)

Bound == IF spc \in {"new", "count", "put"} THEN start ELSE start + Limit

Queued(i) == i \in 1 .. Len(dataQ) /\ dataQ[i].kind = "page"
AtWork(w) == wpc[w] = "page"

Apart(s, t)  == s + Limit <= t \/ t + Limit <= s
Unwritten(s) == \A r \in Row : s <= r /\ r < s + Limit => written[r] = 0
Pending(s)   == s + Limit <= Bound /\ Unwritten(s)

AllPending ==
  /\ \A i \in Nat : Queued(i) => Pending(dataQ[i].start)
  /\ \A w \in Writer : AtWork(w) => Pending(page[w])
  /\ \A s \in late : Pending(s)

AllApart ==
  /\ \A i, j \in Nat : Queued(i) /\ Queued(j) /\ i # j =>
       Apart(dataQ[i].start, dataQ[j].start)
  /\ \A i \in Nat : \A w \in Writer : Queued(i) /\ AtWork(w) =>
       Apart(dataQ[i].start, page[w])
  /\ \A i \in Nat : \A s \in late : Queued(i) => Apart(dataQ[i].start, s)
  /\ \A v, w \in Writer : AtWork(v) /\ AtWork(w) /\ v # w => Apart(page[v], page[w])
  /\ \A w \in Writer : \A s \in late : AtWork(w) => Apart(page[w], s)
  /\ \A s, t \in late : s # t => Apart(s, t)

NothingAhead == \A r \in Row : Bound <= r => written[r] = 0

OnceInv == AtMostOnce /\ AllPending /\ AllApart /\ NothingAhead

(* The starts of pages are numbers.                                        *)
LEMMA QueuedStart ==
  ASSUME TypeOK, NEW i, Queued(i)
  PROVE  dataQ[i].start \in Nat
<1>1. dataQ[i] \in DataTask
  BY ElementOfSeq DEF Queued, TypeOK
<1> QED
  BY <1>1 DEF Queued, DataTask, FinishTask, ErrorTask

LEMMA BoundType == TypeOK => Bound \in Nat
  BY SizeAssumption DEF TypeOK, Bound

LEMMA Grow ==
  ASSUME NEW b \in Nat, NEW l \in Nat, NEW c, c = b \/ c = b + l
  PROVE  c \in Nat /\ b <= c
  OBVIOUS

(* What Append does to the places of a queue.                              *)
LEMMA AppendPlaces ==
  ASSUME NEW S, NEW q \in Seq(S), NEW e \in S,
         NEW i, i \in 1 .. Len(Append(q, e))
  PROVE  \/ i \in 1 .. Len(q) /\ Append(q, e)[i] = q[i]
         \/ i = Len(q) + 1 /\ Append(q, e)[i] = e
<1>1. Len(Append(q, e)) = Len(q) + 1 /\ Len(q) \in Nat
  BY AppendProperties, LenProperties
<1>2. i \in 1 .. Len(q) \/ i = Len(q) + 1
  BY <1>1
<1> QED
  BY <1>2, AppendProperties

LEMMA InitOnce == Init => OnceInv
  BY DEF Init, OnceInv, AtMostOnce, AllPending, AllApart, NothingAhead, Queued, AtWork

(* A step that cuts no page, lands none and hands none over keeps OnceInv. *)
LEMMA OnceStep ==
  ASSUME TypeOK, TypeOK', OnceInv,
         UNCHANGED <<dataQ, page, late, written>>,
         \A w \in Writer : wpc'[w] = "page" => wpc[w] = "page",
         Bound' = Bound \/ Bound' = Bound + Limit
  PROVE  OnceInv'
<1>1. \A i : Queued(i)' <=> Queued(i)
  BY DEF Queued
<1>2. \A w \in Writer : AtWork(w)' => AtWork(w)
  BY DEF AtWork
<1>0. Bound \in Nat /\ Bound' \in Nat /\ Bound <= Bound'
  BY BoundType, Grow, SizeAssumption
<1>3. ASSUME NEW s \in Nat, Pending(s) PROVE Pending(s)'
  <2>1. s + Limit <= Bound'
    BY <1>0, <1>3, SizeAssumption DEF Pending
  <2>2. Unwritten(s)'
    BY <1>3 DEF Pending, Unwritten
  <2> QED
    BY <2>1, <2>2 DEF Pending
<1>4. AllPending'
  <2>1. \A i \in Nat : Queued(i)' => Pending(dataQ[i].start)'
    BY <1>1, <1>3, QueuedStart DEF OnceInv, AllPending
  <2>2. \A w \in Writer : AtWork(w)' => Pending(page[w])'
    BY <1>2, <1>3 DEF OnceInv, AllPending, TypeOK
  <2>3. \A s \in late' : Pending(s)'
    BY <1>3 DEF OnceInv, AllPending, TypeOK
  <2> QED
    BY <2>1, <2>2, <2>3 DEF AllPending
<1>5. AllApart'
  BY <1>1, <1>2 DEF OnceInv, AllApart, Apart
<1>6. NothingAhead' /\ AtMostOnce'
  BY <1>0, SizeAssumption DEF OnceInv, NothingAhead, AtMostOnce, Row
<1> QED
  BY <1>4, <1>5, <1>6 DEF OnceInv

(* Landing a pending page once spoils neither the rows it holds nor a page *)
(* apart from it.                                                          *)
LEMMA LandOnce ==
  ASSUME TypeOK, OnceInv, NEW s \in Nat, Pending(s), Land(PageRows(s)),
         UNCHANGED <<spc, start>>
  PROVE  /\ AtMostOnce' /\ NothingAhead'
         /\ \A t \in Nat : Apart(s, t) /\ Pending(t) => Pending(t)'
<1>1. \A r \in Row : r \in Nat
  BY DEF Row
<1>2. \A r \in Row : r \in PageRows(s) => s <= r /\ r < s + Limit
  BY DEF PageRows
<1>3. \A r \in Row : r \in PageRows(s) => written[r] = 0 /\ r < Bound
  BY <1>1, <1>2, BoundType, SizeAssumption DEF Pending, Unwritten
<1>4. \A r \in Row : written'[r] = IF r \in PageRows(s) THEN written[r] + 1 ELSE written[r]
  BY DEF Land
<1>5. AtMostOnce'
  BY <1>3, <1>4 DEF AtMostOnce, OnceInv
<1>6. Bound' = Bound
  BY DEF Bound
<1>7. NothingAhead'
  BY <1>1, <1>3, <1>4, <1>6, BoundType DEF NothingAhead, OnceInv
<1>8. ASSUME NEW t \in Nat, Apart(s, t), Pending(t) PROVE Pending(t)'
  <2>1. \A r \in Row : t <= r /\ r < t + Limit => r \notin PageRows(s)
    BY <1>1, <1>2, <1>8, SizeAssumption DEF Apart
  <2> QED
    BY <2>1, <1>4, <1>6, <1>8 DEF Pending, Unwritten
<1> QED
  BY <1>5, <1>7, <1>8

LEMMA SourceOnce ==
  ASSUME TypeInv, TypeInv', OnceInv, SourceNext \/ SourceVanish
  PROVE  OnceInv'
<1>1. start \in Nat /\ Limit \in Nat \ {0} /\ Limit \in Nat /\ TypeOK /\ TypeOK'
  BY SizeAssumption DEF TypeInv, TypeOK
<1>2. CASE SourceCount \/ SourceStop \/ SourceAwait \/ SourceCutOff \/ SourceVanish
  <2>1. UNCHANGED <<dataQ, page, late, written, wpc>>
    BY <1>2 DEF SourceCount, SourceStop, SourceAwait, SourceCutOff, SourceVanish,
       queueVars, writerVars
  <2>2. CASE SourceCount
    BY <1>1, <2>1, <2>2, OnceStep DEF SourceCount, Bound
  <2>3. CASE SourceStop
    BY <1>1, <2>1, <2>3, OnceStep DEF SourceStop, Bound
  <2>4. CASE SourceAwait
    <3>1. CASE spc' = "put"
      BY <1>1, <2>1, <2>4, <3>1, OnceStep DEF SourceAwait, Bound
    <3>2. CASE spc' # "put"
      BY <1>1, <2>1, <2>4, <3>2, OnceStep DEF SourceAwait, Bound
    <3> QED
      BY <3>1, <3>2
  <2>5. CASE SourceCutOff
    BY <1>1, <2>1, <2>5, OnceStep DEF SourceCutOff, Bound
  <2>6. CASE SourceVanish
    BY <1>1, <2>1, <2>6, OnceStep DEF SourceVanish, Bound
  <2> QED
    BY <1>2, <2>2, <2>3, <2>4, <2>5, <2>6
<1>3. CASE SourcePut
  <2>1. /\ dataQ' = Append(dataQ, PageTask(start))
        /\ UNCHANGED <<page, late, written, wpc>>
        /\ spc = "put" /\ Bound = start /\ Bound' = start + Limit
    BY <1>1, <1>3 DEF SourcePut, Bound, writerVars
  <2>2. ASSUME NEW i, Queued(i)'
        PROVE  \/ Queued(i) /\ dataQ'[i] = dataQ[i]
               \/ dataQ'[i].start = start /\ i = Len(dataQ) + 1
    <3>1. dataQ \in Seq(DataTask) /\ PageTask(start) \in DataTask
      BY <1>1 DEF TypeOK, DataTask, PageTask
    <3>2. i \in 1 .. Len(dataQ') /\ dataQ'[i].kind = "page"
      BY <2>2 DEF Queued
    <3> QED
      BY <3>1, <3>2, <2>1, AppendPlaces DEF Queued, PageTask
  <2>3. ASSUME NEW s \in Nat, Pending(s) PROVE Pending(s)' /\ Apart(s, start)
    BY <2>1, <2>3, <1>1 DEF Pending, Unwritten, Apart
  <2>4. ASSUME NEW s \in Nat, s = start PROVE Pending(s)'
    <3>1. \A r \in Row : s <= r => written'[r] = 0
      BY <2>1, <2>4 DEF OnceInv, NothingAhead
    <3>2. s + Limit <= Bound'
      BY <2>1, <2>4, <1>1
    <3> QED
      BY <3>1, <3>2 DEF Pending, Unwritten
  <2>5. AllPending'
    <3>1. ASSUME NEW i \in Nat, Queued(i)' PROVE Pending(dataQ[i].start)'
      <4>1. PICK s \in Nat : s = dataQ'[i].start /\ Pending(s)'
        BY <1>1, <2>2, <2>3, <2>4, <3>1, QueuedStart DEF OnceInv, AllPending
      <4> QED
        BY <4>1
    <3>2. \A w \in Writer : AtWork(w)' => Pending(page[w])'
      <4>1. ASSUME NEW w \in Writer, AtWork(w)' PROVE Pending(page[w])'
        <5>1. page[w] \in Nat /\ Pending(page[w])
          BY <1>1, <2>1, <4>1 DEF OnceInv, AllPending, AtWork, TypeOK
        <5>2. PICK s \in Nat : s = page[w]
          BY <5>1
        <5>3. Pending(s)'
          BY <5>1, <5>2, <2>3
        <5> QED
          BY <5>2, <5>3, <2>1 DEF Pending, Unwritten
      <4> QED
        BY <4>1
    <3>3. \A s \in late' : Pending(s)'
      BY <1>1, <2>1, <2>3 DEF OnceInv, AllPending, TypeOK
    <3> QED
      BY <3>1, <3>2, <3>3 DEF AllPending
  <2>6. AllApart'
    <3>1. ASSUME NEW i \in Nat, Queued(i)
          PROVE  Apart(dataQ[i].start, start) /\ Apart(start, dataQ[i].start)
      BY <1>1, <2>3, <3>1, QueuedStart DEF OnceInv, AllPending, Apart
    <3>2. ASSUME NEW w \in Writer, AtWork(w) PROVE Apart(start, page[w])
      BY <1>1, <2>3, <3>2 DEF OnceInv, AllPending, TypeOK, Apart
    <3>3. ASSUME NEW s \in late PROVE Apart(start, s)
      BY <1>1, <2>3 DEF OnceInv, AllPending, TypeOK, Apart
    <3>4. ASSUME NEW i \in Nat, NEW j \in Nat, Queued(i)', Queued(j)', i # j
          PROVE  Apart(dataQ[i].start, dataQ[j].start)'
      BY <2>2, <3>1, <3>4 DEF OnceInv, AllApart, Apart
    <3>5. ASSUME NEW i \in Nat, NEW w \in Writer, Queued(i)', AtWork(w)'
          PROVE  Apart(dataQ[i].start, page[w])'
      BY <2>1, <2>2, <3>2, <3>5 DEF OnceInv, AllApart, Apart, AtWork
    <3>6. ASSUME NEW i \in Nat, NEW s \in late', Queued(i)'
          PROVE  Apart(dataQ[i].start, s)'
      BY <2>1, <2>2, <3>3, <3>6 DEF OnceInv, AllApart, Apart
    <3>7. /\ \A v, w \in Writer : AtWork(v)' /\ AtWork(w)' /\ v # w => Apart(page[v], page[w])'
          /\ \A w \in Writer : \A s \in late' : AtWork(w)' => Apart(page[w], s)'
          /\ \A s, t \in late' : s # t => Apart(s, t)'
      BY <2>1 DEF OnceInv, AllApart, Apart, AtWork
    <3> QED
      BY <3>4, <3>5, <3>6, <3>7 DEF AllApart
  <2>7. NothingAhead' /\ AtMostOnce'
    BY <2>1, <1>1, SizeAssumption DEF OnceInv, NothingAhead, AtMostOnce, Row
  <2> QED
    BY <2>5, <2>6, <2>7 DEF OnceInv
<1>4. CASE SourceEnd
  <2>1. /\ dataQ' = Append(dataQ, FinishTask) \/ dataQ' = Append(dataQ, ErrorTask)
        /\ UNCHANGED <<page, late, written, wpc>>
        /\ Bound' = Bound
    BY <1>1, <1>4 DEF SourceEnd, Bound, writerVars
  <2>2. ASSUME NEW i, Queued(i)' PROVE Queued(i) /\ dataQ'[i] = dataQ[i]
    <3>1. dataQ \in Seq(DataTask) /\ FinishTask \in DataTask /\ ErrorTask \in DataTask
      BY <1>1 DEF TypeOK, DataTask
    <3>2. i \in 1 .. Len(dataQ') /\ dataQ'[i].kind = "page"
      BY <2>2 DEF Queued
    <3> QED
      BY <3>1, <3>2, <2>1, AppendPlaces DEF Queued, FinishTask, ErrorTask
  <2>3. AllPending'
    BY <2>1, <2>2 DEF OnceInv, AllPending, AtWork, Pending, Unwritten
  <2>4. AllApart'
    BY <2>1, <2>2 DEF OnceInv, AllApart, Apart, AtWork
  <2>5. NothingAhead' /\ AtMostOnce'
    BY <2>1 DEF OnceInv, NothingAhead, AtMostOnce
  <2> QED
    BY <2>3, <2>4, <2>5 DEF OnceInv
<1> QED
  BY <1>2, <1>3, <1>4 DEF SourceNext

(* Taking a task off data_queue shifts the places of the others.           *)
LEMMA TailPlaces ==
  ASSUME NEW S, NEW q \in Seq(S), q # <<>>, NEW i, i \in 1 .. Len(Tail(q))
  PROVE  i + 1 \in 2 .. Len(q) /\ Tail(q)[i] = q[i + 1] /\ i \in Nat
<1>1. Len(Tail(q)) = Len(q) - 1 /\ Len(q) \in Nat
  BY HeadTailProperties, LenProperties
<1> QED
  BY <1>1, HeadTailProperties

(* A writer that takes a page takes it from the queue.                     *)
LEMMA GetOnce ==
  ASSUME TypeOK, TypeOK', OnceInv, NEW w \in Writer, WriterGet(w)
  PROVE  OnceInv'
<1>1. /\ Limit \in Nat /\ dataQ \in Seq(DataTask) /\ dataQ # <<>> /\ dataQ' = Tail(dataQ)
      /\ UNCHANGED <<late, written, spc, start>> /\ wpc[w] = "get"
  BY SizeAssumption DEF WriterGet, TypeOK, sourceVars
<1>2. Bound' = Bound
  BY <1>1 DEF Bound
<1>3. ASSUME NEW i, Queued(i)'
      PROVE  i \in Nat /\ i + 1 \in Nat /\ i + 1 # 1 /\ Queued(i + 1) /\ dataQ'[i] = dataQ[i + 1]
  <2>1. i \in 1 .. Len(dataQ') /\ dataQ'[i].kind = "page"
    BY <1>3 DEF Queued
  <2>2. i + 1 \in 2 .. Len(dataQ) /\ dataQ'[i] = dataQ[i + 1] /\ i \in Nat
    BY <1>1, <2>1, TailPlaces
  <2> QED
    BY <1>1, <2>1, <2>2, LenProperties DEF Queued
<1>4. ASSUME NEW v \in Writer, AtWork(v)'
      PROVE  \/ AtWork(v) /\ v # w /\ page'[v] = page[v]
             \/ v = w /\ Queued(1) /\ page'[v] = dataQ[1].start
  <2>1. CASE v # w
    BY <1>1, <1>4, <2>1 DEF WriterGet, AtWork, TypeOK
  <2>2. CASE v = w
    <3>1. Head(dataQ) = dataQ[1] /\ 1 \in 1 .. Len(dataQ)
      BY <1>1, HeadTailProperties, EmptySeq, LenProperties
    <3> QED
      BY SMTT(30), <1>1, <1>4, <2>2, <3>1 DEF WriterGet, AtWork, TypeOK, Queued
  <2> QED
    BY <2>1, <2>2
<1>5. \A s \in Nat : Pending(s) => Pending(s)'
  BY <1>1, <1>2 DEF Pending, Unwritten
<1>6. AllPending'
  <2>1. ASSUME NEW i \in Nat, Queued(i)' PROVE Pending(dataQ[i].start)'
    <3>1. i + 1 \in Nat /\ Queued(i + 1) /\ dataQ'[i] = dataQ[i + 1]
      BY <1>3, <2>1
    <3>2. PICK k : k = dataQ[i + 1].start
      OBVIOUS
    <3>3. Pending(k)
      BY <3>1, <3>2 DEF OnceInv, AllPending
    <3>4. Pending(k)'
      BY ONLY <1>1, <1>2, <3>3 DEF Pending, Unwritten
    <3>5. (dataQ[i].start)' = k
      BY <3>1, <3>2
    <3> QED
      BY ONLY <3>4, <3>5 DEF Pending, Unwritten
  <2>2. ASSUME NEW v \in Writer, AtWork(v)' PROVE Pending(page[v])'
    BY <1>1, <1>2, <1>4, <2>2 DEF OnceInv, AllPending, Pending, Unwritten
  <2>3. \A s \in late' : Pending(s)'
    BY <1>1, <1>2 DEF OnceInv, AllPending, Pending, Unwritten
  <2> QED
    BY <2>1, <2>2, <2>3 DEF AllPending
<1>7. AllApart'
  <2>1. ASSUME NEW i \in Nat, NEW j \in Nat, Queued(i)', Queued(j)', i # j
        PROVE  Apart(dataQ[i].start, dataQ[j].start)'
    <3>1. i + 1 # j + 1
      BY <2>1
    <3> QED
      BY <1>3, <2>1, <3>1 DEF OnceInv, AllApart, Apart
  <2>2. ASSUME NEW i \in Nat, NEW v \in Writer, Queued(i)', AtWork(v)'
        PROVE  Apart(dataQ[i].start, page[v])'
    BY <1>3, <1>4, <2>2 DEF OnceInv, AllApart, Apart
  <2>3. ASSUME NEW i \in Nat, NEW s \in late', Queued(i)'
        PROVE  Apart(dataQ[i].start, s)'
    BY <1>1, <1>3, <2>3 DEF OnceInv, AllApart, Apart
  <2>4. ASSUME NEW u \in Writer, NEW v \in Writer, AtWork(u)', AtWork(v)', u # v
        PROVE  Apart(page[u], page[v])'
    BY <1>4, <2>4 DEF OnceInv, AllApart, Apart
  <2>5. ASSUME NEW v \in Writer, NEW s \in late', AtWork(v)'
        PROVE  Apart(page[v], s)'
    BY <1>1, <1>4, <2>5 DEF OnceInv, AllApart, Apart
  <2>6. \A s, t \in late' : s # t => Apart(s, t)'
    BY <1>1 DEF OnceInv, AllApart, Apart
  <2> QED
    BY <2>1, <2>2, <2>3, <2>4, <2>5, <2>6 DEF AllApart
<1>8. NothingAhead' /\ AtMostOnce'
  BY <1>1, <1>2 DEF OnceInv, NothingAhead, AtMostOnce
<1> QED
  BY <1>6, <1>7, <1>8 DEF OnceInv

(* A page that lands is gone from its writer, or from the late writes.     *)
LEMMA LandedOnce ==
  ASSUME TypeOK, TypeOK', OnceInv, NEW s \in Nat, Pending(s), Land(PageRows(s)),
         UNCHANGED <<spc, start, dataQ, page>>, late' \subseteq late,
         \A w \in Writer : AtWork(w)' => AtWork(w) /\ Apart(s, page[w]),
         \A i \in Nat : Queued(i) => Apart(s, dataQ[i].start),
         \A t \in late' : Apart(s, t)
  PROVE  OnceInv'
<1>1. \A i : Queued(i)' <=> Queued(i)
  BY DEF Queued
<1>2. /\ AtMostOnce' /\ NothingAhead'
      /\ \A t \in Nat : Apart(s, t) /\ Pending(t) => Pending(t)'
  BY LandOnce
<1>3. AllPending'
  <2>1. \A i \in Nat : Queued(i)' => Pending(dataQ[i].start)'
    BY <1>1, <1>2, QueuedStart DEF OnceInv, AllPending
  <2>2. \A w \in Writer : AtWork(w)' => Pending(page[w])'
    BY <1>2 DEF OnceInv, AllPending, TypeOK
  <2>3. \A t \in late' : Pending(t)'
    BY <1>2 DEF OnceInv, AllPending, TypeOK
  <2> QED
    BY <2>1, <2>2, <2>3 DEF AllPending
<1>4. AllApart'
  BY <1>1 DEF OnceInv, AllApart, Apart
<1> QED
  BY <1>2, <1>3, <1>4 DEF OnceInv

LEMMA WriterOnce ==
  ASSUME TypeOK, TypeOK', OnceInv, NEW w \in Writer, WriterNext(w) \/ WriterVanish(w)
  PROVE  OnceInv'
<1>1. Limit \in Nat /\ UNCHANGED <<spc, start>>
  BY SizeAssumption DEF WriterNext, WriterBegin, WriterGet, WriterWrite, WriterError,
     WriterTimeout, WriterAnswer, WriterFail, WriterCutOff, WriterReport, WriterExit,
     WriterVanish, sourceVars
<1>2. Bound' = Bound
  BY <1>1 DEF Bound
<1>3. CASE \/ WriterBegin(w) \/ WriterAnswer(w) \/ WriterFail(w) \/ WriterCutOff(w)
           \/ WriterReport(w) \/ WriterExit(w) \/ WriterVanish(w)
  <2>1. UNCHANGED <<dataQ, page, late, written>>
    BY <1>3 DEF WriterBegin, WriterAnswer, WriterFail, WriterCutOff, WriterReport,
       WriterExit, WriterVanish, queueVars
  <2>2. \A v \in Writer : wpc'[v] = "page" => wpc[v] = "page"
    BY <1>3 DEF WriterBegin, WriterAnswer, WriterFail, WriterCutOff, WriterReport,
       WriterExit, WriterVanish, TypeOK
  <2> QED
    BY <1>2, <2>1, <2>2, OnceStep
<1>4. CASE WriterGet(w)
  BY <1>4, GetOnce
<1>5. CASE WriterWrite(w) \/ WriterError(w) \/ WriterTimeout(w)
  <2>1. /\ AtWork(w) /\ page[w] \in Nat /\ Pending(page[w])
        /\ UNCHANGED <<dataQ, page>>
    BY <1>5 DEF WriterWrite, WriterError, WriterTimeout, AtWork, TypeOK, OnceInv,
       AllPending, queueVars
  <2>2. \A v \in Writer : AtWork(v)' => AtWork(v) /\ v # w
    BY <1>5 DEF WriterWrite, WriterError, WriterTimeout, AtWork, TypeOK
  <2>3. CASE Land(PageRows(page[w])) /\ late' = late
    <3>1. \A v \in Writer : AtWork(v)' => AtWork(v) /\ Apart(page[w], page[v])
      BY <2>1, <2>2 DEF OnceInv, AllApart
    <3>2. \A i \in Nat : Queued(i) => Apart(page[w], dataQ[i].start)
      BY <2>1 DEF OnceInv, AllApart, Apart
    <3>3. \A t \in late' : Apart(page[w], t)
      BY <2>1, <2>3 DEF OnceInv, AllApart
    <3> QED
      BY <1>1, <2>1, <2>3, <3>1, <3>2, <3>3, LandedOnce
  <2>4. CASE written' = written /\ late' = late
    BY <1>2, <2>1, <2>2, <2>4, OnceStep DEF AtWork
  <2>5. CASE WriterTimeout(w)
    <3>1. late' = late \cup {page[w]} /\ written' = written
      BY <2>5 DEF WriterTimeout
    <3>2. \A i : Queued(i)' <=> Queued(i)
      BY <2>1 DEF Queued
    <3>3. AllPending'
      BY <1>2, <2>1, <2>2, <3>1, <3>2 DEF OnceInv, AllPending, Pending, Unwritten
    <3>4. AllApart'
      BY <2>1, <2>2, <3>1, <3>2 DEF OnceInv, AllApart, Apart
    <3>5. NothingAhead' /\ AtMostOnce'
      BY <1>2, <3>1 DEF OnceInv, NothingAhead, AtMostOnce
    <3> QED
      BY <3>3, <3>4, <3>5 DEF OnceInv
  <2> QED
    BY <1>5, <2>3, <2>4, <2>5 DEF WriterWrite, WriterError
<1> QED
  BY <1>3, <1>4, <1>5 DEF WriterNext

LEMMA LateOnce ==
  ASSUME TypeOK, TypeOK', OnceInv, NEW s \in late, LateWrite(s)
  PROVE  OnceInv'
<1>1. /\ s \in Nat /\ Pending(s) /\ Land(PageRows(s)) /\ late' = late \ {s}
      /\ UNCHANGED <<spc, start, dataQ, page, wpc>>
  BY DEF LateWrite, TypeOK, OnceInv, AllPending, sourceVars, queueVars
<1>2. \A w \in Writer : AtWork(w)' => AtWork(w) /\ Apart(s, page[w])
  BY <1>1 DEF AtWork, OnceInv, AllApart, Apart
<1>3. \A i \in Nat : Queued(i) => Apart(s, dataQ[i].start)
  BY DEF OnceInv, AllApart, Apart
<1>4. \A t \in late' : Apart(s, t)
  BY <1>1 DEF OnceInv, AllApart
<1> QED
  BY <1>1, <1>2, <1>3, <1>4, LandedOnce

LEMMA CallerOnce ==
  ASSUME TypeInv, TypeOK', OnceInv, CallerNext
  PROVE  OnceInv'
<1>1. /\ TypeOK /\ Limit \in Nat /\ UNCHANGED <<dataQ, page, late, written, start>>
      /\ spc' = spc \/ StartSource
  BY SizeAssumption DEF TypeInv, CallerNext, StartSource, StartWriter, Collect, CollectError,
     CheckThread, SumReport, Shutdown, queueVars, sourceVars, writerVars
<1>2. Bound' = Bound
  <2>1. CASE spc' = spc
    BY <1>1, <2>1 DEF Bound
  <2>2. CASE StartSource
    <3>1. spc = "new" /\ spc' = "count" /\ start' = start
      BY <1>1, <2>2 DEF StartSource, TypeInv, WindowInv
    <3> QED
      BY <3>1 DEF Bound
  <2> QED
    BY <1>1, <2>1, <2>2
<1>3. \A v \in Writer : wpc'[v] = "page" => wpc[v] = "page"
  BY DEF TypeInv, TypeOK, CallerNext, StartSource, StartWriter, Collect, CollectError,
     CheckThread, SumReport, Shutdown, writerVars
<1> QED
  BY <1>1, <1>2, <1>3, OnceStep

LEMMA NextOnce ==
  ASSUME TypeInv, OnceInv, [Next]_vars
  PROVE  OnceInv'
<1>1. TypeInv' /\ TypeOK /\ TypeOK'
  BY NextType DEF TypeInv
<1>2. CASE UNCHANGED vars
  BY <1>1, <1>2, OnceStep DEF vars, queueVars, sourceVars, writerVars, Bound
<1>3. CASE CallerNext
  BY <1>1, <1>3, CallerOnce
<1>4. CASE SourceNext \/ SourceVanish
  BY <1>1, <1>4, SourceOnce
<1>5. CASE \E w \in Writer : WriterNext(w) \/ WriterVanish(w)
  BY <1>1, <1>5, WriterOnce
<1>6. CASE \E s \in late : LateWrite(s)
  BY <1>1, <1>6, LateOnce
<1> QED
  BY <1>2, <1>3, <1>4, <1>5, <1>6 DEF Next

(* No row of the source is written twice, whatever the writers, page size, *)
(* row counts and faults: TargetWriteOperation never queues a page again,  *)
(* and SourceReadOperation cuts pages that do not overlap.                 *)
THEOREM RowsAtMostOnce == Spec => []AtMostOnce
<1>1. Init => TypeInv /\ OnceInv
  BY InitType, InitOnce
<1>2. (TypeInv /\ OnceInv) /\ [Next]_vars => (TypeInv /\ OnceInv)'
  BY NextType, NextOnce
<1>3. TypeInv /\ OnceInv => AtMostOnce
  BY DEF OnceInv
<1> QED
  BY <1>1, <1>2, <1>3, PTL DEF Spec

-----------------------------------------------------------------------------
(* The window of outstanding pages is counted right.                       *)
(*                                                                         *)
(* While the source thread cuts pages only pages are on data_queue.  Each  *)
(* of them moves from the queue to a writer and from there to an answer,   *)
(* so the sum of the three is what the source thread has counted.  Before  *)
(* that a writer is started once.                                          *)

Busy == {w \in Writer : wpc[w] \in {"page", "wrote", "fail"}}

StartInv ==
  /\ mpc \in {"source", "collect"} => idx = 1
  /\ mpc \in {"source", "writers"} => \A w \in Writer : idx <= w <=> wpc[w] = "new"
  /\ mpc \notin {"source", "writers"} => \A w \in Writer : wpc[w] # "new"

Cutting == spc \in {"new", "count", "put", "await"}

SumInv ==
  Cutting =>
    /\ \A i \in 1 .. Len(dataQ) : dataQ[i].kind = "page"
    /\ queuesUp => transmitted = Len(dataQ) + Cardinality(Busy) + Len(ackQ)

FlowInv == StartInv /\ SumInv

(* What one writer's move does to the number of writers that owe an        *)
(* answer.                                                                 *)
LEMMA BusyMoves ==
  ASSUME TypeOK, NEW w \in Writer, NEW s, wpc' = [wpc EXCEPT ![w] = s]
  PROVE  /\ Cardinality(Busy) \in Nat /\ Cardinality(Busy)' \in Nat
         /\ (w \in Busy <=> s \in {"page", "wrote", "fail"}) =>
              Cardinality(Busy)' = Cardinality(Busy)
         /\ w \notin Busy /\ s \in {"page", "wrote", "fail"} =>
              Cardinality(Busy)' = Cardinality(Busy) + 1
         /\ w \in Busy /\ s \notin {"page", "wrote", "fail"} =>
              Cardinality(Busy) = Cardinality(Busy)' + 1
<1>1. wpc'[w] = s /\ \A v \in Writer : v # w => wpc'[v] = wpc[v]
  BY DEF TypeOK
<1>2. IsFiniteSet(Writer)
  BY SizeAssumption, FS_Interval DEF Writer
<1>3. Busy \subseteq Writer /\ Busy' \subseteq Writer
  BY DEF Busy
<1>4. /\ IsFiniteSet(Busy) /\ IsFiniteSet(Busy')
      /\ Cardinality(Busy) \in Nat /\ Cardinality(Busy') \in Nat
  BY <1>2, <1>3, FS_Subset, FS_CardinalityType
<1>5. w \in Busy' <=> s \in {"page", "wrote", "fail"}
  BY <1>1 DEF Busy
<1>6. (w \in Busy <=> w \in Busy') => Busy' = Busy
  BY <1>1 DEF Busy
<1>7. w \notin Busy /\ w \in Busy' => Busy' = Busy \cup {w}
  BY <1>1 DEF Busy
<1>8. w \in Busy /\ w \notin Busy' => Busy = Busy' \cup {w}
  BY <1>1 DEF Busy
<1>9. w \notin Busy => Cardinality(Busy \cup {w}) = Cardinality(Busy) + 1
  BY <1>4, FS_AddElement
<1>10. w \notin Busy' => Cardinality(Busy' \cup {w}) = Cardinality(Busy') + 1
  BY <1>4, FS_AddElement
<1> HIDE DEF Busy
<1> QED
  BY <1>4, <1>5, <1>6, <1>7, <1>8, <1>9, <1>10

(* The property counts the pages on the queue, here all of its tasks.      *)
LEMMA OutPagesSum ==
  ASSUME TypeOK, \A i \in 1 .. Len(dataQ) : dataQ[i].kind = "page"
  PROVE  OutPages = Len(dataQ) + Cardinality(Busy) + Len(ackQ)
<1>1. {i \in 1 .. Len(dataQ) : dataQ[i].kind = "page"} = 1 .. Len(dataQ)
  OBVIOUS
<1>2. Len(dataQ) \in Nat
  BY LenProperties DEF TypeOK
<1>3. Cardinality(1 .. Len(dataQ)) = Len(dataQ)
  <2>1. Cardinality(1 .. Len(dataQ)) = IF 1 > Len(dataQ) THEN 0 ELSE Len(dataQ) - 1 + 1
    BY <1>2, FS_Interval
  <2> QED
    BY <1>2, <2>1
<1> QED
  BY <1>1, <1>3 DEF OutPages, Busy

LEMMA InitFlow == Init => FlowInv
<1> SUFFICES ASSUME Init PROVE FlowInv
  OBVIOUS
<1>1. StartInv
  BY SizeAssumption DEF Init, StartInv, Writer
<1>2. Busy = {}
  BY DEF Init, Busy
<1>3. Cardinality(Busy) = 0
  BY <1>2, FS_EmptySet
<1>4. Len(dataQ) = 0 /\ Len(ackQ) = 0 /\ transmitted = 0
  BY DEF Init
<1> HIDE DEF Busy
<1>5. SumInv
  BY <1>3, <1>4 DEF SumInv
<1> QED
  BY <1>1, <1>5 DEF FlowInv

(* Steps that touch neither a queue nor a writer that owes an answer.      *)
LEMMA SumKept ==
  ASSUME SumInv, UNCHANGED <<dataQ, ackQ, transmitted>>, queuesUp' => queuesUp,
         Cutting' => Cutting, Cutting' /\ queuesUp' => Cardinality(Busy)' = Cardinality(Busy)
  PROVE  SumInv'
  BY DEF SumInv

LEMMA SourceFlow ==
  ASSUME TypeOK, FlowInv, SourceNext \/ SourceVanish
  PROVE  FlowInv'
<1>1. UNCHANGED <<mpc, idx, wpc, queuesUp>>
  BY DEF SourceNext, SourceCount, SourcePut, SourceStop, SourceAwait, SourceEnd, SourceCutOff,
     SourceVanish, queueVars, writerVars, callerVars
<1>2. StartInv' /\ Busy' = Busy
  BY <1>1 DEF FlowInv, StartInv, Busy
<1>3. SumInv /\ Cardinality(Busy) \in Nat
  <2>1. IsFiniteSet(Writer) /\ Busy \subseteq Writer
    BY SizeAssumption, FS_Interval DEF Writer, Busy
  <2> QED
    BY <2>1, FS_Subset, FS_CardinalityType DEF FlowInv
<1>4. /\ dataQ \in Seq(DataTask) /\ ackQ \in Seq(BOOLEAN) /\ transmitted \in Nat
      /\ Len(dataQ) \in Nat /\ Len(ackQ) \in Nat
  BY SizeAssumption, LenProperties DEF TypeOK
<1> HIDE DEF Busy
<1>5. CASE SourceCount \/ SourceStop \/ SourceCutOff \/ SourceVanish
  <2>1. UNCHANGED <<dataQ, ackQ, transmitted>>
    BY <1>5 DEF SourceCount, SourceStop, SourceCutOff, SourceVanish, queueVars
  <2>2. Cutting' => Cutting
    BY <1>5 DEF SourceCount, SourceStop, SourceCutOff, SourceVanish, Cutting
  <2>3. SumInv'
    <3>1. (queuesUp' => queuesUp) /\ Cardinality(Busy)' = Cardinality(Busy)
      BY <1>1, <1>2
    <3> QED
      BY <1>3, <2>1, <2>2, <3>1, SumKept
  <2> QED
    BY <1>2, <2>3 DEF FlowInv
<1>6. CASE SourcePut
  <2>1. /\ Cutting /\ queuesUp /\ dataQ' = Append(dataQ, PageTask(start))
        /\ transmitted' = transmitted + 1 /\ ackQ' = ackQ
    BY <1>6 DEF SourcePut, Cutting
  <2>2. PageTask(start) \in DataTask /\ PageTask(start).kind = "page"
    BY DEF PageTask, DataTask, TypeOK
  <2>3. Len(dataQ') = Len(dataQ) + 1
    BY <1>4, <2>1, <2>2, AppendProperties
  <2>4. ASSUME NEW i \in 1 .. Len(dataQ') PROVE dataQ'[i].kind = "page"
    BY <1>3, <1>4, <2>1, <2>2, <2>4, AppendPlaces DEF SumInv
  <2>5. SumInv'
    BY <1>1, <1>2, <1>3, <1>4, <2>1, <2>3, <2>4 DEF SumInv
  <2> QED
    BY <1>2, <2>5 DEF FlowInv
<1>7. CASE SourceAwait
  <2>1. Cutting /\ queuesUp /\ ackQ # <<>> /\ ackQ' = Tail(ackQ) /\ dataQ' = dataQ
    BY <1>7 DEF SourceAwait, Cutting
  <2>2. Len(ackQ) = Len(ackQ') + 1
    BY <1>4, <2>1, HeadTailProperties, LenProperties
  <2>3. Cutting' => transmitted' = transmitted - 1
    BY <1>7 DEF SourceAwait, Cutting
  <2>4. Len(ackQ') \in Nat
    BY <1>4, <2>1, HeadTailProperties, LenProperties
  <2> QED
    BY <1>2, <1>3, <1>4, <2>1, <2>2, <2>3, <2>4 DEF FlowInv, SumInv
<1>8. CASE SourceEnd
  <2>1. ~Cutting'
    BY <1>8 DEF SourceEnd, Cutting
  <2> QED
    BY <1>2, <2>1 DEF FlowInv, SumInv
<1> QED
  BY <1>5, <1>6, <1>7, <1>8 DEF SourceNext

LEMMA WriterFlow ==
  ASSUME TypeOK, FlowInv, NEW w \in Writer, WriterNext(w) \/ WriterVanish(w)
  PROVE  FlowInv'
<1>1. UNCHANGED <<mpc, idx, spc, transmitted, queuesUp>>
  BY DEF WriterNext, WriterBegin, WriterGet, WriterWrite, WriterError, WriterTimeout,
     WriterAnswer, WriterFail, WriterCutOff, WriterReport, WriterExit, WriterVanish,
     sourceVars, callerVars, queueVars
<1>2. wpc[w] # "new" /\ \E s \in WriterState \ {"new"} : wpc' = [wpc EXCEPT ![w] = s]
  BY DEF WriterNext, WriterBegin, WriterGet, WriterWrite, WriterError, WriterTimeout,
     WriterAnswer, WriterFail, WriterCutOff, WriterReport, WriterExit, WriterVanish,
     WriterState
<1>3. PICK s \in WriterState \ {"new"} : wpc' = [wpc EXCEPT ![w] = s]
  BY <1>2
<1>4. wpc'[w] = s /\ \A v \in Writer : v # w => wpc'[v] = wpc[v]
  BY <1>3 DEF TypeOK
<1>5. StartInv'
  BY <1>1, <1>2, <1>4 DEF FlowInv, StartInv
<1>6. /\ dataQ \in Seq(DataTask) /\ ackQ \in Seq(BOOLEAN)
      /\ Len(dataQ) \in Nat /\ Len(ackQ) \in Nat /\ SumInv
  BY LenProperties DEF TypeOK, FlowInv
<1>7. Cutting' = Cutting
  BY <1>1 DEF Cutting
<1>8. /\ Cardinality(Busy) \in Nat /\ Cardinality(Busy)' \in Nat
      /\ (w \in Busy <=> s \in {"page", "wrote", "fail"}) =>
           Cardinality(Busy)' = Cardinality(Busy)
      /\ w \notin Busy /\ s \in {"page", "wrote", "fail"} =>
           Cardinality(Busy)' = Cardinality(Busy) + 1
      /\ w \in Busy /\ s \notin {"page", "wrote", "fail"} =>
           Cardinality(Busy) = Cardinality(Busy)' + 1
  BY <1>3, BusyMoves
<1>9. w \in Busy <=> wpc[w] \in {"page", "wrote", "fail"}
  BY DEF Busy
<1>10. CASE WriterGet(w)
  <2>1. /\ dataQ # <<>> /\ dataQ' = Tail(dataQ) /\ ackQ' = ackQ /\ wpc[w] = "get"
    BY <1>10 DEF WriterGet
  <2>2. Len(dataQ) = Len(dataQ') + 1 /\ Len(dataQ') \in Nat
    BY <1>6, <2>1, HeadTailProperties, LenProperties
  <2>3. ASSUME Cutting PROVE s = "page"
    <3>1. Head(dataQ) = dataQ[1] /\ 1 \in 1 .. Len(dataQ)
      BY <1>6, <2>1, <2>2
    <3>2. Head(dataQ).kind = "page"
      BY <1>6, <2>3, <3>1 DEF SumInv
    <3> QED
      BY <1>4, <1>10, <3>2 DEF WriterGet, TypeOK
  <2>4. ASSUME Cutting, NEW i \in 1 .. Len(dataQ') PROVE dataQ'[i].kind = "page"
    <3>1. i + 1 \in 1 .. Len(dataQ) /\ dataQ'[i] = dataQ[i + 1]
      BY <1>6, <2>1, <2>2, TailPlaces
    <3> QED
      BY <1>6, <2>4, <3>1 DEF SumInv
  <2> HIDE DEF Busy
  <2>5. Cutting => Cardinality(Busy)' = Cardinality(Busy) + 1
    BY <1>8, <1>9, <2>1, <2>3
  <2>6. SumInv'
    BY <1>1, <1>6, <1>7, <1>8, <2>1, <2>2, <2>4, <2>5 DEF SumInv
  <2> QED
    BY <1>5, <2>6 DEF FlowInv
<1>11. CASE WriterAnswer(w) \/ WriterFail(w)
  <2>1. /\ dataQ' = dataQ /\ wpc[w] \in {"wrote", "fail"} /\ s \notin {"page", "wrote", "fail"}
        /\ Len(ackQ') = Len(ackQ) + 1
    <3>1. \E b \in BOOLEAN : ackQ' = Append(ackQ, b)
      <4>1. (RowCount(page[w]) > 0) \in BOOLEAN /\ FALSE \in BOOLEAN
        OBVIOUS
      <4> QED
        BY <1>11, <4>1, Zenon DEF WriterAnswer, WriterFail
    <3>2. Len(ackQ') = Len(ackQ) + 1
      BY <1>6, <3>1, AppendProperties
    <3> QED
      BY <1>4, <1>11, <3>2 DEF WriterAnswer, WriterFail, TypeOK
  <2> HIDE DEF Busy
  <2>2. Cardinality(Busy) = Cardinality(Busy)' + 1
    BY <1>8, <1>9, <2>1
  <2>3. SumInv'
    <3> DEFINE busy == Cardinality(Busy)
    <3>1. busy \in Nat /\ busy' \in Nat /\ busy = busy' + 1
      BY <1>8, <2>2
    <3>2. Cutting /\ queuesUp => transmitted = Len(dataQ) + busy + Len(ackQ)
      BY <1>6 DEF SumInv
    <3> HIDE DEF busy
    <3>3. Cutting /\ queuesUp => transmitted = Len(dataQ) + busy' + Len(ackQ')
      BY <1>6, <2>1, <3>1, <3>2
    <3>4. Cutting => \A i \in 1 .. Len(dataQ) : dataQ[i].kind = "page"
      BY <1>6 DEF SumInv
    <3> USE DEF busy
    <3> QED
      BY <1>1, <1>7, <2>1, <3>3, <3>4 DEF SumInv
  <2> QED
    BY <1>5, <2>3 DEF FlowInv
<1>12. CASE WriterCutOff(w)
  <2>1. ~queuesUp /\ UNCHANGED <<dataQ, ackQ>>
    BY <1>12 DEF WriterCutOff, queueVars
  <2> QED
    BY <1>1, <1>5, <1>6, <1>7, <2>1 DEF FlowInv, SumInv
<1>13. CASE \/ WriterBegin(w) \/ WriterWrite(w) \/ WriterError(w) \/ WriterTimeout(w)
            \/ WriterReport(w) \/ WriterExit(w) \/ WriterVanish(w)
  <2>1. /\ UNCHANGED <<dataQ, ackQ>>
        /\ wpc[w] \in {"page", "wrote", "fail"} <=> s \in {"page", "wrote", "fail"}
    BY <1>4, <1>13 DEF WriterBegin, WriterWrite, WriterError, WriterTimeout, WriterReport,
       WriterExit, WriterVanish, queueVars, TypeOK
  <2> HIDE DEF Busy
  <2>2. Cardinality(Busy)' = Cardinality(Busy)
    BY <1>8, <1>9, <2>1
  <2> QED
    BY <1>1, <1>5, <1>6, <1>7, <2>1, <2>2, SumKept DEF FlowInv
<1> QED
  BY <1>10, <1>11, <1>12, <1>13 DEF WriterNext

LEMMA CallerFlow ==
  ASSUME TypeInv, FlowInv, CallerNext
  PROVE  FlowInv'
<1>1. TypeOK /\ SumInv /\ StartInv
  BY DEF TypeInv, FlowInv
<1>2. UNCHANGED <<dataQ, ackQ, transmitted>> /\ (queuesUp' => queuesUp)
  BY DEF CallerNext, StartSource, StartWriter, Collect, CollectError, CheckThread, SumReport,
     Shutdown, queueVars, sourceVars
<1>3. Cutting' => Cutting
  BY DEF CallerNext, StartSource, StartWriter, Collect, CollectError, CheckThread, SumReport,
     Shutdown, sourceVars, Cutting, TypeInv, WindowInv
<1>4. CASE StartWriter
  <2>1. idx \in Writer /\ wpc[idx] = "new" /\ wpc' = [wpc EXCEPT ![idx] = "begin"]
    BY <1>1, <1>4 DEF StartWriter, StartInv, TypeOK, Writer
  <2>2. idx \notin Busy
    BY <2>1 DEF Busy
  <2>3. Cardinality(Busy)' = Cardinality(Busy)
    <3>1. (idx \in Busy <=> "begin" \in {"page", "wrote", "fail"}) =>
            Cardinality(Busy)' = Cardinality(Busy)
      BY <1>1, <2>1, BusyMoves
    <3> QED
      BY <2>2, <3>1
  <2>4. StartInv'
    <3>1. /\ \A w \in Writer : w \in Nat /\ w <= ProcessCount
          /\ idx \in Nat /\ ProcessCount \in Nat
          /\ mpc = "writers" /\ (\A w \in Writer : idx <= w <=> wpc[w] = "new")
      BY <1>1, <1>4, <2>1, SizeAssumption DEF StartWriter, StartInv, Writer
    <3>2. /\ wpc'[idx] = "begin"
          /\ \A w \in Writer : w # idx => wpc'[w] = wpc[w]
      BY <1>1, <2>1 DEF TypeOK
    <3>3. CASE idx < ProcessCount
      <4>1. idx' = idx + 1 /\ mpc' = "writers"
        BY <1>4, <3>1, <3>3 DEF StartWriter
      <4>2. \A w \in Writer : idx' <= w <=> wpc'[w] = "new"
        BY <3>1, <3>2, <4>1
      <4> QED
        BY <4>1, <4>2 DEF StartInv
    <3>4. CASE ~(idx < ProcessCount)
      <4>1. idx' = 1 /\ mpc' = "collect"
        BY <1>4, <3>1, <3>4 DEF StartWriter
      <4>2. \A w \in Writer : w <= idx
        BY <3>1, <3>4
      <4>3. \A w \in Writer : wpc'[w] # "new"
        BY <3>1, <3>2, <4>2
      <4> QED
        BY <4>1, <4>3 DEF StartInv
    <3> QED
      BY <3>3, <3>4
  <2> QED
    BY <1>1, <1>2, <1>3, <2>3, <2>4, SumKept DEF FlowInv
<1>5. CASE CallerNext /\ ~StartWriter
  <2>1. wpc' = wpc
    BY <1>5 DEF CallerNext, StartSource, Collect, CollectError, CheckThread, SumReport,
       Shutdown, writerVars
  <2>2. Busy' = Busy
    BY <2>1 DEF Busy
  <2>3. StartInv'
    BY <1>1, <1>5, <2>1 DEF StartInv, CallerNext, StartSource, Collect, CollectError,
       CheckThread, SumReport, Shutdown
  <2> QED
    BY <1>1, <1>2, <1>3, <2>2, <2>3, SumKept DEF FlowInv
<1> QED
  BY <1>4, <1>5

LEMMA NextFlow == TypeInv /\ FlowInv /\ [Next]_vars => FlowInv'
<1> SUFFICES ASSUME TypeInv, FlowInv, [Next]_vars PROVE FlowInv'
  OBVIOUS
<1>1. TypeOK
  BY DEF TypeInv
<1>2. ASSUME UNCHANGED <<queueVars, sourceVars, wpc, callerVars>> PROVE FlowInv'
  BY <1>2 DEF FlowInv, StartInv, SumInv, Cutting, Busy, queueVars, sourceVars, callerVars
<1>3. UNCHANGED vars => UNCHANGED <<queueVars, sourceVars, wpc, callerVars>>
  BY DEF vars, writerVars
<1>4. (\E s \in late : LateWrite(s)) => UNCHANGED <<queueVars, sourceVars, wpc, callerVars>>
  BY DEF LateWrite
<1> QED
  BY <1>1, <1>2, <1>3, <1>4, SourceFlow, WriterFlow, CallerFlow DEF Next

(* While SourceReadOperation cuts pages, each page it counts as            *)
(* transmitted is on data_queue, with a writer or answered, whatever fails *)
(* or times out: the answer it waits for is always owed by somebody.       *)
THEOREM WindowIsAccounted == Spec => []FlowControl
<1>1. TypeInv /\ FlowInv => FlowControl
  <2> SUFFICES ASSUME TypeInv, FlowInv, spc \in {"put", "await"}, queuesUp
               PROVE  transmitted = OutPages /\ (spc = "await" => transmitted = ProcessCount)
    BY DEF FlowControl
  <2>1. /\ \A i \in 1 .. Len(dataQ) : dataQ[i].kind = "page"
        /\ transmitted = Len(dataQ) + Cardinality(Busy) + Len(ackQ)
    BY DEF FlowInv, SumInv, Cutting
  <2> QED
    BY <2>1, OutPagesSum DEF TypeInv, WindowInv
<1> QED
  BY <1>1, InitType, NextType, InitFlow, NextFlow, PTL DEF Spec

-----------------------------------------------------------------------------
(* A return is complete, and the load is one BulkLoad allows.              *)
(*                                                                         *)
(* Reports: a report is put by a writer that is over, and carries its row  *)
(* count.  The caller marks only writers that are over, until it has seen  *)
(* an error; and it returns only when no report it read was an error.      *)

Over(w) == wpc[w] \in {"exiting", "dead"}

Real(rep) == Over(rep.id) /\ (rep.state = Finished => rep.rows = total[rep.id])

ReportInv ==
  /\ \A i \in 1 .. Len(resultQ) : Real(resultQ[i])
  /\ \A w \in Writer : record[w] # NoReport => record[w].id = w /\ Real(record[w])

Collecting == mpc \in {"source", "writers", "collect", "check"}

MarkInv ==
  /\ Collecting => \A w \in Writer : (w \in marked => Over(w)) /\ record[w].state # Errored
  /\ mpc = "sum" =>
       /\ (\A w \in Writer : Over(w)) \/ (\E w \in Writer : record[w].state = Errored)
       /\ \A w \in Writer : w < idx => record[w].state # Errored
  /\ verdict = "none" <=> mpc \notin {"shutdown", "done"}
  /\ verdict = "returned" => \A w \in Writer : Over(w) /\ record[w].state # Errored

CallInv == ReportInv /\ MarkInv

(* A writer is clean until it fails; then it is over and its report, if it *)
(* puts one, says so.                                                      *)
Succeeded(w) ==
  \/ record[w].state = Finished
  \/ \E i \in 1 .. Len(resultQ) : resultQ[i].id = w /\ resultQ[i].state = Finished

Clean(w) == wpc[w] \in {"new", "begin", "get", "page", "wrote", "return"} \/ Succeeded(w)

AllClean == \A w \in Writer : Clean(w)

(* A writer has taken an ending that the source thread puts after the last *)
(* page.                                                                   *)
Taken == \E w \in Writer : wpc[w] = "return" \/ Succeeded(w)

(* Pages are cut below the counted rows, and no page follows an ending.    *)
PlaceInv ==
  /\ spc \in {"put", "await"} => DataCount > 0
  /\ \A i \in 1 .. Len(dataQ) : dataQ[i].kind = "page" => dataQ[i].start < DataCount
  /\ \A w \in Writer : wpc[w] \in {"page", "wrote"} => page[w] < DataCount
  /\ \A i, j \in 1 .. Len(dataQ) : i < j /\ dataQ[i].kind = "finish" => dataQ[j].kind # "page"

(* As long as all writers are clean and the source held what it counted,   *)
(* every row below the source thread's place is written or on its way, no  *)
(* answer is false, and endings come only after the last page.             *)
Cut == IF spc = "await" THEN start + Limit ELSE start

Within(r, s) == s <= r /\ r < s + Limit

Covered(r) ==
  \/ written[r] > 0
  \/ \E i \in 1 .. Len(dataQ) : dataQ[i].kind = "page" /\ Within(r, dataQ[i].start)
  \/ \E w \in Writer : wpc[w] = "page" /\ Within(r, page[w])

Ending == spc = "finish" \/ Taken \/ \E i \in 1 .. Len(dataQ) : dataQ[i].kind = "finish"

CoverInv ==
  AllClean /\ held = DataCount =>
    /\ \A r \in Row : r < Cut => Covered(r)
    /\ \A i \in 1 .. Len(ackQ) : ackQ[i]
    /\ Ending => ~Cutting /\ DataCount <= start
    /\ Taken => \A i \in 1 .. Len(dataQ) : dataQ[i].kind # "page"

(* Every row a writer has counted is its own and written; another row that *)
(* is written was left by a writer that failed.  The caller's sum counts   *)
(* the rows of the writers it has come past.                               *)
Passed == IF mpc = "sum" THEN idx ELSE IF verdict = "returned" THEN ProcessCount + 1 ELSE 1

Own(o, w) == {r \in Row : o[r] = w}

Counted(o) == {r \in Row : o[r] # 0 /\ o[r] < Passed /\ record[o[r]].state = Finished}

Counts(o) ==
  /\ \A w \in Writer : total[w] = Cardinality(Own(o, w))
  /\ \A r \in Row : o[r] # 0 => written[r] = 1
  /\ \A r \in Row : o[r] = 0 /\ written[r] > 0 => ~AllClean
  /\ verdict # "raised" => reported = Cardinality(Counted(o))

CountInv == \E o \in [Row -> Writer \cup {0}] : Counts(o)

LateInv == late # {} => ~AllClean

BulkInv == CallInv /\ PlaceInv /\ CoverInv /\ CountInv /\ LateInv

(* What the steps of each thread leave alone.                              *)
LEMMA SourceEffect ==
  ASSUME SourceNext \/ SourceVanish
  PROVE  UNCHANGED <<held, queuesUp, writerVars, brokerVars, callerVars>>
  BY DEF SourceNext, SourceCount, SourcePut, SourceStop, SourceAwait, SourceEnd, SourceCutOff,
     SourceVanish, queueVars, envVars

LEMMA WriterEffect ==
  ASSUME TypeOK, NEW w \in Writer, WriterNext(w) \/ WriterVanish(w)
  PROVE  /\ UNCHANGED <<held, queuesUp, sourceVars, marked, record, callerVars>>
         /\ \A v \in Writer : v # w => wpc'[v] = wpc[v] /\ page'[v] = page[v] /\ total'[v] = total[v]
         /\ wpc[w] \notin {"new", "dead"}
         /\ ~WriterGet(w) => UNCHANGED <<dataQ, page>>
         /\ ~WriterAnswer(w) /\ ~WriterFail(w) => UNCHANGED ackQ
         /\ ~WriterWrite(w) => UNCHANGED total
         /\ ~WriterWrite(w) /\ ~WriterError(w) => UNCHANGED written
         /\ ~WriterTimeout(w) => UNCHANGED late
         /\ ~WriterReport(w) => UNCHANGED resultQ
<1> USE DEF WriterBegin, WriterGet, WriterWrite, WriterError, WriterTimeout, WriterAnswer,
     WriterFail, WriterCutOff, WriterReport, WriterExit, WriterVanish, envVars, queueVars,
     writerVars, brokerVars
<1>1. UNCHANGED <<held, queuesUp, sourceVars, marked, record, callerVars>>
  BY DEF WriterNext
<1>2. wpc[w] \notin {"new", "dead"}
  BY DEF WriterNext
<1>3. \A v \in Writer : v # w => wpc'[v] = wpc[v] /\ page'[v] = page[v] /\ total'[v] = total[v]
  BY DEF WriterNext, TypeOK
<1>4. ~WriterGet(w) => UNCHANGED <<dataQ, page>>
  BY DEF WriterNext
<1>5. ~WriterAnswer(w) /\ ~WriterFail(w) => UNCHANGED ackQ
  BY DEF WriterNext
<1>6. ~WriterWrite(w) => UNCHANGED total
  BY DEF WriterNext
<1>7. ~WriterWrite(w) /\ ~WriterError(w) => UNCHANGED written
  BY DEF WriterNext
<1>8. ~WriterTimeout(w) => UNCHANGED late
  BY DEF WriterNext
<1>9. ~WriterReport(w) => UNCHANGED resultQ
  BY DEF WriterNext
<1> QED
  BY <1>1, <1>2, <1>3, <1>4, <1>5, <1>6, <1>7, <1>8, <1>9

(* Where a writer's step takes it.                                         *)
LEMMA WriterMoves ==
  ASSUME TypeOK, NEW w \in Writer, WriterNext(w) \/ WriterVanish(w)
  PROVE  /\ Over(w) => Over(w)'
         /\ wpc'[w] \in {"begin", "get", "page", "wrote", "return"} =>
              wpc[w] \in {"begin", "get", "page", "wrote"}
         /\ wpc'[w] = "return" => WriterGet(w)
         /\ wpc'[w] = "page" => WriterGet(w)
         /\ wpc[w] = "page" /\ wpc'[w] \in {"begin", "get", "page", "wrote", "return"} => WriterWrite(w)
         /\ WriterReport(w) => wpc[w] \in {"return", "raise"} /\ wpc'[w] = "exiting"
         /\ Over(w) => WriterExit(w)
  BY DEF WriterNext, WriterBegin, WriterGet, WriterWrite, WriterError, WriterTimeout, WriterAnswer,
     WriterFail, WriterCutOff, WriterReport, WriterExit, WriterVanish, Over, TypeOK

LEMMA CallerEffect ==
  ASSUME TypeOK, CallerNext
  PROVE  /\ UNCHANGED <<envVars, dataQ, ackQ, start, transmitted, left, page, total, late, written>>
         /\ ~StartSource => UNCHANGED spc
         /\ ~StartWriter => UNCHANGED wpc
         /\ ~Collect /\ ~CollectError => UNCHANGED <<resultQ, record>>
         /\ ~SumReport => UNCHANGED <<verdict, reported>>
<1> USE DEF StartSource, StartWriter, Collect, CollectError, CheckThread, SumReport, Shutdown,
     envVars, queueVars, sourceVars, writerVars, brokerVars, callerVars
<1>1. UNCHANGED <<envVars, dataQ, ackQ, start, transmitted, left, page, total, late, written>>
  BY DEF CallerNext
<1>2. ~StartSource => UNCHANGED spc
  BY DEF CallerNext
<1>3. ~StartWriter => UNCHANGED wpc
  BY DEF CallerNext
<1>4. ~Collect /\ ~CollectError => UNCHANGED <<resultQ, record>>
  BY DEF CallerNext
<1>5. ~SumReport => UNCHANGED <<verdict, reported>>
  BY DEF CallerNext
<1> QED
  BY <1>1, <1>2, <1>3, <1>4, <1>5

(* The reports on the queue and in the records are reports.                *)
LEMMA ReportTypes ==
  ASSUME TypeOK
  PROVE  /\ \A i \in 1 .. Len(resultQ) : resultQ[i] \in Report
         /\ \A i \in 1 .. Len(resultQ) : resultQ[i].id \in Writer
         /\ \A w \in Writer : record[w] # NoReport => record[w] \in Report
         /\ \A w \in Writer : record[w].state \in {0, Finished, Errored}
         /\ \A w \in Writer : record[w].state = Finished => record[w] # NoReport
<1>1. \A i \in 1 .. Len(resultQ) : resultQ[i] \in Report
  BY ElementOfSeq DEF TypeOK
<1>2. \A w \in Writer : record[w] \in Report \cup {NoReport}
  BY DEF TypeOK
<1> QED
  BY <1>1, <1>2 DEF Report, NoReport, Finished, Errored

(* The one report a writer puts tells how it ended.                        *)
LEMMA ReportPut ==
  ASSUME TypeOK, NEW w \in Writer, WriterReport(w)
  PROVE  \E rep \in Report : /\ resultQ' = Append(resultQ, rep) /\ rep.id = w
                             /\ rep.state = Finished => rep.rows = total[w] /\ wpc[w] = "return"
<1>1. CASE wpc[w] = "return"
  <2> DEFINE rep == [id |-> w, state |-> Finished, rows |-> total[w]]
  <2>1. rep \in Report /\ rep.id = w /\ rep.rows = total[w]
    BY DEF Report, TypeOK
  <2>2. resultQ' = Append(resultQ, rep)
    BY <1>1 DEF WriterReport
  <2> HIDE DEF rep
  <2> QED
    BY <1>1, <2>1, <2>2
<1>2. CASE wpc[w] # "return"
  <2> DEFINE rep == [id |-> w, state |-> Errored, rows |-> 0]
  <2>1. rep \in Report /\ rep.id = w /\ rep.state # Finished
    BY DEF Report, Finished, Errored
  <2>2. resultQ' = Append(resultQ, rep)
    BY <1>2 DEF WriterReport
  <2> HIDE DEF rep
  <2> QED
    BY <2>1, <2>2
<1> QED
  BY <1>1, <1>2

-----------------------------------------------------------------------------
LEMMA RealKept ==
  ASSUME \A v \in Writer : Over(v) => Over(v)' /\ total'[v] = total[v],
         NEW rep, rep.id \in Writer, Real(rep)
  PROVE  Real(rep)'
  BY DEF Real

LEMMA ReportKept ==
  ASSUME TypeOK, ReportInv, \A v \in Writer : Over(v) => Over(v)' /\ total'[v] = total[v],
         UNCHANGED <<resultQ, record>>
  PROVE  ReportInv'
<1>1. ASSUME NEW i \in 1 .. Len(resultQ) PROVE Real(resultQ[i])'
  <2>1. Real(resultQ[i]) /\ resultQ[i].id \in Writer
    BY ReportTypes DEF ReportInv
  <2>2. \A rep : rep.id \in Writer /\ Real(rep) => Real(rep)'
    BY RealKept
  <2> QED
    BY <2>1, <2>2 DEF Real
<1>2. ASSUME NEW w \in Writer, record[w] # NoReport PROVE record[w].id = w /\ Real(record[w])'
  <2>1. Real(record[w]) /\ record[w].id = w
    BY <1>2 DEF ReportInv
  <2>2. \A rep : rep.id \in Writer /\ Real(rep) => Real(rep)'
    BY RealKept
  <2> QED
    BY <2>1, <2>2 DEF Real
<1> QED
  BY <1>1, <1>2 DEF ReportInv

LEMMA MarkKept ==
  ASSUME MarkInv, \A v \in Writer : Over(v) => Over(v)',
         UNCHANGED <<record, marked, mpc, idx, verdict>>
  PROVE  MarkInv'
<1>1. \A v \in Writer : record'[v] = record[v]
  OBVIOUS
<1> QED
  BY <1>1 DEF MarkInv, Collecting

LEMMA WriterCall ==
  ASSUME TypeOK, TypeOK', CallInv, NEW w \in Writer, WriterNext(w) \/ WriterVanish(w)
  PROVE  CallInv'
<1>1. ASSUME NEW v \in Writer, Over(v) PROVE Over(v)' /\ total'[v] = total[v]
  <2>1. CASE v # w
    BY <1>1, <2>1, WriterEffect DEF Over
  <2>2. CASE v = w
    BY <1>1, <2>2, WriterMoves, WriterEffect DEF WriterExit, WriterWrite, Over
  <2> QED
    BY <2>1, <2>2
<1>2. MarkInv'
  BY <1>1, WriterEffect, MarkKept DEF CallInv, callerVars
<1>3. CASE ~WriterReport(w)
  BY <1>1, <1>2, <1>3, WriterEffect, ReportKept DEF CallInv
<1>4. CASE WriterReport(w)
  <2>1. wpc'[w] = "exiting" /\ UNCHANGED <<total, record>>
    BY <1>4 DEF WriterReport, TypeOK
  <2>2. PICK rep \in Report :
          /\ resultQ' = Append(resultQ, rep) /\ rep.id = w
          /\ rep.state = Finished => rep.rows = total[w]
    BY <1>4, ReportPut
  <2>3. Over(w)'
    BY <2>1 DEF Over
  <2>4. Real(rep)'
    BY <2>1, <2>2, <2>3 DEF Real
  <2>5. ASSUME NEW i \in 1 .. Len(resultQ') PROVE Real(resultQ[i])'
    <3>1. resultQ \in Seq(Report)
      BY DEF TypeOK
    <3>2. \/ i \in 1 .. Len(resultQ) /\ resultQ'[i] = resultQ[i]
          \/ resultQ'[i] = rep
      BY <2>1, <2>2, <2>5, <3>1, AppendPlaces
    <3>3. CASE i \in 1 .. Len(resultQ) /\ resultQ'[i] = resultQ[i]
      <4>1. Real(resultQ[i]) /\ resultQ[i].id \in Writer
        BY <3>3, ReportTypes DEF CallInv, ReportInv
      <4>2. \A r : r.id \in Writer /\ Real(r) => Real(r)'
        BY <1>1, RealKept
      <4> QED
        BY <3>3, <4>1, <4>2 DEF Real
    <3>4. CASE resultQ'[i] = rep
      BY <2>4, <3>4 DEF Real
    <3> QED
      BY <3>2, <3>3, <3>4
  <2>6. ASSUME NEW v \in Writer, record'[v] # NoReport PROVE record'[v].id = v /\ Real(record[v])'
    <3>1. Real(record[v]) /\ record[v].id = v
      BY <2>1, <2>6 DEF CallInv, ReportInv
    <3>2. \A r : r.id \in Writer /\ Real(r) => Real(r)'
      BY <1>1, RealKept
    <3> QED
      BY <2>1, <3>1, <3>2 DEF Real
  <2> QED
    BY <1>2, <2>5, <2>6 DEF CallInv, ReportInv
<1> QED
  BY <1>3, <1>4

(* Taking a report moves it to its writer's record.                        *)
LEMMA TakeReport ==
  ASSUME TypeOK, CallInv, resultQ # <<>>, resultQ' = Tail(resultQ),
         record' = [record EXCEPT ![Head(resultQ).id] = Head(resultQ)], UNCHANGED <<wpc, total>>
  PROVE  /\ ReportInv'
         /\ Head(resultQ) = resultQ[1] /\ 1 \in 1 .. Len(resultQ)
         /\ Head(resultQ) \in Report /\ Over(Head(resultQ).id)
         /\ record'[Head(resultQ).id] = Head(resultQ)
         /\ \A v \in Writer : v # Head(resultQ).id => record'[v] = record[v]
         /\ \A i \in 1 .. Len(resultQ') : i + 1 \in 1 .. Len(resultQ) /\ resultQ'[i] = resultQ[i + 1]
<1>1. resultQ \in Seq(Report) /\ Len(resultQ) \in Nat
  BY LenProperties DEF TypeOK
<1>2. Head(resultQ) = resultQ[1] /\ 1 \in 1 .. Len(resultQ)
  BY <1>1
<1>3. Head(resultQ) \in Report /\ Real(Head(resultQ))
  BY <1>2, ReportTypes DEF CallInv, ReportInv
<1>4. /\ record'[Head(resultQ).id] = Head(resultQ)
      /\ \A v \in Writer : v # Head(resultQ).id => record'[v] = record[v]
  BY <1>3 DEF TypeOK, Report
<1>5. ASSUME NEW i \in 1 .. Len(resultQ') PROVE i + 1 \in 1 .. Len(resultQ) /\ resultQ'[i] = resultQ[i + 1]
  BY <1>1, <1>5, TailPlaces
<1>6. \A rep : Real(rep)' <=> Real(rep)
  BY DEF Real, Over
<1>7. ASSUME NEW i \in 1 .. Len(resultQ') PROVE Real(resultQ[i])'
  <2>1. Real(resultQ'[i])
    BY <1>5 DEF CallInv, ReportInv
  <2> QED
    BY <2>1 DEF Real, Over
<1>8. ASSUME NEW v \in Writer, record'[v] # NoReport PROVE record'[v].id = v /\ Real(record[v])'
  <2>1. record'[v].id = v /\ Real(record'[v])
    BY <1>3, <1>4, <1>8 DEF CallInv, ReportInv
  <2> QED
    BY <2>1 DEF Real, Over
<1>9. ReportInv'
  BY <1>7, <1>8 DEF ReportInv
<1>10. Over(Head(resultQ).id)
  BY <1>3 DEF Real
<1> QED
  BY <1>2, <1>3, <1>4, <1>5, <1>9, <1>10

LEMMA CallerCall ==
  ASSUME TypeOK, TypeOK', FlowInv, CallInv, CallerNext
  PROVE  CallInv'
<1>1. /\ idx \in Nat /\ ProcessCount \in Nat
      /\ \A w \in Writer : w \in Nat /\ w <= ProcessCount
  BY SizeAssumption DEF TypeOK, Writer
<1>2. CASE StartSource \/ StartWriter \/ Shutdown
  <2>1. /\ UNCHANGED <<record, marked, verdict, total, resultQ>> /\ (Collecting <=> Collecting')
        /\ mpc' # "sum" /\ (mpc \in {"shutdown", "done"} <=> mpc' \in {"shutdown", "done"})
    BY <1>2 DEF StartSource, StartWriter, Shutdown, Collecting, brokerVars, writerVars
  <2>2. ASSUME NEW v \in Writer, Over(v) PROVE Over(v)'
    <3>1. CASE ~StartWriter
      BY <1>2, <2>2, <3>1 DEF StartSource, Shutdown, writerVars, Over
    <3>2. CASE StartWriter
      <4>1. idx \in Writer /\ wpc[idx] = "new"
        BY <1>1, <3>2 DEF FlowInv, StartInv, StartWriter, TypeOK
      <4> QED
        BY <2>2, <3>2, <4>1 DEF StartWriter, Over, TypeOK
    <3> QED
      BY <3>1, <3>2
  <2>3. ReportInv'
    BY <2>1, <2>2, ReportKept DEF CallInv
  <2>4. \A v \in Writer : record'[v] = record[v]
    BY <2>1
  <2>5. MarkInv'
    BY <2>1, <2>2, <2>4 DEF CallInv, MarkInv
  <2> QED
    BY <2>3, <2>5 DEF CallInv
<1>3. CASE Collect \/ CollectError
  <2>1. /\ resultQ # <<>> /\ resultQ' = Tail(resultQ) /\ UNCHANGED <<wpc, total, idx, verdict>>
        /\ record' = [record EXCEPT ![Head(resultQ).id] = Head(resultQ)]
        /\ mpc = "collect" /\ idx = 1
    BY <1>3 DEF Collect, CollectError, writerVars, FlowInv, StartInv
  <2>2. /\ ReportInv' /\ Head(resultQ) \in Report /\ Over(Head(resultQ).id)
        /\ record'[Head(resultQ).id] = Head(resultQ) /\ Head(resultQ).id \in Writer
        /\ \A v \in Writer : v # Head(resultQ).id => record'[v] = record[v]
    BY <2>1, TakeReport DEF Report
  <2>3. \A v \in Writer : Over(v)' <=> Over(v)
    BY <2>1 DEF Over
  <2>4. /\ \A w \in Writer : (w \in marked => Over(w)) /\ record[w].state # Errored
        /\ verdict = "none"
    BY <2>1 DEF CallInv, MarkInv, Collecting
  <2>5. CASE Collect
    <3>1. marked' = marked \cup {Head(resultQ).id} /\ mpc' = "check" /\ Head(resultQ).state = Finished
      BY <2>5 DEF Collect
    <3>2. \A w \in Writer : (w \in marked' => Over(w)') /\ record'[w].state # Errored
      BY <2>2, <2>3, <2>4, <3>1 DEF Finished, Errored
    <3> QED
      BY <2>1, <2>2, <2>4, <3>1, <3>2 DEF CallInv, MarkInv
  <2>6. CASE CollectError
    <3>1. mpc' = "sum" /\ Head(resultQ).state = Errored
      BY <2>6 DEF CollectError
    <3>2. \E w \in Writer : record'[w].state = Errored
      BY <2>2, <3>1
    <3>3. \A w \in Writer : ~(w < idx')
      BY <1>1, <2>1 DEF Writer
    <3> QED
      BY <2>1, <2>2, <2>4, <3>1, <3>2, <3>3 DEF CallInv, MarkInv, Collecting
  <2> QED
    BY <1>3, <2>5, <2>6
<1>4. CASE CheckThread
  <2>1. /\ mpc = "check" /\ UNCHANGED <<record, verdict, wpc, total, resultQ>>
        /\ marked' = IF Unfinished(idx) THEN marked \cup {idx} ELSE marked
        /\ \/ mpc' \in {"check", "collect"}
           \/ mpc' = "sum" /\ marked' = Writer /\ idx' = 1
    BY <1>4 DEF CheckThread, writerVars
  <2>2. \A v \in Writer : Over(v)' <=> Over(v)
    BY <2>1 DEF Over
  <2>3. ReportInv'
    BY <2>1, <2>2, ReportKept DEF CallInv
  <2>4. /\ \A w \in Writer : (w \in marked => Over(w)) /\ record[w].state # Errored
        /\ verdict = "none"
    BY <2>1 DEF CallInv, MarkInv, Collecting
  <2>5. Unfinished(idx) => Over(idx)
    BY DEF Unfinished, Alive, Over
  <2>6. \A w \in Writer : (w \in marked' => Over(w)') /\ record'[w].state # Errored
    BY <2>1, <2>2, <2>4, <2>5
  <2>7. MarkInv'
    BY <2>1, <2>4, <2>6 DEF MarkInv, Collecting
  <2> QED
    BY <2>3, <2>7 DEF CallInv
<1>5. CASE SumReport
  <2>1. mpc = "sum" /\ UNCHANGED <<record, wpc, total, resultQ>>
    BY <1>5 DEF SumReport, writerVars, brokerVars
  <2>2. \A v \in Writer : (Over(v)' <=> Over(v)) /\ record'[v] = record[v]
    BY <2>1 DEF Over
  <2>3. ReportInv'
    BY <2>1, <2>2, ReportKept DEF CallInv
  <2>4. /\ (\A w \in Writer : Over(w)) \/ (\E w \in Writer : record[w].state = Errored)
        /\ \A w \in Writer : w < idx => record[w].state # Errored
        /\ verdict = "none"
    BY <2>1 DEF CallInv, MarkInv
  <2>5. CASE record[idx].state = Errored
    <3>1. verdict' = "raised" /\ mpc' = "shutdown"
      BY <1>5, <2>5 DEF SumReport
    <3> QED
      BY <2>3, <3>1 DEF CallInv, MarkInv, Collecting
  <2>6. CASE record[idx].state # Errored /\ idx < ProcessCount
    <3>1. idx' = idx + 1 /\ mpc' = "sum" /\ verdict' = "none"
      BY <1>5, <2>1, <2>4, <2>6 DEF SumReport
    <3>2. \A w \in Writer : w < idx' => record'[w].state # Errored
      BY <1>1, <2>2, <2>4, <2>6, <3>1
    <3>3. (\A w \in Writer : Over(w)') \/ (\E w \in Writer : record'[w].state = Errored)
      BY <2>2, <2>4
    <3> QED
      BY <2>3, <3>1, <3>2, <3>3 DEF CallInv, MarkInv, Collecting
  <2>7. CASE record[idx].state # Errored /\ ~(idx < ProcessCount)
    <3>1. mpc' = "shutdown" /\ verdict' = "returned"
      BY <1>5, <2>7 DEF SumReport
    <3>2. \A w \in Writer : record[w].state # Errored
      BY <1>1, <2>4, <2>7
    <3>3. \A w \in Writer : Over(w)' /\ record'[w].state # Errored
      BY <2>2, <2>4, <3>2
    <3> QED
      BY <2>3, <3>1, <3>3 DEF CallInv, MarkInv, Collecting
  <2> QED
    BY <2>5, <2>6, <2>7
<1> QED
  BY <1>2, <1>3, <1>4, <1>5 DEF CallerNext

LEMMA StillCall ==
  ASSUME TypeOK, CallInv, UNCHANGED <<wpc, total, brokerVars, callerVars>>
  PROVE  CallInv'
<1>1. /\ \A v \in Writer : Over(v) => Over(v)' /\ total'[v] = total[v]
      /\ UNCHANGED <<resultQ, record>> /\ UNCHANGED <<record, marked, mpc, idx, verdict>>
  BY DEF Over, brokerVars, callerVars
<1>2. ReportInv'
  BY <1>1, ReportKept DEF CallInv
<1>3. MarkInv'
  BY <1>1, MarkKept DEF CallInv
<1> QED
  BY <1>2, <1>3 DEF CallInv

LEMMA InitCall == Init => CallInv
  BY DEF Init, CallInv, ReportInv, MarkInv, Collecting, NoReport, Errored

LEMMA NextCall ==
  ASSUME TypeInv, TypeOK', FlowInv, CallInv, [Next]_vars
  PROVE  CallInv'
<1>1. TypeOK
  BY DEF TypeInv
<1>2. ASSUME UNCHANGED <<writerVars, brokerVars, callerVars>> PROVE CallInv'
  BY <1>1, <1>2, StillCall DEF writerVars
<1>3. (SourceNext \/ SourceVanish) => UNCHANGED <<writerVars, brokerVars, callerVars>>
  BY SourceEffect
<1>4. UNCHANGED vars => UNCHANGED <<writerVars, brokerVars, callerVars>>
  BY DEF vars
<1>5. (\E s \in late : LateWrite(s)) => CallInv'
  BY <1>1, StillCall DEF LateWrite
<1> QED
  BY <1>1, <1>2, <1>3, <1>4, <1>5, WriterCall, CallerCall DEF Next

-----------------------------------------------------------------------------
(* A writer that has succeeded was about to return before.                 *)
LEMMA SucceededBack ==
  ASSUME TypeInv, FlowInv, CallInv, [Next]_vars, NEW v \in Writer, Succeeded(v)'
  PROVE  Succeeded(v) \/ wpc[v] = "return"
<1>1. TypeOK
  BY DEF TypeInv
<1>2. ASSUME UNCHANGED <<resultQ, record>> PROVE Succeeded(v)
  BY <1>2 DEF Succeeded
<1>3. CASE SourceNext \/ SourceVanish \/ UNCHANGED vars \/ \E s \in late : LateWrite(s)
  BY <1>2, <1>3, SourceEffect DEF vars, brokerVars, LateWrite
<1>4. ASSUME NEW w \in Writer, WriterNext(w) \/ WriterVanish(w)
      PROVE  Succeeded(v) \/ wpc[v] = "return"
  <2>1. record' = record
    BY <1>1, <1>4, WriterEffect
  <2>2. CASE WriterReport(w)
    <3>1. PICK rep \in Report :
            /\ resultQ' = Append(resultQ, rep) /\ rep.id = w
            /\ rep.state = Finished => rep.rows = total[w] /\ wpc[w] = "return"
      BY <1>1, <2>2, ReportPut
    <3>2. \A i \in 1 .. Len(resultQ') : \/ i \in 1 .. Len(resultQ) /\ resultQ'[i] = resultQ[i]
                                        \/ resultQ'[i] = rep
      BY <1>1, <3>1, AppendPlaces DEF TypeOK
    <3> QED
      BY <2>1, <3>1, <3>2 DEF Succeeded
  <2>3. CASE ~WriterReport(w)
    BY <1>1, <1>2, <1>4, <2>1, <2>3, WriterEffect
  <2> QED
    BY <2>2, <2>3
<1>5. CASE CallerNext
  <2>1. CASE Collect \/ CollectError
    <3>1. /\ resultQ # <<>> /\ resultQ' = Tail(resultQ) /\ UNCHANGED <<wpc, total>>
          /\ record' = [record EXCEPT ![Head(resultQ).id] = Head(resultQ)]
      BY <2>1 DEF Collect, CollectError, writerVars
    <3>2. /\ Head(resultQ) = resultQ[1] /\ 1 \in 1 .. Len(resultQ)
          /\ record'[Head(resultQ).id] = Head(resultQ)
          /\ \A u \in Writer : u # Head(resultQ).id => record'[u] = record[u]
          /\ \A i \in 1 .. Len(resultQ') : i + 1 \in 1 .. Len(resultQ) /\ resultQ'[i] = resultQ[i + 1]
      BY <1>1, <3>1, TakeReport
    <3> QED
      BY <3>2 DEF Succeeded
  <2>2. CASE ~Collect /\ ~CollectError
    BY <1>1, <1>2, <1>5, <2>2, CallerEffect
  <2> QED
    BY <2>1, <2>2
<1> QED
  BY <1>3, <1>4, <1>5 DEF Next

(* A writer that is clean was clean before.                                *)
LEMMA CleanBack ==
  ASSUME TypeInv, FlowInv, CallInv, [Next]_vars, NEW v \in Writer, Clean(v)'
  PROVE  Clean(v)
<1>1. CASE Succeeded(v)'
  BY <1>1, SucceededBack DEF Clean
<1>2. CASE wpc'[v] \in {"new", "begin", "get", "page", "wrote", "return"}
  <2>1. TypeOK
    BY DEF TypeInv
  <2>2. CASE wpc'[v] = wpc[v]
    BY <1>2, <2>2 DEF Clean
  <2>3. CASE wpc'[v] # wpc[v]
    <3>1. CASE CallerNext
      <4>1. StartWriter
        BY <2>1, <2>3, <3>1, CallerEffect
      <4>2. idx \in Writer /\ wpc[idx] = "new" /\ \A u \in Writer : u # idx => wpc'[u] = wpc[u]
        BY <2>1, <4>1 DEF StartWriter, TypeOK, FlowInv, StartInv, Writer
      <4> QED
        BY <2>3, <4>2 DEF Clean
    <3>2. ASSUME NEW w \in Writer, WriterNext(w) \/ WriterVanish(w) PROVE Clean(v)
      <4>1. v = w
        BY <2>1, <2>3, <3>2, WriterEffect
      <4>2. wpc[v] \in {"begin", "get", "page", "wrote"} \/ wpc'[v] = "new"
        BY <1>2, <2>1, <3>2, <4>1, WriterMoves
      <4>3. wpc'[v] # "new"
        BY <2>1, <3>2, <4>1 DEF WriterNext, WriterBegin, WriterGet, WriterWrite, WriterError,
          WriterTimeout, WriterAnswer, WriterFail, WriterCutOff, WriterReport, WriterExit,
          WriterVanish, TypeOK
      <4> QED
        BY <4>2, <4>3 DEF Clean
    <3>3. (SourceNext \/ SourceVanish \/ UNCHANGED vars \/ \E s \in late : LateWrite(s)) => wpc' = wpc
      BY SourceEffect DEF vars, writerVars, LateWrite
    <3> QED
      BY <2>3, <3>1, <3>2, <3>3 DEF Next
  <2> QED
    BY <2>2, <2>3
<1> QED
  BY <1>1, <1>2 DEF Clean

LEMMA AllCleanBack ==
  ASSUME TypeInv, FlowInv, CallInv, [Next]_vars, AllClean'
  PROVE  AllClean
<1>1. ASSUME NEW v \in Writer PROVE Clean(v)
  <2>1. Clean(v)'
    BY DEF AllClean
  <2> QED
    BY <2>1, CleanBack
<1> QED
  BY <1>1 DEF AllClean

(* A writer that fails is clean no more.                                   *)
LEMMA FailsClean ==
  ASSUME TypeOK', CallInv', NEW w \in Writer, wpc'[w] \in {"fail", "raise"}
  PROVE  ~AllClean'
<1>1. ~Over(w)'
  BY DEF Over
<1>2. record'[w].state # Finished
  <2>1. ASSUME record'[w].state = Finished PROVE FALSE
    <3>1. record'[w] # NoReport
      BY <2>1 DEF NoReport, Finished
    <3>2. record'[w].id = w /\ Real(record[w])'
      BY <3>1 DEF CallInv, ReportInv
    <3> QED
      BY <1>1, <3>2 DEF Real, Over
  <2> QED
    BY <2>1
<1>3. ASSUME NEW i \in 1 .. Len(resultQ') PROVE resultQ'[i].id # w
  <2>1. Real(resultQ[i])'
    BY <1>3 DEF CallInv, ReportInv
  <2> QED
    BY <1>1, <2>1 DEF Real, Over
<1>4. ~Clean(w)'
  BY <1>2, <1>3 DEF Clean, Succeeded
<1> QED
  BY <1>4 DEF AllClean

(* Only a writer that takes an ending makes Taken true.                    *)
LEMMA TakenBack ==
  ASSUME TypeInv, FlowInv, CallInv, [Next]_vars, Taken'
  PROVE  \/ Taken
         \/ \E w \in Writer : WriterGet(w) /\ wpc'[w] = "return"
<1>1. TypeOK
  BY DEF TypeInv
<1>2. PICK v \in Writer : wpc'[v] = "return" \/ Succeeded(v)'
  BY DEF Taken
<1>3. CASE Succeeded(v)'
  BY <1>3, SucceededBack DEF Taken
<1>4. CASE wpc'[v] = "return" /\ wpc[v] # "return"
  <2>1. ASSUME CallerNext PROVE FALSE
    <3>1. StartWriter
      BY <1>1, <1>4, <2>1, CallerEffect
    <3> QED
      BY <1>1, <1>4, <3>1 DEF StartWriter, TypeOK
  <2>2. ASSUME NEW w \in Writer, WriterNext(w) \/ WriterVanish(w) PROVE WriterGet(v)
    <3>1. v = w
      BY <1>1, <1>4, <2>2, WriterEffect
    <3> QED
      BY <1>1, <1>4, <2>2, <3>1, WriterMoves
  <2>3. (SourceNext \/ SourceVanish \/ UNCHANGED vars \/ \E s \in late : LateWrite(s)) => wpc' = wpc
    BY SourceEffect DEF vars, writerVars, LateWrite
  <2> QED
    BY <1>4, <2>1, <2>2, <2>3 DEF Next
<1>5. CASE wpc[v] = "return"
  BY <1>5 DEF Taken
<1> QED
  BY <1>2, <1>3, <1>4, <1>5

-----------------------------------------------------------------------------
(* The tasks on data_queue are tasks.                                      *)
LEMMA TaskTypes ==
  ASSUME TypeOK
  PROVE  /\ dataQ \in Seq(DataTask) /\ Len(dataQ) \in Nat
         /\ \A i \in 1 .. Len(dataQ) : dataQ[i] \in DataTask
         /\ \A t \in DataTask : /\ t.kind \in {"page", "finish", "error"}
                                /\ t.kind = "page" => t.start \in Nat
         /\ FinishTask \in DataTask /\ ErrorTask \in DataTask /\ PageTask(start) \in DataTask
<1>1. dataQ \in Seq(DataTask) /\ Len(dataQ) \in Nat
  BY LenProperties DEF TypeOK
<1>2. \A i \in 1 .. Len(dataQ) : dataQ[i] \in DataTask
  BY <1>1, ElementOfSeq
<1>3. /\ \A t \in DataTask : /\ t.kind \in {"page", "finish", "error"}
                             /\ t.kind = "page" => t.start \in Nat
      /\ FinishTask \in DataTask /\ ErrorTask \in DataTask /\ PageTask(start) \in DataTask
  BY DEF DataTask, FinishTask, ErrorTask, PageTask, TypeOK
<1> QED
  BY <1>1, <1>2, <1>3

(* The task a writer gets is the first; the others move up.                *)
LEMMA GetEffect ==
  ASSUME TypeOK, NEW w \in Writer, WriterGet(w)
  PROVE  /\ 1 \in 1 .. Len(dataQ) /\ wpc[w] = "get"
         /\ \/ wpc'[w] = "page" /\ dataQ[1].kind = "page" /\ page'[w] = dataQ[1].start
            \/ wpc'[w] = "return" /\ dataQ[1].kind = "finish"
            \/ wpc'[w] = "fail" /\ dataQ[1].kind = "error"
         /\ \A i \in 1 .. Len(dataQ') : i + 1 \in 1 .. Len(dataQ) /\ dataQ'[i] = dataQ[i + 1]
         /\ \A i \in 1 .. Len(dataQ) : i # 1 => i - 1 \in 1 .. Len(dataQ') /\ dataQ'[i - 1] = dataQ[i]
<1>1. dataQ # <<>> /\ dataQ' = Tail(dataQ) /\ wpc[w] = "get"
  BY DEF WriterGet
<1>2. /\ Head(dataQ) = dataQ[1] /\ 1 \in 1 .. Len(dataQ) /\ Len(dataQ) \in Nat
      /\ Len(dataQ') = Len(dataQ) - 1
  BY <1>1, TaskTypes, HeadTailProperties, EmptySeq
<1>3. \A i \in 1 .. Len(dataQ') : i + 1 \in 1 .. Len(dataQ) /\ dataQ'[i] = dataQ[i + 1]
  BY <1>1, <1>2, TaskTypes, TailPlaces
<1>4. \A i \in 1 .. Len(dataQ) : i # 1 => i - 1 \in 1 .. Len(dataQ') /\ dataQ'[i - 1] = dataQ[i]
  <2> SUFFICES ASSUME NEW i \in 1 .. Len(dataQ), i # 1
               PROVE  i - 1 \in 1 .. Len(dataQ') /\ dataQ'[i - 1] = dataQ[i]
    OBVIOUS
  <2>1. i - 1 \in 1 .. Len(dataQ') /\ (i - 1) + 1 = i
    BY <1>2
  <2> QED
    BY <1>3, <2>1
<1>5. \/ wpc'[w] = "page" /\ dataQ[1].kind = "page" /\ page'[w] = dataQ[1].start
      \/ wpc'[w] = "return" /\ dataQ[1].kind = "finish"
      \/ wpc'[w] = "fail" /\ dataQ[1].kind = "error"
  BY <1>2 DEF WriterGet, TypeOK
<1> QED
  BY <1>1, <1>2, <1>3, <1>4, <1>5

LEMMA PlaceKept ==
  ASSUME PlaceInv, dataQ' = dataQ, spc' \in {"put", "await"} => DataCount > 0,
         \A w \in Writer : wpc'[w] \in {"page", "wrote"} =>
           wpc[w] \in {"page", "wrote"} /\ page'[w] = page[w]
  PROVE  PlaceInv'
<1>1. \A w \in Writer : wpc'[w] \in {"page", "wrote"} => page'[w] < DataCount
  BY DEF PlaceInv
<1> QED
  BY <1>1 DEF PlaceInv

LEMMA SourcePlace ==
  ASSUME TypeInv, FlowInv, PlaceInv, SourceNext \/ SourceVanish
  PROVE  PlaceInv'
<1>1. TypeOK /\ start \in Nat /\ DataCount \in Nat
  BY SizeAssumption DEF TypeInv, TypeOK
<1>2. UNCHANGED <<wpc, page>>
  BY SourceEffect DEF writerVars
<1>3. CASE SourceCount \/ SourceStop \/ SourceAwait \/ SourceCutOff \/ SourceVanish
  <2>1. dataQ' = dataQ /\ (spc' \in {"put", "await"} => DataCount > 0)
    BY <1>3 DEF SourceCount, SourceStop, SourceAwait, SourceCutOff, SourceVanish, queueVars, PlaceInv
  <2> QED
    BY <1>2, <2>1, PlaceKept
<1>4. CASE SourcePut \/ SourceEnd
  <2>1. PICK t \in DataTask :
          /\ dataQ' = Append(dataQ, t)
          /\ t.kind = "page" => t.start < DataCount /\ Cutting
    <3>1. CASE SourcePut
      <4>1. dataQ' = Append(dataQ, PageTask(start)) /\ ~PastEnd /\ spc = "put"
        BY <3>1 DEF SourcePut
      <4>2. start < DataCount
        BY <1>1, <4>1 DEF PastEnd, PlaceInv
      <4>3. PageTask(start).start < DataCount /\ Cutting /\ PageTask(start) \in DataTask
        BY <1>1, <4>1, <4>2, TaskTypes DEF PageTask, Cutting
      <4> QED
        BY <4>1, <4>3
    <3>2. CASE SourceEnd
      <4>1. dataQ' = Append(dataQ, FinishTask) \/ dataQ' = Append(dataQ, ErrorTask)
        BY <3>2 DEF SourceEnd
      <4>2. FinishTask.kind # "page" /\ ErrorTask.kind # "page"
        BY DEF FinishTask, ErrorTask
      <4> QED
        BY <1>1, <4>1, <4>2, TaskTypes
    <3> QED
      BY <1>4, <3>1, <3>2
  <2>2. \A i \in 1 .. Len(dataQ') : \/ i \in 1 .. Len(dataQ) /\ dataQ'[i] = dataQ[i]
                                    \/ i = Len(dataQ) + 1 /\ dataQ'[i] = t
    BY <1>1, <2>1, TaskTypes, AppendPlaces
  <2>3. \A i \in 1 .. Len(dataQ') : dataQ'[i].kind = "page" => dataQ'[i].start < DataCount
    BY <2>1, <2>2 DEF PlaceInv
  <2>4. ASSUME NEW i \in 1 .. Len(dataQ'), NEW j \in 1 .. Len(dataQ'), i < j, dataQ'[i].kind = "finish"
        PROVE  dataQ'[j].kind # "page"
    <3>1. Len(dataQ) \in Nat /\ Len(dataQ') = Len(dataQ) + 1
      BY <1>1, <2>1, TaskTypes, AppendProperties
    <3>2. i \in 1 .. Len(dataQ) /\ dataQ'[i] = dataQ[i]
      BY <2>2, <2>4, <3>1
    <3>3. CASE j \in 1 .. Len(dataQ) /\ dataQ'[j] = dataQ[j]
      BY <2>4, <3>2, <3>3 DEF PlaceInv
    <3>4. CASE dataQ'[j] = t
      <4>1. ~Cutting
        BY <2>4, <3>2 DEF FlowInv, SumInv
      <4> QED
        BY <2>1, <3>4, <4>1
    <3> QED
      BY <2>2, <3>3, <3>4
  <2>5. spc' \in {"put", "await"} => DataCount > 0
    BY <1>4 DEF SourcePut, SourceEnd, PlaceInv
  <2> QED
    BY <1>2, <2>3, <2>4, <2>5 DEF PlaceInv
<1> QED
  BY <1>3, <1>4 DEF SourceNext

LEMMA WriterPlace ==
  ASSUME TypeOK, PlaceInv, NEW w \in Writer, WriterNext(w) \/ WriterVanish(w)
  PROVE  PlaceInv'
<1>1. spc' = spc /\ \A v \in Writer : v # w => wpc'[v] = wpc[v] /\ page'[v] = page[v]
  BY WriterEffect DEF sourceVars
<1>2. CASE ~WriterGet(w)
  <2>1. dataQ' = dataQ /\ page' = page
    BY <1>2, WriterEffect
  <2>2. wpc'[w] \in {"page", "wrote"} => wpc[w] \in {"page", "wrote"}
    BY <1>2 DEF WriterNext, WriterBegin, WriterWrite, WriterError, WriterTimeout, WriterAnswer,
       WriterFail, WriterCutOff, WriterReport, WriterExit, WriterVanish, TypeOK
  <2>3. \A v \in Writer : wpc'[v] \in {"page", "wrote"} =>
          wpc[v] \in {"page", "wrote"} /\ page'[v] = page[v]
    BY <1>1, <2>1, <2>2
  <2> QED
    BY <1>1, <2>1, <2>3, PlaceKept DEF PlaceInv
<1>3. CASE WriterGet(w)
  <2>1. /\ 1 \in 1 .. Len(dataQ) /\ wpc[w] = "get"
        /\ \/ wpc'[w] = "page" /\ dataQ[1].kind = "page" /\ page'[w] = dataQ[1].start
           \/ wpc'[w] = "return" /\ dataQ[1].kind = "finish"
           \/ wpc'[w] = "fail" /\ dataQ[1].kind = "error"
        /\ \A i \in 1 .. Len(dataQ') : i + 1 \in 1 .. Len(dataQ) /\ dataQ'[i] = dataQ[i + 1]
    BY <1>3, GetEffect
  <2>2. \A v \in Writer : wpc'[v] \in {"page", "wrote"} => page'[v] < DataCount
    BY <1>1, <2>1 DEF PlaceInv
  <2>3. ASSUME NEW i \in 1 .. Len(dataQ'), NEW j \in 1 .. Len(dataQ'), i < j, dataQ'[i].kind = "finish"
        PROVE  dataQ'[j].kind # "page"
    <3>1. i + 1 \in 1 .. Len(dataQ) /\ j + 1 \in 1 .. Len(dataQ) /\ i + 1 < j + 1
      BY <2>1, <2>3
    <3> QED
      BY <2>1, <2>3, <3>1 DEF PlaceInv
  <2> QED
    BY <1>1, <2>1, <2>2, <2>3 DEF PlaceInv
<1> QED
  BY <1>2, <1>3

LEMMA NextPlace ==
  ASSUME TypeInv, FlowInv, PlaceInv, [Next]_vars
  PROVE  PlaceInv'
<1>1. TypeOK
  BY DEF TypeInv
<1>2. CASE CallerNext
  <2>1. dataQ' = dataQ /\ page' = page
    BY <1>1, <1>2, CallerEffect
  <2>2. spc' \in {"put", "await"} => spc \in {"put", "await"}
    BY <1>1, <1>2, CallerEffect DEF StartSource
  <2>3. \A v \in Writer : wpc'[v] \in {"page", "wrote"} => wpc[v] \in {"page", "wrote"}
    BY <1>1, <1>2, CallerEffect DEF StartWriter, TypeOK
  <2> QED
    BY <2>1, <2>2, <2>3, PlaceKept DEF PlaceInv
<1>3. CASE UNCHANGED vars \/ \E s \in late : LateWrite(s)
  <2>1. UNCHANGED <<dataQ, spc, wpc, page>>
    BY <1>3 DEF vars, LateWrite, queueVars, sourceVars, writerVars
  <2> QED
    BY <2>1, PlaceKept DEF PlaceInv
<1> QED
  BY <1>1, <1>2, <1>3, SourcePlace, WriterPlace DEF Next

LEMMA NextLate ==
  ASSUME TypeInv, TypeOK', FlowInv, CallInv, CallInv', LateInv, [Next]_vars
  PROVE  LateInv'
<1>1. TypeOK
  BY DEF TypeInv
<1>2. late # {} => ~AllClean'
  BY AllCleanBack DEF LateInv
<1>3. ASSUME NEW w \in Writer, WriterNext(w) \/ WriterVanish(w), late' # late PROVE ~AllClean'
  <2>1. WriterTimeout(w)
    BY <1>1, <1>3, WriterEffect
  <2>2. wpc'[w] = "fail"
    BY <1>1, <2>1 DEF WriterTimeout, TypeOK
  <2> QED
    BY <2>2, FailsClean
<1>4. (SourceNext \/ SourceVanish \/ CallerNext \/ UNCHANGED vars) => late' = late
  BY <1>1, SourceEffect, CallerEffect DEF writerVars, vars
<1>5. (\E s \in late : LateWrite(s)) => late' \subseteq late
  BY DEF LateWrite
<1> QED
  BY <1>2, <1>3, <1>4, <1>5 DEF Next, LateInv

-----------------------------------------------------------------------------
(* What CoverInv says once its conditions hold.                            *)
CoverBody ==
  /\ \A r \in Row : r < Cut => Covered(r)
  /\ \A i \in 1 .. Len(ackQ) : ackQ[i]
  /\ Ending => ~Cutting /\ DataCount <= start
  /\ Taken => \A i \in 1 .. Len(dataQ) : dataQ[i].kind # "page"

(* Steps that cut no page, hand none over and answer nothing.              *)
LEMMA CoverKept ==
  ASSUME CoverBody, UNCHANGED <<dataQ, ackQ, start>>,
         \A r \in Row : r < Cut' => r < Cut,
         Cutting' => Cutting, spc' = "finish" => spc = "finish", Taken' => Taken,
         \A r \in Row : Covered(r) => Covered(r)'
  PROVE  CoverBody'
<1>1. Ending' => Ending
  BY DEF Ending
<1> QED
  BY <1>1 DEF CoverBody

LEMMA CoveredKept ==
  ASSUME UNCHANGED <<dataQ, page>>, \A r \in Row : written[r] > 0 => written'[r] > 0,
         \A w \in Writer : wpc[w] = "page" => wpc'[w] = "page",
         NEW r \in Row, Covered(r)
  PROVE  Covered(r)'
  BY DEF Covered

LEMMA SourceCover ==
  ASSUME TypeInv, FlowInv, CallInv, PlaceInv, CoverBody, AllClean, held = DataCount,
         SourceNext \/ SourceVanish
  PROVE  CoverBody'
<1>1. /\ TypeOK /\ start \in Nat /\ DataCount \in Nat /\ Limit \in Nat \ {0}
      /\ \A r \in Row : r \in Nat /\ r < DataCount
  BY SizeAssumption DEF TypeInv, TypeOK, Row
<1>2. UNCHANGED <<wpc, page, written, resultQ, record, held>>
  BY SourceEffect DEF writerVars, brokerVars
<1>3. Taken' <=> Taken
  BY <1>2 DEF Taken, Succeeded
<1>4. \A r \in Row : written[r] > 0 => written'[r] > 0
  BY <1>2
<1>5. dataQ' = dataQ => \A r \in Row : Covered(r) => Covered(r)'
  BY <1>2, <1>4, CoveredKept
<1>6. CASE SourceCutOff \/ SourceVanish \/ (SourceCount /\ spc' # "finish")
  <2>1. UNCHANGED <<dataQ, ackQ, start>> /\ spc' # "finish" /\ (Cutting' => Cutting) /\ spc' # "await"
    BY <1>6 DEF SourceCutOff, SourceVanish, SourceCount, queueVars, Cutting
  <2>2. \A r \in Row : r < Cut' => r < Cut
    BY <1>1, <2>1 DEF Cut
  <2> QED
    BY <1>3, <1>5, <2>1, <2>2, CoverKept
<1>7. CASE SourceStop \/ (SourceCount /\ spc' = "finish")
  <2>1. /\ UNCHANGED <<dataQ, ackQ, start>> /\ spc' = "finish" /\ DataCount <= start
        /\ spc \in {"put", "count"}
    BY <1>1, <1>7 DEF SourceStop, SourceCount, PastEnd, queueVars
  <2>2. Cut' = Cut /\ ~Cutting'
    BY <2>1 DEF Cut, Cutting
  <2> QED
    BY <1>3, <1>5, <2>1, <2>2 DEF CoverBody
<1>8. CASE SourcePut
  <2>1. /\ dataQ' = Append(dataQ, PageTask(start)) /\ ackQ' = ackQ /\ Cutting /\ spc = "put"
        /\ \/ spc' = "await" /\ start' = start
           \/ spc' = "put" /\ start' = start + Limit
    BY <1>8 DEF SourcePut, Cutting
  <2>2. /\ Len(dataQ) + 1 \in 1 .. Len(dataQ') /\ dataQ'[Len(dataQ) + 1] = PageTask(start)
        /\ \A i \in 1 .. Len(dataQ) : i \in 1 .. Len(dataQ') /\ dataQ'[i] = dataQ[i]
        /\ \A i \in 1 .. Len(dataQ') : \/ i \in 1 .. Len(dataQ) /\ dataQ'[i] = dataQ[i]
                                       \/ dataQ'[i] = PageTask(start)
    <3>1. Len(dataQ') = Len(dataQ) + 1 /\ Len(dataQ) \in Nat
      BY <1>1, <2>1, TaskTypes, AppendProperties
    <3> QED
      BY <1>1, <2>1, <3>1, TaskTypes, AppendPlaces, AppendProperties
  <2>3. PageTask(start).kind = "page" /\ PageTask(start).start = start
    BY DEF PageTask
  <2>4. Cut = start /\ Cut' = start + Limit
    BY <2>1 DEF Cut
  <2>5. ASSUME NEW r \in Row, r < Cut' PROVE Covered(r)'
    <3>1. CASE r < start
      <4>1. Covered(r)
        BY <2>4, <3>1 DEF CoverBody
      <4> QED
        BY <1>2, <2>2, <4>1 DEF Covered
    <3>2. CASE ~(r < start)
      <4>1. Within(r, start)
        BY <1>1, <2>4, <2>5, <3>2 DEF Within
      <4> QED
        BY <2>2, <2>3, <4>1 DEF Covered
    <3> QED
      BY <3>1, <3>2
  <2>6. ~Ending'
    <3>1. ~Ending
      BY <2>1 DEF CoverBody
    <3>2. spc' # "finish" /\ ~Taken'
      BY <1>3, <2>1, <3>1 DEF Ending
    <3>3. \A i \in 1 .. Len(dataQ') : dataQ'[i].kind # "finish"
      BY <2>2, <2>3, <3>1 DEF Ending
    <3> QED
      BY <3>2, <3>3 DEF Ending
  <2>7. ~Taken'
    BY <2>6 DEF Ending
  <2> QED
    BY <2>1, <2>5, <2>6, <2>7 DEF CoverBody
<1>9. CASE SourceAwait
  <2>1. ackQ \in Seq(BOOLEAN) /\ ackQ # <<>> /\ ackQ' = Tail(ackQ) /\ spc = "await" /\ dataQ' = dataQ
    BY <1>1, <1>9 DEF SourceAwait, TypeOK
  <2>2. Head(ackQ) = ackQ[1] /\ 1 \in 1 .. Len(ackQ)
    BY <2>1, HeadTailProperties, EmptySeq, LenProperties
  <2>3. ackQ[1]
    BY <2>2 DEF CoverBody
  <2>4. spc' = "put" /\ start' = start + Limit
    BY <1>9, <2>2, <2>3 DEF SourceAwait
  <2>5. \A i \in 1 .. Len(ackQ') : i + 1 \in 1 .. Len(ackQ) /\ ackQ'[i] = ackQ[i + 1]
    BY <2>1, LenProperties, TailPlaces
  <2>6. Cut' = Cut
    BY <2>1, <2>4 DEF Cut
  <2>7. ~Ending
    BY <2>1 DEF CoverBody, Cutting
  <2>8. ~Ending' /\ ~Taken'
    BY <1>3, <2>1, <2>4, <2>7 DEF Ending
  <2>9. \A r \in Row : r < Cut' => Covered(r)'
    BY <1>5, <2>1, <2>6 DEF CoverBody
  <2>10. \A i \in 1 .. Len(ackQ') : ackQ'[i]
    BY <2>5 DEF CoverBody
  <2> QED
    BY <2>8, <2>9, <2>10 DEF CoverBody
<1>10. CASE SourceEnd
  <2>1. PICK t \in DataTask :
          /\ dataQ' = Append(dataQ, t) /\ t.kind # "page"
          /\ t.kind = "finish" => spc = "finish"
    <3>1. \/ dataQ' = Append(dataQ, FinishTask) /\ spc = "finish"
          \/ dataQ' = Append(dataQ, ErrorTask)
      BY <1>10 DEF SourceEnd
    <3>2. FinishTask.kind = "finish" /\ ErrorTask.kind = "error"
      BY DEF FinishTask, ErrorTask
    <3> QED
      BY <1>1, <3>1, <3>2, TaskTypes
  <2>2. /\ UNCHANGED <<ackQ, start>> /\ spc \in {"finish", "error"} /\ spc' \in {spc, "done"}
    BY <1>10 DEF SourceEnd
  <2>3. /\ \A i \in 1 .. Len(dataQ) : i \in 1 .. Len(dataQ') /\ dataQ'[i] = dataQ[i]
        /\ \A i \in 1 .. Len(dataQ') : \/ i \in 1 .. Len(dataQ) /\ dataQ'[i] = dataQ[i]
                                       \/ dataQ'[i] = t
    <3>1. Len(dataQ') = Len(dataQ) + 1 /\ Len(dataQ) \in Nat
      BY <1>1, <2>1, TaskTypes, AppendProperties
    <3> QED
      BY <1>1, <2>1, <3>1, TaskTypes, AppendPlaces, AppendProperties
  <2>4. Cut' = Cut /\ ~Cutting'
    BY <2>2 DEF Cut, Cutting
  <2>5. \A r \in Row : Covered(r) => Covered(r)'
    BY <1>2, <2>3 DEF Covered
  <2>6. Ending' => Ending
    <3>1. spc' = "finish" => spc = "finish"
      BY <2>2
    <3>2. (\E i \in 1 .. Len(dataQ') : dataQ'[i].kind = "finish") => Ending
      BY <2>1, <2>3 DEF Ending
    <3> QED
      BY <1>3, <3>1, <3>2 DEF Ending
  <2>7. Taken' => \A i \in 1 .. Len(dataQ') : dataQ'[i].kind # "page"
    BY <1>3, <2>1, <2>3 DEF CoverBody
  <2>8. Ending' => ~Cutting' /\ DataCount <= start'
    BY <2>2, <2>4, <2>6 DEF CoverBody
  <2>9. \A r \in Row : r < Cut' => Covered(r)'
    BY <2>4, <2>5 DEF CoverBody
  <2>10. \A i \in 1 .. Len(ackQ') : ackQ'[i]
    BY <2>2 DEF CoverBody
  <2> QED
    BY <2>7, <2>8, <2>9, <2>10 DEF CoverBody
<1> QED
  BY <1>6, <1>7, <1>8, <1>9, <1>10 DEF SourceNext

(* A page cut below the counted rows is not empty when the source holds    *)
(* what it counted.                                                        *)
LEMMA PageNotEmpty ==
  ASSUME held = DataCount, NEW s \in Nat, s < DataCount
  PROVE  RowCount(s) > 0 /\ \A r \in Row : Within(r, s) => r \in PageRows(s)
<1>1. DataCount \in Nat /\ Limit \in Nat \ {0}
  BY SizeAssumption
<1>2. \A r \in Row : Within(r, s) => r \in PageRows(s)
  BY <1>1 DEF Within, PageRows, Row
<1>3. s \in PageRows(s)
  BY <1>1 DEF PageRows, Row
<1>4. IsFiniteSet(Row) /\ PageRows(s) \subseteq Row
  BY <1>1, FS_Interval DEF Row, PageRows
<1>5. IsFiniteSet(PageRows(s)) /\ Cardinality(PageRows(s)) \in Nat
  BY <1>4, FS_Subset, FS_CardinalityType
<1>6. Cardinality(PageRows(s)) # 0
  BY <1>3, <1>5, FS_EmptySet
<1> QED
  BY <1>2, <1>5, <1>6 DEF RowCount

LEMMA WriterCover ==
  ASSUME TypeInv, TypeOK', FlowInv, CallInv, CallInv', PlaceInv, CoverBody, AllClean, AllClean',
         held = DataCount, [Next]_vars, NEW w \in Writer, WriterNext(w) \/ WriterVanish(w)
  PROVE  CoverBody'
<1>1. /\ TypeOK /\ page[w] \in Nat /\ written \in [Row -> Nat]
      /\ UNCHANGED <<spc, start, held, record>>
      /\ \A v \in Writer : v # w => wpc'[v] = wpc[v] /\ page'[v] = page[v]
      /\ \A r \in Row : written[r] \in Nat
  BY WriterEffect DEF TypeInv, TypeOK, sourceVars
<1>2. wpc'[w] \notin {"fail", "raise"}
  BY FailsClean
<1>3. Cut' = Cut /\ Cutting' = Cutting
  BY <1>1 DEF Cut, Cutting
<1>4. ASSUME Taken', ~(WriterGet(w) /\ wpc'[w] = "return") PROVE Taken
  <2>1. ASSUME NEW v \in Writer, WriterGet(v), wpc'[v] = "return" PROVE FALSE
    <3>1. wpc[v] = "get"
      BY <2>1 DEF WriterGet
    <3>2. v = w
      BY <1>1, <2>1, <3>1
    <3> QED
      BY <1>4, <2>1, <3>2
  <2> QED
    BY <1>4, <2>1, TakenBack
<1>5. CASE WriterGet(w)
  <2>1. /\ 1 \in 1 .. Len(dataQ) /\ wpc[w] = "get"
        /\ \/ wpc'[w] = "page" /\ dataQ[1].kind = "page" /\ page'[w] = dataQ[1].start
           \/ wpc'[w] = "return" /\ dataQ[1].kind = "finish"
        /\ \A i \in 1 .. Len(dataQ') : i + 1 \in 1 .. Len(dataQ) /\ dataQ'[i] = dataQ[i + 1]
        /\ \A i \in 1 .. Len(dataQ) : i # 1 => i - 1 \in 1 .. Len(dataQ') /\ dataQ'[i - 1] = dataQ[i]
    BY <1>1, <1>2, <1>5, GetEffect
  <2>2. UNCHANGED <<ackQ, written>>
    BY <1>5 DEF WriterGet
  <2>3. ASSUME NEW r \in Row, Covered(r) PROVE Covered(r)'
    <3>1. CASE written[r] > 0
      BY <2>2, <3>1 DEF Covered
    <3>2. ASSUME NEW i \in 1 .. Len(dataQ), dataQ[i].kind = "page", Within(r, dataQ[i].start)
          PROVE  Covered(r)'
      <4>1. CASE i = 1
        BY <2>1, <3>2, <4>1 DEF Covered
      <4>2. CASE i # 1
        BY <2>1, <3>2, <4>2 DEF Covered
      <4> QED
        BY <4>1, <4>2
    <3>3. ASSUME NEW v \in Writer, wpc[v] = "page", Within(r, page[v]) PROVE Covered(r)'
      <4>1. wpc'[v] = "page" /\ page'[v] = page[v]
        BY <1>1, <2>1, <3>3
      <4> QED
        BY <3>3, <4>1 DEF Covered
    <3> QED
      BY <2>3, <3>1, <3>2, <3>3 DEF Covered
  <2>4. CASE wpc'[w] = "page"
    <3>1. Taken' => Taken
      BY <1>4, <2>4
    <3>2. Ending' => Ending
      BY <1>1, <2>1, <3>1 DEF Ending
    <3>3. Taken' => \A i \in 1 .. Len(dataQ') : dataQ'[i].kind # "page"
      BY <2>1, <3>1 DEF CoverBody
    <3> QED
      BY <1>1, <1>3, <2>2, <2>3, <3>2, <3>3 DEF CoverBody
  <2>5. CASE wpc'[w] = "return"
    <3>1. dataQ[1].kind = "finish"
      BY <2>1, <2>5
    <3>2. ~Cutting /\ DataCount <= start
      BY <2>1, <3>1 DEF CoverBody, Ending
    <3>3. ASSUME NEW i \in 1 .. Len(dataQ') PROVE dataQ'[i].kind # "page"
      <4>1. i + 1 \in 1 .. Len(dataQ) /\ dataQ'[i] = dataQ[i + 1] /\ 1 < i + 1
        BY <2>1
      <4> QED
        BY <2>1, <3>1, <4>1 DEF PlaceInv
    <3> QED
      BY <1>1, <1>3, <2>2, <2>3, <3>2, <3>3 DEF CoverBody
  <2> QED
    BY <2>1, <2>4, <2>5
<1>6. CASE ~WriterGet(w)
  <2>1. UNCHANGED <<dataQ, page>> /\ (Taken' => Taken)
    BY <1>1, <1>4, <1>6, WriterEffect
  <2>2. CASE WriterWrite(w)
    <3>1. /\ wpc[w] = "page" /\ Land(PageRows(page[w])) /\ ackQ' = ackQ
      BY <2>2 DEF WriterWrite, queueVars
    <3>2. \A r \in Row : /\ written[r] > 0 => written'[r] > 0
                         /\ r \in PageRows(page[w]) => written'[r] > 0
      BY <1>1, <3>1 DEF Land
    <3>3. page[w] < DataCount
      BY <3>1 DEF PlaceInv
    <3>4. \A r \in Row : Within(r, page[w]) => written'[r] > 0
      BY <1>1, <3>2, <3>3, PageNotEmpty
    <3>5. ASSUME NEW r \in Row, Covered(r) PROVE Covered(r)'
      <4>1. CASE written[r] > 0 \/ Within(r, page[w])
        BY <3>2, <3>4, <4>1 DEF Covered
      <4>2. CASE ~Within(r, page[w])
        BY <1>1, <2>1, <3>2, <3>5, <4>2 DEF Covered
      <4> QED
        BY <4>1, <4>2
    <3> QED
      BY <1>1, <1>3, <2>1, <3>1, <3>5, CoverKept
  <2>3. CASE ~WriterWrite(w)
    <3>1. ~WriterError(w) /\ ~WriterTimeout(w) /\ ~WriterFail(w)
      BY <1>1, <1>2 DEF WriterError, WriterTimeout, WriterFail, TypeOK
    <3>2. written' = written
      BY <1>1, <2>3, <3>1, WriterEffect
    <3>3. wpc[w] # "page"
      BY <1>6, <2>3, <3>1 DEF WriterNext, WriterBegin, WriterAnswer, WriterCutOff, WriterReport,
         WriterExit, WriterVanish
    <3>4. \A r \in Row : Covered(r) => Covered(r)'
      BY <1>1, <2>1, <3>2, <3>3 DEF Covered
    <3>5. CASE ~WriterAnswer(w)
      <4>1. ackQ' = ackQ
        BY <1>1, <3>1, <3>5, WriterEffect
      <4> QED
        BY <1>1, <1>3, <2>1, <3>4, <4>1, CoverKept
    <3>6. CASE WriterAnswer(w)
      <4>1. /\ ackQ \in Seq(BOOLEAN) /\ wpc[w] = "wrote"
            /\ ackQ' = Append(ackQ, RowCount(page[w]) > 0)
        BY <1>1, <3>6 DEF WriterAnswer, TypeOK
      <4>2. RowCount(page[w]) > 0
        BY <1>1, <4>1, PageNotEmpty DEF PlaceInv
      <4>3. ackQ' = Append(ackQ, TRUE)
        BY <4>1, <4>2, Zenon
      <4>4. \A i \in 1 .. Len(ackQ') : \/ i \in 1 .. Len(ackQ) /\ ackQ'[i] = ackQ[i]
                                       \/ ackQ'[i] = TRUE
        <5>1. TRUE \in BOOLEAN
          OBVIOUS
        <5>2. ASSUME NEW i \in 1 .. Len(Append(ackQ, TRUE))
              PROVE  \/ i \in 1 .. Len(ackQ) /\ Append(ackQ, TRUE)[i] = ackQ[i]
                     \/ Append(ackQ, TRUE)[i] = TRUE
          BY <4>1, <5>1, <5>2, AppendPlaces, Zenon
        <5> QED
          BY <4>3, <5>2, Zenon
      <4>5. \A i \in 1 .. Len(ackQ') : ackQ'[i]
        BY <4>4 DEF CoverBody
      <4>6. Ending' => Ending
        BY <1>1, <2>1 DEF Ending
      <4> QED
        BY <1>1, <1>3, <2>1, <3>4, <4>5, <4>6 DEF CoverBody
    <3> QED
      BY <3>5, <3>6
  <2> QED
    BY <2>2, <2>3
<1> QED
  BY <1>5, <1>6

LEMMA NextCover ==
  ASSUME TypeInv, TypeOK', FlowInv, CallInv, CallInv', PlaceInv, CoverInv, [Next]_vars
  PROVE  CoverInv'
<1> SUFFICES ASSUME AllClean', held' = DataCount PROVE CoverBody'
  BY DEF CoverInv, CoverBody
<1>1. TypeOK
  BY DEF TypeInv
<1>2. held' = held
  BY <1>1, SourceEffect, WriterEffect, CallerEffect DEF Next, LateWrite, vars, envVars
<1>3. AllClean /\ held = DataCount /\ CoverBody
  BY <1>2, AllCleanBack DEF CoverInv, CoverBody
<1>4. CASE SourceNext \/ SourceVanish
  BY <1>3, <1>4, SourceCover
<1>5. ASSUME NEW w \in Writer, WriterNext(w) \/ WriterVanish(w) PROVE CoverBody'
  BY <1>3, <1>5, WriterCover
<1>6. CASE CallerNext
  <2>1. /\ UNCHANGED <<dataQ, ackQ, start, page, written>>
        /\ spc' = spc \/ (spc = "new" /\ spc' = "count")
    BY <1>1, <1>6, CallerEffect DEF StartSource, TypeInv, WindowInv
  <2>2. Cut' = Cut /\ Cutting' = Cutting /\ (spc' = "finish" => spc = "finish")
    BY <2>1 DEF Cut, Cutting
  <2>3. \A w \in Writer : wpc[w] = "page" => wpc'[w] = "page"
    <3>1. CASE StartWriter
      <4>1. idx \in Writer /\ wpc[idx] = "new" /\ \A u \in Writer : u # idx => wpc'[u] = wpc[u]
        BY <1>1, <3>1 DEF StartWriter, TypeOK, FlowInv, StartInv, Writer
      <4> QED
        BY <4>1
    <3>2. CASE ~StartWriter
      BY <1>1, <1>6, <3>2, CallerEffect
    <3> QED
      BY <3>1, <3>2
  <2>4. Taken' => Taken
    <3>1. ASSUME NEW w \in Writer, WriterGet(w), wpc'[w] = "return" PROVE FALSE
      <4>1. wpc[w] = "get" /\ dataQ # <<>> /\ dataQ' = Tail(dataQ)
        BY <3>1 DEF WriterGet
      <4>2. Len(Tail(dataQ)) # Len(dataQ)
        BY <1>1, <4>1, TaskTypes, HeadTailProperties
      <4> QED
        BY <2>1, <4>1, <4>2
    <3> QED
      BY <3>1, TakenBack
  <2>5. \A r \in Row : Covered(r) => Covered(r)'
    BY <2>1, <2>3, CoveredKept
  <2> QED
    BY <1>3, <2>1, <2>2, <2>4, <2>5, CoverKept
<1>7. CASE UNCHANGED vars \/ \E s \in late : LateWrite(s)
  <2>1. UNCHANGED <<dataQ, ackQ, start, page, spc, wpc, resultQ, record>>
    BY <1>7 DEF vars, LateWrite, queueVars, sourceVars, writerVars, brokerVars
  <2>2. \A r \in Row : written[r] > 0 => written'[r] > 0
    <3>1. written' = written \/ \E rows : Land(rows)
      BY <1>7 DEF vars, writerVars, LateWrite
    <3>2. \A r \in Row : written[r] \in Nat
      BY <1>1 DEF TypeOK
    <3> QED
      BY <3>1, <3>2 DEF Land
  <2>3. Cut' = Cut /\ Cutting' = Cutting
    BY <2>1 DEF Cut, Cutting
  <2>4. Taken' <=> Taken
    BY <2>1 DEF Taken, Succeeded
  <2>5. \A r \in Row : Covered(r) => Covered(r)'
    BY <2>1, <2>2, CoveredKept
  <2> QED
    BY <1>3, <2>1, <2>3, <2>4, <2>5, CoverKept
<1> QED
  BY <1>4, <1>5, <1>6, <1>7 DEF Next

-----------------------------------------------------------------------------
LEMMA RowsFinite == \A S \in SUBSET Row : IsFiniteSet(S) /\ Cardinality(S) \in Nat
<1>1. IsFiniteSet(Row)
  BY SizeAssumption, FS_Interval DEF Row
<1> QED
  BY <1>1, FS_Subset, FS_CardinalityType

LEMMA RowsNumber == Cardinality(Row) = DataCount
<1>1. DataCount - 1 \in Int /\ 0 \in Int /\ DataCount \in Nat
  BY SizeAssumption
<1>2. Cardinality(0 .. DataCount - 1) = IF 0 > DataCount - 1 THEN 0 ELSE DataCount - 1 - 0 + 1
  BY <1>1, FS_Interval
<1> QED
  BY <1>1, <1>2 DEF Row

(* The cardinality of a union of two disjoint sets of rows.                *)
LEMMA DisjointRows ==
  ASSUME NEW S \in SUBSET Row, NEW T \in SUBSET Row, S \cap T = {}
  PROVE  Cardinality(S \cup T) = Cardinality(S) + Cardinality(T)
<1>1. /\ IsFiniteSet(S) /\ IsFiniteSet(T)
      /\ Cardinality(S) \in Nat /\ Cardinality(T) \in Nat
  BY RowsFinite
<1>2. Cardinality(S \cup T) = Cardinality(S) + Cardinality(T) - Cardinality({})
  BY <1>1, FS_Union
<1> QED
  BY <1>1, <1>2, FS_EmptySet

(* Before the caller adds up it has counted no row.                        *)
LEMMA NoneCounted ==
  ASSUME Passed = 1, NEW o \in [Row -> Writer \cup {0}]
  PROVE  Counted(o) = {}
<1>1. ASSUME NEW r \in Row, o[r] # 0 PROVE ~(o[r] < 1)
  <2>1. o[r] \in Writer
    BY <1>1
  <2> QED
    BY <2>1 DEF Writer
<1> QED
  BY <1>1 DEF Counted

(* A step that lands and counts nothing, and goes past no report.          *)
LEMMA CountKept ==
  ASSUME CountInv, UNCHANGED <<written, total>>, AllClean' => AllClean,
         verdict' # "raised" => verdict # "raised" /\ reported' = reported,
         (Passed' = Passed /\ UNCHANGED record) \/ (Passed = 1 /\ Passed' = 1)
  PROVE  CountInv'
<1>1. PICK o \in [Row -> Writer \cup {0}] : Counts(o)
  BY DEF CountInv
<1>2. Counted(o)' = Counted(o)
  <2>1. CASE Passed' = Passed /\ UNCHANGED record
    BY <2>1 DEF Counted
  <2>2. CASE Passed = 1 /\ Passed' = 1
    <3>1. Counted(o) = {}
      BY <2>2, NoneCounted
    <3>2. Counted(o)' = {}
      <4>1. ASSUME NEW r \in Row, o[r] # 0 PROVE ~(o[r] < 1)
        <5>1. o[r] \in Writer
          BY <4>1
        <5> QED
          BY <5>1 DEF Writer
      <4> QED
        BY <2>2, <4>1 DEF Counted
    <3> QED
      BY <3>1, <3>2
  <2> QED
    BY <2>1, <2>2
<1>3. Counts(o)'
  BY <1>1, <1>2 DEF Counts, Own
<1> QED
  BY <1>3 DEF CountInv

(* Rows that land unowned, left by a writer that failed.                   *)
LEMMA CountOrphans ==
  ASSUME TypeOK, CountInv, ~AllClean', NEW rows \in SUBSET Row, Land(rows),
         \A r \in rows : written[r] = 0,
         UNCHANGED <<total, record, mpc, idx, verdict, reported>>
  PROVE  CountInv'
<1>1. PICK o \in [Row -> Writer \cup {0}] : Counts(o)
  BY DEF CountInv
<1>2. Passed' = Passed /\ Counted(o)' = Counted(o)
  BY DEF Passed, Counted
<1>3. \A r \in Row : o[r] # 0 => written'[r] = 1
  BY <1>1 DEF Counts, Land
<1>4. Counts(o)'
  BY <1>1, <1>2, <1>3 DEF Counts, Own
<1> QED
  BY <1>4 DEF CountInv

(* A page at a writer, or with a timed-out write, holds no written row.    *)
LEMMA PendingRows ==
  ASSUME NEW s \in Nat, Pending(s)
  PROVE  PageRows(s) \in SUBSET Row /\ \A r \in PageRows(s) : written[r] = 0
  BY DEF Pending, Unwritten, PageRows

LEMMA WriteCount ==
  ASSUME TypeOK, OnceInv, CallInv, CountInv, AllClean' => AllClean,
         NEW w \in Writer, WriterWrite(w)
  PROVE  CountInv'
<1>1. /\ wpc[w] = "page" /\ page[w] \in Nat /\ Pending(page[w]) /\ Land(PageRows(page[w]))
      /\ total' = [total EXCEPT ![w] = @ + RowCount(page[w])]
      /\ UNCHANGED <<record, mpc, idx, verdict, reported>>
  BY DEF WriterWrite, TypeOK, OnceInv, AllPending, AtWork, brokerVars, callerVars
<1>2. PICK o \in [Row -> Writer \cup {0}] : Counts(o)
  BY DEF CountInv
<1>3. PICK rows \in SUBSET Row : rows = PageRows(page[w])
  BY <1>1, PendingRows
<1>4. /\ \A r \in rows : written[r] = 0
      /\ \A r \in Row : written'[r] = IF r \in rows THEN written[r] + 1 ELSE written[r]
      /\ \A r \in Row : written[r] \in Nat
  BY <1>1, <1>3, PendingRows DEF Land, TypeOK
<1>5. \A r \in rows : o[r] = 0
  BY <1>2, <1>4 DEF Counts
<1>6. PICK mine \in [Row -> Writer \cup {0}] :
        \A r \in Row : mine[r] = IF r \in rows THEN w ELSE o[r]
  <2> DEFINE m == [r \in Row |-> IF r \in rows THEN w ELSE o[r]]
  <2>1. m \in [Row -> Writer \cup {0}]
    BY <1>2
  <2>2. \A r \in Row : m[r] = IF r \in rows THEN w ELSE o[r]
    OBVIOUS
  <2> HIDE DEF m
  <2> QED
    BY <2>1, <2>2
<1>7. w # 0
  BY DEF Writer
<1>8. ASSUME NEW v \in Writer PROVE total'[v] = Cardinality(Own(mine, v))
  <2>1. /\ total[v] = Cardinality(Own(o, v))
        /\ total'[v] = IF v = w THEN total[w] + Cardinality(rows) ELSE total[v]
    BY <1>1, <1>2, <1>3 DEF Counts, TypeOK, RowCount
  <2>2. CASE v # w
    <3>1. Own(mine, v) = Own(o, v)
      <4>1. v # 0
        BY DEF Writer
      <4> QED
        BY <1>5, <1>6, <2>2, <4>1 DEF Own
    <3> QED
      BY <2>1, <2>2, <3>1
  <2>3. CASE v = w
    <3>1. Own(mine, w) = Own(o, w) \cup rows /\ Own(o, w) \cap rows = {}
      BY <1>5, <1>6, <1>7 DEF Own
    <3>2. Own(o, w) \in SUBSET Row
      BY DEF Own
    <3>3. Cardinality(Own(o, w) \cup rows) = Cardinality(Own(o, w)) + Cardinality(rows)
      BY <3>1, <3>2, DisjointRows
    <3> QED
      BY <2>1, <2>3, <3>1, <3>3
  <2> QED
    BY <2>2, <2>3
<1>9. record[w].state # Finished
  <2>1. ASSUME record[w].state = Finished PROVE FALSE
    <3>1. record[w] # NoReport
      BY <2>1 DEF NoReport, Finished
    <3>2. Over(w)
      BY <3>1 DEF CallInv, ReportInv, Real
    <3> QED
      BY <1>1, <3>2 DEF Over
  <2> QED
    BY <2>1
<1>10. Counted(mine)' = Counted(o)
  <2>1. Passed' = Passed
    BY <1>1 DEF Passed
  <2> QED
    BY <1>1, <1>5, <1>6, <1>9, <2>1 DEF Counted
<1>11. \A r \in Row : mine[r] # 0 => written'[r] = 1
  BY <1>2, <1>4, <1>6 DEF Counts
<1>12. \A r \in Row : mine[r] = 0 /\ written'[r] > 0 => ~AllClean'
  BY <1>2, <1>4, <1>6, <1>7 DEF Counts
<1>13. Counts(mine)'
  <2>1. \A v \in Writer : total'[v] = Cardinality(Own(mine, v))
    BY <1>8
  <2>2. verdict' # "raised" => reported' = Cardinality(Counted(mine)')
    BY <1>1, <1>2, <1>10 DEF Counts
  <2> QED
    BY <1>11, <1>12, <2>1, <2>2 DEF Counts, Own
<1> QED
  BY <1>13 DEF CountInv

(* The caller adds the rows of one more report.                            *)
LEMMA SumCount ==
  ASSUME TypeOK, CallInv, CountInv, AllClean' => AllClean, SumReport
  PROVE  CountInv'
<1>1. /\ mpc = "sum" /\ verdict = "none" /\ UNCHANGED <<written, total, record>>
      /\ idx \in Writer /\ idx \in Nat /\ ProcessCount \in Nat /\ idx <= ProcessCount
  BY SizeAssumption DEF SumReport, writerVars, brokerVars, CallInv, MarkInv, TypeOK, Writer
<1>2. PICK o \in [Row -> Writer \cup {0}] : Counts(o)
  BY DEF CountInv
<1>3. \A r \in Row : o[r] # 0 => o[r] \in Nat
  <2>1. \A w \in Writer : w \in Nat
    BY DEF Writer
  <2> QED
    BY <2>1
<1>4. CASE record[idx].state = Errored
  <2>1. verdict' = "raised"
    BY <1>4 DEF SumReport
  <2>2. Counts(o)'
    BY <1>1, <1>2, <2>1 DEF Counts, Own
  <2> QED
    BY <2>2 DEF CountInv
<1>5. CASE record[idx].state # Errored
  <2>1. /\ reported' = reported + record[idx].rows
        /\ Passed = idx /\ Passed' = idx + 1 /\ verdict' # "raised"
    BY <1>1, <1>5 DEF SumReport, Passed
  <2>2. reported = Cardinality(Counted(o))
    BY <1>1, <1>2 DEF Counts
  <2>3. Counted(o) \in SUBSET Row /\ Own(o, idx) \in SUBSET Row
    BY DEF Counted, Own
  <2>4. Cardinality(Counted(o)) \in Nat
    BY <2>3, RowsFinite
  <2>5. CASE record[idx].state = Finished
    <3>1. record[idx].rows = total[idx]
      <4>1. record[idx] # NoReport
        BY <2>5 DEF NoReport, Finished
      <4>2. record[idx].id = idx /\ Real(record[idx])
        BY <1>1, <4>1 DEF CallInv, ReportInv
      <4> QED
        BY <2>5, <4>2 DEF Real
    <3>2. total[idx] = Cardinality(Own(o, idx))
      BY <1>1, <1>2 DEF Counts
    <3>3. Counted(o)' = Counted(o) \cup Own(o, idx) /\ Counted(o) \cap Own(o, idx) = {}
      <4>1. \A r \in Row : o[r] # 0 => (o[r] < idx + 1 <=> o[r] < idx \/ o[r] = idx)
        BY <1>1, <1>3
      <4>2. idx # 0 /\ \A r \in Row : o[r] = idx => ~(o[r] < idx)
        BY <1>1 DEF Writer
      <4> QED
        BY <1>1, <2>1, <2>5, <4>1, <4>2 DEF Counted, Own
    <3>4. Cardinality(Counted(o) \cup Own(o, idx)) = Cardinality(Counted(o)) + Cardinality(Own(o, idx))
      BY <2>3, <3>3, DisjointRows
    <3>5. reported' = Cardinality(Counted(o)')
      BY <2>1, <2>2, <3>1, <3>2, <3>3, <3>4
    <3>6. Counts(o)'
      BY <1>1, <1>2, <3>5 DEF Counts, Own
    <3> QED
      BY <3>6 DEF CountInv
  <2>6. CASE record[idx].state # Finished
    <3>1. record[idx].rows = 0
      <4>1. record[idx] = NoReport
        BY <1>1, <1>5, <2>6 DEF TypeOK, Report
      <4> QED
        BY <4>1 DEF NoReport
    <3>2. Counted(o)' = Counted(o)
      <4>1. \A r \in Row : o[r] # 0 => (o[r] < idx + 1 <=> o[r] < idx \/ o[r] = idx)
        BY <1>1, <1>3
      <4> QED
        BY <1>1, <2>1, <2>6, <4>1 DEF Counted
    <3>3. reported' = Cardinality(Counted(o)')
      BY <2>1, <2>2, <2>4, <3>1, <3>2
    <3>4. Counts(o)'
      BY <1>1, <1>2, <3>3 DEF Counts, Own
    <3> QED
      BY <3>4 DEF CountInv
  <2> QED
    BY <2>5, <2>6
<1> QED
  BY <1>4, <1>5

LEMMA NextCount ==
  ASSUME TypeInv, TypeOK', OnceInv, FlowInv, CallInv, CallInv', LateInv, CountInv, [Next]_vars
  PROVE  CountInv'
<1>1. TypeOK /\ (AllClean' => AllClean)
  BY AllCleanBack DEF TypeInv
<1>2. ASSUME UNCHANGED <<written, total, record, callerVars>> PROVE CountInv'
  <2>1. Passed' = Passed
    BY <1>2 DEF Passed, callerVars
  <2> QED
    BY <1>1, <1>2, <2>1, CountKept DEF callerVars
<1>3. CASE SourceNext \/ SourceVanish \/ UNCHANGED vars
  BY <1>2, <1>3, SourceEffect DEF writerVars, brokerVars, vars
<1>4. ASSUME NEW w \in Writer, WriterNext(w) \/ WriterVanish(w) PROVE CountInv'
  <2>1. CASE WriterWrite(w)
    BY <1>1, <2>1, WriteCount
  <2>2. CASE WriterError(w) /\ written' # written
    <3>1. /\ wpc[w] = "page" /\ page[w] \in Nat /\ Pending(page[w]) /\ Land(PageRows(page[w]))
          /\ UNCHANGED <<total, record, mpc, idx, verdict, reported>> /\ wpc'[w] = "fail"
      BY <1>1, <2>2 DEF WriterError, TypeOK, OnceInv, AllPending, AtWork, brokerVars, callerVars
    <3>2. ~AllClean'
      BY <3>1, FailsClean
    <3> QED
      BY <1>1, <3>1, <3>2, PendingRows, CountOrphans
  <2>3. CASE ~WriterWrite(w) /\ ~(WriterError(w) /\ written' # written)
    BY <1>1, <1>2, <1>4, <2>3, WriterEffect
  <2> QED
    BY <2>1, <2>2, <2>3
<1>5. ASSUME NEW s \in late, LateWrite(s) PROVE CountInv'
  <2>1. /\ s \in Nat /\ Pending(s) /\ Land(PageRows(s))
        /\ UNCHANGED <<total, record, mpc, idx, verdict, reported>>
    BY <1>1, <1>5 DEF LateWrite, TypeOK, OnceInv, AllPending, brokerVars, callerVars
  <2>2. ~AllClean'
    BY <1>1 DEF LateInv
  <2> QED
    BY <1>1, <2>1, <2>2, PendingRows, CountOrphans
<1>6. CASE CallerNext
  <2>1. UNCHANGED <<written, total>>
    BY <1>1, <1>6, CallerEffect
  <2>2. CASE SumReport
    BY <1>1, <2>2, SumCount
  <2>3. CASE Shutdown
    <3>1. UNCHANGED <<record, verdict, reported>> /\ Passed' = Passed
      BY <2>3 DEF Shutdown, brokerVars, Passed
    <3> QED
      BY <1>1, <2>1, <3>1, CountKept
  <2>4. CASE StartSource \/ StartWriter \/ Collect \/ CollectError \/ CheckThread
    <3>1. Collecting /\ verdict = "none" /\ UNCHANGED <<verdict, reported>>
      BY <2>4 DEF StartSource, StartWriter, Collect, CollectError, CheckThread, Collecting,
        CallInv, MarkInv
    <3>2. Passed = 1
      BY <3>1 DEF Passed, Collecting
    <3>3. mpc' = "sum" => idx' = 1
      BY <2>4 DEF StartSource, StartWriter, Collect, CollectError, CheckThread, FlowInv, StartInv
    <3>4. Passed' = 1
      BY <3>1, <3>3 DEF Passed
    <3> QED
      BY <1>1, <2>1, <3>1, <3>2, <3>4, CountKept
  <2> QED
    BY <1>6, <2>2, <2>3, <2>4 DEF CallerNext
<1> QED
  BY <1>3, <1>4, <1>5, <1>6 DEF Next

-----------------------------------------------------------------------------
LEMMA InitBulk == Init => BulkInv
<1> SUFFICES ASSUME Init PROVE BulkInv
  OBVIOUS
<1>1. CallInv
  BY InitCall
<1>2. /\ spc = "new" /\ start = 0 /\ dataQ = <<>> /\ ackQ = <<>> /\ late = {} /\ resultQ = <<>>
      /\ mpc = "source" /\ verdict = "none" /\ reported = 0
      /\ \A w \in Writer : wpc[w] = "new" /\ record[w] = NoReport /\ total[w] = 0
      /\ \A r \in Row : written[r] = 0
  BY DEF Init
<1>3. PlaceInv /\ LateInv
  BY <1>2 DEF PlaceInv, LateInv
<1>4. ~Ending
  BY <1>2 DEF Ending, Taken, Succeeded, NoReport, Finished
<1>5. \A r \in Row : ~(r < Cut)
  BY <1>2 DEF Cut, Row
<1>6. CoverInv
  BY <1>2, <1>4, <1>5 DEF CoverInv, Ending
<1>7. CountInv
  <2>1. PICK o \in [Row -> Writer \cup {0}] : \A r \in Row : o[r] = 0
    <3>1. [r \in Row |-> 0] \in [Row -> Writer \cup {0}]
      OBVIOUS
    <3> QED
      BY <3>1
  <2>2. \A w \in Writer : Own(o, w) = {}
    BY <2>1 DEF Own, Writer
  <2>3. Counted(o) = {}
    BY <2>1 DEF Counted
  <2>4. Counts(o)
    <3>1. Cardinality({}) = 0
      BY FS_EmptySet
    <3>2. \A w \in Writer : total[w] = Cardinality(Own(o, w))
      BY <1>2, <2>2, <3>1
    <3>3. reported = Cardinality(Counted(o))
      BY <1>2, <2>3, <3>1
    <3>4. \A r \in Row : ~(written[r] > 0)
      BY <1>2
    <3> QED
      BY <2>1, <3>2, <3>3, <3>4 DEF Counts
  <2> QED
    BY <2>4 DEF CountInv
<1> QED
  BY <1>1, <1>3, <1>6, <1>7 DEF BulkInv

LoadInv == TypeInv /\ OnceInv /\ FlowInv /\ BulkInv

LEMMA NextLoad == LoadInv /\ [Next]_vars => LoadInv'
<1> SUFFICES ASSUME LoadInv, [Next]_vars PROVE LoadInv'
  OBVIOUS
<1>1. TypeInv' /\ OnceInv' /\ FlowInv' /\ TypeOK'
  BY NextType, NextOnce, NextFlow DEF LoadInv, TypeInv
<1>2. CallInv'
  BY <1>1, NextCall DEF LoadInv, BulkInv
<1>3. PlaceInv'
  BY NextPlace DEF LoadInv, BulkInv
<1>4. CoverInv'
  BY <1>1, <1>2, NextCover DEF LoadInv, BulkInv
<1>5. CountInv'
  BY <1>1, <1>2, NextCount DEF LoadInv, BulkInv
<1>6. LateInv'
  BY <1>1, <1>2, NextLate DEF LoadInv, BulkInv
<1> QED
  BY <1>1, <1>2, <1>3, <1>4, <1>5, <1>6 DEF LoadInv, BulkInv

LEMMA LoadInvariance == Spec => []LoadInv
<1>1. Init => LoadInv
  BY InitType, InitOnce, InitFlow, InitBulk DEF LoadInv
<1> QED
  BY <1>1, NextLoad, PTL DEF Spec

(* When every record says that its writer finished, all rows were cut and  *)
(* landed, and each is owned by a writer whose report was added.           *)
LEMMA AllSeen ==
  ASSUME LoadInv, verdict = "returned", held = DataCount,
         \A w \in Writer : record[w].state = Finished
  PROVE  (\A r \in Row : written[r] = 1) /\ reported = DataCount
<1>1. TypeOK /\ \A w \in Writer : Over(w) /\ Succeeded(w)
  BY DEF LoadInv, TypeInv, BulkInv, CallInv, MarkInv, Succeeded
<1>2. AllClean
  BY <1>1 DEF AllClean, Clean
<1>3. Taken
  <2>1. 1 \in Writer
    BY SizeAssumption DEF Writer
  <2> QED
    BY <1>1, <2>1 DEF Taken
<1>4. /\ \A r \in Row : r < Cut => Covered(r)
      /\ ~Cutting /\ DataCount <= start
      /\ \A i \in 1 .. Len(dataQ) : dataQ[i].kind # "page"
  BY <1>2, <1>3 DEF LoadInv, BulkInv, CoverInv, Ending
<1>5. \A r \in Row : r < Cut
  <2>1. Cut = start /\ start \in Nat /\ DataCount \in Nat /\ DataCount <= start
    BY <1>1, <1>4, SizeAssumption DEF Cut, Cutting, TypeOK
  <2> QED
    BY <2>1 DEF Row
<1>6. \A r \in Row : written[r] > 0
  <2> SUFFICES ASSUME NEW r \in Row PROVE written[r] > 0
    OBVIOUS
  <2>1. Covered(r)
    BY <1>4, <1>5
  <2>2. \A w \in Writer : wpc[w] # "page"
    BY <1>1 DEF Over
  <2> QED
    BY <1>4, <2>1, <2>2 DEF Covered
<1>7. \A r \in Row : written[r] = 1
  <2>1. \A r \in Row : written[r] \in Nat /\ written[r] <= 1
    BY <1>1 DEF TypeOK, LoadInv, OnceInv, AtMostOnce
  <2> QED
    BY <1>6, <2>1
<1>8. reported = DataCount
  <2>1. PICK o \in [Row -> Writer \cup {0}] : Counts(o)
    BY DEF LoadInv, BulkInv, CountInv
  <2>2. \A r \in Row : o[r] \in Writer
    BY <1>2, <1>6, <2>1 DEF Counts
  <2>3. Passed = ProcessCount + 1
    BY DEF Passed, LoadInv, BulkInv, CallInv, MarkInv
  <2>4. \A w \in Writer : w # 0 /\ w < ProcessCount + 1
    BY SizeAssumption DEF Writer
  <2>5. Counted(o) = Row
    BY <2>2, <2>3, <2>4 DEF Counted
  <2> QED
    BY <2>1, <2>5, RowsNumber DEF Counts
<1> QED
  BY <1>7, <1>8

(* A return leaves no writer at work, and when every writer reported that  *)
(* it finished and the source held what it counted, all of it was written  *)
(* and counted: __check_unfinished_threads and the sum over the reports in *)
(* ParallelThreadIntegrationExecute, for every number of writers, page     *)
(* size and row count.                                                     *)
THEOREM ReturnIsComplete == Spec => []CompleteOnSuccess
<1>1. LoadInv => CompleteOnSuccess
  <2> SUFFICES ASSUME LoadInv, verdict = "returned"
               PROVE  /\ \A w \in Writer : wpc[w] \in {"exiting", "dead"}
                      /\ held = DataCount /\ (\A w \in Writer : record[w].state = Finished) =>
                           /\ \A r \in Row : written[r] = 1
                           /\ reported = DataCount
    BY DEF CompleteOnSuccess
  <2>1. \A w \in Writer : wpc[w] \in {"exiting", "dead"}
    BY DEF LoadInv, BulkInv, CallInv, MarkInv, Over
  <2> QED
    BY <2>1, AllSeen
<1> QED
  BY <1>1, LoadInvariance, PTL

-----------------------------------------------------------------------------
(* The load implements BulkLoad, whose Cardinality counts as this module's.*)

LEMMA BulkCardinality == \A S : Bulk!Cardinality(S) = Cardinality(S)
  BY Zenon DEF Cardinality, Bulk!Cardinality

(* A page that lands is a batch of BulkLoad.                               *)
LEMMA LandBatch ==
  ASSUME NEW s \in Nat, Pending(s), Land(PageRows(s)), UNCHANGED <<verdict, reported>>
  PROVE  Bulk!Next
<1>1. PICK rows \in SUBSET Row : rows = PageRows(s)
  BY PendingRows
<1>2. \A r \in rows : written[r] = 0
  BY <1>1, PendingRows
<1>3. rows \cap Bulk!Landed = {}
  BY <1>2 DEF Bulk!Landed
<1>4. written' = [r \in Row |-> IF r \in rows THEN written[r] + 1 ELSE written[r]]
  BY <1>1 DEF Land
<1>5. \A r \in Row : (IF r \in rows THEN written[r] + 1 ELSE written[r])
                       = (IF r \in rows THEN 1 ELSE written[r])
  BY <1>2
<1>6. written' = [r \in Row |-> IF r \in rows THEN 1 ELSE written[r]]
  BY <1>4, <1>5
<1>7. Bulk!Land(rows)
  BY <1>3, <1>6 DEF Bulk!Land
<1> QED
  BY <1>1, <1>7 DEF Bulk!Next

LEMMA SumBatch ==
  ASSUME LoadInv, LoadInv', SumReport
  PROVE  [Bulk!Next]_(Bulk!vars)
<1>1. mpc = "sum" /\ verdict = "none" /\ written' = written
  BY DEF SumReport, writerVars, LoadInv, BulkInv, CallInv, MarkInv
<1>2. CASE verdict' = "none"
  BY <1>1, <1>2 DEF Bulk!vars
<1>3. CASE verdict' = "raised"
  BY <1>1, <1>3 DEF Bulk!Next, Bulk!Raise
<1>4. CASE verdict' = "returned"
  <2>1. PICK o \in [Row -> Writer \cup {0}] : Counts(o)'
    BY DEF LoadInv, BulkInv, CountInv
  <2>2. PICK S : S = Counted(o)'
    OBVIOUS
  <2>3. reported' = Cardinality(S)
    BY <1>4, <2>1, <2>2 DEF Counts
  <2>4. S \subseteq Bulk!Landed /\ Bulk!Landed \subseteq Row
    <3>1. \A r \in Row : o[r] # 0 => written[r] = 1
      BY <1>1, <2>1 DEF Counts
    <3>2. \A r \in S : r \in Row /\ o[r] # 0
      BY <2>2 DEF Counted
    <3> QED
      BY <3>1, <3>2 DEF Bulk!Landed
  <2>5. /\ Cardinality(S) \in Nat /\ Cardinality(Row) \in Nat
        /\ Cardinality(S) <= Cardinality(Bulk!Landed) /\ Cardinality(S) <= Cardinality(Row)
    BY <2>4, RowsFinite, FS_Subset
  <2>6. PICK n : n = Cardinality(S)
    OBVIOUS
  <2>7. n \in 0 .. Cardinality(Row) /\ n <= Cardinality(Bulk!Landed) /\ reported' = n
    BY <2>3, <2>5, <2>6
  <2>8. Bulk!Return(n)
    BY <1>1, <1>4, <2>7, BulkCardinality, Zenon DEF Bulk!Return
  <2> QED
    BY <2>7, <2>8, BulkCardinality, Zenon DEF Bulk!Next
<1> QED
  BY <1>2, <1>3, <1>4 DEF LoadInv, TypeInv, TypeOK

LEMMA StepBulk == LoadInv /\ [Next]_vars => [Bulk!Next]_(Bulk!vars)
<1> SUFFICES ASSUME LoadInv, [Next]_vars PROVE [Bulk!Next]_(Bulk!vars)
  OBVIOUS
<1>1. LoadInv' /\ TypeOK /\ OnceInv
  BY NextLoad DEF LoadInv, TypeInv
<1>2. ASSUME UNCHANGED <<written, verdict, reported>> PROVE [Bulk!Next]_(Bulk!vars)
  BY <1>2 DEF Bulk!vars
<1>3. CASE SourceNext \/ SourceVanish \/ UNCHANGED vars
  BY <1>2, <1>3, SourceEffect DEF writerVars, callerVars, vars
<1>4. ASSUME NEW w \in Writer, WriterNext(w) \/ WriterVanish(w) PROVE [Bulk!Next]_(Bulk!vars)
  <2>1. UNCHANGED <<verdict, reported>>
    BY <1>1, <1>4, WriterEffect DEF callerVars
  <2>2. CASE WriterWrite(w) \/ (WriterError(w) /\ written' # written)
    <3>1. page[w] \in Nat /\ Pending(page[w]) /\ Land(PageRows(page[w]))
      BY <1>1, <2>2 DEF WriterWrite, WriterError, TypeOK, OnceInv, AllPending, AtWork
    <3> QED
      BY <2>1, <3>1, LandBatch
  <2>3. CASE ~WriterWrite(w) /\ ~(WriterError(w) /\ written' # written)
    BY <1>1, <1>2, <1>4, <2>1, <2>3, WriterEffect
  <2> QED
    BY <2>2, <2>3
<1>5. ASSUME NEW s \in late, LateWrite(s) PROVE [Bulk!Next]_(Bulk!vars)
  <2>1. s \in Nat /\ Pending(s) /\ Land(PageRows(s)) /\ UNCHANGED <<verdict, reported>>
    BY <1>1, <1>5 DEF LateWrite, TypeOK, OnceInv, AllPending, callerVars
  <2> QED
    BY <2>1, LandBatch
<1>6. CASE CallerNext
  <2>1. CASE SumReport
    BY <1>1, <2>1, SumBatch
  <2>2. CASE ~SumReport
    BY <1>1, <1>2, <1>6, <2>2, CallerEffect
  <2> QED
    BY <2>1, <2>2
<1> QED
  BY <1>3, <1>4, <1>5, <1>6 DEF Next

(* The thread strategy keeps what every load promises, for every number of *)
(* writers, page size, row count, shrinking source and fault: no row is    *)
(* written twice, and the row count it returns is backed by rows.          *)
THEOREM ThreadsImplementBulkLoad == Spec => BulkSpec
<1>1. Init => Bulk!Init
  BY DEF Init, Bulk!Init
<1> QED
  BY <1>1, StepBulk, LoadInvariance, PTL DEF Spec, BulkSpec, Bulk!Spec
=============================================================================
