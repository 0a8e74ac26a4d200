---------------------------- MODULE ParallelLoad ---------------------------
(***************************************************************************)
(* ParallelThreadIntegrationExecute: one source thread cuts the source     *)
(* into pages and puts a task for each on data_queue, ProcessCount writer  *)
(* threads copy pages and acknowledge them on data_result_queue, and the   *)
(* calling thread collects the writers' reports through a                  *)
(* ParallelSessionBroker, adds them up and shuts the queues down.          *)
(***************************************************************************)
EXTENDS Naturals, Sequences, FiniteSets

CONSTANTS
  ProcessCount,  \* OperationIntegrationBase.ProcessCount
  Limit,         \* OperationIntegrationBase.Limit, the rows of a page
  DataCount,     \* what get_source_data_count answers
  HeldCounts,    \* how many rows the source may hold when pages are read
  MayFail,       \* can adapters and the container raise, can a write time out?
  MayVanish      \* can a thread end without telling anybody?

ASSUME SizeAssumption ==
  /\ ProcessCount \in Nat \ {0}
  /\ Limit \in Nat \ {0}
  /\ DataCount \in Nat
ASSUME HeldAssumption == HeldCounts \subseteq 0 .. DataCount
ASSUME FaultAssumption == MayFail \in BOOLEAN /\ MayVanish \in BOOLEAN

Writer == 1 .. ProcessCount
Row    == 0 .. DataCount - 1

(* DataQueueTask: a page, given by its Start, or one of the two endings.   *)
PageTask(s) == [kind |-> "page", start |-> s]
FinishTask  == [kind |-> "finish", start |-> 0]
ErrorTask   == [kind |-> "error", start |-> 0]
DataTask    == [kind : {"page"}, start : Nat] \cup {FinishTask, ErrorTask}

Finished == 3
Errored  == 4
Report   == [id : Writer, state : {Finished, Errored}, rows : Nat]
NoReport == [id |-> 0, state |-> 0, rows |-> 0]

VARIABLES
  held,         \* rows the source holds when its pages are read
  vanished,     \* has a thread ended without telling anybody? (history)
  dataQ,        \* data_queue
  ackQ,         \* data_result_queue
  queuesUp,     \* is the manager of these two queues running?
  spc,          \* where the source thread is
  start,        \* its loop variable (end is always start + Limit)
  transmitted,  \* its transmitted_data_count
  left,         \* ending tasks it still has to put
  wpc,          \* where each writer thread is
  page,         \* Start of the page each writer works on
  total,        \* each writer's total_row_count
  late,         \* pages whose write timed out and may still land
  written,      \* how many copies of each source row the target holds
  resultQ,      \* result queue of the writers' broker
  marked,       \* writers whose ThreadInfo.IsFinished is set
  record,       \* the broker's _thread_tasks
  mpc,          \* where the calling thread is
  idx,          \* the writer its current loop has come to
  verdict,      \* how execute ends: "none", "returned", "raised"
  reported      \* its total_row_count

queueVars  == <<dataQ, ackQ, queuesUp>>
sourceVars == <<spc, start, transmitted, left>>
writerVars == <<wpc, page, total, late, written>>
brokerVars == <<resultQ, marked, record>>
callerVars == <<mpc, idx, verdict, reported>>
envVars    == <<held, vanished>>
vars == <<envVars, queueVars, sourceVars, writerVars, brokerVars, callerVars>>

(* Rows of the page that begins at s, as get_source_data_with_paging finds *)
(* them when the page is read.                                             *)
PageRows(s) == {r \in Row : s <= r /\ r < s + Limit /\ r < held}

(* The row count of a page is the length of what was read.                 *)
RowCount(s) == Cardinality(PageRows(s))

Alive(w) == wpc[w] # "dead"

(* __check_unfinished_threads asks is_alive(); the mistake is not to ask.  *)
UnfinishedBlindly(w) == TRUE
Unfinished(w) == ~Alive(w)

Init ==
  /\ held \in HeldCounts /\ vanished = FALSE
  /\ dataQ = <<>> /\ ackQ = <<>> /\ queuesUp = TRUE
  /\ spc = "new" /\ start = 0 /\ transmitted = 0 /\ left = 0
  /\ wpc = [w \in Writer |-> "new"]
  /\ page = [w \in Writer |-> 0]
  /\ total = [w \in Writer |-> 0]
  /\ late = {}
  /\ written = [r \in Row |-> 0]
  /\ resultQ = <<>> /\ marked = {}
  /\ record = [w \in Writer |-> NoReport]
  /\ mpc = "source" /\ idx = 1 /\ verdict = "none" /\ reported = 0

-----------------------------------------------------------------------------
(* SourceReadOperation.start, in the source thread.                        *)

(* Mistakes in two bounds of the loop: one page too many in flight, one    *)
(* ending too few.                                                         *)
WindowOver(n) == n > ProcessCount
EndTasksShort == ProcessCount - 1

(* How many pages may be out before the loop waits for an answer.          *)
WindowFull(n) == n >= ProcessCount

(* end != limit and end - data_count >= limit                              *)
PastEnd == start # 0 /\ start >= DataCount

(* One ending for each writer.                                             *)
EndTasks == ProcessCount

SourceCount ==
  /\ spc = "count"
  /\ \/ IF DataCount > 0 THEN spc' = "put" /\ left' = left
                         ELSE spc' = "finish" /\ left' = EndTasks
     \/ MayFail /\ spc' = "error" /\ left' = EndTasks
  /\ UNCHANGED <<start, transmitted, envVars, queueVars, writerVars, brokerVars, callerVars>>

SourcePut ==
  /\ spc = "put" /\ queuesUp /\ ~PastEnd
  /\ dataQ' = Append(dataQ, PageTask(start))
  /\ transmitted' = transmitted + 1
  /\ IF WindowFull(transmitted')
     THEN spc' = "await" /\ start' = start
     ELSE spc' = spc /\ start' = start + Limit
  /\ UNCHANGED <<left, envVars, ackQ, queuesUp, writerVars, brokerVars, callerVars>>

SourceStop ==
  /\ spc = "put" /\ PastEnd
  /\ spc' = "finish" /\ left' = EndTasks
  /\ UNCHANGED <<start, transmitted, envVars, queueVars, writerVars, brokerVars, callerVars>>

(* A mistake: the loop goes on without moving its window.                  *)
SourceAwaitInPlace ==
  /\ spc = "await" /\ queuesUp /\ ackQ # <<>>
  /\ ackQ' = Tail(ackQ)
  /\ IF Head(ackQ) THEN spc' = "put" /\ left' = left /\ transmitted' = transmitted - 1
                   ELSE spc' = "finish" /\ left' = EndTasks /\ transmitted' = transmitted
  /\ UNCHANGED <<start, envVars, dataQ, queuesUp, writerVars, brokerVars, callerVars>>

(* A true answer makes room for one more page, a false one ends the loop.  *)
SourceAwait ==
  /\ spc = "await" /\ queuesUp /\ ackQ # <<>>
  /\ ackQ' = Tail(ackQ)
  /\ IF Head(ackQ)
     THEN /\ transmitted' = transmitted - 1
          /\ start' = start + Limit
          /\ spc' = "put" /\ left' = left
     ELSE /\ spc' = "finish" /\ left' = EndTasks
          /\ UNCHANGED <<start, transmitted>>
  /\ UNCHANGED <<envVars, dataQ, queuesUp, writerVars, brokerVars, callerVars>>

SourceEnd ==
  /\ spc \in {"finish", "error"} /\ queuesUp /\ left > 0
  /\ dataQ' = Append(dataQ, IF spc = "finish" THEN FinishTask ELSE ErrorTask)
  /\ left' = left - 1
  /\ spc' = IF left' = 0 THEN "done" ELSE spc
  /\ UNCHANGED <<start, transmitted, envVars, ackQ, queuesUp, writerVars, brokerVars, callerVars>>

(* Every queue operation raises once the manager is gone, those of the     *)
(* exception handler included; nobody reads the source broker's results.   *)
SourceCutOff ==
  /\ spc \in {"put", "await", "finish", "error"} /\ ~queuesUp
  /\ spc' = "done"
  /\ UNCHANGED <<start, transmitted, left, envVars, queueVars, writerVars, brokerVars, callerVars>>

(* The thread dies before its try block (the container or the publisher    *)
(* raised), or the exception it wants to pass on does not pickle.          *)
SourceVanish ==
  /\ MayVanish
  /\ \/ spc = "count"
     \/ spc = "error" /\ left = EndTasks
  /\ spc' = "done"
  /\ vanished' = TRUE
  /\ UNCHANGED <<start, transmitted, left, held, queueVars, writerVars, brokerVars, callerVars>>

SourceNext ==
  \/ SourceCount \/ SourcePut \/ SourceStop \/ SourceAwait \/ SourceEnd
  \/ SourceCutOff

-----------------------------------------------------------------------------
(* TargetWriteOperation.start, in ParallelWorker threads.                  *)

(* The container resolves the operation outside its try block.             *)
WriterBegin(w) ==
  /\ wpc[w] = "begin"
  /\ \/ wpc' = [wpc EXCEPT ![w] = "get"]
     \/ MayFail /\ wpc' = [wpc EXCEPT ![w] = "raise"]
  /\ UNCHANGED <<page, total, late, written, envVars, queueVars, sourceVars, brokerVars, callerVars>>

WriterGet(w) ==
  /\ wpc[w] = "get" /\ queuesUp /\ dataQ # <<>>
  /\ dataQ' = Tail(dataQ)
  /\ LET task == Head(dataQ) IN
     \/ task.kind = "page" /\ wpc' = [wpc EXCEPT ![w] = "page"]
                           /\ page' = [page EXCEPT ![w] = task.start]
     \/ task.kind = "finish" /\ wpc' = [wpc EXCEPT ![w] = "return"] /\ page' = page
     \/ task.kind = "error" /\ wpc' = [wpc EXCEPT ![w] = "fail"] /\ page' = page
  /\ UNCHANGED <<total, late, written, envVars, ackQ, queuesUp, sourceVars, brokerVars, callerVars>>

Land(rows) == written' = [r \in Row |-> IF r \in rows THEN written[r] + 1 ELSE written[r]]

WriterWrite(w) ==
  /\ wpc[w] = "page"
  /\ Land(PageRows(page[w]))
  /\ total' = [total EXCEPT ![w] = @ + RowCount(page[w])]
  /\ wpc' = [wpc EXCEPT ![w] = "wrote"]
  /\ UNCHANGED <<page, late, envVars, queueVars, sourceVars, brokerVars, callerVars>>

(* Reading the page or writing it raises; a write may raise after its      *)
(* rows were committed.                                                    *)
WriterError(w) ==
  /\ MayFail /\ wpc[w] = "page"
  /\ Land(PageRows(page[w])) \/ written' = written
  /\ wpc' = [wpc EXCEPT ![w] = "fail"]
  /\ UNCHANGED <<page, total, late, envVars, queueVars, sourceVars, brokerVars, callerVars>>

(* A mistake: the page of a timed-out write is queued once more.           *)
WriterTimeoutRetry(w) ==
  /\ MayFail /\ wpc[w] = "page"
  /\ late' = late \cup {page[w]}
  /\ dataQ' = Append(dataQ, PageTask(page[w]))
  /\ wpc' = [wpc EXCEPT ![w] = "get"]
  /\ UNCHANGED <<page, total, written, envVars, ackQ, queuesUp, sourceVars, brokerVars, callerVars>>

(* FunctionTimedOut: the writer gives up, the driver call it started may   *)
(* still complete.                                                         *)
WriterTimeout(w) ==
  /\ MayFail /\ wpc[w] = "page"
  /\ late' = late \cup {page[w]}
  /\ wpc' = [wpc EXCEPT ![w] = "fail"]
  /\ UNCHANGED <<page, total, written, envVars, queueVars, sourceVars, brokerVars, callerVars>>

LateWrite(s) ==
  /\ s \in late
  /\ Land(PageRows(s))
  /\ late' = late \ {s}
  /\ UNCHANGED <<wpc, page, total, envVars, queueVars, sourceVars, brokerVars, callerVars>>

(* An empty page is answered with False.                                   *)
WriterAnswer(w) ==
  /\ wpc[w] = "wrote" /\ queuesUp
  /\ ackQ' = Append(ackQ, RowCount(page[w]) > 0)
  /\ wpc' = [wpc EXCEPT ![w] = "get"]
  /\ UNCHANGED <<page, total, late, written, envVars, dataQ, queuesUp, sourceVars, brokerVars, callerVars>>

(* Any exception is answered with False before it is raised; the mistake   *)
(* is to raise it unanswered.                                              *)
WriterFailUnanswered(w) ==
  /\ wpc[w] = "fail" /\ queuesUp
  /\ wpc' = [wpc EXCEPT ![w] = "raise"]
  /\ UNCHANGED <<page, total, late, written, envVars, queueVars, sourceVars, brokerVars, callerVars>>

WriterFail(w) ==
  /\ wpc[w] = "fail" /\ queuesUp
  /\ ackQ' = Append(ackQ, FALSE)
  /\ wpc' = [wpc EXCEPT ![w] = "raise"]
  /\ UNCHANGED <<page, total, late, written, envVars, dataQ, queuesUp, sourceVars, brokerVars, callerVars>>

WriterCutOff(w) ==
  /\ wpc[w] \in {"get", "wrote", "fail"} /\ ~queuesUp
  /\ wpc' = [wpc EXCEPT ![w] = "raise"]
  /\ UNCHANGED <<page, total, late, written, envVars, queueVars, sourceVars, brokerVars, callerVars>>

(* ParallelWorker.run puts the one report of its thread.                   *)
WriterReport(w) ==
  /\ wpc[w] \in {"return", "raise"}
  /\ resultQ' = Append(resultQ,
       IF wpc[w] = "return" THEN [id |-> w, state |-> Finished, rows |-> total[w]]
                            ELSE [id |-> w, state |-> Errored, rows |-> 0])
  /\ wpc' = [wpc EXCEPT ![w] = "exiting"]
  /\ UNCHANGED <<page, total, late, written, marked, record, envVars, queueVars, sourceVars, callerVars>>

(* The exception does not pickle: no report is put.                        *)
WriterVanish(w) ==
  /\ MayVanish /\ wpc[w] = "raise"
  /\ wpc' = [wpc EXCEPT ![w] = "dead"]
  /\ vanished' = TRUE
  /\ UNCHANGED <<page, total, late, written, held, queueVars, sourceVars, brokerVars, callerVars>>

WriterExit(w) ==
  /\ wpc[w] = "exiting"
  /\ wpc' = [wpc EXCEPT ![w] = "dead"]
  /\ UNCHANGED <<page, total, late, written, envVars, queueVars, sourceVars, brokerVars, callerVars>>

WriterNext(w) ==
  \/ WriterBegin(w) \/ WriterGet(w) \/ WriterWrite(w) \/ WriterError(w)
  \/ WriterTimeout(w) \/ WriterAnswer(w) \/ WriterFail(w) \/ WriterCutOff(w)
  \/ WriterReport(w) \/ WriterExit(w)

-----------------------------------------------------------------------------
(* ParallelThreadIntegrationExecute.execute, in the calling thread.        *)

StartSource ==
  /\ mpc = "source"
  /\ spc' = "count"
  /\ mpc' = "writers"
  /\ UNCHANGED <<start, transmitted, left, idx, verdict, reported, envVars, queueVars, writerVars, brokerVars>>

(* The tasks of all writers are queued before the first one starts, and    *)
(* each takes exactly one: that queue is not modelled.                     *)
StartWriter ==
  /\ mpc = "writers"
  /\ wpc' = [wpc EXCEPT ![idx] = "begin"]
  /\ IF idx < ProcessCount THEN idx' = idx + 1 /\ mpc' = mpc
                           ELSE idx' = 1 /\ mpc' = "collect"
  /\ UNCHANGED <<page, total, late, written, verdict, reported, envVars, queueVars, sourceVars, brokerVars>>

Collect ==
  /\ mpc = "collect" /\ resultQ # <<>>
  /\ Head(resultQ).state = Finished
  /\ resultQ' = Tail(resultQ)
  /\ marked' = marked \cup {Head(resultQ).id}
  /\ record' = [record EXCEPT ![Head(resultQ).id] = Head(resultQ)]
  /\ mpc' = "check"
  /\ UNCHANGED <<idx, verdict, reported, envVars, queueVars, sourceVars, writerVars>>

(* __finish_all_threads marks the threads alive and asks them to stop,     *)
(* which no thread looks at; then the error is recorded and the loop left. *)
CollectError ==
  /\ mpc = "collect" /\ resultQ # <<>>
  /\ Head(resultQ).state = Errored
  /\ resultQ' = Tail(resultQ)
  /\ marked' = marked \cup {w \in Writer : Alive(w)}
  /\ record' = [record EXCEPT ![Head(resultQ).id] = Head(resultQ)]
  /\ mpc' = "sum"
  /\ UNCHANGED <<idx, verdict, reported, envVars, queueVars, sourceVars, writerVars>>

(* One turn of __check_unfinished_threads; the last is followed by         *)
(* __check_all_threads_finished.                                           *)
CheckThread ==
  /\ mpc = "check"
  /\ marked' = IF Unfinished(idx) THEN marked \cup {idx} ELSE marked
  /\ IF idx < ProcessCount
     THEN idx' = idx + 1 /\ mpc' = mpc
     ELSE idx' = 1 /\ mpc' = IF marked' = Writer THEN "sum" ELSE "collect"
  /\ UNCHANGED <<resultQ, record, verdict, reported, envVars, queueVars, sourceVars, writerVars>>

(* One turn of the loop over the reports: the first exception is raised.   *)
SumReport ==
  /\ mpc = "sum"
  /\ IF record[idx].state = Errored
     THEN /\ verdict' = "raised" /\ mpc' = "shutdown"
          /\ UNCHANGED <<idx, reported>>
     ELSE /\ reported' = reported + record[idx].rows
          /\ IF idx < ProcessCount
             THEN idx' = idx + 1 /\ UNCHANGED <<mpc, verdict>>
             ELSE verdict' = "returned" /\ mpc' = "shutdown" /\ idx' = idx
  /\ UNCHANGED <<envVars, queueVars, sourceVars, writerVars, brokerVars>>

(* The finally clause.                                                     *)
Shutdown ==
  /\ mpc = "shutdown"
  /\ queuesUp' = FALSE
  /\ mpc' = "done"
  /\ UNCHANGED <<idx, verdict, reported, envVars, dataQ, ackQ, sourceVars, writerVars, brokerVars>>

CallerNext ==
  \/ StartSource \/ StartWriter \/ Collect \/ CollectError \/ CheckThread
  \/ SumReport \/ Shutdown

Next ==
  \/ CallerNext
  \/ SourceNext \/ SourceVanish
  \/ \E w \in Writer : WriterNext(w) \/ WriterVanish(w)
  \/ \E s \in late : LateWrite(s)

(* Threads are scheduled fairly, and adapters return, raise or time out.   *)
(* Nothing forces a timed-out write to land or a thread to vanish.         *)
Fairness ==
  /\ WF_vars(CallerNext)
  /\ WF_vars(SourceNext)
  /\ \A w \in Writer : WF_vars(WriterNext(w))

Spec     == Init /\ [][Next]_vars
FairSpec == Spec /\ Fairness

-----------------------------------------------------------------------------
WriterState == {"new", "begin", "get", "page", "wrote", "fail", "return",
                "raise", "exiting", "dead"}

TypeOK ==
  /\ held \in HeldCounts /\ vanished \in BOOLEAN
  /\ dataQ \in Seq(DataTask) /\ ackQ \in Seq(BOOLEAN) /\ queuesUp \in BOOLEAN
  /\ spc \in {"new", "count", "put", "await", "finish", "error", "done"}
  /\ start \in Nat /\ transmitted \in 0 .. ProcessCount /\ left \in 0 .. ProcessCount
  /\ wpc \in [Writer -> WriterState]
  /\ page \in [Writer -> Nat] /\ total \in [Writer -> Nat]
  /\ late \subseteq Nat
  /\ written \in [Row -> Nat]
  /\ resultQ \in Seq(Report)
  /\ marked \subseteq Writer
  /\ record \in [Writer -> Report \cup {NoReport}]
  /\ mpc \in {"source", "writers", "collect", "check", "sum", "shutdown", "done"}
  /\ idx \in Writer
  /\ verdict \in {"none", "returned", "raised"} /\ reported \in Nat

(* No row of the source is written twice, whatever fails, times out or     *)
(* lands late.                                                             *)
AtMostOnce == \A r \in Row : written[r] <= 1

(* While the source thread cuts pages, each page it counts as transmitted  *)
(* is on data_queue, with a writer, or answered on data_result_queue; so   *)
(* an answer is on its way whenever it waits for one, and never more than  *)
(* ProcessCount pages are out.                                             *)
OutPages ==
  Cardinality({i \in 1 .. Len(dataQ) : dataQ[i].kind = "page"})
    + Cardinality({w \in Writer : wpc[w] \in {"page", "wrote", "fail"}})
    + Len(ackQ)

FlowControl ==
  spc \in {"put", "await"} /\ queuesUp =>
    /\ transmitted = OutPages
    /\ spc = "await" => transmitted = ProcessCount

(* When execute returns normally no writer is still at work; and if it has *)
(* read a normal report of every writer, and the source held the rows it   *)
(* had counted, every row has been written and the count is right.         *)
CompleteOnSuccess ==
  verdict = "returned" =>
    /\ \A w \in Writer : wpc[w] \in {"exiting", "dead"}
    /\ held = DataCount /\ (\A w \in Writer : record[w].state = Finished) =>
         /\ \A r \in Row : written[r] = 1
         /\ reported = DataCount

(* Every load is an instance of what BulkLoad promises.                    *)
Bulk == INSTANCE BulkLoad WITH
  written <- written, verdict <- verdict,
  reported <- IF verdict = "returned" THEN reported ELSE 0

BulkSpec == Bulk!Spec

(* When a thread vanishes the caller may wait for ever, but only when      *)
(* source and writers have ended or wait for one that has: in every other  *)
(* case, and whenever no thread vanishes, execute ends, and no thread      *)
(* outlives it for ever, whatever it was waiting for.                      *)
Stranded ==
  /\ vanished
  /\ mpc = "collect" /\ resultQ = <<>>
  /\ spc = "done" \/ (spc = "await" /\ ackQ = <<>>)
  /\ \A w \in Writer : wpc[w] = "dead" \/ (wpc[w] = "get" /\ dataQ = <<>>)

AllEnded == mpc = "done" /\ spc = "done" /\ \A w \in Writer : ~Alive(w)

EndsOrStranded == <>(AllEnded \/ Stranded)
=============================================================================
