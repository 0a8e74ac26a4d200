---------------------------- MODULE ParallelOld ----------------------------
(***************************************************************************)
(* ParallelIntegrationExecute, the process variant of the parallel load:   *)
(* a ProcessManager of its own runs the source operation, ProcessPool is   *)
(* the one whose children copy pages, and two queues of a third manager    *)
(* join them.  Every step of the pool is a step of ProcessPool; what its   *)
(* children do while target_method runs is defined here.                   *)
(***************************************************************************)
EXTENDS ProcessPool, SequencesExt

CONSTANTS
  Limit,      \* OperationIntegrationBase.Limit, the rows of a page
  DataCount   \* rows of the source, as get_source_data_count answers

ASSUME LoadAssumption == Limit \in Nat \ {0} /\ DataCount \in Nat

Row == 0 .. DataCount - 1
PageRows(n) == {r \in Row : n <= r /\ r < n + Limit}

(* DataQueueTask: a page, by its Start, or one of the two endings.         *)
PageTask(n) == [kind |-> "page", start |-> n]
Ending(k)   == [kind |-> k, start |-> 0]

VARIABLES
  dataQ, ackQ,  \* data_queue, data_result_queue
  queuesUp,     \* does the manager of these two queues run?
  spc,          \* where the source operation is
  start,        \* its loop variable (end is start + Limit)
  transmitted,  \* its transmitted_data_count
  left,         \* endings it still has to put
  wpc,          \* where start_execute_data_operation is, in each child
  page,         \* Start of the page each child works on
  total,        \* each child's total_row_count
  late,         \* pages whose write timed out and may still land
  written,      \* how many copies of each source row the target holds
  verdict,      \* how execute ends: "none", "returned" or "raised"
  reported      \* its total_row_count

sourceVars == <<spc, start, transmitted, left>>
workerVars == <<wpc, page, total, late, written>>
callerVars == <<queuesUp, verdict, reported>>
loadVars   == <<dataQ, ackQ, sourceVars, workerVars, callerVars>>
allVars    == <<vars, loadVars>>

OldInit ==
  /\ Init
  /\ dataQ = <<>> /\ ackQ = <<>> /\ queuesUp = TRUE
  /\ spc = "new" /\ start = 0 /\ transmitted = 0 /\ left = 0
  /\ wpc = [p \in Proc |-> "begin"]
  /\ page = [p \in Proc |-> 0]
  /\ total = [p \in Proc |-> 0]
  /\ late = {} /\ written = [r \in Row |-> 0]
  /\ verdict = "none" /\ reported = 0

-----------------------------------------------------------------------------
(* The source process: start_source_data_operation.                        *)

(* end != limit and end - data_count >= limit; the mistake is to stop      *)
(* before a last page that is not full.                                    *)
PastFullPages == start # 0 /\ start + Limit > DataCount
PastEnd       == start # 0 /\ start >= DataCount

(* One ending for each child; the mistake is one too few.                  *)
EndingsShort == NumProcs - 1
Endings      == NumProcs

SourceCount ==
  /\ spc = "count"
  /\ \/ spc' = IF DataCount > 0 THEN "put" ELSE "finish"
     \/ MayRaise /\ spc' = "error"
  /\ left' = Endings
  /\ UNCHANGED <<vars, dataQ, ackQ, start, transmitted, workerVars, callerVars>>

SourcePut ==
  /\ spc = "put" /\ queuesUp
  /\ IF PastEnd
     THEN spc' = "finish" /\ UNCHANGED <<dataQ, start, transmitted>>
     ELSE /\ dataQ' = Append(dataQ, PageTask(start))
          /\ transmitted' = transmitted + 1
          /\ IF transmitted' >= NumProcs
             THEN spc' = "await" /\ start' = start
             ELSE spc' = spc /\ start' = start + Limit
  /\ UNCHANGED <<vars, ackQ, left, workerVars, callerVars>>

(* A false answer ends the loop, a true one makes room for another page.   *)
SourceAwait ==
  /\ spc = "await" /\ queuesUp /\ ackQ # <<>>
  /\ ackQ' = Tail(ackQ)
  /\ IF Head(ackQ)
     THEN spc' = "put" /\ transmitted' = transmitted - 1 /\ start' = start + Limit
     ELSE spc' = "finish" /\ UNCHANGED <<start, transmitted>>
  /\ UNCHANGED <<vars, dataQ, left, workerVars, callerVars>>

SourceEnd ==
  /\ spc \in {"finish", "error"} /\ queuesUp
  /\ dataQ' = Append(dataQ, Ending(spc))
  /\ left' = left - 1
  /\ spc' = IF left' = 0 THEN "done" ELSE spc
  /\ UNCHANGED <<vars, ackQ, start, transmitted, workerVars, callerVars>>

(* Once the queues are gone every call on them raises; a source that is    *)
(* still there when its own manager is deleted is terminated.              *)
SourceCutOff ==
  /\ ~queuesUp /\ spc # "done"
  /\ spc' = "done"
  /\ UNCHANGED <<vars, dataQ, ackQ, start, transmitted, left, workerVars, callerVars>>

(* The operation raises before its try block, or its error does not        *)
(* pickle: the report goes to a pool nobody reads, and no ending is put.   *)
SourceVanish ==
  /\ MayRaise
  /\ spc = "count" \/ (spc = "error" /\ left = Endings)
  /\ spc' = "vanished"
  /\ UNCHANGED <<vars, dataQ, ackQ, start, transmitted, left, workerVars, callerVars>>

SourceCrash ==
  /\ crashes < MaxCrashes
  /\ spc \notin {"new", "vanished", "done"}
  /\ spc' = "done"
  /\ crashes' = crashes + 1
  /\ UNCHANGED <<child, taskId, calls, queueVars, parentVars, signalled>>
  /\ UNCHANGED <<dataQ, ackQ, start, transmitted, left, workerVars, callerVars>>

SourceNext == SourceCount \/ SourcePut \/ SourceAwait \/ SourceEnd \/ SourceCutOff

-----------------------------------------------------------------------------
(* start_execute_data_operation, in a child while its target_method runs.  *)

At(p, at) == child[p] = "running" /\ wpc[p] = at
Goto(p, at) == wpc' = [wpc EXCEPT ![p] = at]
Land(rows) == written' = [r \in Row |-> IF r \in rows THEN written[r] + 1 ELSE written[r]]

(* The container resolves the strategy outside the try block.              *)
WorkerBegin(p) ==
  /\ At(p, "begin")
  /\ Goto(p, "get") \/ (MayRaise /\ Goto(p, "raise"))
  /\ UNCHANGED <<vars, dataQ, ackQ, sourceVars, page, total, late, written, callerVars>>

WorkerGet(p) ==
  /\ At(p, "get") /\ queuesUp /\ dataQ # <<>>
  /\ dataQ' = Tail(dataQ)
  /\ LET task == Head(dataQ) IN
     /\ \/ task.kind = "page" /\ Goto(p, "page")
        \/ task.kind = "finish" /\ Goto(p, "return")
        \/ task.kind = "error" /\ Goto(p, "fail")
     /\ page' = [page EXCEPT ![p] = task.start]
  /\ UNCHANGED <<vars, ackQ, sourceVars, total, late, written, callerVars>>

WorkerWrite(p) ==
  /\ At(p, "page")
  /\ Land(PageRows(page[p]))
  /\ total' = [total EXCEPT ![p] = @ + Cardinality(PageRows(page[p]))]
  /\ Goto(p, "wrote")
  /\ UNCHANGED <<vars, dataQ, ackQ, sourceVars, page, late, callerVars>>

(* A mistake: the page of a failed write is queued once more.              *)
WorkerErrorRetry(p) ==
  /\ MayRaise /\ At(p, "page")
  /\ late' = late \cup {page[p]}
  /\ dataQ' = Append(dataQ, PageTask(page[p]))
  /\ Goto(p, "get")
  /\ UNCHANGED <<vars, ackQ, sourceVars, page, total, written, callerVars>>

(* Reading or writing raises, perhaps after the commit, or the time limit  *)
(* strikes and the statement may complete later.                           *)
WorkerError(p) ==
  /\ MayRaise /\ At(p, "page")
  /\ \/ Land(PageRows(page[p])) /\ late' = late
     \/ late' = late \cup {page[p]} /\ written' = written
  /\ Goto(p, "fail")
  /\ UNCHANGED <<vars, dataQ, ackQ, sourceVars, page, total, callerVars>>

LateWrite(n) ==
  /\ n \in late
  /\ Land(PageRows(n))
  /\ late' = late \ {n}
  /\ UNCHANGED <<vars, dataQ, ackQ, sourceVars, wpc, page, total, callerVars>>

(* Every page is answered, an empty one as well, and every exception.      *)
WorkerAnswer(p) ==
  /\ queuesUp
  /\ \/ At(p, "wrote") /\ ackQ' = Append(ackQ, TRUE) /\ Goto(p, "get")
     \/ At(p, "fail") /\ ackQ' = Append(ackQ, FALSE) /\ Goto(p, "raise")
  /\ UNCHANGED <<vars, dataQ, sourceVars, page, total, late, written, callerVars>>

WorkerCutOff(p) ==
  /\ ~queuesUp
  /\ At(p, "get") \/ At(p, "wrote") \/ At(p, "fail")
  /\ Goto(p, "raise")
  /\ UNCHANGED <<vars, dataQ, ackQ, sourceVars, page, total, late, written, callerVars>>

(* target_method is over: Subprocess reports what came of it.              *)
WorkerEnd(p) ==
  /\ At(p, "return") \/ At(p, "raise")
  /\ Finish(p)
  /\ Last(results').state = IF wpc[p] = "return" THEN Finished ELSE Errored
  /\ UNCHANGED loadVars

(* A child that dies in the middle of a write leaves its statement behind. *)
WorkerDies(p) ==
  /\ Crash(p) \/ Killed(p)
  /\ late' = IF At(p, "page") THEN late \cup {page[p]} ELSE late
  /\ UNCHANGED <<dataQ, ackQ, sourceVars, wpc, page, total, written, callerVars>>

WorkerNext(p) ==
  \/ (Take(p) \/ Exit(p)) /\ UNCHANGED loadVars
  \/ WorkerBegin(p) \/ WorkerGet(p) \/ WorkerWrite(p) \/ WorkerError(p)
  \/ WorkerAnswer(p) \/ WorkerCutOff(p) \/ WorkerEnd(p)

-----------------------------------------------------------------------------
(* execute, in the calling process.                                        *)

StartSource ==
  /\ spc = "new"
  /\ spc' = "count"
  /\ UNCHANGED <<vars, dataQ, ackQ, start, transmitted, left, workerVars, callerVars>>

(* start_processes and get_results of the pool of children.                *)
PoolStep ==
  /\ spc # "new" /\ pc # "dispose"
  /\ ParentNext
  /\ UNCHANGED loadVars

(* The loop over the records: the first exception is raised, a record      *)
(* without a result is passed over; then the finally clause.               *)
Rows(p) == IF record[p].state = Finished THEN total[p] ELSE 0

SumResults ==
  /\ pc = "returned" /\ verdict = "none"
  /\ IF \E p \in Proc : record[p].state = Errored
     THEN verdict' = "raised" /\ reported' = 0
     ELSE verdict' = "returned" /\ reported' = MapThenSumSet(Rows, Proc)
  /\ queuesUp' = FALSE
  /\ UNCHANGED <<vars, dataQ, ackQ, sourceVars, workerVars>>

(* The pool is deleted, at once or when the exception is forgotten.        *)
DropPool ==
  /\ verdict # "none"
  /\ Dispose \/ (pc = "dispose" /\ StopProcess)
  /\ UNCHANGED loadVars

CallerNext == StartSource \/ PoolStep \/ SumResults \/ DropPool

OldNext ==
  \/ CallerNext
  \/ SourceNext \/ SourceVanish \/ SourceCrash
  \/ \E p \in Proc : WorkerNext(p) \/ WorkerDies(p)
  \/ \E n \in late : LateWrite(n)

(* Processes are scheduled and adapters return, raise or time out; signals *)
(* arrive.  Nobody has to crash or vanish, and no late write has to land.  *)
OldFairness ==
  /\ WF_allVars(CallerNext)
  /\ WF_allVars(SourceNext)
  /\ \A p \in Proc : WF_allVars(WorkerNext(p)) /\ WF_allVars(Killed(p) /\ WorkerDies(p))

OldSpec     == OldInit /\ [][OldNext]_allVars
OldFairSpec == OldSpec /\ OldFairness

-----------------------------------------------------------------------------
(* Like every strategy it does no more than BulkLoad allows: no row is     *)
(* written twice, whatever is killed, crashes or lands late, and the count *)
(* returned does not exceed what was written.                              *)
Bulk == INSTANCE BulkLoad WITH written <- written, verdict <- verdict, reported <- reported
BulkSpec == Bulk!Spec

(* When execute returns normally, a row is missing at the target only if   *)
(* it belongs to the page a child crashed with, or some child met an       *)
(* exception whose report is unread on the result queue or was never put   *)
(* because that child crashed; and if every child has reported, the count  *)
(* is the number of rows of the source.                                    *)
FailedUnseen(p) == record[p] = NoReport /\ wpc[p] \in {"fail", "raise"}
CrashedWith(r)  == \E p \in Proc : /\ record[p] = NoReport /\ crashes > 0
                                   /\ wpc[p] = "page" /\ r \in PageRows(page[p])

ReturnIsExplained ==
  verdict = "returned" =>
    \/ \E p \in Proc : FailedUnseen(p)
    \/ /\ \A r \in Row : written[r] = 1 \/ CrashedWith(r)
       /\ (\A p \in Proc : record[p] # NoReport) => reported = DataCount

(* execute may wait for ever, but only when the source ended without       *)
(* endings or a process crashed; in every other case it ends, and no       *)
(* process of either pool outlives it for ever.                            *)
StrandedLoad ==
  /\ pc = "get" /\ results = <<>>
  /\ spc = "vanished" \/ (crashes > 0 /\ (spc = "done" \/ (spc = "await" /\ ackQ = <<>>)))
  /\ \A p \in Proc : child[p] = "dead" \/ (At(p, "get") /\ dataQ = <<>>)

AllEnded == pc = "gone" /\ spc = "done" /\ \A p \in Proc : ~Alive(p)

EndsOrStranded == <>(AllEnded \/ StrandedLoad)
=============================================================================
