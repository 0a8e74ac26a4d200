---------------------------- MODULE ProcessPool ----------------------------
(***************************************************************************)
(* The worker pool of pdip/processing: ProcessManager in the parent and    *)
(* Subprocess in each child.  The parent spawns the children and gives     *)
(* each one task over a shared queue, then collects their reports from a   *)
(* second queue; between two reports it asks each child whether it still   *)
(* lives.  Children run, raise, exit, crash and are killed independently   *)
(* of the parent.                                                          *)
(***************************************************************************)
EXTENDS Naturals, Sequences, FiniteSets

CONSTANTS
  NumProcs,    \* process_count of start_processes
  MayRaise,    \* can target_method raise?
  MaxCrashes   \* how many children may die without a report (bound)

ASSUME NumProcsAssumption == NumProcs \in Nat \ {0}
ASSUME CrashAssumption    == MayRaise \in BOOLEAN /\ MaxCrashes \in Nat

Proc == 1 .. NumProcs

Finished == 3      \* ProcessTask.State of a normal report
Errored  == 4      \* ProcessTask.State of an exception

(* A ProcessTask on the result queue: whose it says it is, how it ended,   *)
(* and (the Result) which child computed it.                               *)
Report   == [id : Proc, state : {Finished, Errored}, by : Proc]
NoReport == [id |-> 0, state |-> 0, by |-> 0]

VARIABLES
  pc,         \* where the parent is
  idx,        \* the child its current loop has come to
  hand,       \* the error report being handled
  tasks,      \* _process_queue: ids the parent wrote into the tasks
  results,    \* _process_result_queue
  marked,     \* ids whose ProcessInfo.IsFinished is set
  record,     \* _process_tasks: what get_results will hand out
  child,      \* life of each child process
  taskId,     \* SubProcessId of the task each child has taken
  signalled,  \* children that were sent terminate()
  calls,      \* how often each child called target_method
  crashes     \* children that died without a report so far

parentVars == <<pc, idx, hand, marked, record>>
childVars  == <<child, taskId, calls, crashes>>
queueVars  == <<tasks, results>>
vars == <<parentVars, childVars, queueVars, signalled>>

Alive(p) == child[p] \in {"waiting", "running", "exiting"}

(* __check_unfinished_processes marks a child that is not alive.            *)
SeenUnfinished(p) == ~Alive(p)

(* __check_all_processes_finished.                                         *)
AllFinished(m) == m = Proc

Init ==
  /\ pc = "start" /\ idx = 1 /\ hand = NoReport
  /\ tasks = <<>> /\ results = <<>>
  /\ marked = {}
  /\ record = [p \in Proc |-> NoReport]
  /\ child = [p \in Proc |-> "none"]
  /\ taskId = [p \in Proc |-> 0]
  /\ signalled = {}
  /\ calls = [p \in Proc |-> 0]
  /\ crashes = 0

-----------------------------------------------------------------------------
(* Plausible mistakes in an action, one definition each.  They are no part *)
(* of the specification: each can replace the action it is named after, to *)
(* show that a property fails then.                                        *)

(* The reporting child is left unmarked until it is seen dead. *)
ReadResultWithoutMark ==
  /\ pc = "get" /\ results # <<>> /\ Head(results).state = Finished
  /\ record' = [record EXCEPT ![Head(results).id] = Head(results)]
  /\ results' = Tail(results)
  /\ pc' = "check" /\ idx' = 1
  /\ UNCHANGED <<hand, marked, tasks, childVars, signalled>>

(* An error is recorded, but nobody is stopped. *)
ReadErrorWithoutStop ==
  /\ pc = "get" /\ results # <<>> /\ Head(results).state = Errored
  /\ record' = [record EXCEPT ![Head(results).id] = Head(results)]
  /\ results' = Tail(results)
  /\ pc' = "returned"
  /\ UNCHANGED <<idx, hand, marked, tasks, childVars, signalled>>

(* The child leaves the id in the task it took. *)
TakeKeepingId(p) ==
  /\ child[p] = "waiting" /\ tasks # <<>>
  /\ tasks' = Tail(tasks)
  /\ taskId' = [taskId EXCEPT ![p] = Head(tasks)]
  /\ child' = [child EXCEPT ![p] = "running"]
  /\ calls' = [calls EXCEPT ![p] = @ + 1]
  /\ UNCHANGED <<results, crashes, parentVars, signalled>>

-----------------------------------------------------------------------------
(* The parent.                                                             *)

(* start_processes spawns child idx, and only then puts a task for it.     *)
StartProcess ==
  /\ pc = "start"
  /\ child' = [child EXCEPT ![idx] = "waiting"]
  /\ pc' = "put"
  /\ UNCHANGED <<idx, hand, marked, record, taskId, calls, crashes, queueVars, signalled>>

PutTask ==
  /\ pc = "put"
  /\ tasks' = Append(tasks, idx)
  /\ IF idx = NumProcs THEN pc' = "get" /\ idx' = idx
                       ELSE pc' = "start" /\ idx' = idx + 1
  /\ UNCHANGED <<hand, marked, record, childVars, results, signalled>>

(* get_results blocks on the result queue.  A normal report is recorded    *)
(* and its child marked before anyone's liveness is looked at.  (Whatever  *)
(* a child puts there has IsFinished set.)                                 *)
ReadResult ==
  /\ pc = "get"
  /\ results # <<>>
  /\ Head(results).state = Finished
  /\ marked' = marked \cup {Head(results).id}
  /\ record' = [record EXCEPT ![Head(results).id] = Head(results)]
  /\ results' = Tail(results)
  /\ pc' = "check" /\ idx' = 1
  /\ UNCHANGED <<hand, tasks, childVars, signalled>>

(* State 4: stop everybody first, record the error afterwards.             *)
ReadError ==
  /\ pc = "get"
  /\ results # <<>>
  /\ Head(results).state = Errored
  /\ hand' = Head(results)
  /\ results' = Tail(results)
  /\ pc' = "stop" /\ idx' = 1
  /\ UNCHANGED <<marked, record, tasks, childVars, signalled>>

(* One turn of __check_unfinished_processes: is_alive() of child idx.      *)
(* After the last turn __check_all_processes_finished decides the loop.    *)
CheckProcess ==
  /\ pc = "check"
  /\ marked' = IF SeenUnfinished(idx) THEN marked \cup {idx} ELSE marked
  /\ IF idx < NumProcs
     THEN pc' = pc /\ idx' = idx + 1
     ELSE /\ idx' = 1
          /\ pc' = IF AllFinished(marked') THEN "returned" ELSE "get"
  /\ UNCHANGED <<hand, record, queueVars, childVars, signalled>>

(* The manager object is dropped: __del__ runs __finish_all_processes and  *)
(* then shuts the queues down.                                             *)
Dispose ==
  /\ pc = "returned"
  /\ pc' = "dispose" /\ idx' = 1
  /\ UNCHANGED <<hand, marked, record, queueVars, childVars, signalled>>

(* One turn of __finish_all_processes: a child seen alive gets one more    *)
(* task, is marked and sent SIGTERM, which it will notice only later.      *)
StopProcess ==
  /\ pc \in {"stop", "dispose"}
  /\ IF Alive(idx)
     THEN /\ tasks' = Append(tasks, idx)
          /\ marked' = marked \cup {idx}
          /\ signalled' = signalled \cup {idx}
     ELSE UNCHANGED <<tasks, marked, signalled>>
  /\ IF idx < NumProcs
     THEN idx' = idx + 1 /\ UNCHANGED <<pc, hand, record>>
     ELSE /\ idx' = 1
          /\ IF pc = "stop"
             THEN /\ record' = [record EXCEPT ![hand.id] = hand]
                  /\ hand' = NoReport
                  /\ pc' = "returned"
             ELSE pc' = "gone" /\ UNCHANGED <<hand, record>>
  /\ UNCHANGED <<results, childVars>>

-----------------------------------------------------------------------------
(* The children.                                                           *)

(* A child takes any task and writes its own id over the one it carries.   *)
Take(p) ==
  /\ child[p] = "waiting"
  /\ tasks # <<>>
  /\ tasks' = Tail(tasks)
  /\ taskId' = [taskId EXCEPT ![p] = p]
  /\ child' = [child EXCEPT ![p] = "running"]
  /\ calls' = [calls EXCEPT ![p] = @ + 1]
  /\ UNCHANGED <<results, crashes, parentVars, signalled>>

(* target_method returned: the child puts the task it took back as its     *)
(* report and leaves the loop.  If it raised, the report is a new task.    *)
(* Nothing can be put once the queues are shut down.                       *)
Finish(p) ==
  /\ child[p] = "running"
  /\ pc # "gone"
  /\ \/ results' = Append(results, [id |-> taskId[p], state |-> Finished, by |-> p])
     \/ /\ MayRaise
        /\ results' = Append(results, [id |-> p, state |-> Errored, by |-> p])
  /\ child' = [child EXCEPT ![p] = "exiting"]
  /\ UNCHANGED <<tasks, taskId, calls, crashes, parentVars, signalled>>

Exit(p) ==
  /\ child[p] = "exiting"
  /\ child' = [child EXCEPT ![p] = "dead"]
  /\ UNCHANGED <<taskId, calls, crashes, queueVars, parentVars, signalled>>

(* Death without a report: a native crash, a container that fails to       *)
(* initialise (outside the try), a report that does not pickle.            *)
Crash(p) ==
  /\ crashes < MaxCrashes
  /\ child[p] \in {"waiting", "running"}
  /\ child' = [child EXCEPT ![p] = "dead"]
  /\ crashes' = crashes + 1
  /\ UNCHANGED <<taskId, calls, queueVars, parentVars, signalled>>

(* SIGTERM takes effect.                                                   *)
Killed(p) ==
  /\ p \in signalled
  /\ Alive(p)
  /\ child' = [child EXCEPT ![p] = "dead"]
  /\ UNCHANGED <<taskId, calls, crashes, queueVars, parentVars, signalled>>

-----------------------------------------------------------------------------
ParentNext ==
  \/ StartProcess \/ PutTask \/ ReadResult \/ ReadError \/ CheckProcess
  \/ StopProcess

ChildNext(p) == Take(p) \/ Finish(p) \/ Exit(p) \/ Crash(p) \/ Killed(p)

Next == ParentNext \/ Dispose \/ \E p \in Proc : ChildNext(p)

(* The parent never waits for anything but a report; the operating system  *)
(* runs every child and delivers its signal.  Nobody has to crash, and     *)
(* nobody has to drop the manager.                                         *)
Fairness ==
  /\ WF_vars(ParentNext)
  /\ \A p \in Proc : WF_vars(Take(p) \/ Finish(p) \/ Exit(p) \/ Killed(p))

Spec     == Init /\ [][Next]_vars
FairSpec == Spec /\ Fairness

-----------------------------------------------------------------------------
TypeOK ==
  /\ pc \in {"start", "put", "get", "check", "stop", "returned", "dispose", "gone"}
  /\ idx \in Proc
  /\ hand \in Report \cup {NoReport}
  /\ tasks \in Seq(Proc)
  /\ results \in Seq(Report) /\ Len(results) <= NumProcs
  /\ marked \subseteq Proc
  /\ record \in [Proc -> Report \cup {NoReport}]
  /\ child \in [Proc -> {"none", "waiting", "running", "exiting", "dead"}]
  /\ taskId \in [Proc -> Proc \cup {0}]
  /\ signalled \subseteq Proc
  /\ calls \in [Proc -> Nat]
  /\ crashes \in 0 .. MaxCrashes

(* Each child's own work, and no other.                                    *)
ResultsAreOwn ==
  /\ \A p \in Proc : record[p] # NoReport => record[p].by = p
  /\ \A i \in DOMAIN results : results[i].by = results[i].id

(* The target is called once by a child.                                   *)
CalledOnce == \A p \in Proc : calls[p] <= 1

(* When get_results returns, nobody the pool did not at least signal is    *)
(* still working for it.                                                   *)
QuietOnReturn ==
  pc \in {"returned", "dispose", "gone"} =>
    \A p \in Proc : child[p] \in {"exiting", "dead"} \/ p \in signalled

(* A task that is handed out blank belongs to a child whose report was not *)
(* yet read, that died without one, or that was stopped because of         *)
(* somebody's error.                                                       *)
BlankIsExplained ==
  (pc = "returned" /\ \A p \in Proc : record[p].state # Errored) =>
    \A p \in Proc : record[p] = NoReport =>
      \/ \E i \in DOMAIN results : results[i].by = p
      \/ crashes > 0 /\ child[p] = "dead"

(* get_results hands each child's own work out under that child's id,      *)
(* whichever of the queued tasks the child happened to take; nobody runs   *)
(* the target twice, in spite of the extra task that                       *)
(* __finish_all_processes puts on the queue for every child it stops; and  *)
(* there is no other way to lose a result than those BlankIsExplained      *)
(* names.                                                                  *)
ResultsAccounted == ResultsAreOwn /\ CalledOnce /\ BlankIsExplained

(* tests/unittests/processing/test_process_manager.py expects of two       *)
(* children whose target returns that both records are finished ones.      *)
EveryResultReported ==
  pc = "returned" => \A p \in Proc : record[p].state = Finished

-----------------------------------------------------------------------------
Returned == pc \in {"returned", "dispose", "gone"}

(* The parent waits for a report and everybody who could send one is dead. *)
Stranded ==
  /\ pc = "get" /\ results = <<>>
  /\ \A p \in Proc : child[p] = "dead"
  /\ crashes > 0

(* get_results returns or ends up stranded, and that only after a crash:   *)
(* there is no other hang.                                                 *)
ReturnsOrStranded == <>(Returned \/ Stranded)
=============================================================================
