------------------------------ MODULE Lifecycle ------------------------------
(***************************************************************************)
(* One run of Integrator.integrate: the broker is set up, the operation is *)
(* executed inside a transaction, its integrations one after the other,    *)
(* and the broker is joined and dropped, whatever was raised in between.   *)
(* The caller's stack of try blocks is its control: an exception in flight *)
(* (err) moves it to the handler that catches it next.  The listener runs  *)
(* beside it; its queue is the tail of accepted it has not delivered.      *)
(***************************************************************************)
EXTENDS Naturals, Sequences

CONSTANTS
  MaxIntegrations,  \* how many integrations an operation may have (bound)
  MaxCalls,         \* how often integrate is called on one Integrator (bound)
  Faults            \* what can go wrong

FaultKinds == {"raise", "unpicklable", "timeout", "manager", "callback", "database"}

ASSUME BoundAssumption == MaxIntegrations \in Nat /\ MaxCalls \in Nat \ {0}
ASSUME FaultAssumption == Faults \subseteq FaultKinds

(* What IntegrationAdapterFactory.get makes of an integration: with no     *)
(* target connection it is incomplete, with no source it is a target       *)
(* operation, otherwise a load.                                            *)
Integration == [kind : {"incomplete", "target", "sourceToTarget"}, truncate : BOOLEAN]
Job == UNION {[1 .. n -> Integration] : n \in 0 .. MaxIntegrations}

(* The events of pdip/integrator/domain/enums/events.py in the order one   *)
(* part of a run sends them.  A part is an integration, or 0 for the head  *)
(* of the operation, or Closing for its end.                               *)
Closing == MaxIntegrations + 1
Stages == <<"initialized", "started", "truncate", "execute", "finished">>
Event == [part : 0 .. Closing, stage : 1 .. Len(Stages), ok : BOOLEAN, last : BOOLEAN]
Initialized == 1
Started     == 2
Truncate    == 3
Execute     == 4
Finished    == 5

VARIABLES
  pc,         \* where the caller is
  err,        \* the exception in flight
  first,      \* the first exception of this run (history)
  job,        \* the operation's integrations
  cur,        \* the integration at work
  broker,     \* message_broker: none yet initialized, started, or deleted
  managerUp,  \* is the manager of its queues running?
  listening,  \* is the event listener in its loop?
  crashed,    \* has the manager died? (history)
  accepted,   \* events published
  delivered,  \* events handed to the subscribers
  target,     \* what has happened to each integration's target
  session,    \* the transaction around the operation; "landed": committed, but it raised
  calls       \* calls of integrate so far

errVars    == <<err, first>>
brokerVars == <<broker, managerUp, listening, crashed>>
eventVars  == <<accepted, delivered>>
dataVars   == <<target, session>>
vars == <<pc, errVars, job, cur, brokerVars, eventVars, dataVars, calls>>

Init ==
  /\ pc = "initialize" /\ err = "none" /\ first = "none"
  /\ job \in Job /\ cur = 0
  /\ broker = "new" /\ managerUp = FALSE /\ listening = FALSE
  /\ crashed = FALSE
  /\ accepted = <<>> /\ delivered = <<>>
  /\ target = [k \in DOMAIN job |-> "untouched"] /\ session = "none"
  /\ calls = 1

-----------------------------------------------------------------------------
(* Raising and publishing.                                                 *)

Go(next) == pc' = next /\ UNCHANGED errVars

Raise(e, handler) ==
  /\ err' = e
  /\ first' = IF first = "none" THEN e ELSE first
  /\ pc' = handler

(* Foreign code (initializers, adapters, drivers) raises something, which  *)
(* may be an exception that does not pickle.                               *)
Fails(handler) ==
  /\ "raise" \in Faults
  /\ \/ Raise("job", handler)
     \/ "unpicklable" \in Faults /\ Raise("odd", handler)

(* A put goes through the manager.                                         *)
Publish(part, stage, last, next, handler) ==
  IF managerUp
  THEN /\ accepted' = Append(accepted, [part |-> part, stage |-> stage, ok |-> TRUE, last |-> last])
       /\ Go(next)
  ELSE Raise("put", handler) /\ UNCHANGED accepted

(* An event that carries the exception in flight is pickled with it; when  *)
(* that fails, the new exception takes its place.                          *)
PublishError(part, last, handler) ==
  IF managerUp /\ err # "odd"
  THEN /\ accepted' = Append(accepted, [part |-> part, stage |-> Finished, ok |-> FALSE, last |-> last])
       /\ Go(handler)
  ELSE Raise("put", handler) /\ UNCHANGED accepted

-----------------------------------------------------------------------------
(* Integrator.integrate and DefaultIntegratorInitializer.initialize.       *)

(* The manager is started, then the two queues are made.  After an earlier *)
(* call the attribute message_broker is gone.                              *)
BrokerInitialize ==
  /\ pc = "initialize"
  /\ \/ /\ broker # "gone"
        /\ broker' = "initialized" /\ managerUp' = TRUE
        /\ Go("register")
     \/ /\ broker # "gone" /\ "raise" \in Faults
        /\ managerUp' \in {managerUp, TRUE} /\ UNCHANGED broker
        /\ Raise("setup", "join")
     \/ broker = "gone" /\ Raise("setup", "join") /\ UNCHANGED <<broker, managerUp>>
  /\ UNCHANGED <<job, cur, listening, crashed, eventVars, dataVars, calls>>

(* The event manager is made before any of its methods is subscribed.      *)
RegisterListeners ==
  /\ pc = "register"
  /\ Go("startBroker") \/ ("raise" \in Faults /\ Raise("setup", "join"))
  /\ UNCHANGED <<job, cur, brokerVars, eventVars, dataVars, calls>>

StartBroker ==
  /\ pc = "startBroker"
  /\ broker' = "started" /\ listening' = TRUE
  /\ Go("prepare")
  /\ UNCHANGED <<job, cur, managerUp, crashed, eventVars, dataVars, calls>>

(* The execution initializer, which raises when Integrations is None.      *)
Prepare ==
  /\ pc = "prepare"
  /\ Go("begin") \/ ("raise" \in Faults /\ Raise("setup", "join"))
  /\ UNCHANGED <<job, cur, brokerVars, eventVars, dataVars, calls>>

EndDelivered == \E i \in DOMAIN delivered : delivered[i].last
ListenerDone == ~listening \/ EndDelivered \/ ~managerUp

(* join meets no thread, or one that was never started, unless the broker  *)
(* was started; then it waits until the listener has ended or for 120      *)
(* seconds, and goes on either way.  The mistake is to wait without a      *)
(* timeout.                                                                *)
JoinForever ==
  /\ pc = "join" /\ (broker = "started" => ListenerDone)
  /\ IF broker = "started" THEN Go("close") ELSE Raise("join", "returned")
  /\ UNCHANGED <<job, cur, brokerVars, eventVars, dataVars, calls>>

(* A mistake: a join that is over before its thread has ended raises.      *)
JoinImpatient ==
  /\ pc = "join"
  /\ IF broker = "started" /\ ListenerDone THEN Go("close") ELSE Raise("join", "returned")
  /\ UNCHANGED <<job, cur, brokerVars, eventVars, dataVars, calls>>

Join ==
  /\ pc = "join"
  /\ IF broker = "started" THEN Go("close") ELSE Raise("join", "returned")
  /\ UNCHANGED <<job, cur, brokerVars, eventVars, dataVars, calls>>

(* close deletes the attribute and leaves it to the broker's __del__ to    *)
(* shut the manager down.  An exception that came out of initialize still  *)
(* holds the broker through its traceback.                                 *)
Close ==
  /\ pc = "close"
  /\ broker' = "gone"
  /\ managerUp' = (managerUp /\ err = "setup")
  /\ Go("returned")
  /\ UNCHANGED <<job, cur, listening, crashed, eventVars, dataVars, calls>>

-----------------------------------------------------------------------------
(* transactionhandler around OperationExecution.start.                     *)

(* The repository provider is looked up outside the try block.             *)
Begin ==
  /\ pc = "begin"
  /\ \/ session' = "open" /\ Go("opInitialize")
     \/ UNCHANGED session /\ Fails("join")
  /\ UNCHANGED <<job, cur, brokerVars, eventVars, target, calls>>

(* A commit that raises may be done all the same, and its answer lost.     *)
Commit ==
  /\ pc = "commit"
  /\ \/ session' = "committed" /\ Go("closeSession")
     \/ "database" \in Faults /\ session' \in {session, "landed"} /\ Raise("db", "rollback")
  /\ UNCHANGED <<job, cur, brokerVars, eventVars, target, calls>>

GivenUp == IF session = "open" THEN "rolledBack" ELSE session

(* A mistake: the handler does not raise again.                            *)
RollbackAndReturn ==
  /\ pc = "rollback"
  /\ session' = "rolledBack" /\ err' = "none" /\ pc' = "closeSession"
  /\ UNCHANGED <<first, job, cur, brokerVars, eventVars, target, calls>>

(* rollback flushes first, and the flush may raise.                        *)
Rollback ==
  /\ pc = "rollback"
  /\ \/ session' = GivenUp /\ Go("closeSession")
     \/ "database" \in Faults /\ UNCHANGED session /\ Raise("db", "closeSession")
  /\ UNCHANGED <<job, cur, brokerVars, eventVars, target, calls>>

(* A session that is closed gives up what it has not committed.  If its    *)
(* transaction is still open, after a timeout or a rollback that raised,   *)
(* it is rolled back now, which raises when the connection is lost.        *)
CloseSession ==
  /\ pc = "closeSession"
  /\ session' = GivenUp
  /\ Go("join") \/ ("database" \in Faults /\ session = "open" /\ Raise("db", "join"))
  /\ UNCHANGED <<job, cur, brokerVars, eventVars, target, calls>>

-----------------------------------------------------------------------------
(* OperationExecution.start.                                               *)

OperationInitialize ==
  /\ pc = "opInitialize"
  /\ \/ Publish(0, Initialized, FALSE, "opStart", "opFail")
     \/ Fails("opFail") /\ UNCHANGED accepted
  /\ UNCHANGED <<job, cur, brokerVars, delivered, dataVars, calls>>

OperationStart ==
  /\ pc = "opStart"
  /\ Publish(0, Started, FALSE, "next", "opFail")
  /\ UNCHANGED <<job, cur, brokerVars, delivered, dataVars, calls>>

OperationFinish ==
  /\ pc = "next" /\ cur = Len(job)
  /\ Publish(Closing, Finished, TRUE, "commit", "opFail")
  /\ UNCHANGED <<job, cur, brokerVars, delivered, dataVars, calls>>

OperationFail ==
  /\ pc = "opFail"
  /\ PublishError(Closing, TRUE, "rollback")
  /\ UNCHANGED <<job, cur, brokerVars, delivered, dataVars, calls>>

-----------------------------------------------------------------------------
(* IntegrationExecution.start and the integration types.                   *)

(* The adapter is looked up before the try block.                          *)
BeginIntegration ==
  /\ pc = "next" /\ cur < Len(job)
  /\ cur' = cur + 1
  /\ IF job[cur + 1].kind = "incomplete"
     THEN Raise("job", "opFail")
     ELSE Go("intInitialize")
  /\ UNCHANGED <<job, brokerVars, eventVars, dataVars, calls>>

IntegrationInitialize ==
  /\ pc = "intInitialize"
  /\ \/ Publish(cur, Initialized, FALSE, "intStart", "intFail")
     \/ Fails("intFail") /\ UNCHANGED accepted
  /\ UNCHANGED <<job, cur, brokerVars, delivered, dataVars, calls>>

IntegrationStart ==
  /\ pc = "intStart"
  /\ Publish(cur, Started, FALSE, "clear", "intFail")
  /\ UNCHANGED <<job, cur, brokerVars, delivered, dataVars, calls>>

(* IsTargetTruncate: the target is cleared before anything is read; a      *)
(* driver may raise before or after it has done so.                        *)
ClearTarget ==
  LET cleared == [target EXCEPT ![cur] = "cleared"] IN
  /\ pc = "clear"
  /\ \/ ~job[cur].truncate /\ Go("load") /\ UNCHANGED target
     \/ job[cur].truncate /\ Go("tellCleared") /\ target' = cleared
     \/ /\ Fails("intFail")
        /\ target' \in {target} \cup (IF job[cur].truncate THEN {cleared} ELSE {})
  /\ UNCHANGED <<job, cur, brokerVars, eventVars, session, calls>>

TellCleared ==
  /\ pc = "tellCleared"
  /\ Publish(cur, Truncate, FALSE, "load", "intFail")
  /\ UNCHANGED <<job, cur, brokerVars, delivered, dataVars, calls>>

(* A mistake: the load's own handler forgets to raise again.               *)
LoadQuietly ==
  /\ pc = "load"
  /\ \E effect \in {"partial", "loaded"} : target' = [target EXCEPT ![cur] = effect]
  /\ Go("tellLoaded")
  /\ UNCHANGED <<job, cur, brokerVars, eventVars, session, calls>>

(* What the target adapter or the load strategy does.  The time limit of   *)
(* the single-process strategy raises FunctionTimedOut, which is not an    *)
(* Exception: of all handlers only the finally clauses see it.             *)
Load ==
  /\ pc = "load"
  /\ \/ Go("tellLoaded") /\ target' = [target EXCEPT ![cur] = "loaded"]
     \/ \E effect \in {target[cur], "partial", "loaded"} :
          /\ target' = [target EXCEPT ![cur] = effect]
          /\ \/ Fails("intFail")
             \/ /\ "timeout" \in Faults /\ job[cur].kind = "sourceToTarget"
                /\ Raise("timeout", "closeSession")
  /\ UNCHANGED <<job, cur, brokerVars, eventVars, session, calls>>

TellLoaded ==
  /\ pc = "tellLoaded"
  /\ Publish(cur, Execute, FALSE, "intFinish", "intFail")
  /\ UNCHANGED <<job, cur, brokerVars, delivered, dataVars, calls>>

IntegrationFinish ==
  /\ pc = "intFinish"
  /\ Publish(cur, Finished, FALSE, "next", "intFail")
  /\ UNCHANGED <<job, cur, brokerVars, delivered, dataVars, calls>>

(* A mistake: the failure does not end the operation.                      *)
IntegrationFailAndGoOn ==
  /\ pc = "intFail"
  /\ PublishError(cur, FALSE, "next")
  /\ UNCHANGED <<job, cur, brokerVars, delivered, dataVars, calls>>

IntegrationFail ==
  /\ pc = "intFail"
  /\ PublishError(cur, FALSE, "opFail")
  /\ UNCHANGED <<job, cur, brokerVars, delivered, dataVars, calls>>

-----------------------------------------------------------------------------
(* The surroundings.                                                       *)

(* The listener takes the next event through worker and channels and calls *)
(* the subscribers; one that raises ends its loop.                         *)
Deliver ==
  /\ listening /\ managerUp /\ ~EndDelivered
  /\ Len(delivered) < Len(accepted)
  /\ delivered' = Append(delivered, accepted[Len(delivered) + 1])
  /\ listening' \in {TRUE} \cup (IF "callback" \in Faults THEN {FALSE} ELSE {})
  /\ UNCHANGED <<pc, errVars, job, cur, broker, managerUp, crashed, accepted, dataVars, calls>>

ManagerDies ==
  /\ "manager" \in Faults /\ managerUp
  /\ managerUp' = FALSE /\ crashed' = TRUE
  /\ UNCHANGED <<pc, errVars, job, cur, broker, listening, eventVars, dataVars, calls>>

(* The caller lets go of the exception and of the Integrator.              *)
Drop ==
  /\ pc = "returned"
  /\ pc' = "dropped"
  /\ managerUp' = FALSE
  /\ UNCHANGED <<errVars, job, cur, broker, listening, crashed, eventVars, dataVars, calls>>

(* integrate is called again on the same Integrator.                       *)
CallAgain ==
  /\ pc = "returned" /\ calls < MaxCalls
  /\ calls' = calls + 1
  /\ pc' = "initialize" /\ err' = "none" /\ first' = "none" /\ cur' = 0
  /\ listening' = FALSE /\ crashed' = FALSE
  /\ accepted' = <<>> /\ delivered' = <<>>
  /\ target' = [k \in DOMAIN job |-> "untouched"] /\ session' = "none"
  /\ UNCHANGED <<job, broker, managerUp>>

CallerNext ==
  \/ BrokerInitialize \/ RegisterListeners \/ StartBroker \/ Prepare
  \/ Begin \/ OperationInitialize \/ OperationStart
  \/ BeginIntegration \/ IntegrationInitialize \/ IntegrationStart
  \/ ClearTarget \/ TellCleared \/ Load \/ TellLoaded
  \/ IntegrationFinish \/ IntegrationFail
  \/ OperationFinish \/ OperationFail
  \/ Commit \/ Rollback \/ CloseSession \/ Join \/ Close

Next == CallerNext \/ Deliver \/ ManagerDies \/ Drop \/ CallAgain

(* The calling thread runs, adapters return, raise or are timed out, and a *)
(* join is over after its timeout.                                         *)
Spec     == Init /\ [][Next]_vars
FairSpec == Spec /\ WF_vars(CallerNext)

-----------------------------------------------------------------------------
Places == {"initialize", "register", "startBroker", "prepare", "begin",
           "opInitialize", "opStart", "next", "intInitialize", "intStart",
           "clear", "tellCleared", "load", "tellLoaded", "intFinish",
           "intFail", "opFail", "commit", "rollback", "closeSession",
           "join", "close", "returned", "dropped"}
Errors == {"none", "setup", "job", "odd", "timeout", "put", "db", "join"}

TypeOK ==
  /\ pc \in Places /\ err \in Errors /\ first \in Errors
  /\ job \in Job /\ cur \in 0 .. Len(job)
  /\ broker \in {"new", "initialized", "started", "gone"}
  /\ managerUp \in BOOLEAN /\ listening \in BOOLEAN
  /\ crashed \in BOOLEAN
  /\ accepted \in Seq(Event) /\ delivered \in Seq(Event)
  /\ target \in [DOMAIN job -> {"untouched", "cleared", "partial", "loaded"}]
  /\ session \in {"none", "open", "committed", "landed", "rolledBack"}
  /\ calls \in 1 .. MaxCalls

Sent(part, stage) == \E i \in DOMAIN accepted :
  accepted[i].part = part /\ accepted[i].stage = stage

(* The parts of a run come one after the other and the stages of each part *)
(* in their order, none twice, and nothing behind the end.                 *)
Ordered ==
  \A i, j \in DOMAIN accepted : i < j =>
    /\ ~accepted[i].last
    /\ \/ accepted[i].part < accepted[j].part
       \/ accepted[i].part = accepted[j].part /\ accepted[i].stage < accepted[j].stage

(* An integration that was announced as started is announced as finished   *)
(* before the next one and before the operation's end, and an operation    *)
(* that entered its transaction announces its end: unless the exception    *)
(* was a timeout or does not pickle, or the manager died.                  *)
Paired ==
  (first \notin {"timeout", "odd"} /\ ~crashed) =>
  /\ \A k \in DOMAIN job :
       Sent(k, Started) /\ (cur > k \/ pc \in {"opFail", "rollback", "commit", "join", "close", "returned"})
         => Sent(k, Finished)
  /\ session # "none" /\ pc \in {"commit", "rollback", "closeSession", "join", "close", "returned"}
       => Sent(Closing, Finished)

(* Once an integration has failed nothing is done to the targets of those  *)
(* after it, and nothing is announced about them.                          *)
StopsAtFailure ==
  \A i \in DOMAIN accepted :
    (accepted[i].stage = Finished /\ ~accepted[i].ok) =>
      \A k \in DOMAIN job : k > accepted[i].part =>
        target[k] = "untouched" /\ \A s \in 1 .. Len(Stages) : ~Sent(k, s)

(* What an observer may take for granted: no failure and no handler        *)
(* announces a second finish or anything out of its order, whoever was     *)
(* announced as started is announced as finished, and a run stops at the   *)
(* first integration that fails.                                           *)
Sequenced == Ordered /\ Paired /\ StopsAtFailure

(* A finish without an error is not announced unless the work it stands    *)
(* for was done: the target was loaded, cleared before if that was asked,  *)
(* and for the operation this holds of every integration.                  *)
Done(k) == target[k] = "loaded" /\ (job[k].truncate => Sent(k, Truncate))

SuccessIsReal ==
  \A i \in DOMAIN accepted :
    (accepted[i].stage = Finished /\ accepted[i].ok) =>
      \A k \in DOMAIN job :
        (accepted[i].part = k \/ accepted[i].last) => Done(k) /\ Sent(k, Finished)

(* integrate returns normally if and only if the transaction was committed *)
(* and every integration was loaded and announced as such.  If the answer  *)
(* to the commit was lost, its caller gets the database's error.           *)
CleanMeansCommitted ==
  pc = "returned" =>
    /\ err = "none" <=> session = "committed"
    /\ session = "landed" => err = "db" /\ first = "db"
    /\ err = "none" => Sent(Closing, Finished) /\ \A k \in DOMAIN job : Done(k)

(* The caller gets the exception that ended the run, and another one in    *)
(* its place only if it could not be published, if giving up the open      *)
(* transaction failed too, or if the broker had not been started.  Only    *)
(* the second can hide a timeout, which no handler publishes.              *)
ErrorIsExplained ==
  (pc = "returned" /\ err # first) =>
    \/ err = "put" /\ (first = "odd" \/ crashed) /\ first # "timeout"
    \/ err = "db" /\ session = "rolledBack" /\ "database" \in Faults
    \/ err = "join" /\ broker # "started" /\ session = "none"

(* integrate comes back whatever is raised, and though nobody may have     *)
(* published the end its listener waits for.                               *)
Returns == pc = "initialize" ~> pc = "returned"
=============================================================================
