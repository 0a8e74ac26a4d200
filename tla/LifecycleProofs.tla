-------------------------- MODULE LifecycleProofs --------------------------
(***************************************************************************)
(* Proofs about Lifecycle, for every number of integrations and calls and  *)
(* every choice of faults.                                                 *)
(***************************************************************************)
EXTENDS Lifecycle, TLAPS, SequenceTheorems

(* An operation's integrations are a sequence no longer than the bound.    *)
LEMMA JobShape ==
  ASSUME NEW j \in Job
  PROVE  /\ Len(j) \in 0 .. MaxIntegrations
         /\ DOMAIN j = 1 .. Len(j)
         /\ \A k \in 1 .. Len(j) : j[k] \in Integration
<1>1. PICK n \in 0 .. MaxIntegrations : j \in [1 .. n -> Integration]
  BY DEF Job
<1>2. n \in Nat
  BY <1>1, BoundAssumption
<1>3. j \in Seq(Integration)
  BY <1>1, <1>2, SeqDef
<1>4. Len(j) \in Nat /\ 1 .. Len(j) = 1 .. n
  BY <1>1, <1>3, LenProperties
<1>5. Len(j) = n
  BY <1>2, <1>4
<1> QED
  BY <1>1, <1>4, <1>5

LEMMA StagesShape == Len(Stages) = 5
  BY DEF Stages

(* Appending leaves what was there where it was.                           *)
LEMMA AppendKeeps ==
  ASSUME NEW q \in Seq(Event), NEW e \in Event
  PROVE  /\ Append(q, e) \in Seq(Event)
         /\ DOMAIN q \subseteq DOMAIN Append(q, e)
         /\ \A i \in DOMAIN q : Append(q, e)[i] = q[i]
         /\ Len(q) + 1 \in DOMAIN Append(q, e)
         /\ Append(q, e)[Len(q) + 1] = e
  OBVIOUS

-----------------------------------------------------------------------------
(* Type correctness.                                                       *)

(* What the control variables keep when an exception is raised or not.     *)
LEMMA RaiseType ==
  ASSUME TypeOK, NEW e \in Errors, NEW handler \in Places, Raise(e, handler)
  PROVE  pc' \in Places /\ err' \in Errors /\ first' \in Errors
  BY DEF TypeOK, Raise

LEMMA GoType ==
  ASSUME TypeOK, NEW next \in Places, Go(next)
  PROVE  pc' \in Places /\ err' \in Errors /\ first' \in Errors
  BY DEF TypeOK, Go, errVars

LEMMA FailsType ==
  ASSUME TypeOK, NEW handler \in Places, Fails(handler)
  PROVE  pc' \in Places /\ err' \in Errors /\ first' \in Errors
  BY RaiseType DEF Fails, Errors

(* Publishing leaves the events as they are or appends one.                *)
Appends == \E e \in Event : accepted' = Append(accepted, e)

LEMMA AppendsType ==
  ASSUME TypeOK, accepted' = accepted \/ Appends
  PROVE  accepted' \in Seq(Event)
<1>1. CASE accepted' = accepted
  BY <1>1 DEF TypeOK
<1>2. CASE Appends
  <2>1. PICK e \in Event : accepted' = Append(accepted, e)
    BY <1>2 DEF Appends
  <2>2. accepted \in Seq(Event)
    BY DEF TypeOK
  <2> QED
    BY <2>1, <2>2, AppendKeeps, Zenon
<1> QED
  BY <1>1, <1>2

LEMMA PublishType ==
  ASSUME TypeOK, NEW part \in 0 .. Closing, NEW stage \in 1 .. 5, NEW last \in BOOLEAN,
         NEW next \in Places, NEW handler \in Places,
         Publish(part, stage, last, next, handler)
  PROVE  /\ pc' \in Places /\ err' \in Errors /\ first' \in Errors
         /\ accepted' = accepted \/ Appends
         /\ accepted' \in Seq(Event)
<1>1. [part |-> part, stage |-> stage, ok |-> TRUE, last |-> last] \in Event
  BY StagesShape DEF Event
<1>2. "put" \in Errors
  BY DEF Errors
<1>3. accepted' = accepted \/ Appends
  BY <1>1, Zenon DEF Publish, Appends
<1>4. accepted' \in Seq(Event)
  BY <1>3, AppendsType
<1>5. Go(next) \/ Raise("put", handler)
  BY Zenon DEF Publish
<1> QED
  BY <1>2, <1>3, <1>4, <1>5, GoType, RaiseType

LEMMA PublishErrorType ==
  ASSUME TypeOK, NEW part \in 0 .. Closing, NEW last \in BOOLEAN,
         NEW handler \in Places, PublishError(part, last, handler)
  PROVE  /\ pc' \in Places /\ err' \in Errors /\ first' \in Errors
         /\ accepted' = accepted \/ Appends
         /\ accepted' \in Seq(Event)
<1>1. [part |-> part, stage |-> Finished, ok |-> FALSE, last |-> last] \in Event
  BY StagesShape DEF Event, Finished
<1>2. "put" \in Errors
  BY DEF Errors
<1>3. accepted' = accepted \/ Appends
  BY <1>1, Zenon DEF PublishError, Appends
<1>4. accepted' \in Seq(Event)
  BY <1>3, AppendsType
<1>5. Go(handler) \/ Raise("put", handler)
  BY Zenon DEF PublishError
<1> QED
  BY <1>2, <1>3, <1>4, <1>5, GoType, RaiseType

(* The number of an integration is the number of a part of the run.        *)
LEMMA CurIsPart ==
  ASSUME TypeOK
  PROVE  cur \in 0 .. Closing /\ 0 \in 0 .. Closing /\ Closing \in 0 .. Closing
<1>1. Len(job) \in 0 .. MaxIntegrations /\ cur \in 0 .. Len(job)
  BY JobShape DEF TypeOK
<1> QED
  BY <1>1, BoundAssumption DEF Closing

LEMMA InitType == Init => TypeOK
<1> SUFFICES ASSUME Init PROVE TypeOK
  OBVIOUS
<1>1. Len(job) \in Nat
  BY JobShape DEF Init
<1>2. /\ accepted \in Seq(Event) /\ delivered \in Seq(Event)
      /\ calls \in 1 .. MaxCalls /\ cur \in 0 .. Len(job)
  BY <1>1, BoundAssumption DEF Init
<1> QED
  BY <1>2 DEF Init, TypeOK, Places, Errors

(* Set-up, transaction and leaving.                                        *)
FrameNext ==
  \/ BrokerInitialize \/ RegisterListeners \/ StartBroker \/ Prepare
  \/ Begin \/ Commit \/ Rollback \/ CloseSession \/ Join \/ Close

LEMMA FrameType ==
  ASSUME TypeOK, FrameNext
  PROVE  TypeOK'
<1> USE DEF TypeOK, brokerVars, eventVars, dataVars
<1>0. /\ {"setup", "db", "join"} \subseteq Errors
      /\ {"register", "startBroker", "prepare", "begin", "opInitialize", "rollback",
          "closeSession", "join", "close", "returned"} \subseteq Places
  BY DEF Errors, Places
<1>1. CASE BrokerInitialize
  BY <1>0, <1>1, GoType, RaiseType DEF BrokerInitialize
<1>2. CASE RegisterListeners
  BY <1>0, <1>2, GoType, RaiseType DEF RegisterListeners
<1>3. CASE StartBroker
  BY <1>0, <1>3, GoType DEF StartBroker
<1>4. CASE Prepare
  BY <1>0, <1>4, GoType, RaiseType DEF Prepare
<1>5. CASE Begin
  BY <1>0, <1>5, GoType, FailsType DEF Begin
<1>6. CASE Commit
  BY <1>0, <1>6, GoType, RaiseType DEF Commit
<1>7. CASE Rollback
  BY <1>0, <1>7, GoType, RaiseType DEF Rollback, GivenUp
<1>8. CASE CloseSession
  BY <1>0, <1>8, GoType, RaiseType DEF CloseSession, GivenUp
<1>9. CASE Join
  BY <1>0, <1>9, GoType, RaiseType DEF Join
<1>10. CASE Close
  BY <1>0, <1>10, GoType DEF Close
<1> QED
  BY <1>1, <1>2, <1>3, <1>4, <1>5, <1>6, <1>7, <1>8, <1>9, <1>10 DEF FrameNext

(* The actions that publish an event and do nothing else.                  *)
TellNext ==
  \/ OperationInitialize \/ OperationStart \/ OperationFinish \/ OperationFail
  \/ IntegrationInitialize \/ IntegrationStart \/ TellCleared \/ TellLoaded
  \/ IntegrationFinish \/ IntegrationFail

LEMMA TellType ==
  ASSUME TypeOK, TellNext
  PROVE  TypeOK' /\ (accepted' = accepted \/ Appends)
<1>0. /\ Initialized \in 1 .. 5 /\ Started \in 1 .. 5 /\ Truncate \in 1 .. 5
      /\ Execute \in 1 .. 5 /\ Finished \in 1 .. 5
      /\ {"opStart", "opFail", "next", "commit", "rollback", "intStart", "intFail",
          "clear", "load", "intFinish"} \subseteq Places
  BY DEF Initialized, Started, Truncate, Execute, Finished, Places
<1>1. /\ pc' \in Places /\ err' \in Errors /\ first' \in Errors
      /\ accepted' \in Seq(Event) /\ (accepted' = accepted \/ Appends)
  <2> USE <1>0, CurIsPart
  <2>1. CASE OperationInitialize
    BY <2>1, PublishType, FailsType DEF OperationInitialize, TypeOK
  <2>2. CASE OperationStart
    BY <2>2, PublishType DEF OperationStart
  <2>3. CASE OperationFinish
    BY <2>3, PublishType DEF OperationFinish
  <2>4. CASE OperationFail
    BY <2>4, PublishErrorType DEF OperationFail
  <2>5. CASE IntegrationInitialize
    BY <2>5, PublishType, FailsType DEF IntegrationInitialize, TypeOK
  <2>6. CASE IntegrationStart
    BY <2>6, PublishType DEF IntegrationStart
  <2>7. CASE TellCleared
    BY <2>7, PublishType DEF TellCleared
  <2>8. CASE TellLoaded
    BY <2>8, PublishType DEF TellLoaded
  <2>9. CASE IntegrationFinish
    BY <2>9, PublishType DEF IntegrationFinish
  <2>10. CASE IntegrationFail
    BY <2>10, PublishErrorType DEF IntegrationFail
  <2> QED
    BY <2>1, <2>2, <2>3, <2>4, <2>5, <2>6, <2>7, <2>8, <2>9, <2>10 DEF TellNext
<1>2. UNCHANGED <<job, cur, brokerVars, delivered, dataVars, calls>>
  BY DEF TellNext, OperationInitialize, OperationStart, OperationFinish, OperationFail,
         IntegrationInitialize, IntegrationStart, TellCleared, TellLoaded,
         IntegrationFinish, IntegrationFail
<1> QED
  BY <1>1, <1>2 DEF TypeOK, brokerVars, dataVars

LEMMA WorkType ==
  ASSUME TypeOK, BeginIntegration \/ ClearTarget \/ Load
  PROVE  TypeOK'
<1> USE DEF TypeOK, brokerVars, eventVars
<1>0. /\ {"job", "timeout"} \subseteq Errors
      /\ {"opFail", "intInitialize", "load", "tellCleared", "intFail", "tellLoaded",
          "closeSession"} \subseteq Places
  BY DEF Errors, Places
<1>1. CASE BeginIntegration
  <2>1. cur' \in 0 .. Len(job)
    BY <1>1, JobShape DEF BeginIntegration
  <2> QED
    BY <1>0, <1>1, <2>1, GoType, RaiseType DEF BeginIntegration, dataVars
<1>2. CASE ClearTarget
  <2>1. target' \in [DOMAIN job -> {"untouched", "cleared", "partial", "loaded"}]
    BY <1>2 DEF ClearTarget
  <2>2. pc' \in Places /\ err' \in Errors /\ first' \in Errors
    BY <1>0, <1>2, GoType, FailsType DEF ClearTarget
  <2> QED
    BY <1>2, <2>1, <2>2 DEF ClearTarget
<1>3. CASE Load
  <2>1. target' \in [DOMAIN job -> {"untouched", "cleared", "partial", "loaded"}]
    BY <1>3 DEF Load
  <2>2. pc' \in Places /\ err' \in Errors /\ first' \in Errors
    BY <1>0, <1>3, GoType, FailsType, RaiseType DEF Load
  <2> QED
    BY <1>3, <2>1, <2>2 DEF Load
<1> QED
  BY <1>1, <1>2, <1>3

LEMMA OutsideType ==
  ASSUME TypeOK, Deliver \/ ManagerDies \/ Drop \/ CallAgain
  PROVE  TypeOK'
<1> USE DEF TypeOK, errVars, brokerVars, eventVars, dataVars
<1>1. CASE Deliver
  <2>1. accepted[Len(delivered) + 1] \in Event
    BY <1>1 DEF Deliver
  <2>2. delivered' \in Seq(Event)
    BY <1>1, <2>1, AppendKeeps DEF Deliver
  <2> QED
    BY <1>1, <2>2 DEF Deliver
<1>2. CASE ManagerDies
  BY <1>2 DEF ManagerDies
<1>3. CASE Drop
  BY <1>3 DEF Drop, Places
<1>4. CASE CallAgain
  <2>1. 0 \in 0 .. Len(job) /\ calls' \in 1 .. MaxCalls
    BY <1>4, JobShape, BoundAssumption DEF CallAgain
  <2>2. target' \in [DOMAIN job -> {"untouched", "cleared", "partial", "loaded"}]
    BY <1>4 DEF CallAgain
  <2>3. accepted' \in Seq(Event) /\ delivered' \in Seq(Event)
    BY <1>4 DEF CallAgain
  <2> QED
    BY <1>4, <2>1, <2>2, <2>3 DEF CallAgain, Places, Errors
<1> QED
  BY <1>1, <1>2, <1>3, <1>4

LEMMA NextType ==
  ASSUME TypeOK, [Next]_vars
  PROVE  TypeOK'
<1>1. CASE UNCHANGED vars
  BY <1>1 DEF TypeOK, vars, errVars, brokerVars, eventVars, dataVars
<1> QED
  BY <1>1, FrameType, TellType, WorkType, OutsideType
  DEF Next, CallerNext, FrameNext, TellNext

(* Every variable keeps its type: in particular the number of the          *)
(* integration at work is one of the operation, and every event published  *)
(* belongs to a part of the run.                                           *)
THEOREM TypeCorrect == Spec => []TypeOK
<1> QED
  BY InitType, NextType, PTL DEF Spec

-----------------------------------------------------------------------------
(* A normal return means that the transaction was committed and the work   *)
(* was done.  That is not inductive by itself: along the way it needs that *)
(* err is free on the normal path only, that the broker is started there,  *)
(* which state the transaction is in, that a commit whose answer was lost  *)
(* has raised the database's error, and which integrations are done.       *)

BeforeBegin == {"initialize", "register", "startBroker", "prepare", "begin"}
Working     == {"intInitialize", "intStart", "clear", "tellCleared", "load", "tellLoaded", "intFinish"}
Inside      == Working \cup {"opInitialize", "opStart", "next", "commit"}
Handling    == {"intFail", "opFail", "rollback"}
Leaving     == {"closeSession", "join", "close", "returned"}

ErrInv ==
  /\ pc \in BeforeBegin \cup Inside => err = "none"
  /\ err = "none" <=> first = "none"
  /\ pc \in Handling => err # "none"

BrokerInv ==
  /\ pc \in Inside \cup Handling \cup {"prepare", "begin", "closeSession"} => broker = "started"
  /\ pc = "join" /\ broker # "started" => err # "none" /\ session = "none"

SessionInv ==
  /\ pc \in BeforeBegin => session = "none"
  /\ pc \in Inside \cup {"intFail", "opFail"} => session = "open"
  /\ pc = "rollback" => session \in {"open", "landed"}
  /\ session = "landed" => err = "db" /\ first = "db"
  /\ pc \in Leaving => (err = "none" <=> session = "committed")

ControlInv == ErrInv /\ BrokerInv /\ SessionInv

DoneBefore == \A k \in DOMAIN job : k < cur => Done(k)
DoneUpTo   == \A k \in DOMAIN job : k <= cur => Done(k)

(* How far the integrations are while nothing has gone wrong.              *)
WorkInv == err = "none" =>
  /\ pc \in BeforeBegin \cup {"opInitialize", "opStart"} => cur = 0
  /\ pc \in Working => cur \in DOMAIN job /\ DoneBefore
  /\ pc \in {"load", "tellLoaded", "intFinish"} => (job[cur].truncate => Sent(cur, Truncate))
  /\ pc \in {"tellLoaded", "intFinish"} => target[cur] = "loaded"
  /\ pc \in {"next", "commit"} \cup Leaving => DoneUpTo
  /\ pc \in {"commit"} \cup Leaving => cur = Len(job) /\ Sent(Closing, Finished)

IInv == TypeOK /\ ControlInv /\ WorkInv

LEMMA ControlInit == Init => ControlInv
  BY DEF Init, ControlInv, ErrInv, BrokerInv, SessionInv, BeforeBegin, Inside, Working,
         Handling, Leaving

LEMMA ControlFrame ==
  ASSUME TypeOK, ControlInv, FrameNext
  PROVE  ControlInv'
<1> USE DEF TypeOK, ControlInv, ErrInv, BrokerInv, SessionInv, BeforeBegin, Inside, Working,
            Handling, Leaving, Go, Raise, Fails, errVars, brokerVars, dataVars
<1>1. CASE BrokerInitialize
  BY <1>1 DEF BrokerInitialize
<1>2. CASE RegisterListeners
  BY <1>2 DEF RegisterListeners
<1>3. CASE StartBroker
  BY <1>3 DEF StartBroker
<1>4. CASE Prepare
  BY <1>4 DEF Prepare
<1>5. CASE Begin
  BY <1>5 DEF Begin
<1>6. CASE Commit
  BY <1>6 DEF Commit
<1>7. CASE Rollback
  BY <1>7 DEF Rollback, GivenUp
<1>8. CASE CloseSession
  BY <1>8 DEF CloseSession, GivenUp
<1>9. CASE Join
  BY <1>9 DEF Join
<1>10. CASE Close
  BY <1>10 DEF Close
<1> QED
  BY <1>1, <1>2, <1>3, <1>4, <1>5, <1>6, <1>7, <1>8, <1>9, <1>10 DEF FrameNext

LEMMA ControlTell ==
  ASSUME TypeOK, ControlInv, TellNext
  PROVE  ControlInv'
<1> USE DEF TypeOK, ControlInv, ErrInv, BrokerInv, SessionInv, BeforeBegin, Inside, Working,
            Handling, Leaving, Go, Raise, Fails, Publish, PublishError, errVars, brokerVars,
            dataVars
<1>1. CASE OperationInitialize
  BY <1>1 DEF OperationInitialize
<1>2. CASE OperationStart
  BY <1>2 DEF OperationStart
<1>3. CASE OperationFinish
  BY <1>3 DEF OperationFinish
<1>4. CASE OperationFail
  BY <1>4 DEF OperationFail
<1>5. CASE IntegrationInitialize
  BY <1>5 DEF IntegrationInitialize
<1>6. CASE IntegrationStart
  BY <1>6 DEF IntegrationStart
<1>7. CASE TellCleared
  BY <1>7 DEF TellCleared
<1>8. CASE TellLoaded
  BY <1>8 DEF TellLoaded
<1>9. CASE IntegrationFinish
  BY <1>9 DEF IntegrationFinish
<1>10. CASE IntegrationFail
  BY <1>10 DEF IntegrationFail
<1> QED
  BY <1>1, <1>2, <1>3, <1>4, <1>5, <1>6, <1>7, <1>8, <1>9, <1>10 DEF TellNext

LEMMA ControlRest ==
  ASSUME TypeOK, ControlInv,
         \/ BeginIntegration \/ ClearTarget \/ Load
         \/ Deliver \/ ManagerDies \/ Drop \/ CallAgain
         \/ UNCHANGED vars
  PROVE  ControlInv'
<1> USE DEF TypeOK, ControlInv, ErrInv, BrokerInv, SessionInv, BeforeBegin, Inside, Working,
            Handling, Leaving, Go, Raise, Fails, errVars, brokerVars, dataVars
<1>1. CASE BeginIntegration
  BY <1>1 DEF BeginIntegration
<1>2. CASE ClearTarget
  BY <1>2 DEF ClearTarget
<1>3. CASE Load
  BY <1>3 DEF Load
<1>4. CASE Deliver
  BY <1>4 DEF Deliver
<1>5. CASE ManagerDies
  BY <1>5 DEF ManagerDies
<1>6. CASE Drop
  BY <1>6 DEF Drop
<1>7. CASE CallAgain
  BY <1>7 DEF CallAgain
<1>8. CASE UNCHANGED vars
  BY <1>8 DEF vars
<1> QED
  BY <1>1, <1>2, <1>3, <1>4, <1>5, <1>6, <1>7, <1>8

(* What is in the events stays there, and what is appended is there.       *)
LEMMA SentStays ==
  ASSUME TypeOK, accepted' = accepted \/ Appends,
         NEW part \in 0 .. Closing, NEW stage \in 1 .. 5, Sent(part, stage)
  PROVE  Sent(part, stage)'
<1>1. CASE accepted' = accepted
  BY <1>1 DEF Sent
<1>2. CASE Appends
  <2>1. PICK e \in Event : accepted' = Append(accepted, e)
    BY <1>2 DEF Appends
  <2>2. PICK i \in DOMAIN accepted : accepted[i].part = part /\ accepted[i].stage = stage
    BY DEF Sent
  <2>3. i \in DOMAIN Append(accepted, e) /\ Append(accepted, e)[i] = accepted[i]
    BY <2>2, AppendKeeps DEF TypeOK
  <2> QED
    BY <2>1, <2>2, <2>3 DEF Sent
<1> QED
  BY <1>1, <1>2

LEMMA SentNow ==
  ASSUME TypeOK, NEW part \in 0 .. Closing, NEW stage \in 1 .. 5, NEW last \in BOOLEAN,
         NEW next \in Places, NEW handler \in Places,
         Publish(part, stage, last, next, handler), err' = "none"
  PROVE  Sent(part, stage)' /\ pc' = next /\ err = "none"
<1> DEFINE e == [part |-> part, stage |-> stage, ok |-> TRUE, last |-> last]
<1>1. ~Raise("put", handler)
  BY DEF Raise
<1>2. accepted' = Append(accepted, e) /\ Go(next)
  BY <1>1 DEF Publish
<1>3. e \in Event
  BY StagesShape DEF Event
<1>4. Len(accepted) + 1 \in DOMAIN Append(accepted, e) /\ Append(accepted, e)[Len(accepted) + 1] = e
  BY <1>3, AppendKeeps DEF TypeOK
<1> QED
  BY <1>2, <1>4 DEF Sent, Go, errVars

(* An integration of the operation has a number among the parts.           *)
LEMMA JobPart ==
  ASSUME TypeOK, NEW k \in DOMAIN job
  PROVE  k \in 0 .. Closing /\ k \in Nat
  BY JobShape, BoundAssumption DEF TypeOK, Closing

LEMMA DoneStays ==
  ASSUME TypeOK, NEW k \in DOMAIN job, Done(k), job' = job, target'[k] = target[k],
         accepted' = accepted \/ Appends
  PROVE  Done(k)'
<1>1. k \in 0 .. Closing /\ Truncate \in 1 .. 5
  BY JobPart DEF Truncate
<1>2. Sent(k, Truncate) => Sent(k, Truncate)'
  BY <1>1, SentStays
<1> QED
  BY <1>2 DEF Done

LEMMA WorkInit == Init => WorkInv
<1> SUFFICES ASSUME Init PROVE WorkInv
  OBVIOUS
<1> QED
  BY DEF Init, WorkInv, BeforeBegin, Working, Leaving

(* Set-up, transaction and leaving change nothing about the work.          *)
LEMMA WorkFrame ==
  ASSUME TypeOK, ControlInv, WorkInv, FrameNext
  PROVE  WorkInv'
<1>1. UNCHANGED <<job, cur, accepted, target>>
  BY DEF FrameNext, BrokerInitialize, RegisterListeners, StartBroker, Prepare, Begin,
         Commit, Rollback, CloseSession, Join, Close, eventVars, dataVars
<1>2. /\ DoneBefore' = DoneBefore /\ DoneUpTo' = DoneUpTo
      /\ Sent(cur, Truncate)' = Sent(cur, Truncate)
      /\ Sent(Closing, Finished)' = Sent(Closing, Finished)
  BY <1>1 DEF DoneBefore, DoneUpTo, Done, Sent
<1>3. err' = "none" =>
        /\ err = "none"
        /\ \/ pc \in BeforeBegin /\ pc' \in BeforeBegin \cup {"opInitialize"}
           \/ pc \in {"commit"} \cup Leaving /\ pc' \in Leaving
  BY DEF FrameNext, BrokerInitialize, RegisterListeners, StartBroker, Prepare, Begin,
         Commit, Rollback, CloseSession, Join, Close, Go, Raise, Fails, errVars,
         BeforeBegin, Leaving, ControlInv, ErrInv, Handling
<1> QED
  BY <1>1, <1>2, <1>3 DEF WorkInv, BeforeBegin, Working, Leaving

(* A step that publishes moves on when it succeeds.                        *)
LEMMA WorkTell ==
  ASSUME TypeOK, ControlInv, WorkInv, TellNext
  PROVE  WorkInv'
<1> SUFFICES ASSUME err' = "none" PROVE WorkInv'
  BY DEF WorkInv
<1>1. UNCHANGED <<job, cur, target>> /\ (accepted' = accepted \/ Appends)
  BY TellType DEF TellNext, OperationInitialize, OperationStart, OperationFinish, OperationFail,
         IntegrationInitialize, IntegrationStart, TellCleared, TellLoaded,
         IntegrationFinish, IntegrationFail, dataVars
<1>2. \A k \in DOMAIN job : Done(k) => Done(k)'
  BY <1>1, DoneStays
<1>3. /\ DoneBefore => DoneBefore'
      /\ DoneUpTo => DoneUpTo'
  BY <1>1, <1>2, Zenon DEF DoneBefore, DoneUpTo
<1>4. Sent(cur, Truncate) => Sent(cur, Truncate)'
  BY <1>1, SentStays, CurIsPart DEF Truncate
<1>5. /\ Initialized \in 1 .. 5 /\ Started \in 1 .. 5 /\ Truncate \in 1 .. 5
      /\ Execute \in 1 .. 5 /\ Finished \in 1 .. 5
      /\ {"opStart", "opFail", "next", "commit", "rollback", "intStart", "intFail",
          "clear", "load", "intFinish"} \subseteq Places
  BY DEF Initialized, Started, Truncate, Execute, Finished, Places
<1>6. ~Raise("put", "opFail") /\ ~Fails("opFail") /\ ~Fails("intFail")
  BY DEF Raise, Fails
<1> USE <1>5, CurIsPart
<1>a. CASE OperationInitialize
  <2>1. pc = "opInitialize" /\ pc' = "opStart" /\ err = "none"
    BY <1>a, <1>6, SentNow DEF OperationInitialize
  <2> QED
    BY <1>1, <2>1 DEF WorkInv, BeforeBegin, Working, Leaving
<1>b. CASE OperationStart
  <2>1. pc = "opStart" /\ pc' = "next" /\ err = "none"
    BY <1>b, SentNow DEF OperationStart
  <2>2. cur = 0
    BY <2>1 DEF WorkInv
  <2>3. DoneUpTo
    <3> SUFFICES ASSUME NEW k \in DOMAIN job PROVE ~(k <= 0)
      BY <2>2 DEF DoneUpTo
    <3> QED
      BY JobShape DEF TypeOK
  <2> QED
    BY <1>3, <2>1, <2>3 DEF WorkInv, BeforeBegin, Working, Leaving
<1>c. CASE OperationFinish
  <2>1. /\ pc = "next" /\ pc' = "commit" /\ err = "none" /\ cur = Len(job)
        /\ Sent(Closing, Finished)'
    BY <1>c, SentNow DEF OperationFinish
  <2>2. DoneUpTo
    BY <2>1 DEF WorkInv
  <2>3. cur' = Len(job')
    BY <1>1, <2>1
  <2> QED
    BY <1>3, <2>1, <2>2, <2>3 DEF WorkInv, BeforeBegin, Working, Leaving
<1>d. CASE OperationFail
  BY <1>d DEF OperationFail, PublishError, Go, Raise, errVars, ControlInv, ErrInv, Handling
<1>e. CASE IntegrationInitialize
  <2>1. pc = "intInitialize" /\ pc' = "intStart" /\ err = "none"
    BY <1>e, <1>6, SentNow DEF IntegrationInitialize
  <2> QED
    BY <1>1, <1>3, <2>1 DEF WorkInv, BeforeBegin, Working, Leaving
<1>f. CASE IntegrationStart
  <2>1. pc = "intStart" /\ pc' = "clear" /\ err = "none"
    BY <1>f, SentNow DEF IntegrationStart
  <2> QED
    BY <1>1, <1>3, <2>1 DEF WorkInv, BeforeBegin, Working, Leaving
<1>g. CASE TellCleared
  <2>1. pc = "tellCleared" /\ pc' = "load" /\ err = "none" /\ Sent(cur, Truncate)'
    BY <1>g, SentNow DEF TellCleared
  <2> QED
    BY <1>1, <1>3, <2>1 DEF WorkInv, BeforeBegin, Working, Leaving
<1>h. CASE TellLoaded
  <2>1. pc = "tellLoaded" /\ pc' = "intFinish" /\ err = "none"
    BY <1>h, SentNow DEF TellLoaded
  <2> QED
    BY <1>1, <1>3, <1>4, <2>1 DEF WorkInv, BeforeBegin, Working, Leaving
<1>i. CASE IntegrationFinish
  <2>1. pc = "intFinish" /\ pc' = "next" /\ err = "none"
    BY <1>i, SentNow DEF IntegrationFinish
  <2>2. /\ cur \in DOMAIN job /\ DoneBefore
        /\ Done(cur)
    BY <2>1 DEF WorkInv, Working, Done
  <2>3. DoneUpTo
    <3> SUFFICES ASSUME NEW k \in DOMAIN job, k <= cur PROVE Done(k)
      BY DEF DoneUpTo
    <3>1. k < cur \/ k = cur
      BY JobPart, <2>2
    <3> QED
      BY <2>2, <3>1 DEF DoneBefore
  <2> QED
    BY <1>3, <2>1, <2>3 DEF WorkInv, BeforeBegin, Working, Leaving
<1>j. CASE IntegrationFail
  BY <1>j DEF IntegrationFail, PublishError, Go, Raise, errVars, ControlInv, ErrInv, Handling
<1> QED
  BY <1>a, <1>b, <1>c, <1>d, <1>e, <1>f, <1>g, <1>h, <1>i, <1>j DEF TellNext

(* The steps that work on an integration's target.                         *)
LEMMA WorkWork ==
  ASSUME TypeOK, ControlInv, WorkInv, BeginIntegration \/ ClearTarget \/ Load
  PROVE  WorkInv'
<1> SUFFICES ASSUME err' = "none" PROVE WorkInv'
  BY DEF WorkInv
<1> USE DEF eventVars
<1>1. CASE BeginIntegration
  <2>1. /\ pc = "next" /\ pc' = "intInitialize" /\ err = "none" /\ cur < Len(job)
        /\ cur' = cur + 1 /\ UNCHANGED <<job, accepted, target>>
    BY <1>1 DEF BeginIntegration, Go, Raise, errVars, dataVars
  <2>2. DoneUpTo
    BY <2>1 DEF WorkInv
  <2>3. cur + 1 \in DOMAIN job
    BY <2>1, JobShape DEF TypeOK
  <2>4. ASSUME NEW k \in DOMAIN job, k < cur + 1 PROVE Done(k)
    <3>1. k <= cur
      BY <2>4, JobPart, JobShape DEF TypeOK
    <3> QED
      BY <2>2, <3>1 DEF DoneUpTo
  <2>5. DoneBefore'
    BY <2>1, <2>4 DEF DoneBefore, Done, Sent
  <2> QED
    BY <2>1, <2>3, <2>5 DEF WorkInv, BeforeBegin, Working, Leaving
<1>2. CASE ClearTarget \/ Load
  <2>1. /\ err = "none" /\ UNCHANGED <<job, cur, accepted>>
        /\ \/ pc = "clear" /\ pc' = "tellCleared"
           \/ pc = "clear" /\ pc' = "load" /\ ~job[cur].truncate
           \/ pc = "load" /\ pc' = "tellLoaded" /\ target' = [target EXCEPT ![cur] = "loaded"]
    BY <1>2 DEF ClearTarget, Load, Go, Raise, Fails, errVars
  <2>2. cur \in DOMAIN job /\ DoneBefore
    BY <2>1 DEF WorkInv, Working
  <2>3. \A k \in DOMAIN job : k # cur => target'[k] = target[k]
    BY <1>2, <2>2 DEF ClearTarget, Load, TypeOK
  <2>4. ASSUME NEW k \in DOMAIN job, k < cur PROVE Done(k)'
    <3>1. k # cur
      BY <2>4, <2>2, JobPart
    <3>2. Done(k) /\ target'[k] = target[k]
      BY <2>2, <2>3, <2>4, <3>1 DEF DoneBefore
    <3> QED
      BY <2>1, <3>2, DoneStays
  <2>5. DoneBefore'
    BY <2>1, <2>4, Zenon DEF DoneBefore
  <2>6. pc' = "tellLoaded" => target'[cur] = "loaded"
    BY <2>1, <2>2 DEF TypeOK
  <2>7. pc' \in {"load", "tellLoaded"} => (job[cur].truncate => Sent(cur, Truncate))
    BY <2>1 DEF WorkInv
  <2>8. Sent(cur, Truncate)' = Sent(cur, Truncate)
    BY <2>1 DEF Sent
  <2> QED
    BY <2>1, <2>2, <2>5, <2>6, <2>7, <2>8 DEF WorkInv, BeforeBegin, Working, Leaving
<1> QED
  BY <1>1, <1>2

LEMMA WorkOutside ==
  ASSUME TypeOK, ControlInv, WorkInv,
         Deliver \/ ManagerDies \/ Drop \/ CallAgain \/ UNCHANGED vars
  PROVE  WorkInv'
<1>1. CASE CallAgain
  BY <1>1 DEF CallAgain, WorkInv, BeforeBegin, Working, Leaving
<1>2. CASE Deliver \/ ManagerDies \/ Drop \/ UNCHANGED vars
  <2>1. /\ UNCHANGED <<err, job, cur, accepted, target>>
        /\ pc' = pc \/ pc' = "dropped"
    BY <1>2 DEF Deliver, ManagerDies, Drop, vars, errVars, eventVars, dataVars
  <2>2. /\ DoneBefore' = DoneBefore /\ DoneUpTo' = DoneUpTo
        /\ Sent(cur, Truncate)' = Sent(cur, Truncate)
        /\ Sent(Closing, Finished)' = Sent(Closing, Finished)
    BY <2>1 DEF DoneBefore, DoneUpTo, Done, Sent
  <2> QED
    BY <2>1, <2>2 DEF WorkInv, BeforeBegin, Working, Leaving
<1> QED
  BY <1>1, <1>2

LEMMA InvInit == Init => IInv
  BY InitType, ControlInit, WorkInit DEF IInv

LEMMA InvNext == IInv /\ [Next]_vars => IInv'
<1> SUFFICES ASSUME IInv, [Next]_vars PROVE IInv'
  OBVIOUS
<1>1. TypeOK'
  BY NextType DEF IInv
<1>2. ControlInv'
  BY ControlFrame, ControlTell, ControlRest
  DEF IInv, Next, CallerNext, FrameNext, TellNext
<1>3. WorkInv'
  BY WorkFrame, WorkTell, WorkWork, WorkOutside
  DEF IInv, Next, CallerNext, FrameNext, TellNext
<1> QED
  BY <1>1, <1>2, <1>3 DEF IInv

LEMMA InvMeans == IInv => CleanMeansCommitted
<1> SUFFICES ASSUME IInv, pc = "returned" PROVE CleanMeansCommitted
  BY DEF CleanMeansCommitted
<1>1. (err = "none" <=> session = "committed") /\ (session = "landed" => err = "db" /\ first = "db")
  BY DEF IInv, ControlInv, SessionInv, Leaving
<1>2. ASSUME err = "none" PROVE Sent(Closing, Finished) /\ \A k \in DOMAIN job : Done(k)
  <2>1. DoneUpTo /\ cur = Len(job) /\ Sent(Closing, Finished)
    BY <1>2 DEF IInv, WorkInv, Leaving
  <2>2. \A k \in DOMAIN job : k <= cur
    BY <2>1, JobShape DEF IInv, TypeOK
  <2> QED
    BY <2>1, <2>2 DEF DoneUpTo
<1> QED
  BY <1>1, <1>2 DEF CleanMeansCommitted

(* integrate returns normally if and only if the transaction around the    *)
(* operation was committed, and then the operation's end was announced and *)
(* every integration was loaded, its truncation announced where one was    *)
(* asked: however many integrations there are, on every call, and whatever *)
(* is raised, timed out or killed on the way.                              *)
THEOREM NormalReturnIsSuccess == Spec => []CleanMeansCommitted
<1> QED
  BY InvInit, InvNext, InvMeans, PTL DEF Spec

-----------------------------------------------------------------------------
(* Which exception the caller gets.  ErrorIsExplained speaks of the return *)
(* only; on the way there every exception in flight has to be accounted    *)
(* for, the manager has to be running or known to have died wherever       *)
(* something is published, and no handler that publishes is reached after  *)
(* a timeout.  A database error is the first one, or that of a transaction *)
(* that was given up while it was open.                                    *)

Publishing == {"register", "startBroker", "prepare", "begin"} \cup Inside \cup Handling
Parting    == {"closeSession", "join", "close", "returned", "dropped"}

ErrorInv ==
  /\ err \in {"setup", "job", "odd", "timeout"} => first = err
  /\ err = "put" => (first = "odd" \/ crashed) /\ first # "timeout"
  /\ err = "db" => "database" \in Faults /\ pc \in {"rollback"} \cup Parting
  /\ err = "db" /\ first # "db" /\ pc \in {"join", "close", "returned", "dropped"} =>
       session = "rolledBack"
  /\ err = "join" => broker # "started" /\ session = "none" /\ pc \in {"returned", "dropped"}

PlaceInv ==
  /\ pc \in Publishing => managerUp \/ crashed
  /\ pc \in Handling => first # "timeout"
  /\ pc = "closeSession" => session # "none"

ExplainInv == ErrorInv /\ PlaceInv

LEMMA ExplainInit == Init => ExplainInv
  BY DEF Init, ExplainInv, ErrorInv, PlaceInv, Publishing, Parting, BeforeBegin, Inside, Working,
         Handling

(* Set-up, transaction and leaving: where the session is given up, where   *)
(* the database fails, and where the broker turns out not to be started.   *)
LEMMA ExplainFrame ==
  ASSUME TypeOK, ControlInv, ExplainInv, FrameNext
  PROVE  ExplainInv'
<1> USE DEF TypeOK, ControlInv, ErrInv, BrokerInv, SessionInv, ExplainInv, ErrorInv, PlaceInv,
            Publishing, Parting, BeforeBegin, Inside, Working, Handling, Leaving, Errors,
            Go, Raise, Fails, errVars, brokerVars, dataVars
<1>1. CASE BrokerInitialize
  BY <1>1 DEF BrokerInitialize
<1>2. CASE RegisterListeners
  BY <1>2 DEF RegisterListeners
<1>3. CASE StartBroker
  BY <1>3 DEF StartBroker
<1>4. CASE Prepare
  BY <1>4 DEF Prepare
<1>5. CASE Begin
  BY <1>5 DEF Begin
<1>6. CASE Commit
  BY <1>6 DEF Commit
<1>7. CASE Rollback
  BY <1>7 DEF Rollback, GivenUp
<1>8. CASE CloseSession
  BY <1>8 DEF CloseSession, GivenUp
<1>9. CASE Join
  BY <1>9 DEF Join
<1>10. CASE Close
  BY <1>10 DEF Close
<1> QED
  BY <1>1, <1>2, <1>3, <1>4, <1>5, <1>6, <1>7, <1>8, <1>9, <1>10 DEF FrameNext

(* A publication fails only when the manager has died or the exception it  *)
(* carries does not pickle.                                                *)
LEMMA ExplainTell ==
  ASSUME TypeOK, ControlInv, ExplainInv, TellNext
  PROVE  ExplainInv'
<1> USE DEF TypeOK, ControlInv, ErrInv, BrokerInv, SessionInv, ExplainInv, ErrorInv, PlaceInv,
            Publishing, Parting, BeforeBegin, Inside, Working, Handling, Leaving, Errors,
            Go, Raise, Fails, Publish, PublishError, errVars, brokerVars, dataVars
<1>1. CASE OperationInitialize
  BY <1>1 DEF OperationInitialize
<1>2. CASE OperationStart
  BY <1>2 DEF OperationStart
<1>3. CASE OperationFinish
  BY <1>3 DEF OperationFinish
<1>4. CASE OperationFail
  BY <1>4 DEF OperationFail
<1>5. CASE IntegrationInitialize
  BY <1>5 DEF IntegrationInitialize
<1>6. CASE IntegrationStart
  BY <1>6 DEF IntegrationStart
<1>7. CASE TellCleared
  BY <1>7 DEF TellCleared
<1>8. CASE TellLoaded
  BY <1>8 DEF TellLoaded
<1>9. CASE IntegrationFinish
  BY <1>9 DEF IntegrationFinish
<1>10. CASE IntegrationFail
  BY <1>10 DEF IntegrationFail
<1> QED
  BY <1>1, <1>2, <1>3, <1>4, <1>5, <1>6, <1>7, <1>8, <1>9, <1>10 DEF TellNext

LEMMA ExplainRest ==
  ASSUME TypeOK, ControlInv, ExplainInv,
         \/ BeginIntegration \/ ClearTarget \/ Load
         \/ Deliver \/ ManagerDies \/ Drop \/ CallAgain
         \/ UNCHANGED vars
  PROVE  ExplainInv'
<1> USE DEF TypeOK, ControlInv, ErrInv, BrokerInv, SessionInv, ExplainInv, ErrorInv, PlaceInv,
            Publishing, Parting, BeforeBegin, Inside, Working, Handling, Leaving, Errors,
            Go, Raise, Fails, errVars, brokerVars, dataVars
<1>1. CASE BeginIntegration
  BY <1>1 DEF BeginIntegration
<1>2. CASE ClearTarget
  BY <1>2 DEF ClearTarget
<1>3. CASE Load
  BY <1>3 DEF Load
<1>4. CASE Deliver
  BY <1>4 DEF Deliver
<1>5. CASE ManagerDies
  BY <1>5 DEF ManagerDies
<1>6. CASE Drop
  BY <1>6 DEF Drop
<1>7. CASE CallAgain
  BY <1>7 DEF CallAgain
<1>8. CASE UNCHANGED vars
  BY <1>8 DEF vars
<1> QED
  BY <1>1, <1>2, <1>3, <1>4, <1>5, <1>6, <1>7, <1>8

LEMMA ExplainNext == IInv /\ ExplainInv /\ [Next]_vars => ExplainInv'
<1> SUFFICES ASSUME IInv, ExplainInv, [Next]_vars PROVE ExplainInv'
  OBVIOUS
<1> QED
  BY ExplainFrame, ExplainTell, ExplainRest
  DEF IInv, Next, CallerNext, FrameNext, TellNext

LEMMA ExplainMeans == IInv /\ ExplainInv => ErrorIsExplained
  BY DEF IInv, TypeOK, ControlInv, ErrInv, ExplainInv, ErrorInv, ErrorIsExplained, Errors

(* The caller of integrate gets the exception that ended the run, and      *)
(* another in its place only when that one could not be published, when    *)
(* rolling back or closing the session failed as well, or when the broker  *)
(* had not been started; a timeout is only ever hidden by the session:     *)
(* on every call, and for every mix of faults.                             *)
THEOREM ErrorReachesCaller == Spec => []ErrorIsExplained
<1> QED
  BY InvInit, InvNext, ExplainInit, ExplainNext, ExplainMeans, PTL DEF Spec

-----------------------------------------------------------------------------
(* The events.  What has been published lies behind a frontier that the    *)
(* caller's place and the integration at work determine; from it follow    *)
(* the order of the events and that each part is finished at most once.    *)

Telling == Working \cup {"opInitialize", "opStart", "next", "intFail", "opFail"}

(* The last stage that the part at work may have announced.                *)
Reached ==
  CASE pc \in {"opInitialize", "intInitialize"} -> 0
    [] pc \in {"opStart", "intStart"} -> 1
    [] pc \in {"clear", "tellCleared"} -> 2
    [] pc \in {"load", "tellLoaded"} -> 3
    [] pc \in {"intFinish", "intFail"} -> 4
    [] OTHER -> 5

Behind(e) == ~e.last /\ (e.part < cur \/ (e.part = cur /\ e.stage <= Reached))

OrderInv ==
  /\ Ordered
  /\ pc \in BeforeBegin => accepted = <<>>
  /\ pc \in Telling => \A i \in DOMAIN accepted : Behind(accepted[i])

Heard == first \notin {"timeout", "odd"} /\ ~crashed

(* Whoever was started is finished, or at work.                            *)
PairInv == Heard =>
  /\ \A k \in DOMAIN job : Sent(k, Started) =>
       Sent(k, Finished) \/ (k = cur /\ pc \in Working \cup {"intFail"})
  /\ session # "none" /\ pc \in {"commit", "rollback"} \cup Parting => Sent(Closing, Finished)

Failure(e) == e.stage = Finished /\ ~e.ok

StopInv ==
  /\ StopsAtFailure
  /\ pc \in Inside \cup {"intFail"} => \A i \in DOMAIN accepted : ~Failure(accepted[i])
  /\ \A k \in DOMAIN job : k > cur => target[k] = "untouched"

RealInv ==
  /\ SuccessIsReal
  /\ pc \in Working => \A k \in DOMAIN job : k < cur => Sent(k, Finished)
  /\ pc = "next" => \A k \in DOMAIN job : k <= cur => Sent(k, Finished)


(* What the steps that publish have in common: either the event that the   *)
(* caller's place calls for is appended and the caller goes on, or nothing *)
(* is appended and it goes to a handler.                                   *)
IsEvent(e, part, stage, ok, last) == e = [part |-> part, stage |-> stage, ok |-> ok, last |-> last]

Told(e) ==
  /\ accepted' = Append(accepted, e) /\ UNCHANGED errVars
  /\ \/ /\ pc = "opInitialize" /\ pc' = "opStart"
        /\ IsEvent(e, 0, 1, TRUE, FALSE)
     \/ /\ pc = "opStart" /\ pc' = "next"
        /\ IsEvent(e, 0, 2, TRUE, FALSE)
     \/ /\ pc = "intInitialize" /\ pc' = "intStart"
        /\ IsEvent(e, cur, 1, TRUE, FALSE)
     \/ /\ pc = "intStart" /\ pc' = "clear"
        /\ IsEvent(e, cur, 2, TRUE, FALSE)
     \/ /\ pc = "tellCleared" /\ pc' = "load"
        /\ IsEvent(e, cur, 3, TRUE, FALSE)
     \/ /\ pc = "tellLoaded" /\ pc' = "intFinish"
        /\ IsEvent(e, cur, 4, TRUE, FALSE)
     \/ /\ pc = "intFinish" /\ pc' = "next"
        /\ IsEvent(e, cur, 5, TRUE, FALSE)
     \/ /\ pc = "intFail" /\ pc' = "opFail"
        /\ IsEvent(e, cur, 5, FALSE, FALSE)
     \/ /\ pc = "next" /\ pc' = "commit" /\ cur = Len(job)
        /\ IsEvent(e, Closing, 5, TRUE, TRUE)
     \/ /\ pc = "opFail" /\ pc' = "rollback"
        /\ IsEvent(e, Closing, 5, FALSE, TRUE)

Untold ==
  /\ accepted' = accepted
  /\ \/ pc \in {"opInitialize", "opStart", "next"} /\ pc' = "opFail"
     \/ pc \in Working \ {"clear", "load"} /\ pc' = "intFail"
     \/ pc = "intFail" /\ pc' = "opFail" /\ (~managerUp \/ err = "odd")
     \/ pc = "opFail" /\ pc' = "rollback" /\ (~managerUp \/ err = "odd")

LEMMA TellEffect ==
  ASSUME TypeOK, TellNext
  PROVE  /\ UNCHANGED <<job, cur, target, session, managerUp, crashed>>
         /\ first' = first \/ first = "none"
         /\ Untold \/ \E e \in Event : Told(e)
<1>1. UNCHANGED <<job, cur, target, session, managerUp, crashed>>
  BY DEF TellNext, OperationInitialize, OperationStart, OperationFinish, OperationFail,
         IntegrationInitialize, IntegrationStart, TellCleared, TellLoaded,
         IntegrationFinish, IntegrationFail, dataVars, brokerVars
<1>2. ASSUME NEW part \in 0 .. Closing, NEW stage \in 1 .. 5, NEW ok \in BOOLEAN, NEW last \in BOOLEAN
      PROVE  [part |-> part, stage |-> stage, ok |-> ok, last |-> last] \in Event
  BY StagesShape DEF Event
<1>3. 0 \in 0 .. Closing /\ cur \in 0 .. Closing /\ Closing \in 0 .. Closing
  BY CurIsPart
<1>4. 1 \in 1 .. 5 /\ 2 \in 1 .. 5 /\ 3 \in 1 .. 5 /\ 4 \in 1 .. 5 /\ 5 \in 1 .. 5
  OBVIOUS
<1>5. first' = first \/ first = "none"
  BY DEF TellNext, OperationInitialize, OperationStart, OperationFinish, OperationFail,
         IntegrationInitialize, IntegrationStart, TellCleared, TellLoaded,
         IntegrationFinish, IntegrationFail, Publish, PublishError, Go, Raise, Fails, errVars
<1>6. Untold \/ \E e \in Event : Told(e)
  <2> USE <1>2, <1>3, <1>4 DEF Told, Untold, IsEvent, Go, Raise, Fails, Publish, PublishError,
          Working, Initialized, Started, Truncate, Execute, Finished
  <2>1. CASE OperationInitialize
    BY <2>1 DEF OperationInitialize
  <2>2. CASE OperationStart
    BY <2>2 DEF OperationStart
  <2>3. CASE OperationFinish
    BY <2>3 DEF OperationFinish
  <2>4. CASE OperationFail
    BY <2>4 DEF OperationFail
  <2>5. CASE IntegrationInitialize
    BY <2>5 DEF IntegrationInitialize
  <2>6. CASE IntegrationStart
    BY <2>6 DEF IntegrationStart
  <2>7. CASE TellCleared
    BY <2>7 DEF TellCleared
  <2>8. CASE TellLoaded
    BY <2>8 DEF TellLoaded
  <2>9. CASE IntegrationFinish
    BY <2>9 DEF IntegrationFinish
  <2>10. CASE IntegrationFail
    BY <2>10 DEF IntegrationFail
  <2> QED
    BY <2>1, <2>2, <2>3, <2>4, <2>5, <2>6, <2>7, <2>8, <2>9, <2>10 DEF TellNext
<1> QED
  BY <1>1, <1>5, <1>6

(* The other steps leave the events alone.  Set-up, transaction and        *)
(* leaving leave the work alone as well.                                   *)
FrameMove ==
  \/ pc \in BeforeBegin /\ pc' \in BeforeBegin \cup {"opInitialize"}
  \/ pc \in BeforeBegin /\ pc' = "join" /\ session' = session
  \/ pc \in {"commit", "rollback"} \cup Parting /\ pc' \in {"rollback"} \cup Parting

LEMMA FrameEffect ==
  ASSUME TypeOK, FrameNext
  PROVE  /\ UNCHANGED <<job, cur, accepted, target, crashed>>
         /\ first' = first \/ first = "none"
         /\ session = "none" => session' = "none" \/ pc = "begin" \/ pc = "commit" \/ pc = "rollback"
         /\ FrameMove
<1> USE DEF FrameMove, BeforeBegin, Parting, Go, Raise, Fails, errVars, brokerVars, eventVars, dataVars
<1>1. CASE BrokerInitialize
  BY <1>1 DEF BrokerInitialize
<1>2. CASE RegisterListeners
  BY <1>2 DEF RegisterListeners
<1>3. CASE StartBroker
  BY <1>3 DEF StartBroker
<1>4. CASE Prepare
  BY <1>4 DEF Prepare
<1>5. CASE Begin
  BY <1>5 DEF Begin
<1>6. CASE Commit
  BY <1>6 DEF Commit
<1>7. CASE Rollback
  BY <1>7 DEF Rollback, GivenUp
<1>8. CASE CloseSession
  BY <1>8 DEF CloseSession, GivenUp
<1>9. CASE Join
  BY <1>9 DEF Join
<1>10. CASE Close
  BY <1>10 DEF Close
<1> QED
  BY <1>1, <1>2, <1>3, <1>4, <1>5, <1>6, <1>7, <1>8, <1>9, <1>10 DEF FrameNext

LEMMA BeginEffect ==
  ASSUME TypeOK, BeginIntegration
  PROVE  /\ UNCHANGED <<job, accepted, target, session, crashed>>
         /\ first' = first \/ first = "none"
         /\ cur' = cur + 1 /\ pc = "next" /\ pc' \in {"intInitialize", "opFail"}
  BY DEF BeginIntegration, Go, Raise, errVars, brokerVars, eventVars, dataVars

LEMMA TargetEffect ==
  ASSUME TypeOK, ClearTarget \/ Load
  PROVE  /\ UNCHANGED <<job, cur, accepted, session, crashed>>
         /\ first' = first \/ first = "none"
         /\ \A k \in DOMAIN job : k # cur => target'[k] = target[k]
         /\ pc \in {"clear", "load"}
         /\ \/ pc' \in {"tellCleared", "load", "tellLoaded"} /\ Reached' >= Reached
            \/ pc' = "intFail" /\ Reached' >= Reached
            \/ pc' = "closeSession" /\ err' = "timeout" /\ (first = "none" => first' = "timeout")
<1> USE DEF TypeOK, Go, Raise, Fails, errVars, brokerVars, eventVars, dataVars, Reached
<1>1. CASE ClearTarget
  BY <1>1 DEF ClearTarget
<1>2. CASE Load
  BY <1>2 DEF Load
<1> QED
  BY <1>1, <1>2

LEMMA IdleEffect ==
  ASSUME TypeOK, Deliver \/ ManagerDies \/ Drop \/ UNCHANGED vars
  PROVE  /\ UNCHANGED <<job, cur, accepted, target, first, session>>
         /\ crashed => crashed'
         /\ pc' = pc \/ (pc = "returned" /\ pc' = "dropped")
<1> USE DEF TypeOK, errVars, brokerVars, eventVars, dataVars
<1>1. CASE Deliver
  BY <1>1 DEF Deliver
<1>2. CASE ManagerDies
  BY <1>2 DEF ManagerDies
<1>3. CASE Drop
  BY <1>3 DEF Drop
<1>4. CASE UNCHANGED vars
  BY <1>4 DEF vars
<1> QED
  BY <1>1, <1>2, <1>3, <1>4

LEMMA AppendShape ==
  ASSUME NEW q \in Seq(Event), NEW e \in Event
  PROVE  /\ \A i \in DOMAIN q : i \in Nat /\ i <= Len(q) /\ q[i] \in Event
         /\ \A i \in DOMAIN q : i \in DOMAIN Append(q, e) /\ Append(q, e)[i] = q[i]
         /\ Len(q) + 1 \in DOMAIN Append(q, e) /\ Append(q, e)[Len(q) + 1] = e
         /\ \A i \in DOMAIN Append(q, e) : i \in DOMAIN q \/ i = Len(q) + 1
  OBVIOUS

LEMMA EventShape ==
  ASSUME NEW e \in Event
  PROVE  e.part \in Nat /\ e.stage \in 1 .. 5 /\ e.ok \in BOOLEAN /\ e.last \in BOOLEAN
<1>1. Closing \in Nat
  BY BoundAssumption DEF Closing
<1> QED
  BY <1>1, StagesShape DEF Event

(* Appending an event to the sent ones adds just that one.                 *)
LEMMA SentGrows ==
  ASSUME TypeOK, NEW e \in Event, accepted' = Append(accepted, e), NEW part, NEW stage
  PROVE  Sent(part, stage)' <=> Sent(part, stage) \/ (e.part = part /\ e.stage = stage)
<1>1. accepted \in Seq(Event)
  BY DEF TypeOK
<1>2. ASSUME Sent(part, stage)' PROVE Sent(part, stage) \/ (e.part = part /\ e.stage = stage)
  <2>1. PICK i \in DOMAIN accepted' : accepted'[i].part = part /\ accepted'[i].stage = stage
    BY <1>2 DEF Sent
  <2>2. CASE i \in DOMAIN accepted
    BY <1>1, <2>1, <2>2, AppendShape DEF Sent
  <2>3. CASE i = Len(accepted) + 1
    BY <1>1, <2>1, <2>3, AppendShape
  <2> QED
    BY <1>1, <2>2, <2>3, AppendShape
<1>3. ASSUME Sent(part, stage) PROVE Sent(part, stage)'
  <2>1. PICK i \in DOMAIN accepted : accepted[i].part = part /\ accepted[i].stage = stage
    BY <1>3 DEF Sent
  <2>2. i \in DOMAIN accepted' /\ accepted'[i] = accepted[i]
    BY <1>1, AppendShape
  <2> QED
    BY <2>1, <2>2 DEF Sent
<1>4. ASSUME e.part = part, e.stage = stage PROVE Sent(part, stage)'
  <2>1. Len(accepted) + 1 \in DOMAIN accepted' /\ accepted'[Len(accepted) + 1] = e
    BY <1>1, AppendShape
  <2> QED
    BY <1>4, <2>1 DEF Sent
<1> QED
  BY <1>2, <1>3, <1>4

LEMMA CurBounds ==
  ASSUME TypeOK
  PROVE  /\ cur \in Nat /\ cur <= Len(job) /\ Len(job) < Closing /\ Closing \in Nat
         /\ Len(job) \in Nat
         /\ \A k \in DOMAIN job : k \in Nat /\ 0 < k /\ k <= Len(job)
  BY JobShape, BoundAssumption DEF TypeOK, Closing

-----------------------------------------------------------------------------
LEMMA OrderInit == Init => OrderInv
  BY DEF Init, OrderInv, Ordered, BeforeBegin, Telling, Working

(* A new event lies beyond the frontier, so it is later than all others.   *)
LEMMA OrderTold ==
  ASSUME IInv, OrderInv, NEW e \in Event, Told(e), cur' = cur
  PROVE  OrderInv'
<1>1. /\ cur \in Nat /\ cur <= Len(job) /\ Len(job) < Closing /\ Closing \in Nat
      /\ TypeOK /\ accepted \in Seq(Event) /\ accepted' = Append(accepted, e)
      /\ Len(job) \in Nat
  BY CurBounds DEF IInv, TypeOK, Told
<1>2. pc \in {"opInitialize", "opStart"} => cur = 0
  BY DEF IInv, ControlInv, ErrInv, WorkInv, Inside
<1>3. \A i \in DOMAIN accepted : Behind(accepted[i])
  BY DEF Told, OrderInv, Telling, Working
<1>4. ASSUME NEW i \in DOMAIN accepted
      PROVE  /\ ~accepted[i].last
             /\ \/ accepted[i].part < e.part
                \/ accepted[i].part = e.part /\ accepted[i].stage < e.stage
  <2>1. accepted[i] \in Event
    BY <1>1, AppendShape
  <2>2. accepted[i].part \in Nat /\ accepted[i].stage \in 1 .. 5
    BY <2>1, EventShape
  <2>3. Behind(accepted[i])
    BY <1>3
  <2> QED
    BY <1>1, <1>2, <2>2, <2>3 DEF Told, IsEvent, Behind, Reached
<1>5. Ordered'
  <2> SUFFICES ASSUME NEW i \in DOMAIN accepted', NEW j \in DOMAIN accepted', i < j
               PROVE  /\ ~accepted'[i].last
                      /\ \/ accepted'[i].part < accepted'[j].part
                         \/ accepted'[i].part = accepted'[j].part /\ accepted'[i].stage < accepted'[j].stage
    BY DEF Ordered
  <2>1. i \in DOMAIN accepted /\ accepted'[i] = accepted[i]
    BY <1>1, AppendShape
  <2>2. CASE j \in DOMAIN accepted
    BY <1>1, <2>1, <2>2, AppendShape DEF OrderInv, Ordered
  <2>3. CASE j = Len(accepted) + 1
    BY <1>1, <1>4, <2>1, <2>3, AppendShape
  <2> QED
    BY <1>1, <2>2, <2>3, AppendShape
<1>6. ASSUME pc' \in Telling, NEW i \in DOMAIN accepted' PROVE Behind(accepted[i])'
  <2>1. /\ Reached' >= Reached /\ ~e.last /\ e.stage <= Reached' /\ e.part = cur
    BY <1>2, <1>6 DEF Told, IsEvent, Reached, Telling, Working
  <2>2. Reached \in Nat /\ Reached' \in Nat
    BY DEF Reached
  <2>3. CASE i \in DOMAIN accepted
    <3>1. accepted'[i] = accepted[i] /\ accepted[i] \in Event
      BY <1>1, <2>3, AppendShape
    <3>2. accepted[i].stage \in 1 .. 5 /\ Behind(accepted[i])
      BY <1>3, <2>3, <3>1, EventShape
    <3> QED
      BY <1>1, <2>1, <2>2, <3>1, <3>2 DEF Behind
  <2>4. CASE i = Len(accepted) + 1
    <3>1. accepted'[i] = e
      BY <1>1, <2>4, AppendShape
    <3> QED
      BY <1>1, <2>1, <3>1 DEF Behind
  <2> QED
    BY <1>1, <2>3, <2>4, AppendShape
<1>7. pc' \notin BeforeBegin
  BY DEF Told, BeforeBegin
<1> QED
  BY <1>5, <1>6, <1>7 DEF OrderInv

(* Where nothing is published the frontier does not move back.             *)
LEMMA OrderKept ==
  ASSUME IInv, OrderInv, accepted' = accepted, cur' = cur \/ (cur' = cur + 1 /\ pc = "next"),
         pc' \in BeforeBegin => pc \in BeforeBegin,
         pc' \in Telling => pc \in Telling \cup BeforeBegin,
         (pc \in Telling /\ pc' \in Telling /\ cur' = cur) => Reached' >= Reached
  PROVE  OrderInv'
<1>1. /\ cur \in Nat /\ accepted \in Seq(Event)
  BY CurBounds DEF IInv, TypeOK
<1>2. Ordered'
  BY DEF OrderInv, Ordered
<1>3. pc' \in BeforeBegin => accepted' = <<>>
  BY DEF OrderInv
<1>4. ASSUME pc' \in Telling, NEW i \in DOMAIN accepted' PROVE Behind(accepted[i])'
  <2>1. CASE pc \in BeforeBegin
    BY <2>1, <1>4 DEF OrderInv
  <2>2. CASE pc \in Telling
    <3>1. Behind(accepted[i]) /\ accepted[i] \in Event
      BY <1>1, <1>4, <2>2, AppendShape DEF OrderInv
    <3>2. accepted[i].part \in Nat /\ accepted[i].stage \in 1 .. 5
      BY <3>1, EventShape
    <3>3. Reached \in Nat /\ Reached' \in Nat
      BY DEF Reached
    <3>4. CASE cur' = cur
      BY <1>1, <1>4, <2>2, <3>1, <3>2, <3>3, <3>4 DEF Behind
    <3>5. CASE cur' = cur + 1
      BY <1>1, <3>1, <3>2, <3>5 DEF Behind
    <3> QED
      BY <3>4, <3>5
  <2> QED
    BY <1>4, <2>1, <2>2
<1> QED
  BY <1>2, <1>3, <1>4 DEF OrderInv

LEMMA OrderNext == IInv /\ OrderInv /\ [Next]_vars => OrderInv'
<1> SUFFICES ASSUME IInv, OrderInv, [Next]_vars PROVE OrderInv'
  OBVIOUS
<1>0. TypeOK
  BY DEF IInv
<1>1. CASE FrameNext
  BY <1>0, <1>1, FrameEffect, OrderKept, Zenon DEF FrameMove, BeforeBegin, Telling, Working, Parting
<1>2. CASE TellNext
  <2>1. CASE Untold
    <3>1. /\ accepted' = accepted /\ cur' = cur /\ pc \in Telling /\ pc' \notin BeforeBegin
          /\ pc' \in Telling => Reached' >= Reached
      BY <1>0, <1>2, <2>1, TellEffect DEF Untold, Telling, Working, BeforeBegin, Reached
    <3> QED
      BY <3>1, OrderKept
  <2> QED
    BY <1>0, <1>2, <2>1, TellEffect, OrderTold
<1>3. CASE BeginIntegration
  BY <1>0, <1>3, BeginEffect, CurBounds, OrderKept DEF BeforeBegin, Telling, Working
<1>4. CASE ClearTarget \/ Load
  <2>1. /\ accepted' = accepted /\ cur' = cur /\ pc \in Telling /\ pc' \notin BeforeBegin
        /\ pc' \in Telling => Reached' >= Reached
    BY <1>0, <1>4, TargetEffect DEF Telling, Working, BeforeBegin
  <2> QED
    BY <2>1, OrderKept
<1>5. CASE Deliver \/ ManagerDies \/ Drop \/ UNCHANGED vars
  <2>1. /\ accepted' = accepted /\ cur' = cur
        /\ pc' = pc \/ (pc = "returned" /\ pc' = "dropped")
    BY <1>0, <1>5, IdleEffect
  <2>2. pc' = pc => Reached' = Reached
    BY DEF Reached
  <2>3. Reached \in Nat
    BY DEF Reached
  <2> QED
    BY <2>1, <2>2, <2>3, OrderKept DEF Telling, Working, BeforeBegin
<1>6. CASE CallAgain
  BY <1>6 DEF CallAgain, OrderInv, Ordered, Telling, Working
<1> QED
  BY <1>1, <1>2, <1>3, <1>4, <1>5, <1>6 DEF Next, CallerNext, FrameNext, TellNext

-----------------------------------------------------------------------------
LEMMA PairInit == Init => PairInv
<1> SUFFICES ASSUME Init PROVE PairInv
  OBVIOUS
<1> QED
  BY DEF Init, PairInv, Sent

(* What is told while somebody hears it: the finish comes in time.         *)
LEMMA PairTold ==
  ASSUME IInv, ExplainInv, OrderInv, PairInv, TellNext
  PROVE  PairInv'
<1>0. TypeOK
  BY DEF IInv
<1>1. /\ UNCHANGED <<job, cur, session, crashed>> /\ (first' = first \/ first = "none")
      /\ Untold \/ \E e \in Event : Told(e)
  BY <1>0, TellEffect
<1> SUFFICES ASSUME Heard' PROVE PairInv'
  BY DEF PairInv
<1>2. Heard
  BY <1>1 DEF Heard
<1>4. CASE Untold
  <2>1. pc \in Publishing
    BY <1>4 DEF Untold, Publishing, Inside, Handling, Working
  <2>2. managerUp /\ err # "odd"
    BY <1>2, <2>1 DEF Heard, ExplainInv, ErrorInv, PlaceInv
  <2>3. /\ accepted' = accepted /\ pc' \in {"opFail", "intFail"}
        /\ pc \in Working => pc' = "intFail"
        /\ pc # "intFail"
    BY <1>4, <2>2 DEF Untold, Working
  <2>4. \A p, t : Sent(p, t)' <=> Sent(p, t)
    BY <2>3 DEF Sent
  <2> QED
    BY <1>1, <1>2, <2>3, <2>4 DEF PairInv, Working, Parting
<1>5. ASSUME NEW e \in Event, Told(e) PROVE PairInv'
  <2>1. accepted' = Append(accepted, e)
    BY <1>5 DEF Told
  <2>2. \A p, t : Sent(p, t)' <=> Sent(p, t) \/ (e.part = p /\ e.stage = t)
    BY <1>0, <2>1, SentGrows
  <2>3. ASSUME NEW k \in DOMAIN job, Sent(k, 2)'
        PROVE  Sent(k, 5)' \/ (k = cur /\ pc' \in Working \cup {"intFail"})
    <3>1. 0 < k /\ k < Closing /\ k \in Nat /\ Closing \in Nat
      BY <1>0, CurBounds
    <3>2. CASE Sent(k, 2)
      <4>1. Sent(k, 5) \/ (k = cur /\ pc \in Working \cup {"intFail"})
        BY <1>2, <3>2 DEF PairInv, Started, Finished
      <4> QED
        BY <1>5, <2>2, <4>1 DEF Told, IsEvent, Working
    <3>3. CASE e.part = k /\ e.stage = 2
      BY <1>5, <3>1, <3>3 DEF Told, IsEvent, Working
    <3> QED
      BY <2>2, <2>3, <3>2, <3>3
  <2>4. pc' \in {"commit", "rollback"} \cup Parting => Sent(Closing, 5)'
    BY <1>5, <2>2 DEF Told, IsEvent, Parting
  <2> QED
    BY <1>1, <2>3, <2>4 DEF PairInv, Started, Finished
<1> QED
  BY <1>1, <1>4, <1>5

(* The steps that publish nothing.                                         *)
LEMMA PairKept ==
  ASSUME IInv, PairInv, UNCHANGED <<job, accepted>>, Heard' => Heard,
         pc \in Working \cup {"intFail"} =>
           cur' = cur /\ (pc' \in Working \cup {"intFail"} \/ ~Heard'),
         (Heard' /\ session' # "none" /\ pc' \in {"commit", "rollback"} \cup Parting) =>
           (session # "none" /\ pc \in {"commit", "rollback"} \cup Parting)
  PROVE  PairInv'
<1>1. \A p, t : Sent(p, t)' <=> Sent(p, t)
  BY DEF Sent
<1> QED
  BY <1>1 DEF PairInv

LEMMA PairNext == IInv /\ ExplainInv /\ OrderInv /\ PairInv /\ [Next]_vars => PairInv'
<1> SUFFICES ASSUME IInv, ExplainInv, OrderInv, PairInv, [Next]_vars PROVE PairInv'
  OBVIOUS
<1>0. TypeOK /\ ControlInv
  BY DEF IInv
<1>1. CASE FrameNext
  <2>1. /\ UNCHANGED <<job, cur, accepted, crashed>> /\ (first' = first \/ first = "none")
        /\ session = "none" => session' = "none" \/ pc = "begin" \/ pc = "commit" \/ pc = "rollback"
        /\ FrameMove
    BY <1>0, <1>1, FrameEffect
  <2>2. pc \notin Working \cup {"intFail"}
    BY <2>1 DEF FrameMove, BeforeBegin, Working, Parting
  <2>3. /\ pc \in BeforeBegin => session = "none"
        /\ pc \in {"commit", "rollback"} => session # "none"
    BY <1>0 DEF ControlInv, SessionInv, Inside, Handling
  <2>4. (session' # "none" /\ pc' \in {"commit", "rollback"} \cup Parting) =>
           (session # "none" /\ pc \in {"commit", "rollback"} \cup Parting)
    BY <2>1, <2>3 DEF FrameMove, BeforeBegin, Parting
  <2>5. Heard' => Heard
    BY <2>1 DEF Heard
  <2> QED
    BY <2>1, <2>2, <2>4, <2>5, PairKept
<1>2. CASE TellNext
  BY <1>2, PairTold
<1>3. CASE BeginIntegration
  <2>1. /\ UNCHANGED <<job, accepted, session, crashed>> /\ (first' = first \/ first = "none")
        /\ pc = "next" /\ pc' \in {"intInitialize", "opFail"}
    BY <1>0, <1>3, BeginEffect
  <2>2. Heard' => Heard
    BY <2>1 DEF Heard
  <2> QED
    BY <2>1, <2>2, PairKept DEF Working, Parting
<1>4. CASE ClearTarget \/ Load
  <2>1. /\ UNCHANGED <<job, cur, accepted, session, crashed>> /\ (first' = first \/ first = "none")
        /\ pc \in {"clear", "load"}
        /\ \/ pc' \in {"tellCleared", "load", "tellLoaded", "intFail"}
           \/ pc' = "closeSession" /\ (first = "none" => first' = "timeout")
    BY <1>0, <1>4, TargetEffect
  <2>2. Heard' => Heard
    BY <2>1 DEF Heard
  <2>3. err = "none" /\ first = "none"
    BY <1>0, <2>1 DEF ControlInv, ErrInv, Inside, Working, ExplainInv, ErrorInv
  <2>4. pc' = "closeSession" => ~Heard'
    BY <2>1, <2>3 DEF Heard
  <2> QED
    BY <2>1, <2>2, <2>4, PairKept DEF Working, Parting
<1>5. CASE Deliver \/ ManagerDies \/ Drop \/ UNCHANGED vars
  <2>1. /\ UNCHANGED <<job, cur, accepted, session, first>> /\ (crashed => crashed')
        /\ pc' = pc \/ (pc = "returned" /\ pc' = "dropped")
    BY <1>0, <1>5, IdleEffect
  <2>2. Heard' => Heard
    BY <2>1 DEF Heard
  <2> QED
    BY <2>1, <2>2, PairKept DEF Working, Parting
<1>6. CASE CallAgain
  BY <1>6 DEF CallAgain, PairInv, Sent, Parting
<1> QED
  BY <1>1, <1>2, <1>3, <1>4, <1>5, <1>6 DEF Next, CallerNext, FrameNext, TellNext

-----------------------------------------------------------------------------
LEMMA StopInit == Init => StopInv
  BY DEF Init, StopInv, StopsAtFailure, Sent

(* A failure is published by the last step that may touch the integrations,*)
(* and what it leaves behind has not begun.                                *)
LEMMA StopTold ==
  ASSUME IInv, OrderInv, StopInv, NEW e \in Event, Told(e), UNCHANGED <<job, cur, target>>
  PROVE  StopInv'
<1>0. TypeOK /\ accepted' = Append(accepted, e) /\ accepted \in Seq(Event)
  BY DEF IInv, TypeOK, Told
<1>1. \A p, t : Sent(p, t)' <=> Sent(p, t) \/ (e.part = p /\ e.stage = t)
  BY <1>0, SentGrows
<1>2. /\ cur \in Nat /\ Len(job) < Closing /\ Closing \in Nat /\ Len(job) \in Nat
      /\ \A k \in DOMAIN job : k \in Nat /\ 0 < k /\ k <= Len(job)
  BY <1>0, CurBounds
<1>3. ASSUME NEW i \in DOMAIN accepted', Failure(accepted[i])', NEW k \in DOMAIN job, k > accepted'[i].part
      PROVE  target[k] = "untouched" /\ \A s \in 1 .. Len(Stages) : ~Sent(k, s)'
  <2>1. CASE i \in DOMAIN accepted
    <3>1. accepted'[i] = accepted[i]
      BY <1>0, <2>1, AppendShape
    <3>2. accepted[i].stage = Finished /\ ~accepted[i].ok
      BY <1>3, <3>1 DEF Failure
    <3>3. target[k] = "untouched" /\ \A s \in 1 .. Len(Stages) : ~Sent(k, s)
      BY <1>3, <2>1, <3>1, <3>2 DEF StopInv, StopsAtFailure
    <3>4. pc \notin Inside \cup {"intFail"}
      BY <2>1, <3>2 DEF StopInv, Failure
    <3>5. e.part = Closing
      BY <3>4 DEF Told, IsEvent, Inside, Working
    <3> QED
      BY <1>1, <1>2, <3>3, <3>5
  <2>2. CASE i = Len(accepted) + 1
    <3>1. accepted'[i] = e
      BY <1>0, <2>2, AppendShape
    <3>2. ~e.ok
      BY <1>3, <3>1 DEF Failure
    <3>3. pc = "intFail" /\ e.part = cur
      BY <1>2, <1>3, <3>1, <3>2 DEF Told, IsEvent
    <3>4. target[k] = "untouched"
      BY <1>3, <3>1, <3>3 DEF StopInv
    <3>5. ASSUME NEW t, Sent(k, t) PROVE FALSE
      <4>1. PICK j \in DOMAIN accepted : accepted[j].part = k
        BY <3>5 DEF Sent
      <4>2. Behind(accepted[j])
        BY <3>3, <4>1 DEF OrderInv, Telling
      <4> QED
        BY <1>2, <1>3, <3>1, <3>3, <4>1, <4>2 DEF Behind
    <3> QED
      BY <1>1, <1>2, <1>3, <3>1, <3>3, <3>4, <3>5
  <2> QED
    BY <1>0, <2>1, <2>2, AppendShape
<1>4. StopsAtFailure'
  BY <1>3 DEF StopsAtFailure, Failure
<1>5. ASSUME pc' \in Inside \cup {"intFail"}, NEW i \in DOMAIN accepted' PROVE ~Failure(accepted[i])'
  <2>1. pc \in Inside /\ e.ok
    BY <1>5 DEF Told, IsEvent, Inside, Working
  <2>2. \A j \in DOMAIN accepted : ~Failure(accepted[j])
    BY <2>1 DEF StopInv
  <2> QED
    BY <1>0, <2>1, <2>2, AppendShape DEF Failure
<1>6. \A k \in DOMAIN job : k > cur => target[k] = "untouched"
  BY DEF StopInv
<1> QED
  BY <1>4, <1>5, <1>6 DEF StopInv

(* Steps that publish nothing: before the first failure the targets behind *)
(* the integration at work are left alone, after it all of them are.       *)
LEMMA StopKept ==
  ASSUME IInv, StopInv, UNCHANGED <<job, accepted>>,
         pc' \in Inside \cup {"intFail"} => pc \in Inside \cup {"intFail"} \/ accepted = <<>>,
         \/ target' = target
         \/ pc \in Inside /\ \A k \in DOMAIN job : k # cur => target'[k] = target[k],
         cur' = cur \/ (cur' = cur + 1 /\ target' = target)
  PROVE  StopInv'
<1>1. \A p, t : Sent(p, t)' <=> Sent(p, t)
  BY DEF Sent
<1>2. cur \in Nat /\ \A k \in DOMAIN job : k \in Nat
  BY CurBounds DEF IInv
<1>3. StopsAtFailure'
  <2>1. CASE target' = target
    BY <1>1, <2>1 DEF StopInv, StopsAtFailure
  <2>2. CASE pc \in Inside
    <3>1. \A i \in DOMAIN accepted : ~Failure(accepted[i])
      BY <2>2 DEF StopInv
    <3> QED
      BY <3>1 DEF StopsAtFailure, Failure
  <2> QED
    BY <2>1, <2>2
<1>4. pc' \in Inside \cup {"intFail"} => \A i \in DOMAIN accepted : ~Failure(accepted[i])
  BY DEF StopInv
<1>5. \A k \in DOMAIN job : k > cur' => target'[k] = "untouched"
  BY <1>2 DEF StopInv
<1> QED
  BY <1>3, <1>4, <1>5 DEF StopInv, Failure

LEMMA StopNext == IInv /\ OrderInv /\ StopInv /\ [Next]_vars => StopInv'
<1> SUFFICES ASSUME IInv, OrderInv, StopInv, [Next]_vars PROVE StopInv'
  OBVIOUS
<1>0. TypeOK
  BY DEF IInv
<1>1. CASE FrameNext
  <2>1. UNCHANGED <<job, cur, accepted, target>> /\ FrameMove
    BY <1>0, <1>1, FrameEffect
  <2>2. pc' \in Inside \cup {"intFail"} => accepted = <<>>
    BY <2>1 DEF FrameMove, BeforeBegin, Parting, Inside, Working, OrderInv
  <2> QED
    BY <2>1, <2>2, StopKept
<1>2. CASE TellNext
  <2>1. UNCHANGED <<job, cur, target>> /\ (Untold \/ \E e \in Event : Told(e))
    BY <1>0, <1>2, TellEffect
  <2>2. CASE Untold
    BY <2>1, <2>2, StopKept DEF Untold, Inside, Working
  <2> QED
    BY <2>1, <2>2, StopTold
<1>3. CASE BeginIntegration
  <2>1. UNCHANGED <<job, accepted, target>> /\ cur' = cur + 1 /\ pc = "next"
    BY <1>0, <1>3, BeginEffect
  <2> QED
    BY <2>1, StopKept DEF Inside
<1>4. CASE ClearTarget \/ Load
  <2>1. /\ UNCHANGED <<job, cur, accepted>> /\ pc \in {"clear", "load"}
        /\ \A k \in DOMAIN job : k # cur => target'[k] = target[k]
    BY <1>0, <1>4, TargetEffect
  <2> QED
    BY <2>1, StopKept DEF Inside, Working
<1>5. CASE Deliver \/ ManagerDies \/ Drop \/ UNCHANGED vars
  <2>1. /\ UNCHANGED <<job, cur, accepted, target>>
        /\ pc' = pc \/ (pc = "returned" /\ pc' = "dropped")
    BY <1>0, <1>5, IdleEffect
  <2> QED
    BY <2>1, StopKept DEF Inside, Working
<1>6. CASE CallAgain
  BY <1>6 DEF CallAgain, StopInv, StopsAtFailure, Sent
<1> QED
  BY <1>1, <1>2, <1>3, <1>4, <1>5, <1>6 DEF Next, CallerNext, FrameNext, TellNext

LEMMA SequencedMeans == IInv /\ OrderInv /\ PairInv /\ StopInv => Sequenced
<1> SUFFICES ASSUME IInv, OrderInv, PairInv, StopInv PROVE Sequenced
  OBVIOUS
<1>1. Ordered /\ StopsAtFailure
  BY DEF OrderInv, StopInv
<1>2. Paired
  <2> SUFFICES ASSUME Heard PROVE Paired
    BY DEF Paired, Heard
  <2>1. ASSUME NEW k \in DOMAIN job, Sent(k, Started),
               cur > k \/ pc \in {"opFail", "rollback", "commit", "join", "close", "returned"}
        PROVE  Sent(k, Finished)
    <3>1. cur \in Nat /\ k \in Nat
      BY CurBounds DEF IInv
    <3> QED
      BY <2>1, <3>1 DEF PairInv, Working
  <2>2. session # "none" /\ pc \in {"commit", "rollback", "closeSession", "join", "close", "returned"}
          => Sent(Closing, Finished)
    BY DEF PairInv, Parting
  <2> QED
    BY <2>1, <2>2 DEF Paired
<1> QED
  BY <1>1, <1>2 DEF Sequenced

(* What an observer of integrate's events may take for granted: the parts  *)
(* of a run and the stages of each come in their order and none twice, who *)
(* was announced as started is announced as finished unless a timeout, an  *)
(* exception that does not pickle or the manager's death kept it, and a    *)
(* run stops at the first integration that fails.                          *)
THEOREM EventsAreSequenced == Spec => []Sequenced
<1> QED
  BY InvInit, InvNext, ExplainInit, ExplainNext, OrderInit, OrderNext, PairInit, PairNext,
     StopInit, StopNext, SequencedMeans, PTL DEF Spec

-----------------------------------------------------------------------------
LEMMA RealInit == Init => RealInv
  BY DEF Init, RealInv, SuccessIsReal, Working

(* A success is published only where the work it stands for is done.       *)
LEMMA RealTold ==
  ASSUME IInv, OrderInv, RealInv, NEW e \in Event, Told(e), UNCHANGED <<job, cur, target>>
  PROVE  RealInv'
<1>0. TypeOK /\ accepted' = Append(accepted, e) /\ accepted \in Seq(Event)
  BY DEF IInv, TypeOK, Told
<1>1. \A p, t : Sent(p, t)' <=> Sent(p, t) \/ (e.part = p /\ e.stage = t)
  BY <1>0, SentGrows
<1>2. /\ cur \in Nat /\ Len(job) < Closing /\ Closing \in Nat /\ Len(job) \in Nat
      /\ \A k \in DOMAIN job : k \in Nat /\ 0 < k /\ k <= Len(job)
  BY <1>0, CurBounds
<1>3. \A k \in DOMAIN job : Done(k) => Done(k)'
  BY <1>1 DEF Done
<1>4. ASSUME NEW i \in DOMAIN accepted', (accepted[i].stage = Finished /\ accepted[i].ok)',
             NEW k \in DOMAIN job, accepted'[i].part = k \/ accepted'[i].last
      PROVE  Done(k)' /\ Sent(k, Finished)'
  <2>1. CASE i \in DOMAIN accepted
    <3>1. accepted'[i] = accepted[i]
      BY <1>0, <2>1, AppendShape
    <3>2. Done(k) /\ Sent(k, Finished)
      BY <1>4, <2>1, <3>1 DEF RealInv, SuccessIsReal
    <3> QED
      BY <1>1, <1>3, <3>2
  <2>2. CASE i = Len(accepted) + 1
    <3>1. accepted'[i] = e
      BY <1>0, <2>2, AppendShape
    <3>2. /\ e.stage = Finished
          /\ \/ pc = "intFinish" /\ e.part = cur /\ ~e.last
             \/ pc = "next" /\ cur = Len(job)
      BY <1>4, <3>1 DEF Told, IsEvent, Finished
    <3>3. err = "none"
      BY <3>2 DEF IInv, ControlInv, ErrInv, Inside, Working
    <3>4. CASE pc = "intFinish" /\ e.part = cur /\ ~e.last
      <4>1. Done(cur) /\ k = cur
        BY <1>4, <3>1, <3>3, <3>4 DEF IInv, WorkInv, Done
      <4> QED
        BY <1>1, <1>3, <3>2, <3>4, <4>1
    <3>5. CASE pc = "next" /\ cur = Len(job)
      <4>1. k <= cur /\ Done(k)
        BY <1>2, <3>3, <3>5 DEF IInv, WorkInv, DoneUpTo
      <4>2. Sent(k, Finished)
        BY <3>5, <4>1 DEF RealInv
      <4> QED
        BY <1>1, <1>3, <4>1, <4>2
    <3> QED
      BY <3>2, <3>4, <3>5
  <2> QED
    BY <1>0, <2>1, <2>2, AppendShape
<1>5. SuccessIsReal'
  BY <1>4 DEF SuccessIsReal
<1>6. pc' \in Working => \A k \in DOMAIN job : k < cur => Sent(k, Finished)'
  BY <1>1 DEF Told, Working, RealInv
<1>7. ASSUME pc' = "next", NEW k \in DOMAIN job, k <= cur PROVE Sent(k, Finished)'
  <2>1. CASE pc = "opStart"
    <3>1. cur = 0
      BY <2>1 DEF IInv, ControlInv, ErrInv, WorkInv, Inside
    <3> QED
      BY <1>2, <1>7, <3>1
  <2>2. CASE pc = "intFinish"
    <3>1. k < cur \/ k = cur
      BY <1>2, <1>7
    <3>2. e.part = cur /\ e.stage = Finished
      BY <2>2 DEF Told, IsEvent, Finished
    <3> QED
      BY <1>1, <2>2, <3>1, <3>2 DEF RealInv, Working
  <2> QED
    BY <1>7, <2>1, <2>2 DEF Told
<1> QED
  BY <1>5, <1>6, <1>7 DEF RealInv

(* A target that a success stands for is not touched again.                *)
LEMMA RealKept ==
  ASSUME IInv, OrderInv, RealInv, UNCHANGED <<job, accepted>>,
         \/ target' = target
         \/ pc \in {"clear", "load"} /\ \A k \in DOMAIN job : k # cur => target'[k] = target[k],
         pc' \in Working => \/ pc \in Working /\ cur' = cur
                            \/ pc = "next" /\ cur' = cur + 1,
         pc' = "next" => pc = "next" /\ cur' = cur
  PROVE  RealInv'
<1>1. \A p, t : Sent(p, t)' <=> Sent(p, t)
  BY DEF Sent
<1>2. cur \in Nat /\ \A k \in DOMAIN job : k \in Nat
  BY CurBounds DEF IInv
<1>3. ASSUME NEW i \in DOMAIN accepted, accepted[i].stage = Finished /\ accepted[i].ok,
             NEW k \in DOMAIN job, accepted[i].part = k \/ accepted[i].last
      PROVE  Done(k)' /\ Sent(k, Finished)
  <2>1. Done(k) /\ Sent(k, Finished)
    BY <1>3 DEF RealInv, SuccessIsReal
  <2>2. target'[k] = target[k]
    <3>1. CASE pc \in {"clear", "load"} /\ \A j \in DOMAIN job : j # cur => target'[j] = target[j]
      <4>1. Behind(accepted[i])
        BY <3>1 DEF OrderInv, Telling, Working
      <4>2. k # cur
        BY <1>2, <1>3, <3>1, <4>1 DEF Behind, Reached, Finished
      <4> QED
        BY <3>1, <4>2
    <3> QED
      BY <3>1
  <2> QED
    BY <1>1, <2>1, <2>2 DEF Done
<1>4. SuccessIsReal'
  BY <1>1, <1>3 DEF SuccessIsReal
<1>5. pc' \in Working => \A k \in DOMAIN job : k < cur' => Sent(k, Finished)
  BY <1>2 DEF RealInv
<1>6. pc' = "next" => \A k \in DOMAIN job : k <= cur' => Sent(k, Finished)
  BY DEF RealInv
<1> QED
  BY <1>1, <1>4, <1>5, <1>6 DEF RealInv

LEMMA RealNext == IInv /\ OrderInv /\ RealInv /\ [Next]_vars => RealInv'
<1> SUFFICES ASSUME IInv, OrderInv, RealInv, [Next]_vars PROVE RealInv'
  OBVIOUS
<1>0. TypeOK
  BY DEF IInv
<1>1. CASE FrameNext
  <2>1. UNCHANGED <<job, cur, accepted, target>> /\ FrameMove
    BY <1>0, <1>1, FrameEffect
  <2> QED
    BY <2>1, RealKept DEF FrameMove, BeforeBegin, Parting, Working
<1>2. CASE TellNext
  <2>1. UNCHANGED <<job, cur, target>> /\ (Untold \/ \E e \in Event : Told(e))
    BY <1>0, <1>2, TellEffect
  <2>2. CASE Untold
    BY <2>1, <2>2, RealKept DEF Untold, Working
  <2> QED
    BY <2>1, <2>2, RealTold
<1>3. CASE BeginIntegration
  <2>1. /\ UNCHANGED <<job, accepted, target>> /\ cur' = cur + 1 /\ pc = "next"
        /\ pc' \in {"intInitialize", "opFail"}
    BY <1>0, <1>3, BeginEffect
  <2> QED
    BY <2>1, RealKept DEF Working
<1>4. CASE ClearTarget \/ Load
  <2>1. /\ UNCHANGED <<job, cur, accepted>> /\ pc \in {"clear", "load"}
        /\ \A k \in DOMAIN job : k # cur => target'[k] = target[k]
        /\ pc' \in {"tellCleared", "load", "tellLoaded", "intFail", "closeSession"}
    BY <1>0, <1>4, TargetEffect
  <2> QED
    BY <2>1, RealKept DEF Working
<1>5. CASE Deliver \/ ManagerDies \/ Drop \/ UNCHANGED vars
  <2>1. /\ UNCHANGED <<job, cur, accepted, target>>
        /\ pc' = pc \/ (pc = "returned" /\ pc' = "dropped")
    BY <1>0, <1>5, IdleEffect
  <2> QED
    BY <2>1, RealKept DEF Working
<1>6. CASE CallAgain
  BY <1>6 DEF CallAgain, RealInv, SuccessIsReal, Working
<1> QED
  BY <1>1, <1>2, <1>3, <1>4, <1>5, <1>6 DEF Next, CallerNext, FrameNext, TellNext

(* A finish without an error is announced only for work that was done: the *)
(* integration's target was loaded, and cleared before if that was asked;  *)
(* for the operation's end this holds of every integration.  No later step *)
(* of the run takes it back.                                               *)
THEOREM AnnouncedSuccessIsReal == Spec => []SuccessIsReal
<1>1. RealInv => SuccessIsReal
  BY DEF RealInv
<1> QED
  BY <1>1, InvInit, InvNext, OrderInit, OrderNext, RealInit, RealNext, PTL DEF Spec
=============================================================================
