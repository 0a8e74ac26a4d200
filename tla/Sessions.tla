------------------------------ MODULE Sessions ------------------------------
(***************************************************************************)
(* The database session of a thread and the works that use it in turn:     *)
(* requests of the API with their error handlers and after_request,        *)
(* functions under @transactionhandler, and runs of the seeds.  The        *)
(* session, its manager and provider are thread-local (IScoped), so that a *)
(* thread that serves a second work hands it the session of the first.     *)
(***************************************************************************)
EXTENDS Integers, FiniteSets

CONSTANTS
  Threads,
  MaxWorks,   \* works begun
  MaxOps      \* steps the bodies of all works make

ASSUME BoundAssumption == MaxWorks \in Nat /\ MaxOps \in Nat

Work == 1 .. MaxWorks

(* A change of an entity; a bad one breaks a constraint when flushed.      *)
Change == [work : Work, number : 1 .. MaxOps, bad : BOOLEAN]

VARIABLES
  app,       \* [star: origins is "*"; propagates: exceptions reach the server]
  begun,     \* works begun
  kind,      \* of each work: "request", "task" or "seeds"
  origin,    \* does the request of each work name its origin?
  current,   \* the work of each thread, 0 before its first
  pc, err,   \* where each thread is, and the exception it carries
  ops,       \* steps made by the bodies
  session,   \* [new, flushed: changes; dead: needs a rollback]
  db,        \* changes committed, with who committed them and where
  made,      \* changes of each work it has not rolled back itself
  outcome    \* of each work: "none", "returned", "raised", "ok", "error" or "cut"

vars == <<app, begun, kind, origin, current, pc, err, ops, session, db, made, outcome>>

Clean == [new |-> {}, flushed |-> {}, dead |-> FALSE]

Init ==
  /\ app \in [star : BOOLEAN, propagates : BOOLEAN]
  /\ begun = 0
  /\ kind = [w \in Work |-> "none"] /\ origin = [w \in Work |-> TRUE]
  /\ current = [t \in Threads |-> 0]
  /\ pc = [t \in Threads |-> "idle"] /\ err = [t \in Threads |-> "none"]
  /\ ops = 0
  /\ session = [t \in Threads |-> Clean]
  /\ db = {} /\ made = [w \in Work |-> {}]
  /\ outcome = [w \in Work |-> "none"]

(* IScoped is bound in the scope of the thread; the mistake is to bind it  *)
(* like ISingleton.                                                        *)
OneSlot(t) == CHOOSE u \in Threads : TRUE
Slot(t) == t

Go(t, place) == pc' = [pc EXCEPT ![t] = place]
Fail(t, e)   == err' = [err EXCEPT ![t] = e]
Set(t, s)    == session' = [session EXCEPT ![Slot(t)] = s]
Leave(t, o)  == Go(t, "idle") /\ outcome' = [outcome EXCEPT ![current[t]] = o]

-----------------------------------------------------------------------------
(* SQLAlchemy: a flush with nothing to write does nothing; one that fails  *)
(* rolls back and leaves a session that refuses to work, and keeps what it *)
(* is given from then on, until it is rolled back or closed.               *)
FlushOK(s) == s.new = {} \/ (~s.dead /\ \A c \in s.new : ~c.bad)

Flush(s) ==
  CASE FlushOK(s)             -> [s EXCEPT !.new = {}, !.flushed = @ \cup s.new]
    [] ~FlushOK(s) /\ s.dead  -> s
    [] ~FlushOK(s) /\ ~s.dead -> [new |-> {}, flushed |-> {}, dead |-> TRUE]

(* DatabaseSessionManager.commit and rollback, which flushes first.        *)
CommitOK(s) == ~s.dead /\ FlushOK(s)
Commit(t, where) ==
  /\ db' = db \cup {[change |-> c, by |-> current[t], where |-> where] :
                      c \in session[Slot(t)].new \cup session[Slot(t)].flushed}
  /\ Set(t, Clean)

RollbackOK(s) == FlushOK(s)
Rollback(s) == IF FlushOK(s) THEN Clean ELSE Flush(s)

-----------------------------------------------------------------------------
(* A thread takes up a work.  ServiceProvider.get gives it the provider of *)
(* the thread; a run of the seeds connects anew, which replaces the        *)
(* session.                                                                *)
Begin(t, k, named) ==
  /\ pc[t] = "idle" /\ begun < MaxWorks
  /\ named \/ k = "request"
  /\ begun' = begun + 1
  /\ current' = [current EXCEPT ![t] = begun + 1]
  /\ kind' = [kind EXCEPT ![begun + 1] = k]
  /\ origin' = [origin EXCEPT ![begun + 1] = named]
  /\ Go(t, IF k = "request" THEN "parse" ELSE "body") /\ Fail(t, "none")
  /\ session' = IF k = "seeds" THEN [session EXCEPT ![Slot(t)] = Clean] ELSE session
  /\ UNCHANGED <<app, ops, db, made, outcome>>

(* Endpoint.__call__: the arguments are aborted, or converted, or match no *)
(* class; a dispatcher without a handler raises like any body.             *)
Parse(t) ==
  /\ pc[t] = "parse"
  /\ \/ Go(t, "body") /\ UNCHANGED err
     \/ Go(t, "error") /\ \E e \in {"http", "other"} : Fail(t, e)
  /\ UNCHANGED <<app, begun, kind, origin, current, ops, session, db, made, outcome>>

Step(t) == pc[t] = "body" /\ ops < MaxOps /\ ops' = ops + 1

(* Repository.insert, update and delete leave their change to the session. *)
MakeChange(t, bad) ==
  LET w == current[t]
      c == [work |-> w, number |-> ops + 1, bad |-> bad]
  IN
  /\ Step(t)
  /\ Set(t, [session[Slot(t)] EXCEPT !.new = @ \cup {c}])
  /\ made' = [made EXCEPT ![w] = @ \cup {c}]
  /\ UNCHANGED <<app, begun, kind, origin, current, pc, err, db, outcome>>

(* A query flushes first, and so does a commit.  The body may catch what   *)
(* these raise.                                                            *)
Caught(t) == UNCHANGED <<pc, err>> \/ (Go(t, "error") /\ Fail(t, "other"))

Query(t) ==
  /\ Step(t)
  /\ Set(t, Flush(session[Slot(t)]))
  /\ IF CommitOK(session[Slot(t)]) THEN UNCHANGED <<pc, err>> ELSE Caught(t)
  /\ UNCHANGED <<app, begun, kind, origin, current, db, made, outcome>>

BodyCommits(t) ==
  /\ Step(t)
  /\ IF CommitOK(session[Slot(t)])
     THEN Commit(t, "body") /\ UNCHANGED <<pc, err>>
     ELSE Set(t, Flush(session[Slot(t)])) /\ Caught(t) /\ UNCHANGED db
  /\ UNCHANGED <<app, begun, kind, origin, current, made, outcome>>

BodyRollsBack(t) ==
  /\ Step(t)
  /\ Set(t, Rollback(session[Slot(t)]))
  /\ IF RollbackOK(session[Slot(t)])
     THEN /\ made' = [made EXCEPT ![current[t]] = {c \in @ : \E d \in db : d.change = c}]
          /\ UNCHANGED <<pc, err>>
     ELSE Caught(t) /\ UNCHANGED made
  /\ UNCHANGED <<app, begun, kind, origin, current, db, outcome>>

(* Only the API tells exceptions apart.                                    *)
Errors(t) ==
  IF kind[current[t]] = "request" THEN {"operational", "http", "other"} ELSE {"other"}

BodyEnds(t) ==
  /\ pc[t] = "body"
  /\ \/ /\ UNCHANGED err
        /\ Go(t, CASE kind[current[t]] = "request" -> "after"
                   [] kind[current[t]] = "task" -> "commit"
                   [] OTHER -> "close")
     \/ Go(t, "error") /\ \E e \in Errors(t) : Fail(t, e)
  /\ UNCHANGED <<app, begun, kind, origin, current, ops, session, db, made, outcome>>

-----------------------------------------------------------------------------
(* The error handlers of a request.  flask-restx asks its own first, which *)
(* knows OperationalException, answers other exceptions by itself unless   *)
(* they are propagated, and passes on what a handler raises; the handlers  *)
(* of the app roll back whatever comes; what these raise is an error of    *)
(* the server, and after_request is not run.                               *)
HandleOperational(t) ==
  /\ pc[t] = "error" /\ kind[current[t]] = "request" /\ err[t] = "operational"
  /\ Set(t, Rollback(session[Slot(t)]))
  /\ IF RollbackOK(session[Slot(t)]) THEN Go(t, "after") /\ UNCHANGED err
     ELSE Go(t, "handle") /\ Fail(t, "other")
  /\ UNCHANGED <<app, begun, kind, origin, current, ops, db, made, outcome>>

HandleOther(t) ==
  /\ pc[t] = "error" /\ kind[current[t]] = "request" /\ err[t] \in {"http", "other"}
  /\ Go(t, IF err[t] = "other" /\ app.propagates THEN "handle" ELSE "after")
  /\ UNCHANGED <<app, begun, kind, origin, current, err, ops, session, db, made, outcome>>

HandleException(t) ==
  /\ pc[t] = "handle"
  /\ Set(t, Rollback(session[Slot(t)]))
  /\ IF RollbackOK(session[Slot(t)]) THEN Go(t, "after") /\ UNCHANGED outcome ELSE Leave(t, "cut")
  /\ UNCHANGED <<app, begun, kind, origin, current, err, ops, db, made>>

(* after_request: set_headers reads the Origin of every request if any is  *)
(* welcome, and raises where there is none, before the session is closed.  *)
(* The mistake is to close only what has gone well.                        *)
HeadersOK(t) == ~app.star \/ origin[current[t]]
Answered(t)  == Leave(t, IF err[t] = "none" THEN "ok" ELSE "error")

AfterRequestIfOK(t) ==
  /\ pc[t] = "after"
  /\ IF HeadersOK(t) /\ err[t] = "none" THEN Set(t, Clean) ELSE UNCHANGED session
  /\ Answered(t)
  /\ UNCHANGED <<app, begun, kind, origin, current, err, ops, db, made>>

AfterRequest(t) ==
  /\ pc[t] = "after"
  /\ IF HeadersOK(t) THEN Set(t, Clean) /\ Answered(t) ELSE UNCHANGED session /\ Leave(t, "cut")
  /\ UNCHANGED <<app, begun, kind, origin, current, err, ops, db, made>>

-----------------------------------------------------------------------------
(* transactionhandler: commit; on any exception roll back and raise it, or *)
(* what the rollback raises; close in any case.  The mistake is to go on   *)
(* when the commit raises.                                                 *)
TaskCommitQuietly(t) ==
  /\ pc[t] = "commit"
  /\ IF CommitOK(session[Slot(t)])
     THEN Commit(t, "end")
     ELSE Set(t, Flush(session[Slot(t)])) /\ UNCHANGED db
  /\ Go(t, "close")
  /\ UNCHANGED <<app, begun, kind, origin, current, err, ops, made, outcome>>

TaskCommit(t) ==
  /\ pc[t] = "commit"
  /\ IF CommitOK(session[Slot(t)])
     THEN Commit(t, "end") /\ Go(t, "close") /\ UNCHANGED err
     ELSE Set(t, Flush(session[Slot(t)])) /\ Go(t, "error") /\ Fail(t, "other") /\ UNCHANGED db
  /\ UNCHANGED <<app, begun, kind, origin, current, ops, made, outcome>>

TaskRollback(t) ==
  /\ pc[t] = "error" /\ kind[current[t]] = "task"
  /\ Set(t, Rollback(session[Slot(t)]))
  /\ Go(t, "close")
  /\ UNCHANGED <<app, begun, kind, origin, current, err, ops, db, made, outcome>>

(* SeedRunner.run: a seed that raises is tried again without a rollback,   *)
(* then logged, and the next one goes on with the session as it is: the    *)
(* body of a run is all its seeds.                                         *)
SeedRaised(t) ==
  /\ pc[t] = "error" /\ kind[current[t]] = "seeds"
  /\ Go(t, "body") /\ Fail(t, "none")
  /\ UNCHANGED <<app, begun, kind, origin, current, ops, session, db, made, outcome>>

Close(t) ==
  /\ pc[t] = "close"
  /\ Set(t, Clean)
  /\ Leave(t, IF err[t] = "none" THEN "returned" ELSE "raised")
  /\ UNCHANGED <<app, begun, kind, origin, current, err, ops, db, made>>

-----------------------------------------------------------------------------
Next ==
  \E t \in Threads :
    \/ \E k \in {"request", "task", "seeds"}, named \in BOOLEAN : Begin(t, k, named)
    \/ Parse(t) \/ Query(t) \/ BodyCommits(t) \/ BodyRollsBack(t) \/ BodyEnds(t)
    \/ \E bad \in BOOLEAN : MakeChange(t, bad)
    \/ HandleOperational(t) \/ HandleOther(t) \/ HandleException(t) \/ AfterRequest(t)
    \/ TaskCommit(t) \/ TaskRollback(t) \/ SeedRaised(t) \/ Close(t)

Spec == Init /\ [][Next]_vars

-----------------------------------------------------------------------------
(* No work commits a change of another one, although works of a thread     *)
(* share its session and may leave it unclosed, dead, or full of changes:  *)
(* only a request that names no origin, to an API that welcomes any, hands *)
(* its changes to the work that follows on its thread.                     *)
Isolated ==
  \A d \in db :
    d.by # d.change.work =>
      kind[d.change.work] = "request" /\ app.star /\ ~origin[d.change.work]

(* A function under @transactionhandler that returns has committed all it  *)
(* changed and did not roll back itself, even when it caught the failure   *)
(* of a flush; one that raises has committed no more than it did itself.   *)
TaskAtomic ==
  \A w \in 1 .. begun :
    kind[w] = "task" =>
      /\ outcome[w] = "returned" => \A c \in made[w] : \E d \in db : d.change = c
      /\ outcome[w] = "raised" =>
           \A d \in db : d.change.work = w => d.where = "body"
=============================================================================
