--------------------------- MODULE SessionsProofs ---------------------------
(***************************************************************************)
(* Proofs about Sessions, for every set of threads, number of works and    *)
(* number of steps they make.                                              *)
(***************************************************************************)
EXTENDS Sessions, TLAPS

-----------------------------------------------------------------------------
(* The invariant.                                                          *)

Places   == {"idle", "parse", "body", "error", "handle", "after", "commit", "close"}
Outcomes == {"none", "returned", "raised", "ok", "error", "cut"}
Session  == [new : SUBSET Change, flushed : SUBSET Change, dead : BOOLEAN]
Entry    == [change : Change, by : Work, where : {"body", "end"}]

TypeOK ==
  /\ app \in [star : BOOLEAN, propagates : BOOLEAN]
  /\ begun \in 0 .. MaxWorks
  /\ kind \in [Work -> {"none", "request", "task", "seeds"}]
  /\ origin \in [Work -> BOOLEAN]
  /\ current \in [Threads -> 0 .. MaxWorks]
  /\ pc \in [Threads -> Places]
  /\ err \in [Threads -> {"none", "operational", "http", "other"}]
  /\ ops \in 0 .. MaxOps
  /\ session \in [Threads -> Session]
  /\ db \subseteq Entry
  /\ made \in [Work -> SUBSET Change]
  /\ outcome \in [Work -> Outcomes]

(* A thread at work has a work of its own, which is not over.              *)
WorkInv ==
  /\ \A w \in Work : kind[w] = "none" <=> w > begun
  /\ \A t \in Threads : current[t] <= begun
  /\ \A t \in Threads : pc[t] # "idle" =>
       /\ current[t] # 0 /\ outcome[current[t]] = "none"
       /\ \A u \in Threads : current[u] = current[t] => u = t

(* Nothing is known of the works to come.                                  *)
FreshInv ==
  /\ \A w \in Work : w > begun => outcome[w] = "none" /\ made[w] = {}
  /\ \A d \in db : d.change.work <= begun

(* The places of each kind of work, and where an exception is carried.     *)
PlaceOK(t) ==
  /\ pc[t] \in {"parse", "handle", "after"} => kind[current[t]] = "request"
  /\ pc[t] = "commit" => kind[current[t]] = "task"
  /\ pc[t] = "close" => kind[current[t]] \in {"task", "seeds"}
  /\ pc[t] \in {"parse", "body", "commit"} => err[t] = "none"
  /\ pc[t] = "error" => err[t] # "none"

PlaceInv == \A t \in Threads : PlaceOK(t)

(* The works whose changes the next work of the thread may find.           *)
Leaky(w) == kind[w] = "request" /\ app.star /\ ~origin[w]

Held(t) == session[t].new \cup session[t].flushed
InDb(c) == \E d \in db : d.change = c

(* A session that can be committed holds changes of the work under way, or *)
(* of one that has leaked them.                                            *)
SessionOK(t) ==
  ~session[t].dead =>
    \A c \in Held(t) : Leaky(c.work) \/ (pc[t] # "idle" /\ c.work = current[t])

SessionInv == \A t \in Threads : SessionOK(t)

(* The changes of a function under @transactionhandler are in the session  *)
(* or committed, unless a flush has failed, and are committed when it is   *)
(* about to return.                                                        *)
TaskOK(t) ==
  pc[t] # "idle" /\ kind[current[t]] = "task" =>
    /\ pc[t] \in {"body", "commit"} =>
         session[t].dead \/ \A c \in made[current[t]] : c \in Held(t) \/ InDb(c)
    /\ pc[t] = "close" /\ err[t] = "none" => \A c \in made[current[t]] : InDb(c)

TaskInv == \A t \in Threads : TaskOK(t)

(* What was committed at the end of a task belongs to one that returns.    *)
EndInv ==
  \A d \in db : d.where = "end" /\ kind[d.change.work] = "task" =>
    \/ outcome[d.change.work] = "returned"
    \/ \E t \in Threads : /\ current[t] = d.change.work
                          /\ pc[t] = "close" /\ err[t] = "none"

IInv == /\ TypeOK /\ WorkInv /\ FreshInv /\ PlaceInv /\ SessionInv /\ TaskInv /\ EndInv
        /\ Isolated /\ TaskAtomic

-----------------------------------------------------------------------------
(* What a flush, a rollback and a closed session are.                      *)
LEMMA FlushProps ==
  ASSUME NEW s \in Session
  PROVE  /\ Flush(s) \in Session /\ Rollback(s) \in Session /\ Clean \in Session
         /\ FlushOK(s) => /\ Flush(s).dead = s.dead
                          /\ Flush(s).new \cup Flush(s).flushed = s.new \cup s.flushed
         /\ ~FlushOK(s) => Flush(s).dead
         /\ RollbackOK(s) => Rollback(s) = Clean
         /\ ~RollbackOK(s) => Rollback(s).dead
<1>0. Clean \in Session
  BY DEF Clean, Session
<1>1. CASE FlushOK(s)
  <2>1. Flush(s) = [s EXCEPT !.new = {}, !.flushed = @ \cup s.new]
    BY <1>1 DEF Flush
  <2>2. Flush(s) \in Session /\ Flush(s).dead = s.dead
        /\ Flush(s).new \cup Flush(s).flushed = s.new \cup s.flushed
    BY <2>1 DEF Session
  <2> QED
    BY <1>0, <1>1, <2>2 DEF Rollback, RollbackOK
<1>2. CASE ~FlushOK(s) /\ s.dead
  <2>1. Flush(s) = s
    BY <1>2 DEF Flush
  <2> QED
    BY <1>0, <1>2, <2>1 DEF Rollback, RollbackOK
<1>3. CASE ~FlushOK(s) /\ ~s.dead
  <2>1. Flush(s) = [new |-> {}, flushed |-> {}, dead |-> TRUE]
    BY <1>3 DEF Flush
  <2>2. Flush(s) \in Session /\ Flush(s).dead
    BY <2>1 DEF Session
  <2> QED
    BY <1>0, <1>3, <2>2 DEF Rollback, RollbackOK
<1> QED
  BY <1>1, <1>2, <1>3

LEMMA StepType ==
  ASSUME TypeOK, NEW t \in Threads
  PROVE  /\ session[t] \in Session
         /\ Slot(t) = t
         /\ pc[t] # "idle" /\ WorkInv => current[t] \in Work
  BY DEF TypeOK, Slot, WorkInv, Work

LEMMA SetType ==
  ASSUME TypeOK, NEW t \in Threads, NEW s \in Session, Set(t, s)
  PROVE  /\ session' \in [Threads -> Session]
         /\ session'[t] = s
         /\ \A u \in Threads : u # t => session'[u] = session[u]
  BY DEF TypeOK, Slot, Set

LEMMA GoType ==
  ASSUME TypeOK, NEW t \in Threads, NEW place \in Places, Go(t, place)
  PROVE  /\ pc' \in [Threads -> Places]
         /\ pc'[t] = place
         /\ \A u \in Threads : u # t => pc'[u] = pc[u]
  BY DEF TypeOK, Go

LEMMA FailType ==
  ASSUME TypeOK, NEW t \in Threads,
         NEW e \in {"none", "operational", "http", "other"}, Fail(t, e)
  PROVE  /\ err' \in [Threads -> {"none", "operational", "http", "other"}]
         /\ err'[t] = e
         /\ \A u \in Threads : u # t => err'[u] = err[u]
  BY DEF TypeOK, Fail

LEMMA LeaveType ==
  ASSUME TypeOK, WorkInv, NEW t \in Threads, pc[t] # "idle", NEW o \in Outcomes, Leave(t, o)
  PROVE  /\ pc' \in [Threads -> Places]
         /\ pc'[t] = "idle"
         /\ \A u \in Threads : u # t => pc'[u] = pc[u]
         /\ outcome' \in [Work -> Outcomes]
         /\ outcome' = [outcome EXCEPT ![current[t]] = o]
  BY DEF TypeOK, Go, Leave, Places

LEMMA CaughtType ==
  ASSUME TypeOK, NEW t \in Threads, Caught(t), pc[t] = "body", err[t] = "none"
  PROVE  /\ pc' \in [Threads -> Places]
         /\ err' \in [Threads -> {"none", "operational", "http", "other"}]
         /\ \/ pc'[t] = "body" /\ err'[t] = "none"
            \/ pc'[t] = "error" /\ err'[t] = "other"
         /\ \A u \in Threads : u # t => pc'[u] = pc[u] /\ err'[u] = err[u]
<1>1. CASE UNCHANGED <<pc, err>>
  BY <1>1 DEF TypeOK
<1>2. CASE Go(t, "error") /\ Fail(t, "other")
  BY <1>2, GoType, FailType DEF Places
<1> QED
  BY <1>1, <1>2 DEF Caught

(* What a commit adds to the database.                                     *)
LEMMA CommitProps ==
  ASSUME TypeOK, WorkInv, NEW t \in Threads, pc[t] # "idle",
         NEW where \in {"body", "end"}, Commit(t, where)
  PROVE  /\ db' \subseteq Entry
         /\ db \subseteq db'
         /\ \A c \in Held(t) : \E d \in db' : d.change = c
         /\ \A d \in db' : d \in db \/ (d.by = current[t] /\ d.where = where /\ d.change \in Held(t))
         /\ session' \in [Threads -> Session]
         /\ session'[t] = Clean
         /\ \A u \in Threads : u # t => session'[u] = session[u]
<1>1. Held(t) \subseteq Change
  BY DEF TypeOK, Held, Session
<1>2. db' = db \cup {[change |-> c, by |-> current[t], where |-> where] : c \in Held(t)}
  BY StepType DEF Commit, Held
<1>3. Set(t, Clean)
  BY DEF Commit
<1>4. current[t] \in Work
  BY StepType
<1>5. Clean \in Session
  BY FlushProps, StepType
<1>6. db' \subseteq Entry
  BY <1>1, <1>2, <1>4 DEF TypeOK, Entry
<1>7. ASSUME NEW c \in Held(t)
      PROVE  \E d \in db' : d.change = c
  <2>1. [change |-> c, by |-> current[t], where |-> where] \in db'
    BY <1>2
  <2> QED
    BY <2>1
<1>8. \A d \in db' : d \in db \/ (d.by = current[t] /\ d.where = where /\ d.change \in Held(t))
  BY <1>2
<1> QED
  BY <1>2, <1>3, <1>5, <1>6, <1>7, <1>8, SetType

-----------------------------------------------------------------------------
(* What all steps of a thread that has a work share.                       *)
Moves(t) ==
  /\ pc[t] # "idle"
  /\ UNCHANGED <<app, begun, kind, origin, current>>
  /\ \A u \in Threads : u # t =>
       pc'[u] = pc[u] /\ err'[u] = err[u] /\ session'[u] = session[u]
  /\ pc'[t] # "idle" => outcome' = outcome
  /\ pc'[t] = "idle" => \E o \in Outcomes : outcome' = [outcome EXCEPT ![current[t]] = o]
  /\ pc[t] = "close" =>
       pc'[t] = "idle" /\ outcome'[current[t]] = IF err[t] = "none" THEN "returned" ELSE "raised"
  /\ pc'[t] = "idle" /\ kind[current[t]] = "task" => pc[t] = "close"

(* What it may do to the database and to the record of what was made.      *)
Stores(t) ==
  /\ db \subseteq db'
  /\ \A d \in db' : d \in db \/
       /\ ~session[t].dead /\ d.by = current[t] /\ d.change \in Held(t)
       /\ d.where = "end" => pc'[t] = "close" /\ err'[t] = "none"
  /\ \A w \in Work : w # current[t] => made'[w] = made[w]
  /\ pc'[t] = "idle" => UNCHANGED <<db, made>>

LEMMA MoveInv ==
  ASSUME IInv, NEW t \in Threads, Moves(t), PlaceOK(t)', SessionOK(t)'
  PROVE  WorkInv' /\ PlaceInv' /\ SessionInv'
<1>1. WorkInv'
  <2>1. \A u \in Threads : pc[u] # "idle" => current[u] \in Work
    BY StepType DEF IInv
  <2>2. \A u \in Threads : pc'[u] # "idle" => pc[u] # "idle" /\ outcome'[current[u]] = "none"
    <3> SUFFICES ASSUME NEW u \in Threads, pc'[u] # "idle"
                 PROVE  pc[u] # "idle" /\ outcome'[current[u]] = "none"
      OBVIOUS
    <3>1. CASE u = t
      BY <3>1 DEF Moves, WorkInv, IInv
    <3>2. CASE u # t
      BY <2>1, <3>2 DEF Moves, WorkInv, IInv, TypeOK
    <3> QED
      BY <3>1, <3>2
  <2> QED
    BY <2>2 DEF Moves, WorkInv, IInv
<1>2. PlaceInv'
  BY DEF Moves, PlaceInv, PlaceOK, IInv
<1>3. SessionInv'
  BY DEF Moves, SessionInv, SessionOK, IInv, Held, Leaky
<1> QED
  BY <1>1, <1>2, <1>3

(* A change that is committed is the own one of the work, or has leaked.   *)
LEMMA NewEntry ==
  ASSUME IInv, NEW t \in Threads, Stores(t), NEW d \in db', d \notin db
  PROVE  d.by = current[t] /\ (Leaky(d.change.work) \/ d.change.work = current[t])
  BY DEF IInv, Stores, SessionInv, SessionOK

LEMMA StoreIsolated ==
  ASSUME IInv, NEW t \in Threads, Moves(t), Stores(t)
  PROVE  Isolated'
  BY NewEntry DEF IInv, Isolated, Moves, Leaky

LEMMA StoreTask ==
  ASSUME IInv, NEW t \in Threads, Moves(t), Stores(t), TaskOK(t)'
  PROVE  TaskInv'
<1> SUFFICES ASSUME NEW u \in Threads, u # t PROVE TaskOK(u)'
  BY DEF TaskInv
<1>1. TaskOK(u)
  BY DEF IInv, TaskInv
<1>2. pc[u] # "idle" => made'[current[u]] = made[current[u]]
  BY StepType DEF IInv, WorkInv, Moves, Stores
<1>3. \A c : InDb(c) => InDb(c)'
  BY DEF InDb, Stores
<1> QED
  BY <1>1, <1>2, <1>3 DEF TaskOK, Moves, Held

LEMMA StoreEnd ==
  ASSUME IInv, NEW t \in Threads, Moves(t), Stores(t)
  PROVE  EndInv'
<1> SUFFICES ASSUME NEW d \in db', d.where = "end", kind[d.change.work] = "task"
             PROVE  \/ outcome'[d.change.work] = "returned"
                    \/ \E u \in Threads : /\ current[u] = d.change.work
                                          /\ pc'[u] = "close" /\ err'[u] = "none"
  BY DEF EndInv, Moves
<1>1. CASE d \notin db
  BY <1>1, NewEntry DEF Stores, Leaky
<1>2. CASE d \in db /\ outcome[d.change.work] = "returned"
  <2>1. d.change.work \in Work
    BY <1>2 DEF IInv, TypeOK, Entry, Change
  <2>2. d.change.work # current[t]
    BY <1>2 DEF IInv, WorkInv, Moves
  <2> QED
    BY <1>2, <2>1, <2>2 DEF IInv, TypeOK, Moves
<1>3. ASSUME d \in db, NEW u \in Threads, current[u] = d.change.work,
             pc[u] = "close", err[u] = "none"
      PROVE  \/ outcome'[d.change.work] = "returned"
             \/ /\ current[u] = d.change.work
                /\ pc'[u] = "close" /\ err'[u] = "none"
  BY <1>3 DEF Moves
<1> QED
  BY <1>1, <1>2, <1>3 DEF IInv, EndInv

LEMMA StoreAtomic ==
  ASSUME IInv, NEW t \in Threads, Moves(t), Stores(t)
  PROVE  TaskAtomic'
<1> SUFFICES ASSUME NEW w \in 1 .. begun, kind[w] = "task"
             PROVE  /\ outcome'[w] = "returned" => \A c \in made'[w] : InDb(c)'
                    /\ outcome'[w] = "raised" =>
                         \A d \in db' : d.change.work = w => d.where = "body"
  BY DEF TaskAtomic, Moves, InDb
<1>0. w \in Work
  BY BoundAssumption DEF IInv, TypeOK, Work
<1>1. \A c : InDb(c) => InDb(c)'
  BY DEF InDb, Stores
<1>2. \A d \in db' : d \notin db /\ d.change.work = w => w = current[t] /\ pc'[t] # "idle"
  BY NewEntry DEF Leaky, Stores
<1>3. CASE w # current[t]
  <2>1. outcome'[w] = outcome[w] /\ made'[w] = made[w]
    BY <1>0, <1>3 DEF Moves, Stores, IInv, TypeOK
  <2>2. /\ outcome[w] = "returned" => \A c \in made[w] : InDb(c)
        /\ outcome[w] = "raised" => \A d \in db : d.change.work = w => d.where = "body"
    BY DEF IInv, TaskAtomic, InDb
  <2> QED
    BY <1>1, <1>2, <1>3, <2>1, <2>2
<1>4. CASE w = current[t] /\ pc'[t] # "idle"
  BY <1>4 DEF Moves, IInv, WorkInv
<1>5. CASE w = current[t] /\ pc'[t] = "idle"
  <2>1. /\ pc[t] = "close" /\ UNCHANGED <<db, made>>
        /\ outcome'[w] = IF err[t] = "none" THEN "returned" ELSE "raised"
    BY <1>5 DEF Moves, Stores
  <2>2. err[t] = "none" => \A c \in made[w] : InDb(c)
    BY <1>5, <2>1 DEF IInv, TaskInv, TaskOK
  <2>3. ASSUME err[t] # "none", NEW d \in db, d.change.work = w PROVE d.where = "body"
    <3>1. d.where \in {"body", "end"}
      BY DEF IInv, TypeOK, Entry
    <3>2. outcome[w] = "none" /\ \A u \in Threads : current[u] = w => u = t
      BY <1>5, <2>1 DEF IInv, WorkInv
    <3> QED
      BY <2>3, <3>1, <3>2 DEF IInv, EndInv
  <2> QED
    BY <1>1, <2>1, <2>2, <2>3
<1> QED
  BY <1>3, <1>4, <1>5

LEMMA StoreFresh ==
  ASSUME IInv, NEW t \in Threads, Moves(t), Stores(t)
  PROVE  FreshInv'
<1>1. current[t] \in Work /\ current[t] <= begun /\ begun \in Nat
  BY StepType DEF IInv, TypeOK, WorkInv, Moves
<1>2. \A w \in Work : w > begun => w # current[t] /\ outcome'[w] = outcome[w] /\ made'[w] = made[w]
  <2> SUFFICES ASSUME NEW w \in Work, w > begun
               PROVE  w # current[t] /\ outcome'[w] = outcome[w] /\ made'[w] = made[w]
    OBVIOUS
  <2>1. w # current[t]
    <3>1. w \in Nat
      BY DEF Work
    <3>2. current[t] \in Nat
      BY <1>1 DEF Work
    <3> QED
      BY <1>1, <3>1, <3>2
  <2>2. outcome'[w] = outcome[w]
    <3>1. outcome' = outcome \/ \E o \in Outcomes : outcome' = [outcome EXCEPT ![current[t]] = o]
      BY DEF Moves
    <3> QED
      BY <2>1, <3>1 DEF IInv, TypeOK
  <2> QED
    BY <2>1, <2>2 DEF Stores
<1>3. ASSUME NEW d \in db' PROVE d.change.work <= begun
  <2>1. CASE d \in db
    BY <2>1 DEF IInv, FreshInv
  <2>2. CASE d \notin db
    <3>1. Leaky(d.change.work) \/ d.change.work = current[t]
      BY <2>2, NewEntry
    <3>2. d.change \in Change
      BY <2>2, StepType DEF Stores, IInv, Held, Session
    <3>3. d.change.work \in Work
      BY <3>2 DEF Change
    <3> QED
      BY <1>1, <3>1, <3>3 DEF Leaky, IInv, WorkInv, Work
  <2> QED
    BY <2>1, <2>2
<1> QED
  BY <1>2, <1>3 DEF IInv, FreshInv, Moves

(* Together: what is left to show of each step of a thread.                *)
LEMMA MoveStep ==
  ASSUME IInv, NEW t \in Threads, TypeOK', Moves(t), Stores(t),
         PlaceOK(t)', SessionOK(t)', TaskOK(t)'
  PROVE  IInv'
  BY MoveInv, StoreFresh, StoreIsolated, StoreTask, StoreEnd, StoreAtomic DEF IInv

-----------------------------------------------------------------------------
(* The steps that leave session, database and record alone.                *)
Quiet(t) ==
  /\ UNCHANGED <<app, begun, kind, origin, current, ops, session, db, made, outcome>>
  /\ pc[t] # "idle"
  /\ \A u \in Threads : u # t => pc'[u] = pc[u] /\ err'[u] = err[u]
  /\ pc'[t] \notin {"idle", "close"} \/ (kind[current[t]] = "seeds" /\ pc'[t] = "close")
  /\ pc[t] # "close"
  /\ kind[current[t]] = "task" => pc'[t] = "error" \/ (pc[t] = "body" /\ pc'[t] = "commit")

LEMMA QuietStep ==
  ASSUME IInv, NEW t \in Threads, TypeOK', Quiet(t), PlaceOK(t)'
  PROVE  IInv'
<1>1. Moves(t) /\ Stores(t)
  BY DEF Quiet, Moves, Stores
<1>2. SessionOK(t)'
  BY DEF IInv, Quiet, SessionInv, SessionOK, Held, Leaky
<1>3. TaskOK(t)'
  BY DEF IInv, Quiet, TaskInv, TaskOK, Held, InDb
<1> QED
  BY <1>1, <1>2, <1>3, MoveStep

LEMMA ParseStep ==
  ASSUME IInv, NEW t \in Threads, Parse(t)
  PROVE  IInv'
<1>1. CASE Go(t, "body") /\ UNCHANGED err
  <2>1. TypeOK' /\ Quiet(t) /\ PlaceOK(t)'
    BY <1>1, GoType DEF IInv, TypeOK, PlaceInv, PlaceOK, Parse, Quiet, Places
  <2> QED
    BY <2>1, QuietStep
<1>2. ASSUME NEW e \in {"http", "other"}, Go(t, "error"), Fail(t, e)
      PROVE  IInv'
  <2>1. TypeOK' /\ Quiet(t) /\ PlaceOK(t)'
    BY <1>2, GoType, FailType DEF IInv, TypeOK, PlaceInv, PlaceOK, Parse, Quiet, Places
  <2> QED
    BY <2>1, QuietStep
<1> QED
  BY <1>1, <1>2 DEF Parse

LEMMA BodyEndsStep ==
  ASSUME IInv, NEW t \in Threads, BodyEnds(t)
  PROVE  IInv'
<1>0. kind[current[t]] \in {"request", "task", "seeds"}
  BY StepType DEF IInv, TypeOK, WorkInv, BodyEnds
<1>1. ASSUME UNCHANGED err, NEW place \in Places, Go(t, place),
             \/ kind[current[t]] = "request" /\ place = "after"
             \/ kind[current[t]] = "task" /\ place = "commit"
             \/ kind[current[t]] = "seeds" /\ place = "close"
      PROVE  IInv'
  <2>1. TypeOK' /\ Quiet(t) /\ PlaceOK(t)'
    BY <1>1, GoType DEF IInv, TypeOK, PlaceInv, PlaceOK, BodyEnds, Quiet, Places
  <2> QED
    BY <2>1, QuietStep
<1>2. ASSUME NEW e \in Errors(t), Go(t, "error"), Fail(t, e)
      PROVE  IInv'
  <2>0. e \in {"operational", "http", "other"}
    BY DEF Errors
  <2>1. TypeOK' /\ Quiet(t) /\ PlaceOK(t)'
    BY <1>2, <2>0, GoType, FailType DEF IInv, TypeOK, PlaceInv, PlaceOK, BodyEnds, Quiet, Places
  <2> QED
    BY <2>1, QuietStep
<1> QED
  BY <1>0, <1>1, <1>2 DEF BodyEnds, Places

LEMMA HandleOtherStep ==
  ASSUME IInv, NEW t \in Threads, HandleOther(t)
  PROVE  IInv'
<1>1. PICK place \in {"handle", "after"} : Go(t, place)
  BY DEF HandleOther
<1>2. TypeOK' /\ Quiet(t) /\ PlaceOK(t)'
  BY <1>1, GoType DEF IInv, TypeOK, PlaceInv, PlaceOK, HandleOther, Quiet, Places
<1> QED
  BY <1>2, QuietStep

LEMMA SeedRaisedStep ==
  ASSUME IInv, NEW t \in Threads, SeedRaised(t)
  PROVE  IInv'
<1>1. TypeOK' /\ Quiet(t) /\ PlaceOK(t)'
  BY GoType, FailType DEF IInv, TypeOK, PlaceInv, PlaceOK, SeedRaised, Quiet, Places
<1> QED
  BY <1>1, QuietStep

-----------------------------------------------------------------------------
(* The steps of a body.                                                    *)
LEMMA MakeChangeStep ==
  ASSUME IInv, NEW t \in Threads, NEW bad \in BOOLEAN, MakeChange(t, bad)
  PROVE  IInv'
<1> DEFINE w == current[t]
           c == [work |-> w, number |-> ops + 1, bad |-> bad]
           s == [session[t] EXCEPT !.new = @ \cup {c}]
<1>1. pc[t] = "body" /\ w \in Work /\ session[t] \in Session
  BY StepType DEF IInv, MakeChange, Step
<1>2. c \in Change /\ ops' \in 0 .. MaxOps
  BY <1>1, BoundAssumption DEF IInv, TypeOK, MakeChange, Step, Change
<1>3. s \in Session /\ s.dead = session[t].dead /\ s.new \cup s.flushed = Held(t) \cup {c}
  BY <1>1, <1>2 DEF Session, Held
<1>4. Set(t, s)
  BY StepType DEF IInv, MakeChange
<1>5. /\ session' \in [Threads -> Session]
      /\ session'[t] = s
      /\ \A u \in Threads : u # t => session'[u] = session[u]
  BY <1>3, <1>4, SetType DEF IInv
<1>6. /\ made' \in [Work -> SUBSET Change]
      /\ made'[w] = made[w] \cup {c}
      /\ \A v \in Work : v # w => made'[v] = made[v]
  BY <1>1, <1>2 DEF IInv, TypeOK, MakeChange
<1>7. TypeOK'
  BY <1>2, <1>5, <1>6 DEF IInv, TypeOK, MakeChange
<1>8. Moves(t) /\ Stores(t) /\ PlaceOK(t)'
  BY <1>1, <1>5, <1>6 DEF IInv, MakeChange, Moves, Stores, PlaceInv, PlaceOK
<1>9. Held(t)' = Held(t) \cup {c} /\ session'[t].dead = session[t].dead
  BY <1>3, <1>5 DEF Held
<1>10. SessionOK(t)'
  BY <1>1, <1>9 DEF IInv, MakeChange, SessionInv, SessionOK, Leaky
<1>11. TaskOK(t)'
  BY <1>1, <1>6, <1>9 DEF IInv, MakeChange, TaskInv, TaskOK, InDb
<1> QED
  BY <1>7, <1>8, <1>10, <1>11, MoveStep

(* A flush or a rollback leaves what may be committed as it was, or makes  *)
(* an end of it.                                                           *)
LEMMA SetSession ==
  ASSUME TypeOK, NEW t \in Threads, NEW s \in {Flush(session[t]), Rollback(session[t]), Clean},
         Set(t, s)
  PROVE  /\ session' \in [Threads -> Session]
         /\ session'[t] = s
         /\ \A u \in Threads : u # t => session'[u] = session[u]
         /\ session'[t].dead \/ Held(t)' = {} \/ (~session[t].dead /\ Held(t)' = Held(t))
<1>1. session[t] \in Session
  BY StepType
<1>2. s \in Session
  BY <1>1, FlushProps
<1>3. /\ session' \in [Threads -> Session] /\ session'[t] = s
      /\ \A u \in Threads : u # t => session'[u] = session[u]
  BY <1>2, SetType
<1>4. Clean.new \cup Clean.flushed = {}
  BY DEF Clean
<1>5. s.dead \/ s.new \cup s.flushed = {}
        \/ (~session[t].dead /\ s.new \cup s.flushed = session[t].new \cup session[t].flushed)
  <2>1. CASE s = Clean
    BY <1>4, <2>1
  <2>2. CASE s = Flush(session[t])
    BY <1>1, <2>2, FlushProps
  <2>3. CASE s = Rollback(session[t])
    BY <1>1, <1>4, <2>3, FlushProps
  <2> QED
    BY <2>1, <2>2, <2>3
<1> QED
  BY <1>3, <1>5 DEF Held

LEMMA QueryStep ==
  ASSUME IInv, NEW t \in Threads, Query(t)
  PROVE  IInv'
<1>1. pc[t] = "body" /\ err[t] = "none" /\ ops' \in 0 .. MaxOps
  BY BoundAssumption DEF IInv, TypeOK, PlaceInv, PlaceOK, Query, Step
<1>2. Set(t, Flush(session[t]))
  BY StepType DEF IInv, Query
<1>3. /\ session' \in [Threads -> Session]
      /\ session'[t] = Flush(session[t])
      /\ \A u \in Threads : u # t => session'[u] = session[u]
      /\ session'[t].dead \/ Held(t)' = {} \/ (~session[t].dead /\ Held(t)' = Held(t))
  BY <1>2, SetSession DEF IInv
<1>4. /\ pc' \in [Threads -> Places]
      /\ err' \in [Threads -> {"none", "operational", "http", "other"}]
      /\ \/ pc'[t] = "body" /\ err'[t] = "none"
         \/ pc'[t] = "error" /\ err'[t] = "other"
      /\ \A u \in Threads : u # t => pc'[u] = pc[u] /\ err'[u] = err[u]
  <2>1. CASE UNCHANGED <<pc, err>>
    BY <1>1, <2>1 DEF IInv, TypeOK
  <2>2. CASE Caught(t)
    BY <1>1, <2>2, CaughtType DEF IInv
  <2> QED
    BY <2>1, <2>2, StepType DEF IInv, Query
<1>5. TypeOK'
  BY <1>1, <1>3, <1>4 DEF IInv, TypeOK, Query
<1>6. Moves(t) /\ Stores(t) /\ PlaceOK(t)'
  BY <1>1, <1>3, <1>4 DEF Query, Moves, Stores, PlaceOK
<1>7. SessionOK(t)'
  BY <1>1, <1>3, <1>4 DEF IInv, Query, SessionInv, SessionOK, Leaky
<1>8. session'[t].dead \/ Held(t)' = Held(t)
  BY <1>3, StepType, FlushProps DEF IInv, Held
<1>9. TaskOK(t)'
  <2>1. session[t].dead => session'[t].dead
    BY <1>3, StepType, FlushProps DEF IInv
  <2> QED
    BY <1>1, <1>4, <1>8, <2>1 DEF IInv, Query, TaskInv, TaskOK, InDb
<1> QED
  BY <1>5, <1>6, <1>7, <1>9, MoveStep

LEMMA BodyCommitsStep ==
  ASSUME IInv, NEW t \in Threads, BodyCommits(t)
  PROVE  IInv'
<1>1. pc[t] = "body" /\ err[t] = "none" /\ ops' \in 0 .. MaxOps
  BY BoundAssumption DEF IInv, TypeOK, PlaceInv, PlaceOK, BodyCommits, Step
<1>2. CASE CommitOK(session[t])
  <2>1. Commit(t, "body") /\ UNCHANGED <<pc, err>>
    BY <1>2, StepType DEF IInv, BodyCommits
  <2>2. /\ db' \subseteq Entry
        /\ db \subseteq db'
        /\ \A c \in Held(t) : \E d \in db' : d.change = c
        /\ \A d \in db' : d \in db \/ (d.by = current[t] /\ d.where = "body" /\ d.change \in Held(t))
        /\ session' \in [Threads -> Session]
        /\ session'[t] = Clean
        /\ \A u \in Threads : u # t => session'[u] = session[u]
    BY <1>1, <2>1, CommitProps DEF IInv
  <2>3. TypeOK'
    BY <1>1, <2>1, <2>2 DEF IInv, TypeOK, BodyCommits
  <2>4. Moves(t) /\ Stores(t) /\ PlaceOK(t)'
    BY <1>1, <1>2, <2>1, <2>2 DEF BodyCommits, Moves, Stores, PlaceOK, CommitOK
  <2>5. SessionOK(t)'
    BY <2>2 DEF SessionOK, Held, Clean
  <2>6. TaskOK(t)'
    <3>1. \A c : c \in Held(t) \/ InDb(c) => InDb(c)'
      BY <2>2 DEF InDb
    <3> QED
      BY <1>1, <1>2, <2>1, <3>1 DEF IInv, BodyCommits, TaskInv, TaskOK, CommitOK
  <2> QED
    BY <2>3, <2>4, <2>5, <2>6, MoveStep
<1>3. CASE ~CommitOK(session[t])
  <2>1. Set(t, Flush(session[t])) /\ Caught(t) /\ UNCHANGED db
    BY <1>3, StepType DEF IInv, BodyCommits
  <2>2. /\ session' \in [Threads -> Session]
        /\ session'[t].dead
        /\ \A u \in Threads : u # t => session'[u] = session[u]
    BY <1>3, <2>1, SetSession, StepType, FlushProps DEF IInv, CommitOK
  <2>3. /\ pc' \in [Threads -> Places]
        /\ err' \in [Threads -> {"none", "operational", "http", "other"}]
        /\ \/ pc'[t] = "body" /\ err'[t] = "none"
           \/ pc'[t] = "error" /\ err'[t] = "other"
        /\ \A u \in Threads : u # t => pc'[u] = pc[u] /\ err'[u] = err[u]
    BY <1>1, <2>1, CaughtType DEF IInv
  <2>4. TypeOK'
    BY <1>1, <2>1, <2>2, <2>3 DEF IInv, TypeOK, BodyCommits
  <2>5. Moves(t) /\ Stores(t) /\ PlaceOK(t)'
    BY <1>1, <2>1, <2>2, <2>3 DEF BodyCommits, Moves, Stores, PlaceOK
  <2>6. SessionOK(t)' /\ TaskOK(t)'
    BY <2>2, <2>3 DEF SessionOK, TaskOK
  <2> QED
    BY <2>4, <2>5, <2>6, MoveStep
<1> QED
  BY <1>2, <1>3

LEMMA BodyRollsBackStep ==
  ASSUME IInv, NEW t \in Threads, BodyRollsBack(t)
  PROVE  IInv'
<1>1. pc[t] = "body" /\ err[t] = "none" /\ ops' \in 0 .. MaxOps /\ current[t] \in Work
  BY BoundAssumption, StepType DEF IInv, TypeOK, PlaceInv, PlaceOK, BodyRollsBack, Step
<1>2. Set(t, Rollback(session[t]))
  BY StepType DEF IInv, BodyRollsBack
<1>3. /\ session' \in [Threads -> Session]
      /\ session'[t] = Rollback(session[t])
      /\ \A u \in Threads : u # t => session'[u] = session[u]
      /\ session'[t].dead \/ Held(t)' = {} \/ (~session[t].dead /\ Held(t)' = Held(t))
  BY <1>2, SetSession DEF IInv
<1>5. CASE RollbackOK(session[t])
  <2>1. /\ made' = [made EXCEPT ![current[t]] = {c \in @ : \E d \in db : d.change = c}]
        /\ UNCHANGED <<pc, err>>
    BY <1>5, StepType DEF IInv, BodyRollsBack
  <2>2. /\ made' \in [Work -> SUBSET Change]
        /\ \A c \in made'[current[t]] : InDb(c)
        /\ \A w \in Work : w # current[t] => made'[w] = made[w]
    BY <1>1, <2>1 DEF IInv, TypeOK, InDb
  <2>3. TypeOK'
    BY <1>1, <1>3, <2>1, <2>2 DEF IInv, TypeOK, BodyRollsBack
  <2>4. Moves(t) /\ Stores(t) /\ PlaceOK(t)'
    BY <1>1, <1>3, <2>1, <2>2 DEF BodyRollsBack, Moves, Stores, PlaceOK
  <2>5. SessionOK(t)'
    BY <1>1, <1>3, <2>1 DEF IInv, BodyRollsBack, SessionInv, SessionOK, Leaky
  <2>6. TaskOK(t)'
    BY <1>1, <2>1, <2>2 DEF BodyRollsBack, TaskOK, InDb
  <2> QED
    BY <2>3, <2>4, <2>5, <2>6, MoveStep
<1>6. CASE ~RollbackOK(session[t])
  <2>1. Caught(t) /\ UNCHANGED made
    BY <1>6, StepType DEF IInv, BodyRollsBack
  <2>2. session'[t].dead
    BY <1>3, <1>6, StepType, FlushProps DEF IInv
  <2>3. /\ pc' \in [Threads -> Places]
        /\ err' \in [Threads -> {"none", "operational", "http", "other"}]
        /\ \/ pc'[t] = "body" /\ err'[t] = "none"
           \/ pc'[t] = "error" /\ err'[t] = "other"
        /\ \A u \in Threads : u # t => pc'[u] = pc[u] /\ err'[u] = err[u]
    BY <1>1, <2>1, CaughtType DEF IInv
  <2>4. TypeOK'
    BY <1>1, <1>3, <2>1, <2>3 DEF IInv, TypeOK, BodyRollsBack
  <2>5. Moves(t) /\ Stores(t) /\ PlaceOK(t)'
    BY <1>1, <1>3, <2>1, <2>3 DEF BodyRollsBack, Moves, Stores, PlaceOK
  <2>6. SessionOK(t)' /\ TaskOK(t)'
    BY <2>2, <2>3 DEF SessionOK, TaskOK
  <2> QED
    BY <2>4, <2>5, <2>6, MoveStep
<1> QED
  BY <1>5, <1>6

-----------------------------------------------------------------------------
(* The ends of the works.                                                  *)
LEMMA HandleOperationalStep ==
  ASSUME IInv, NEW t \in Threads, HandleOperational(t)
  PROVE  IInv'
<1>1. Set(t, Rollback(session[t]))
  BY StepType DEF IInv, HandleOperational
<1>2. /\ session' \in [Threads -> Session]
      /\ \A u \in Threads : u # t => session'[u] = session[u]
      /\ session'[t].dead \/ Held(t)' = {} \/ (~session[t].dead /\ Held(t)' = Held(t))
  BY <1>1, SetSession DEF IInv
<1>3. /\ pc' \in [Threads -> Places]
      /\ err' \in [Threads -> {"none", "operational", "http", "other"}]
      /\ pc'[t] \in {"after", "handle"}
      /\ \A u \in Threads : u # t => pc'[u] = pc[u] /\ err'[u] = err[u]
  <2>1. CASE Go(t, "after") /\ UNCHANGED err
    BY <2>1, GoType DEF IInv, TypeOK, Places
  <2>2. CASE Go(t, "handle") /\ Fail(t, "other")
    BY <2>2, GoType, FailType DEF IInv, Places
  <2> QED
  BY <2>1, <2>2 DEF HandleOperational
<1>4. TypeOK'
  BY <1>2, <1>3 DEF IInv, TypeOK, HandleOperational
<1>5. Moves(t) /\ Stores(t) /\ PlaceOK(t)'
  BY <1>2, <1>3 DEF HandleOperational, Moves, Stores, PlaceOK
<1>6. SessionOK(t)' /\ TaskOK(t)'
  BY <1>2, <1>3 DEF IInv, HandleOperational, SessionInv, SessionOK, TaskOK, Leaky
<1> QED
  BY <1>4, <1>5, <1>6, MoveStep

LEMMA HandleExceptionStep ==
  ASSUME IInv, NEW t \in Threads, HandleException(t)
  PROVE  IInv'
<1>0. pc[t] = "handle" /\ kind[current[t]] = "request" /\ current[t] \in Work
  BY StepType DEF IInv, PlaceInv, PlaceOK, HandleException
<1>1. Set(t, Rollback(session[t]))
  BY StepType DEF IInv, HandleException
<1>2. /\ session' \in [Threads -> Session]
      /\ session'[t] = Rollback(session[t])
      /\ \A u \in Threads : u # t => session'[u] = session[u]
      /\ session'[t].dead \/ Held(t)' = {} \/ (~session[t].dead /\ Held(t)' = Held(t))
  BY <1>1, SetSession DEF IInv
<1>3. CASE RollbackOK(session[t])
  <2>1. Go(t, "after") /\ UNCHANGED outcome
    BY <1>3, StepType DEF IInv, HandleException
  <2>2. /\ pc' \in [Threads -> Places] /\ pc'[t] = "after"
        /\ \A u \in Threads : u # t => pc'[u] = pc[u]
    BY <2>1, GoType DEF IInv, Places
  <2>3. TypeOK'
    BY <1>2, <2>1, <2>2 DEF IInv, TypeOK, HandleException
  <2>4. Moves(t) /\ Stores(t) /\ PlaceOK(t)'
    BY <1>0, <1>2, <2>1, <2>2 DEF HandleException, Moves, Stores, PlaceOK
  <2>5. SessionOK(t)' /\ TaskOK(t)'
    BY <1>0, <1>2, <2>2 DEF IInv, HandleException, SessionInv, SessionOK, TaskOK, Leaky
  <2> QED
  BY <2>3, <2>4, <2>5, MoveStep
<1>4. CASE ~RollbackOK(session[t])
  <2>1. Leave(t, "cut")
    BY <1>4, StepType DEF IInv, HandleException
  <2>2. /\ pc' \in [Threads -> Places] /\ pc'[t] = "idle"
        /\ \A u \in Threads : u # t => pc'[u] = pc[u]
        /\ outcome' \in [Work -> Outcomes]
        /\ outcome' = [outcome EXCEPT ![current[t]] = "cut"]
    BY <1>0, <2>1, LeaveType DEF IInv, Outcomes
  <2>3. TypeOK'
    BY <1>2, <2>2 DEF IInv, TypeOK, HandleException
  <2>4. Moves(t) /\ Stores(t) /\ PlaceOK(t)'
    BY <1>0, <1>2, <2>2 DEF HandleException, Moves, Stores, PlaceOK, Outcomes
  <2>5. session'[t].dead
    BY <1>2, <1>4, StepType, FlushProps DEF IInv
  <2>6. SessionOK(t)' /\ TaskOK(t)'
    BY <2>2, <2>5 DEF SessionOK, TaskOK
  <2> QED
  BY <2>3, <2>4, <2>6, MoveStep
<1> QED
  BY <1>3, <1>4

LEMMA AfterRequestStep ==
  ASSUME IInv, NEW t \in Threads, AfterRequest(t)
  PROVE  IInv'
<1>0. pc[t] = "after" /\ kind[current[t]] = "request" /\ current[t] \in Work
  BY StepType DEF IInv, PlaceInv, PlaceOK, AfterRequest
<1>1. PICK o \in {"ok", "error", "cut"} : Leave(t, o)
  BY DEF AfterRequest, Answered
<1>2. /\ pc' \in [Threads -> Places] /\ pc'[t] = "idle"
      /\ \A u \in Threads : u # t => pc'[u] = pc[u]
      /\ outcome' \in [Work -> Outcomes]
      /\ outcome' = [outcome EXCEPT ![current[t]] = o]
  BY <1>0, <1>1, LeaveType DEF IInv, Outcomes
<1>3. /\ session' \in [Threads -> Session]
      /\ \A u \in Threads : u # t => session'[u] = session[u]
      /\ \/ Held(t)' = {}
         \/ /\ app.star /\ ~origin[current[t]]
            /\ session'[t] = session[t]
  <2>1. CASE HeadersOK(t)
    <3>1. Set(t, Clean)
      BY <2>1 DEF AfterRequest
    <3>2. session'[t] = Clean
      BY <3>1, SetSession DEF IInv
    <3> QED
  BY <3>1, <3>2, SetSession DEF IInv, Held, Clean
  <2>2. CASE ~HeadersOK(t)
    BY <2>2 DEF AfterRequest, HeadersOK, IInv, TypeOK
  <2> QED
  BY <2>1, <2>2
<1>4. TypeOK'
  BY <1>2, <1>3 DEF IInv, TypeOK, AfterRequest
<1>5. Moves(t) /\ Stores(t) /\ PlaceOK(t)'
  BY <1>0, <1>2, <1>3 DEF AfterRequest, Moves, Stores, PlaceOK, Outcomes
<1>6. SessionOK(t)'
  BY <1>0, <1>3 DEF IInv, AfterRequest, SessionInv, SessionOK, Held, Leaky
<1>7. TaskOK(t)'
  BY <1>2 DEF TaskOK
<1> QED
  BY <1>4, <1>5, <1>6, <1>7, MoveStep

LEMMA TaskCommitStep ==
  ASSUME IInv, NEW t \in Threads, TaskCommit(t)
  PROVE  IInv'
<1>0. pc[t] = "commit" /\ kind[current[t]] = "task" /\ err[t] = "none"
  BY DEF IInv, PlaceInv, PlaceOK, TaskCommit
<1>1. CASE CommitOK(session[t])
  <2>1. Commit(t, "end") /\ Go(t, "close") /\ UNCHANGED err
    BY <1>1, StepType DEF IInv, TaskCommit
  <2>2. /\ db' \subseteq Entry
        /\ db \subseteq db'
        /\ \A c \in Held(t) : \E d \in db' : d.change = c
        /\ \A d \in db' : d \in db \/ (d.by = current[t] /\ d.where = "end" /\ d.change \in Held(t))
        /\ session' \in [Threads -> Session]
        /\ session'[t] = Clean
        /\ \A u \in Threads : u # t => session'[u] = session[u]
    BY <1>0, <2>1, CommitProps DEF IInv
  <2>3. /\ pc' \in [Threads -> Places] /\ pc'[t] = "close"
        /\ \A u \in Threads : u # t => pc'[u] = pc[u]
    BY <2>1, GoType DEF IInv, Places
  <2>4. TypeOK'
    BY <2>1, <2>2, <2>3 DEF IInv, TypeOK, TaskCommit
  <2>5. Moves(t) /\ Stores(t) /\ PlaceOK(t)'
    BY <1>0, <1>1, <2>1, <2>2, <2>3 DEF TaskCommit, Moves, Stores, PlaceOK, CommitOK
  <2>6. SessionOK(t)'
    BY <2>2 DEF SessionOK, Held, Clean
  <2>7. TaskOK(t)'
    <3>1. \A c : c \in Held(t) \/ InDb(c) => InDb(c)'
      BY <2>2 DEF InDb
    <3> QED
  BY <1>0, <1>1, <2>3, <3>1 DEF IInv, TaskCommit, TaskInv, TaskOK, CommitOK
  <2> QED
  BY <2>4, <2>5, <2>6, <2>7, MoveStep
<1>2. CASE ~CommitOK(session[t])
  <2>1. Set(t, Flush(session[t])) /\ Go(t, "error") /\ Fail(t, "other") /\ UNCHANGED db
    BY <1>2, StepType DEF IInv, TaskCommit
  <2>2. /\ session' \in [Threads -> Session]
        /\ session'[t].dead
        /\ \A u \in Threads : u # t => session'[u] = session[u]
    BY <1>2, <2>1, SetSession, StepType, FlushProps DEF IInv, CommitOK
  <2>3. /\ pc' \in [Threads -> Places] /\ pc'[t] = "error"
        /\ err' \in [Threads -> {"none", "operational", "http", "other"}] /\ err'[t] = "other"
        /\ \A u \in Threads : u # t => pc'[u] = pc[u] /\ err'[u] = err[u]
    BY <2>1, GoType, FailType DEF IInv, Places
  <2>4. TypeOK'
    BY <2>1, <2>2, <2>3 DEF IInv, TypeOK, TaskCommit
  <2>5. Moves(t) /\ Stores(t) /\ PlaceOK(t)'
    BY <1>0, <2>1, <2>2, <2>3 DEF TaskCommit, Moves, Stores, PlaceOK
  <2>6. SessionOK(t)' /\ TaskOK(t)'
    BY <2>2, <2>3 DEF SessionOK, TaskOK
  <2> QED
  BY <2>4, <2>5, <2>6, MoveStep
<1> QED
  BY <1>1, <1>2

LEMMA TaskRollbackStep ==
  ASSUME IInv, NEW t \in Threads, TaskRollback(t)
  PROVE  IInv'
<1>0. pc[t] = "error" /\ kind[current[t]] = "task" /\ err[t] # "none"
  BY DEF IInv, PlaceInv, PlaceOK, TaskRollback
<1>1. Set(t, Rollback(session[t])) /\ Go(t, "close")
  BY StepType DEF IInv, TaskRollback
<1>2. /\ session' \in [Threads -> Session]
      /\ \A u \in Threads : u # t => session'[u] = session[u]
      /\ session'[t].dead \/ Held(t)' = {} \/ (~session[t].dead /\ Held(t)' = Held(t))
  BY <1>1, SetSession DEF IInv
<1>3. /\ pc' \in [Threads -> Places] /\ pc'[t] = "close"
      /\ \A u \in Threads : u # t => pc'[u] = pc[u]
  BY <1>1, GoType DEF IInv, Places
<1>4. TypeOK'
  BY <1>2, <1>3 DEF IInv, TypeOK, TaskRollback
<1>5. Moves(t) /\ Stores(t) /\ PlaceOK(t)'
  BY <1>0, <1>2, <1>3 DEF TaskRollback, Moves, Stores, PlaceOK
<1>6. SessionOK(t)' /\ TaskOK(t)'
  BY <1>0, <1>2, <1>3 DEF IInv, TaskRollback, SessionInv, SessionOK, TaskOK, Leaky
<1> QED
  BY <1>4, <1>5, <1>6, MoveStep

LEMMA CloseStep ==
  ASSUME IInv, NEW t \in Threads, Close(t)
  PROVE  IInv'
<1>0. pc[t] = "close"
  BY DEF Close
<1>1. Set(t, Clean) /\ Leave(t, IF err[t] = "none" THEN "returned" ELSE "raised")
  BY DEF Close
<1>2. /\ session' \in [Threads -> Session] /\ Held(t)' = {}
      /\ \A u \in Threads : u # t => session'[u] = session[u]
  <2>1. session'[t] = Clean
    BY <1>1, SetSession DEF IInv
  <2> QED
  BY <1>1, <2>1, SetSession DEF IInv, Held, Clean
<1>3. /\ pc' \in [Threads -> Places] /\ pc'[t] = "idle"
      /\ \A u \in Threads : u # t => pc'[u] = pc[u]
      /\ outcome' \in [Work -> Outcomes]
      /\ outcome' = [outcome EXCEPT ![current[t]] = IF err[t] = "none" THEN "returned" ELSE "raised"]
  BY <1>0, <1>1, LeaveType DEF IInv, Outcomes
<1>4. outcome'[current[t]] = IF err[t] = "none" THEN "returned" ELSE "raised"
  BY <1>0, <1>3, StepType DEF IInv, TypeOK
<1>5. TypeOK'
  BY <1>2, <1>3 DEF IInv, TypeOK, Close
<1>6. Moves(t) /\ Stores(t) /\ PlaceOK(t)'
  BY <1>0, <1>2, <1>3, <1>4 DEF Close, Moves, Stores, PlaceOK, Outcomes
<1>7. SessionOK(t)' /\ TaskOK(t)'
  BY <1>2, <1>3 DEF SessionOK, TaskOK
<1> QED
  BY <1>5, <1>6, <1>7, MoveStep

-----------------------------------------------------------------------------
(* A thread takes up its next work and finds the session of its last one.  *)
LEMMA BeginStep ==
  ASSUME IInv, NEW t \in Threads, NEW k \in {"request", "task", "seeds"}, NEW named \in BOOLEAN,
         Begin(t, k, named)
  PROVE  IInv'
<1> DEFINE b == begun + 1
<1>1. /\ pc[t] = "idle" /\ b \in Work /\ begun' = b /\ begun \in Nat
      /\ b \in 0 .. MaxWorks
  BY BoundAssumption DEF IInv, TypeOK, Begin, Work
<1>2. /\ current' = [current EXCEPT ![t] = b]
      /\ kind' = [kind EXCEPT ![b] = k]
      /\ origin' = [origin EXCEPT ![b] = named]
      /\ UNCHANGED <<app, ops, db, made, outcome>>
  BY DEF Begin
<1>3. PICK place \in {"parse", "body"} :
        Go(t, place) /\ (place = "parse" => k = "request") /\ Fail(t, "none")
  BY DEF Begin
<1>4. /\ pc' \in [Threads -> Places] /\ pc'[t] = place
      /\ \A u \in Threads : u # t => pc'[u] = pc[u]
      /\ err' \in [Threads -> {"none", "operational", "http", "other"}] /\ err'[t] = "none"
      /\ \A u \in Threads : u # t => err'[u] = err[u]
  BY <1>3, GoType, FailType DEF IInv, Places
<1>5. /\ session' \in [Threads -> Session]
      /\ \A u \in Threads : u # t => session'[u] = session[u]
      /\ session'[t] = session[t] \/ Held(t)' = {}
  BY StepType, FlushProps DEF IInv, TypeOK, Begin, Held, Clean
<1>6. TypeOK'
  BY <1>1, <1>2, <1>4, <1>5 DEF IInv, TypeOK
<1>7. \A u \in Threads : u # t => current'[u] = current[u]
  BY <1>2 DEF IInv, TypeOK
<1>8. \A w \in Work : w # b => kind'[w] = kind[w] /\ origin'[w] = origin[w]
  BY <1>2 DEF IInv, TypeOK
<1>9. kind'[b] = k /\ kind[b] = "none" /\ current'[t] = b
  BY <1>1, <1>2 DEF IInv, TypeOK, WorkInv
<1>10. \A u \in Threads : current[u] # b
  BY <1>1 DEF IInv, TypeOK, WorkInv
<1>11. WorkInv'
  <2>1. \A w \in Work : kind'[w] = "none" <=> w > begun'
    BY <1>1, <1>8, <1>9 DEF IInv, WorkInv, Work
  <2>2. \A u \in Threads : current'[u] <= begun'
    BY SMTT(30), <1>1, <1>7, <1>9 DEF IInv, TypeOK, WorkInv, Work
  <2>3. outcome[b] = "none"
    BY <1>1 DEF IInv, FreshInv
  <2> QED
    BY <1>1, <1>2, <1>4, <1>7, <1>9, <1>10, <2>1, <2>2, <2>3 DEF IInv, WorkInv, Work
<1>12. FreshInv'
  BY <1>1, <1>2 DEF IInv, FreshInv, TypeOK, Entry, Change, Work
<1>13. PlaceInv'
  <2>1. ASSUME NEW u \in Threads, u # t PROVE PlaceOK(u)'
    <3>1. pc[u] # "idle" => current[u] \in Work
      BY StepType DEF IInv
    <3>2. pc[u] # "idle" => kind'[current'[u]] = kind[current[u]]
      BY <1>7, <1>8, <1>10, <2>1, <3>1
    <3> QED
      BY <1>4, <2>1, <3>2 DEF IInv, PlaceInv, PlaceOK
  <2>2. PlaceOK(t)'
    BY <1>3, <1>4, <1>9 DEF PlaceOK
  <2> QED
    BY <2>1, <2>2 DEF PlaceInv
<1>14. \A w \in Work : Leaky(w) => w # b /\ Leaky(w)'
  BY <1>2, <1>8, <1>9 DEF Leaky
<1>15. SessionInv'
  <2>1. ASSUME NEW u \in Threads, ~session'[u].dead, NEW c \in Held(u)'
        PROVE  Leaky(c.work)' \/ (pc'[u] # "idle" /\ c.work = current'[u])
    <3>1. session'[u] = session[u] /\ c \in Held(u)
      BY <1>5, <2>1 DEF Held
    <3>2. c.work \in Work
      BY <3>1 DEF IInv, TypeOK, Held, Session, Change
    <3>3. Leaky(c.work) \/ (u # t /\ pc[u] # "idle" /\ c.work = current[u])
      BY <1>1, <2>1, <3>1 DEF IInv, SessionInv, SessionOK
    <3> QED
      BY <1>4, <1>7, <1>14, <3>2, <3>3
  <2> QED
    BY <2>1 DEF SessionInv, SessionOK
<1>16. TaskInv'
  <2>1. ASSUME NEW u \in Threads, u # t PROVE TaskOK(u)'
    <3>1. pc[u] # "idle" => current[u] \in Work
      BY StepType DEF IInv
    <3>2. pc[u] # "idle" => kind'[current'[u]] = kind[current[u]]
      BY <1>7, <1>8, <1>10, <2>1, <3>1
    <3> QED
      BY <1>2, <1>4, <1>5, <1>7, <2>1, <3>2 DEF IInv, TaskInv, TaskOK, Held, InDb
  <2>2. TaskOK(t)'
    <3>1. made'[current'[t]] = {}
      BY <1>1, <1>2, <1>9 DEF IInv, FreshInv
    <3> QED
      BY <1>3, <1>4, <3>1 DEF TaskOK
  <2> QED
    BY <2>1, <2>2 DEF TaskInv
<1>17. \A d \in db : d.change.work \in Work /\ d.change.work # b
  BY <1>1 DEF IInv, FreshInv, TypeOK, Entry, Change, Work
<1>18. EndInv'
  BY <1>1, <1>2, <1>4, <1>7, <1>8, <1>17 DEF IInv, EndInv
<1>19. Isolated'
  BY <1>2, <1>8, <1>17 DEF IInv, Isolated
<1>20. TaskAtomic'
  <2>1. outcome[b] = "none"
    BY <1>1 DEF IInv, FreshInv
  <2>2. \A w \in 1 .. begun' : w # b => w \in 1 .. begun /\ w \in Work
    <3>1. b \in 1 .. MaxWorks /\ begun' = begun + 1 /\ begun \in Nat /\ MaxWorks \in Nat
      BY <1>1, BoundAssumption DEF Work
    <3> QED
      BY <3>1 DEF Work
  <2> QED
    BY <1>2, <1>8, <2>1, <2>2 DEF IInv, TaskAtomic
<1> QED
  BY <1>6, <1>11, <1>12, <1>13, <1>15, <1>16, <1>18, <1>19, <1>20 DEF IInv

-----------------------------------------------------------------------------
LEMMA InitIInv == Init => IInv
  BY BoundAssumption, FlushProps DEF Init, IInv, TypeOK, WorkInv, FreshInv, PlaceInv, PlaceOK,
    SessionInv, SessionOK, TaskInv, TaskOK, EndInv, Isolated, TaskAtomic, Places, Outcomes, Session, Clean,
    Work, Held
LEMMA NextIInv == IInv /\ [Next]_vars => IInv'
<1> SUFFICES ASSUME IInv, [Next]_vars PROVE IInv'
  OBVIOUS
<1>1. ASSUME NEW t \in Threads, NEW k \in {"request", "task", "seeds"}, NEW named \in BOOLEAN,
             Begin(t, k, named)
      PROVE  IInv'
  BY <1>1, BeginStep
<1>2. ASSUME NEW t \in Threads,
             \/ Parse(t) \/ Query(t) \/ BodyCommits(t) \/ BodyRollsBack(t) \/ BodyEnds(t)
             \/ \E bad \in BOOLEAN : MakeChange(t, bad)
      PROVE  IInv'
  BY <1>2, ParseStep, QueryStep, BodyCommitsStep, BodyRollsBackStep, BodyEndsStep, MakeChangeStep
<1>3. ASSUME NEW t \in Threads,
             HandleOperational(t) \/ HandleOther(t) \/ HandleException(t) \/ AfterRequest(t)
      PROVE  IInv'
  BY <1>3, HandleOperationalStep, HandleOtherStep, HandleExceptionStep, AfterRequestStep
<1>4. ASSUME NEW t \in Threads,
             TaskCommit(t) \/ TaskRollback(t) \/ SeedRaised(t) \/ Close(t)
      PROVE  IInv'
  BY <1>4, TaskCommitStep, TaskRollbackStep, SeedRaisedStep, CloseStep
<1>5. CASE UNCHANGED vars
  BY <1>5 DEF vars, IInv, TypeOK, WorkInv, FreshInv, PlaceInv, PlaceOK, SessionInv, SessionOK,
    TaskInv, TaskOK, EndInv, Isolated, TaskAtomic, Held, InDb, Leaky
<1> QED
  BY <1>1, <1>2, <1>3, <1>4, <1>5 DEF Next

LEMMA Invariance == Spec => []IInv
  BY InitIInv, NextIInv, PTL DEF Spec

(* No work of the API, of a transactional function or of the seeds commits *)
(* what another work of its thread left in the session, but for a request  *)
(* that names no origin to an API that welcomes any: for every number of   *)
(* threads and works.                                                      *)
THEOREM WorksAreIsolated == Spec => []Isolated
<1>1. IInv => Isolated
  BY DEF IInv
<1> QED
  BY <1>1, Invariance, PTL

(* A function under @transactionhandler that returns has committed all its *)
(* changes, and one that raises none by the commit at its end.             *)
THEOREM TasksAreAtomic == Spec => []TaskAtomic
<1>1. IInv => TaskAtomic
  BY DEF IInv
<1> QED
  BY <1>1, Invariance, PTL
=============================================================================
