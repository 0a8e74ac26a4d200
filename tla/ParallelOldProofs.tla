-------------------------- MODULE ParallelOldProofs --------------------------
(***************************************************************************)
(* Theorems about the process pool and about the old parallel load that    *)
(* runs on it, for every number of children, pages, rows and crashes.      *)
(***************************************************************************)
EXTENDS ParallelOld, FiniteSetTheorems, WellFoundedInduction, TLAPS

-----------------------------------------------------------------------------
(* The pool.                                                               *)

(* Children are spawned in order, each before its task is put.             *)
SpawnInv ==
  /\ pc = "start" => \A p \in Proc : child[p] = "none" <=> p >= idx
  /\ pc = "put" => \A p \in Proc : child[p] = "none" <=> p > idx
  /\ pc \notin {"start", "put"} => \A p \in Proc : child[p] # "none"

(* A child calls the target when it takes a task, which then bears its id. *)
CallInv ==
  \A p \in Proc :
    /\ child[p] \in {"none", "waiting"} => calls[p] = 0
    /\ calls[p] <= 1
    /\ child[p] = "running" => taskId[p] = p

Over(p) == child[p] \in {"exiting", "dead"}
Queued(p) == \E i \in DOMAIN results : results[i].id = p

(* A report is in one place: queued once, in the parent's hand, or         *)
(* recorded under its child's id; and its child is over.                   *)
ReportInv ==
  /\ \A i \in DOMAIN results : Over(results[i].id) /\ results[i].by = results[i].id
  /\ \A i, j \in DOMAIN results : results[i].id = results[j].id => i = j
  /\ pc # "stop" => hand = NoReport
  /\ pc = "stop" =>
       /\ hand \in Report /\ hand.state = Errored
       /\ hand.by = hand.id /\ Over(hand.id) /\ ~Queued(hand.id)
       /\ record[hand.id] = NoReport
  /\ \A p \in Proc : record[p] # NoReport =>
       /\ record[p].id = p /\ record[p].by = p
       /\ Over(p) /\ ~Queued(p)

(* Who is marked no longer works for the pool, or was told to stop.        *)
Stopped(p) == Over(p) \/ p \in signalled

MarkInv ==
  /\ \A p \in marked : Stopped(p)
  /\ pc = "stop" => \A p \in Proc : p < idx => Stopped(p)
  /\ signalled # {} =>
       \/ pc \in {"stop", "dispose", "gone"}
       \/ pc = "returned" /\ \E p \in Proc : record[p].state = Errored

(* A child that is over has reported, or died of a crash or a signal.      *)
AccountInv ==
  \A p \in Proc : Over(p) =>
    \/ record[p] # NoReport \/ Queued(p) \/ (pc = "stop" /\ hand.id = p)
    \/ child[p] = "dead" /\ (crashes > 0 \/ p \in signalled)

PoolInv ==
  /\ TypeOK /\ SpawnInv /\ CallInv /\ ReportInv /\ MarkInv /\ AccountInv
  /\ QuietOnReturn

LEMMA ReportBound ==
  ASSUME NEW s \in Seq(Report),
         \A i, j \in DOMAIN s : s[i].id = s[j].id => i = j
  PROVE  Len(s) <= NumProcs
<1> DEFINE f == [i \in 1 .. Len(s) |-> s[i].id]
<1>1. NumProcs \in Nat /\ Len(s) \in Nat /\ DOMAIN s = 1 .. Len(s)
  BY NumProcsAssumption
<1>0. \A n \in Nat : IsFiniteSet(1 .. n) /\ Cardinality(1 .. n) = n
  <2>1. \A n \in Nat : /\ IsFiniteSet(1 .. n)
                       /\ Cardinality(1 .. n) = IF 1 > n THEN 0 ELSE n - 1 + 1
    BY FS_Interval
  <2> QED
    BY <2>1
<1>2. IsFiniteSet(1 .. NumProcs) /\ Cardinality(1 .. NumProcs) = NumProcs
  BY <1>0, <1>1
<1>3. IsFiniteSet(1 .. Len(s)) /\ Cardinality(1 .. Len(s)) = Len(s)
  BY <1>0, <1>1
<1>4. \A i \in 1 .. Len(s) : s[i].id \in Proc
  <2> SUFFICES ASSUME NEW i \in 1 .. Len(s) PROVE s[i].id \in Proc
    OBVIOUS
  <2>1. s[i] \in Report
    OBVIOUS
  <2> QED
    BY <2>1 DEF Report
<1>5. f \in [1 .. Len(s) -> Proc]
  BY <1>4
<1>6. ASSUME Cardinality(Proc) < Cardinality(1 .. Len(s)) PROVE FALSE
  <2> DEFINE S == 1 .. Len(s)
  <2>1. \E x, y \in S : x # y /\ f[x] = f[y]
    <3>1. IsFiniteSet(S) /\ IsFiniteSet(Proc) /\ Cardinality(Proc) < Cardinality(S)
      BY <1>2, <1>3, <1>6 DEF Proc
    <3>2. f \in [S -> Proc]
      BY <1>5
    <3> HIDE DEF f, S
    <3> QED
      BY <3>1, <3>2, FS_PigeonHole
  <2> QED
    BY <1>1, <2>1
<1> QED
  BY <1>1, <1>2, <1>3, <1>6 DEF Proc

LEMMA ReportHead ==
  ASSUME NEW s \in Seq(Report), s # <<>>
  PROVE  /\ Head(s) = s[1] /\ Head(s) \in Report /\ 1 \in DOMAIN s
         /\ Tail(s) \in Seq(Report)
         /\ \A i \in DOMAIN Tail(s) : i + 1 \in DOMAIN s /\ Tail(s)[i] = s[i + 1] /\ i \in Nat
         /\ \A i \in DOMAIN s : i # 1 => i - 1 \in DOMAIN Tail(s) /\ Tail(s)[i - 1] = s[i]
OBVIOUS

LEMMA ReportAppend ==
  ASSUME NEW s \in Seq(Report), NEW e \in Report
  PROVE  /\ Append(s, e) \in Seq(Report)
         /\ DOMAIN Append(s, e) = DOMAIN s \cup {Len(s) + 1} /\ Len(s) + 1 \notin DOMAIN s
         /\ \A i \in DOMAIN s : Append(s, e)[i] = s[i]
         /\ Append(s, e)[Len(s) + 1] = e
OBVIOUS

LEMMA InitPool == Init => PoolInv
<1> SUFFICES ASSUME Init PROVE PoolInv
  OBVIOUS
<1>1. NumProcs \in Nat \ {0} /\ MaxCrashes \in Nat /\ 1 \in Proc
  BY NumProcsAssumption, CrashAssumption DEF Proc
<1>2. TypeOK
  BY <1>1 DEF Init, TypeOK
<1> QED
  BY <1>1, <1>2 DEF Init, PoolInv, SpawnInv, CallInv, ReportInv, MarkInv, AccountInv,
    QuietOnReturn, Over, Queued, Proc

(* Nothing happens to the pool, but a process outside it may crash.        *)
LEMMA QuietPool ==
  ASSUME PoolInv, UNCHANGED <<parentVars, queueVars, signalled, child, taskId, calls>>,
         crashes' \in crashes .. MaxCrashes
  PROVE  PoolInv'
<1>1. TypeOK'
  BY CrashAssumption DEF PoolInv, TypeOK, parentVars, queueVars
<1>2. SpawnInv' /\ CallInv' /\ ReportInv' /\ MarkInv' /\ QuietOnReturn'
  BY DEF PoolInv, SpawnInv, CallInv, ReportInv, MarkInv, QuietOnReturn, Over, Queued, Stopped,
    parentVars, queueVars
<1>3. crashes > 0 => crashes' > 0
  BY CrashAssumption DEF PoolInv, TypeOK
<1>4. AccountInv'
  BY <1>3 DEF PoolInv, AccountInv, Over, Queued, parentVars, queueVars
<1> QED
  BY <1>1, <1>2, <1>4 DEF PoolInv

LEMMA StartProcessStep == ASSUME PoolInv, StartProcess PROVE PoolInv'
<1>1. /\ child' = [child EXCEPT ![idx] = "waiting"] /\ pc = "start" /\ pc' = "put"
      /\ UNCHANGED <<idx, hand, marked, record, taskId, calls, crashes, tasks, results, signalled>>
  BY DEF StartProcess, queueVars
<1>2. TypeOK'
  BY <1>1 DEF PoolInv, TypeOK
<1>3. /\ child[idx] = "none" /\ idx \in Proc /\ child'[idx] = "waiting"
      /\ \A p \in Proc : p # idx => child'[p] = child[p]
      /\ \A p \in Proc : p \in Nat
  BY <1>1 DEF PoolInv, TypeOK, SpawnInv, Proc
<1>4. SpawnInv'
  BY <1>1, <1>3 DEF PoolInv, SpawnInv, Proc
<1>5. CallInv'
  BY <1>1, <1>3 DEF PoolInv, CallInv
<1>6. \A p \in Proc : Over(p)' <=> Over(p)
  BY <1>3 DEF Over
<1>7. \A i \in DOMAIN results : results[i].id \in Proc
  <2>1. \A i \in DOMAIN results : results[i] \in Report
    BY DEF PoolInv, TypeOK
  <2> QED
    BY <2>1 DEF Report
<1>8. ReportInv'
  BY <1>1, <1>6, <1>7 DEF PoolInv, ReportInv, Queued
<1>9. MarkInv' /\ QuietOnReturn'
  BY <1>1, <1>6 DEF PoolInv, TypeOK, MarkInv, Stopped, QuietOnReturn
<1>10. AccountInv'
  BY <1>1, <1>3, <1>6 DEF PoolInv, AccountInv, Queued
<1> QED
  BY <1>2, <1>4, <1>5, <1>8, <1>9, <1>10 DEF PoolInv

(* The steps of the parent after the start leave the children alone.       *)
LEMMA PutTaskStep == ASSUME PoolInv, PutTask PROVE PoolInv'
<1>1. /\ pc = "put" /\ tasks' = Append(tasks, idx) /\ idx \in Proc /\ NumProcs \in Nat
      /\ UNCHANGED <<hand, marked, record, child, taskId, calls, crashes, results, signalled>>
  BY NumProcsAssumption DEF PutTask, childVars, PoolInv, TypeOK
<1>2. \/ idx = NumProcs /\ pc' = "get" /\ idx' = idx
      \/ idx # NumProcs /\ pc' = "start" /\ idx' = idx + 1
  BY DEF PutTask
<1>3. idx' \in Proc /\ tasks' \in Seq(Proc)
  BY <1>1, <1>2 DEF Proc, PoolInv, TypeOK
<1>4. TypeOK'
  BY <1>1, <1>2, <1>3 DEF PoolInv, TypeOK
<1>5. SpawnInv'
  BY <1>1, <1>2 DEF PoolInv, SpawnInv, Proc
<1>6. CallInv' /\ ReportInv' /\ MarkInv' /\ QuietOnReturn' /\ AccountInv'
  BY <1>1, <1>2 DEF PoolInv, CallInv, ReportInv, MarkInv, QuietOnReturn, AccountInv, Over, Queued,
    Stopped
<1> QED
  BY <1>4, <1>5, <1>6 DEF PoolInv

LEMMA ReadResultStep == ASSUME PoolInv, ReadResult PROVE PoolInv'
<1> DEFINE h == Head(results)
<1>1. /\ pc = "get" /\ pc' = "check" /\ idx' = 1 /\ results # <<>> /\ results' = Tail(results)
      /\ h.state = Finished
      /\ marked' = marked \cup {h.id} /\ record' = [record EXCEPT ![h.id] = h]
      /\ UNCHANGED <<hand, tasks, child, taskId, calls, crashes, signalled>>
  BY DEF ReadResult, childVars
<1>2. /\ h = results[1] /\ h \in Report /\ 1 \in DOMAIN results
      /\ results' \in Seq(Report)
      /\ \A i \in DOMAIN results' :
           i \in Nat /\ i + 1 \in DOMAIN results /\ results'[i] = results[i + 1]
      /\ \A i \in DOMAIN results : i # 1 =>
           i - 1 \in DOMAIN results' /\ results'[i - 1] = results[i]
  BY <1>1, ReportHead DEF PoolInv, TypeOK
<1>3. h.id \in Proc /\ h.by = h.id /\ Over(h.id) /\ h # NoReport
  BY <1>2 DEF PoolInv, ReportInv, Report, NoReport, Proc
<1>4. \A p \in Proc : Queued(p)' <=> Queued(p) /\ p # h.id
  BY <1>2 DEF PoolInv, ReportInv, Queued
<1> HIDE DEF h
<1>5. \A p \in Proc : record'[p] = IF p = h.id THEN h ELSE record[p]
  BY <1>1, <1>3 DEF PoolInv, TypeOK
<1>6. \A i, j \in DOMAIN results' : results'[i].id = results'[j].id => i = j
  BY <1>2 DEF PoolInv, ReportInv
<1>7. TypeOK'
  <2>1. Len(results') <= NumProcs
    BY <1>2, <1>6, ReportBound
  <2>2. idx' \in Proc
    BY <1>1, NumProcsAssumption DEF Proc
  <2>3. record' \in [Proc -> Report \cup {NoReport}] /\ marked' \subseteq Proc
    BY <1>1, <1>2, <1>3 DEF PoolInv, TypeOK
  <2> QED
    BY <1>1, <1>2, <2>1, <2>2, <2>3 DEF PoolInv, TypeOK
<1>8. ReportInv'
  <2>1. \A i \in DOMAIN results' :
          child'[results'[i].id] \in {"exiting", "dead"} /\ results'[i].by = results'[i].id
    BY <1>1, <1>2 DEF PoolInv, ReportInv, Over
  <2>2. \A p \in Proc : record'[p] # NoReport =>
          record'[p].id = p /\ record'[p].by = p /\ Over(p)' /\ ~Queued(p)'
    BY <1>1, <1>3, <1>4, <1>5 DEF PoolInv, ReportInv, Over
  <2> QED
    BY <1>1, <1>6, <2>1, <2>2 DEF PoolInv, ReportInv, Over
<1>9. SpawnInv' /\ CallInv' /\ QuietOnReturn'
  BY <1>1 DEF PoolInv, SpawnInv, CallInv, QuietOnReturn
<1>10. MarkInv'
  BY <1>1, <1>3 DEF PoolInv, MarkInv, Stopped, Over
<1>11. AccountInv'
  BY <1>1, <1>3, <1>4, <1>5 DEF PoolInv, AccountInv, Over
<1> QED
  BY <1>7, <1>8, <1>9, <1>10, <1>11 DEF PoolInv

LEMMA ReadErrorStep == ASSUME PoolInv, ReadError PROVE PoolInv'
<1> DEFINE h == Head(results)
<1>1. /\ pc = "get" /\ pc' = "stop" /\ idx' = 1 /\ results # <<>> /\ results' = Tail(results)
      /\ h.state = Errored /\ hand' = h
      /\ UNCHANGED <<marked, record, tasks, child, taskId, calls, crashes, signalled>>
  BY DEF ReadError, childVars
<1>2. /\ h = results[1] /\ h \in Report /\ 1 \in DOMAIN results
      /\ results' \in Seq(Report)
      /\ \A i \in DOMAIN results' :
           i \in Nat /\ i + 1 \in DOMAIN results /\ results'[i] = results[i + 1]
      /\ \A i \in DOMAIN results : i # 1 =>
           i - 1 \in DOMAIN results' /\ results'[i - 1] = results[i]
  BY <1>1, ReportHead DEF PoolInv, TypeOK
<1>3. h.id \in Proc /\ h.by = h.id /\ Over(h.id) /\ h # NoReport
  BY <1>2 DEF PoolInv, ReportInv, Report, NoReport, Proc
<1>4. \A p \in Proc : Queued(p)' <=> Queued(p) /\ p # h.id
  BY <1>2 DEF PoolInv, ReportInv, Queued
<1>5. record[h.id] = NoReport
  BY <1>2, <1>3 DEF PoolInv, ReportInv, Queued
<1> HIDE DEF h
<1>6. \A i, j \in DOMAIN results' : results'[i].id = results'[j].id => i = j
  BY <1>2 DEF PoolInv, ReportInv
<1>7. TypeOK'
  <2>1. Len(results') <= NumProcs
    BY <1>2, <1>6, ReportBound
  <2>2. idx' \in Proc
    BY <1>1, NumProcsAssumption DEF Proc
  <2> QED
    BY <1>1, <1>2, <2>1, <2>2 DEF PoolInv, TypeOK
<1>8. ReportInv'
  <2>1. \A i \in DOMAIN results' :
          child'[results'[i].id] \in {"exiting", "dead"} /\ results'[i].by = results'[i].id
    BY <1>1, <1>2 DEF PoolInv, ReportInv, Over
  <2>2. /\ hand' \in Report /\ hand'.state = Errored /\ hand'.by = hand'.id
        /\ child'[h.id] \in {"exiting", "dead"} /\ record'[h.id] = NoReport
        /\ h.id \in Proc /\ \A p \in Proc : p = h.id => ~Queued(p)'
    BY <1>1, <1>2, <1>3, <1>4, <1>5 DEF Over
  <2>3. \A p \in Proc : record'[p] # NoReport =>
          record'[p].id = p /\ record'[p].by = p /\ Over(p)' /\ ~Queued(p)'
    BY <1>1, <1>4 DEF PoolInv, ReportInv, Over
  <2> QED
    BY <1>1, <1>6, <2>1, <2>2, <2>3 DEF PoolInv, ReportInv, Over, Queued
<1>9. SpawnInv' /\ CallInv' /\ QuietOnReturn'
  BY <1>1 DEF PoolInv, SpawnInv, CallInv, QuietOnReturn
<1>10. MarkInv'
  <2>1. \A p \in Proc : ~(p < 1)
    BY DEF Proc
  <2> QED
    BY <1>1, <2>1 DEF PoolInv, MarkInv, Stopped, Over
<1>11. AccountInv'
  BY <1>1, <1>4 DEF PoolInv, AccountInv, Over
<1> QED
  BY <1>7, <1>8, <1>9, <1>10, <1>11 DEF PoolInv

LEMMA CheckProcessStep == ASSUME PoolInv, CheckProcess PROVE PoolInv'
<1>1. /\ pc = "check" /\ idx \in Proc /\ marked \subseteq Proc /\ NumProcs \in Nat \ {0}
      /\ marked' = IF child[idx] \in {"waiting", "running", "exiting"}
                   THEN marked ELSE marked \cup {idx}
      /\ UNCHANGED <<hand, record, tasks, results, child, taskId, calls, crashes, signalled>>
  BY NumProcsAssumption DEF CheckProcess, SeenUnfinished, Alive, childVars, queueVars, PoolInv, TypeOK
<1>2. \/ idx < NumProcs /\ pc' = "check" /\ idx' = idx + 1
      \/ idx' = 1 /\ pc' = "get"
      \/ idx' = 1 /\ pc' = "returned" /\ marked' = Proc
  BY <1>1 DEF CheckProcess, AllFinished
<1>3. TypeOK'
  <2>1. idx' \in Proc
    BY <1>1, <1>2 DEF Proc
  <2> QED
    BY <1>1, <1>2, <2>1 DEF PoolInv, TypeOK
<1>4. SpawnInv' /\ CallInv' /\ ReportInv' /\ AccountInv'
  BY <1>1, <1>2 DEF PoolInv, SpawnInv, CallInv, ReportInv, AccountInv, Over, Queued
<1>5. \A p \in marked' : Stopped(p)'
  <2>1. child[idx] \notin {"waiting", "running", "exiting"} => Stopped(idx)
    BY <1>1 DEF PoolInv, TypeOK, SpawnInv, Stopped, Over
  <2> QED
    BY <1>1, <2>1 DEF PoolInv, MarkInv, Stopped, Over
<1>6. MarkInv'
  BY <1>1, <1>2, <1>5 DEF PoolInv, MarkInv
<1>7. QuietOnReturn'
  BY <1>1, <1>2, <1>5 DEF QuietOnReturn, Stopped, Over
<1> QED
  BY <1>3, <1>4, <1>6, <1>7 DEF PoolInv

LEMMA DisposeStep == ASSUME PoolInv, Dispose PROVE PoolInv'
<1>1. /\ pc = "returned" /\ pc' = "dispose" /\ idx' = 1
      /\ UNCHANGED <<hand, marked, record, tasks, results, child, taskId, calls, crashes, signalled>>
  BY DEF Dispose, childVars, queueVars
<1>2. TypeOK'
  BY <1>1, NumProcsAssumption DEF PoolInv, TypeOK, Proc
<1> QED
  BY <1>1, <1>2 DEF PoolInv, SpawnInv, CallInv, ReportInv, AccountInv, MarkInv, QuietOnReturn, Over,
    Queued, Stopped

LEMMA StopProcessStep == ASSUME PoolInv, StopProcess PROVE PoolInv'
<1>1. /\ pc \in {"stop", "dispose"} /\ idx \in Proc /\ NumProcs \in Nat \ {0}
      /\ marked \subseteq Proc /\ signalled \subseteq Proc /\ tasks \in Seq(Proc)
      /\ UNCHANGED <<results, child, taskId, calls, crashes>>
  BY NumProcsAssumption DEF StopProcess, childVars, PoolInv, TypeOK
<1>2. \/ /\ child[idx] \in {"waiting", "running", "exiting"}
         /\ tasks' = Append(tasks, idx)
         /\ marked' = marked \cup {idx} /\ signalled' = signalled \cup {idx}
      \/ /\ child[idx] \notin {"waiting", "running", "exiting"}
         /\ UNCHANGED <<tasks, marked, signalled>>
  BY DEF StopProcess, Alive
<1>3. \/ idx < NumProcs /\ idx' = idx + 1 /\ UNCHANGED <<pc, hand, record>>
      \/ /\ pc = "stop" /\ idx = NumProcs /\ idx' = 1 /\ pc' = "returned"
         /\ record' = [record EXCEPT ![hand.id] = hand] /\ hand' = NoReport
      \/ pc = "dispose" /\ idx = NumProcs /\ idx' = 1 /\ pc' = "gone" /\ UNCHANGED <<hand, record>>
  <2>1. ~(idx < NumProcs) => idx = NumProcs
    BY <1>1 DEF Proc
  <2> QED
    BY <1>1, <2>1 DEF StopProcess
<1>4. idx' \in Proc /\ tasks' \in Seq(Proc) /\ marked' \subseteq Proc /\ signalled' \subseteq Proc
  <2>1. idx' \in Proc
    BY <1>1, <1>3 DEF Proc
  <2>2. tasks' \in Seq(Proc)
    BY <1>1, <1>2
  <2> QED
    BY <1>1, <1>2, <2>1, <2>2
<1>5. pc = "stop" => /\ hand \in Report /\ hand.id \in Proc /\ hand.by = hand.id
                     /\ hand.state = Errored /\ Over(hand.id) /\ ~Queued(hand.id) /\ hand # NoReport
  BY DEF PoolInv, ReportInv, Report, NoReport, Proc
<1>6. \A p \in Proc : record'[p] = IF pc = "stop" /\ pc' = "returned" /\ p = hand.id
                                   THEN hand ELSE record[p]
  BY <1>1, <1>3 DEF PoolInv, TypeOK
<1>7. TypeOK'
  BY <1>1, <1>3, <1>4, <1>5 DEF PoolInv, TypeOK
<1>8. \A p \in Proc : (Over(p)' <=> Over(p)) /\ (Queued(p)' <=> Queued(p))
  BY <1>1 DEF Over, Queued
<1>9. ReportInv'
  <2>1. \A i \in DOMAIN results' :
          child'[results'[i].id] \in {"exiting", "dead"} /\ results'[i].by = results'[i].id
    BY <1>1 DEF PoolInv, ReportInv, Over
  <2>2. \A i, j \in DOMAIN results' : results'[i].id = results'[j].id => i = j
    BY <1>1 DEF PoolInv, ReportInv
  <2>3. \A p \in Proc : record'[p] # NoReport =>
          record'[p].id = p /\ record'[p].by = p /\ Over(p)' /\ ~Queued(p)'
    BY <1>5, <1>6, <1>8 DEF PoolInv, ReportInv
  <2>4. pc' # "stop" => hand' = NoReport
    BY <1>1, <1>3 DEF PoolInv, ReportInv
  <2>5. pc' = "stop" => hand' = hand /\ pc = "stop" /\ record' = record
    BY <1>1, <1>3
  <2> QED
    BY <1>1, <2>1, <2>2, <2>3, <2>4, <2>5 DEF PoolInv, ReportInv, Over, Queued
<1>10. SpawnInv' /\ CallInv'
  BY <1>1, <1>3 DEF PoolInv, SpawnInv, CallInv
<1>11. \A p \in Proc : Stopped(p) => Stopped(p)'
  BY <1>1, <1>2 DEF Stopped, Over
<1>12. \A p \in Proc : p = idx => Stopped(p)'
  BY <1>1, <1>2 DEF PoolInv, TypeOK, SpawnInv, Stopped, Over
<1>13. \A p \in Proc : pc = "stop" /\ (p < idx \/ p = idx) => Stopped(p)'
  BY <1>11, <1>12 DEF PoolInv, MarkInv
<1>14. MarkInv'
  <2>1. \A p \in marked' : Stopped(p)'
    BY <1>1, <1>2, <1>11, <1>12 DEF PoolInv, MarkInv
  <2>2. pc' = "stop" => \A p \in Proc : p < idx' => Stopped(p)'
    BY <1>1, <1>3, <1>13 DEF Proc
  <2>3. pc' \in {"stop", "dispose", "gone"} \/
        (pc' = "returned" /\ \E p \in Proc : record'[p].state = Errored)
    BY <1>1, <1>3, <1>5, <1>6
  <2> QED
    BY <2>1, <2>2, <2>3 DEF MarkInv
<1>15. QuietOnReturn'
  <2>1. CASE pc = "stop"
    <3>1. pc' \in {"returned", "dispose", "gone"} => \A p \in Proc : Stopped(p)'
      BY <1>1, <1>3, <1>13, <2>1 DEF Proc
    <3> QED
      BY <3>1 DEF QuietOnReturn, Stopped, Over
  <2>2. CASE pc = "dispose"
    BY <1>11, <2>2 DEF PoolInv, QuietOnReturn, Stopped, Over
  <2> QED
    BY <1>1, <2>1, <2>2
<1>16. AccountInv'
  BY <1>1, <1>2, <1>3, <1>5, <1>6, <1>8 DEF PoolInv, AccountInv
<1> QED
  BY <1>7, <1>9, <1>10, <1>14, <1>15, <1>16 DEF PoolInv

(* A child moves on without a report: it takes a task, or it dies.         *)
LEMMA ChildMoves ==
  ASSUME PoolInv, NEW p \in Proc, NEW c \in {"running", "dead"},
         child[p] # "none", c = "running" => child[p] = "waiting",
         child' = [child EXCEPT ![p] = c], UNCHANGED <<parentVars, results, signalled>>,
         crashes' \in crashes .. MaxCrashes,
         c = "dead" => Over(p) \/ crashes' > 0 \/ p \in signalled,
         TypeOK', CallInv'
  PROVE  PoolInv'
<1>1. /\ child'[p] = c /\ \A q \in Proc : q # p => child'[q] = child[q]
      /\ UNCHANGED <<pc, idx, hand, marked, record, results>>
  BY DEF PoolInv, TypeOK, parentVars
<1>2. \A q \in Proc : (Over(q) => Over(q)') /\ (Queued(q)' <=> Queued(q))
  BY <1>1 DEF Over, Queued
<1>3. \A q \in Proc : (Over(q)' => Over(q)) \/ (q = p /\ c = "dead")
  BY <1>1 DEF Over
<1>4. \A i \in DOMAIN results : results[i].id \in Proc
  <2>1. \A i \in DOMAIN results : results[i] \in Report
    BY DEF PoolInv, TypeOK
  <2> QED
    BY <2>1 DEF Report
<1>5. ReportInv'
  <2>1. \A i \in DOMAIN results' :
          child'[results'[i].id] \in {"exiting", "dead"} /\ results'[i].by = results'[i].id
    BY <1>1, <1>2, <1>4 DEF PoolInv, ReportInv, Over
  <2>2. \A q \in Proc : record'[q] # NoReport =>
          record'[q].id = q /\ record'[q].by = q /\ Over(q)' /\ ~Queued(q)'
    BY <1>1, <1>2 DEF PoolInv, ReportInv
  <2>3. pc' = "stop" => hand.id \in Proc /\ child'[hand.id] \in {"exiting", "dead"}
    BY <1>1, <1>2 DEF PoolInv, ReportInv, Report, Over
  <2> QED
    BY <1>1, <2>1, <2>2, <2>3 DEF PoolInv, ReportInv, Over, Queued
<1>6. SpawnInv'
  BY <1>1 DEF PoolInv, SpawnInv
<1>7. MarkInv' /\ QuietOnReturn'
  BY <1>1, <1>2 DEF PoolInv, TypeOK, MarkInv, Stopped, QuietOnReturn, Over
<1>8. AccountInv'
  <2>1. crashes > 0 => crashes' > 0
    BY CrashAssumption DEF PoolInv, TypeOK
  <2> SUFFICES ASSUME NEW q \in Proc, Over(q)'
               PROVE  \/ record'[q] # NoReport \/ Queued(q)' \/ (pc' = "stop" /\ hand'.id = q)
                      \/ child'[q] = "dead" /\ (crashes' > 0 \/ q \in signalled')
    BY DEF AccountInv
  <2>2. CASE Over(q)
    BY <1>1, <1>2, <2>1, <2>2 DEF PoolInv, AccountInv, Over
  <2>3. CASE ~Over(q)
    BY <1>1, <1>3, <2>3
  <2> QED
    BY <2>2, <2>3
<1> QED
  BY <1>5, <1>6, <1>7, <1>8 DEF PoolInv

LEMMA TakeStep == ASSUME PoolInv, NEW p \in Proc, Take(p) PROVE PoolInv'
<1>1. /\ child[p] = "waiting" /\ tasks # <<>> /\ tasks' = Tail(tasks)
      /\ taskId' = [taskId EXCEPT ![p] = p] /\ child' = [child EXCEPT ![p] = "running"]
      /\ calls' = [calls EXCEPT ![p] = @ + 1]
      /\ UNCHANGED <<results, crashes, parentVars, signalled>>
  BY DEF Take
<1>2. tasks' \in Seq(Proc)
  BY <1>1 DEF PoolInv, TypeOK
<1>3. TypeOK'
  BY <1>1, <1>2 DEF PoolInv, TypeOK, parentVars
<1>4. CallInv'
  BY <1>1 DEF PoolInv, TypeOK, CallInv
<1>5. crashes' \in crashes .. MaxCrashes
  BY <1>1, CrashAssumption DEF PoolInv, TypeOK
<1> QED
  BY <1>1, <1>3, <1>4, <1>5, ChildMoves

LEMMA ExitStep == ASSUME PoolInv, NEW p \in Proc, Exit(p) PROVE PoolInv'
<1>1. /\ child[p] = "exiting" /\ child' = [child EXCEPT ![p] = "dead"]
      /\ UNCHANGED <<tasks, taskId, calls, results, crashes, parentVars, signalled>>
  BY DEF Exit, queueVars
<1>2. TypeOK'
  BY <1>1 DEF PoolInv, TypeOK, parentVars
<1>3. CallInv'
  BY <1>1 DEF PoolInv, TypeOK, CallInv
<1>4. crashes' \in crashes .. MaxCrashes
  BY <1>1, CrashAssumption DEF PoolInv, TypeOK
<1> QED
  BY <1>1, <1>2, <1>3, <1>4, ChildMoves DEF Over

LEMMA CrashStep == ASSUME PoolInv, NEW p \in Proc, Crash(p) PROVE PoolInv'
<1>1. /\ crashes < MaxCrashes /\ child[p] \in {"waiting", "running"}
      /\ child' = [child EXCEPT ![p] = "dead"] /\ crashes' = crashes + 1
      /\ UNCHANGED <<tasks, taskId, calls, results, parentVars, signalled>>
  BY DEF Crash, queueVars
<1>2. crashes' \in 0 .. MaxCrashes /\ crashes' \in crashes .. MaxCrashes /\ crashes' > 0
  BY <1>1, CrashAssumption DEF PoolInv, TypeOK
<1>3. TypeOK'
  BY <1>1, <1>2 DEF PoolInv, TypeOK, parentVars
<1>4. CallInv'
  BY <1>1 DEF PoolInv, TypeOK, CallInv
<1> QED
  BY <1>1, <1>2, <1>3, <1>4, ChildMoves

LEMMA KilledStep == ASSUME PoolInv, NEW p \in Proc, Killed(p) PROVE PoolInv'
<1>1. /\ p \in signalled /\ child[p] \in {"waiting", "running", "exiting"}
      /\ child' = [child EXCEPT ![p] = "dead"]
      /\ UNCHANGED <<tasks, taskId, calls, results, crashes, parentVars, signalled>>
  BY DEF Killed, Alive, queueVars
<1>2. TypeOK'
  BY <1>1 DEF PoolInv, TypeOK, parentVars
<1>3. CallInv'
  BY <1>1 DEF PoolInv, TypeOK, CallInv
<1>4. crashes' \in crashes .. MaxCrashes
  BY <1>1, CrashAssumption DEF PoolInv, TypeOK
<1> QED
  BY <1>1, <1>2, <1>3, <1>4, ChildMoves

LEMMA FinishStep == ASSUME PoolInv, NEW p \in Proc, Finish(p) PROVE PoolInv'
<1>1. /\ child[p] = "running" /\ taskId[p] = p /\ p # 0
      /\ child' = [child EXCEPT ![p] = "exiting"]
      /\ UNCHANGED <<tasks, taskId, calls, crashes, pc, idx, hand, marked, record, signalled>>
  BY DEF Finish, parentVars, PoolInv, CallInv, Proc
<1>2. PICK st \in {Finished, Errored} :
        results' = Append(results, [id |-> p, state |-> st, by |-> p])
  BY <1>1 DEF Finish
<1> DEFINE e == [id |-> p, state |-> st, by |-> p]
           n == Len(results) + 1
<1>3. e \in Report /\ e.id = p /\ e.by = p
  BY DEF Report
<1>4. /\ results' \in Seq(Report)
      /\ DOMAIN results' = DOMAIN results \cup {n} /\ n \notin DOMAIN results
      /\ \A i \in DOMAIN results : results'[i] = results[i]
      /\ results'[n] = e
  BY <1>2, <1>3, ReportAppend DEF PoolInv, TypeOK
<1> HIDE DEF e, n
<1>5. /\ child'[p] = "exiting" /\ \A q \in Proc : q # p => child'[q] = child[q]
  BY <1>1 DEF PoolInv, TypeOK
<1>6. \A q \in Proc : Over(q)' <=> Over(q) \/ q = p
  BY <1>5 DEF Over
<1>7. \A q \in Proc : Queued(q)' <=> Queued(q) \/ q = p
  BY <1>3, <1>4 DEF Queued
<1>8. ~Over(p) /\ ~Queued(p)
  BY <1>1 DEF PoolInv, ReportInv, Over, Queued
<1>9. \A i \in DOMAIN results : results[i].id \in Proc
  <2>1. \A i \in DOMAIN results : results[i] \in Report
    BY DEF PoolInv, TypeOK
  <2> QED
    BY <2>1 DEF Report
<1>10. \A i, j \in DOMAIN results' : results'[i].id = results'[j].id => i = j
  BY <1>3, <1>4, <1>8 DEF PoolInv, ReportInv, Queued
<1>11. TypeOK'
  <2>1. Len(results') <= NumProcs
    BY <1>4, <1>10, ReportBound
  <2> QED
    BY <1>1, <1>4, <2>1 DEF PoolInv, TypeOK
<1>12. ReportInv'
  <2>1. \A i \in DOMAIN results' :
          child'[results'[i].id] \in {"exiting", "dead"} /\ results'[i].by = results'[i].id
    BY <1>3, <1>4, <1>5, <1>9 DEF PoolInv, ReportInv, Over
  <2>2. \A q \in Proc : record'[q] # NoReport =>
          record'[q].id = q /\ record'[q].by = q /\ Over(q)' /\ ~Queued(q)'
    BY <1>1, <1>6, <1>7, <1>8 DEF PoolInv, ReportInv
  <2>3. pc = "stop" => /\ hand.id \in Proc /\ hand.id # p
                       /\ child'[hand.id] \in {"exiting", "dead"}
    BY <1>5, <1>8 DEF PoolInv, ReportInv, Report, Over
  <2>4. pc = "stop" => ~(\E i \in DOMAIN results' : results'[i].id = hand.id)
    BY <1>3, <1>4, <2>3 DEF PoolInv, ReportInv, Queued
  <2> QED
    BY <1>1, <1>10, <2>1, <2>2, <2>3, <2>4 DEF PoolInv, ReportInv, Over, Queued
<1>13. SpawnInv' /\ CallInv'
  BY <1>1, <1>5 DEF PoolInv, SpawnInv, CallInv
<1>14. MarkInv' /\ QuietOnReturn'
  BY <1>1, <1>6 DEF PoolInv, TypeOK, MarkInv, Stopped, QuietOnReturn, Over
<1>15. AccountInv'
  BY <1>1, <1>5, <1>6, <1>7 DEF PoolInv, AccountInv
<1> QED
  BY <1>11, <1>12, <1>13, <1>14, <1>15 DEF PoolInv

LEMMA NextPool == PoolInv /\ [Next]_vars => PoolInv'
<1> SUFFICES ASSUME PoolInv, [Next]_vars PROVE PoolInv'
  OBVIOUS
<1>1. ASSUME ParentNext \/ Dispose PROVE PoolInv'
  BY <1>1, StartProcessStep, PutTaskStep, ReadResultStep, ReadErrorStep, CheckProcessStep,
    StopProcessStep, DisposeStep DEF ParentNext
<1>2. ASSUME NEW p \in Proc, ChildNext(p) PROVE PoolInv'
  BY <1>2, TakeStep, FinishStep, ExitStep, CrashStep, KilledStep DEF ChildNext
<1>3. ASSUME UNCHANGED vars PROVE PoolInv'
  <2>1. crashes' \in crashes .. MaxCrashes
    BY <1>3, CrashAssumption DEF PoolInv, TypeOK, vars, childVars
  <2> QED
    BY <1>3, <2>1, QuietPool DEF vars, childVars
<1> QED
  BY <1>1, <1>2, <1>3 DEF Next

(* The invariant holds in every state of the pool.                         *)
LEMMA PoolInvariance == Spec => []PoolInv
  BY InitPool, NextPool, PTL DEF Spec

LEMMA PoolAccounts == PoolInv => ResultsAccounted
<1> SUFFICES ASSUME PoolInv PROVE ResultsAccounted
  OBVIOUS
<1>1. ResultsAreOwn /\ CalledOnce
  BY DEF PoolInv, ReportInv, CallInv, ResultsAreOwn, CalledOnce
<1>2. ASSUME pc = "returned", \A p \in Proc : record[p].state # Errored,
             NEW p \in Proc, record[p] = NoReport
      PROVE  Queued(p) \/ (crashes > 0 /\ child[p] = "dead")
  BY <1>2 DEF PoolInv, MarkInv, QuietOnReturn, AccountInv, Over
<1>3. BlankIsExplained
  BY <1>2 DEF BlankIsExplained, Queued, PoolInv, ReportInv
<1> QED
  BY <1>1, <1>3 DEF ResultsAccounted

(* The pool hands every child's own result out under the child's id, calls *)
(* the target once in each, and loses a result only as BlankIsExplained    *)
(* says: ProcessManager and Subprocess, for every number of children and   *)
(* crashes.                                                                *)
THEOREM PoolAccountsForResults == Spec => []ResultsAccounted
  BY PoolInvariance, PoolAccounts, PTL

(* When get_results returns, nobody that was not told to stop still works: *)
(* __check_unfinished_processes and __finish_all_processes.                *)
THEOREM PoolIsQuietOnReturn == Spec => []QuietOnReturn
<1>1. PoolInv => QuietOnReturn
  BY DEF PoolInv
<1> QED
  BY <1>1, PoolInvariance, PTL

-----------------------------------------------------------------------------
(* The load.                                                               *)

Tasks == [kind : {"page", "finish", "error"}, start : Nat]

LoadType ==
  /\ dataQ \in Seq(Tasks) /\ ackQ \in Seq(BOOLEAN)
  /\ spc \in {"new", "count", "put", "await", "finish", "error", "vanished", "done"}
  /\ start \in Nat
  /\ wpc \in [Proc -> {"begin", "get", "page", "wrote", "return", "fail", "raise"}]
  /\ page \in [Proc -> Nat] /\ total \in [Proc -> Nat]
  /\ late \in SUBSET Nat /\ written \in [Row -> Nat]
  /\ verdict \in {"none", "returned", "raised"} /\ reported \in Nat

(* A worker that has not begun holds no page, and one that has reported    *)
(* is at its end; a worker that raised did so with an exception.           *)
EndsWith(e) == wpc[e.id] = IF e.state = Finished THEN "return" ELSE "raise"

PlaceInv ==
  /\ \A p \in Proc : child[p] \in {"none", "waiting"} => wpc[p] = "begin"
  /\ \A i \in DOMAIN results : EndsWith(results[i])
  /\ pc = "stop" => EndsWith(hand)
  /\ \A p \in Proc : record[p] # NoReport => EndsWith(record[p])
  /\ pc \in {"check", "returned", "dispose", "gone"} => \E p \in Proc : record[p] # NoReport

(* Where a page is that was taken from the source and not written.         *)
InQueue(n) == \E i \in DOMAIN dataQ : dataQ[i].kind = "page" /\ dataQ[i].start = n
AtWork(n)  == \E p \in Proc : At(p, "page") /\ page[p] = n
Outstanding(n) == InQueue(n) \/ AtWork(n) \/ n \in late

(* The page the source puts next does not start before this row.           *)
Frontier == IF spc \in {"new", "count", "put"} THEN start ELSE start + Limit

(* Such a page is in one place, overlaps no other and holds no row that    *)
(* was written; and no row was written twice.                              *)
InOnePlace ==
  /\ \A i, j \in DOMAIN dataQ :
       dataQ[i].kind = "page" /\ dataQ[j].kind = "page" /\ dataQ[i].start = dataQ[j].start => i = j
  /\ \A p, q \in Proc : At(p, "page") /\ At(q, "page") /\ page[p] = page[q] => p = q
  /\ \A n \in Nat : /\ ~(InQueue(n) /\ AtWork(n))
                    /\ ~(InQueue(n) /\ n \in late)
                    /\ ~(AtWork(n) /\ n \in late)

Apart ==
  /\ \A n \in Nat : Outstanding(n) => n + Limit <= Frontier
  /\ \A m, n \in Nat : Outstanding(m) /\ Outstanding(n) =>
       m = n \/ m + Limit <= n \/ n + Limit <= m

WrittenOnce ==
  /\ \A n \in Nat : Outstanding(n) => \A r \in PageRows(n) : written[r] = 0
  /\ \A r \in Row : written[r] <= 1 /\ (written[r] = 1 => r < Frontier)

PageInv == (spc \in {"new", "count"} => start = 0) /\ InOnePlace /\ Apart /\ WrittenOnce

(* A row the source has passed is written or in such a page.               *)
CoverInv ==
  \A r \in Row : r < start \/ (spc = "await" /\ r < start + Limit) =>
    written[r] = 1 \/ \E n \in Nat : Outstanding(n) /\ r \in PageRows(n)

(* Endings follow the pages; a worker returns only when there is no page   *)
(* left to take, and the source then came to its end, unless a worker      *)
(* raised.                                                                 *)
Raised == \E p \in Proc : wpc[p] = "raise"
Finishing ==
  \/ spc = "finish"
  \/ \E i \in DOMAIN dataQ : dataQ[i].kind = "finish"
  \/ \E p \in Proc : wpc[p] = "return"

EndingInv ==
  /\ \A i \in DOMAIN dataQ : dataQ[i].kind # "page" =>
       /\ spc \in {"finish", "error", "vanished", "done"}
       /\ \A j \in DOMAIN dataQ : i < j => dataQ[j].kind # "page"
  /\ (\E p \in Proc : wpc[p] = "return") => \A i \in DOMAIN dataQ : dataQ[i].kind # "page"
  /\ Finishing => spc \in {"finish", "done"} /\ (DataCount <= start \/ Raised)
  /\ \A i \in DOMAIN ackQ : ~ackQ[i] => Raised

(* A late write is what a worker that failed or died left behind.          *)
LateInv ==
  \A n \in late : \E p \in Proc :
    /\ page[p] = n
    /\ wpc[p] \in {"fail", "raise"} \/ (wpc[p] = "page" /\ child[p] = "dead")

(* Who wrote each row: the totals count those rows.  Only a write that     *)
(* failed is in nobody's total.                                            *)
Troubled == \E p \in Proc : wpc[p] \in {"fail", "raise"} \/ (wpc[p] = "page" /\ child[p] = "dead")
Counts(owner) ==
  /\ \A p \in Proc : total[p] = Cardinality({r \in Row : owner[r] = p})
  /\ \A r \in Row : owner[r] \in Proc => written[r] = 1
  /\ \A r \in Row : written[r] = 1 /\ owner[r] = 0 => Troubled

CountInv == \E owner \in [Row -> Proc \cup {0}] : Counts(owner)

(* What is known of a load that has returned.                              *)
ReturnInv ==
  /\ verdict = "none" => reported = 0
  /\ verdict # "none" => pc \in {"returned", "dispose", "gone"}
  /\ verdict = "returned" =>
       /\ \A p \in Proc : Over(p) /\ record[p].state # Errored
       /\ \A p \in Proc : wpc[p] \notin {"return", "raise"} => crashes > 0
       /\ (\A p \in Proc : record[p] # NoReport) => reported = DataCount

LoadInv ==
  /\ PoolInv /\ LoadType /\ PlaceInv /\ PageInv /\ CoverInv /\ EndingInv /\ LateInv /\ CountInv
  /\ ReturnInv

(* A set of numbers has a least one: what induction over data comes down to. *)
LEMMA LeastNat ==
  ASSUME NEW S \in SUBSET Nat, S # {}
  PROVE  \E n \in S : \A m \in S : n <= m
<1> DEFINE R == OpToRel(<, Nat)
<1>1. IsWellFoundedOn(R, Nat)
  BY NatLessThanWellFounded
<1>2. \A m, n \in Nat : m < n => <<m, n>> \in R
  BY DEF OpToRel
<1> HIDE DEF R
<1>3. \E n \in S : \A m \in S : ~(<<m, n>> \in R)
  <2>1. S \subseteq Nat
    OBVIOUS
  <2> QED
    BY <1>1, <2>1, WFMin
<1>4. PICK n \in S : \A m \in S : ~(<<m, n>> \in R)
  BY <1>3
<1>5. \A m \in S : n <= m
  <2> SUFFICES ASSUME NEW m \in S PROVE n <= m
    OBVIOUS
  <2>1. m \in Nat /\ n \in Nat /\ ~(m < n)
    BY <1>2, <1>4
  <2> QED
    BY <2>1
<1> QED
  BY <1>5

(* The sum over the records is the one function that adds them one by one. *)
LEMMA SumOfRows ==
  ASSUME NEW count \in [SUBSET Proc -> Nat], count[{}] = 0,
         \A s \in SUBSET Proc : \A x \in s : count[s] = Rows(x) + count[s \ {x}]
  PROVE  MapThenSumSet(Rows, Proc) = count[Proc]
<1> DEFINE Pick(s) == CHOOSE x \in s : TRUE
           Sums(f) == f = [s \in SUBSET Proc |->
                             IF s = {} THEN 0 ELSE Rows(Pick(s)) + f[s \ {Pick(s)}]]
           it == CHOOSE f : Sums(f)
<1>1. MapThenSumSet(Rows, Proc) = it[Proc]
  BY DEF MapThenSumSet, MapThenFoldSet
<1>2. \A s \in SUBSET Proc : s # {} => Pick(s) \in s
  OBVIOUS
<1> HIDE DEF Pick
<1>3. Sums(count)
  <2>1. count = [s \in SUBSET Proc |-> count[s]]
    OBVIOUS
  <2>2. \A s \in SUBSET Proc :
          count[s] = IF s = {} THEN 0 ELSE Rows(Pick(s)) + count[s \ {Pick(s)}]
    BY <1>2
  <2> QED
    BY <2>1, <2>2
<1>4. Sums(it)
  <2> HIDE DEF Sums
  <2> QED
    BY <1>3
<1>5. /\ it[{}] = 0
      /\ \A s \in SUBSET Proc : s # {} => it[s] = Rows(Pick(s)) + it[s \ {Pick(s)}]
  <2> HIDE DEF it
  <2> QED
    BY <1>4
<1> HIDE DEF it, Sums
<1>6. IsFiniteSet(Proc) /\ \A s \in SUBSET Proc : IsFiniteSet(s) /\ Cardinality(s) \in Nat
  <2>1. IsFiniteSet(Proc)
    BY NumProcsAssumption, FS_Interval DEF Proc
  <2> QED
    BY <2>1, FS_Subset, FS_CardinalityType
<1> DEFINE Bad == {n \in Nat : \E s \in SUBSET Proc : Cardinality(s) = n /\ it[s] # count[s]}
<1>7. ASSUME Bad # {} PROVE FALSE
  <2>1. PICK n \in Bad : \A m \in Bad : n <= m
    <3>1. Bad \in SUBSET Nat
      OBVIOUS
    <3> HIDE DEF Bad
    <3> QED
      BY <1>7, <3>1, LeastNat
  <2>2. PICK s \in SUBSET Proc : Cardinality(s) = n /\ it[s] # count[s]
    OBVIOUS
  <2>3. s # {} /\ Pick(s) \in s
    BY <1>2, <1>5, <2>2
  <2>4. Cardinality(s \ {Pick(s)}) = n - 1 /\ s \ {Pick(s)} \in SUBSET Proc
    BY <1>6, <2>2, <2>3, FS_RemoveElement
  <2>5. it[s \ {Pick(s)}] # count[s \ {Pick(s)}]
    BY <1>5, <2>2, <2>3
  <2>6. n - 1 \in Bad
    BY <1>6, <2>4, <2>5
  <2> QED
    BY <2>1, <2>6
<1>8. it[Proc] = count[Proc]
  BY <1>6, <1>7
<1> QED
  BY <1>1, <1>8

-----------------------------------------------------------------------------
(* Facts about the operators of the load.                                  *)

LEMMA TaskHead ==
  ASSUME NEW s \in Seq(Tasks), s # <<>>
  PROVE  /\ Head(s) = s[1] /\ Head(s) \in Tasks /\ 1 \in DOMAIN s
         /\ Tail(s) \in Seq(Tasks)
         /\ \A i \in DOMAIN Tail(s) : i \in Nat /\ i + 1 \in DOMAIN s /\ Tail(s)[i] = s[i + 1]
         /\ \A i \in DOMAIN s : i # 1 => i - 1 \in DOMAIN Tail(s) /\ Tail(s)[i - 1] = s[i]
         /\ \A i \in DOMAIN s : i \in Nat /\ (i = 1 \/ 1 < i)
OBVIOUS

LEMMA TaskAppend ==
  ASSUME NEW s \in Seq(Tasks), NEW e \in Tasks
  PROVE  /\ Append(s, e) \in Seq(Tasks)
         /\ DOMAIN Append(s, e) = DOMAIN s \cup {Len(s) + 1} /\ Len(s) + 1 \notin DOMAIN s
         /\ \A i \in DOMAIN s : Append(s, e)[i] = s[i] /\ i < Len(s) + 1
         /\ Append(s, e)[Len(s) + 1] = e
OBVIOUS

LEMMA RowFacts ==
  /\ Row \subseteq Nat /\ \A r \in Row : r < DataCount
  /\ \A n \in Nat : PageRows(n) \subseteq Row /\ \A r \in PageRows(n) : n <= r /\ r < n + Limit
  /\ Limit \in Nat \ {0} /\ DataCount \in Nat /\ NumProcs \in Nat \ {0}
  BY LoadAssumption, NumProcsAssumption DEF Row, PageRows

(* Pages that do not overlap have no row in common.                        *)
LEMMA ApartRows ==
  ASSUME NEW m \in Nat, NEW n \in Nat, m + Limit <= n \/ n + Limit <= m
  PROVE  PageRows(m) \cap PageRows(n) = {}
  BY LoadAssumption DEF PageRows, Row

(* Writing a page that is outstanding writes each of its rows once.        *)
LEMMA Landing ==
  ASSUME LoadType, PageInv, NEW m \in Nat, Outstanding(m), Land(PageRows(m))
  PROVE  /\ written' \in [Row -> Nat]
         /\ \A r \in Row : written'[r] = IF r \in PageRows(m) THEN 1 ELSE written[r]
<1>1. \A r \in PageRows(m) : written[r] = 0
  BY DEF PageInv, WrittenOnce
<1>2. \A r \in Row : written[r] \in Nat
  BY DEF LoadType
<1>3. written' = [r \in Row |-> IF r \in PageRows(m) THEN written[r] + 1 ELSE written[r]]
  BY DEF Land
<1> QED
  BY <1>1, <1>2, <1>3, RowFacts

LEMMA FrontierType == LoadType => Frontier \in Nat
  BY RowFacts DEF LoadType, Frontier

LEMMA FrontierTypePrime == LoadType' => Frontier' \in Nat
<1> SUFFICES ASSUME LoadType' PROVE Frontier' \in Nat
  OBVIOUS
<1>1. start' \in Nat
  BY DEF LoadType
<1>2. \A n \in Nat : n + Limit \in Nat
  BY LoadAssumption
<1> QED
  BY <1>1, <1>2 DEF Frontier

(* No page comes up, and those that go are written or not.                 *)
LEMMA PagesShrink ==
  ASSUME LoadType, LoadType', PageInv, Frontier <= Frontier',
         \A n \in Nat : Outstanding(n)' => Outstanding(n),
         \/ written' = written
         \/ \E m \in Nat :
              /\ Outstanding(m) /\ ~Outstanding(m)'
              /\ \A r \in Row : written'[r] = IF r \in PageRows(m) THEN 1 ELSE written[r]
  PROVE  Apart' /\ WrittenOnce'
<1>1. Frontier \in Nat /\ Frontier' \in Nat /\ Limit \in Nat \ {0}
  BY FrontierType, FrontierTypePrime, RowFacts
<1>2. Apart'
  <2>1. \A n \in Nat : Outstanding(n) => n + Limit <= Frontier'
    BY <1>1 DEF PageInv, Apart
  <2> QED
    BY <2>1 DEF PageInv, Apart
<1>3. CASE written' = written
  BY <1>1, <1>2, <1>3, RowFacts DEF PageInv, WrittenOnce
<1>4. ASSUME NEW m \in Nat, Outstanding(m), ~Outstanding(m)',
             \A r \in Row : written'[r] = IF r \in PageRows(m) THEN 1 ELSE written[r]
      PROVE  WrittenOnce'
  <2>1. \A r \in Row : written'[r] = IF r \in PageRows(m) THEN 1 ELSE written[r]
    BY <1>4
  <2>2. ASSUME NEW n \in Nat, Outstanding(n)', NEW r \in PageRows(n) PROVE written'[r] = 0
    <3>1. Outstanding(n) /\ n # m
      BY <1>4, <2>2
    <3>2. r \notin PageRows(m)
      BY <1>4, <3>1, <2>2, ApartRows DEF PageInv, Apart
    <3> QED
      BY <2>1, <3>1, <3>2, RowFacts DEF PageInv, WrittenOnce
  <2>3. ASSUME NEW r \in Row PROVE written'[r] <= 1 /\ (written'[r] = 1 => r < Frontier')
    <3>1. CASE r \in PageRows(m)
      <4>1. r < m + Limit /\ m + Limit <= Frontier /\ r \in Nat
        BY <1>4, <3>1, RowFacts DEF PageInv, Apart
      <4> QED
        BY <1>1, <2>1, <3>1, <4>1
    <3>2. CASE r \notin PageRows(m)
      BY <1>1, <2>1, <3>2, RowFacts DEF PageInv, WrittenOnce
    <3> QED
      BY <3>1, <3>2
  <2> QED
    BY <2>2, <2>3 DEF WrittenOnce
<1> QED
  BY <1>2, <1>3, <1>4

(* Every page that goes was written; the source has not passed new rows.   *)
LEMMA CoverKept ==
  ASSUME CoverInv,
         \A r \in Row : r < start' \/ (spc' = "await" /\ r < start' + Limit) =>
           r < start \/ (spc = "await" /\ r < start + Limit),
         \A r \in Row : written[r] = 1 => written'[r] = 1,
         \A n \in Nat : Outstanding(n) =>
           Outstanding(n)' \/ \A r \in PageRows(n) : written'[r] = 1
  PROVE  CoverInv'
<1> SUFFICES ASSUME NEW r \in Row, r < start' \/ (spc' = "await" /\ r < start' + Limit)
             PROVE  written'[r] = 1 \/ \E n \in Nat : Outstanding(n)' /\ r \in PageRows(n)
  BY DEF CoverInv
<1>1. written[r] = 1 \/ \E n \in Nat : Outstanding(n) /\ r \in PageRows(n)
  BY DEF CoverInv
<1> QED
  BY <1>1

-----------------------------------------------------------------------------
(* The pool as the load uses it.                                           *)

LEMMA OldPool == PoolInv /\ [OldNext]_allVars => PoolInv'
<1> SUFFICES ASSUME PoolInv, [OldNext]_allVars PROVE PoolInv'
  OBVIOUS
<1>1. ASSUME [Next]_vars PROVE PoolInv'
  BY <1>1, NextPool
<1>2. CallerNext => [Next]_vars
  BY DEF CallerNext, StartSource, PoolStep, SumResults, DropPool, Next, ParentNext
<1>3. SourceNext \/ SourceVanish => [Next]_vars
  BY DEF SourceNext, SourceCount, SourcePut, SourceAwait, SourceEnd, SourceCutOff, SourceVanish
<1>4. ASSUME SourceCrash PROVE PoolInv'
  <2>1. crashes' \in crashes .. MaxCrashes
    BY <1>4, CrashAssumption DEF SourceCrash, PoolInv, TypeOK
  <2> QED
    BY <1>4, <2>1, QuietPool DEF SourceCrash
<1>5. ASSUME NEW p \in Proc, WorkerNext(p) PROVE [Next]_vars
  BY <1>5 DEF WorkerNext, WorkerBegin, WorkerGet, WorkerWrite, WorkerError, WorkerAnswer,
    WorkerCutOff, WorkerEnd, Next, ChildNext
<1>6. ASSUME NEW p \in Proc, WorkerDies(p) PROVE [Next]_vars
  BY <1>6 DEF WorkerDies, Next, ChildNext
<1>7. ASSUME NEW n \in late, LateWrite(n) PROVE [Next]_vars
  BY <1>7 DEF LateWrite
<1>8. UNCHANGED allVars => [Next]_vars
  BY DEF allVars
<1> QED
  BY <1>1, <1>2, <1>3, <1>4, <1>5, <1>6, <1>7, <1>8 DEF OldNext

(* A step that leaves the workers where they are keeps what was returned.  *)
LEMMA ReturnKept ==
  ASSUME ReturnInv, UNCHANGED <<wpc, record, verdict, reported>>,
         verdict # "none" => pc' \in {"returned", "dispose", "gone"},
         \A p \in Proc : Over(p) => Over(p)',
         crashes > 0 => crashes' > 0
  PROVE  ReturnInv'
  BY DEF ReturnInv

(* A step of a worker whose target_method runs.                            *)
LEMMA WorkerQuiet ==
  ASSUME LoadInv, PoolInv', NEW p \in Proc, child[p] = "running",
         UNCHANGED <<vars, verdict, reported>>,
         \A q \in Proc : q # p => wpc'[q] = wpc[q]
  PROVE  PlaceInv' /\ ReturnInv'
<1>1. UNCHANGED <<pc, hand, results, record, child, crashes>>
  BY DEF vars, parentVars, childVars, queueVars
<1>2. \A q \in Proc : child[q] # "running" => wpc'[q] = wpc[q]
  OBVIOUS
<1>3. \A i \in DOMAIN results : results[i].id \in Proc /\ child[results[i].id] # "running"
  <2>1. \A i \in DOMAIN results : results[i] \in Report /\ Over(results[i].id)
    BY DEF LoadInv, PoolInv, TypeOK, ReportInv
  <2> QED
    BY <2>1 DEF Report, Over
<1>4. pc = "stop" => hand.id \in Proc /\ child[hand.id] # "running"
  BY DEF LoadInv, PoolInv, ReportInv, Report, Over
<1>5. \A q \in Proc : record[q] # NoReport => record[q].id = q /\ child[q] # "running"
  BY DEF LoadInv, PoolInv, ReportInv, Over
<1>6. \A i \in DOMAIN results' : EndsWith(results[i])'
  BY <1>1, <1>2, <1>3 DEF LoadInv, PlaceInv, EndsWith
<1>7. pc' = "stop" => EndsWith(hand)'
  BY <1>1, <1>2, <1>4 DEF LoadInv, PlaceInv, EndsWith
<1>8. \A q \in Proc : record'[q] # NoReport => EndsWith(record[q])'
  BY <1>1, <1>2, <1>5 DEF LoadInv, PlaceInv, EndsWith
<1>9. PlaceInv'
  BY <1>1, <1>2, <1>6, <1>7, <1>8 DEF LoadInv, PlaceInv
<1>10. verdict # "returned"
  BY DEF LoadInv, ReturnInv, Over
<1> QED
  BY <1>1, <1>9, <1>10 DEF LoadInv, ReturnInv

(* A step in which nobody's page changes, nor what is written of it.       *)
LEMMA PagesStill ==
  ASSUME LoadInv, PoolInv', PlaceInv', ReturnInv', LoadType',
         UNCHANGED <<dataQ, ackQ, spc, start, wpc, page, total, late, written>>,
         \A p \in Proc : At(p, "page")' <=> At(p, "page"),
         \A p \in Proc : child[p] = "dead" => child'[p] = "dead"
  PROVE  LoadInv'
<1>1. UNCHANGED <<dataQ, ackQ, spc, start, wpc, page, total, late, written>>
  OBVIOUS
<1>2. \A n \in Nat : (InQueue(n)' <=> InQueue(n)) /\ (AtWork(n)' <=> AtWork(n))
  BY <1>1 DEF InQueue, AtWork
<1>3. \A n \in Nat : Outstanding(n)' <=> Outstanding(n)
  BY <1>1, <1>2 DEF Outstanding
<1>4. Frontier' = Frontier
  BY <1>1 DEF Frontier
<1>5. InOnePlace'
  BY <1>1, <1>2 DEF LoadInv, PageInv, InOnePlace
<1>6. PageInv'
  BY <1>1, <1>3, <1>4, <1>5 DEF LoadInv, PageInv, Apart, WrittenOnce
<1>7. CoverInv'
  BY <1>1, <1>3 DEF LoadInv, CoverInv
<1>8. EndingInv' /\ LateInv'
  BY <1>1 DEF LoadInv, EndingInv, LateInv, Finishing, Raised
<1>9. CountInv'
  BY <1>1 DEF LoadInv, CountInv, Counts, Troubled
<1> QED
  BY <1>6, <1>7, <1>8, <1>9 DEF LoadInv

(* A step of the pool that is no step of the load.                         *)
LEMMA LoadStill ==
  ASSUME LoadInv, PoolInv', PlaceInv', ReturnInv',
         UNCHANGED loadVars,
         \A p \in Proc : At(p, "page")' <=> At(p, "page"),
         \A p \in Proc : child[p] = "dead" => child'[p] = "dead"
  PROVE  LoadInv'
<1>1. UNCHANGED <<dataQ, ackQ, spc, start, wpc, page, total, late, written, verdict, reported>>
  BY DEF loadVars, sourceVars, workerVars, callerVars
<1>2. LoadType'
  BY <1>1 DEF LoadInv, LoadType
<1> QED
  BY <1>1, <1>2, PagesStill

(* The parent's steps leave the children where they are.                   *)
LEMMA ParentPlace ==
  ASSUME LoadInv, PoolInv', ParentNext \/ Dispose, UNCHANGED loadVars
  PROVE  PlaceInv'
<1>1. wpc' = wpc
  BY DEF loadVars, workerVars
<1>2. ASSUME StartProcess \/ PutTask \/ CheckProcess \/ Dispose PROVE PlaceInv'
  <2>1. /\ UNCHANGED <<results, record>> /\ pc' # "stop"
        /\ pc' \in {"check", "returned", "dispose", "gone"} =>
             pc \in {"check", "returned", "dispose", "gone"}
        /\ \A p \in Proc : child'[p] \in {"none", "waiting"} => child[p] \in {"none", "waiting"}
    <3>1. CASE StartProcess
      <4>1. /\ UNCHANGED <<results, record>> /\ pc' = "put" /\ pc = "start" /\ idx \in Proc
            /\ child' = [child EXCEPT ![idx] = "waiting"] /\ child[idx] = "none"
        BY <3>1 DEF StartProcess, queueVars, LoadInv, PoolInv, TypeOK, SpawnInv, Proc
      <4> QED
        BY <4>1 DEF LoadInv, PoolInv, TypeOK
    <3>2. CASE PutTask
      BY <3>2 DEF PutTask, childVars
    <3>3. CASE CheckProcess
      BY <3>3 DEF CheckProcess, childVars, queueVars
    <3>4. CASE Dispose
      BY <3>4 DEF Dispose, childVars, queueVars
    <3> QED
      BY <1>2, <3>1, <3>2, <3>3, <3>4
  <2> QED
    BY <1>1, <2>1 DEF LoadInv, PlaceInv, EndsWith
<1>3. ASSUME ReadResult \/ ReadError PROVE PlaceInv'
  <2> DEFINE h == Head(results)
  <2>1. /\ pc = "get" /\ results # <<>> /\ results' = Tail(results) /\ child' = child
    BY <1>3 DEF ReadResult, ReadError, childVars
  <2>2. /\ h = results[1] /\ h \in Report /\ 1 \in DOMAIN results
        /\ \A i \in DOMAIN results' :
             i \in Nat /\ i + 1 \in DOMAIN results /\ results'[i] = results[i + 1]
    BY <2>1, ReportHead DEF LoadInv, PoolInv, TypeOK
  <2>3. EndsWith(h) /\ h.id \in Proc /\ h # NoReport
    BY <2>2 DEF LoadInv, PlaceInv, Report, NoReport, Proc
  <2> HIDE DEF h
  <2>4. \A i \in DOMAIN results' : EndsWith(results[i])'
    BY <1>1, <2>2 DEF LoadInv, PlaceInv, EndsWith
  <2>5. CASE ReadResult
    <3>1. pc' = "check" /\ record' = [record EXCEPT ![h.id] = h]
      BY <2>5 DEF ReadResult, h
    <3>2. \A p \in Proc : record'[p] = IF p = h.id THEN h ELSE record[p]
      BY <2>3, <3>1 DEF LoadInv, PoolInv, TypeOK
    <3>3. \A p \in Proc : record'[p] # NoReport => EndsWith(record[p])'
      BY <1>1, <2>3, <3>2 DEF LoadInv, PlaceInv, EndsWith
    <3> QED
      BY <1>1, <2>1, <2>3, <2>4, <3>1, <3>2, <3>3 DEF LoadInv, PlaceInv
  <2>6. CASE ReadError
    <3>1. pc' = "stop" /\ hand' = h /\ record' = record
      BY <2>6 DEF ReadError, h
    <3>2. EndsWith(hand)'
      BY <1>1, <2>3, <3>1 DEF EndsWith
    <3>3. \A p \in Proc : record'[p] # NoReport => EndsWith(record[p])'
      BY <1>1, <3>1 DEF LoadInv, PlaceInv, EndsWith
    <3> QED
      BY <1>1, <2>1, <2>4, <3>1, <3>2, <3>3 DEF LoadInv, PlaceInv
  <2> QED
    BY <1>3, <2>5, <2>6
<1>4. ASSUME StopProcess PROVE PlaceInv'
  <2>1. /\ pc \in {"stop", "dispose"} /\ UNCHANGED <<results, child>>
        /\ \/ UNCHANGED <<pc, hand, record>>
           \/ /\ pc = "stop" /\ pc' = "returned"
              /\ record' = [record EXCEPT ![hand.id] = hand]
           \/ pc = "dispose" /\ pc' = "gone" /\ UNCHANGED <<hand, record>>
    BY <1>4 DEF StopProcess, childVars
  <2>2. pc = "stop" => hand.id \in Proc /\ hand # NoReport /\ EndsWith(hand)
    BY DEF LoadInv, PoolInv, ReportInv, PlaceInv, Report, NoReport, Proc
  <2>3. \A p \in Proc : record'[p] = IF pc = "stop" /\ pc' = "returned" /\ p = hand.id
                                     THEN hand ELSE record[p]
    BY <2>1, <2>2 DEF LoadInv, PoolInv, TypeOK
  <2>4. \A p \in Proc : record'[p] # NoReport => EndsWith(record[p])'
    BY <1>1, <2>2, <2>3 DEF LoadInv, PlaceInv, EndsWith
  <2>5. (\A i \in DOMAIN results' : EndsWith(results[i])') /\ (pc' = "stop" => EndsWith(hand)')
    BY <1>1, <2>1, <2>2 DEF LoadInv, PlaceInv, EndsWith
  <2>6. pc' \in {"check", "returned", "dispose", "gone"} => \E p \in Proc : record'[p] # NoReport
    BY <2>1, <2>2, <2>3 DEF LoadInv, PlaceInv
  <2> QED
    BY <1>1, <2>1, <2>4, <2>5, <2>6 DEF LoadInv, PlaceInv
<1> QED
  BY <1>2, <1>3, <1>4 DEF ParentNext

LEMMA PoolStepStep == ASSUME LoadInv, PoolInv', PoolStep \/ DropPool PROVE LoadInv'
<1>1. (ParentNext \/ Dispose) /\ UNCHANGED loadVars
  BY DEF PoolStep, DropPool, ParentNext
<1>2. /\ \A p \in Proc : child[p] # "none" => child'[p] = child[p]
      /\ UNCHANGED crashes
  BY <1>1 DEF ParentNext, Dispose, StartProcess, PutTask, ReadResult, ReadError, CheckProcess,
    StopProcess, childVars, LoadInv, PoolInv, TypeOK, SpawnInv, Proc
<1>3. wpc' = wpc /\ UNCHANGED <<verdict, reported>>
  BY <1>1 DEF loadVars, workerVars, callerVars
<1>4. \A p \in Proc : child[p] = "none" => ~At(p, "page")' /\ ~At(p, "page")
  BY <1>3 DEF LoadInv, PlaceInv, At
<1>5. \A p \in Proc : At(p, "page")' <=> At(p, "page")
  BY <1>2, <1>3, <1>4 DEF At
<1>6. PlaceInv'
  BY <1>1, ParentPlace
<1>7. ReturnInv'
  <2>1. CASE verdict = "none"
    BY <1>3, <2>1 DEF LoadInv, ReturnInv
  <2>2. CASE verdict # "none"
    <3>1. pc \in {"returned", "dispose", "gone"}
      BY <2>2 DEF LoadInv, ReturnInv
    <3>2. ~StartProcess /\ ~PutTask /\ ~ReadResult /\ ~ReadError /\ ~CheckProcess
      BY <3>1 DEF StartProcess, PutTask, ReadResult, ReadError, CheckProcess
    <3>3. Dispose \/ StopProcess
      BY <1>1, <3>2 DEF ParentNext
    <3>4. record' = record /\ pc' \in {"returned", "dispose", "gone"}
      BY <3>1, <3>3 DEF Dispose, StopProcess
    <3> QED
      BY <1>2, <1>3, <3>4, ReturnKept DEF LoadInv, Over
  <2> QED
    BY <2>1, <2>2
<1> QED
  BY <1>1, <1>2, <1>5, <1>6, <1>7, LoadStill

LEMMA TakeExitStep ==
  ASSUME LoadInv, PoolInv', NEW p \in Proc, Take(p) \/ Exit(p), UNCHANGED loadVars
  PROVE  LoadInv'
<1>1. /\ UNCHANGED <<pc, idx, hand, marked, record, results, crashes>>
      /\ \/ child[p] = "waiting" /\ child' = [child EXCEPT ![p] = "running"]
         \/ child[p] = "exiting" /\ child' = [child EXCEPT ![p] = "dead"]
  BY DEF Take, Exit, parentVars, queueVars
<1>2. /\ \A q \in Proc : q # p => child'[q] = child[q]
      /\ \/ child[p] = "waiting" /\ child'[p] = "running"
         \/ child[p] = "exiting" /\ child'[p] = "dead"
  BY <1>1 DEF LoadInv, PoolInv, TypeOK
<1>3. wpc' = wpc /\ UNCHANGED <<verdict, reported>>
  BY DEF loadVars, workerVars, callerVars
<1>4. child[p] = "waiting" => wpc[p] = "begin"
  BY DEF LoadInv, PlaceInv
<1>5. \A q \in Proc : At(q, "page")' <=> At(q, "page")
  BY <1>2, <1>3, <1>4 DEF At
<1>6. PlaceInv'
  BY <1>1, <1>2, <1>3 DEF LoadInv, PlaceInv, EndsWith
<1>7. ReturnInv'
  BY <1>1, <1>2, <1>3, ReturnKept DEF LoadInv, Over, ReturnInv
<1>8. \A q \in Proc : child[q] = "dead" => child'[q] = "dead"
  BY <1>2
<1> QED
  BY <1>5, <1>6, <1>7, <1>8, LoadStill

LEMMA WorkerEndStep == ASSUME LoadInv, PoolInv', NEW p \in Proc, WorkerEnd(p) PROVE LoadInv'
<1>1. /\ child[p] = "running" /\ wpc[p] \in {"return", "raise"} /\ taskId[p] = p
      /\ child' = [child EXCEPT ![p] = "exiting"]
      /\ UNCHANGED <<pc, hand, record, crashes>> /\ UNCHANGED loadVars
  BY DEF WorkerEnd, Finish, At, parentVars, LoadInv, PoolInv, CallInv
<1>2. PICK st \in {Finished, Errored} :
        results' = Append(results, [id |-> p, state |-> st, by |-> p])
  BY <1>1 DEF WorkerEnd, Finish
<1> DEFINE e == [id |-> p, state |-> st, by |-> p]
           n == Len(results) + 1
<1>3. e \in Report /\ e.id = p /\ e.state = st
  BY DEF Report
<1>4. /\ DOMAIN results' = DOMAIN results \cup {n}
      /\ \A i \in DOMAIN results : results'[i] = results[i]
      /\ results'[n] = e /\ Len(results') = n
  BY <1>2, <1>3, ReportAppend DEF LoadInv, PoolInv, TypeOK
<1>5. st = IF wpc[p] = "return" THEN Finished ELSE Errored
  BY <1>3, <1>4 DEF WorkerEnd, Last
<1> HIDE DEF e, n
<1>6. \A q \in Proc : q # p => child'[q] = child[q]
  BY <1>1 DEF LoadInv, PoolInv, TypeOK
<1>7. child'[p] = "exiting"
  BY <1>1 DEF LoadInv, PoolInv, TypeOK
<1>8. wpc' = wpc /\ UNCHANGED <<verdict, reported>>
  BY <1>1 DEF loadVars, workerVars, callerVars
<1>9. \A q \in Proc : At(q, "page")' <=> At(q, "page")
  BY <1>1, <1>6, <1>7, <1>8 DEF At
<1>10. PlaceInv'
  <2>1. \A i \in DOMAIN results' : EndsWith(results[i])'
    <3>1. EndsWith(e)
      BY <1>1, <1>3, <1>5 DEF EndsWith, Finished, Errored
    <3> QED
      BY <1>4, <1>8, <3>1 DEF LoadInv, PlaceInv, EndsWith
  <2> QED
    BY <1>1, <1>6, <1>7, <1>8, <2>1 DEF LoadInv, PlaceInv, EndsWith
<1>11. ReturnInv'
  BY <1>1, <1>6, <1>7, <1>8, ReturnKept DEF LoadInv, Over, ReturnInv
<1>12. \A q \in Proc : child[q] = "dead" => child'[q] = "dead"
  BY <1>1, <1>6
<1> QED
  BY <1>1, <1>9, <1>10, <1>11, <1>12, LoadStill

-----------------------------------------------------------------------------
(* The source.                                                             *)

(* Its steps concern neither the pool nor the workers.                     *)
LEMMA SourceQuiet ==
  ASSUME LoadInv, PoolInv', UNCHANGED <<parentVars, queueVars, signalled, child, taskId, calls>>,
         UNCHANGED <<workerVars, callerVars>>, crashes > 0 => crashes' > 0
  PROVE  /\ PlaceInv' /\ LateInv' /\ CountInv' /\ ReturnInv'
         /\ UNCHANGED <<child, wpc, page, total, late, written, verdict, reported>>
         /\ \A n \in Nat : AtWork(n)' <=> AtWork(n)
         /\ Raised' <=> Raised
<1>1. UNCHANGED <<pc, hand, record, results, child, wpc, page, total, late, written, verdict, reported>>
  BY DEF parentVars, queueVars, workerVars, callerVars
<1>2. PlaceInv'
  BY <1>1 DEF LoadInv, PlaceInv, EndsWith
<1>3. LateInv' /\ CountInv'
  BY <1>1 DEF LoadInv, LateInv, CountInv, Counts, Troubled
<1>4. ReturnInv'
  BY <1>1, ReturnKept DEF LoadInv, Over, ReturnInv
<1>5. (\A n \in Nat : AtWork(n)' <=> AtWork(n)) /\ (Raised' <=> Raised)
  BY <1>1 DEF AtWork, At, Raised
<1> QED
  BY <1>1, <1>2, <1>3, <1>4, <1>5

(* The source changes its mind about what to do next, and may take an      *)
(* answer.                                                                 *)
LEMMA SourceTurns ==
  ASSUME LoadInv, PoolInv', LoadType',
         UNCHANGED <<parentVars, queueVars, signalled, child, taskId, calls>>,
         UNCHANGED <<workerVars, callerVars, dataQ>>, crashes > 0 => crashes' > 0,
         spc' \in {"new", "count"} => spc \in {"new", "count"} /\ start' = start,
         Frontier <= Frontier',
         \A r \in Row : r < start' \/ (spc' = "await" /\ r < start' + Limit) =>
           r < start \/ (spc = "await" /\ r < start + Limit),
         \A i \in DOMAIN dataQ : dataQ[i].kind # "page" =>
           spc' \in {"finish", "error", "vanished", "done"},
         Finishing \/ spc' = "finish" =>
           spc' \in {"finish", "done"} /\ (DataCount <= start' \/ Raised),
         \A i \in DOMAIN ackQ' : ~ackQ'[i] => Raised
  PROVE  LoadInv'
<1>1. /\ PlaceInv' /\ LateInv' /\ CountInv' /\ ReturnInv'
      /\ UNCHANGED <<child, wpc, page, total, late, written, verdict, reported>>
      /\ \A n \in Nat : AtWork(n)' <=> AtWork(n)
      /\ Raised' <=> Raised
  BY SourceQuiet
<1>2. dataQ' = dataQ
  OBVIOUS
<1>3. \A n \in Nat : InQueue(n)' <=> InQueue(n)
  BY <1>2 DEF InQueue
<1>4. \A n \in Nat : Outstanding(n)' <=> Outstanding(n)
  BY <1>1, <1>3 DEF Outstanding
<1>5. InOnePlace'
  BY <1>1, <1>2, <1>3 DEF LoadInv, PageInv, InOnePlace, At
<1>6. Apart' /\ WrittenOnce'
  <2>1. written' = written
    BY <1>1
  <2> QED
    BY <1>4, <2>1, PagesShrink DEF LoadInv
<1>7. PageInv'
  BY <1>5, <1>6 DEF LoadInv, PageInv
<1>8. CoverInv'
  BY <1>1, <1>4, CoverKept DEF LoadInv
<1>9. Finishing' => Finishing \/ spc' = "finish"
  BY <1>1, <1>2 DEF Finishing
<1>10. EndingInv'
  BY <1>1, <1>2, <1>9 DEF LoadInv, EndingInv
<1> QED
  BY <1>1, <1>7, <1>8, <1>10 DEF LoadInv

LEMMA SourceStay ==
  ASSUME LoadInv, PoolInv', StartSource \/ SourceCount \/ SourceCutOff \/ SourceVanish \/ SourceCrash
  PROVE  LoadInv'
<1>1. /\ UNCHANGED <<parentVars, queueVars, signalled, child, taskId, calls>>
      /\ UNCHANGED <<workerVars, callerVars, dataQ, ackQ, start>>
      /\ crashes > 0 => crashes' > 0
  <2>1. SourceCrash => (crashes > 0 => crashes' > 0)
    BY CrashAssumption DEF SourceCrash, LoadInv, PoolInv, TypeOK
  <2> QED
    BY <2>1 DEF StartSource, SourceCount, SourceCutOff, SourceVanish, SourceCrash, vars, childVars
<1>2. /\ start \in Nat /\ Limit \in Nat \ {0} /\ DataCount \in Nat
      /\ spc \in {"new", "count"} => start = 0
  BY RowFacts DEF LoadInv, LoadType, PageInv
<1>3. \/ spc = "new" /\ spc' = "count"
      \/ spc = "count" /\ spc' = "put"
      \/ spc = "count" /\ spc' = "finish" /\ DataCount <= start
      \/ spc = "count" /\ spc' = "error"
      \/ spc \in {"count", "error"} /\ spc' = "vanished"
      \/ spc' = "done"
  BY <1>2 DEF StartSource, SourceCount, SourceCutOff, SourceVanish, SourceCrash
<1>4. LoadType'
  BY <1>1, <1>3 DEF LoadInv, LoadType, workerVars, callerVars
<1>5. Frontier <= Frontier'
  <2>1. start' = start
    BY <1>1
  <2>2. start <= start + Limit /\ start <= start /\ start + Limit <= start + Limit
    BY <1>2
  <2> QED
    BY <1>3, <2>1, <2>2 DEF Frontier
<1>6. spc' # "await" /\ start' = start
  BY <1>1, <1>3
<1>7. \A i \in DOMAIN dataQ : dataQ[i].kind # "page" =>
        spc' \in {"finish", "error", "vanished", "done"}
  BY <1>3 DEF LoadInv, EndingInv
<1>8. Finishing \/ spc' = "finish" =>
        spc' \in {"finish", "done"} /\ (DataCount <= start' \/ Raised)
  BY <1>3, <1>6 DEF LoadInv, EndingInv
<1>9. \A i \in DOMAIN ackQ' : ~ackQ'[i] => Raised
  BY <1>1 DEF LoadInv, EndingInv
<1>10. spc' \in {"new", "count"} => spc \in {"new", "count"} /\ start' = start
  BY <1>3, <1>6
<1>11. \A r \in Row : r < start' \/ (spc' = "await" /\ r < start' + Limit) => r < start
  BY <1>6
<1> QED
  BY <1>1, <1>4, <1>5, <1>7, <1>8, <1>9, <1>10, <1>11, SourceTurns

LEMMA SourceAwaitStep == ASSUME LoadInv, PoolInv', SourceAwait PROVE LoadInv'
<1>1. /\ UNCHANGED <<parentVars, queueVars, signalled, child, taskId, calls, crashes>>
      /\ UNCHANGED <<workerVars, callerVars, dataQ>>
      /\ spc = "await" /\ ackQ # <<>> /\ ackQ' = Tail(ackQ)
  BY DEF SourceAwait, vars, childVars
<1>2. /\ ackQ \in Seq(BOOLEAN) /\ Head(ackQ) = ackQ[1] /\ 1 \in DOMAIN ackQ
      /\ ackQ' \in Seq(BOOLEAN)
      /\ \A i \in DOMAIN ackQ' : i + 1 \in DOMAIN ackQ /\ ackQ'[i] = ackQ[i + 1]
  BY <1>1 DEF LoadInv, LoadType
<1>3. \/ spc' = "put" /\ start' = start + Limit
      \/ spc' = "finish" /\ start' = start /\ Raised
  BY <1>2 DEF SourceAwait, LoadInv, EndingInv
<1>4. start \in Nat /\ Limit \in Nat \ {0} /\ start + Limit \in Nat
  BY RowFacts DEF LoadInv, LoadType
<1>5. LoadType'
  BY <1>1, <1>2, <1>3, <1>4 DEF LoadInv, LoadType, workerVars, callerVars
<1>6. Frontier <= Frontier'
  <2>1. start + Limit <= start + Limit
    BY <1>4
  <2> QED
    BY <1>1, <1>3, <2>1 DEF Frontier
<1>7. \A r \in Row : r < start' \/ (spc' = "await" /\ r < start' + Limit) =>
        r < start \/ (spc = "await" /\ r < start + Limit)
  BY <1>1, <1>3
<1>8. ~Finishing /\ \A i \in DOMAIN dataQ : dataQ[i].kind = "page"
  BY <1>1 DEF LoadInv, EndingInv
<1>9. Finishing \/ spc' = "finish" =>
        spc' \in {"finish", "done"} /\ (DataCount <= start' \/ Raised)
  BY <1>3, <1>8
<1>10. \A i \in DOMAIN ackQ' : ~ackQ'[i] => Raised
  BY <1>2 DEF LoadInv, EndingInv
<1>11. \A i \in DOMAIN dataQ : dataQ[i].kind # "page" =>
        spc' \in {"finish", "error", "vanished", "done"}
  BY <1>8
<1>12. spc' \notin {"new", "count"}
  BY <1>3
<1>13. crashes > 0 => crashes' > 0
  BY <1>1
<1> QED
  BY <1>1, <1>5, <1>6, <1>7, <1>9, <1>10, <1>11, <1>12, <1>13, SourceTurns

LEMMA SourceEndStep == ASSUME LoadInv, PoolInv', SourceEnd PROVE LoadInv'
<1> DEFINE e == Ending(spc)
           k == Len(dataQ) + 1
<1>1. /\ UNCHANGED <<parentVars, queueVars, signalled, child, taskId, calls, crashes>>
      /\ UNCHANGED <<workerVars, callerVars, ackQ, start>>
      /\ spc \in {"finish", "error"} /\ dataQ' = Append(dataQ, e)
      /\ spc' = spc \/ spc' = "done"
  BY DEF SourceEnd, vars, childVars
<1>2. e \in Tasks /\ e.kind = spc
  BY <1>1 DEF Ending, Tasks
<1>3. /\ dataQ' \in Seq(Tasks)
      /\ DOMAIN dataQ' = DOMAIN dataQ \cup {k} /\ k \notin DOMAIN dataQ
      /\ \A i \in DOMAIN dataQ : dataQ'[i] = dataQ[i] /\ i < k
      /\ dataQ'[k] = e /\ ~(k < k)
  BY <1>1, <1>2, TaskAppend DEF LoadInv, LoadType
<1> HIDE DEF e, k
<1>4. /\ PlaceInv' /\ LateInv' /\ CountInv' /\ ReturnInv'
      /\ UNCHANGED <<child, wpc, page, total, late, written, verdict, reported>>
      /\ \A n \in Nat : AtWork(n)' <=> AtWork(n)
      /\ Raised' <=> Raised
  BY <1>1, SourceQuiet
<1>5. \A n \in Nat : InQueue(n)' <=> InQueue(n)
  BY <1>1, <1>2, <1>3 DEF InQueue
<1>6. \A n \in Nat : Outstanding(n)' <=> Outstanding(n)
  BY <1>4, <1>5 DEF Outstanding
<1>7. LoadType'
  BY <1>1, <1>3, <1>4 DEF LoadInv, LoadType
<1>8. Frontier' = Frontier
  BY <1>1 DEF Frontier
<1>9. InOnePlace'
  BY <1>1, <1>2, <1>3, <1>4, <1>5 DEF LoadInv, PageInv, InOnePlace, At
<1>10. Apart' /\ WrittenOnce'
  BY <1>4, <1>6, <1>8 DEF LoadInv, PageInv, Apart, WrittenOnce
<1>11. CoverInv'
  BY <1>1, <1>4, <1>6 DEF LoadInv, CoverInv
<1>12. EndingInv'
  <2>1. \A i \in DOMAIN dataQ' : dataQ'[i].kind # "page" =>
          /\ spc' \in {"finish", "error", "vanished", "done"}
          /\ \A j \in DOMAIN dataQ' : i < j => dataQ'[j].kind # "page"
    <3>1. ASSUME NEW i \in DOMAIN dataQ', dataQ'[i].kind # "page",
                 NEW j \in DOMAIN dataQ', i < j
          PROVE  dataQ'[j].kind # "page"
      <4>1. CASE j = k
        BY <1>1, <1>2, <1>3, <4>1
      <4>2. CASE j # k
        <5>1. i # k
          <6>1. j < k /\ j \in Nat /\ k \in Nat
            BY <1>3, <4>2 DEF LoadInv, LoadType, k
          <6> QED
            BY <3>1, <6>1
        <5> QED
          BY <1>3, <3>1, <4>2, <5>1 DEF LoadInv, EndingInv
      <4> QED
        BY <4>1, <4>2
    <3> QED
      BY <1>1, <3>1
  <2>2. (\E p \in Proc : wpc'[p] = "return") => \A i \in DOMAIN dataQ' : dataQ'[i].kind # "page"
    BY <1>1, <1>2, <1>3, <1>4 DEF LoadInv, EndingInv
  <2>3. Finishing' => Finishing
    BY <1>1, <1>2, <1>3, <1>4 DEF Finishing
  <2>4. Finishing' => spc' \in {"finish", "done"} /\ (DataCount <= start' \/ Raised')
    BY <1>1, <1>4, <2>3 DEF LoadInv, EndingInv
  <2>5. \A i \in DOMAIN ackQ' : ~ackQ'[i] => Raised'
    BY <1>1, <1>4 DEF LoadInv, EndingInv
  <2> QED
    BY <2>1, <2>2, <2>4, <2>5 DEF EndingInv
<1> QED
  BY <1>1, <1>4, <1>7, <1>9, <1>10, <1>11, <1>12 DEF LoadInv, PageInv

(* The next page begins where all others end.                              *)
LEMMA SourcePutStep == ASSUME LoadInv, PoolInv', SourcePut PROVE LoadInv'
<1>1. /\ UNCHANGED <<parentVars, queueVars, signalled, child, taskId, calls, crashes>>
      /\ UNCHANGED <<workerVars, callerVars, ackQ>> /\ spc = "put"
  BY DEF SourcePut, vars, childVars
<1>2. start \in Nat /\ Limit \in Nat \ {0} /\ DataCount \in Nat /\ start + Limit \in Nat
  BY RowFacts DEF LoadInv, LoadType
<1>3. /\ PlaceInv' /\ LateInv' /\ CountInv' /\ ReturnInv'
      /\ UNCHANGED <<child, wpc, page, total, late, written, verdict, reported>>
      /\ \A n \in Nat : AtWork(n)' <=> AtWork(n)
      /\ Raised' <=> Raised
  BY <1>1, SourceQuiet
<1>4. ~Finishing /\ \A i \in DOMAIN dataQ : dataQ[i].kind = "page"
  BY <1>1 DEF LoadInv, EndingInv
<1>5. CASE PastEnd
  <2>1. spc' = "finish" /\ UNCHANGED <<dataQ, start>> /\ DataCount <= start
    BY <1>2, <1>5 DEF SourcePut, PastEnd
  <2>2. LoadType'
    BY <1>1, <1>3, <2>1 DEF LoadInv, LoadType
  <2>3. Frontier <= Frontier'
    <3>1. start <= start + Limit
      BY <1>2
    <3> QED
      BY <1>1, <2>1, <3>1 DEF Frontier
  <2>4. \A i \in DOMAIN ackQ' : ~ackQ'[i] => Raised
    BY <1>1 DEF LoadInv, EndingInv
  <2>5. /\ Finishing \/ spc' = "finish" =>
             spc' \in {"finish", "done"} /\ (DataCount <= start' \/ Raised)
        /\ \A r \in Row : r < start' \/ (spc' = "await" /\ r < start' + Limit) => r < start
        /\ spc' \notin {"new", "count"}
        /\ \A i \in DOMAIN dataQ : dataQ[i].kind # "page" =>
             spc' \in {"finish", "error", "vanished", "done"}
        /\ crashes > 0 => crashes' > 0
    BY <1>1, <1>4, <2>1
  <2> QED
    BY <1>1, <2>1, <2>2, <2>3, <2>4, <2>5, SourceTurns
<1>6. CASE ~PastEnd
  <2> DEFINE e == PageTask(start)
             k == Len(dataQ) + 1
  <2>1. /\ dataQ' = Append(dataQ, e)
        /\ \/ spc' = "await" /\ start' = start
           \/ spc' = "put" /\ start' = start + Limit
    BY <1>1, <1>6 DEF SourcePut
  <2>2. e \in Tasks /\ e.kind = "page" /\ e.start = start
    BY <1>2 DEF PageTask, Tasks
  <2>3. /\ dataQ' \in Seq(Tasks)
        /\ DOMAIN dataQ' = DOMAIN dataQ \cup {k} /\ k \notin DOMAIN dataQ
        /\ \A i \in DOMAIN dataQ : dataQ'[i] = dataQ[i]
        /\ dataQ'[k] = e
    BY <2>1, <2>2, TaskAppend DEF LoadInv, LoadType
  <2> HIDE DEF e, k
  <2>4. LoadType'
    BY <1>1, <1>2, <1>3, <2>1, <2>3 DEF LoadInv, LoadType
  <2>5. Frontier = start /\ Frontier' = start + Limit
    BY <1>1, <2>1 DEF Frontier
  <2>6. \A n \in Nat : InQueue(n)' <=> InQueue(n) \/ n = start
    BY <2>2, <2>3 DEF InQueue
  <2>7. \A n \in Nat : Outstanding(n)' <=> Outstanding(n) \/ n = start
    BY <1>3, <2>6 DEF Outstanding
  <2>8. \A n \in Nat : Outstanding(n) => n + Limit <= start /\ n # start
    <3>1. \A n \in Nat : n + Limit <= start => n # start
      BY <1>2
    <3> QED
      BY <2>5, <3>1 DEF LoadInv, PageInv, Apart
  <2>9. InOnePlace'
    <3>1. ~InQueue(start) /\ ~AtWork(start) /\ start \notin late
      BY <1>2, <2>8 DEF Outstanding
    <3>2. \A i, j \in DOMAIN dataQ' : dataQ'[i].kind = "page" /\ dataQ'[j].kind = "page"
                                      /\ dataQ'[i].start = dataQ'[j].start => i = j
      BY <2>2, <2>3, <3>1 DEF LoadInv, PageInv, InOnePlace, InQueue
    <3>3. \A p, q \in Proc : At(p, "page")' /\ At(q, "page")' /\ page'[p] = page'[q] => p = q
      BY <1>3 DEF LoadInv, PageInv, InOnePlace, At
    <3>4. \A n \in Nat : /\ ~(InQueue(n)' /\ AtWork(n)')
                         /\ ~(InQueue(n)' /\ n \in late')
                         /\ ~(AtWork(n)' /\ n \in late')
      BY <1>3, <2>6, <3>1 DEF LoadInv, PageInv, InOnePlace
    <3> QED
      BY <3>2, <3>3, <3>4 DEF InOnePlace
  <2>10. Apart'
    <3>1. \A n \in Nat : n + Limit <= start => n + Limit <= start + Limit
      BY <1>2
    <3>2. \A n \in Nat : Outstanding(n)' => n + Limit <= start + Limit
      BY <1>2, <2>7, <2>8, <3>1
    <3> QED
      BY <2>5, <2>7, <2>8, <3>2 DEF LoadInv, PageInv, Apart
  <2>11. WrittenOnce'
    <3>1. \A r \in Row : r \in Nat /\ (written[r] = 1 => r < start) /\ written[r] \in Nat
                         /\ written[r] <= 1
      BY <2>5, RowFacts DEF LoadInv, LoadType, PageInv, WrittenOnce
    <3>2. \A r \in PageRows(start) : start <= r /\ r \in Row
      BY <1>2, RowFacts
    <3>3. \A r \in PageRows(start) : written[r] = 0
      BY <1>2, <3>1, <3>2
    <3>4. \A r \in Row : written[r] = 1 => r < start + Limit
      BY <1>2, <3>1
    <3> QED
      BY <1>3, <2>5, <2>7, <3>1, <3>3, <3>4 DEF LoadInv, PageInv, WrittenOnce
  <2>12. CoverInv'
    <3> SUFFICES ASSUME NEW r \in Row, r < start' \/ (spc' = "await" /\ r < start' + Limit)
                 PROVE  written'[r] = 1 \/ \E n \in Nat : Outstanding(n)' /\ r \in PageRows(n)
      BY DEF CoverInv
    <3>1. r \in Nat /\ r < start + Limit
      BY <1>2, <2>1, RowFacts
    <3>2. CASE r < start
      BY <1>3, <2>7, <3>2 DEF LoadInv, CoverInv
    <3>3. CASE ~(r < start)
      <4>1. r \in PageRows(start)
        BY <1>2, <3>1, <3>3 DEF PageRows
      <4> QED
        BY <1>2, <2>7, <4>1
    <3> QED
      BY <3>2, <3>3
  <2>13. EndingInv'
    <3>1. \A i \in DOMAIN dataQ' : dataQ'[i].kind = "page"
      BY <1>4, <2>2, <2>3
    <3>2. ~Finishing'
      BY <1>3, <1>4, <2>1, <3>1 DEF Finishing
    <3>3. \A i \in DOMAIN ackQ' : ~ackQ'[i] => Raised'
      BY <1>1, <1>3 DEF LoadInv, EndingInv
    <3> QED
      BY <3>1, <3>2, <3>3 DEF EndingInv, Finishing
  <2> QED
    BY <1>3, <2>1, <2>4, <2>9, <2>10, <2>11, <2>12, <2>13 DEF LoadInv, PageInv
<1> QED
  BY <1>5, <1>6

-----------------------------------------------------------------------------
(* The workers.                                                            *)

Stages == {"begin", "get", "page", "wrote", "return", "fail", "raise"}

LEMMA Went ==
  ASSUME LoadType, NEW p \in Proc, NEW at \in Stages, Goto(p, at)
  PROVE  /\ wpc' \in [Proc -> Stages] /\ wpc'[p] = at
         /\ \A q \in Proc : q # p => wpc'[q] = wpc[q]
  BY DEF LoadType, Goto, Stages

(* A worker without a page goes on without one.                            *)
LEMMA WorkerKeeps ==
  ASSUME LoadInv, PoolInv', NEW p \in Proc, NEW at \in {"get", "raise"}, Goto(p, at),
         child[p] = "running", wpc[p] \in {"begin", "get", "wrote", "fail"},
         wpc[p] = "fail" => at = "raise",
         UNCHANGED <<vars, dataQ, sourceVars, page, total, late, written, callerVars>>,
         ackQ' \in Seq(BOOLEAN),
         \A i \in DOMAIN ackQ' : ~ackQ'[i] => Raised \/ at = "raise"
  PROVE  LoadInv'
<1>1. /\ wpc' \in [Proc -> Stages] /\ wpc'[p] = at
      /\ \A q \in Proc : q # p => wpc'[q] = wpc[q]
  BY Went DEF LoadInv, Stages
<1>2. /\ UNCHANGED <<dataQ, spc, start, page, total, late, written, verdict, reported, child>>
      /\ UNCHANGED <<vars, verdict, reported>>
  BY DEF sourceVars, callerVars, vars, childVars
<1>3. PlaceInv' /\ ReturnInv'
  BY <1>1, <1>2, WorkerQuiet
<1>4. LoadType'
  BY <1>1, <1>2 DEF LoadInv, LoadType, Stages
<1>5. \A q \in Proc : At(q, "page")' <=> At(q, "page")
  BY <1>1, <1>2 DEF At
<1>6. \A n \in Nat : (InQueue(n)' <=> InQueue(n)) /\ (AtWork(n)' <=> AtWork(n))
  BY <1>2, <1>5 DEF InQueue, AtWork
<1>7. \A n \in Nat : Outstanding(n)' <=> Outstanding(n)
  BY <1>2, <1>6 DEF Outstanding
<1>8. Frontier' = Frontier
  BY <1>2 DEF Frontier
<1>9. InOnePlace'
  BY <1>2, <1>5, <1>6 DEF LoadInv, PageInv, InOnePlace
<1>10. PageInv'
  BY <1>2, <1>7, <1>8, <1>9 DEF LoadInv, PageInv, Apart, WrittenOnce
<1>11. CoverInv'
  BY <1>2, <1>7 DEF LoadInv, CoverInv
<1>12. \A q \in Proc : /\ wpc[q] \in {"return", "raise"} => wpc'[q] = wpc[q]
                       /\ wpc'[q] = "return" => wpc[q] = "return"
                       /\ wpc[q] = "fail" => wpc'[q] \in {"fail", "raise"}
                       /\ wpc[q] = "page" => wpc'[q] = "page"
  BY <1>1
<1>13. (Raised => Raised') /\ (at = "raise" => Raised') /\ (Finishing' => Finishing)
  BY <1>1, <1>2, <1>12 DEF Raised, Finishing
<1>14. EndingInv'
  BY <1>2, <1>12, <1>13 DEF LoadInv, EndingInv
<1>15. LateInv'
  BY <1>2, <1>12 DEF LoadInv, LateInv
<1>16. CountInv'
  <2>1. Troubled => Troubled'
    BY <1>2, <1>12 DEF Troubled
  <2> QED
    BY <1>2, <2>1 DEF LoadInv, CountInv, Counts
<1> QED
  BY <1>3, <1>4, <1>10, <1>11, <1>14, <1>15, <1>16 DEF LoadInv

LEMMA WorkerGoesOn ==
  ASSUME LoadInv, PoolInv', NEW p \in Proc, WorkerBegin(p) \/ WorkerAnswer(p) \/ WorkerCutOff(p)
  PROVE  LoadInv'
<1>1. UNCHANGED <<vars, dataQ, sourceVars, page, total, late, written, callerVars>>
  BY DEF WorkerBegin, WorkerAnswer, WorkerCutOff
<1>2. ackQ \in Seq(BOOLEAN) /\ \A i \in DOMAIN ackQ : ~ackQ[i] => Raised
  BY DEF LoadInv, LoadType, EndingInv
<1>3. ASSUME ackQ' = ackQ
      PROVE  ackQ' \in Seq(BOOLEAN) /\ \A i \in DOMAIN ackQ' : ~ackQ'[i] => Raised
  BY <1>2, <1>3
<1>4. CASE WorkerBegin(p)
  <2>1. PICK at \in {"get", "raise"} : Goto(p, at)
    BY <1>4 DEF WorkerBegin
  <2>2. child[p] = "running" /\ wpc[p] = "begin" /\ ackQ' = ackQ
    BY <1>4 DEF WorkerBegin, At
  <2> QED
    BY <1>1, <1>3, <2>1, <2>2, WorkerKeeps
<1>5. CASE WorkerCutOff(p)
  <2>1. /\ child[p] = "running" /\ wpc[p] \in {"get", "wrote", "fail"} /\ ackQ' = ackQ
        /\ Goto(p, "raise")
    BY <1>5 DEF WorkerCutOff, At
  <2> QED
    BY <1>1, <1>3, <2>1, WorkerKeeps
<1>6. ASSUME At(p, "wrote"), ackQ' = Append(ackQ, TRUE), Goto(p, "get") PROVE LoadInv'
  <2>1. child[p] = "running" /\ wpc[p] = "wrote"
    BY <1>6 DEF At
  <2>2. ackQ' \in Seq(BOOLEAN) /\ \A i \in DOMAIN ackQ' : ~ackQ'[i] => Raised
    BY <1>2, <1>6
  <2> QED
    BY <1>1, <1>6, <2>1, <2>2, WorkerKeeps
<1>7. ASSUME At(p, "fail"), ackQ' = Append(ackQ, FALSE), Goto(p, "raise") PROVE LoadInv'
  <2>1. child[p] = "running" /\ wpc[p] = "fail"
    BY <1>7 DEF At
  <2>2. ackQ' \in Seq(BOOLEAN)
    BY <1>2, <1>7
  <2> QED
    BY <1>1, <1>7, <2>1, <2>2, WorkerKeeps
<1> QED
  BY <1>4, <1>5, <1>6, <1>7 DEF WorkerAnswer

(* A worker takes the task at the head of the queue.                       *)
LEMMA WorkerGetStep == ASSUME LoadInv, PoolInv', NEW p \in Proc, WorkerGet(p) PROVE LoadInv'
<1> DEFINE h == Head(dataQ)
<1>1. /\ child[p] = "running" /\ wpc[p] = "get" /\ dataQ # <<>> /\ dataQ' = Tail(dataQ)
      /\ page' = [page EXCEPT ![p] = h.start]
      /\ UNCHANGED <<vars, ackQ, sourceVars, total, late, written, callerVars>>
  BY DEF WorkerGet, At
<1>2. PICK at \in {"page", "return", "fail"} :
        /\ Goto(p, at)
        /\ at = "page" <=> h.kind = "page"
        /\ at = "return" <=> h.kind = "finish"
  BY DEF WorkerGet
<1>3. /\ wpc' \in [Proc -> Stages] /\ wpc'[p] = at
      /\ \A q \in Proc : q # p => wpc'[q] = wpc[q]
  BY <1>2, Went DEF LoadInv, Stages
<1>4. /\ UNCHANGED <<ackQ, spc, start, total, late, written, verdict, reported, child>>
      /\ UNCHANGED <<vars, verdict, reported>>
  BY <1>1 DEF sourceVars, callerVars, vars, childVars
<1>5. /\ h = dataQ[1] /\ h \in Tasks /\ 1 \in DOMAIN dataQ
      /\ dataQ' \in Seq(Tasks)
      /\ \A i \in DOMAIN dataQ' : i \in Nat /\ i + 1 \in DOMAIN dataQ /\ dataQ'[i] = dataQ[i + 1]
      /\ \A i \in DOMAIN dataQ : i # 1 => i - 1 \in DOMAIN dataQ' /\ dataQ'[i - 1] = dataQ[i]
      /\ \A i \in DOMAIN dataQ : i \in Nat /\ (i = 1 \/ 1 < i)
  BY <1>1, TaskHead DEF LoadInv, LoadType
<1>6. h.start \in Nat
  BY <1>5 DEF Tasks
<1> HIDE DEF h
<1>7. page'[p] = h.start /\ \A q \in Proc : q # p => page'[q] = page[q]
  BY <1>1 DEF LoadInv, LoadType
<1>8. PlaceInv' /\ ReturnInv'
  BY <1>1, <1>3, <1>4, WorkerQuiet
<1>9. LoadType'
  BY <1>1, <1>3, <1>4, <1>5, <1>6 DEF LoadInv, LoadType, Stages
<1>10. \A q \in Proc : At(q, "page")' <=> At(q, "page") \/ (q = p /\ at = "page")
  BY <1>1, <1>3, <1>4 DEF At
<1>11. ~At(p, "page")
  BY <1>1 DEF At
<1>12. \A n \in Nat : AtWork(n)' <=> AtWork(n) \/ (at = "page" /\ n = h.start)
  BY <1>6, <1>7, <1>10, <1>11 DEF AtWork
<1>13. \A n \in Nat : InQueue(n)' <=> InQueue(n) /\ ~(at = "page" /\ n = h.start)
  <2>1. \A i, j \in DOMAIN dataQ : dataQ[i].kind = "page" /\ dataQ[j].kind = "page"
                                   /\ dataQ[i].start = dataQ[j].start => i = j
    BY DEF LoadInv, PageInv, InOnePlace
  <2> SUFFICES ASSUME NEW n \in Nat
               PROVE  InQueue(n)' <=> InQueue(n) /\ ~(at = "page" /\ n = h.start)
    OBVIOUS
  <2>2. ASSUME NEW i \in DOMAIN dataQ', dataQ'[i].kind = "page", dataQ'[i].start = n
        PROVE  InQueue(n) /\ ~(at = "page" /\ n = h.start)
    <3>1. i + 1 \in DOMAIN dataQ /\ dataQ'[i] = dataQ[i + 1] /\ i + 1 # 1
      BY <1>5
    <3> QED
      BY <1>2, <1>5, <2>1, <2>2, <3>1 DEF InQueue
  <2>3. ASSUME NEW i \in DOMAIN dataQ, dataQ[i].kind = "page", dataQ[i].start = n,
               ~(at = "page" /\ n = h.start)
        PROVE  InQueue(n)'
    BY <1>2, <1>5, <2>3 DEF InQueue
  <2> QED
    BY <2>2, <2>3 DEF InQueue
<1>14. at = "page" => InQueue(h.start)
  BY <1>2, <1>5 DEF InQueue
<1>15. \A n \in Nat : Outstanding(n)' <=> Outstanding(n)
  BY <1>4, <1>6, <1>12, <1>13, <1>14 DEF Outstanding
<1>16. Frontier' = Frontier
  BY <1>4 DEF Frontier
<1>17. InOnePlace'
  <2>1. \A i, j \in DOMAIN dataQ' : dataQ'[i].kind = "page" /\ dataQ'[j].kind = "page"
                                    /\ dataQ'[i].start = dataQ'[j].start => i = j
    <3> SUFFICES ASSUME NEW i \in DOMAIN dataQ', NEW j \in DOMAIN dataQ',
                        dataQ'[i].kind = "page", dataQ'[j].kind = "page",
                        dataQ'[i].start = dataQ'[j].start
                 PROVE  i = j
      OBVIOUS
    <3>1. i + 1 = j + 1
      BY <1>5 DEF LoadInv, PageInv, InOnePlace
    <3> QED
      BY <1>5, <3>1
  <2>2. ASSUME NEW q \in Proc, NEW u \in Proc, At(q, "page")', At(u, "page")', page'[q] = page'[u]
        PROVE  q = u
    <3>1. \A v \in Proc : At(v, "page") => page[v] \in Nat /\ AtWork(page[v])
      BY DEF AtWork, LoadInv, LoadType
    <3>2. at = "page" => ~AtWork(h.start)
      BY <1>6, <1>14 DEF LoadInv, PageInv, InOnePlace
    <3> QED
      BY <1>7, <1>10, <1>11, <2>2, <3>1, <3>2 DEF LoadInv, PageInv, InOnePlace
  <2>3. \A n \in Nat : /\ ~(InQueue(n)' /\ AtWork(n)')
                       /\ ~(InQueue(n)' /\ n \in late')
                       /\ ~(AtWork(n)' /\ n \in late')
    BY <1>4, <1>12, <1>13, <1>14 DEF LoadInv, PageInv, InOnePlace
  <2> QED
    BY <2>1, <2>2, <2>3 DEF InOnePlace
<1>18. PageInv'
  BY <1>4, <1>15, <1>16, <1>17 DEF LoadInv, PageInv, Apart, WrittenOnce
<1>19. CoverInv'
  BY <1>4, <1>15 DEF LoadInv, CoverInv
<1>20. \A q \in Proc : /\ wpc[q] \in {"return", "raise", "fail", "page"} => q # p /\ wpc'[q] = wpc[q]
                       /\ wpc'[q] = "return" => wpc[q] = "return" \/ at = "return"
  BY <1>1, <1>3
<1>21. EndingInv'
  <2>1. \A i \in DOMAIN dataQ' : dataQ'[i].kind # "page" =>
          /\ spc' \in {"finish", "error", "vanished", "done"}
          /\ \A j \in DOMAIN dataQ' : i < j => dataQ'[j].kind # "page"
    <3> SUFFICES ASSUME NEW i \in DOMAIN dataQ', dataQ'[i].kind # "page"
                 PROVE  /\ spc' \in {"finish", "error", "vanished", "done"}
                        /\ \A j \in DOMAIN dataQ' : i < j => dataQ'[j].kind # "page"
      OBVIOUS
    <3>1. \A j \in DOMAIN dataQ' : i < j => i + 1 < j + 1
      BY <1>5
    <3> QED
      BY <1>4, <1>5, <3>1 DEF LoadInv, EndingInv
  <2>2. (\E q \in Proc : wpc'[q] = "return") => \A i \in DOMAIN dataQ' : dataQ'[i].kind # "page"
    <3>1. ASSUME at = "return", NEW i \in DOMAIN dataQ' PROVE dataQ'[i].kind # "page"
      <4>1. dataQ[1].kind # "page" /\ i + 1 \in DOMAIN dataQ /\ 1 < i + 1
        <5>1. i \in Nat /\ i + 1 \in DOMAIN dataQ /\ i + 1 # 1
          BY <1>5
        <5> QED
          BY <1>2, <1>5, <3>1, <5>1
      <4> QED
        BY <1>5, <4>1 DEF LoadInv, EndingInv
    <3>2. ASSUME \E q \in Proc : wpc[q] = "return"
          PROVE  \A i \in DOMAIN dataQ' : dataQ'[i].kind # "page"
      BY <1>5, <3>2 DEF LoadInv, EndingInv
    <3> QED
      BY <1>20, <3>1, <3>2
  <2>3. Finishing' => Finishing
    BY <1>2, <1>4, <1>5, <1>20 DEF Finishing
  <2>4. Raised => Raised'
    BY <1>20 DEF Raised
  <2> QED
    BY <1>4, <2>1, <2>2, <2>3, <2>4 DEF LoadInv, EndingInv
<1>22. LateInv'
  BY <1>4, <1>7, <1>20 DEF LoadInv, LateInv
<1>23. CountInv'
  <2>1. Troubled => Troubled'
    BY <1>4, <1>20 DEF Troubled
  <2> QED
    BY <1>4, <2>1 DEF LoadInv, CountInv, Counts
<1> QED
  BY <1>8, <1>9, <1>18, <1>19, <1>21, <1>22, <1>23 DEF LoadInv

-----------------------------------------------------------------------------
(* Writing.                                                                *)

(* A page that was outstanding has landed.                                 *)
LEMMA PageLanded ==
  ASSUME LoadInv, LoadType', UNCHANGED <<dataQ, spc, start>>, NEW m \in Nat, Outstanding(m),
         \A r \in Row : written'[r] = IF r \in PageRows(m) THEN 1 ELSE written[r],
         \A n \in Nat : Outstanding(n)' <=> Outstanding(n) /\ n # m,
         InOnePlace'
  PROVE  PageInv' /\ CoverInv'
<1>1. Frontier' = Frontier /\ Frontier <= Frontier
  BY FrontierType DEF Frontier, LoadInv
<1>2. Apart' /\ WrittenOnce'
  BY <1>1, PagesShrink DEF LoadInv
<1>3. PageInv'
  BY <1>2 DEF LoadInv, PageInv
<1>4. CoverInv'
  <2>1. \A r \in Row : r < start' \/ (spc' = "await" /\ r < start' + Limit) =>
          r < start \/ (spc = "await" /\ r < start + Limit)
    OBVIOUS
  <2>2. \A r \in Row : written[r] = 1 => written'[r] = 1
    OBVIOUS
  <2>3. \A n \in Nat : Outstanding(n) =>
          Outstanding(n)' \/ \A r \in PageRows(n) : written'[r] = 1
    BY RowFacts
  <2> QED
    BY <2>1, <2>2, <2>3, CoverKept DEF LoadInv
<1> QED
  BY <1>3, <1>4

(* What follows for a worker that leaves its page, whatever it did to it.  *)
LEMMA PageLeft ==
  ASSUME LoadInv, NEW p \in Proc, At(p, "page"), UNCHANGED <<page, dataQ>>,
         ~At(p, "page")', \A q \in Proc : q # p => (At(q, "page")' <=> At(q, "page"))
  PROVE  /\ page[p] \in Nat /\ Outstanding(page[p])
         /\ \A n \in Nat : /\ AtWork(n)' <=> AtWork(n) /\ n # page[p]
                           /\ InQueue(n)' <=> InQueue(n)
         /\ ~InQueue(page[p]) /\ AtWork(page[p]) /\ page[p] \notin late
         /\ \A q, u \in Proc : At(q, "page")' /\ At(u, "page")' /\ page'[q] = page'[u] => q = u
<1>1. page[p] \in Nat /\ AtWork(page[p])
  BY DEF AtWork, LoadInv, LoadType
<1>2. ~InQueue(page[p]) /\ page[p] \notin late
  BY <1>1 DEF LoadInv, PageInv, InOnePlace
<1>3. \A n \in Nat : AtWork(n)' <=> AtWork(n) /\ n # page[p]
  BY DEF AtWork, LoadInv, PageInv, InOnePlace
<1>4. \A n \in Nat : InQueue(n)' <=> InQueue(n)
  BY DEF InQueue
<1>5. \A q, u \in Proc : At(q, "page")' /\ At(u, "page")' /\ page'[q] = page'[u] => q = u
  BY DEF LoadInv, PageInv, InOnePlace
<1>6. Outstanding(page[p])
  BY <1>1 DEF Outstanding
<1> QED
  BY <1>1, <1>2, <1>3, <1>4, <1>5, <1>6

(* The endings do not depend on what is written.                           *)
LEMMA EndingKept ==
  ASSUME LoadInv, UNCHANGED <<dataQ, ackQ, spc, start>>,
         \A q \in Proc : /\ wpc[q] \in {"return", "raise"} => wpc'[q] = wpc[q]
                         /\ wpc'[q] = "return" => wpc[q] = "return"
  PROVE  EndingInv'
<1>1. (Raised => Raised') /\ (Finishing' => Finishing)
  BY DEF Raised, Finishing
<1> QED
  BY <1>1 DEF LoadInv, EndingInv

LEMMA RowsFinite == \A S \in SUBSET Row : IsFiniteSet(S) /\ Cardinality(S) \in Nat
<1>1. IsFiniteSet(Row)
  <2>1. DataCount - 1 \in Int /\ 0 \in Int
    BY LoadAssumption
  <2> QED
    BY <2>1, FS_Interval DEF Row
<1> QED
  BY <1>1, FS_Subset, FS_CardinalityType

LEMMA WorkerWriteStep == ASSUME LoadInv, PoolInv', NEW p \in Proc, WorkerWrite(p) PROVE LoadInv'
<1> DEFINE m == page[p]
           rows == PageRows(m)
<1>1. /\ child[p] = "running" /\ wpc[p] = "page" /\ At(p, "page")
      /\ Land(PageRows(m)) /\ Goto(p, "wrote")
      /\ total' = [total EXCEPT ![p] = @ + Cardinality(rows)]
      /\ UNCHANGED <<vars, dataQ, ackQ, sourceVars, page, late, callerVars>>
  BY DEF WorkerWrite, At
<1>2. /\ wpc' \in [Proc -> Stages] /\ wpc'[p] = "wrote"
      /\ \A q \in Proc : q # p => wpc'[q] = wpc[q]
  BY <1>1, Went DEF LoadInv, Stages
<1>3. /\ UNCHANGED <<dataQ, ackQ, spc, start, page, late, verdict, reported, child>>
      /\ UNCHANGED <<vars, verdict, reported>>
  BY <1>1 DEF sourceVars, callerVars, vars, childVars
<1>4. PlaceInv' /\ ReturnInv'
  BY <1>1, <1>2, <1>3, WorkerQuiet
<1>5. ~At(p, "page")' /\ \A q \in Proc : q # p => (At(q, "page")' <=> At(q, "page"))
  BY <1>2, <1>3 DEF At
<1>6. /\ m \in Nat /\ Outstanding(m)
      /\ \A n \in Nat : /\ AtWork(n)' <=> AtWork(n) /\ n # m
                        /\ InQueue(n)' <=> InQueue(n)
      /\ ~InQueue(m) /\ AtWork(m) /\ m \notin late
      /\ \A q, u \in Proc : At(q, "page")' /\ At(u, "page")' /\ page'[q] = page'[u] => q = u
  BY <1>1, <1>3, <1>5, PageLeft
<1>7. /\ written' \in [Row -> Nat]
      /\ \A r \in Row : written'[r] = IF r \in rows THEN 1 ELSE written[r]
  BY <1>1, <1>6, Landing DEF LoadInv
<1>8. rows \in SUBSET Row /\ IsFiniteSet(rows) /\ Cardinality(rows) \in Nat
  BY <1>6, RowFacts, RowsFinite
<1>9. \A r \in rows : written[r] = 0
  BY <1>6 DEF LoadInv, PageInv, WrittenOnce
<1> HIDE DEF m, rows
<1>10. /\ total' \in [Proc -> Nat] /\ total'[p] = total[p] + Cardinality(rows)
       /\ \A q \in Proc : q # p => total'[q] = total[q]
  BY <1>1, <1>8 DEF LoadInv, LoadType
<1>11. LoadType'
  BY <1>2, <1>3, <1>7, <1>10 DEF LoadInv, LoadType, Stages
<1>12. \A n \in Nat : Outstanding(n)' <=> Outstanding(n) /\ n # m
  BY <1>3, <1>6 DEF Outstanding
<1>13. InOnePlace'
  BY <1>3, <1>6 DEF LoadInv, PageInv, InOnePlace
<1>14. PageInv' /\ CoverInv'
  BY <1>3, <1>6, <1>7, <1>11, <1>12, <1>13, PageLanded DEF rows
<1>15. \A q \in Proc : /\ wpc[q] \in {"return", "raise", "fail"} => wpc'[q] = wpc[q]
                       /\ wpc'[q] = "return" => wpc[q] = "return"
                       /\ wpc[q] = "page" /\ child[q] = "dead" => wpc'[q] = "page"
  BY <1>1, <1>2
<1>16. EndingInv'
  BY <1>3, <1>15, EndingKept
<1>17. LateInv'
  BY <1>3, <1>15 DEF LoadInv, LateInv
<1>18. CountInv'
  <2>1. PICK owner \in [Row -> Proc \cup {0}] : Counts(owner)
    BY DEF LoadInv, CountInv
  <2> DEFINE mine == [r \in Row |-> IF r \in rows THEN p ELSE owner[r]]
             of(o, q) == {r \in Row : o[r] = q}
  <2>2. mine \in [Row -> Proc \cup {0}]
    BY <2>1
  <2>3. \A r \in rows : r \in Row /\ owner[r] \notin Proc
    BY <1>8, <1>9, <2>1 DEF Counts
  <2>4. \A q \in Proc : q # p => of(mine, q) = of(owner, q)
    BY <2>3
  <2>5. of(mine, p) = of(owner, p) \cup rows /\ of(owner, p) \cap rows = {}
    BY <1>8, <2>3
  <2>6. Cardinality(of(mine, p)) = Cardinality(of(owner, p)) + Cardinality(rows)
    <3>1. of(owner, p) \in SUBSET Row
      OBVIOUS
    <3> HIDE DEF of, mine
    <3>2. IsFiniteSet(of(owner, p)) /\ Cardinality(of(owner, p)) \in Nat
      BY <3>1, RowsFinite
    <3>3. Cardinality(of(owner, p) \cup rows) =
            Cardinality(of(owner, p)) + Cardinality(rows) - Cardinality({})
      BY <1>8, <2>5, <3>2, FS_Union
    <3> QED
      BY <1>8, <2>5, <3>2, <3>3, FS_EmptySet
  <2>7. \A q \in Proc : total'[q] = Cardinality({r \in Row : mine[r] = q})
    <3>1. \A q \in Proc : total[q] = Cardinality(of(owner, q))
      BY <2>1 DEF Counts
    <3>2. \A q \in Proc : total'[q] = Cardinality(of(mine, q))
      <4> HIDE DEF of, mine
      <4> QED
        BY <1>10, <2>4, <2>6, <3>1
    <3> HIDE DEF mine
    <3> QED
      BY <3>2
  <2>8. \A r \in Row : mine[r] \in Proc => written'[r] = 1
    BY <1>7, <2>1 DEF Counts
  <2>9. Troubled => Troubled'
    BY <1>3, <1>15 DEF Troubled
  <2>10. \A r \in Row : written'[r] = 1 /\ mine[r] = 0 => Troubled'
    <3>1. p # 0
      BY DEF Proc
    <3> QED
      BY <1>7, <2>1, <2>9, <3>1 DEF Counts
  <2> HIDE DEF mine
  <2>11. \E o \in [Row -> Proc \cup {0}] :
           /\ \A q \in Proc : total'[q] = Cardinality({r \in Row : o[r] = q})
           /\ \A r \in Row : o[r] \in Proc => written'[r] = 1
           /\ \A r \in Row : written'[r] = 1 /\ o[r] = 0 => Troubled'
    BY <2>2, <2>7, <2>8, <2>10
  <2> QED
    BY <2>11 DEF CountInv, Counts
<1> QED
  BY <1>4, <1>11, <1>14, <1>16, <1>17, <1>18 DEF LoadInv

(* A write that fails lands now, or is left to land later.                 *)
LEMMA WorkerErrorStep == ASSUME LoadInv, PoolInv', NEW p \in Proc, WorkerError(p) PROVE LoadInv'
<1> DEFINE m == page[p]
<1>1. /\ child[p] = "running" /\ wpc[p] = "page" /\ At(p, "page") /\ Goto(p, "fail")
      /\ UNCHANGED <<vars, dataQ, ackQ, sourceVars, page, total, callerVars>>
  BY DEF WorkerError, At
<1>2. /\ wpc' \in [Proc -> Stages] /\ wpc'[p] = "fail"
      /\ \A q \in Proc : q # p => wpc'[q] = wpc[q]
  BY <1>1, Went DEF LoadInv, Stages
<1>3. /\ UNCHANGED <<dataQ, ackQ, spc, start, page, total, verdict, reported, child>>
      /\ UNCHANGED <<vars, verdict, reported>>
  BY <1>1 DEF sourceVars, callerVars, vars, childVars
<1>4. PlaceInv' /\ ReturnInv'
  BY <1>1, <1>2, <1>3, WorkerQuiet
<1>5. ~At(p, "page")' /\ \A q \in Proc : q # p => (At(q, "page")' <=> At(q, "page"))
  BY <1>2, <1>3 DEF At
<1>6. /\ m \in Nat /\ Outstanding(m)
      /\ \A n \in Nat : /\ AtWork(n)' <=> AtWork(n) /\ n # m
                        /\ InQueue(n)' <=> InQueue(n)
      /\ ~InQueue(m) /\ AtWork(m) /\ m \notin late
      /\ \A q, u \in Proc : At(q, "page")' /\ At(u, "page")' /\ page'[q] = page'[u] => q = u
  BY <1>1, <1>3, <1>5, PageLeft
<1>7. \A q \in Proc : /\ wpc[q] \in {"return", "raise", "fail"} => wpc'[q] = wpc[q]
                      /\ wpc'[q] = "return" => wpc[q] = "return"
                      /\ wpc[q] = "page" /\ child[q] = "dead" => wpc'[q] = "page"
  BY <1>1, <1>2
<1>8. EndingInv'
  BY <1>3, <1>7, EndingKept
<1>9. Troubled'
  BY <1>2 DEF Troubled
<1>10. CASE Land(PageRows(m)) /\ late' = late
  <2>1. /\ written' \in [Row -> Nat]
        /\ \A r \in Row : written'[r] = IF r \in PageRows(m) THEN 1 ELSE written[r]
    BY <1>6, <1>10, Landing DEF LoadInv
  <2> HIDE DEF m
  <2>2. LoadType'
    BY <1>2, <1>3, <1>10, <2>1 DEF LoadInv, LoadType, Stages
  <2>3. \A n \in Nat : Outstanding(n)' <=> Outstanding(n) /\ n # m
    BY <1>6, <1>10 DEF Outstanding
  <2>4. InOnePlace'
    BY <1>3, <1>6, <1>10 DEF LoadInv, PageInv, InOnePlace
  <2>5. PageInv' /\ CoverInv'
    BY <1>3, <1>6, <2>1, <2>2, <2>3, <2>4, PageLanded
  <2>6. LateInv'
    BY <1>3, <1>7, <1>10 DEF LoadInv, LateInv
  <2>7. CountInv'
    BY <1>3, <1>9, <2>1 DEF LoadInv, CountInv, Counts
  <2> QED
    BY <1>4, <1>8, <2>2, <2>5, <2>6, <2>7 DEF LoadInv
<1>11. CASE late' = late \cup {m} /\ written' = written
  <2>1. LateInv'
    <3>1. page'[p] = m /\ wpc'[p] = "fail"
      BY <1>2, <1>3
    <3>2. \A n \in late : \E q \in Proc :
            page'[q] = n /\ (wpc'[q] \in {"fail", "raise"} \/ (wpc'[q] = "page" /\ child'[q] = "dead"))
      BY <1>3, <1>7 DEF LoadInv, LateInv
    <3> HIDE DEF m
    <3> QED
      BY <1>11, <3>1, <3>2 DEF LateInv
  <2> HIDE DEF m
  <2>2. LoadType'
    BY <1>2, <1>3, <1>6, <1>11 DEF LoadInv, LoadType, Stages
  <2>3. \A n \in Nat : Outstanding(n)' <=> Outstanding(n)
    BY <1>6, <1>11 DEF Outstanding
  <2>4. InOnePlace'
    BY <1>3, <1>6, <1>11 DEF LoadInv, PageInv, InOnePlace
  <2>5. Frontier' = Frontier
    BY <1>3 DEF Frontier
  <2>6. PageInv'
    BY <1>3, <1>11, <2>3, <2>4, <2>5 DEF LoadInv, PageInv, Apart, WrittenOnce
  <2>7. CoverInv'
    BY <1>3, <1>11, <2>3 DEF LoadInv, CoverInv
  <2>8. CountInv'
    BY <1>3, <1>9, <1>11 DEF LoadInv, CountInv, Counts
  <2> QED
    BY <1>4, <1>8, <2>1, <2>2, <2>6, <2>7, <2>8 DEF LoadInv
<1> QED
  BY <1>10, <1>11 DEF WorkerError

LEMMA LateWriteStep == ASSUME LoadInv, PoolInv', NEW m \in late, LateWrite(m) PROVE LoadInv'
<1>1. /\ Land(PageRows(m)) /\ late' = late \ {m}
      /\ UNCHANGED <<vars, dataQ, ackQ, sourceVars, wpc, page, total, callerVars>>
  BY DEF LateWrite
<1>2. UNCHANGED <<pc, hand, record, results, child, crashes, dataQ, ackQ, spc, start, wpc, page, total,
                  verdict, reported>>
  BY <1>1 DEF sourceVars, callerVars, vars, parentVars, childVars, queueVars
<1>3. PlaceInv' /\ ReturnInv'
  BY <1>2 DEF LoadInv, PlaceInv, EndsWith, ReturnInv, Over
<1>4. m \in Nat /\ Outstanding(m) /\ ~InQueue(m) /\ ~AtWork(m)
  BY DEF Outstanding, LoadInv, LoadType, PageInv, InOnePlace
<1>5. /\ written' \in [Row -> Nat]
      /\ \A r \in Row : written'[r] = IF r \in PageRows(m) THEN 1 ELSE written[r]
  BY <1>1, <1>4, Landing DEF LoadInv
<1>6. LoadType'
  BY <1>1, <1>2, <1>5 DEF LoadInv, LoadType
<1>7. \A n \in Nat : (AtWork(n)' <=> AtWork(n)) /\ (InQueue(n)' <=> InQueue(n))
  BY <1>2 DEF AtWork, At, InQueue
<1>8. \A n \in Nat : Outstanding(n)' <=> Outstanding(n) /\ n # m
  BY <1>1, <1>4, <1>7 DEF Outstanding
<1>9. InOnePlace'
  BY <1>1, <1>2, <1>7 DEF LoadInv, PageInv, InOnePlace, At
<1>10. PageInv' /\ CoverInv'
  BY <1>2, <1>4, <1>5, <1>6, <1>8, <1>9, PageLanded
<1>11. EndingInv'
  BY <1>2, EndingKept
<1>12. LateInv'
  BY <1>1, <1>2 DEF LoadInv, LateInv
<1>13. Troubled'
  BY <1>2 DEF LoadInv, LateInv, Troubled
<1>14. CountInv'
  BY <1>2, <1>5, <1>13 DEF LoadInv, CountInv, Counts
<1> QED
  BY <1>3, <1>6, <1>10, <1>11, <1>12, <1>14 DEF LoadInv

LEMMA WorkerDiesStep == ASSUME LoadInv, PoolInv', NEW p \in Proc, WorkerDies(p) PROVE LoadInv'
<1>1. /\ child[p] \in {"waiting", "running", "exiting"}
      /\ child' = [child EXCEPT ![p] = "dead"] /\ crashes' \in {crashes, crashes + 1}
      /\ UNCHANGED <<pc, idx, hand, marked, record, results, signalled>>
      /\ UNCHANGED <<dataQ, ackQ, sourceVars, wpc, page, total, written, callerVars>>
  BY DEF WorkerDies, Crash, Killed, Alive, parentVars, queueVars
<1>2. /\ child'[p] = "dead" /\ \A q \in Proc : q # p => child'[q] = child[q]
      /\ crashes > 0 => crashes' > 0
  BY <1>1, CrashAssumption DEF LoadInv, PoolInv, TypeOK
<1>3. UNCHANGED <<dataQ, ackQ, spc, start, wpc, page, total, written, verdict, reported>>
  BY <1>1 DEF sourceVars, callerVars
<1>4. ReturnInv'
  BY <1>1, <1>2, <1>3, ReturnKept DEF LoadInv, Over, ReturnInv
<1>5. PlaceInv'
  BY <1>1, <1>2, <1>3 DEF LoadInv, PlaceInv, EndsWith
<1>6. ~At(p, "page")' /\ \A q \in Proc : q # p => (At(q, "page")' <=> At(q, "page"))
  BY <1>2, <1>3 DEF At
<1>7. EndingInv'
  BY <1>3, EndingKept
<1>8. \A q \in Proc : child[q] = "dead" => child'[q] = "dead"
  BY <1>2
<1>9. CountInv'
  <2>1. Troubled => Troubled'
    BY <1>3, <1>8 DEF Troubled
  <2> QED
    BY <1>3, <2>1 DEF LoadInv, CountInv, Counts
<1>10. CASE ~At(p, "page")
  <2>1. late' = late
    BY <1>10 DEF WorkerDies
  <2>2. UNCHANGED loadVars
    BY <1>1, <2>1 DEF loadVars, workerVars
  <2> QED
    BY <1>4, <1>5, <1>6, <1>8, <1>10, <2>2, LoadStill
<1>11. CASE At(p, "page")
  <2> DEFINE m == page[p]
  <2>1. late' = late \cup {m}
    BY <1>11 DEF WorkerDies
  <2>2. /\ m \in Nat /\ Outstanding(m)
        /\ \A n \in Nat : /\ AtWork(n)' <=> AtWork(n) /\ n # m
                          /\ InQueue(n)' <=> InQueue(n)
        /\ ~InQueue(m) /\ AtWork(m) /\ m \notin late
        /\ \A q, u \in Proc : At(q, "page")' /\ At(u, "page")' /\ page'[q] = page'[u] => q = u
    BY <1>3, <1>6, <1>11, PageLeft
  <2>3. LateInv'
    <3>1. page'[p] = m /\ wpc'[p] = "page" /\ child'[p] = "dead"
      BY <1>2, <1>3, <1>11 DEF At
    <3>2. \A n \in late : \E q \in Proc :
            page'[q] = n /\ (wpc'[q] \in {"fail", "raise"} \/ (wpc'[q] = "page" /\ child'[q] = "dead"))
      BY <1>3, <1>8 DEF LoadInv, LateInv
    <3> HIDE DEF m
    <3> QED
      BY <2>1, <3>1, <3>2 DEF LateInv
  <2> HIDE DEF m
  <2>4. LoadType'
    BY <1>3, <2>1, <2>2 DEF LoadInv, LoadType
  <2>5. \A n \in Nat : Outstanding(n)' <=> Outstanding(n)
    BY <2>1, <2>2 DEF Outstanding
  <2>6. InOnePlace'
    BY <1>3, <2>1, <2>2 DEF LoadInv, PageInv, InOnePlace
  <2>7. Frontier' = Frontier
    BY <1>3 DEF Frontier
  <2>8. PageInv'
    BY <1>3, <2>5, <2>6, <2>7 DEF LoadInv, PageInv, Apart, WrittenOnce
  <2>9. CoverInv'
    BY <1>3, <2>5 DEF LoadInv, CoverInv
  <2> QED
    BY <1>4, <1>5, <1>7, <1>9, <2>3, <2>4, <2>8, <2>9 DEF LoadInv
<1> QED
  BY <1>10, <1>11

-----------------------------------------------------------------------------
(* The verdict.                                                            *)

Accounted(o) == {r \in Row : o[r] \in Proc /\ record[o[r]].state = Finished}

(* The sum over the records is the number of rows their owners wrote.      *)
LEMMA SumIsCount ==
  ASSUME LoadInv, NEW o \in [Row -> Proc \cup {0}], Counts(o)
  PROVE  MapThenSumSet(Rows, Proc) = Cardinality(Accounted(o))
<1> DEFINE In(s) == {r \in Row : o[r] \in s /\ record[o[r]].state = Finished}
           count == [s \in SUBSET Proc |-> Cardinality(In(s))]
<1>1. \A s : In(s) \in SUBSET Row
  OBVIOUS
<1>2. count \in [SUBSET Proc -> Nat]
  <2> HIDE DEF In
  <2> QED
    BY <1>1, RowsFinite
<1>3. count[{}] = 0
  <2>1. In({}) = {} /\ {} \in SUBSET Proc
    OBVIOUS
  <2> HIDE DEF In
  <2> QED
    BY <2>1, FS_EmptySet
<1>4. ASSUME NEW s \in SUBSET Proc, NEW x \in s
      PROVE  count[s] = Rows(x) + count[s \ {x}]
  <2> DEFINE of == {r \in Row : o[r] = x}
             rest == In(s \ {x})
  <2>1. /\ of \in SUBSET Row /\ rest \in SUBSET Row /\ x \in Proc
        /\ s \ {x} \in SUBSET Proc
    OBVIOUS
  <2>2. /\ IsFiniteSet(of) /\ IsFiniteSet(rest)
        /\ Cardinality(of) \in Nat /\ Cardinality(rest) \in Nat
    <3> HIDE DEF of, rest
    <3> QED
      BY <2>1, RowsFinite
  <2>3. total[x] = Cardinality(of)
    BY <2>1 DEF Counts
  <2>4. CASE record[x].state = Finished
    <3>1. In(s) = of \cup rest /\ of \cap rest = {}
      BY <2>4
    <3>2. Rows(x) = Cardinality(of)
      BY <2>3, <2>4 DEF Rows
    <3> HIDE DEF of, rest
    <3>3. Cardinality(of \cup rest) = Cardinality(of) + Cardinality(rest) - Cardinality({})
      BY <2>2, <3>1, FS_Union
    <3>4. Cardinality(of \cup rest) = Rows(x) + Cardinality(rest)
      BY <2>2, <3>2, <3>3, FS_EmptySet
    <3>5. count[s] = Cardinality(of \cup rest) /\ count[s \ {x}] = Cardinality(rest)
      <4> HIDE DEF In
      <4> QED
        BY <2>1, <3>1 DEF rest
    <3> HIDE DEF count
    <3> QED
      BY <3>4, <3>5
  <2>5. CASE record[x].state # Finished
    <3>1. In(s) = rest
      BY <2>5
    <3>2. Rows(x) = 0
      BY <2>5 DEF Rows
    <3>3. count[s] = Cardinality(rest) /\ count[s \ {x}] = Cardinality(rest)
      <4> HIDE DEF In
      <4> QED
        BY <2>1, <3>1
    <3> HIDE DEF count, rest
    <3> QED
      BY <2>2, <3>2, <3>3
  <2> QED
    BY <2>4, <2>5
<1>5. count[Proc] = Cardinality(Accounted(o))
  BY DEF Accounted
<1> HIDE DEF count
<1> QED
  BY <1>2, <1>3, <1>4, <1>5, SumOfRows

(* Nobody failed: the source came to its end and no page is left but those *)
(* of children that crashed.                                               *)
LEMMA AllSeen ==
  ASSUME LoadInv, pc \in {"returned", "dispose", "gone"},
         \A p \in Proc : Over(p) /\ record[p].state # Errored,
         \A p \in Proc : record[p] = NoReport => wpc[p] \notin {"fail", "raise"}
  PROVE  /\ \A p \in Proc : record[p] # NoReport => wpc[p] = "return" /\ record[p].state = Finished
         /\ \A p \in Proc : wpc[p] \notin {"fail", "raise"}
         /\ \A r \in Row : written[r] = 1 \/
              \E p \in Proc : record[p] = NoReport /\ wpc[p] = "page" /\ r \in PageRows(page[p])
<1>1. \A p \in Proc : record[p] # NoReport => wpc[p] = "return" /\ record[p].state = Finished
  <2>1. \A p \in Proc : record[p] # NoReport => record[p] \in Report /\ record[p].id = p
    BY DEF LoadInv, PoolInv, TypeOK, ReportInv
  <2>2. \A p \in Proc : record[p] # NoReport => record[p].state = Finished
    BY <2>1 DEF Report
  <2> QED
    BY <2>1, <2>2 DEF LoadInv, PlaceInv, EndsWith
<1>2. \A p \in Proc : wpc[p] \notin {"fail", "raise"}
  BY <1>1
<1>3. ~Raised
  BY <1>2 DEF Raised
<1>4. \E p \in Proc : wpc[p] = "return"
  BY <1>1 DEF LoadInv, PlaceInv
<1>5. DataCount <= start /\ \A i \in DOMAIN dataQ : dataQ[i].kind # "page"
  BY <1>3, <1>4 DEF LoadInv, EndingInv, Finishing
<1>6. \A n \in Nat : Outstanding(n) => n \in late
  BY <1>5 DEF Outstanding, InQueue, AtWork, At, Over
<1>7. ASSUME NEW r \in Row, written[r] # 1
      PROVE  \E p \in Proc : record[p] = NoReport /\ wpc[p] = "page" /\ r \in PageRows(page[p])
  <2>1. r < start
    <3>1. r < DataCount /\ r \in Nat /\ start \in Nat /\ DataCount \in Nat
      BY RowFacts DEF LoadInv, LoadType
    <3> QED
      BY <1>5, <3>1
  <2>2. PICK n \in Nat : n \in late /\ r \in PageRows(n)
    BY <1>6, <1>7, <2>1 DEF LoadInv, CoverInv
  <2>3. PICK p \in Proc : page[p] = n /\ wpc[p] \in {"fail", "raise", "page"}
    BY <2>2 DEF LoadInv, LateInv
  <2> QED
    BY <1>1, <1>2, <2>2, <2>3
<1> QED
  BY <1>1, <1>2, <1>7

LEMMA SumResultsStep == ASSUME LoadInv, PoolInv', SumResults PROVE LoadInv'
<1>1. /\ pc = "returned" /\ verdict = "none" /\ reported = 0
      /\ UNCHANGED <<pc, hand, record, results, child, crashes>>
      /\ UNCHANGED <<dataQ, ackQ, spc, start, wpc, page, total, late, written>>
  BY DEF SumResults, vars, parentVars, childVars, queueVars, sourceVars, workerVars, LoadInv, ReturnInv
<1>2. PICK o \in [Row -> Proc \cup {0}] : Counts(o)
  BY DEF LoadInv, CountInv
<1>3. MapThenSumSet(Rows, Proc) = Cardinality(Accounted(o))
  BY <1>2, SumIsCount
<1>4. Accounted(o) \in SUBSET Row /\ Cardinality(Accounted(o)) \in Nat
  <2>1. Accounted(o) \in SUBSET Row
    BY DEF Accounted
  <2> QED
    BY <2>1, RowsFinite
<1>5. \/ verdict' = "raised" /\ reported' = 0
      \/ /\ verdict' = "returned" /\ reported' = Cardinality(Accounted(o))
         /\ \A p \in Proc : record[p].state # Errored
  BY <1>3 DEF SumResults
<1>6. LoadType'
  BY <1>1, <1>4, <1>5 DEF LoadInv, LoadType
<1>7. PlaceInv'
  BY <1>1 DEF LoadInv, PlaceInv, EndsWith
<1>8. ASSUME verdict' = "returned"
      PROVE  /\ \A p \in Proc : Over(p) /\ record[p].state # Errored
             /\ \A p \in Proc : wpc[p] \notin {"return", "raise"} => crashes > 0
             /\ (\A p \in Proc : record[p] # NoReport) => reported' = DataCount
  <2>1. \A p \in Proc : record[p].state # Errored
    BY <1>5, <1>8
  <2>2. signalled = {}
    BY <1>1, <2>1 DEF LoadInv, PoolInv, MarkInv
  <2>3. \A p \in Proc : Over(p)
    BY <1>1, <2>2 DEF LoadInv, PoolInv, QuietOnReturn, Over
  <2>4. ASSUME NEW p \in Proc, wpc[p] \notin {"return", "raise"} PROVE crashes > 0
    <3>1. record[p] = NoReport
      BY <2>4 DEF LoadInv, PoolInv, ReportInv, PlaceInv, EndsWith
    <3>2. ~Queued(p)
      BY <2>4 DEF Queued, LoadInv, PlaceInv, EndsWith
    <3> QED
      BY <1>1, <2>2, <2>3, <3>1, <3>2 DEF LoadInv, PoolInv, AccountInv
  <2>5. ASSUME \A p \in Proc : record[p] # NoReport PROVE reported' = DataCount
    <3>1. /\ \A p \in Proc : wpc[p] = "return" /\ record[p].state = Finished
          /\ \A r \in Row : written[r] = 1
      BY <1>1, <2>1, <2>3, <2>5, AllSeen
    <3>2. ~Troubled
      BY <3>1 DEF Troubled
    <3>3. Accounted(o) = Row
      <4>1. \A r \in Row : o[r] # 0
        BY <1>2, <3>1, <3>2 DEF Counts
      <4> QED
        BY <3>1, <4>1 DEF Accounted
    <3>4. Cardinality(Row) = DataCount
      <4>1. DataCount - 1 \in Int /\ 0 \in Int /\ DataCount \in Nat
        BY LoadAssumption
      <4>2. Cardinality(0 .. DataCount - 1) =
              IF 0 > DataCount - 1 THEN 0 ELSE DataCount - 1 - 0 + 1
        BY <4>1, FS_Interval
      <4> QED
        BY <4>1, <4>2 DEF Row
    <3> QED
      BY <1>5, <1>8, <3>3, <3>4
  <2> QED
    BY <2>1, <2>3, <2>4, <2>5
<1>9. ReturnInv'
  BY <1>1, <1>5, <1>8 DEF ReturnInv, Over
<1>10. \A p \in Proc : At(p, "page")' <=> At(p, "page")
  BY <1>1 DEF At
<1>11. \A p \in Proc : child[p] = "dead" => child'[p] = "dead"
  BY <1>1
<1> QED
  BY <1>1, <1>6, <1>7, <1>9, <1>10, <1>11, PagesStill

-----------------------------------------------------------------------------
LEMMA InitLoad == OldInit => LoadInv
<1> SUFFICES ASSUME OldInit PROVE LoadInv
  OBVIOUS
<1>1. /\ dataQ = <<>> /\ ackQ = <<>> /\ spc = "new" /\ start = 0
      /\ wpc = [p \in Proc |-> "begin"] /\ page = [p \in Proc |-> 0] /\ total = [p \in Proc |-> 0]
      /\ late = {} /\ written = [r \in Row |-> 0] /\ verdict = "none" /\ reported = 0
  BY DEF OldInit
<1>2. Init
  BY DEF OldInit
<1>3. PoolInv
  BY <1>2, InitPool
<1>4. LoadType
  BY <1>1 DEF LoadType
<1>5. PlaceInv
  BY <1>1, <1>2 DEF Init, PlaceInv
<1>6. \A n \in Nat : ~InQueue(n) /\ ~AtWork(n) /\ ~Outstanding(n)
  BY <1>1 DEF InQueue, AtWork, At, Outstanding
<1>7. PageInv
  BY <1>1, <1>6 DEF PageInv, InOnePlace, Apart, WrittenOnce, At
<1>8. CoverInv
  <2>1. \A r \in Row : ~(r < 0)
    BY DEF Row
  <2> QED
    BY <1>1, <2>1 DEF CoverInv
<1>9. EndingInv /\ LateInv
  BY <1>1 DEF EndingInv, LateInv, Finishing
<1>10. CountInv
  <2> DEFINE o == [r \in Row |-> 0]
  <2>1. o \in [Row -> Proc \cup {0}]
    OBVIOUS
  <2>2. \A p \in Proc : {r \in Row : o[r] = p} = {}
    BY DEF Proc
  <2>3. \A p \in Proc : total[p] = Cardinality({r \in Row : o[r] = p})
    BY <1>1, <2>2, FS_EmptySet
  <2>4. \A r \in Row : o[r] \notin Proc /\ written[r] = 0
    BY <1>1 DEF Proc
  <2> HIDE DEF o
  <2>5. Counts(o)
    BY <2>3, <2>4 DEF Counts
  <2> QED
    BY <2>1, <2>5 DEF CountInv
<1>11. ReturnInv
  BY <1>1 DEF ReturnInv
<1> QED
  BY <1>3, <1>4, <1>5, <1>7, <1>8, <1>9, <1>10, <1>11 DEF LoadInv

LEMMA NextLoad == LoadInv /\ [OldNext]_allVars => LoadInv'
<1> SUFFICES ASSUME LoadInv, [OldNext]_allVars PROVE LoadInv'
  OBVIOUS
<1>1. PoolInv'
  BY OldPool DEF LoadInv
<1>2. CASE CallerNext
  BY <1>1, <1>2, SourceStay, PoolStepStep, SumResultsStep DEF CallerNext
<1>3. CASE SourceNext \/ SourceVanish \/ SourceCrash
  BY <1>1, <1>3, SourceStay, SourcePutStep, SourceAwaitStep, SourceEndStep DEF SourceNext
<1>4. ASSUME NEW p \in Proc, WorkerNext(p) \/ WorkerDies(p) PROVE LoadInv'
  BY <1>1, <1>4, TakeExitStep, WorkerGoesOn, WorkerGetStep, WorkerWriteStep, WorkerErrorStep,
    WorkerEndStep, WorkerDiesStep DEF WorkerNext
<1>5. ASSUME NEW n \in late, LateWrite(n) PROVE LoadInv'
  BY <1>1, <1>5, LateWriteStep
<1>6. ASSUME UNCHANGED allVars PROVE LoadInv'
  <2>1. UNCHANGED loadVars /\ UNCHANGED <<pc, hand, results, record, child, crashes>>
    BY <1>6 DEF allVars, vars, parentVars, childVars, queueVars
  <2>2. UNCHANGED <<wpc, verdict, reported>>
    BY <2>1 DEF loadVars, workerVars, callerVars
  <2>3. PlaceInv' /\ ReturnInv'
    BY <2>1, <2>2 DEF LoadInv, PlaceInv, EndsWith, ReturnInv, Over
  <2>4. \A p \in Proc : (At(p, "page")' <=> At(p, "page")) /\ child'[p] = child[p]
    BY <2>1, <2>2 DEF At
  <2> QED
    BY <1>1, <2>1, <2>3, <2>4, LoadStill
<1> QED
  BY <1>2, <1>3, <1>4, <1>5, <1>6 DEF OldNext

LEMMA LoadInvariance == OldSpec => []LoadInv
  BY InitLoad, NextLoad, PTL DEF OldSpec

(* A load that returned has written every row but those a crash explains,  *)
(* and reports their number, unless it did not see a failure: the loop     *)
(* over the records in ParallelIntegrationExecute, for every number of     *)
(* children, page size, row count and number of crashes.                   *)
THEOREM OldReturnIsExplained == OldSpec => []ReturnIsExplained
<1>1. LoadInv => ReturnIsExplained
  <2> SUFFICES ASSUME LoadInv, verdict = "returned", ~ \E p \in Proc : FailedUnseen(p)
               PROVE  /\ \A r \in Row : written[r] = 1 \/ CrashedWith(r)
                      /\ (\A p \in Proc : record[p] # NoReport) => reported = DataCount
    BY DEF ReturnIsExplained
  <2>1. /\ pc \in {"returned", "dispose", "gone"}
        /\ \A p \in Proc : Over(p) /\ record[p].state # Errored
        /\ \A p \in Proc : wpc[p] \notin {"return", "raise"} => crashes > 0
        /\ (\A p \in Proc : record[p] # NoReport) => reported = DataCount
    BY DEF LoadInv, ReturnInv
  <2>2. \A p \in Proc : record[p] = NoReport => wpc[p] \notin {"fail", "raise"}
    BY DEF FailedUnseen
  <2>3. \A r \in Row : written[r] = 1 \/
          \E p \in Proc : record[p] = NoReport /\ wpc[p] = "page" /\ r \in PageRows(page[p])
    BY <2>1, <2>2, AllSeen
  <2>4. \A r \in Row : written[r] = 1 \/ CrashedWith(r)
    BY <2>1, <2>3 DEF CrashedWith
  <2> QED
    BY <2>1, <2>4
<1> QED
  BY <1>1, LoadInvariance, PTL

-----------------------------------------------------------------------------
(* The load implements BulkLoad, whose Cardinality counts as this module's.*)

LEMMA BulkCardinality == \A S : Bulk!Cardinality(S) = Cardinality(S)
  BY Zenon DEF Cardinality, Bulk!Cardinality

(* A page that lands is a batch of BulkLoad.                               *)
LEMMA LandBatch ==
  ASSUME LoadInv, NEW m \in Nat, Outstanding(m), Land(PageRows(m)), UNCHANGED <<verdict, reported>>
  PROVE  Bulk!Next
<1> DEFINE rows == PageRows(m)
<1>1. rows \in SUBSET Row
  BY RowFacts
<1>2. \A r \in rows : written[r] = 0
  BY DEF LoadInv, PageInv, WrittenOnce
<1>3. rows \cap Bulk!Landed = {}
  BY <1>2 DEF Bulk!Landed
<1>4. written' = [r \in Row |-> IF r \in rows THEN written[r] + 1 ELSE written[r]]
  BY DEF Land
<1>5. \A r \in Row : (IF r \in rows THEN written[r] + 1 ELSE written[r])
                       = (IF r \in rows THEN 1 ELSE written[r])
  BY <1>2
<1> HIDE DEF rows
<1>6. written' = [r \in Row |-> IF r \in rows THEN 1 ELSE written[r]]
  BY <1>4, <1>5
<1>7. Bulk!Land(rows)
  BY <1>3, <1>6 DEF Bulk!Land
<1> QED
  BY <1>1, <1>7 DEF Bulk!Next

LEMMA StepBulk == LoadInv /\ [OldNext]_allVars => [Bulk!Next]_(Bulk!vars)
<1> SUFFICES ASSUME LoadInv, [OldNext]_allVars PROVE [Bulk!Next]_(Bulk!vars)
  OBVIOUS
<1>1. ASSUME UNCHANGED <<written, verdict, reported>> PROVE [Bulk!Next]_(Bulk!vars)
  BY <1>1 DEF Bulk!vars
<1>2. (StartSource \/ PoolStep \/ DropPool) => UNCHANGED <<written, verdict, reported>>
  BY DEF StartSource, PoolStep, DropPool, loadVars, workerVars, callerVars
<1>3. (SourceNext \/ SourceVanish \/ SourceCrash) => UNCHANGED <<written, verdict, reported>>
  BY DEF SourceNext, SourceCount, SourcePut, SourceAwait, SourceEnd, SourceCutOff, SourceVanish,
    SourceCrash, workerVars, callerVars
<1>4. ASSUME NEW p \in Proc, WorkerNext(p) \/ WorkerDies(p) PROVE [Bulk!Next]_(Bulk!vars)
  <2>1. CASE WorkerWrite(p) \/ (WorkerError(p) /\ written' # written)
    <3>1. At(p, "page") /\ Land(PageRows(page[p])) /\ UNCHANGED <<verdict, reported>>
      BY <2>1 DEF WorkerWrite, WorkerError, callerVars
    <3>2. page[p] \in Nat /\ Outstanding(page[p])
      BY <3>1 DEF LoadInv, LoadType, Outstanding, AtWork
    <3> QED
      BY <3>1, <3>2, LandBatch
  <2>2. CASE ~WorkerWrite(p) /\ ~(WorkerError(p) /\ written' # written)
    <3>1. UNCHANGED <<written, verdict, reported>>
      BY <1>4, <2>2 DEF WorkerNext, WorkerBegin, WorkerGet, WorkerError, WorkerAnswer, WorkerCutOff,
        WorkerEnd, WorkerDies, loadVars, workerVars, callerVars
    <3> QED
      BY <1>1, <3>1
  <2> QED
    BY <2>1, <2>2
<1>5. ASSUME NEW n \in late, LateWrite(n) PROVE [Bulk!Next]_(Bulk!vars)
  <2>1. n \in Nat /\ Outstanding(n) /\ Land(PageRows(n)) /\ UNCHANGED <<verdict, reported>>
    BY <1>5 DEF LateWrite, LoadInv, LoadType, Outstanding, callerVars
  <2> QED
    BY <2>1, LandBatch
<1>6. CASE SumResults
  <2>1. verdict = "none" /\ reported = 0 /\ written' = written
    BY <1>6 DEF SumResults, workerVars, LoadInv, ReturnInv
  <2>2. CASE verdict' = "raised"
    <3>1. reported' = 0
      BY <1>6, <2>2 DEF SumResults
    <3> QED
      BY <2>1, <2>2, <3>1 DEF Bulk!Next, Bulk!Raise
  <2>3. CASE verdict' # "raised"
    <3>1. PICK o \in [Row -> Proc \cup {0}] : Counts(o)
      BY DEF LoadInv, CountInv
    <3>2. verdict' = "returned" /\ reported' = MapThenSumSet(Rows, Proc)
      BY <1>6, <2>3 DEF SumResults
    <3>3. reported' = Cardinality(Accounted(o))
      BY <3>1, <3>2, SumIsCount
    <3>4. Accounted(o) \subseteq Bulk!Landed /\ Bulk!Landed \subseteq Row
      BY <3>1 DEF Accounted, Counts, Bulk!Landed
    <3>5. /\ Cardinality(Accounted(o)) \in Nat /\ Cardinality(Row) \in Nat
          /\ Cardinality(Bulk!Landed) \in Nat
          /\ Cardinality(Accounted(o)) <= Cardinality(Bulk!Landed)
          /\ Cardinality(Accounted(o)) <= Cardinality(Row)
      BY <3>4, RowsFinite, FS_Subset
    <3> DEFINE n == Cardinality(Accounted(o))
    <3>6. n \in 0 .. Cardinality(Row) /\ n <= Cardinality(Bulk!Landed)
      BY <3>5
    <3> HIDE DEF n
    <3>7. Bulk!Return(n)
      BY <2>1, <3>2, <3>3, <3>6, BulkCardinality, Zenon DEF Bulk!Return, n
    <3> QED
      BY <3>6, <3>7, BulkCardinality, Zenon DEF Bulk!Next
  <2> QED
    BY <2>2, <2>3
<1>7. UNCHANGED allVars => UNCHANGED <<written, verdict, reported>>
  BY DEF allVars, loadVars, workerVars, callerVars
<1> QED
  BY <1>1, <1>2, <1>3, <1>4, <1>5, <1>6, <1>7 DEF OldNext, CallerNext

(* Every load of the old strategy is one BulkLoad allows, for every number *)
(* of children and crashes: no row is written twice, whatever is killed or *)
(* lands late, and the row count returned is backed by rows.               *)
THEOREM OldImplementsBulkLoad == OldSpec => BulkSpec
<1>1. OldInit => Bulk!Init
  BY DEF OldInit, Bulk!Init
<1> QED
  BY <1>1, StepBulk, LoadInvariance, PTL DEF OldSpec, BulkSpec, Bulk!Spec
=============================================================================
