--------------------------- MODULE DatabaseWrite ---------------------------
(***************************************************************************)
(* One call of execute_many or execute of a database context (SqlContext,  *)
(* BigDataContext and InMemoryContext have the same): a connection is      *)
(* opened for it, the rows are sent and committed by the connector, a      *)
(* batch that raised is sent again over a new connection, and the          *)
(* connection is closed whatever happened.  A driver call that raises may  *)
(* have done its work: the acknowledgement of a commit can be lost.        *)
(***************************************************************************)
EXTENDS Naturals

CONSTANTS
  Kinds,      \* which connectors: "plain" (PostgreSQL, MySQL, Oracle), "twice" (SQL
              \* Server), "autocommit" (Impala, ClickHouse), "silent" (SQLite)
  Operations, \* which operations: "execute_many", "execute"
  RowCount,   \* rows of the batch, or rows a single statement changes
  RetryCount, \* retry_count
  MayFail     \* can drivers raise, or the call be cut off by a timeout?

ASSUME KindAssumption ==
  /\ Kinds \subseteq {"plain", "twice", "autocommit", "silent"}
  /\ Operations \subseteq {"execute_many", "execute"}
ASSUME CountAssumption == RowCount \in Nat /\ RetryCount \in Nat
ASSUME FaultAssumption == MayFail \in BOOLEAN

VARIABLES
  kind, operation,
  pc,        \* where the call is
  retry,     \* the parameter retry of _execute_with_retry
  slow,      \* is the connector's second try, without fast_executemany, at work?
  link,      \* the connection in use: "none", "up" or "lost"
  pending,   \* how often each row was sent in its open transaction
  copies,    \* how often each row was committed
  stayed,    \* did rows of the try at work stay at the target?
  ghosts,    \* tries before it that raised although rows of theirs stayed
  refused,   \* did a connect raise?
  outcome    \* "none", "returned", "raised", or "cut" when a timeout hit the call

callVars == <<kind, operation>>
dataVars == <<link, pending, copies, stayed>>
vars == <<callVars, pc, retry, slow, dataVars, ghosts, refused, outcome>>

Row == 1 .. RowCount

Nothing == [r \in Row |-> 0]

Init ==
  /\ kind \in Kinds /\ operation \in Operations
  /\ pc = "connect" /\ retry = 1 /\ slow = FALSE
  /\ link = "none" /\ pending = Nothing
  /\ copies = Nothing /\ stayed = FALSE
  /\ ghosts = 0 /\ refused = FALSE /\ outcome = "none"

Leave(result) == pc' = "disconnect" /\ outcome' = result
GoOn(place) == pc' = place /\ UNCHANGED outcome

(* The driver has sent the first n rows: they join the transaction, or are *)
(* committed at once.                                                      *)
Sent(n) ==
  LET rows(f) == [r \in Row |-> IF r <= n THEN f[r] + 1 ELSE f[r]]
  IN  IF kind = "autocommit"
        THEN copies' = rows(copies) /\ stayed' = (stayed \/ n > 0) /\ UNCHANGED pending
        ELSE pending' = rows(pending) /\ UNCHANGED <<copies, stayed>>

(* The database has committed the transaction.                             *)
Committed ==
  /\ copies' = [r \in Row |-> copies[r] + pending[r]]
  /\ stayed' = (stayed \/ pending # Nothing)
  /\ pending' = Nothing

(* Its connection after a driver call raised: a file cannot be lost.       *)
Links == IF kind = "silent" THEN {"up"} ELSE {"up", "lost"}

-----------------------------------------------------------------------------
(* The decorator connect: the connection is opened before the call.        *)
Connect ==
  /\ pc = "connect"
  /\ \/ link' = "up" /\ GoOn("send") /\ UNCHANGED refused
     \/ MayFail /\ refused' = TRUE /\ Leave("raised") /\ UNCHANGED link
  /\ UNCHANGED <<callVars, retry, slow, pending, copies, stayed, ghosts>>

(* executemany of the cursor, or execute.                                  *)
Send ==
  /\ pc = "send"
  /\ Sent(RowCount)
  /\ GoOn("commit")
  /\ UNCHANGED <<callVars, retry, slow, link, ghosts, refused>>

(* It raises after some rows, and the connection may be lost.              *)
SendFails ==
  /\ MayFail /\ pc = "send"
  /\ link' \in Links
  /\ \E n \in 0 .. RowCount : Sent(n)
  /\ GoOn("undo")
  /\ UNCHANGED <<callVars, retry, slow, ghosts, refused>>

(* The commit succeeds and the affected row count is returned.             *)
Commit ==
  /\ pc = "commit"
  /\ Committed
  /\ Leave("returned")
  /\ UNCHANGED <<callVars, retry, slow, link, ghosts, refused>>

(* The commit raises, done or not.                                         *)
CommitFails ==
  /\ MayFail /\ pc = "commit"
  /\ link' \in Links
  /\ \/ UNCHANGED <<pending, copies, stayed>>
     \/ kind # "silent" /\ Committed
  /\ GoOn("undo")
  /\ UNCHANGED <<callVars, retry, slow, ghosts, refused>>

(* The try is over and nothing of it is undone that is committed.          *)
EndTry ==
  /\ ghosts' = ghosts + (IF stayed THEN 1 ELSE 0)
  /\ stayed' = FALSE

(* A mistake: connectors swallow the exception.                            *)
QuietAfterRollback ==
  IF kind \in {"twice", "autocommit"} /\ ~slow
    THEN GoOn("send") /\ slow' = TRUE
    ELSE Leave("returned") /\ UNCHANGED slow

(* Where an exception of the first try leads once it was rolled back.      *)
AfterRollback ==
  CASE kind \in {"twice", "autocommit"} /\ ~slow -> GoOn("send") /\ slow' = TRUE
    [] kind = "silent"                           -> Leave("returned") /\ UNCHANGED slow
    [] OTHER                                     -> GoOn("retry") /\ UNCHANGED slow

(* A mistake: the second try is made without giving up the first.          *)
UndoNothing ==
  /\ pc = "undo" /\ operation = "execute_many" /\ link = "up"
  /\ EndTry
  /\ AfterRollback
  /\ UNCHANGED <<callVars, retry, link, pending, copies, refused>>

(* The except branch of a connector's execute_many.                        *)
Undo ==
  /\ pc = "undo" /\ operation = "execute_many" /\ link = "up"
  /\ pending' = Nothing
  /\ EndTry
  /\ AfterRollback
  /\ UNCHANGED <<callVars, retry, link, copies, refused>>

(* The rollback raises: what is pending goes with the connection.          *)
UndoFails ==
  /\ MayFail /\ pc = "undo" /\ operation = "execute_many"
  /\ EndTry
  /\ GoOn("retry")
  /\ UNCHANGED <<callVars, retry, slow, link, pending, copies, refused>>

(* execute has no except branch.                                           *)
Propagate ==
  /\ pc = "undo" /\ operation = "execute"
  /\ EndTry
  /\ Leave("raised")
  /\ UNCHANGED <<callVars, retry, slow, link, pending, copies, refused>>

(* The except branch of _execute_with_retry: a new connection replaces the *)
(* old one, whose transaction is given up.                                 *)
Retry ==
  /\ pc = "retry" /\ retry <= RetryCount
  /\ \/ /\ link' = "up" /\ pending' = Nothing
        /\ retry' = retry + 1 /\ slow' = FALSE
        /\ GoOn("send")
        /\ UNCHANGED refused
     \/ /\ MayFail /\ refused' = TRUE
        /\ Leave("raised")
        /\ UNCHANGED <<link, pending, retry, slow>>
  /\ UNCHANGED <<callVars, copies, stayed, ghosts>>

(* A mistake: the last retry is not made.                                  *)
RetriesExhaustedEarly ==
  /\ pc = "retry" /\ retry >= RetryCount
  /\ Leave("raised")
  /\ UNCHANGED <<callVars, retry, slow, dataVars, ghosts, refused>>

RetriesExhausted ==
  /\ pc = "retry" /\ retry > RetryCount
  /\ Leave("raised")
  /\ UNCHANGED <<callVars, retry, slow, dataVars, ghosts, refused>>

(* FunctionTimedOut is raised in the thread between two steps; it is no    *)
(* Exception, so no except branch sees it.                                 *)
CutOff ==
  /\ MayFail /\ pc \notin {"disconnect", "done"}
  /\ Leave("cut")
  /\ UNCHANGED <<callVars, retry, slow, dataVars, ghosts, refused>>

(* The finally branch of the decorator; errors of it are ignored.          *)
Disconnect ==
  /\ pc = "disconnect"
  /\ link' = "none" /\ pending' = Nothing
  /\ GoOn("done")
  /\ UNCHANGED <<callVars, retry, slow, copies, stayed, ghosts, refused>>

Next ==
  \/ Connect \/ Send \/ SendFails \/ Commit \/ CommitFails
  \/ Undo \/ UndoFails \/ Propagate
  \/ Retry \/ RetriesExhausted
  \/ CutOff \/ Disconnect

Spec == Init /\ [][Next]_vars

-----------------------------------------------------------------------------
TypeOK ==
  /\ kind \in Kinds /\ operation \in Operations
  /\ pc \in {"connect", "send", "commit", "undo", "retry", "disconnect", "done"}
  /\ retry \in 1 .. RetryCount + 1 /\ slow \in BOOLEAN
  /\ link \in {"none", "up", "lost"}
  /\ pending \in [Row -> Nat]
  /\ copies \in [Row -> Nat] /\ stayed \in BOOLEAN
  /\ ghosts \in Nat /\ refused \in BOOLEAN
  /\ outcome \in {"none", "returned", "raised", "cut"}

(* How many tries left rows at the target.                                 *)
Landings == ghosts + (IF stayed THEN 1 ELSE 0)

(* A row is there once for each try that landed it: twice only if a try    *)
(* raised although rows of it stayed, because an acknowledgement was lost  *)
(* or the connection commits at once.  With transactions a try lands all   *)
(* rows or none, so that all are there equally often.                      *)
CopiesExplained ==
  \A r \in Row : /\ copies[r] <= Landings
                 /\ kind # "autocommit" => copies[r] = Landings

(* At most so many tries are made of a batch in one attempt.               *)
Tries == IF operation = "execute_many" /\ kind \in {"twice", "autocommit"} THEN 2 ELSE 1

(* Retries are limited, and with them the copies of a row.                 *)
CopiesBounded == \A r \in Row : copies[r] <= Tries * (RetryCount + 1)

(* A call that returns has committed every row, and just once if no try    *)
(* before has left any behind.  SqLiteConnector is not held to it.         *)
WrittenOnReturn ==
  outcome = "returned" /\ kind # "silent" =>
    \A r \in Row : copies[r] >= 1 /\ (ghosts = 0 => copies[r] = 1)

(* execute_many raises only when it cannot connect or has no retry left.   *)
RaisedIsExplained ==
  outcome = "raised" /\ operation = "execute_many" => refused \/ retry = RetryCount + 1
=============================================================================
