--------------------------- MODULE SingleProcess ---------------------------
(***************************************************************************)
(* SingleProcessIntegrationExecute over a SqlIterator: the caller fetches  *)
(* the source's result set page by page from one cursor and writes each    *)
(* page to the target before it fetches the next.  A page that takes too   *)
(* long is given up, but the thread that writes it goes on for a while.    *)
(***************************************************************************)
EXTENDS Naturals, FiniteSets

CONSTANTS
  MaxSize,   \* how many rows the result set has at most (bound)
  Limits,    \* values of OperationIntegrationBase.Limit, None among them
  None,      \* no value
  MayFail    \* can drivers, adapters and the publisher raise, a write time out?

ASSUME SizeAssumption  == MaxSize \in Nat
ASSUME LimitAssumption == Limits \subseteq Nat \cup {None} /\ None \notin Nat
ASSUME FaultAssumption == MayFail \in BOOLEAN

VARIABLES
  size,      \* rows of the result set
  limit,     \* operation_integration.Limit
  pc,        \* where execute is
  cursor,    \* cursor of the source connector: "none", "open" or "closed"
  finished,  \* SqlIterator.is_finished
  offset,    \* SqlIterator.offset: rows fetched
  page,      \* the rows in results
  late,      \* rows of a write that timed out and may still land
  written,   \* how many copies of each source row the target holds
  count,     \* data_count
  verdict,   \* how execute ends: "none", "returned" or "raised"
  reported   \* what it returns

sourceVars == <<cursor, finished, offset, page>>
targetVars == <<late, written>>
resultVars == <<verdict, reported>>
vars == <<size, limit, pc, sourceVars, targetVars, count, resultVars>>

Row == 0 .. MaxSize - 1

Init ==
  /\ size \in 0 .. MaxSize /\ limit \in Limits
  /\ pc = "adapters"
  /\ cursor = "none" /\ finished = FALSE /\ offset = 0 /\ page = {}
  /\ late = {} /\ written = [r \in Row |-> 0]
  /\ count = 0 /\ verdict = "none" /\ reported = 0

GoOn(place) == pc' = place /\ UNCHANGED resultVars
Fail == GoOn("handle")

Return(n) == pc' = "done" /\ verdict' = "returned" /\ reported' = n
Raise == pc' = "done" /\ verdict' = "raised" /\ UNCHANGED reported

-----------------------------------------------------------------------------
(* The caller.                                                             *)

(* The adapters are looked up and the iterator is made: nothing is opened. *)
GetIterator ==
  /\ pc = "adapters"
  /\ GoOn("fetch") \/ (MayFail /\ Fail)
  /\ UNCHANGED <<size, limit, sourceVars, targetVars, count>>

(* A mistake: a cursor that was closed is opened again.                    *)
OpenCursorAgain ==
  /\ pc = "fetch" /\ cursor # "open"
  /\ \/ cursor' = "open" /\ GoOn("fetch")
     \/ MayFail /\ cursor' \in {"none", "open"} /\ Fail
  /\ finished' = FALSE
  /\ UNCHANGED <<size, limit, offset, page, targetVars, count>>

(* SqlIterator._initialize: a connector without a cursor is connected and  *)
(* the query executed.  It may raise before it has a cursor or after.      *)
OpenCursor ==
  /\ pc = "fetch" /\ cursor = "none"
  /\ \/ cursor' = "open" /\ GoOn("fetch")
     \/ MayFail /\ cursor' \in {"none", "open"} /\ Fail
  /\ finished' = FALSE
  /\ UNCHANGED <<size, limit, offset, page, targetVars, count>>

Chunked == limit \in Nat \ {0}

NextRows == {r \in Row : offset <= r /\ r < size /\ (Chunked => r < offset + limit)}

(* fetchmany gives a page, or fetchall everything, be it nothing.          *)
FetchPage ==
  /\ pc = "fetch" /\ cursor = "open" /\ ~finished
  /\ ~Chunked \/ NextRows # {}
  /\ page' = NextRows
  /\ offset' = offset + Cardinality(NextRows)
  /\ IF Chunked THEN UNCHANGED <<cursor, finished>> ELSE cursor' = "closed" /\ finished' = TRUE
  /\ GoOn("write")
  /\ UNCHANGED <<size, limit, targetVars, count>>

FetchFails ==
  /\ MayFail /\ pc = "fetch" /\ cursor = "open" /\ ~finished
  /\ Fail
  /\ UNCHANGED <<size, limit, sourceVars, targetVars, count>>

(* A mistake: a page that is not full is taken for the end.                *)
StopEarly ==
  /\ pc = "fetch" /\ cursor # "none"
  /\ finished \/ (Chunked /\ Cardinality(NextRows) < limit)
  /\ cursor' = "closed" /\ finished' = TRUE
  /\ Return(count)
  /\ UNCHANGED <<size, limit, offset, page, targetVars, count>>

(* StopIteration: fetchmany finds nothing more, or all was fetched before; *)
(* a cursor that was closed is not opened again.                           *)
Stop ==
  /\ pc = "fetch" /\ cursor # "none"
  /\ finished \/ (Chunked /\ NextRows = {})
  /\ cursor' = "closed" /\ finished' = TRUE
  /\ Return(count)
  /\ UNCHANGED <<size, limit, offset, page, targetVars, count>>

Land(rows) == written' = [r \in Row |-> IF r \in rows THEN written[r] + 1 ELSE written[r]]

WritePage ==
  /\ pc = "write"
  /\ Land(page)
  /\ GoOn("advance")
  /\ UNCHANGED <<size, limit, sourceVars, late, count>>

(* What the target may keep of rows whose write was cut short: the driver  *)
(* sends them in their order, and not every target undoes what it has.     *)
Kept(rows) == {{r \in rows : r < n} : n \in 0 .. MaxSize}

(* The log or the write raises.                                            *)
WriteFails ==
  /\ MayFail /\ pc = "write"
  /\ \E rows \in Kept(page) : Land(rows)
  /\ Fail
  /\ UNCHANGED <<size, limit, sourceVars, late, count>>

(* A mistake: the page is written once more.                               *)
WriteTimesOutAndRetries ==
  /\ MayFail /\ pc = "write"
  /\ late' = page
  /\ UNCHANGED <<size, limit, pc, sourceVars, written, count, resultVars>>

(* FunctionTimedOut is no Exception: the handler does not see it.          *)
WriteTimesOut ==
  /\ MayFail /\ pc = "write"
  /\ late' = page
  /\ Raise
  /\ UNCHANGED <<size, limit, sourceVars, written, count>>

(* The second log, the counter, and end += limit, which raises when there  *)
(* is no limit.                                                            *)
Advance ==
  /\ pc = "advance"
  /\ \/ /\ count' = count + Cardinality(page)
        /\ IF limit = None THEN Fail ELSE GoOn("fetch")
     \/ MayFail /\ Fail /\ UNCHANGED count
  /\ UNCHANGED <<size, limit, sourceVars, targetVars>>

(* A mistake: the page is tried again.                                     *)
HandleByRetry ==
  /\ pc = "handle"
  /\ GoOn(IF page = {} THEN "fetch" ELSE "write")
  /\ UNCHANGED <<size, limit, sourceVars, targetVars, count>>

(* The handler logs the exception and raises it again; a log that fails    *)
(* raises as well.                                                         *)
Handle ==
  /\ pc = "handle"
  /\ Raise
  /\ UNCHANGED <<size, limit, sourceVars, targetVars, count>>

CallerNext ==
  \/ GetIterator \/ OpenCursor \/ FetchPage \/ FetchFails \/ Stop
  \/ WritePage \/ WriteFails \/ WriteTimesOut \/ Advance
  \/ Handle

-----------------------------------------------------------------------------
(* The thread of a write that timed out gets on with it before it ends.    *)
LateWrite ==
  /\ late # {}
  /\ \E rows \in Kept(late) : Land(rows)
  /\ late' = {}
  /\ UNCHANGED <<size, limit, pc, sourceVars, count, resultVars>>

Next == CallerNext \/ LateWrite

Spec     == Init /\ [][Next]_vars
FairSpec == Spec /\ WF_vars(CallerNext)

-----------------------------------------------------------------------------
TypeOK ==
  /\ size \in 0 .. MaxSize /\ limit \in Limits
  /\ pc \in {"adapters", "fetch", "write", "advance", "handle", "done"}
  /\ cursor \in {"none", "open", "closed"} /\ finished \in BOOLEAN
  /\ offset \in 0 .. size /\ page \subseteq Row
  /\ late \subseteq Row /\ written \in [Row -> Nat]
  /\ count \in 0 .. size
  /\ verdict \in {"none", "returned", "raised"} /\ reported \in 0 .. size

(* Whatever fails, and wherever, the target holds the rows up to a point   *)
(* in the order of the result set, each once, and nothing that was fetched *)
(* is missing from it but rows of the last page.                           *)
LandedIsPrefix ==
  /\ \A r \in Row : written[r] <= 1
  /\ \A r, s \in Row : r < s /\ written[s] = 1 => written[r] = 1
  /\ \A r \in Row : written[r] = 1 \/ r \in page \/ offset <= r

(* A load that returns has written every row of the result set, reports    *)
(* their number and has let go of the source.                              *)
CompleteOnSuccess ==
  verdict = "returned" =>
    /\ \A r \in Row : written[r] = IF r < size THEN 1 ELSE 0
    /\ reported = size
    /\ cursor = "closed"

(* What it has counted was written, and that is all it has fetched but the *)
(* last page.                                                              *)
CountIsBacked ==
  /\ count <= Cardinality({r \in Row : written[r] = 1})
  /\ offset <= count + Cardinality(page)

Bulk == INSTANCE BulkLoad

(* The strategy keeps what BulkLoad promises of every load.                *)
BulkSpec == Bulk!Spec

(* execute ends, for every result set and limit.                           *)
Ends == <>(pc = "done")
=============================================================================
