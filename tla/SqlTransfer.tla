---------------------------- MODULE SqlTransfer ----------------------------
(***************************************************************************)
(* What the source and target adapters do to the data of one transfer: the *)
(* statements their contexts and dialects make, the pages these return,    *)
(* and the columns the values of a row are written to.  Each call opens    *)
(* and closes a connection of its own, so that the calls share nothing but *)
(* the two tables, which other clients may change in between.  Retries of  *)
(* a write are DatabaseWrite; the loops around these calls are the ones of *)
(* the load strategies.                                                    *)
(***************************************************************************)
EXTENDS Integers, Sequences, FiniteSets

CONSTANTS
  Sizes,           \* how many rows a source may have
  Limit,           \* rows of a page
  MaxChanges,      \* how often other clients change a table
  StatementsRaise, \* can a statement raise for reasons of its own?
  None             \* Python's None

ASSUME SizeAssumption == Sizes \subseteq Nat /\ Limit \in Nat \ {0} /\ MaxChanges \in Nat
ASSUME RaiseAssumption == StatementsRaise \in BOOLEAN

-----------------------------------------------------------------------------
(* The dialects: how a page is cut out of a result, whether a query with   *)
(* ORDER BY is accepted as a derived table, whether paging needs one, what *)
(* CREATE TABLE with "DoNothing" becomes ("check": looks first), and       *)
(* whether INSERT ... VALUES() is a statement.                             *)
Dialect(paging, derivesOrdered, create, blankRows) ==
  [paging |-> paging, derivesOrdered |-> derivesOrdered, create |-> create,
   blankRows |-> blankRows]

MssqlDialect      == Dialect("row_number", FALSE, "check", FALSE)
PostgresqlDialect == Dialect("row_number", TRUE, "check", FALSE)
ClickHouseDialect == Dialect("row_number", TRUE, "whole", FALSE)
OracleDialect     == Dialect("rownum", TRUE, "whole", FALSE)
MysqlDialect      == Dialect("offset", TRUE, "whole", TRUE)
ImpalaDialect     == Dialect("none", TRUE, "whole", FALSE)

(* Queries of the async dialects are not nested, and paging appends to     *)
(* them: OFFSET ... FETCH is no statement for SQL Server without ORDER BY. *)
AsyncSqlDialect   == Dialect("offset", TRUE, "whole", TRUE)
AsyncMssqlDialect == Dialect("fetch", TRUE, "whole", FALSE)

SyncSql  == {"MSSQL", "ORACLE", "POSTGRESQL", "MYSQL", "CLICKHOUSE"}
AsyncSql == {"MSSQL", "ORACLE", "POSTGRESQL", "MYSQL"}

SqlPolicy(connector) ==
  CASE connector = "MSSQL"      -> MssqlDialect
    [] connector = "ORACLE"     -> OracleDialect
    [] connector = "POSTGRESQL" -> PostgresqlDialect
    [] connector = "MYSQL"      -> MysqlDialect
    [] connector = "CLICKHOUSE" -> ClickHouseDialect

BigDataPolicy(connector) == ImpalaDialect

AsyncDialectFor(connector) ==
  IF connector = "MSSQL" THEN AsyncMssqlDialect ELSE AsyncSqlDialect

(* A backend: the kind of adapter and the type of connector.               *)
Backends ==
  [kind : {"sql"}, connector : SyncSql] \cup [kind : {"async"}, connector : SyncSql]
    \cup [kind : {"bigdata"}, connector : {"Impala"}]
    \cup [kind : {"webservice", "inmemory", "file", "queue"}, connector : {"other"}]

DialectOf(b) ==
  CASE b.kind = "sql"     -> SqlPolicy(b.connector)
    [] b.kind = "async"   -> AsyncDialectFor(b.connector)
    [] b.kind = "bigdata" -> BigDataPolicy(b.connector)

-----------------------------------------------------------------------------
(* An integration.  Tables have the columns a and b in this order; a query *)
(* of the descriptor selects b and a.                                      *)
Column       == {"a", "b"}
TableColumns == <<"a", "b">>
QueryColumns == <<"b", "a">>

(* The lists of columns a descriptor may have: those of the source, those  *)
(* of the target, and the placeholders of a target query.                  *)
SourceLists == {<<>>, <<"a", "b">>, <<"b", "a">>, <<"b">>}
TargetLists == {<<"a", "b">>, <<"b", "a">>, <<"a">>}
QueryLists  == {<<"a", "b">>, <<"b", "a">>}

ASSUME NoneAssumption == None \notin SourceLists \cup TargetLists \cup QueryLists

Plan(b, paged, query, ordered, named, size, tableSize, columns, targetColumns, targetQuery) ==
  [backend |-> b, paged |-> paged,
   query |-> query,                  \* has SourceConnections.Sql.Query
   ordered |-> ordered,              \* ... with an ORDER BY over a key
   named |-> named,                  \* has Schema and ObjectName
   size |-> size,                    \* rows of what is read
   tableSize |-> tableSize,          \* rows of the named table, if a query is read
   columns |-> columns,              \* names of SourceConnections.Columns
   targetColumns |-> targetColumns,  \* names of TargetConnections.Columns
   targetQuery |-> targetQuery]      \* INSERT with these columns and placeholders

(* Everything that matters to a read, with one way to write ...            *)
ReadPlans ==
  {Plan(b, paged, query, query /\ ordered, named, n, m, None, None, None) :
     b \in Backends, paged \in BOOLEAN, query \in BOOLEAN, ordered \in BOOLEAN,
     named \in BOOLEAN, n \in Sizes, m \in Sizes}

(* ... and everything that matters to a write, with one way to read.       *)
WritePlans ==
  {Plan(b, FALSE, query, FALSE, named, 1, 1, c, t, q) :
     b \in Backends, query \in BOOLEAN, named \in BOOLEAN,
     c \in {None} \cup SourceLists, t \in {None} \cup TargetLists,
     q \in {None} \cup QueryLists}

VARIABLES
  plan,     \* the integration
  stable,   \* does the engine return rows in the same order every time?
  step,     \* the call to come
  rel,      \* the rows of what is read, in the engine's order
  changes,  \* changes by other clients
  moves,    \* which of them the source has seen
  counted,  \* the answer of get_source_data_count
  start,    \* start of the next page
  batch,    \* the rows read and not yet written
  unread,   \* the part of an iterator's result set that is not fetched
  table,    \* is there a target table?
  landed,   \* its rows: the source row, and the source column of each value
  result    \* "none", "returned", "raised", or "exists" when "DoNothing" raised

sourceVars == <<rel, changes, moves>>
readVars   == <<counted, start, batch, unread>>
targetVars == <<table, landed>>
transferVars == <<plan, stable, step, sourceVars, readVars, targetVars, result>>

Old == [row |-> 0, values |-> [c \in Column |-> None]]

TransferInit ==
  /\ plan \in ReadPlans \cup WritePlans
  /\ stable \in BOOLEAN
  /\ step = "adapter"
  /\ rel = [i \in 1 .. plan.size |-> i]
  /\ changes = 0 /\ moves = {}
  /\ counted = 0 /\ start = 0 /\ batch = <<>> /\ unread = <<>>
  /\ table \in BOOLEAN
  /\ landed = IF table THEN <<Old>> ELSE <<>>
  /\ result = "none"

Goto(place) == step' = place /\ UNCHANGED result
Finish(how) == step' = "done" /\ result' = how
dialect == DialectOf(plan.backend)
Kind    == plan.backend.kind

-----------------------------------------------------------------------------
(* The two factories know all kinds; what else they are asked for raises.  *)
TargetAdapter(kind) == kind \in {"sql", "async", "bigdata", "webservice"}
SourceAdapter(kind) == kind \in {"sql", "async", "bigdata", "webservice"}

(* An async adapter asks for the extra, and later for its connector.       *)
GetAdapter ==
  /\ step = "adapter"
  /\ IF /\ TargetAdapter(Kind) /\ SourceAdapter(Kind)
        /\ Kind = "async" => plan.backend.connector \in AsyncSql
       THEN \/ Goto("clear")
            \/ Kind \in {"sql", "bigdata"} /\ Goto("create")
            \/ StatementsRaise /\ Kind = "async" /\ Finish("raised")
       ELSE Finish("raised")
  /\ UNCHANGED <<plan, stable, sourceVars, readVars, targetVars>>

(* create_table(if_exists='DoNothing'); the mistake is to leave out what   *)
(* the option adds to the statement.                                       *)
CreateTablePlainly ==
  /\ step = "create"
  /\ IF table THEN Finish("exists") /\ UNCHANGED table ELSE table' = TRUE /\ Goto("clear")
  /\ UNCHANGED <<plan, stable, sourceVars, readVars, landed>>

CreateTable ==
  /\ step = "create"
  /\ \/ StatementsRaise /\ Finish("raised") /\ UNCHANGED table
     \/ table /\ Goto("clear") /\ UNCHANGED table
     \/ ~table /\ dialect.create = "whole" /\ table' = TRUE /\ Goto("clear")
     \/ ~table /\ dialect.create = "check" /\ Goto("make") /\ UNCHANGED table
  /\ UNCHANGED <<plan, stable, sourceVars, readVars, landed>>

(* The statement behind the check.                                         *)
MakeTable ==
  /\ step = "make"
  /\ IF table THEN Finish("exists") ELSE Goto("clear")
  /\ table' = TRUE
  /\ UNCHANGED <<plan, stable, sourceVars, readVars, landed>>

(* clear_data, if IsTargetTruncate is set.                                 *)
ClearData ==
  /\ step = "clear"
  /\ \/ Goto("read") /\ UNCHANGED landed
     \/ /\ Kind # "webservice" /\ plan.named /\ table
        /\ landed' = <<>> /\ Goto("read")
     \/ /\ StatementsRaise \/ Kind = "webservice" \/ ~plan.named \/ ~table
        /\ Finish("raised") /\ UNCHANGED landed
  /\ UNCHANGED <<plan, stable, sourceVars, readVars, table>>

-----------------------------------------------------------------------------
(* Reading.  The source adapters for big data and web services raise in    *)
(* every call: they call methods their contexts do not have, or say so.    *)
BigDataReads    == FALSE
WebServiceReads == FALSE

CanRead ==
  CASE Kind = "bigdata"    -> BigDataReads
    [] Kind = "webservice" -> WebServiceReads
    [] OTHER               -> TRUE

(* The select statement that stands for the source, from the table or the  *)
(* query: does it exist, and is it accepted?                               *)
SelectOK ==
  /\ CanRead
  /\ plan.query \/ plan.named
  /\ plan.ordered => dialect.derivesOrdered

(* The keys of a row.                                                      *)
Keys ==
  CASE plan.query                                    -> QueryColumns
    [] ~plan.query /\ plan.columns \in {None, <<>>}  -> TableColumns
    [] ~plan.query /\ plan.columns \notin {None, <<>>} -> plan.columns

(* A query of a source without an order of its own may return its rows in  *)
(* another order each time.                                                *)
Ordered == stable \/ (Kind = "async" /\ plan.ordered)
Results ==
  IF Ordered THEN {rel}
  ELSE {s \in [DOMAIN rel -> {rel[i] : i \in DOMAIN rel}] :
          \A i, j \in DOMAIN s : s[i] = s[j] => i = j}

End == start + Limit
MinOf(m, n) == IF m <= n THEN m ELSE n

(* ROW_NUMBER() > start and <= end; the mistake is >= start.               *)
RowNumberPageFrom(s) == SubSeq(s, IF start = 0 THEN 1 ELSE start, MinOf(End, Len(s)))
RowNumberPage(s) == SubSeq(s, start + 1, MinOf(End, Len(s)))

(* rownum <= end in the inner query, > start in the outer one.             *)
RownumPage(s) ==
  LET inner == SubSeq(s, 1, MinOf(End, Len(s))) IN SubSeq(inner, start + 1, Len(inner))

(* LIMIT end - start OFFSET start, and OFFSET ... FETCH NEXT.              *)
OffsetPage(s) ==
  LET rest == SubSeq(s, start + 1, Len(s)) IN SubSeq(rest, 1, MinOf(End - start, Len(rest)))

PageOf(s) ==
  CASE dialect.paging = "row_number"        -> RowNumberPage(s)
    [] dialect.paging = "rownum"            -> RownumPage(s)
    [] dialect.paging \in {"offset", "fetch"} -> OffsetPage(s)

PageOK == /\ SelectOK
          /\ dialect.paging # "none"
          /\ dialect.paging = "fetch" => plan.ordered

ReadRaises ==
  /\ Finish("raised")
  /\ UNCHANGED <<plan, stable, sourceVars, readVars, targetVars>>

(* get_source_data_count: a query is read, but the named table is counted. *)
Count ==
  /\ step = "read" /\ plan.paged /\ CanRead /\ plan.named
  /\ counted' = IF plan.query THEN plan.tableSize ELSE Len(rel)
  /\ Goto("page")
  /\ UNCHANGED <<plan, stable, sourceVars, start, batch, unread, targetVars>>

CountFails ==
  /\ step = "read" /\ plan.paged
  /\ StatementsRaise \/ ~CanRead \/ ~plan.named
  /\ ReadRaises

(* get_source_data_with_paging, for as long as start < counted.            *)
ReadPage ==
  /\ step = "page" /\ start < counted /\ PageOK
  /\ \E s \in Results : batch' = PageOf(s)
  /\ start' = End
  /\ Goto("write")
  /\ UNCHANGED <<plan, stable, sourceVars, counted, unread, targetVars>>

ReadPageFails ==
  /\ step = "page" /\ start < counted
  /\ StatementsRaise \/ ~PageOK
  /\ ReadRaises

LastPage ==
  /\ step = "page" /\ start >= counted
  /\ Finish("returned")
  /\ UNCHANGED <<plan, stable, sourceVars, readVars, targetVars>>

(* get_iterator: one result, fetched in batches of limit rows.             *)
OpenIterator ==
  /\ step = "read" /\ ~plan.paged /\ SelectOK
  /\ \E s \in Results : unread' = s
  /\ Goto("fetch")
  /\ UNCHANGED <<plan, stable, sourceVars, counted, start, batch, targetVars>>

OpenIteratorFails ==
  /\ step = "read" /\ ~plan.paged
  /\ StatementsRaise \/ ~SelectOK
  /\ ReadRaises

Fetch ==
  /\ step = "fetch"
  /\ IF unread = <<>>
       THEN Finish("returned") /\ UNCHANGED <<batch, unread>>
       ELSE /\ batch' = SubSeq(unread, 1, MinOf(Limit, Len(unread)))
            /\ unread' = SubSeq(unread, Len(batch') + 1, Len(unread))
            /\ Goto("write")
  /\ UNCHANGED <<plan, stable, sourceVars, counted, start, targetVars>>

-----------------------------------------------------------------------------
(* Writing.  write_data of the other two target adapters has no parameter  *)
(* source_data and raises.                                                 *)
BigDataWrites    == FALSE
WebServiceWrites == FALSE

CanWrite ==
  CASE Kind = "bigdata"    -> BigDataWrites
    [] Kind = "webservice" -> WebServiceWrites
    [] OTHER               -> TRUE

Listed(columns) == columns \notin {None, <<>>}
Elements(s) == {s[i] : i \in DOMAIN s}

(* prepare_data: which values of a row go into its tuple.  The async       *)
(* adapter takes the names of the target's columns.                        *)
AsyncPrepared == IF Listed(plan.targetColumns) THEN plan.targetColumns ELSE Keys
SyncPrepared  == IF plan.columns = None THEN Keys ELSE plan.columns
Prepared      == IF Kind = "async" THEN AsyncPrepared ELSE SyncPrepared

(* get_target_query: which column each position of the tuple is for.       *)
OwnQuery == plan.targetQuery # None /\ Listed(plan.columns)
ByPosition == plan.targetQuery = None /\ Listed(plan.columns)

(* A mistake: the statement lists the source's columns.                    *)
TargetQueryOfSource ==
  CASE OwnQuery                  -> plan.targetQuery
    [] ByPosition                -> plan.columns
    [] ~OwnQuery /\ ~ByPosition  -> TableColumns

TargetQuery ==
  CASE OwnQuery                  -> plan.targetQuery
    [] ByPosition                -> plan.targetColumns
    [] ~OwnQuery /\ ~ByPosition  -> TableColumns

Slots == IF Kind = "async" THEN Prepared ELSE TargetQuery

WriteOK ==
  /\ CanWrite /\ table
  /\ Elements(Prepared) \subseteq Elements(Keys)
  /\ plan.named \/ (OwnQuery /\ Kind = "sql")
  /\ Slots # None
  /\ Len(Prepared) = Len(Slots) \/ (Prepared = <<>> /\ dialect.blankRows)

RowAt(r) ==
  LET filled(c) == {i \in DOMAIN Prepared : Slots[i] = c}
  IN  [row |-> r,
       values |-> [c \in Column |-> IF filled(c) = {} THEN None
                                    ELSE Prepared[CHOOSE i \in filled(c) : TRUE]]]

ToNext == Goto(IF plan.paged THEN "page" ELSE "fetch") /\ batch' = <<>>

(* write_data: nothing is done for an empty page.                          *)
WriteData ==
  /\ step = "write"
  /\ \/ batch = <<>> /\ CanWrite /\ UNCHANGED landed
     \/ batch # <<>> /\ WriteOK /\ landed' = landed \o [i \in DOMAIN batch |-> RowAt(batch[i])]
  /\ ToNext
  /\ UNCHANGED <<plan, stable, sourceVars, counted, start, unread, table>>

WriteFails ==
  /\ step = "write"
  /\ \/ ~CanWrite \/ (batch # <<>> /\ (StatementsRaise \/ ~WriteOK))
  /\ ReadRaises

-----------------------------------------------------------------------------
(* Other clients: rows of the source go or come, anywhere in its order;    *)
(* the target is created or dropped.                                       *)
SourceChanges ==
  /\ step = "page" /\ changes < MaxChanges
  /\ \/ \E i \in DOMAIN rel :
          /\ rel' = SubSeq(rel, 1, i - 1) \o SubSeq(rel, i + 1, Len(rel))
          /\ moves' = moves \cup {"removed"}
     \/ \E i \in 0 .. Len(rel) :
          /\ rel' = SubSeq(rel, 1, i) \o <<plan.size + changes + 1>> \o SubSeq(rel, i + 1, Len(rel))
          /\ moves' = moves \cup {IF i = Len(rel) THEN "appended" ELSE "inserted"}
  /\ changes' = changes + 1
  /\ UNCHANGED <<plan, stable, step, readVars, targetVars, result>>

TableChanges ==
  /\ step \in {"create", "make", "clear"} /\ changes < MaxChanges
  /\ table' = ~table
  /\ landed' = <<>>
  /\ changes' = changes + 1
  /\ UNCHANGED <<plan, stable, step, rel, moves, readVars, result>>

TransferNext ==
  \/ GetAdapter \/ CreateTable \/ MakeTable \/ ClearData
  \/ Count \/ CountFails \/ ReadPage \/ ReadPageFails \/ LastPage
  \/ OpenIterator \/ OpenIteratorFails \/ Fetch
  \/ WriteData \/ WriteFails
  \/ SourceChanges \/ TableChanges

TransferSpec == TransferInit /\ [][TransferNext]_transferVars

-----------------------------------------------------------------------------
(* What was read from the source and written, without the rows that were   *)
(* there before.                                                           *)
CopiedAt == {i \in DOMAIN landed : landed[i].row # 0}
Copied   == {landed[i].row : i \in CopiedAt}

(* If the engine keeps to one order, or one result is read, no row is      *)
(* copied twice, although rows may be removed or appended between the      *)
(* pages: only a row inserted among the others shifts one into the next    *)
(* page again.  And a transfer that returns has copied every row, unless   *)
(* the source changed, or a query was paged by the count of a smaller      *)
(* table.                                                                  *)
PagesFaithful ==
  Ordered \/ ~plan.paged =>
    /\ "inserted" \notin moves =>
         \A i, j \in CopiedAt : landed[i].row = landed[j].row => i = j
    /\ \/ result # "returned" \/ moves # {}
       \/ plan.paged /\ plan.query /\ plan.tableSize < plan.size
       \/ Copied = Elements(rel)

(* Every value that was sent is in the column it was meant for: the column *)
(* of the same name, or the one at its place in the two lists of columns.  *)
(* Three kinds of integrations are not held to it: the placeholders of an  *)
(* own query are in another order than the source's columns, a query is    *)
(* inserted without a list of columns, and an empty list of columns, which *)
(* reads all columns and writes none.                                      *)
Unlisted == Kind = "sql" /\ ~OwnQuery /\ ~ByPosition /\ Keys # TableColumns
Reordered == Kind = "sql" /\ OwnQuery /\ plan.targetQuery # plan.columns
Emptied == Kind = "sql" /\ plan.columns = <<>>

ValuesInPlace ==
  \A i \in DOMAIN landed :
    LET values == landed[i].values IN
      \/ landed[i].row = 0 \/ Unlisted \/ Reordered \/ Emptied
      \/ IF Kind = "sql" /\ ByPosition
         THEN /\ plan.targetColumns # None
              /\ \A k \in DOMAIN plan.targetColumns :
                   values[plan.targetColumns[k]] = plan.columns[k]
         ELSE /\ \A c \in Column : values[c] \in {c, None}
              /\ \A c \in Elements(Prepared) : values[c] = c

(* Creating with "DoNothing" raises because the table exists only if some  *)
(* other client created it in the middle of the statement.                 *)
QuietCreation == result = "exists" => dialect.create = "check" /\ changes > 0
=============================================================================
