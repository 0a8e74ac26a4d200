# A verification of pdip in TLA+

pdip is a Python framework for data integration: it moves rows from source to
target systems with worker threads and processes and tells observers about it
through an in-process event broker. This directory models the parts of pdip
where concurrency and failure decide whether a run is correct, checks them with
TLC and proves the most important facts with TLAPS.

## The system

| component | code (under `src/pdip/`) | state | operations | interacts with |
|---|---|---|---|---|
| parallel-thread load | `integrator/integration/types/sourcetotarget/strategies/parallelthread` | two data queues, a task and a result queue, thread list, counters, rows at the target | count, cut pages, copy a page, answer, report, collect, shut down | adapters, event broker |
| single-process load | `.../strategies/singleprocess` | iterator with its cursor, page, row count | read, write with timeout | adapters, event broker |
| worker pool | `processing` | process list, task and result queue, records | start, collect, stop, dispose | operating system, old parallel load |
| event broker | `integrator/pubsub` | two channels, subscriber lists, two threads | publish, forward, dispatch, (un)subscribe, join, close | integrator, loads, user callbacks |
| integrator and executions | `integrator/base`, `integrator/operation`, `integrator/integration/base`, `integrator/integration/types` | progress of a run, exception in flight | integrate, start operation, start integration, truncate, load | broker, adapters, transaction handler |
| database contexts and connectors | `integrator/connection/types/{sql,bigdata,inmemory}` | connection, cursor | connect, execute with retry, iterate | drivers |
| old parallel load | `.../strategies/parallelold` | two data queues of a manager of its own, a source process, copying children | count, cut pages, copy a page, answer, sum up, dispose | worker pool, adapters |
| adapters and dialects | `integrator/connection/types/{sql,bigdata,webservice}/{adapters,dialects,factories}`, `integrator/connection/{adapters,factories}` | none; a connection for each call | create and clear a table, count, page, iterate, write | contexts, load strategies |
| queue and file connectors | `integrator/connection/types/{queue,file}` | consumer, producer, group offset, file | read pages over a window, read a frame, create, delete, write | a broker, the file system, the caller's queues |
| database sessions, repositories and seeds | `data` | thread-local session, engine | make, flush, query, commit, rollback, close, seed | operation execution, HTTP API |
| dependency container and startup | `dependency`, `utils/module_finder.py`, `configuration`, `base/pdi.py` | `DependencyContainer.Instance`, bindings, `sys.modules` | import, configure, bind, clean up, `__del__` | everything that is injected |
| HTTP API, commands and queries | `api`, `cqrs` | none of their own | convert a request, dispatch, handle errors, `after_request` | sessions, container |
| observability, utilities, HTML, code generation | `observability`, `logging`, `utils`, `json`, `cryptography`, `delivery`, `html`, `cqrs/generator` | none that others depend on | | |

The hard behaviours: writer threads and the source thread wait for each other
over bounded windows of pages; workers die between putting a report and being
looked at; driver calls are abandoned by a timeout and complete later; a manager
process that carries all queues is shut down under threads that still use it;
callbacks raise, hang and change the subscriptions while they are called;
the rows of a paged source move between two pages; a group's offset is committed
before its messages are handed over; threads serve one work after another with the
same session; a container's finalizer runs long after its successor has started. The
list of hazards with their lines is in `PROJECT.json`.

What makes each component correct:

- a load writes every row at most once, and all of them when it returns with a
  report from every writer; its row count is backed by rows; it ends;
- a database write leaves a row at the target twice only when a try raised although its
  rows stayed, returns only when the rows are committed, and raises only without retries left;
- a pool files results under the child that computed them, runs nobody twice,
  returns only when nobody unsignalled is at work, and hangs only when a child
  died silently;
- the broker delivers in order, without loss, up to the end of the run, to
  everybody subscribed, and never keeps its caller for ever;
- a run publishes one end, pairs the events of each integration, announces success
  only for work that was done, returns normally if and only if it knows that it has
  committed, raises what went wrong first unless that could not be published or giving up
  the transaction failed too, and comes back whatever fails;
- a paged transfer copies no row twice and misses none as long as the engine keeps its
  order and nobody inserts in between; each value lands in the column it was meant for;
- a queue or file reader hands over what it polled, once, in order, in numbered pages (one empty page
  if a file has no rows), loses no more than an open page, and never fills its window beyond its size;
- no work commits what another one left in the session; a transactional function that
  returns has committed all it did, and one that raises nothing of it by its own end;
- nobody gets a container that is half made, and a class that is looked up is the class
  that was bound.

## Modules

**BulkLoad** is the abstract specification of a source-to-target load: batches of
rows that were not written before reach the target, and one verdict is given,
with a row count no greater than the number of rows written. Batches may still
land after the verdict.

**ParallelLoad** models `ParallelThreadIntegrationExecute.execute` with
everything it starts. Three kinds of actor:

- the caller (`mpc`): `StartSource`, `StartWriter`, `Collect`, `CollectError`,
  `CheckThread`, `SumReport`, `Shutdown`. `CheckThread` is one turn of
  `__check_unfinished_threads`, so threads end between two turns;
- the source thread (`spc`): `SourceCount`, `SourcePut`, `SourceAwait`,
  `SourceStop`, `SourceEnd`, `SourceCutOff`, `SourceVanish`. `start` is the loop
  variable of the same name; `end` is always `start + Limit`; `transmitted` is
  `transmitted_data_count`;
- the writers (`wpc`): `WriterBegin`, `WriterGet`, `WriterWrite`, `WriterError`,
  `WriterTimeout`, `WriterAnswer`, `WriterFail`, `WriterCutOff`, `WriterReport`,
  `WriterVanish`, `WriterExit`, and `LateWrite` for the driver call that a
  timeout abandoned.

Queue contents are kept; rows are their positions in the source. `held` is the
number of rows the source has when it is read, which need not be what it counted.
The source's adapter and the target's are external: reading a page yields the
rows of its window the source holds, writing it makes them land, or it raises
before or after they have landed, or it times out. `vanished` records that a
thread has ended without telling anybody: its container lookup or its first log
event raised, or the exception it wanted to pass on does not pickle.
Log events, spans and the constant task each worker takes from its broker are
left out.

**SingleProcess** models `SingleProcessIntegrationExecute.execute` together with the
`SqlIterator` it reads. `pc` follows the caller: `GetIterator`; `OpenCursor`
(`_initialize`), `FetchPage`, `FetchFails` and `Stop` are what `__next__` does;
`WritePage`, `WriteFails` and `WriteTimesOut` are `write_target_data`; `Advance` is
the end of the loop body with `end += limit`; `Handle` is the except branch.
`LateWrite` is the thread that `func_set_timeout` leaves behind. Limits are `None`, 0
(no chunking) and page sizes. A connector's `cursor` goes from "none" to "open" to
"closed" and never back, since `disconnect` does not clear it. A write that is cut
short may leave the first rows of its page at the target.

In ParallelLoad and SingleProcess one call of a target adapter lands each of its rows
at most once. DatabaseWrite looks inside such a call and says when that is so: as long as
no try raises although rows of it stay at the target (`ghosts = 0`).

**DatabaseWrite** models one `execute_many` or `execute` of a database context, with the
connector under it. `SqlContext`, `BigDataContext` and `InMemoryContext` have the
same control: the decorator `connect` (`Connect`, `Disconnect`) and
`_execute_with_retry` (`Retry`, `RetriesExhausted`). The connectors' `execute_many` is
`Send`, `Commit` and, for the except branches, `Undo` and `UndoFails`; `kind` chooses what
follows the rollback (`AfterRollback`): "plain" raises, "twice" and "autocommit" try once
more without `fast_executemany`, and "silent" (SQLite) returns. `execute` has no except
branch (`Propagate`). The drivers are external: a statement may raise after some of its
rows, a commit may raise done or not, and the connection may be lost. `CutOff` is
`FunctionTimedOut` in the thread of a write.

**ProcessPool** models `ProcessManager` and its `Subprocess` children: spawning
and putting one task per child, the blocking read of reports, one action per
turn of the loops over all children (`CheckProcess`, `StopProcess`), SIGTERM that
takes effect later (`Killed`), death without a report (`Crash`), and `Dispose`
for `__del__`. A report carries the id it claims and the child that made it, so
that mixing them up is visible.

**ParallelOld** models `ParallelIntegrationExecute.execute`, the process variant of the
parallel load. It EXTENDS ProcessPool: every step of the pool of copying children is a step
of ProcessPool (`PoolStep`, `WorkerEnd` around `Finish`, `WorkerDies` around `Crash` and
`Killed`, `DropPool` around `Dispose`), and what a child does between taking its task
and ending is `start_execute_data_operation` (`wpc`, moving only while the child is
"running"). The second pool, with the one source process, is so small that only its place
(`spc`) is kept: `SourceCount`, `SourcePut`, `SourceAwait`, `SourceEnd`; it is cut off with the queues
(`SourceCutOff`), vanishes (`SourceVanish`) or crashes (`SourceCrash`). A write that times
out, and the statement of a child that is killed in the middle of it, may land later (`late`).
`StartSource`, `PoolStep`, `SumResults` and `DropPool` are the calling process; the queues'
manager is gone after `SumResults`. The log events are left out.

**EventDelivery** is the abstract broker: accepted events are delivered one by
one in order, none after the one that ends the run.

**PubSub** models `MessageBroker`, `MessageBrokerWorker` and `EventListener` with
a caller that starts, publishes, joins and closes as `Integrator.integrate` does,
stray threads of a load that go on publishing, and a user thread that subscribes
and unsubscribes at any time. Subscriber lists are objects with an identity
(`lists`), since `subscribe` changes the list the listener may be iterating over
and `unsubscribe` replaces it. Subscription changes happen one at a time; two
threads that change them at once are not modelled.

**Lifecycle** models one run of `Integrator.integrate` (and a second one on the same
object): set-up of the broker (`BrokerInitialize`, `RegisterListeners`,
`StartBroker`, `Prepare`), the transaction handler (`Begin`, `Commit`, `Rollback`,
`CloseSession`), `OperationExecution.start` (`OperationInitialize`,
`OperationStart`, `OperationFinish`, `OperationFail`), for each integration
`IntegrationExecution.start` and the integration types (`BeginIntegration` to
`IntegrationFinish` and `IntegrationFail`), then `Join` and `Close`. The try
blocks are the control: `Raise(e, handler)` goes to the handler that sees the
exception next, and handlers publish, replace or pass on the exception in
flight. A commit that raises may have been done (`session` is "landed"), as in DatabaseWrite.
`CloseSession` is the finally clause of the transaction handler: closing a session whose
transaction is still open, since a timeout skipped the rollback or the rollback raised, rolls
it back, and raises when the connection is lost. `timeout` stands for `FunctionTimedOut` of func-timeout 4.3.5, which
derives from `BaseException`: only finally clauses see it. `odd` is an exception
that does not pickle. Deletion is by reference count: `Close` drops the
Integrator's reference, and the broker's `__del__` stops the manager, unless the
traceback of an exception out of `initialize` still holds the broker. The broker
is what EventDelivery says (one `Deliver` action); its insides are PubSub. A load
is one action here; its insides are ParallelLoad. `EVENT_LOG` events and the messages
of the other events are left out.

**SqlTransfer** follows one integration through the adapters, contexts and dialects:
`GetAdapter` (the factories and the extra an async adapter asks for), `CreateTable` and
`MakeTable` (the statement, or the check and the statement behind it), `ClearData`, `Count`,
`ReadPage` and `LastPage` or `OpenIterator` and `Fetch`, and `WriteData`. What a dialect
decides is a record (`Dialect`): how a page is cut out, whether an ordered query may be a
derived table, how a table is created, whether an empty row can be inserted. Rows are numbers and a
written row says which source column each of its values came from (`RowAt`). `TransferInit` chooses
the integration among those that differ in the read (`ReadPlans`) and those that differ
in the write (`WritePlans`). The engine is external: it keeps to one order or returns
another one each time (`stable`). `SourceChanges` and `TableChanges` are other clients, and `moves`
records which of their changes could shift a page.

**QueueConnector** models `KafkaConnector` and `CsvConnector` in both uses. As a source,
`StartRead` is `create_consumer` or `open` and the beginning of `get_unpredicted_data` or
`get_data`; `Poll`, `PollNone` and `PollError` are one turn of the loop over messages or
lines; `FullPagePut`, `RestPagePut`, `Await` and `EndRead` the pages and their window, with the empty
first page of a file without rows (`EmptyChunk`); `SkipChunk`
and `ReturnFrame` the frame of `get_data`. As a target, each client's call runs from
`Begin`, which looks (or `BeginFails`, when the broker does not answer), to `Create`, `Delete` or `Produce`, which act on what may have changed
since; `Deliver`, `Flush` and `Vanish` are the producer's buffer and the broker; what the rows say
is left out, a buffer is their number. The caller that
takes pages and answers them is the environment, since no adapter of the repository calls
these connectors (those that would are commented out); the offset a broker remembers
of a group that commits by itself is any one up to what was polled (`Offsets`). `total` is
`total_data_count`; a page's `Data` are the offsets of its messages, so that `HandedOver` and
`Polled` can be compared.

**Sessions** models threads that take up one work after another: a request with its error
handlers and `after_request`, a function under `@transactionhandler`, a run of the seeds. The
thread keeps its session (`Slot`), as `IScoped` binds it. What the body of a work does is
open: `MakeChange`, `Query`, `BodyCommits`, `BodyRollsBack`, catching or not catching what these
raise. SQLAlchemy is external: `Flush`, `CommitOK` and `RollbackOK` say when a flush fails and
what a session is worth after it. `HandleOperational`, `HandleOther` and `HandleException` are the handlers
in the order flask-restx and Flask ask them; `AfterRequest` may raise before it closes.

**Startup** models `Pdi`, `DependencyContainer.initialize_service` and `ServiceProvider`:
`UseInstance` or `MakeProvider`, `Import` of each module (`ModuleFinder.import_modules`),
`Configure` (`ConfigManager`, after which the provider is the instance), `Inject`, and `Clean`
after a failure; `Cleanup` is `Pdi.cleanup`. `Collect` is the garbage collector, which runs `__del__` at any
time after that and takes the modules out of `sys.modules`, whoever's they are by then.
`version` counts how often a module was executed, so that two copies of a class differ.

**ParallelLoadProofs**, **SingleProcessProofs**, **LifecycleProofs**, **SessionsProofs** and
**StartupProofs** hold the theorems about the module they are named after; **ParallelOldProofs**
those about ParallelOld and about ProcessPool, whose actions ParallelOld takes over;
**SqlProofs** those about DatabaseWrite and SqlTransfer, the two sides of a database;
**QueueProofs** those about PubSub and QueueConnector, the two kinds of queues.

Definitions introduced by "a mistake" or "the mistake" in a comment are variants
of a definition of the model. They are not used by the specification; each one,
put in the place of the definition it belongs to, breaks a property
(`PROJECT.json`, "mutants").

## Runs

| run | instance | shows |
|---|---|---|
| `ParallelLoad_all` | 2 writers, pages of 2 rows, 5 rows counted, 1, 4 or 5 held, all faults, fair | `TypeOK`, `AtMostOnce`, `FlowControl`, `CompleteOnSuccess`, `EndsOrStranded`, implements `BulkLoad` |
| `ParallelOld_all` | 2 children, pages of 2 rows, 5 rows, 1 crash, everything may raise, fair | `ReturnIsExplained`, `EndsOrStranded`, implements `BulkLoad` |
| `SingleProcess_all` | up to 5 rows, limits none, 0, 1, 2 and 3, all faults, fair | `LandedIsPrefix`, `CompleteOnSuccess`, `Ends`, implements `BulkLoad` |
| `DatabaseWrite_all` | every kind of connector, both operations, 2 rows, 3 retries, all faults | `CopiesExplained`, `WrittenOnReturn`, `RaisedIsExplained` |
| `SqlTransfer_all` | every backend and plan, sources of 0, 2 and 3 rows, pages of 2, 1 foreign change | `PagesFaithful`, `ValuesInPlace`, `QuietCreation` |
| `QueueConnector_all` | pages of 2, a window of 2, up to 5 messages of which 1 odd, 2 reads, 1 fault, 2 clients with 2 calls, fair | `PagesFaithful`, `LossBounded`, `WindowHolds`, `TargetHolds`, `Ends` |
| `Sessions_all` | 2 threads, 2 works of any kind, 3 steps of their bodies | `Isolated`, `TaskAtomic` |
| `Startup_all` | 2 threads, 2 modules, 3 providers, 1 later import, 2 faults | `ReadyUnlessOverlapped`, `ResolvesBound` |
| `ProcessPool_all` | 3 children, all of which may raise or crash, fair | `ResultsAccounted`, `QuietOnReturn`, `ReturnsOrStranded` |
| `ProcessPool_lost` | 2 children, nothing fails | violates `EveryResultReported` |
| `PubSub_all` | 1 event, 2 callbacks, 4 messages, 3 changes, fair | `Drained`, `EveryoneServed`, `EveryoneEnds`, implements `EventDelivery` (`DeliverySpec`) |
| `Lifecycle_all` | up to 2 integrations of every kind, all faults, 2 calls, fair | `Sequenced`, `SuccessIsReal`, `CleanMeansCommitted`, `ErrorIsExplained`, `Returns` |

Some of these are conjunctions of named parts: `ResultsAccounted` of `ResultsAreOwn`,
`CalledOnce` and `BlankIsExplained`, `Sequenced` of `Ordered`, `Paired` and
`StopsAtFailure`. `CompleteOnSuccess` of ParallelLoad also says that no writer is at work
when `execute` returns with a report from each.

Where the code has a weakness of its own, the property names it and says that nothing else
goes wrong. Those exceptions are worth a reader's attention: a child that met an
exception but whose report nobody read (`ReturnIsExplained`); a source that vanished, or a
process that crashed (`StrandedLoad`); a query that is paged by the count of another, smaller
table (`PagesFaithful`); rows inserted between two pages; a query inserted without a list of
columns, an own query whose placeholders are in another order, and an empty list of columns
(`ValuesInPlace`); the range of a Kafka read's last page and the one empty page of a file without rows
(`RangeHolds`); a commit whose answer was lost (`CleanMeansCommitted`); a timeout hidden by the
error of closing the session (`ErrorIsExplained`); a request without an origin
(`Isolated`); two startups at once, and the late `__del__` of an older provider
(`ResolvesBound`).

Deadlock checking is off everywhere: all these programs end.

The bounds. Two writers and three pages are the least with which the window of
the source fills, is answered and fills again, a page is cut while another is at
work and a third has been answered, and the last page is not full; 4 of 5 rows
make the last page empty and 1 makes a middle page empty. Five rows give the iterator
pages that divide the result set and pages that do not, an empty result set, one
page and several, under each limit. Two rows are enough for a statement that stops between
them, and 3 retries is the program's own number. Three children are
the least with which one report is read, one is lost and one is still awaited.
Four messages are enough for two before the end, the end and a stray one behind it;
three changes subscribe two callbacks to one event and take one away while the
other waits for its call. Two integrations are the least with which one fails
before, in or after another, and all six combinations of kind and truncation meet
each other.

For ParallelOld two children, three pages and one crash give the window filled and
refilled, a last page that is not full, a crash in each place of either process, and a
child left over that waits. Sources of 0, 2 and 3 rows with pages of 2 give no page, one full
page, and a full one and a rest; one foreign change is enough to shift a page or to come
between a check and its statement. Five messages fill two pages and start a third behind a
window of two; two reads are what it takes to start from an offset a broker was told or not
told, and to inherit the queues of another file. Two clients of a target race for each
request. Two works on two threads meet side by side and one after the other; three steps
are a change, another one and a flush, commit or rollback between or behind them. Three providers are
a failed one, the one in use and one that comes after a cleanup, two threads the least that
overlap.

### Findings

`ProcessPool_lost`: `test_process_manager.py` expects the result of each of
two children. A child that exits after it has put its report, and before the
parent looks, is marked finished; the loop ends and its record stays blank. The same
race is in `ParallelSessionBroker`; there `CompleteOnSuccess` carries the condition
that every writer's report was read, and `EndsOrStranded` names the one way the caller
can wait for ever. `ParallelIntegrationExecute` inherits it from the pool: a child's error or
rows may be missing from what `execute` reports (`ReturnIsExplained`).

Other disagreements and surprises met while modelling; the models contain this behaviour, and
the properties above hold in spite of it:

- A comment of the source adapters (`async_sql_source_adapter.py`, lines 60-61) says that a limit of
  `None` makes the whole result set one batch. SingleProcess: the batch is written; then
  `end += limit` raises `TypeError`, and the load counts as failed (`Advance`).
- ADR-0007 says a crashing worker does not take the job down. ProcessPool: liveness
  is only looked at after a report was read, and the read has no timeout (`ReturnsOrStranded`).
- ADR-0006 says a crashing subscriber loses the events of the crash. PubSub: the listener thread
  ends at the first callback that raises, and all later events are lost for everybody.
- ADR-0006 ties the broker to the run. Lifecycle: a set-up that fails after the manager
  process was started leaves it running, and the error of `join` replaces the one that ended the run.
- The tests describe initialized, started, finished as a strict sequence. Lifecycle:
  `FunctionTimedOut` of a single-process write passes every handler, and the run ends without a
  finish of anything and without a rollback call. If the connection is lost by then, closing the
  session raises in the finally clause and even the timeout is not what the caller sees
  (`CloseSession`).
- `close` deletes the broker that only `Integrator.__init__` makes, so that each further
  `integrate` on the same object raises (Lifecycle, `CallAgain`).
- The SQLite connector swallows the error of an insert: a call returns without having written,
  retried or told anything (DatabaseWrite, kind "silent", which `WrittenOnReturn` excepts).
- The big data and web service adapters call methods that their contexts do not have, or
  raise by themselves: no source or target of these kinds can be read or written (SqlTransfer).
- ADR-0002 keeps sessions apart by thread so that none leaks from one request into another.
  Sessions: with origins "*" and a request without an `Origin` header, `set_headers` raises before the
  session is closed, and the next work of the thread inherits its changes.
- A read of a CSV file without rows hands over one page, with `Id` 1, no data and a range from 0 to 0,
  and waits for its answer if the window is one page; a read of an empty topic hands over nothing
  (QueueConnector, `EmptyChunk`).
- The rest of a Kafka read is counted twice, which moves the `Start` and `End` of its last page
  by its own length (QueueConnector, `RestPage`).
- ADR-0005 lays the file of the environment, named by `ENVIRONMENT`, over `application.yml`.
  `config_manager.py` reads one file only, named by `PYTHON_ENVIRONMENT`, or any other if that one is
  missing; Startup only keeps that reading may fail.

## Fairness

Weak fairness per thread: the interpreter and the operating system run every
thread that can run. For a writer it also says that an adapter call returns,
raises or is timed out, which `func_set_timeout` enforces for writes; reads are
assumed to return. For the listener it says that a callback returns unless it
hangs, which is a separate outcome. `JoinWorker` and `JoinListener` are always enabled
because `Thread.join` has a timeout. Crashes, vanishing threads, late writes,
stray messages, subscription changes and dropping a pool get no fairness. In
ParallelOld the same holds for each process, with the caller's last step included: the pool is
dropped, since `execute` has returned and its last reference is gone. In QueueConnector the
reading thread is fair and so is a caller as long as it lives, without which no window would
ever open; polls return because they have a timeout. In
SingleProcess and Lifecycle only the calling thread is fair: driver calls return or
raise. DatabaseWrite, SqlTransfer, Sessions and Startup have no fairness: only their safety
is checked, and each of their works is one sequence of calls that return or raise.

## Proofs

Every safety property the passing runs check is proved for every value of the
constants, and so are the four refinements. Each proof has the same shape: an inductive
invariant, a conjunction of named parts, checked with TLC on the run's instance first except
where a part quantifies over all naturals; a lemma that it holds at the start; for every action a lemma on what the step changes (`...Effect`,
`...Keeps`) and then one lemma for each part; and the theorem, which reads the property off the
invariant. The theorems assume only the `ASSUME`s of the module.

`ParallelLoadProofs` proves for every number of writers, page size, row count,
row count held and choice of faults (only `SizeAssumption`, `HeldAssumption` and
`FaultAssumption`):

- `TypeCorrect`: `Spec => []TypeOK`. `TypeOK` bounds `transmitted` by
  `ProcessCount`, which is not inductive: the source adds one when it puts a page.
  `WindowInv` adds that it has room when it puts and is full when it waits.
- `RowsAtMostOnce`: `Spec => []AtMostOnce`. A page that was cut but has not
  landed is in one of three places: on `dataQ`, with a writer that is in state
  "page", or in `late`. `OnceInv` says that all these pages lie below `Bound`, the
  first row not yet cut (`AllPending`), that none of their rows has been written
  (`Unwritten`), that no two of them overlap (`AllApart`), and that no row beyond
  `Bound` has been written (`NothingAhead`). Cutting a page uses `NothingAhead`;
  a page that lands uses `AllApart` to leave the others unwritten; moving a page from
  one place to another keeps the set of places disjoint (`GetOnce`, `LandedOnce`).

- `WindowIsAccounted`: `Spec => []FlowControl`. `SumInv` counts the pages that are out: on
  `dataQ`, with a writer that is `Busy`, and answered on `ackQ`. While the source still cuts
  pages the three add up to `transmitted`, and only pages are on `dataQ`. `StartInv` says that
  a writer is started once, without which a writer at work could be set back.
- `ReturnIsComplete`: `Spec => []CompleteOnSuccess`, and `ThreadsImplementBulkLoad`:
  `Spec => BulkSpec`. `CallInv` follows the reports from the writer over the result queue to the
  caller (`ReportInv`) and what the caller may conclude at each of its places (`MarkInv`).
  `PlaceInv` says that endings follow the last page; `CoverInv` that, while no writer has
  failed and the source holds what it counted, every row that was cut is written or in a page
  still on its way; so once an ending was taken no row is left. `CountInv` says whose each row is: there is a function from
  rows to writers under which `total[w]` is the number of rows of `w`, and a row without
  an owner was written by a writer that failed. From it the sum of the reports is a number of
  rows that are written (`Backed` in BulkLoad), and all of them if none failed. `LateInv`
  ties late writes to failed writers.

`ParallelOldProofs` proves for every number of children and crashes, every page size and row count
and every choice of faults:

- `PoolAccountsForResults` and `PoolIsQuietOnReturn` (`Spec => []ResultsAccounted` and
  `Spec => []QuietOnReturn` of ProcessPool). `PoolInv` follows a report through the three
  places it can be in, result queue, the parent's hand and record, and says it is in one of
  them only, under its child's id (`ReportInv`); that whoever is marked is over or was told
  to stop (`MarkInv`); and that a child that is over has reported, crashed or was stopped
  (`AccountInv`).
- `OldReturnIsExplained` (`OldSpec => []ReturnIsExplained`) and `OldImplementsBulkLoad`
  (`OldSpec => BulkSpec`). To `PoolInv`, which every step of ParallelOld keeps, `LoadInv` adds
  where the pages are: `PageInv` (each page in one place, apart from the others, unwritten),
  `CoverInv` (a row the source has passed is written or in such a page), `EndingInv` (endings
  come after the last page), `LateInv` and `CountInv` as above. The row count is a fold over the
  records; `SumOfRows` says that it is the value of any function on sets of children that adds
  them one by one.

`SingleProcessProofs` proves for every size of the result set, every set of limits and
every choice of faults (only `SizeAssumption`):

- `TypeCorrect`, `GaplessBeginning` (`Spec => []LandedIsPrefix`), `ReturnIsComplete`
  (`Spec => []CompleteOnSuccess`) and `CountBacked` (`Spec => []CountIsBacked`) follow from
  one inductive invariant. None of them is inductive: `LandedIsPrefix` says nothing
  about where the page lies. `PageInv` says that between the write and the counter
  the page is exactly the rows from `count` up to `offset`; `TargetInv` that the
  target holds the rows below `count` before a write and below `offset` after it, and
  after a failure those below some number in between; `LateInv` that a write that
  timed out has landed nothing yet; `EndInv` that the iterator ends at `size` only.
  `NextPage` computes the page that is fetched, with `PageSize` for the number of its rows;
  `LandAll` and `LandSome` say what landing it does to a beginning of the result set.
- `ImplementsBulkLoad`: `Spec => BulkSpec`. Each write is a batch of BulkLoad by
  `LandBatch`, since none of the rows from `count` on is there; the row count returned is
  backed by `Backed`; all other steps stutter.

`SqlProofs` proves of DatabaseWrite, for every set of connectors and operations, every number of rows
and retries and every choice of faults (only `CountAssumption`):

- `TypeCorrect`, `EveryCopyExplained` (`Spec => []CopiesExplained`), `CopiesLimited`
  (`Spec => []CopiesBounded`), `ReturnMeansWritten` (`Spec => []WrittenOnReturn`) and
  `RaiseMeansExhausted` (`Spec => []RaisedIsExplained`). The invariant adds to them what the
  open transaction holds: nothing before a try, the whole batch before a commit
  (`PendingInv`), which is what the rollback between two tries is for; that all rows
  are there when an autocommit connection gets to its commit (`ThereInv`); and
  how many tries the attempts so far can have made (`TriesInv`). `SentProps`,
  `CommittedProps` and `EndTryProps` say what a statement, a commit and the end of a failed
  try change.

Of SqlTransfer it proves, for every set of source sizes, page length, number of foreign changes
and whether or not statements may raise (`SizeAssumption`, `RaiseAssumption` and
`NoneAssumption`, that `None` is no list of columns):

- `PagesFaithfulHolds` (`TransferSpec => []PagesFaithful`) and `QuietCreationHolds`
  (`TransferSpec => []QuietCreation`), from `TransferInvariant`. `PagesFaithful` speaks of what
  is at the target, and says nothing of the page in hand or the order the next one is cut from.
  `PagedInv` says that the rows of an engine's order lie behind one another, as long as nobody
  inserts (`Increasing(rel)`), that what was copied lies before the page in hand, and both
  before whatever comes after `start`; and that without any foreign change they are exactly the
  rows up to `start`. A row appended at the end is greater than all others and a removed one
  leaves the rest ascending, which is why only an insertion is excepted.
  `PlaceInv` adds that the loop's count reaches the table's size unless a query is paged by a
  smaller one, and `ReturnInv` keeps what was true at the return through later changes
  of the source. `IteratorInv` says that an iterator's rows are copied, in the batch or
  not yet fetched, each in one of the three only. `MakeInv` says that a table that was not
  there at the check can only be there at the statement if another client changed something.
- `ValuesInPlaceHold` (`TransferSpec => []ValuesInPlace`). A written row is always one that the
  plan makes (`RowAt`), so the theorem is about the pairs of lists of columns alone: names
  are paired by position (`PairedColumns`) or looked up by name (`SameColumns`), and
  `RowInPlace` puts the two together. The lists stay those of the model, over two columns.

`LifecycleProofs` proves for every number of integrations and calls and every
choice of faults (only `BoundAssumption` and `FaultAssumption`):

- `TypeCorrect`: `Spec => []TypeOK`, inductive as it stands. The actions fall into
  four groups (`FrameNext`, `TellNext`, the work on a target, the surroundings) with
  a lemma each; those of `TellNext` only publish, and share `PublishType` and
  `PublishErrorType`.
- `NormalReturnIsSuccess`: `Spec => []CleanMeansCommitted`. What holds at the return
  was established far earlier, so `IInv` follows the caller through its stack of
  handlers. `ControlInv` ties its place to the exception in flight (`ErrInv`), the
  broker (`BrokerInv`) and the transaction (`SessionInv`): `join` can only fail when
  the broker was never started, and then nothing was committed; and a commit whose answer was
  lost has left the database's error in flight. `WorkInv` says, while
  nothing is in flight, which integrations are done at each place. An event once
  published stays (`SentStays`), and a step that changes one target leaves the
  others done (`DoneStays`).

- `ErrorReachesCaller`: `Spec => []ErrorIsExplained`. `ExplainInv` says of each kind of
  exception in flight what it can have replaced and where it can be raised: `put` only an odd
  exception or after the manager's death, and never a timeout, which no handler publishes;
  `db` only under a database fault, and in place of another exception only in a run that is
  rolled back: by the rollback or, the one way to hide a timeout, by the close of a session
  whose transaction is open; `join` only where the broker was never started.
- `EventsAreSequenced`: `Spec => []Sequenced`. `OrderInv` says that all that was accepted lies
  behind the caller's place in the run (`Behind`, with `Reached` for the stages), so an
  event that is published next is later than all others; `PairInv` that, as long as nothing
  kept an event from being published (`Heard`), whoever started is finished or at work;
  `StopInv` that no failure was announced while the run goes on and nobody beyond the current
  integration was touched.
- `AnnouncedSuccessIsReal`: `Spec => []SuccessIsReal`. `RealInv` adds that all integrations
  before the current one have announced their finish; `WorkInv` from above gives the rest, that
  a finish without an error finds the target loaded and the operation's finds all of them done.

`QueueProofs` proves of PubSub, for every set of events and callbacks and every number of messages and
changes, whether or not callbacks raise and hang:

- `JoinMeansDrained` (`Spec => []Drained`) and `BrokerImplementsDelivery` (`Spec => DeliverySpec`).
  `FifoInv` says that what was published is what was dispatched, then the message channel,
  then what the worker holds, then the publish channel, position by position, also after the
  manager is gone; `EndInv` that the worker passes nothing on after an end, so a message that
  is dispatched never follows one; `TurnInv` that the listener handles what it dispatched last
  and ends at an end only; `JoinInv` that a join in time found its thread at an end. A publication
  is an `Accept` of EventDelivery, the listener's `get` a `Deliver`, all other steps stutter.
- `RoundsAreComplete`: `Spec => EveryoneServed`, an action property. `RoundInv` says that the list
  in use still has everyone who was subscribed at the dispatch and that those before `pos`
  were called. It is kept because a list object only grows at its end (`ListsGrow`):
  unsubscribing makes a new one. `WithoutKeepsOthers` says what that one holds; `Without` is a
  recursive function, and `WithoutSteps` first shows that it exists.
- `TypeCorrect`: `Spec => []TypeOK`.

Of QueueConnector it proves, for every page length and window and every number of entries,
reads, faults and calls (`WindowAssumption` and `CapAssumption`):

- `ReadsFaithful` (`ConnectorSpec => []PagesFaithful`). While a read is under way it has put or
  holds exactly what it polled, in order (`OrderInv`), also when an earlier read failed; the
  property only speaks of a subset then, since a read that raises drops its open page.
  `RangeInv` follows `total` from page to page, `EmptyInv` says that a file reader that is at
  its end with neither a page put nor one open has read a file without rows, and `FrameInv` says that all lines a file
  reader has passed are rows and that the frame it keeps holds the row that was asked for.
- `LossBoundedHolds` (`ConnectorSpec => []LossBounded`). What
  makes it inductive is in `PlaceInv`: an offset is never committed beyond the position, an open
  page is shorter than `Limit` wherever a poll may raise, and no page is open between two reads.
  `NoMoreLost` says that a step that moves the position hands over, holds or steps over
  what it passes, and `OpenPageLost` that an error loses the open page and nothing else.
- `WindowHoldsAlways` (`ConnectorSpec => []WindowHolds`). `WindowInv` counts, besides the pages that wait
  and the answers, those the read may still put (`ProcessCount - sent`): the three together
  stay within one window for each read that used the queues (`Room`).
- `TargetHoldsAlways` (`ConnectorSpec => []TargetHolds`). `TargetInv` adds that a topic marked for
  deletion was asked to be deleted, and that a file has no producer that could hold anything back.

`SessionsProofs` proves for every set of threads and every number of works and of steps of their bodies:

- `WorksAreIsolated` (`Spec => []Isolated`) and `TasksAreAtomic` (`Spec => []TaskAtomic`).
  `SessionInv` says that what a live session holds belongs to the work its thread is at, or to
  one that may leave changes behind (`Leaky`: a request without an origin); `TaskInv` that the
  changes of a transactional function are in its session or in the database until its commit, and
  in the database after it; `EndInv` that what a final commit wrote belongs to a work that
  returns. `WorkInv`, `FreshInv` and `PlaceInv` keep the works of different threads apart.

`StartupProofs` proves for every set of threads and modules and every number of providers,
faults and later imports:

- `PdiIsReady`: `Spec => []ReadyUnlessOverlapped`. `OwnInv` says that a provider belongs to the one
  thread that makes it; `AloneInv` that without overlap one thread at a time starts up and no
  other container is there meanwhile.
- `ModulesAreBound`: `Spec => []ResolvesBound`. `LateInv` says that a provider not `late` has no
  other startup beside it, and `LoadedInv` that each module it has come to is loaded and stays
  so, but for those it cannot know.

`TypeOK` of SingleProcess, DatabaseWrite, Lifecycle and PubSub, `CountIsBacked` and `CopiesBounded`
are proved and are in no run; so are the types of SqlTransfer and QueueConnector, which are
parts of `TransferInv` and `ConnectorInv`.

Induction over data is not available as a library theorem, since those take an operator as a
parameter. Where a proof needs it, it takes the least element of the set of counterexamples
(`LeastNat`, from the well-foundedness of `<`) and derives a contradiction: `SumOfRows` in
ParallelOldProofs, `WithoutSteps` and `WithoutKeepsOthers` in QueueProofs.

Model-checked only: the liveness properties (`EndsOrStranded` of ParallelLoad and ParallelOld,
`ReturnsOrStranded`, `EveryoneEnds`, `Returns`, and `Ends` of SingleProcess and
QueueConnector), which are outside the prover's reach, since they rest on fairness and
so on ENABLED. `EveryResultReported` is violated by the code.

## Not modelled

Left out of modelled components: two threads that change subscriptions at once; column
types, `DROP TABLE` and the look-ups of the database inspectors; the SOAP client below the web
service context; entity fields and specifications of the repositories; scopes and object
graphs of the injector library; finding a handler class by its name. Sessions knows neither a
lost connection nor a lost answer to a commit: a commit there is refused by the database, with
nothing written, or done. DatabaseWrite has both for the connectors, Lifecycle both for the
session around an operation.

Not modelled, because there is no behaviour in them that a step could get wrong: which
configuration value is chosen (a function of files and environment, read once), parsing and
marshalling of requests, HTML reports, code generation for commands and queries, spans and
log output, the JSON, delivery, file and cryptography helpers. They convert one value into
another, and what they convert is a value of the models at most.
