# A verification of otelview-postgres

otelview-postgres is a gRPC storage server: OTLP exporters write traces, logs
and metrics through it into PostgreSQL, and otelview or Jaeger query them back.
The Rust code is short and holds almost no state of its own. What is hard about
it lies between the code and the database: transactions of several statements
that race, deadlock, lose their session or are abandoned half way; a retention
task that deletes beneath everybody else; queries made of several statements
that each see another moment of the table; results streamed through a bounded
channel to clients that may leave; instances that start, crash and are started
again over one schema. This directory models that, checks it with
TLC and proves the central part with TLAPS.

Source paths below are relative to the repository.

## Inventory

| Part | Code | State it keeps | Operations |
|---|---|---|---|
| Span export | `src/store.rs` `Store::write`, `dedupe_spans`, `span_row`; `src/server.rs` `TraceService::export` | table `spans`, keyed by (trace_id, span_id); the primary pool; one transaction per request | collect and reject rows, deduplicate, begin, INSERT .. ON CONFLICT in chunks of 1000, commit, answer |
| Retention sweep | `src/retention.rs` | its ticker; otherwise only the three tables | `parse_retention`; a pass = batched DELETEs by ctid over spans, logs, metric_points; passes for ever |
| FindMetrics | `src/metrics.rs` `find_metrics`, `downsample` | none | thin each series in SQL, cut to the row limit, thin again in memory |
| ListMetrics | `src/metrics.rs` `list_metrics`, `metric_info`; `src/store.rs` `distinct_indexed` | a JoinSet for the call; the read pool | scan the names, one task per name, two statements each, collect by index |
| Result streaming | `src/server.rs` `stream_chunks`, `stream_ids` | a channel and a task per call | decode, chunk, send; end, error, cancellation |
| Trace queries | `src/store.rs` `find_ids`, `spans_for_ids`, `summaries`, `operations`, `dependencies` | none | a statement, or two one after the other |
| Log and metric export | `src/logs.rs` `write_logs`, `src/metrics.rs` `write_metrics` | tables `logs`, `metric_points`, without keys | as span export, plain INSERTs |
| Log search | `src/logs.rs` `find_logs` | none | one SELECT; `escape_like`, `hex_decode`, `body_text` |
| Diagnostics | `src/diagnostics.rs` | none | planner estimates, distinct services |
| Startup and shutdown | `src/main.rs`, `src/config.rs`, `Store::migrate`, `migrations/`, `systemd/otelview-postgres.service` | the schema | connect, migrate, parse and spawn retention, serve, stop on a signal, restart on failure |
| Banner, protocol, build | `src/banner.rs`, `src/proto.rs`, `build.rs`, `proto/` | none | formatting; generated code |

How they interact. Every handler is a future of its own on one runtime, and the
only things they share are the two pools (one pool when no replica is set) and
the tables. Exports and the sweep meet on row locks in the primary; queries see
committed rows only, each statement a snapshot of its own, on a replica perhaps
an older one. A handler whose client leaves is dropped at an `await`; a
statement already sent goes on in the server. There is no retry inside the
program: exporters retry, the next sweep retries, the supervisor restarts.

What makes each part correct:

* span export: an export is stored as a whole or not at all; the last
  occurrence of a span wins; success is reported only for what is stored;
  retries and abandoned attempts do no harm; everybody ends and gives
  connections and locks back.
* retention: nothing within its period is deleted, whatever races; everything
  else goes in the end; a pass goes through all three tables.
* FindMetrics: within the budget, not far below it, both ends, no holes.
* ListMetrics: complete for what was there all along, in order, nothing invented;
  whole or failed, whatever statement fails; the statements it leaves behind
  keep no connection.
* trace queries: the newest matches; what was found is answered unless it was
  deleted meanwhile; a summary counts what exporters sent and the sweep left,
  whichever service's spans came first.
* log and metric export: whole requests or nothing, success only for what is
  stored, a second copy only when an exporter could not know better.
* log search: what was meant, letter for letter, and of that the newest as far as
  the depth goes; what an exporter was told is stored is found.
* dependencies and operations: every call counted once, as soon as its parent is
  there and for as long as both are; every operation listed once.
* streaming: a prefix of the answer at all times, and a truthful end.
* startup: nobody serves on half a schema, whoever made it and whoever died while
  making it; an instance that is wanted comes up, and what others write meanwhile
  ends; retention runs as it was asked for or not at all.

`PROJECT.json` lists under `hazards` where this can go wrong, by source line.

## Modules

| Module | Role |
|---|---|
| `SpanRows` | operators: from an export request to the rows `Store::write` upserts, and what they make of a table |
| `SpanStore` | abstract specification: what the span store promises an exporter |
| `SpanExport` | the export path: exporters, handlers, pool, transactions, row locks; implements `SpanStore` |
| `SpanExportProofs` | its theorems |
| `Retention` | the sweep against exports that rewrite, lock and append rows |
| `RetentionProofs` | its theorems |
| `MetricSampling` | FindMetrics as operators over every small table |
| `MetricSamplingProofs` | its theorems |
| `MetricCatalog` | ListMetrics as concurrent tasks on a shared pool |
| `MetricCatalogProofs` | its theorems |
| `ChunkStream` | the bounded channel between a query's result and its client |
| `ChunkStreamProofs` | its theorems |
| `TraceSearch` | FindTraces and FindTraceSummaries against exports and the sweep; GetDependencies and GetOperations over the same table |
| `TraceSearchProofs` | its theorems |
| `AppendStore` | abstract specification: what the log and metric tables promise an exporter |
| `AppendExport` | log and metric export; implements `AppendStore` |
| `LogSearch` | FindLogs over the table `AppendExport` fills |
| `LogSearchProofs` | the theorems of both |
| `Lifecycle` | the processes of several instances, the migrations and PostgreSQL's table locks |
| `LifecycleProofs` | its theorems |
| `MC*` | instances for TLC, one module per specification |

`SpanExport` extends `SpanRows` and instantiates `SpanStore` with a refinement
mapping. `AppendExport` does the same with `AppendStore`, and `LogSearch` extends
`AppendExport`. `Retention` keeps its exports coarser than `SpanExport` does: one span
export at a time, since exports exclude one another on a row, but statement by
statement, since the sweep meets it between two of its rows.

### SpanExport

One *attempt* is one call of `Export`: its handler and its transaction. `pc` is
where the handler stands in `Store::write`; `stmt` holds the rows of the INSERT
that is running and `done` those the transaction has written, which are also
the locks it has. `Arrive` is the part before `begin` (rows, overflow error),
`Begin`/`AcquireTimeout` the pool, `NextStatement`, `UpsertRow` (a row at a time,
because that is how the locks are taken), `StatementDone` the chunk loop,
`SendCommit` and `Commit` the two halves of `tx.commit().await`, `Reply` the
response. `Abandon` drops the handler (client gone, deadline, answer lost): what
was sent runs on and may still commit; only a transaction between two
statements is rolled back. `SessionLost` and `DeadlockVictim` are PostgreSQL's.
Of a span the model keeps its key, whether the key is well formed and whether
its timestamps fit; a row is known by its place in the request, so "which
occurrence won" is visible in the table. Of the reply only success is kept, not
the `partial_success` that counts rejected spans.

`SpanStore` says the same without any of this: `Submit`, `Apply` (the whole
request, last occurrence wins, perhaps more than once while the exporter still
waits), `Report`. The mapping takes `applied` to the exporters of which an
attempt has committed and the other variables to themselves. So after success is
reported nothing of that export is written any more, though an abandoned attempt
may still be under way when its retry succeeds: one whose COMMIT was not sent
yet will never send it, and one whose COMMIT was sent holds the locks on all its
rows, so that the retry waits for it. That a COMMIT takes effect after the
exporter has given up for good is allowed by `SpanStore`, as it is by the code.

### Retention

A row version has a time and a ctid. A pass takes the tables in order;
`SelectBatch` is the subquery (any `BatchRows` expired rows), `VisitRow` the
DELETE coming to its next row, waiting if an export has it locked and skipping
it if its version has changed, `FinishBatch` the statement's commit and the test
on `rows_affected`. `due` (what the pass found expired and nobody changed since)
and `skipped` are history variables for the properties. Timestamps of rows are
arbitrary: old, zero, or ahead of the clock.

### MetricSampling

The state is the table as far as it matches a query, a sequence of series
names in time order; the operators are the SQL's columns (`Count` is `cnt`,
`Rank` is `rn`) and `downsample`, whose indices into a series in time order are
`Nth`. Integer division is the code's.

### MetricCatalog

The handler waits for a connection, scans, spawns a task per name and joins them
in any order; a task waits for a connection before each of its two statements
and reads the table as it is then. Other queries take and free connections of
the same pool at will, exports add and the sweep removes points. Any wait and
any statement may fail (`ScanFails`, `TaskFails`: no connection in time, a lost
session, a recovery conflict on a replica), and so does the descriptor of a
metric that has gone (`InfoMissing`).

When the call ends (`Return`: answered, failed or dropped) its JoinSet is dropped
and every task aborted. A task that waits is dropped there and then, one that a
worker happens to be polling goes on until that poll ends (`polled`, `PollEnds`).
An aborted task whose statement was sent is `left`: the statement runs on and its
connection stays in use until the database is done with it (`LeftDone`,
`ScanLeftDone`). `stable`, `seen`, `gone` and `broken` are history variables. The
table stands still once the call has ended; nothing reads it any more but such
statements.

### TraceSearch

One search at a time: `Search` is the request, `Find` the statement of `find_ids`,
`Fetch` that of `spans_for_ids`, `NothingFound` its early return, `Fail` any error;
`Summaries` is what FindTraceSummaries sends. The table is the one the read pool
shows: a replica shows the same commits in the same order, later, so what holds
between two statements on the primary holds on a replica. (With several replicas
behind one address the second statement may see less than the first; nothing here
covers that.) An export is one step, since queries see it only when it has
committed; the sweep is one step per DELETE. `service_name` stands for all
filters on names and attributes and `start_time_max` for both bounds on the
start; that the filters look at one span, and all at the same one, and that the
second statement has none of them, is kept. A request may bring any spans, one
of each key: a child alone, before its parent or without one ever coming.
`owed`, `sent` (what exporters sent last of each span) and `swept` (the keys the
sweep has taken since) are history variables; `SummariesAreCurrent` and
`CallsCountOnce` speak of the table through the last two only.

GetDependencies and GetOperations are one statement each, and so functions of the
table. `Calls` is the self-join and `Dependencies` its GROUP BY. `ListOperations`
walks the index by name as the recursive statement does; which of several spans
of one name a probe comes upon is open, hence it gives a set of answers. The
operations are numbered in the order of the index.

### AppendExport

As `SpanExport`, with plain INSERTs: no key, hence no lock to wait for, no
deadlock, nothing overwritten. Logs and metrics differ in their columns only and
share the module. `Fail` stands for every error before COMMIT took effect, the
pool's timeout included; `CommitUnseen` is the COMMIT whose session breaks before
the answer. A row is known by its attempt and place. `AppendStore` says that a
request is stored whole, perhaps several times, and success reported only when
at least one copy is there.

### LogSearch

A record has the fields the filters look at, its texts as sequences of
characters. `Matches` is the WHERE clause, `Like` PostgreSQL's LIKE, `FindLogs` the
set of answers. `Meant` is the reference: what the query means, without patterns
and without decoding. An answer is the set of records that ORDER BY and LIMIT
choose; the order in which they are sent is left out.
The module extends `AppendExport`, so its properties are checked in every table that exports, retries and lost
answers can make, and `AckedIsFound` relates the answer to an exporter with the
answers to searches. The sweep is left out here (`Retention` has it), and so is a
replica, on which an acknowledged record may be missing for a while.

### Lifecycle

`pc` is where `main` stands; `off` and `failed` are no process. The session of an
instance has one transaction at a time: a migration file, or an export or DELETE
that writes a table. That a process could have several sessions adds nothing
here, because writers do not exclude one another. A migration file is one simple
query message, and therefore one implicit transaction: its objects appear
together at `FinishFile` or not at all. `SendFile` is its first statement,
`LockTable` the SHARE lock of CREATE INDEX, which is taken before the index is
looked for and conflicts with writers; `queue` is the table's lock queue, first
come first served. `Make` is the creation, and a second creator of the same
object waits (`BeingMade`) and then fails with a unique violation (`LoseRace`).
A process that dies leaves its transaction to the server under an orphan's name
(`Die`): the backend is busy and learns of the loss only when it writes to the
socket, so the file may still commit. `FileFails` is the `?` in `main`.
`Configure` is `parse_retention` on both settings; `Seconds` computes in words of
`Word`, as a release build does. `Start`, `Stop`, `InstallContrib` are the
operator's, `Restart` the supervisor's (`Restart=on-failure`). Init takes the
schema of every older release.

### ChunkStream

Payloads are positions; a message is the positions it carries, or `Broken`, what
`merge` makes of a chunk with a payload that does not decode. The task and the
response body share a queue of at most `Capacity`. A response body ends after
its first error, so what the task sends afterwards reaches nobody. With
`ChunkSize` 1 the same module is `stream_ids`.

## What is assumed of PostgreSQL and the libraries

A simple query of several statements is one transaction. A lock is granted in
the order of its queue. An object created by another transaction and not yet
committed makes a second creator wait and then fail.
READ COMMITTED: a statement sees what was committed when it began; an upsert or
DELETE that meets a row locked by another transaction waits for its end and
then looks at the newest version, for the sweep by re-evaluating `ctid IN (..)`,
which a new version fails. Row locks last until the end of the transaction. One
transaction of a deadlock is aborted. A COMMIT has an effect or none, and
whoever loses the session does not know which. sqlx rolls a dropped transaction
back when its connection is idle again. tonic ends a stream at its first error
and drops the handler or body when the client goes away. Definitions that stand
for these are marked external in the map.

## Runs

| Run | Shows | Bounds |
|---|---|---|
| `span_export` | statements are legal, a batch equals row-at-a-time writes, retries never deadlock among themselves, the path implements `SpanStore` | 2 exporters, 2 attempts each, 3 keys, requests with repeats, malformed ids and overflow, statements of 2 rows, 3 connections |
| `span_export_settles` | every attempt ends and frees what it holds | 2 keys, statements of 1 row, requests in opposite orders (deadlock), pool of 2 for 4 attempts (exhaustion) |
| `retention` | no fresh row goes; an undisturbed pass drains all tables | 3 span keys, 1 log, 1 metric point; batches of 2, so that a full, a short and an empty batch all occur; 1 export, 1 failure |
| `retention_goes` | expired rows go in the end | 2 span keys and a log, batches of 2, so that a batch and an export can lock two spans in opposite orders; 1 export, 1 failure |
| `retention_drains` | *violated*: finding 1 | as `retention`, without failures |
| `metric_sampling` | budget kept and used, ends shown, no hole | all tables of up to 10 points in 2 series; max_points from -1 to 5; row limit 8 |
| `metric_sampling_budget` | *violated*: finding 2 | up to 8 points, no row limit |
| `chunk_stream` | prefix, truthful end, termination | 7 payloads in chunks of 2 (a short last chunk), channel of 2, every set of corrupt payloads |
| `trace_search` | the newest found, losses only by the sweep, summaries current, depth capped; calls counted once, operations listed once | 3 traces of one or two spans, four requests (one brings a child without its parent, one the parent; one rewrites a span so that it no longer matches and brings a child whose parent nobody sends), depths 1, 2 and a default above the cap of 2, DELETEs of one or two rows, 4 exports |
| `append_export` | whole copies, copies for a cause, implements `AppendStore`; searches find what is meant and what was acknowledged | 2 exporters, 2 attempts each; requests of two chunks, of none, and one with a record that overflows; statements of 2 rows; six queries; all needles of 2 and texts of 3 out of five characters, wildcards and the backslash among them |
| `lifecycle` | schema in order and whole, retention as configured, everybody wanted serves, writes end | 2 instances, 1 orphan, schemas of all 5 ages, 2 of the 3 tables written, 1 fault (crash, lost session or stop); settings with a refused period, a refused interval and an interval that wraps to zero; u64 scaled to 2^19 |
| `metric_catalog` | completeness, order, all or nothing, nothing invented, termination with every connection returned | 2 metrics, 2 services, pool of 2; any statement or wait may fail |

Why the bounds are enough to be of interest: a chunk boundary, a repeated key
across it, two transactions in opposite orders, an abandoned attempt beside its
retry, a batch that is full, short or empty, a series just below, at and above
one and two budgets, a full and an empty channel, an exhausted pool, two instances
racing for one migration file, a restarted instance racing with the orphan of its
own first life all occur within them. The mutants in `PROJECT.json` (definitions named `X_...` next to
`X`) each put back a plausible bug, and the run finds it. Export and sweep bounds
count what disturbs the system (attempts, writes, failures), not what it does.

Symmetry is used for the exporters and span keys in the safety runs only.

## Fairness

* `SpanExport`: weak fairness per attempt of what the server does. The runtime
  polls every ready future, the pool serves its waiters or times them out,
  PostgreSQL executes what it was sent and breaks deadlocks. Nothing is assumed
  of exporters, and nothing of failures.
* `Retention`: weak fairness of the sweep's steps, of an open export going on to
  its commit (it is not idle: `Store::write` issues its statements one after the
  other) and of the resolution of a deadlock; strong fairness of an export taking
  its next row lock. That is the row's lock queue: an export that waits for the
  sweep is next when the sweep's transaction ends, so the sweep cannot come back,
  take the row first and lose the same deadlock for ever. With weak fairness
  alone `ExpiredRowsGo` fails in just this way. Writes and failures are bounded:
  that is the assumption that neither disturbs the sweep for ever.
* `ChunkStream`: the task is polled; the client reads or leaves. A client that
  does neither keeps the task and its rows for as long as the connection lives;
  the code sets no limit, and this is not assumed away silently: without that
  conjunct `Ends` fails.
* `Lifecycle`: weak fairness of each process (`main` goes on, and the supervisor
  starts it again) and of each session of the database. The lock queue makes
  weak fairness enough: whoever waits for a table stays in its place. Nothing is
  assumed of operators, and nobody need ever write; faults are bounded.
* `MetricCatalog`: the handler and each task are polled, and a poll ends; waiting
  for a connection ends with one or with the acquire timeout; PostgreSQL comes
  to an end with every statement, those included that nobody waits for any more.
  Nothing is assumed of other queries.

## Theorems

All are for arbitrary values of the constants under the named assumptions of the
modules. The assumptions say what kind of thing a constant is (a size is a
positive number, a request a sequence of items, a mark such as `Malformed` or
`Nothing` no value of the set it stands outside of), with one exception, named
where it is used below.

Several theorems are about what a recursive function or a fold of the library
computes for every input. The induction theorems of the library take a predicate
as an operator, which the provers cannot instantiate; a *set* of naturals can be
given to them. So the modules that need it prove `Least` (a set of naturals has a
least element, from the well-foundedness of `<`) and `Inductive` (a set that has
zero and every successor is all of them), and run each induction over the set of
the numbers for which the claim holds. That a recursive function has a value at
all is such an induction too (`WritesExist`, `SumExists`, `WalkExists`, `ReadsExists`,
`AnswersExist`): it is built up from smaller domains.

`SpanExportProofs`. The inductive invariant is
`TypeOK /\ RowsInv /\ LocksInv /\ ClientInv /\ CommitInv`. `RowsInv`: what a
transaction has written, and what its statement is writing, are rows of `Kept`
taken from the front, and a transaction at its COMMIT has written all of them;
without it nothing can be said about the chunk loop. `LocksInv`: no two
transactions have written one key. `ClientInv`: attempts are made one after
another, each when its predecessor is aborted or abandoned, and only requests
that can be stored get as far as the pool. `CommitInv`: no attempt commits past
an earlier one of its exporter whose COMMIT is on its way, unless there are no
rows to lock; it is what keeps a reported export from being written again, and
it needs the other three. From it: `TypeCorrect`, `NoRowTwice` (rows
of `Kept` have distinct keys), `RetriesDoNotDeadlock` (attempts of one exporter
lock prefixes of one sequence, so one that waits waits for one that is further,
and the furthest waits for none), and `Implementation`: `Spec => ImplementsStore`,
the commit mapping to `Apply` and everything else to `Submit`, `Report` or a
stutter. `BatchEqualsRows` says that the kept rows at once leave the table that
the spans one by one would: `RowAtATimeIs` finds out what the library's fold is,
`Written` says what its first n steps have made of the table (of each key the
last occurrence), `OneMoreWritten` is the step of the induction, and the last
occurrence of a key is what `Kept` keeps.

`RetentionProofs`. The invariant adds to `TypeOK`: version numbers are handed
out in order; what lies before the cutoff is past its period (the clock only
advances); a batch entry that is still current is before the cutoff; a deleted
row is before it too and nobody else has it. From it `TypeCorrect` and
`SweepSparesFresh` (`NeverDeletesFresh` as an action property). For
`UncontendedPassDrains` a second invariant is added (`DrainInv`). `OnceInv`: a
statement has each row once, to visit or deleted, so that its count is right.
`DueInv`: what is still due is before the cutoff and, while nothing was skipped, in
a table the pass is at or has yet to come to. `ShortInv`: a statement either fills
its batch or has all that is due in its table. So, while nothing is skipped, a
short count ends a table only when nothing due is left in it.

`ChunkStreamProofs`. `QueueInv`: the j-th message in the channel is the chunk that
begins `j - 1` whole chunks after what was received, and the task goes on where
the channel ends; `TaskInv`: a task that is done has sent everything or has
nobody to send to. From it `TypeCorrect`, `StreamIsPrefix` and
`StreamEndsTruthfully`.

`TraceSearchProofs`. `OwedInv`: what is owed to a search that has found its traces
is in the table, and what is owed to one that is answered is in the answer. It
gives `SearchLosesOnlyToSweep`. `StandingInv`: the table is exactly `Standing`, what
exporters sent last and the sweep has not taken since, so that a statement about
the table is one about the exporters and the sweep. From it `SummariesShowTraces`.
`TypeInv` adds that the table is finite (a request is) and has one row per key, and
gives `TypeCorrect` and `SearchFindsNewest`: the latest matching span of a trace
exists, and `find_ids` orders by it (`FindIdsIs`). `OperationsListed` is about the
recursive statement: each step comes upon a row of the next name if there is one
(`ProbeIsFirst`), there is an answer (`AnswersExist`), and every answer grows in
order and ends past the last name (`ListsMore`, `OperationsInOrder`).
`CallsCounted`: the counts are sums over pairs of services (`SumIs`, `SumOfCalls`),
a called span counts in one pair only, because it has one parent
(`CallPerSpan`), and by `StandingInv` which spans these are is a matter of what was
sent and swept.

`LogSearchProofs`, of `AppendExport` and `LogSearch`. `ClientInv` and `AttemptInv`: attempts are numbered in the
order they are made, and of those before the latest the exporter knows that they
failed, or nothing; `InsertedInv`: at its COMMIT a transaction has inserted the
whole request, none of whose records overflows; `TableInv`: the table is exactly
the requests of the committed attempts. From them `TypeCorrect`,
`DuplicatesForCause` and `ExportImplementsStore` (both ways a COMMIT can take
effect map to `Apply`, the answer to `Report`). `SearchInv` adds that the table is
finite and that an exporter was told "stored" of a committed attempt or an empty
one. `SearchFindsWhatIsMeant` needs four facts about the conversions, for every text:
what `FlattenSeq` and so `escape_like` yield for one more character (`EscapeAppend`:
itself, or a backslash and itself); that reading one more character of a pattern is
one `Step` (`ReadingAppend`); from these, by induction over the search, that its
pattern reads to where the search ends in the text, letter for letter but for case
(`OpenedReads`, `PatternIsLiteral`); and that a decoded trace id is a record's when
the two agree in hexadecimal (`DecodedIsMeant`). `AnswerIsNewest` is ORDER BY and
LIMIT. `AcknowledgedIsFound` joins it with `TableInv`. `TextsAssumption` is about
types, and takes severities for OTLP's, which have no sign.

`LifecycleProofs`. `FilesInOrder`: a process is at a file, and a transaction runs
one, only when all earlier files have been committed; it must speak of orphans
too, since they commit after their process is gone. `AtItsFile`: the transaction
of a live process runs the file its process is at, so that the process may go on
when it commits. `WholeWhenReady`: past the last file everything is applied.
With `SchemaIsPrefix` itself and the shapes of the variables they are inductive,
and give `SchemaInOrder` and `SchemaWhole` for any number of instances, orphans
and faults. None of it depends on the locks: the order of the files does not, and
what does is the liveness, which TLC checks. `TypeCorrect` adds the lock queues, the
settings and the budget of faults (`EnvOK`); `RetentionInForce` follows from
`ConfiguredInv`: a process past `Configure` has the task that `Configure` made of the
settings, and no other step brings one there (`OnlyConfigure`).

`MetricCatalogProofs`. The walk of the loose index scan is a recursive function:
`WalkIs` and `WalkLists` say that it lists every name of the table once, in order.
`ShapeInv`: the names are in order and the answer has a place for each. `LiveInv`: a
listing that succeeds has joined every task. `OutInv`: at the place of a joined
task is what that task read, which is why the order in which tasks end does not
matter. `StableInv`: what is stable has its name in the list, and its services are
among those its task has read. `SeenInv`: whatever is in the table while the call
lasts, and whatever a task has read, is in `seen`, and a task that read no
services has its name in `gone`. `CauseInv`: a listed name without points is in
`gone`, and after a failure some task has the error, for the handler to find. With
`AllOrNothing` itself they are inductive, and give `TypeCorrect`, `ListingInOrder`,
`StableListed`, `FailsAsAWhole` and `NothingInvented`.

`MetricSamplingProofs`. There is no invariant but that the table is a sequence of
series; the work is arithmetic over places. `Places`, `NthPlace`: rows in time
order have the places 1 to their number, each once. `Spread`: the indices of
`downsample` have both ends and strictly increase, and when there is one row too
many it leaves out no two in succession. `StrideBounds`: for the stride k of c
points and a budget b < c, c < b k <= 2 c. The left part leaves at most b + 1
survivors, which is what `LeavesNoHole` needs for the second stage; the right part
leaves half of b, which is `BudgetIsUsed` (`SurvivorsCount` counts them both ways, by
injections). `EndsAreShown` follows from both stages keeping both ends.

Only model-checked: liveness (`Settles`, `ExpiredRowsGo`, `Ends`,
`ListingEnds`, `EventuallyServes`, `WritesEnd`), which is beyond the prover with
fairness. Every invariant and action property of the passing runs is a theorem.

## Findings

1. `sweep_expired` says of itself that one pass deletes everything older than
   the retention period (`src/retention.rs:51`). A row rewritten between the
   DELETE's subquery and its visit to it is not counted in `rows_affected`, a
   full batch looks like the last one, and the rest waits for the next pass
   (`PassDrains`). `PassDrainsUnlessContended` and `ExpiredRowsGo` bound the
   damage.
2. `find_metrics` says that the SQL keeps "a little above the requested budget"
   (`src/metrics.rs:166`). One point above the budget makes the stride 2, and
   half the points come back (`BudgetReached`). `BudgetUsed` shows it is never
   less than half.

Further places where a comment or document and the code disagree. No run states
them; the properties that touch them except them, by name:

* `README.md:173` and `migrations/0002_create_logs.sql:38` call the trigram index
  best-effort, "created only when the `pg_trgm` extension is available or
  installable". The block catches `insufficient_privilege` only. On a server
  whose contrib modules are not installed CREATE EXTENSION fails with another
  error, the migration fails, and no instance ever serves. `EventuallyServes`
  excepts that case (`~ contrib`); without the exception TLC finds the loop of
  restarts at once.
* `parse_retention` multiplies in u64 without a check (`src/retention.rs:40-47`).
  A number near 2^64 becomes a short period in a release build, and the sweep
  deletes what was to be kept; an interval that comes out as zero panics the
  retention task (`src/main.rs:77`), while the server goes on without it.
  `RetentionAsConfigured` excepts periods that u64 cannot hold (`Asked(..) < Word`).
* `src/logs.rs:148` calls the test for a length of 16 bytes redundant with the
  equality. It is not: `write_logs` stores an id of any length, and one of another
  length is never found by its trace. `Meant` sides with the code.
* `src/logs.rs:146` says that a trace id must be a hex string; `from_str_radix`
  takes a plus for the first digit of a pair, too. `Proper` leaves such queries
  out.

## Not modelled

* The spacing of ticks and of restarts: a pass and a restart may come at any time.
* GetServices and its kind for logs and metrics: the loose index scan, which is
  `Walk` in `MetricCatalog`.
* Diagnostics: PostgreSQL's estimates, which on a replica may be zero, and three
  such scans. Nothing depends on them.
* The structure of attributes and bodies, the filters on them in trace search,
  the texts of errors and what `invalid_or_internal` reads from them.
* What the flattening of metrics makes of histograms and summaries
  (`flatten_metric`), and the singleton payloads: pure data, with no decision the
  properties tell apart but whether a count or time fits.
* Replica lag between an acknowledged write and a search.
* Banner, generated code, build.

## Plan

Done: the export path first, since nothing else matters if it loses or invents
data, then the sweep, streaming, the two metric queries, trace search, the
export and search of logs, and the life of the processes.

Next: the flattening of metrics, if a property is found that it could break.
