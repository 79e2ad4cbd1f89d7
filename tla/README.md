# Local data platform: a TLA+ verification project

The repository builds a small data platform around one shop database: PostgreSQL
`public.*` is the source; customers leave it through Debezium, Kafka and a Python
materializer; orders, items and payments leave it through a daily Airflow DAG that
fills `staging.*` and three sinks (dbt marts, Iceberg, Kafka order events). This
project models the parts that carry the platform's promises ("every retry
converges", "the watermark is safe for all downstream users", "a replay changes
nothing"), checks them with TLC, and proves the central ones with TLAPS. Paths below
are relative to the repository, which sits in `src/`.

## 1. Inventory

| component (source) | state it keeps | operations | talks to | what is hard | what makes it correct |
|---|---|---|---|---|---|
| Customer CDC materializer (`cdc/materialize_customers.py`, `postgres/sql/003_*`) | Kafka group offsets, `cdc_bronze.customer_changes`, `cdc_silver.customers`, an open transaction | poll, insert_bronze, apply_silver, commit, commit_offsets, eviction, restart | Kafka topic, PostgreSQL, the one-off drain container in the same group | redelivery, two workers on one partition, eviction, deadlocks, compaction | Silver is the fold of Bronze, never regresses, equals the source when drained; nothing acknowledged is unsaved |
| Debezium connector and topic (`cdc/bootstrap.py`, `docker-compose.yml`) | replication slot / source offset, the compacted topic | snapshot, stream, tombstones, restart from an old offset, cleaning, loss of the slot | source WAL, materializer | changes sent twice at new offsets | as above |
| CDC bootstrap (`cdc/bootstrap.py`) | role, grants, publication, connector configuration | one autocommitted statement after another, PUT, poll of the status | PostgreSQL, Kafka Connect | interrupted between statements, two jobs at once, privileges changed by hand | success means everything is prepared |
| Platform exporter (`monitoring/platform_exporter.py`, `prometheus/alerts.yml`) | gauges | one collector after another, for ever | every service | what an exception leaves of a gauge, a query that hangs | what has stopped is shown, what works again is not |
| Batch DAG and two-phase watermark (`airflow/dags/ecommerce_pipeline.py`, `postgres/init/003_*`) | `metadata.etl_watermark`, `staging.*`, task states | extract, validate, load, publish, advance | source, Silver, sinks | non-atomic reads, retries, attempts that outlive their task, partial failure of sinks, backfills, resets | the watermark covers only what is staged and in every sink; everything is delivered in the end |
| Order event producer (`kafka/producer/publish_orders.py`) | none (reads the window) | publish a window, partial delivery, missing candidate | staging, Kafka | the retry publishes again | same event id for the same order version |
| Reset DAG (`airflow/dags/ecommerce_reset_other_schema.py`) | staging, metadata | two SQL files, two transactions | pipeline runs | a crash between them, an overlap with a run | the sinks survive it |
| Order stream (`spark/jobs/order_stream.py`) | history, current and dead-letter Iceberg tables, Spark checkpoint | micro-batch: three commits and a checkpoint | Kafka, Iceberg | replay of a half-committed batch, late events, SQL NULL logic | one row per key, no rollback, no silent drop |
| dbt marts (`dbt/models/intermediate/int_*.sql`, `dbt/models/marts/fact_sales.sql`, `daily_sales.sql`) | two incremental tables with high-water marks | MERGE of new facts, recomputation of affected days, test | staging | items that move between days, late payments, retries between the two models | daily totals equal the facts |
| Iceberg batch (`spark/jobs/sales_batch.py`, `iceberg_sales.py`) | `ecommerce.fact_sales` | append or MERGE above the high-water mark | staging, gateway | lost answer, job run again | same rows as dbt |
| Customer snapshot and dimension (`dbt/snapshots`, `dim_customer.sql`, its tests) | SCD2 validity ranges | dbt snapshot with hard deletes, tests against Silver, as-of join | Silver, fact_sales | CDC moves on between snapshot, test and fact; late changes, deletes | ranges do not overlap, facts do not look ahead, no test fails for good |
| Spark job gateway and its callers (`spark/gateway/job_gateway.py`, two DAG tasks) | one lock, handler threads | POST, 409, job, timeout, answer, release | Airflow | client timeouts, broken pipe, one lock for all | the lock leaks on no path; a green task had a job that succeeded |
| Iceberg maintenance (`spark/jobs/maintain_iceberg.py`) | snapshots | compact, expire | gateway | commit conflicts inside Iceberg | rows unchanged |
| Verification scripts, generator, topology, dashboards | none that others rely on | read-only, linear, or configuration | everything | - | - |

`PROJECT.json` lists every component with its status, and every hazard at its line.

## 2. Plan

Done:

1. `CdcMaterializer` with the abstract `CustomerReplica`, and its proofs, the refinement included.
2. `WatermarkPipeline` (extract, validate, sinks, advance, backfill, reset, customers shown
   by CDC, extract statements that outlive their attempt), and its proofs.
3. `OrderStream`, the streaming consumer of the events the pipeline publishes, and its proofs.
4. `SalesMarts`, the inside of the two loaders over several runs, with payments, and its proofs.
5. `JobGateway`, the service `run_iceberg_batch` goes through, and its proofs.
6. `CustomerDimension`, the dimension built by the same dbt runs from what CDC shows, and its
   proofs.
7. `CdcOperations`, the bootstrap job, Kafka Connect and the exporter, and its proof.

Every safety property a passing run checks is now a theorem. Next:

1. Two stream queries on one checkpoint (`order-stream-once` beside `order-stream`).
2. Poison records in `CdcMaterializer` (a process that raises on the same record for ever)
   and what the exporter shows of them.
3. An abstract specification of the watermark commit ("a version is committed only when
   every sink has it") that `WatermarkPipeline` implements, and the proof that it does.

How the modules meet:

- The versions `WatermarkPipeline` puts into `events` are the records `OrderStream.Produce` may append
  (any order, any multiplicity, so every producer behaviour is covered).
- One `Load` step of `WatermarkPipeline` is the life of `SalesMarts`' BuildFact, BuildDaily, TestDaily or
  IcebergJob, and of `CustomerDimension`'s Snapshot to TestFacts.
- One IcebergJob of `SalesMarts`, with or without an answer, is a call of a `JobGateway` caller.
- What `CustomerDimension` and `WatermarkPipeline` assume of CDC (each customer shown as of a
  position that only grows, and shown in the end) is what `CustomerReplica` and
  `CdcMaterializer!Converges` say.
- `CdcMaterializer` starts where the bootstrap of `CdcOperations` has succeeded.

## 3. The modules

### CdcMaterializer, CustomerReplica

State: `wal` (source changes of `public.customers`, with the table after each),
`connector` (snapshot progress, how much of the WAL is sent, the stored source offset),
`topic`, `cleaned` (offsets the log cleaner removed), the consumer group (`committed`,
`members`, `owner`), one set of variables per worker process (`phase`, `todo`, `upto`,
and its open transaction `txBronze`, `txSilver`), and the committed tables `bronze`,
`silver`.

`Poll` is `consumer.consume`; `ApplyMessage` is one iteration of the loop in
`process_batch` (`insert_bronze`, and `apply_silver` when the Bronze row is new, with the row
version comparison of the `ON CONFLICT .. WHERE`); `CommitBatch` is `connection.commit()`;
`AckBatch` and `AckRefused` are `commit_offsets`. A worker's phase says where it is:
polling, applying, persisted (committed, not yet acknowledged). PostgreSQL's part is
`BlockedBy`: an insert of the same Bronze key and an upsert of the same Silver row wait
for the other transaction, so uncommitted effects of two workers never mix, and
`DeadlockVictim` when they wait for each other. `Stop` is any crash or exit, `Evict` the
group going on without a slow worker (its transaction may still commit, its offset
commit is refused). `RestartConnector` sends changes again from the stored offset.
(Starting over in the middle of the first snapshot, which
a restart then does as well, is left to `LoseSlot`.) `LoseSlot` is the slot invalidated by `max_slot_wal_keep_size`: the connector starts over with a
snapshot of what is there now. `CleanLog` removes a superseded record, read or not. A
customer's data is an image number; names and emails are abstracted, as no property tells
them apart.

`CustomerReplica` says what the path promises: each customer's visible row is the source
row as of some LSN, and that LSN only grows. `ImplementsReplica` says that
`CdcMaterializer` implements it, under the mapping given at `Replica`; a run checks it and
`CdcReplica_proofs` proves it.

### CdcOperations

`job[j]` is the next statement of a process running `bootstrap.py`: `configure_postgres`
(every statement a commit of its own: role, three grants, publication, each
check-then-act pair as two steps), `wait_for_connect`, the PUT, the poll of the status.
A job may be interrupted anywhere (`JobFails`) and started again (`StartJob`); `Drift` changes by
hand what an earlier job prepared. A create that meets an object another job has just
created raises, as does an alter of one that is gone. The external part is Kafka Connect:
`ApplyConfig`, `StartTask`, `StreamBreaks` and `StreamResumes`, whose task may or may not
be started again when the configuration changes.

The exporter is `CollectPostgres`, `CollectDebezium` and `CollectService`, run in their
order by `at`; each says what an exception leaves in the gauges: the component's own goes
to 0, that of the slot keeps its last value. A database may be up, down, or hung, and the last
of these stops the exporter, whose queries have no timeout. Alert rules have a
duration, so the properties speak of gauges that stay.

### WatermarkPipeline

Every task of the DAG is a task instance with a state and a count of failed attempts; the
DAG's edges are `Upstream`. Extracts are two steps, because the code reads the bounds in
statements of their own before the upsert; `advance_watermarks` is two steps for the
same reason. A task is `applied` when its effect is durable and `success` when Airflow knows it;
`TaskCrashes` strikes before, between and after. The two bounds of an extract are read in one
step (`ExtractBounds`), since nothing but the last task of the run and a reset writes the watermark
between the two reads.

The upsert of an extract is one statement, and may outlive its attempt: when the worker dies or is
killed, PostgreSQL may go on with it. `LostModes` says in which run modes it does. `lost` then
holds its window and `seen`, the rows of its table in the snapshot the statement began with (READ COMMITTED),
and at any later time, in the retry or in another run, it is rolled back (`LostRollback`) or stages
what it *saw* and raises the candidate (`LostUpsert`): `Staged` compares no versions, as the
`ON CONFLICT DO UPDATE` compares none, so an old version may replace a newer one. What orders such a statement
is the row of its table in `metadata.etl_watermark` (`Locked`): PostgreSQL runs the main UPDATE
of the statement before the INSERT in its WITH, which nothing reads, so an incremental statement holds the
row's lock from its beginning to its end. Later incremental extracts and the commit of the watermark wait for it
(`ExtractUpsert`, `AdvanceCommit`), and lost ones take turns (`NotBefore`). A backfill's UPDATE matches no row
(`AND %s = 'incremental'`), so nothing orders it: finding 4.

The reset's DROP statements wait for every statement that uses the tables. `reset` is "half" after a reset
that died between its two files, until it is run again.

Sinks are merges by key. `Load` is one step: what happens inside, with the high-water marks on
`loaded_at`, is `SalesMarts` and `CustomerDimension`. A row's version is its `updated_at`. Customers are shown by CDC in their own
time (`ShowCustomer`), and `RelationsValid` rejects an order whose customer is not shown yet.

### OrderStream

`log` is one topic of records, each an order id and a version (valid), malformed, or
"untyped" (JSON without `event_type` or `schema_version`). `merge_batch` is three steps,
`CommitHistory`, `CommitCurrent`, `CommitDeadLetters`, each an Iceberg commit; then
`Checkpoint`. A crash at any point loses the in-memory batch; Spark plans the same offset
range again (`TriggerBatch`). Iceberg tables have no keys: a row carries the attempt that
wrote it, so that a row written twice is two rows of the set.

### SalesMarts

An order has one item, a day and a version; its payment attempts are counted and have a
version and a `loaded_at` of their own, so that a late payment makes an old sale new
(`LoadedAt`, the greater of the two). `Extract` or `Backfill` stages rows with a new `loaded_at`;
`BuildFact`, `BuildDaily` and `TestDaily` are the dbt build, a commit each, and any of them may be
the last one before Airflow runs the task again (`DbtRetries`) or the run ends
(`FailRun`). A daily row is the set of contributions summed in it (item, version, and
whether it is paid), so it is right exactly when it is the set of its day's facts.
Every load is stamped above the earlier ones: extract statements end with their attempts here (one that does
not has an older `loaded_at`, perhaps below the marks; if it is incremental, the next scheduled
run stages its rows again with a new one before anything is loaded).
`DbtStatus` and `SparkStatus` translate the payment aggregates of the two engines, which are
written differently. `IcebergJob(FALSE)` is a MERGE whose answer is lost.

### CustomerDimension

`history[c]` is the sequence of states of a customer at the source, `shown[c]` how far CDC has
shown it. `Snapshot` is `dbt snapshot` with the check strategy (`Differs`: a row whose columns
differ, effective at its `updated_at`) and hard deletes (an open version whose customer is
gone closes at the wall clock). `TestDimension` is the four tests of the dimension; one of them reads
Silver as it is now. `BuildFacts` is the as-of join of `fact_sales` with its fallback to the
earliest version (`KeysFor`), and `TestFacts` its tests; they end the run. Between any two of these
steps the source writes and CDC moves. An order has one item, as in `SalesMarts`.

### JobGateway

`posts` are handler threads: arrived, running (holds the lock, the job runs), ended,
answered, closed. `caller` is each DAG task with its attempt and timer. Time is discrete, a
tick of five minutes; `Tick` waits for deadlines (urgent actions), so timeouts are compared
as the code compares them.

## 4. The runs

| run | question | bounds |
|---|---|---|
| `CdcTwoWorkers` | safety, refinement and convergence with the daemon and the one-off drain on one partition | 1 customer, 3 source changes (create, update/delete, create again), batches of 2, 2 faults |
| `CdcTwoPartitions` | the two inductive invariants with two partitions, two customers, compaction, deadlocks and a lost slot | 2 source changes, 1 fault |
| `CdcTombstone` | violation: the tombstone alone does not delete | 1 worker, 3 source changes, compaction, no fault |
| `WatermarkTasks` | two related tables and their customer, retries, a backfill, incremental statements that outlive their attempt, resets between runs that may die half-way: nothing skipped, sinks cover the watermark and follow the source, what is committed stays, everything delivered | 2 tables x 2 rows, 3 timestamps, 1 fault, 1 backfill, one retry except for the sinks and the count check |
| `WatermarkLostBackfill` | violation: the statement of a lost backfill stages an old version below the watermark | 1 table x 2 rows, 3 timestamps, 1 fault, 1 backfill, no reset, no retry |
| `StreamReplay` | duplicates, late and malformed events, crashes between commits; every record is consumed | 2 orders x 2 versions, 3 records, 2 crashes |
| `StreamUntyped` | violation: an untyped event is dropped | 1 record |
| `SalesRuns` | orders that move, late payments, interrupted builds and runs that end half-way: daily totals are repaired, high-water marks skip nothing, engines agree | 2 items, 3 days, 4 source changes, 2 payment attempts, 3 extracts, 2 faults; items and days are symmetric |
| `SalesLostRepair` | violation: a run that ends between the two marts loses a repair | 2 items, 2 days, 3 source changes, 1 fault |
| `GatewayCalls` | the lock on every path, client timeouts, retries, restart | 2 callers, runs start up to 3 POSTs, 1 fault; the timeouts of the code divided by four (job and ingest call 3 ticks, maintenance call 6), its retry delays as they are |
| `DimensionRuns` | snapshots, tests and facts while CDC moves on: versions do not overlap, facts do not look ahead, nothing fails for good | 2 customers (one with late stamps), 1 order, 2 images, 3 source transactions, 1 fault |
| `OperationsRuns` | two bootstrap jobs interrupted and interleaved while PostgreSQL and Connect fail; the gauges of three collectors | 2 jobs, 2 starts, 2 faults |

Why the bounds are enough: each hazard needs a handful of events (a replay needs two
copies of a record; a rollback two versions and a late one; a lost repair one move, one
fault, one rerun; a stale statement two versions, one fault and one later run; a resurrection create, delete, replay; a stale as-of key one change
shown late), and under each bound every property is broken by a plausible bug in the code
it is about (the mutants of `PROJECT.json`). Two workers, two tables, two callers, two jobs
give the pairs that interact; no code path relates three. The proofs then remove the bounds
for the properties listed in section 5.

`CHECK_DEADLOCK FALSE` is set in the Cdc, Stream, Sales and Gateway runs, whose inputs are
bounded: when the last source change, record, extract or POST is used up and everything is
handled, the system has nothing left to do. The Watermark, Dimension and Operations runs check
deadlock: the scheduler can always start another run, the exporter another collection.

### Fairness

- `CdcMaterializer!FairSpec`: weak fairness of the connector task, of every running
  worker, of group rebalances and of the start of the daemon (`restart: unless-stopped`,
  `docker-compose.yml:663` and `:541`). No fairness of source changes, faults, offset
  flushes, or the one-off drain. Faults are finitely many.
- `CdcOperations!FairSpec`: weak fairness of the exporter's loop only, whose step is not enabled
  while a query hangs. Jobs, Connect and PostgreSQL may stop for good: the properties
  say what is then shown.
- `WatermarkPipeline!FairSpec`: weak fairness of the tasks jointly (some task of a run goes on while one
  can) and of the end of a run, strong
  fairness of scheduled runs (a backfill in between must not starve the schedule; Airflow
  queues runs and `max_active_runs=1` makes them take turns); open source transactions end;
  CDC shows every customer (`CdcMaterializer!Converges`); a statement that outlived its attempt ends or is rolled
  back (it runs on a finite table, and PostgreSQL notices a client that is gone); a reset that is
  between its two files goes on. Nothing obliges anybody to run a reset again after it has died, so
  `EventuallyDelivered` speaks of behaviours in which resets are over and the last one got through.
- `OrderStream!FairSpec`: the query is restarted (`docker-compose.yml:775`) and takes its steps.
- `CustomerDimension!FairSpec`: CDC shows each customer's next state, and runs go on.
- `JobGateway!FairSpec`: time passes, handler threads run, due retries are started. A job
  need not end by itself: the gateway's timeout ends it. The gateway container has no restart policy, and
  its restart is not assumed: without a process there is no lock either.

## 5. What is proved

Every theorem holds for all values of the constants that satisfy the named ASSUMEs of its
module, without a bound on faults, retries, crashes or inputs. No recursive operator is used;
nothing else is assumed, except where a theorem names a condition of its own (collected below). Each proof has the same shape: a type lemma for every step, lemmas
that say what each step leaves of the state, an inductive invariant preserved action by
action, and the property as its consequence.

### CdcMaterializer_proofs

`TypeCorrect`, `SilverIsFold` (`SilverFoldsBronze`), `SilverMovesForward` (`SilverNeverRegresses`),
`AckedPersisted` (`AckedIsPersisted`), and the two invariants themselves, `FoldAlways` (`FoldInv`) and
`AckAlways` (`AckInv`), for every set of customers, partitions and workers, with connector
restarts, compaction and slot loss.

`SilverFoldsBronze` speaks of committed tables only and is not inductive: a commit makes a
whole transaction visible at once. `FoldInv` says the same of what each open transaction
sees (`OpenFolds`: the row a worker would read is the newest data event of committed Bronze
plus its own inserts). When another worker commits, `OpenFolds` of this one survives because
the two have locked different rows (`RowLocks`) and a transaction has inserted events only of
customers whose row it has locked (`BronzeWithSilver`); `OnlyTopicRecords` and `DataHasLsn`
tie Bronze coordinates to records of the log, which only grows (`LogGrows`), and make an
LSN of 0 mean "no row". The lemma `AppliedFolds` is the heart: applying one event to the
fold of a set gives the fold of the set with the event. `SilverMovesForward` follows from the
same invariant: a commit overwrites `silver[k]` only with a row that was folded from at
least the same events.

`AckInv`: every offset a worker has fetched, up to the one it will acknowledge, is stored,
cleaned, in its transaction or still to do (`FetchedIsHeld`), and a worker about to
acknowledge has the last two empty (`PersistedIsEmpty`). `PollHolds` is the lemma for the poll: the batch
starts right after the acknowledged offset and leaves out only what is gone.

### CdcReplica_proofs

`CdcImplementsReplica` (`ImplementsReplica`): `CdcMaterializer` implements `CustomerReplica`, with restarts,
compaction and slot loss. `FoldInv` relates Silver to the topic only; what relates the topic to the source is
`ReplicaInv` (theorem `RecordsAreFaithful`):

- `RecordInv`: every data record, in the topic or still to be sent from a snapshot, has the image its
  customer had in the source at the record's LSN, and is a delete exactly when that image is none.
  It survives because the WAL is only appended to (`TableAppended`, `TablesStay`), and it is why
  sending records again, at new offsets, is harmless.
- `WalInv`: a change writes one customer's row and names it by its own LSN (`WellWritten`), so an image is in
  the source at every LSN between the one that names it and the one it is seen at (`ImagesNamed`).

With the fold, a Silver row is a record of its customer, hence shows it as of the row's
LSN (`SilverShows`). A source transaction maps to `SourceCommit` (`RefinesSource`); every other step is a
`Refresh`, mostly of nothing (`RefinesRefresh`), and a commit never lowers an LSN by the lemma that also
gives `SilverMovesForward`.

`DrainedEqualsSource` (`DrainedReconciles`): with `SlotLoss = FALSE`, when all that is sent is acknowledged,
every customer is shown as the source is now, if `cleaned \subseteq bronze`: the log cleaner has
removed nothing that was not stored. Both conditions are needed: a lost slot loses
deletes for good, and so does a cleaner that takes a `d` event before it is read (finding 1 of section 6).
`DrainedEqualsSourceUncompacted` is the case the run checks, `Compaction = FALSE`. The invariant is
`DeliveryInv`: for every LSN the connector has reached or may go back to, from `stored` to `sent`, the
records suffice to show each customer as of it: one as new as its row, or a delete after every
row of it that was sent (`Delivered`). `SnapshotDelivers` and `ChangeDelivers` are the two ways to get
further; a restart only goes back in a range that was delivered already.

### WatermarkPipeline_proofs

With any resets, late commits and lost statements: `TypeCorrect` and `SinksNeverAhead`
(`SinksFollowSource`). The invariant is `PathInv`: staging, every snapshot of a lost statement and every
sink are nowhere ahead of the source; `InflightInv` adds that a transaction in flight is newer than the
row it will replace, because of the row lock.

With `LostModes = {}`, any resets and late commits: `NothingGoesBackHolds` (`NothingGoesBack`, stated in the
proofs module): no loader's row goes back, and only a reset lowers a watermark. With a lost statement
that is false, also of an incremental one: a backfill does not wait for it and
may bring a newer version of a row to the loaders first, and another backfill may then load the old one, before the next
scheduled run stages the newer one again.

Under `InOrder` (timestamps follow the commit order; no reset in the middle of a run; only incremental statements
outlive their attempt): `WatermarkIsSafe` (`NothingSkipped`), `CommitBarrier` (`SinksCoverWatermark`) and
`CommittedStaysHolds` (`CommittedStays`: what the watermark covers is not taken back). Resets may come at any time
between runs and die half-way. The argument is that of `OrderedInv`:

- The rows up to a version v are *covered* when they are staged as they are now
  (`CoveredTo`). A new write does not matter, since its timestamp is above any bound read before it (`Bound`).
- Rows are covered up to `Top`, the larger of candidate and watermark (`CoverInv`): the lower bound of an open
  window is the watermark, so the upsert over it covers its upper bound.
- A lost statement stages its snapshot, not the present rows. `SeenOk` is what makes that harmless when it is
  incremental: a row that has changed since its snapshot has done so above its window *and* above `Top`, because no
  later extract of the table has raised the candidate while the statement held the lock (`LockInv`; among
  lost statements, `NotBefore`). Its lower bound is still the watermark, because `AdvanceCommit` waits for it.
- In an incremental run, a sink that has been applied has every staged row up to `Top`, and what
  the watermark covers is in the sinks always (`SinkInv`); `AdvanceCommit` is only reached with
  every sink done (`DagInv`), and sets the watermark to `Top`.
- Staging is not behind a row that a loader holds and the watermark covers (`StaysInv`).
- After a reset has died half-way (`reset = "half"`) `CoverInv` claims nothing; the reset that gets through leaves
  watermarks of 0 and no lost statement, since its DROPs wait for them (`ResetInv`).

### OrderStream_proofs

`TypeCorrect` (with the order of the two offsets), `ReplaySafe` (`OneRowPerKey`),
`CurrentRefersToHistory` (`CurrentNamesHistory`), `CurrentReflectsHistory` (`CurrentIsNewest`), and, when every
JSON event has its type and schema version, `NothingDropped` (`NoSilentDrop`; finding 2 is why it needs
the assumption). The invariant `StreamInv` says what of the batch is in which table at each
stage of `merge_batch`, and that a history row `current_orders` does not reflect yet is in the
range that will be run again (`NewestInv`). `LatestExists` shows that the `row_number()` of a batch
finds a latest event of every order in it.

### SalesMarts_proofs

With any runs that fail or are retried, and Iceberg jobs whose answer is lost: `SalesTypeCorrect`,
`SalesEnginesAgree` (`EnginesAgree`) and `SalesCountedBelowHighWater` (`CountedBelowHighWater`). The invariant is
`EngineInv`: load times come from staging (`LoadsBounded`), and a staged row that a strict
high-water filter would skip has been merged as it is staged, for dbt (`FactsMerged`) and for
Iceberg (`IcebergRowsMerged`). It holds because every extract stamps its rows above all earlier ones
(`StagedIsAbove`) and each engine merges all it selects in one commit. `StatusPaid` shows that the two
payment aggregates, written differently, give the same status. `NewestOf` says that a high-water mark
is the maximum of the column; `daily_sales` takes its mark from the facts it counts, so a new fact is
above it (`NewFactsUncounted`).

Under `LostRepairs = FALSE` (no run ends between the two marts; finding 3 is what happens otherwise):
`SalesStaleDayWillBeRepaired` (`StaleDayWillBeRepaired`) and `SalesDailyMatchesFact` (`DailyMatchesFact`).
`previous_order_date` names one day only, so the stale day is named as long as `fact_sales` does not
merge an item twice before `daily_sales` counts it once: `BuildProgress` says at which step of a build the
facts above the mark, or the rows above theirs, are none.

### CustomerDimension_proofs

For any finite set of customers (`CustomersAreFinite`: a snapshot is a table), any source histories
and any order of snapshots, builds and CDC: `DimensionTypeCorrect`, `DimensionOneVersionAtATime`
(`OneVersionAtATime`), `FactsNeverLookAhead` (`FactsDoNotLookAhead`), and `DimensionTestsHold`: for customers whose
stamps grow and who are not inserted again, the three tests of the dimension that do not read Silver
hold in every state, and no merge of `fact_sales` meets one row twice.

`DimensionInv`: a version is a state of the source that Silver has shown, valid from the source's own
timestamp (`VersionsFromSource`); what ended a version is not after the state Silver shows, unless that
is the customer's last (`ClosedBehindSilver`). So a snapshot closes the open version at the stamp of a
later state and opens the next one there, and ranges neither overlap nor run backwards,
however many states CDC skipped in between. A delete closes at the wall clock, which is past every stamp
(`StampsInThePast`). `FactInv`: the keys of an order that has been joined since its last extract point to
versions that began by the staged date, and an order is committed only when joined.

### JobGateway_proofs

`TypeCorrect`, `LockIsExact` (`LockMatchesHandler`), `SuccessBelongs` (`SuccessIsOwn`), and, when clients wait at
least as long as the gateway lets a job run, `RetryFindsOwnJobOver` (`OwnJobIsOver`). The last
rests on `TimeInv`: as long as nothing has crashed, a job that is not over is still waited for,
and its client has waited exactly as long as it has run.

### CdcOperations_proofs

`TypeCorrect` and `PreparedAfterSuccess` (`SuccessMeansPrepared`), for any number of jobs.
`PreparedInv` says what each job that was not spoilt has achieved by the statement it is at;
a statement of another job never takes it away.

### Conditions of the theorems

| theorem | condition | why |
|---|---|---|
| `WatermarkIsSafe`, `CommitBarrier`, `CommittedStaysHolds` | `InOrder` | finding 4; late commits and resets in the middle of a run: limits listed in section 6 |
| `NothingGoesBackHolds` | every statement ends with its attempt | a statement writes its snapshot and compares no versions |
| `NothingDropped` | JSON events have type and schema version | finding 2 |
| `RetryFindsOwnJobOver` | clients wait as long as the gateway lets a job run | what the DAG's timeouts are set to |
| `SalesStaleDayWillBeRepaired`, `SalesDailyMatchesFact` | `LostRepairs = FALSE` | finding 3 |
| `DrainedEqualsSource` | no slot loss; nothing cleaned that is not stored | a delete in the gap is lost; finding 1 |

### Only model-checked

Liveness: `Converges`, `EventuallyDelivered`, `EverythingConsumed`, `LockIsReleased`, `DimensionCatchesUp`,
`FactsCatchUp`, `StopIsReported` and `AlertsResolve`. Liveness under fairness and ENABLED are out of the
prover's reach.

## 6. Findings

The four violation runs are disagreements between what the repository says and what the
code does; `PROJECT.json` quotes both.

1. `CdcTombstone`: `apply_silver` ignores tombstones because "the prior d event already
   marked the key deleted", but on a compacted topic the cleaner may remove the `d` event before it is read.
   The customer stays live in Silver.
2. `StreamUntyped`: `is_valid` is NULL when `event_type` or `schema_version` is missing, and both filters
   drop the row, although unsupported events are to be kept in the dead-letter table.
3. `SalesLostRepair`: `previous_order_date` is computed against the stored fact on every
   merge; a run that fails between the two marts and is repeated clears it, and the day the item
   left is never recomputed. `SalesRuns` checks what holds as long as the retries of one run
   get through (`LostRepairs = FALSE`: no run ends while facts are uncounted, a condition on `FailRun` that the
   code does not enforce).
4. `WatermarkLostBackfill`: the watermark is to be safe for all downstream users, but the upsert of a backfill that
   outlives its attempt waits for nobody and compares no versions. A scheduled run stages and merges a newer
   version and commits the watermark; the old statement then puts its older version into staging, below the
   watermark, where no scheduled window finds the newer one again. `WatermarkTasks` checks, and the theorems prove, what
   holds when only incremental statements are lost, which the lock on the watermark's row orders.

Known limits met while modelling, kept as assumptions of the runs or in the wording of a
property rather than as findings:

- `updated_at` is the start of the writing transaction. With `LateCommits = TRUE`,
  `NothingSkipped` fails: a transaction that commits after a later-stamped one was extracted is
  below the watermark. `docs/backlog.md` (A18) lists late arrivals as debt, so the runs assume commits in
  timestamp order; `SinksNeverAhead` and `NothingGoesBackHolds` do not.
- The reset drops staging and clears the watermarks in two transactions. When it dies in
  between, the watermark stays above an empty staging and later runs extract only what is
  newer, until the reset is run again; `NothingSkipped` speaks of the time after that (`reset = "idle"`). When it
  overlaps a run, the watermark can get ahead of staging for good. No document says when the operator may run
  it; the runs have it between runs only, the theorems without `InOrder` at any time.
- `advance_watermarks` clears the candidates it promotes; an attempt that dies after its UPDATE
  is retried, finds none and fails. The data is right; the run is marked failed.
- While maintenance holds the gateway for long, `run_iceberg_batch` gets 409 on both its attempts
  and the run fails; the next run catches up.
- After the loss of the slot a new snapshot brings no deletes: a customer deleted in the gap
  stays live in Silver. `docs/architecture.md` asks for a controlled resnapshot by hand;
  `DrainedReconciles` and `Converges` are checked without slot loss.
- The bootstrap job accepts RUNNING right after its PUT, when the status may still be that of
  the task before; `SuccessMeansPrepared` therefore says that a task *has* run. Kafka Connect need not
  restart a FAILED task for an unchanged configuration, so running `cdc-bootstrap` again
  (`docs/runbook.md:161`) may end in an error until the task is restarted. The job has no restart
  policy; the model starts it again only by hand.
- A query that hangs in PostgreSQL stops every collector of the exporter after it;
  `StopIsReported` excludes a database that hangs for ever. When PostgreSQL is down, the slot
  gauge keeps its last value, so the property accepts either gauge.
- `staging.customers` has no writer since the CDC cutover, so its row gauge stays 0 and its alert
  is always on (row gauges are not modelled).
- A customer's change that CDC shows after a fact was built closes a version in the past; the
  fact keeps its key. `FactsDoNotLookAhead` says it then names an earlier version, never a later one.
- A source that stamps a customer's change at or below an earlier one gives a version whose
  range is empty or reversed, and `assert_dim_customer_valid_range` then fails in every later
  build. `OneVersionAtATime` and `FactsCatchUp` are stated for customers whose stamps
  grow and who are not inserted again (`Regular`); in `DimensionRuns` one customer need not be.

## 7. Not modelled

- Kafka, PostgreSQL, Debezium, Kafka Connect, Spark, Iceberg and Airflow themselves: their
  guarantees appear as external actions (marked so in the map): atomic commits, row locks,
  offset order in a partition, checkpoint ranges, task states.
- `reconcile_customers.py` is a property (`DrainedReconciles`), not an action; it reads only.
- Records that do not deserialize, and two stream queries at a time: see the plan and the
  hazards' notes. An order event's `--limit` and the producer's local queue.
- Watermark, candidate, row-count and WAL-size gauges: each mirrors a number.
- A dbt or Spark statement that outlives its attempt. In `SalesMarts`, any extract statement that does.
- The other dimensions, amounts, formats, dashboards, verification scripts and CI fixtures. The
  dbt target of the compose file is `dev`, whose schema the reset does not touch; with the target `prod`, the
  reset would drop the marts too.
- Iceberg maintenance: compaction and snapshot expiry keep the rows; its effect on the gateway
  is in `JobGateway`.
- `sales_batch.py`'s Parquet output: overwritten as a whole by each job, read by nothing else.
