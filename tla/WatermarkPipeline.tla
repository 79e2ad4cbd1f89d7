------------------------- MODULE WatermarkPipeline -------------------------
(***************************************************************************)
(* The daily batch path: public.* -> staging.* -> dbt, Iceberg and Kafka,  *)
(* ordered by the Airflow DAG ecommerce_pipeline and its two-phase         *)
(* watermark (metadata.etl_watermark), with task retries, backfills and    *)
(* the destructive reset DAG.                                              *)
(*                                                                         *)
(* A row version is its updated_at, a row is an id shared by all tables    *)
(* (item r refers to order r), and 0 stands for "no row" and for the epoch.*)
(* Customers come from CDC (CdcMaterializer, Converges): each becomes      *)
(* visible in cdc_silver.customers_current some time after its insert.     *)
(***************************************************************************)
EXTENDS Integers, FiniteSets

CONSTANTS
    Tables,         \* the polled tables
    Orders,         \* the table whose window is published to Kafka
    Refs,           \* <<child, parent>> pairs of tables, by foreign key
    Rows,           \* row ids
    Customers,      \* customer_id values
    CustomerOf,     \* orders.customer_id
    Retries,        \* Retries[x]: how often Airflow runs task x again
    LateCommits,    \* TRUE iff source transactions may commit out of
                    \* updated_at order (updated_at is the start time, NOW())
    Resets,         \* when the reset DAG may run, see below
    LostModes,      \* the run modes in which the statement of an extract attempt
                    \* that Airflow has given up may go on in PostgreSQL
    ResetCrashes,   \* TRUE iff it may die between its two SQL files
    MaxClock,       \* bound: source timestamps
    MaxFaults,      \* bound: task crashes
    MaxBackfills    \* bound: backfill runs

NoCandidate == -1   \* candidate_value IS NULL

Loaders == {"dbt", "iceberg"}
Modes == {"incremental", "backfill"}
Sinks == Loaders \cup {"publish"}
Tasks == Tables \cup Sinks \cup {"count", "relations", "advance"}

ASSUME TablesAreNotTasks ==
    Tables \cap (Sinks \cup {"count", "relations", "advance"}) = {}
ASSUME OrdersIsTable == Orders \in Tables /\ Refs \subseteq Tables \X Tables
ASSUME RetriesType == Retries \in [Tasks -> Nat]
ASSUME CustomerOfType == CustomerOf \in [Rows -> Customers]
ASSUME FlagsAreBoolean ==
    LateCommits \in BOOLEAN /\ LostModes \subseteq Modes /\ ResetCrashes \in BOOLEAN
ASSUME ResetsAreKnown == Resets \in {"never", "between runs", "any time"}
ASSUME BoundsAreNaturals ==
    MaxClock \in Nat /\ MaxFaults \in Nat /\ MaxBackfills \in Nat

VARIABLES
    clock,      \* the last timestamp handed out by the source
    source,     \* source[t][r]: committed updated_at of row r
    inflight,   \* row versions of source transactions not yet committed
    shown,      \* the customers in cdc_silver.customers_current
    staging,    \* staging[t][r]: updated_at of the staged version
    watermark,  \* watermark_value
    candidate,  \* candidate_value
    loaded,     \* loaded[s][t][r]: newest version sink s has merged
    events,     \* <<order, version>> acknowledged by the broker
    run,        \* the active DAG run and its parameters
    task,       \* state of every task instance of the run
    tries,      \* tries[x]: attempts of task x that failed
    window,     \* window[t]: bounds read by the extract of t
    lost,       \* extract statements still running after their attempt, each
                \* with the rows of its table that its snapshot shows
    reset,      \* the reset DAG: "dropped" between its two files, "half" if it
                \* died there, otherwise "idle"
    faults,
    backfills

sourceVars == <<clock, source, inflight, shown>>
metaVars   == <<watermark, candidate>>
sinkVars   == <<loaded, events>>
dagVars    == <<run, task, tries, window, backfills>>
vars == <<sourceVars, staging, metaVars, sinkVars, dagVars, lost, reset, faults>>

NoRows == [t \in Tables |-> [r \in Rows |-> 0]]
Fresh == [x \in Tasks |-> "pending"]
IdleRun == [active |-> FALSE, mode |-> "incremental", start |-> 0, end |-> 0]

Larger(a, b) == IF a > b THEN a ELSE b      \* GREATEST

TypeOK ==
    /\ clock \in Nat
    /\ source \in [Tables -> [Rows -> Nat]]
    /\ inflight \in SUBSET (Tables \X Rows \X Nat)
    /\ shown \in SUBSET Customers
    /\ staging \in [Tables -> [Rows -> Nat]]
    /\ watermark \in [Tables -> Nat]
    /\ candidate \in [Tables -> Nat \cup {NoCandidate}]
    /\ loaded \in [Loaders -> [Tables -> [Rows -> Nat]]]
    /\ events \in SUBSET (Rows \X Nat)
    /\ run \in [active: BOOLEAN, mode: Modes, start: Nat, end: Nat]
    /\ task \in [Tasks -> {"pending", "bounded", "applied", "success", "failed"}]
    /\ tries \in [Tasks -> Nat]
    /\ window \in [Tables -> [lo: Nat, hi: Nat]]
    /\ lost \in SUBSET [table: Tables, mode: Modes, lo: Nat, hi: Nat, seen: [Rows -> Nat]]
    /\ reset \in {"idle", "dropped", "half"}
    /\ faults \in Nat
    /\ backfills \in Nat

Init ==
    /\ clock = 0
    /\ source = NoRows
    /\ inflight = {}
    /\ shown = {}
    /\ staging = NoRows
    /\ watermark = [t \in Tables |-> 0]
    /\ candidate = [t \in Tables |-> NoCandidate]
    /\ loaded = [s \in Loaders |-> NoRows]
    /\ events = {}
    /\ run = IdleRun
    /\ task = Fresh
    /\ tries = [x \in Tasks |-> 0]
    /\ window = [t \in Tables |-> [lo |-> 0, hi |-> 0]]
    /\ lost = {}
    /\ reset = "idle"
    /\ faults = 0
    /\ backfills = 0

-----------------------------------------------------------------------------
(* The source database *)

\* A transaction inserts or updates a row, stamped with its start time; its
\* parents must be visible.
BeginWrite(t, r) ==
    /\ clock < MaxClock
    /\ \A ref \in Refs: ref[1] = t => source[ref[2]][r] # 0
    /\ \A w \in inflight: <<w[1], w[2]>> # <<t, r>>      \* row lock
    /\ clock' = clock + 1
    /\ inflight' = inflight \cup {<<t, r, clock + 1>>}
    /\ UNCHANGED <<source, shown, staging, metaVars, sinkVars, dagVars, lost, reset, faults>>

CommitWrite(w) ==
    /\ w \in inflight
    /\ LateCommits \/ \A v \in inflight: w[3] <= v[3]
    /\ source' = [source EXCEPT ![w[1]][w[2]] = w[3]]
    /\ inflight' = inflight \ {w}
    /\ UNCHANGED <<clock, shown, staging, metaVars, sinkVars, dagVars, lost, reset, faults>>

\* The materializer applies the insert of customer c.
ShowCustomer(c) ==
    /\ shown' = shown \cup {c}
    /\ shown' # shown
    /\ UNCHANGED <<clock, source, inflight, staging, metaVars, sinkVars, dagVars, lost,
                   reset, faults>>

-----------------------------------------------------------------------------
(* DAG runs; max_active_runs=1 *)

Upstream(x) ==
    CASE x \in Tables     -> {}
      [] x = "count"      -> Tables
      [] x = "relations"  -> {"count"}
      [] x \in Sinks      -> {"relations"}
      [] x = "advance"    -> Sinks

\* A task instance the scheduler may start.
Ready(x) ==
    /\ run.active
    /\ task[x] = "pending"
    /\ \A y \in Upstream(x): task[y] = "success"

Running(x) == Ready(x) \/ task[x] \in {"bounded", "applied"}

RunMayStart == ~run.active /\ (reset # "dropped" \/ Resets = "any time")

StartScheduled ==
    /\ RunMayStart
    /\ run' = [IdleRun EXCEPT !.active = TRUE]
    /\ UNCHANGED <<sourceVars, staging, metaVars, sinkVars, task, tries, window,
                   backfills, lost, reset, faults>>

\* validate_run_config ends a run with start >= end before any side effect.
StartBackfill(start, end) ==
    /\ RunMayStart
    /\ backfills < MaxBackfills
    /\ start < end
    /\ run' = [active |-> TRUE, mode |-> "backfill", start |-> start, end |-> end]
    /\ backfills' = backfills + 1
    /\ UNCHANGED <<sourceVars, staging, metaVars, sinkVars, task, tries, window,
                   lost, reset, faults>>

\* Mutant: a failed run stays active.
EndRunOnSuccess ==
    /\ run.active
    /\ \A x \in Tasks: task[x] = "success"
    /\ run' = IdleRun
    /\ task' = Fresh
    /\ tries' = [x \in Tasks |-> 0]
    /\ window' = [t \in Tables |-> [lo |-> 0, hi |-> 0]]
    /\ UNCHANGED <<sourceVars, staging, metaVars, sinkVars, backfills, lost, reset, faults>>

\* Nothing is running and nothing can start any more.
EndRun ==
    /\ run.active
    /\ \A x \in Tasks: ~Running(x)
    /\ run' = IdleRun
    /\ task' = Fresh
    /\ tries' = [x \in Tasks |-> 0]
    /\ window' = [t \in Tables |-> [lo |-> 0, hi |-> 0]]
    /\ UNCHANGED <<sourceVars, staging, metaVars, sinkVars, backfills, lost, reset, faults>>

Becomes(x, state) == task' = [task EXCEPT ![x] = state]

\* The attempt ends in an error: up_for_retry while retries remain.
AttemptFails(x) ==
    IF tries[x] < Retries[x]
    THEN Becomes(x, "pending") /\ tries' = [tries EXCEPT ![x] = @ + 1]
    ELSE Becomes(x, "failed") /\ UNCHANGED tries

\* A task's own check raises.
Raises(x) ==
    /\ AttemptFails(x)
    /\ UNCHANGED <<sourceVars, staging, metaVars, sinkVars, run, window,
                   backfills, lost, reset, faults>>

\* The worker dies, or an I/O error or timeout ends the attempt, before or
\* after the attempt's effect is durable.  The statement of an extract may have
\* begun by then, and go on without it over the snapshot it began with.
TaskCrashes(x) ==
    /\ faults < MaxFaults
    /\ Running(x)
    /\ faults' = faults + 1
    /\ AttemptFails(x)
    /\ \/ UNCHANGED lost
       \/ /\ x \in Tables /\ task[x] = "bounded"
          /\ run.mode \in LostModes
          /\ lost' = lost \cup {[table |-> x, mode |-> run.mode, lo |-> window[x].lo,
                                  hi |-> window[x].hi, seen |-> source[x]]}
    /\ UNCHANGED <<sourceVars, staging, metaVars, sinkVars, run, window,
                   backfills, reset>>

\* The attempt returns and Airflow records success.
TaskReturns(x) ==
    /\ task[x] = "applied"
    /\ Becomes(x, "success")
    /\ UNCHANGED <<sourceVars, staging, metaVars, sinkVars, run, tries, window,
                   backfills, lost, reset, faults>>

-----------------------------------------------------------------------------
(* The tasks *)

Versions(t) == {source[t][r] : r \in Rows} \ {0}

\* Mutant: MAX(updated_at) without COALESCE.
ExtractBoundsNoCoalesce(t) ==
    /\ Ready(t)
    /\ run.mode = "incremental"
    /\ \E hi \in IF Versions(t) = {} THEN {NoCandidate} ELSE Versions(t):
         /\ \A v \in Versions(t): v <= hi
         /\ window' = [window EXCEPT ![t] = [lo |-> watermark[t], hi |-> hi]]
    /\ Becomes(t, "bounded")
    /\ UNCHANGED <<sourceVars, staging, metaVars, sinkVars, run, tries, backfills, lost,
                   reset, faults>>

\* SELECT watermark_value, then SELECT COALESCE(MAX(updated_at), watermark):
\* statements of their own, before the upsert.  One step, since nothing but the
\* last task of the run and the reset DAG writes the watermark in between.
ExtractBounds(t) ==
    /\ Ready(t)
    /\ \/ /\ run.mode = "backfill"
          /\ window' = [window EXCEPT ![t] = [lo |-> run.start, hi |-> run.end]]
       \/ /\ run.mode = "incremental"
          /\ \E hi \in IF Versions(t) = {} THEN {watermark[t]} ELSE Versions(t):
               /\ \A v \in Versions(t): v <= hi
               /\ window' = [window EXCEPT ![t] = [lo |-> watermark[t], hi |-> hi]]
    /\ Becomes(t, "bounded")
    /\ UNCHANGED <<sourceVars, staging, metaVars, sinkVars, run, tries, backfills, lost,
                   reset, faults>>

\* [start, end) for a backfill, (watermark, upper] otherwise.
Within(v, mode, lo, hi) ==
    IF mode = "backfill" THEN lo <= v /\ v < hi ELSE lo < v /\ v <= hi

\* Mutant: the upper bound is staged as updated_at.
StagedBound(t, seen, mode, lo, hi) ==
    [staging EXCEPT ![t] = [r \in Rows |->
        IF seen[r] # 0 /\ Within(seen[r], mode, lo, hi) THEN hi ELSE @[r]]]

\* INSERT .. SELECT .. ON CONFLICT DO UPDATE: the rows of the window that the
\* statement's snapshot shows, over whatever is staged: no version is compared.
Staged(t, seen, mode, lo, hi) ==
    [staging EXCEPT ![t] = [r \in Rows |->
        IF seen[r] # 0 /\ Within(seen[r], mode, lo, hi) THEN seen[r] ELSE @[r]]]

\* Mutant: a backfill sets a candidate too.
RaisedAlways(t, mode, hi) == [candidate EXCEPT ![t] = Larger(@, hi)]

\* ... and GREATEST(COALESCE(candidate_value, upper), upper) WHERE incremental.
Raised(t, mode, hi) ==
    IF mode = "incremental" THEN [candidate EXCEPT ![t] = Larger(@, hi)] ELSE candidate

\* Mutant: the candidate is set in a transaction of its own.
NeverLocked(t) == FALSE

\* The row of t in metadata.etl_watermark is locked by a statement: PostgreSQL
\* updates it first, WHERE %s = 'incremental', and holds it to the end.
Locked(t) == \E z \in lost: z.table = t /\ z.mode = "incremental"

\* Both in one statement, hence one transaction.  Only an incremental one waits
\* for an older one; what changes in the source while it waits, a snapshot taken
\* before does not show, as if it had changed afterwards.
ExtractUpsert(t) ==
    /\ task[t] = "bounded"
    /\ run.mode = "incremental" => ~Locked(t)
    /\ staging' = Staged(t, source[t], run.mode, window[t].lo, window[t].hi)
    /\ candidate' = Raised(t, run.mode, window[t].hi)
    /\ Becomes(t, "applied")
    /\ UNCHANGED <<sourceVars, watermark, sinkVars, run, tries, window, backfills, lost,
                   reset, faults>>

\* y queues for the row's lock behind z, or as well before as after it: both
\* began with the same snapshot.
NotBefore(y, z) == \A r \in Rows: z.seen[r] <= y.seen[r]

\* The statement of an attempt that is over ends, in this run or a later one.
LostUpsert(z) ==
    /\ z \in lost
    /\ z.mode = "incremental" =>
         \A y \in lost: y.table = z.table /\ y.mode = "incremental" => NotBefore(y, z)
    /\ staging' = Staged(z.table, z.seen, z.mode, z.lo, z.hi)
    /\ candidate' = Raised(z.table, z.mode, z.hi)
    /\ lost' = lost \ {z}
    /\ UNCHANGED <<sourceVars, watermark, sinkVars, dagVars, reset, faults>>

\* Nobody is left to commit it: hook.run commits after the statement.
LostRollback(z) ==
    /\ z \in lost
    /\ lost' = lost \ {z}
    /\ UNCHANGED <<sourceVars, staging, metaVars, sinkVars, dagVars, reset, faults>>

\* validate_record_count
CountsValid ==
    /\ shown # {}
    /\ \A t \in Tables: \E r \in Rows: staging[t][r] # 0

\* validate_relationships
RelationsValid ==
    /\ \A r \in Rows: staging[Orders][r] # 0 => CustomerOf[r] \in shown
    /\ \A ref \in Refs: \A r \in Rows: staging[ref[1]][r] # 0 => staging[ref[2]][r] # 0

Validate(x) ==
    /\ x \in {"count", "relations"}
    /\ Ready(x)
    /\ IF (x = "count" /\ CountsValid) \/ (x = "relations" /\ RelationsValid)
         THEN /\ Becomes(x, "applied")
              /\ UNCHANGED <<sourceVars, staging, metaVars, sinkVars, run, tries,
                             window, backfills, lost, reset, faults>>
         ELSE Raises(x)

\* run_dbt_transform, run_iceberg_batch: merge staging, by primary key, into
\* the sink's own tables.  (Each takes the rows loaded since its last merge, and
\* what they are joined with; the rest of staging it has merged before, unless
\* the statement of a lost attempt brought it late.  SalesMarts has the marks.)
Load(s) ==
    /\ s \in Loaders
    /\ Ready(s)
    /\ loaded' = [loaded EXCEPT ![s] = [t \in Tables |-> [r \in Rows |->
                    IF staging[t][r] = 0 THEN loaded[s][t][r] ELSE staging[t][r]]]]
    /\ Becomes(s, "applied")
    /\ UNCHANGED <<sourceVars, staging, metaVars, events, run, tries, window,
                   backfills, lost, reset, faults>>

\* publish_orders.py: the order versions in the run's window, by the bounds
\* in force now.
ToPublish ==
    LET lo == IF run.mode = "backfill" THEN run.start ELSE watermark[Orders]
        hi == IF run.mode = "backfill" THEN run.end ELSE candidate[Orders]
    IN  {<<r, staging[Orders][r]>> : r \in
            {q \in Rows : staging[Orders][q] # 0 /\ Within(staging[Orders][q], run.mode, lo, hi)}}

CandidateMissing == run.mode = "incremental" /\ candidate[Orders] = NoCandidate

Publish ==
    /\ Ready("publish")
    /\ ~CandidateMissing
    /\ events' = events \cup ToPublish
    /\ Becomes("publish", "applied")
    /\ UNCHANGED <<sourceVars, staging, metaVars, loaded, run, tries, window,
                   backfills, lost, reset, faults>>

\* Mutant: the producer exits with success.
PublishPartlyIgnored(delivered) ==
    /\ faults < MaxFaults
    /\ Ready("publish")
    /\ ~CandidateMissing
    /\ delivered \subseteq ToPublish
    /\ events' = events \cup delivered
    /\ faults' = faults + 1
    /\ Becomes("publish", "applied")
    /\ UNCHANGED <<sourceVars, staging, metaVars, loaded, run, tries, window, backfills, lost,
                   reset>>

\* The broker acknowledges only some of the batch; the producer exits non-zero.
PublishPartly(delivered) ==
    /\ faults < MaxFaults
    /\ Ready("publish")
    /\ ~CandidateMissing
    /\ delivered \subseteq ToPublish
    /\ events' = events \cup delivered
    /\ faults' = faults + 1
    /\ AttemptFails("publish")
    /\ UNCHANGED <<sourceVars, staging, metaVars, loaded, run, window, backfills, lost, reset>>

PublishRefuses ==
    /\ Ready("publish")
    /\ CandidateMissing
    /\ Raises("publish")

\* advance_watermarks reads the candidates first ...
AdvanceCheck ==
    /\ Ready("advance")
    /\ \/ /\ run.mode = "backfill"
          /\ Becomes("advance", "applied")
          /\ UNCHANGED tries
       \/ /\ run.mode = "incremental"
          /\ \A t \in Tables: candidate[t] # NoCandidate
          /\ Becomes("advance", "bounded")
          /\ UNCHANGED tries
       \/ /\ run.mode = "incremental"
          /\ \E t \in Tables: candidate[t] = NoCandidate
          /\ AttemptFails("advance")
    /\ UNCHANGED <<sourceVars, staging, metaVars, sinkVars, run, window, backfills, lost,
                   reset, faults>>

\* ... and promotes them in a statement of its own.
AdvanceCommit ==
    /\ task["advance"] = "bounded"
    /\ \A t \in Tables: ~Locked(t)
    /\ watermark' = [t \in Tables |-> IF candidate[t] = NoCandidate THEN watermark[t]
                                      ELSE Larger(watermark[t], candidate[t])]
    /\ candidate' = [t \in Tables |-> NoCandidate]
    /\ Becomes("advance", "applied")
    /\ UNCHANGED <<sourceVars, staging, sinkVars, run, tries, window, backfills, lost,
                   reset, faults>>

-----------------------------------------------------------------------------
(* The reset DAG: 002 recreates staging, then 003 the watermarks.  It has   *)
(* no retry.  Nothing in the code keeps it apart from pipeline runs; how    *)
(* the operator uses it is the constant Resets.  Each DROP waits until no   *)
(* statement uses the tables it drops, lost ones included.                  *)

ResetStaging ==
    /\ Resets # "never"
    /\ run.active => Resets = "any time"
    /\ reset # "dropped"
    /\ lost = {}
    /\ reset' = "dropped"
    /\ staging' = NoRows
    /\ UNCHANGED <<sourceVars, metaVars, sinkVars, dagVars, lost, faults>>

ResetMetadata ==
    /\ reset = "dropped"
    /\ lost = {}
    /\ reset' = "idle"
    /\ watermark' = [t \in Tables |-> 0]
    /\ candidate' = [t \in Tables |-> NoCandidate]
    /\ UNCHANGED <<sourceVars, staging, sinkVars, dagVars, lost, faults>>

ResetDies ==
    /\ ResetCrashes
    /\ faults < MaxFaults
    /\ reset = "dropped"
    /\ reset' = "half"
    /\ faults' = faults + 1
    /\ UNCHANGED <<sourceVars, staging, metaVars, sinkVars, dagVars, lost>>

-----------------------------------------------------------------------------

\* A step of a task that has what it needs.
TaskStep(x) ==
    \/ x \in Tables /\ (ExtractBounds(x) \/ ExtractUpsert(x))
    \/ Validate(x)
    \/ Load(x)
    \/ x = "publish" /\ (Publish \/ PublishRefuses)
    \/ x = "advance" /\ (AdvanceCheck \/ AdvanceCommit)
    \/ TaskReturns(x)

Next ==
    \/ \E t \in Tables, r \in Rows: BeginWrite(t, r)
    \/ \E w \in inflight: CommitWrite(w)
    \/ \E c \in Customers: ShowCustomer(c)
    \/ StartScheduled
    \/ \E start, end \in 1..clock + 1: StartBackfill(start, end)
    \/ EndRun
    \/ \E x \in Tasks: TaskStep(x) \/ TaskCrashes(x)
    \/ \E z \in lost: LostUpsert(z) \/ LostRollback(z)
    \/ \E delivered \in SUBSET ToPublish: PublishPartly(delivered)
    \/ ResetStaging
    \/ ResetMetadata
    \/ ResetDies

Spec == Init /\ [][Next]_vars

\* The scheduler starts due runs and some task of a run goes on while one can; a queued
\* scheduled run gets its turn even when backfills are queued with it.  Open
\* source transactions end, the statement of a lost attempt ends or is rolled
\* back, and CDC shows every customer.  Nothing forces writes, crashes or resets.
FairSpec ==
    /\ Spec
    /\ SF_vars(StartScheduled)
    /\ WF_vars(EndRun)
    /\ WF_vars(\E x \in Tasks: TaskStep(x))
    /\ WF_vars(ResetMetadata)
    /\ WF_vars(\E w \in inflight: CommitWrite(w))
    /\ WF_vars(\E z \in lost: LostUpsert(z) \/ LostRollback(z))
    /\ \A c \in Customers: WF_vars(ShowCustomer(c))

-----------------------------------------------------------------------------
(* Properties *)

\* "watermark_value is safe for all downstream users": a source row at or
\* below the watermark is in staging in that very version, so the open lower
\* bound of the next window skips nothing.
NothingSkipped ==
    reset = "idle" =>
        \A t \in Tables, r \in Rows:
            0 < source[t][r] /\ source[t][r] <= watermark[t]
              => staging[t][r] = source[t][r]

\* The commit barrier: whatever staged version the watermark covers has been
\* merged by both loaders and published, across partial publishes, retries
\* and failed runs.
SinksCoverWatermark ==
    reset = "idle" =>
        \A t \in Tables, r \in Rows:
            LET v == staging[t][r]
            IN  0 < v /\ v <= watermark[t] =>
                    /\ \A s \in Loaders: loaded[s][t][r] >= v
                    /\ t = Orders => <<r, v>> \in events

\* No sink knows a version the source never committed, or one newer than the
\* source has now (every path goes through staging).
SinksFollowSource ==
    /\ \A t \in Tables, r \in Rows:
         /\ staging[t][r] <= source[t][r]
         /\ \A s \in Loaders: loaded[s][t][r] <= source[t][r]
    /\ \A e \in events: e[2] <= source[Orders][e[1]]

\* What a loader holds and the watermark covers is never taken back, whatever
\* backfills reread and statements of lost incremental attempts stage late.
CommittedStays ==
    [][reset = "idle" =>
         \A s \in Loaders, t \in Tables, r \in Rows:
            loaded[s][t][r] <= watermark[t] => loaded'[s][t][r] >= loaded[s][t][r]]_vars

Delivered ==
    \A t \in Tables, r \in Rows:
        /\ staging[t][r] = source[t][r]
        /\ \A s \in Loaders: loaded[s][t][r] = source[t][r]
        /\ t = Orders /\ source[t][r] # 0 => <<r, source[t][r]>> \in events

\* Once the source is quiet (and no required table is empty) and resets are
\* over, everything is delivered despite crashed tasks, attempts that outlive
\* them and runs that validation rejects.
EventuallyDelivered ==
    <>[](reset = "idle") => <>[]((\A t \in Tables: Versions(t) # {}) => Delivered)
=============================================================================
