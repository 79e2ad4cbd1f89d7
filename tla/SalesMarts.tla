----------------------------- MODULE SalesMarts -----------------------------
(***************************************************************************)
(* The sales marts behind staging: dbt's incremental analytics.fact_sales  *)
(* and analytics.daily_sales, and the Iceberg table ecommerce.fact_sales,  *)
(* built by successive runs of ecommerce_pipeline.                         *)
(*                                                                         *)
(* An item is an order with its one item: the day of order_date and a      *)
(* version for everything else.  Its payment attempts are counted, and     *)
(* have a version and a loaded_at of their own.  A daily_sales row is the  *)
(* set of contributions summed in it.  WatermarkPipeline has the tasks     *)
(* around this in detail; here a run is an extract, a dbt build of two     *)
(* models and a test, and the Iceberg job.                                 *)
(***************************************************************************)
EXTENDS Integers, FiniteSets

CONSTANTS
    Items,          \* order_item_id values
    Days,           \* business dates
    NoDay,          \* NULL
    LostRepairs,    \* TRUE iff a run may also end failed when daily_sales is
                    \* behind fact_sales
    MaxAttempts,    \* bound: payment attempts of an order
    MaxVersion,     \* bound: source changes
    MaxLoads,       \* bound: extracts
    MaxFaults       \* bound: interrupted dbt builds and Iceberg jobs

ASSUME NoDayIsNoDay == NoDay \notin Days
ASSUME LostRepairsIsBoolean == LostRepairs \in BOOLEAN
ASSUME BoundsAreNaturals ==
    MaxVersion \in Nat /\ MaxAttempts \in Nat /\ MaxLoads \in Nat /\ MaxFaults \in Nat

VARIABLES
    version,    \* the last version handed out by the source
    orders,     \* orders[i]: day and version, version 0 if not inserted yet
    payments,   \* payments[i]: attempts, how many are completed, and version
    watermark,  \* the source version up to which runs have committed
    candidate,  \* the upper bound of the active run
    loads,      \* the last value of staging's loaded_at
    staging,    \* the staged row of orders[i] and its loaded_at (0: no row)
    paid,       \* the staged rows of payments[i] and the latest loaded_at
    build,      \* progress of the run's dbt build; "none" if no run is active
    fact,       \* fact_sales by order_item_id, with previous_order_date
    daily,      \* daily_sales by sales_date; no items means no row
    merged,     \* TRUE iff the run's Iceberg job has succeeded
    iceberg,    \* the Iceberg table by order_item_id
    faults

sourceVars == <<version, orders, payments>>
runVars    == <<watermark, candidate, loads, staging, paid>>
dbtVars    == <<build, fact, daily>>
iceVars    == <<merged, iceberg>>
vars == <<sourceVars, runVars, dbtVars, iceVars, faults>>

Day == Days \cup {NoDay}
Order == [day: Day, version: Nat]
Payments == [attempts: Nat, completed: Nat, version: Nat]
StagedOrder == [day: Day, version: Nat, loaded: Nat]
StagedPayments == [attempts: Nat, completed: Nat, version: Nat, loaded: Nat]
Status == {"paid", "partially_paid", "unpaid"}
SalesRow == [day: Day, version: Nat, status: Status, attempts: Nat, loaded: Nat]
FactRow == [day: Day, version: Nat, status: Status, attempts: Nat, loaded: Nat, previous: Day]
DailyRow == [items: SUBSET (Items \X Nat \X BOOLEAN), loaded: Nat]

NoSale == [day |-> NoDay, version |-> 0, status |-> "unpaid", attempts |-> 0, loaded |-> 0]

\* The columns both engines keep of a sale, and a sale with dbt's one more.
Sale(row) == [day |-> row.day, version |-> row.version, status |-> row.status,
              attempts |-> row.attempts, loaded |-> row.loaded]
Fact(sale, d) == [day |-> sale.day, version |-> sale.version, status |-> sale.status,
                  attempts |-> sale.attempts, loaded |-> sale.loaded, previous |-> d]

TypeOK ==
    /\ version \in Nat /\ watermark \in Nat /\ candidate \in Nat /\ loads \in Nat
    /\ orders \in [Items -> Order]
    /\ payments \in [Items -> Payments]
    /\ staging \in [Items -> StagedOrder]
    /\ paid \in [Items -> StagedPayments]
    /\ build \in {"none", "staged", "fact", "daily", "tested"}
    /\ fact \in [Items -> FactRow]
    /\ daily \in [Days -> DailyRow]
    /\ merged \in BOOLEAN
    /\ iceberg \in [Items -> SalesRow]
    /\ faults \in Nat

Init ==
    /\ version = 0 /\ watermark = 0 /\ candidate = 0 /\ loads = 0
    /\ orders = [i \in Items |-> [day |-> NoDay, version |-> 0]]
    /\ payments = [i \in Items |-> [attempts |-> 0, completed |-> 0, version |-> 0]]
    /\ staging = [i \in Items |-> [day |-> NoDay, version |-> 0, loaded |-> 0]]
    /\ paid = [i \in Items |-> [attempts |-> 0, completed |-> 0, version |-> 0, loaded |-> 0]]
    /\ build = "none"
    /\ fact = [i \in Items |-> Fact(NoSale, NoDay)]
    /\ daily = [d \in Days |-> [items |-> {}, loaded |-> 0]]
    /\ merged = FALSE
    /\ iceberg = [i \in Items |-> NoSale]
    /\ faults = 0

\* COALESCE(MAX(..), 1900-01-01) over a finite set of loaded_at values.
Newest(S) == CHOOSE n \in S \cup {0}: \A other \in S: other <= n

-----------------------------------------------------------------------------
(* The run around the marts *)

\* The source inserts an order, moves it to another day, or changes something
\* else about it.
ChangeOrder(i, d) ==
    /\ version < MaxVersion
    /\ version' = version + 1
    /\ orders' = [orders EXCEPT ![i] = [day |-> d, version |-> version + 1]]
    /\ UNCHANGED <<payments, runVars, dbtVars, iceVars, faults>>

\* A payment attempt is added, or one of them changes its status.
ChangePayments(i, attempts, completed) ==
    /\ version < MaxVersion
    /\ orders[i].version > 0
    /\ attempts \in {payments[i].attempts, payments[i].attempts + 1} \ {0}
    /\ completed \in 0..attempts
    /\ version' = version + 1
    /\ payments' = [payments EXCEPT ![i] = [attempts |-> attempts, completed |-> completed,
                                            version |-> version + 1]]
    /\ UNCHANGED <<orders, runVars, dbtVars, iceVars, faults>>

\* The upserts of a run: the present source rows of a window over each table,
\* with a new loaded_at whether or not an earlier run has staged them already.
\* CURRENT_TIMESTAMP is the start of the transaction, which lies after all loads
\* merged before: every statement ends with its attempt here.  (An incremental one
\* that does not is staged again by the next scheduled run: WatermarkPipeline.)
Stage(changedOrders, changedPayments) ==
    /\ build = "none"
    /\ loads < MaxLoads
    /\ loads' = loads + 1
    /\ staging' = [i \in Items |->
                     IF i \in changedOrders /\ orders[i].version > 0
                     THEN [day |-> orders[i].day, version |-> orders[i].version,
                           loaded |-> loads + 1]
                     ELSE staging[i]]
    /\ paid' = [i \in Items |->
                  IF i \in changedPayments /\ payments[i].version > 0
                  THEN [attempts |-> payments[i].attempts, completed |-> payments[i].completed,
                        version |-> payments[i].version, loaded |-> loads + 1]
                  ELSE paid[i]]
    /\ build' = "staged"
    /\ merged' = FALSE
    /\ UNCHANGED <<sourceVars, watermark, fact, daily, iceberg, faults>>

Above(table) == {i \in Items : table[i].version > watermark}

\* Mutant: the upper bound is one version short.
ExtractOneBelow ==
    /\ Stage(Above(orders), Above(payments))
    /\ candidate' = version - 1

\* An incremental run: everything above the watermark.
Extract ==
    /\ Stage(Above(orders), Above(payments))
    /\ candidate' = version

\* A backfill: rows of some older window; the watermark stays.
Backfill(window) ==
    /\ window # {}
    /\ \A i \in window: orders[i].version <= watermark /\ payments[i].version <= watermark
    /\ Stage(window, window)
    /\ candidate' = watermark

\* Both sinks are done: advance_watermarks.
Advance ==
    /\ build = "tested" /\ merged
    /\ watermark' = candidate
    /\ build' = "none"
    /\ UNCHANGED <<sourceVars, candidate, loads, staging, paid, fact, daily, iceVars, faults>>

\* Facts that daily_sales has not been built from.
DailyHigh == Newest({daily[d].loaded : d \in Days})
Uncounted == {i \in Items : fact[i].loaded > DailyHigh}

\* A task is out of retries; the run ends and the watermark stays.
FailRun ==
    /\ LostRepairs \/ Uncounted = {}
    /\ build # "none"
    /\ faults < MaxFaults
    /\ build' = "none"
    /\ faults' = faults + 1
    /\ UNCHANGED <<sourceVars, runVars, fact, daily, iceVars>>

-----------------------------------------------------------------------------
(* int_payments_by_order.sql, int_sales_order_items.sql *)

Greater(a, b) == IF a >= b THEN a ELSE b

\* source_loaded_at, 0 for an item without a staged row (inner join).
LoadedAt(i) == IF staging[i].version = 0 THEN 0 ELSE Greater(staging[i].loaded, paid[i].loaded)

\* bool_and, bool_or over the attempts; no attempts means no row to join.
DbtStatus(i) ==
    IF paid[i].attempts = 0 THEN "unpaid"
    ELSE IF paid[i].completed = paid[i].attempts THEN "paid"
    ELSE IF paid[i].completed > 0 THEN "partially_paid" ELSE "unpaid"

DbtSale(i) ==
    [day |-> staging[i].day, version |-> staging[i].version, status |-> DbtStatus(i),
     attempts |-> paid[i].attempts, loaded |-> LoadedAt(i)]

-----------------------------------------------------------------------------
(* dbt build: fact_sales, daily_sales and its test, a commit each *)

\* The rows of int_sales_order_items newer than the target's high-water mark.
FactHigh == Newest({fact[i].loaded : i \in Items})
Selected == {i \in Items : LoadedAt(i) > FactHigh}

\* Mutant: existing_facts is ignored.
PreviousDayForgotten(i) == NoDay

\* previous_order_date: the day the stored fact had, if that was another one.
PreviousDay(i) ==
    IF fact[i].day # staging[i].day THEN fact[i].day ELSE NoDay

BuildFact ==
    /\ build = "staged"
    /\ fact' = [i \in Items |->
                  IF i \in Selected THEN Fact(DbtSale(i), PreviousDay(i)) ELSE fact[i]]
    /\ build' = "fact"
    /\ UNCHANGED <<sourceVars, runVars, daily, iceVars, faults>>

FactsOf(d) == {i \in Items : fact[i].loaded > 0 /\ fact[i].day = d}

\* What item i adds to total_items, total_sales and paid_sales.
Counted(i) == <<i, fact[i].version, fact[i].status = "paid">>

\* What daily_metrics computes for a whole day.
DayTotal(d) ==
    [items |-> {Counted(i) : i \in FactsOf(d)},
     loaded |-> Newest({fact[i].loaded : i \in FactsOf(d)})]

\* Mutant: one date per fact, COALESCE(previous_order_date, order_date).
AffectedOnce ==
    {IF fact[i].previous = NoDay THEN fact[i].day ELSE fact[i].previous : i \in Uncounted}

\* affected_dates
Affected ==
    {fact[i].day : i \in Uncounted} \cup ({fact[i].previous : i \in Uncounted} \ {NoDay})

\* Mutant: the new rows are added to the stored ones instead of recomputed.
BuildDailyByDelta ==
    /\ build = "fact"
    /\ daily' = [d \in Days |->
                   IF d \in Affected
                   THEN [items |-> daily[d].items \cup DayTotal(d).items,
                         loaded |-> DayTotal(d).loaded]
                   ELSE daily[d]]
    /\ build' = "daily"
    /\ UNCHANGED <<sourceVars, runVars, fact, iceVars, faults>>

\* MERGE of the affected days, then the post_hook, in one transaction: a day
\* that no fact is left on is deleted.
BuildDaily ==
    /\ build = "fact"
    /\ daily' = [d \in Days |->
                   IF d \in Affected \/ FactsOf(d) = {} THEN DayTotal(d) ELSE daily[d]]
    /\ build' = "daily"
    /\ UNCHANGED <<sourceVars, runVars, fact, iceVars, faults>>

\* assert_daily_sales_matches_fact.sql
DailyIsFact == \A d \in Days: daily[d].items = DayTotal(d).items

TestDaily ==
    /\ build = "daily"
    /\ build' = IF DailyIsFact THEN "tested" ELSE "staged"
    /\ UNCHANGED <<sourceVars, runVars, fact, daily, iceVars, faults>>

\* The build is interrupted or a test between the models fails; Airflow runs
\* the task again, on the same staging rows.
DbtRetries ==
    /\ build \in {"staged", "fact", "daily"}
    /\ faults < MaxFaults
    /\ faults' = faults + 1
    /\ build' = "staged"
    /\ UNCHANGED <<sourceVars, runVars, fact, daily, iceVars>>

-----------------------------------------------------------------------------
(* spark/jobs/sales_batch.py, iceberg_sales.py *)

\* payment_metrics; a null status is coalesced for an order with no attempts.
SparkStatus(i) ==
    IF paid[i].version = 0 THEN "unpaid"
    ELSE IF paid[i].completed = paid[i].attempts THEN "paid"
    ELSE IF paid[i].completed > 0 THEN "partially_paid" ELSE "unpaid"

\* transform_sales
SparkSale(i) ==
    [day |-> staging[i].day, version |-> staging[i].version, status |-> SparkStatus(i),
     attempts |-> paid[i].attempts, loaded |-> LoadedAt(i)]

IceHigh == Newest({iceberg[i].loaded : i \in Items})
Updates == {i \in Items : LoadedAt(i) > IceHigh}

\* Mutant: a row that is there already is not updated.
IcebergMergedInsertOnly ==
    [i \in Items |-> IF i \in Updates /\ iceberg[i].loaded = 0 THEN SparkSale(i) ELSE iceberg[i]]

\* main and write_sales: the rows above the table's high-water mark, appended
\* to an empty table or merged into a filled one.
IcebergMerged ==
    [i \in Items |->
        IF i \in Updates /\ LoadedAt(i) >= iceberg[i].loaded THEN SparkSale(i)
        ELSE iceberg[i]]

\* The commit is durable; the gateway may answer success, or the answer may be
\* lost and the task runs again.
IcebergJob(answered) ==
    /\ build # "none" /\ ~merged
    /\ answered \/ faults < MaxFaults
    /\ iceberg' = IcebergMerged
    /\ merged' = answered
    /\ faults' = IF answered THEN faults ELSE faults + 1
    /\ UNCHANGED <<sourceVars, runVars, dbtVars>>

-----------------------------------------------------------------------------

Next ==
    \/ \E i \in Items, d \in Days: ChangeOrder(i, d)
    \/ \E i \in Items, attempts \in 1..MaxAttempts, completed \in 0..MaxAttempts:
         ChangePayments(i, attempts, completed)
    \/ Extract
    \/ \E window \in SUBSET Items: Backfill(window)
    \/ BuildFact
    \/ BuildDaily
    \/ TestDaily
    \/ DbtRetries
    \/ \E answered \in BOOLEAN: IcebergJob(answered)
    \/ Advance
    \/ FailRun

Spec == Init /\ [][Next]_vars

-----------------------------------------------------------------------------
(* Properties *)

\* assert_daily_sales_matches_fact holds after every dbt build of daily_sales:
\* recomputing whole affected days repairs whatever changed since the last
\* build that got this far.
DailyMatchesFact == build = "daily" => DailyIsFact

\* The high-water mark of daily_sales is honest: a fact at or below it is
\* counted, as it is now, on its day (affected_dates skips it).
CountedBelowHighWater ==
    \A i \in Items \ Uncounted: fact[i].loaded > 0 => Counted(i) \in daily[fact[i].day].items

\* A day that still counts an item as it no longer is will be repaired: the
\* item's fact is above the high-water mark and names that day.
StaleDayWillBeRepaired ==
    \A d \in Days: \A counted \in daily[d].items:
        LET i == counted[1]
        IN  \/ fact[i].day = d /\ counted = Counted(i)
            \/ i \in Uncounted /\ d \in {fact[i].day, fact[i].previous}

\* A finished run leaves both engines with the same sales, those of the staged
\* rows, so the strict high-water filters of dbt and of Iceberg have skipped
\* nothing, and a late payment has reached the status of a sale merged before.
EnginesAgree ==
    build = "tested" /\ merged =>
        \A i \in Items: staging[i].version > 0 =>
            /\ Sale(fact[i]) = iceberg[i]
            /\ fact[i].day = staging[i].day /\ fact[i].version = staging[i].version
            /\ fact[i].status = "paid" <=> paid[i].attempts > 0
                                           /\ paid[i].completed = paid[i].attempts
=============================================================================
