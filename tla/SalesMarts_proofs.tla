------------------------- MODULE SalesMarts_proofs --------------------------
(***************************************************************************)
(* Proofs about SalesMarts, for any items and days, any number of source   *)
(* changes, payment attempts, runs and interrupted builds.                 *)
(***************************************************************************)
EXTENDS SalesMarts, WellFoundedInduction, TLAPS

-----------------------------------------------------------------------------
(* The inductive invariant *)

\* loaded_at values come from staging, and daily_sales takes its own from
\* fact_sales.
LoadsBounded ==
    /\ \A i \in Items: /\ staging[i].loaded <= loads /\ paid[i].loaded <= loads
                       /\ fact[i].loaded <= loads /\ iceberg[i].loaded <= loads
    /\ \A d \in Days: daily[d].loaded <= FactHigh

\* A row has a day exactly if there is one, and payments are counted as soon
\* as there is a row of them.
RowsComplete ==
    /\ \A i \in Items:
         /\ orders[i].version > 0 => orders[i].day \in Days
         /\ staging[i].version > 0 => staging[i].day \in Days
         /\ fact[i].loaded > 0 <=> fact[i].day \in Days
         /\ payments[i].version > 0 <=> payments[i].attempts > 0
         /\ paid[i].version > 0 <=> paid[i].attempts > 0
    /\ \A d \in Days: daily[d].items = {} => daily[d].loaded = 0

\* dbt: what its strict filter skips is in fact_sales as it is staged.
FactsMerged ==
    /\ \A i \in Items: staging[i].version > 0 /\ i \notin Selected => Sale(fact[i]) = DbtSale(i)
    /\ build \in {"fact", "daily", "tested"} => Selected = {}

\* The same of the Iceberg job.
IcebergRowsMerged ==
    /\ \A i \in Items: staging[i].version > 0 /\ i \notin Updates => iceberg[i] = SparkSale(i)
    /\ merged => Updates = {}

EngineInv == LoadsBounded /\ RowsComplete /\ FactsMerged /\ IcebergRowsMerged

\* How far the build is decides what daily_sales may lag behind in: a new fact
\* is merged only when the ones before it are counted, since previous_order_date
\* names one day only.
BuildProgress ==
    /\ build = "none" => Uncounted = {}
    /\ build \in {"staged", "fact"} => Uncounted = {} \/ Selected = {}
    /\ build \in {"daily", "tested"} => Uncounted = {} /\ DailyIsFact

RepairInv == StaleDayWillBeRepaired /\ BuildProgress

-----------------------------------------------------------------------------
(* COALESCE(MAX(..)) *)

LessThan == {pair \in Nat \X Nat : pair[1] < pair[2]}

LEMMA LeastNatural ==
    ASSUME NEW T \in SUBSET Nat, T # {}
    PROVE  \E n \in T: \A m \in T: n <= m
  <1>1. IsWellFoundedOn(LessThan, Nat)
    BY NatLessThanWellFounded DEF OpToRel, LessThan
  <1>2. PICK n \in T: \A m \in T: <<m, n>> \notin LessThan
    BY <1>1, WFMin, Zenon
  <1>3. \A m \in T: ~(m < n)
    BY <1>2 DEF LessThan
  <1> QED
    BY <1>3

\* A bounded set has a maximum, and Newest is it (0 of no values).
LEMMA NewestOf ==
    ASSUME NEW S \in SUBSET Nat, NEW bound \in Nat, \A n \in S: n <= bound
    PROVE  /\ Newest(S) \in S \cup {0} /\ Newest(S) \in Nat /\ Newest(S) <= bound
           /\ \A n \in S: n <= Newest(S)
  <1> DEFINE Upper == {u \in Nat : \A n \in S: n <= u}
  <1>1. PICK top \in Upper: \A u \in Upper: top <= u
    <2>1. bound \in Upper
      OBVIOUS
    <2> QED
      BY <2>1, LeastNatural
  <1>2. top \in S \cup {0}
    <2> SUFFICES ASSUME top # 0, top \notin S PROVE FALSE
      OBVIOUS
    <2>1. top - 1 \in Nat /\ \A n \in S: n <= top - 1
      BY <1>1
    <2>2. top - 1 \in Upper
      BY <2>1
    <2> QED
      BY <1>1, <2>2
  <1>3. \A n \in S: n <= top
    BY <1>1
  <1>4. /\ Newest(S) \in S \cup {0}
        /\ \A n \in S: n <= Newest(S)
    <2> DEFINE Top(n) == \A other \in S: other <= n
    <2>1. \E n \in S \cup {0}: Top(n)
      BY <1>2, <1>3
    <2>2. Newest(S) = CHOOSE n \in S \cup {0}: Top(n)
      BY DEF Newest
    <2> HIDE DEF Top
    <2>3. Newest(S) \in S \cup {0} /\ Top(Newest(S))
      BY <2>1, <2>2, Zenon
    <2> QED
      BY <2>3 DEF Top
  <1>5. \A n \in S \cup {0}: n \in Nat /\ n <= bound
    OBVIOUS
  <1> QED
    BY <1>4, <1>5

FactMark ==
    /\ FactHigh \in Nat /\ \A i \in Items: fact[i].loaded <= FactHigh
    /\ FactHigh = 0 \/ \E i \in Items: fact[i].loaded = FactHigh

DailyMark ==
    /\ DailyHigh \in Nat /\ DailyHigh <= FactHigh /\ \A d \in Days: daily[d].loaded <= DailyHigh
    /\ DailyHigh = 0 \/ \E d \in Days: daily[d].loaded = DailyHigh

IceMark ==
    /\ IceHigh \in Nat /\ \A i \in Items: iceberg[i].loaded <= IceHigh
    /\ IceHigh = 0 \/ \E i \in Items: iceberg[i].loaded = IceHigh

FactsBounded == \A i \in Items: fact[i].loaded <= loads
IceBounded == \A i \in Items: iceberg[i].loaded <= loads

LEMMA FactMarks == TypeOK /\ FactsBounded => FactMark
  <1> SUFFICES ASSUME TypeOK, FactsBounded PROVE FactMark
    OBVIOUS
  <1> DEFINE S == {fact[i].loaded : i \in Items}
  <1>1. S \in SUBSET Nat /\ loads \in Nat /\ \A n \in S: n <= loads
    BY DEF TypeOK, FactsBounded, FactRow
  <1>2. FactHigh = Newest(S)
    BY DEF FactHigh
  <1> HIDE DEF S
  <1>3. /\ Newest(S) \in S \cup {0} /\ Newest(S) \in Nat /\ \A n \in S: n <= Newest(S)
    BY <1>1, NewestOf
  <1> QED
    BY <1>2, <1>3 DEF S, FactMark

LEMMA DailyMarks == TypeOK /\ FactsBounded /\ (\A d \in Days: daily[d].loaded <= FactHigh) => DailyMark
  <1> SUFFICES ASSUME TypeOK, FactsBounded, \A d \in Days: daily[d].loaded <= FactHigh
               PROVE  DailyMark
    OBVIOUS
  <1> DEFINE S == {daily[d].loaded : d \in Days}
  <1>1. FactHigh \in Nat
    BY FactMarks DEF FactMark
  <1>2. S \in SUBSET Nat /\ \A n \in S: n <= FactHigh
    BY DEF TypeOK, DailyRow
  <1>3. DailyHigh = Newest(S)
    BY DEF DailyHigh
  <1> HIDE DEF S
  <1>4. /\ Newest(S) \in S \cup {0} /\ Newest(S) \in Nat /\ Newest(S) <= FactHigh
        /\ \A n \in S: n <= Newest(S)
    BY <1>1, <1>2, NewestOf
  <1> QED
    BY <1>3, <1>4 DEF S, DailyMark

LEMMA IceMarks == TypeOK /\ IceBounded => IceMark
  <1> SUFFICES ASSUME TypeOK, IceBounded PROVE IceMark
    OBVIOUS
  <1> DEFINE S == {iceberg[i].loaded : i \in Items}
  <1>1. S \in SUBSET Nat /\ loads \in Nat /\ \A n \in S: n <= loads
    BY DEF TypeOK, IceBounded, SalesRow
  <1>2. IceHigh = Newest(S)
    BY DEF IceHigh
  <1> HIDE DEF S
  <1>3. /\ Newest(S) \in S \cup {0} /\ Newest(S) \in Nat /\ \A n \in S: n <= Newest(S)
    BY <1>1, NewestOf
  <1> QED
    BY <1>2, <1>3 DEF S, IceMark

\* The marks are what their names say in the next state too.
LEMMA NextMarks ==
    /\ (TypeOK /\ FactsBounded)' => FactMark'
    /\ (TypeOK /\ FactsBounded /\ (\A d \in Days: daily[d].loaded <= FactHigh))' => DailyMark'
    /\ (TypeOK /\ IceBounded)' => IceMark'
  BY FactMarks, DailyMarks, IceMarks, PTL

-----------------------------------------------------------------------------
(* Type correctness *)

LEMMA RowsTyped ==
    ASSUME TypeOK, NEW i \in Items
    PROVE  /\ orders[i].day \in Day /\ orders[i].version \in Nat
           /\ payments[i].attempts \in Nat /\ payments[i].completed \in Nat
           /\ payments[i].version \in Nat
           /\ staging[i].day \in Day /\ staging[i].version \in Nat /\ staging[i].loaded \in Nat
           /\ paid[i].attempts \in Nat /\ paid[i].completed \in Nat /\ paid[i].version \in Nat
           /\ paid[i].loaded \in Nat
           /\ fact[i].day \in Day /\ fact[i].version \in Nat /\ fact[i].loaded \in Nat
           /\ fact[i].previous \in Day
           /\ iceberg[i].loaded \in Nat
  BY DEF TypeOK, Order, Payments, StagedOrder, StagedPayments, FactRow, SalesRow

\* The int_ models and transform_sales give rows of the sales schema.
LEMMA SalesTyped ==
    ASSUME TypeOK, NEW i \in Items
    PROVE  /\ LoadedAt(i) \in Nat
           /\ DbtSale(i) \in SalesRow /\ SparkSale(i) \in SalesRow
           /\ PreviousDay(i) \in Day
  <1>1. LoadedAt(i) \in Nat
    BY RowsTyped DEF LoadedAt, Greater
  <1>2. DbtStatus(i) \in Status /\ SparkStatus(i) \in Status
    BY DEF DbtStatus, SparkStatus, Status
  <1>3. PreviousDay(i) \in Day
    BY RowsTyped DEF PreviousDay, Day
  <1> QED
    BY <1>1, <1>2, <1>3, RowsTyped DEF DbtSale, SparkSale, SalesRow

LEMMA FactTyped ==
    ASSUME NEW sale \in SalesRow, NEW d \in Day
    PROVE  Fact(sale, d) \in FactRow
  BY DEF Fact, SalesRow, FactRow

LEMMA DayTotalTyped ==
    ASSUME TypeOK, FactsBounded, NEW d \in Days
    PROVE  DayTotal(d) \in DailyRow
  <1> DEFINE S == {fact[i].loaded : i \in FactsOf(d)}
  <1>1. S \in SUBSET Nat /\ loads \in Nat /\ \A n \in S: n <= loads
    BY DEF TypeOK, FactsBounded, FactRow, FactsOf
  <1>2. Newest(S) \in Nat
    <2> HIDE DEF S
    <2> QED
      BY <1>1, NewestOf
  <1>3. \A i \in Items: Counted(i) \in Items \X Nat \X BOOLEAN
    BY RowsTyped DEF Counted
  <1>4. {Counted(i) : i \in FactsOf(d)} \in SUBSET (Items \X Nat \X BOOLEAN)
    BY <1>3 DEF FactsOf
  <1> QED
    BY <1>2, <1>4 DEF DayTotal, DailyRow

LEMMA TypeInit == Init => TypeOK
  <1> SUFFICES ASSUME Init PROVE TypeOK
    OBVIOUS
  <1>1. NoDay \in Day /\ NoSale \in SalesRow
    BY DEF Day, NoSale, SalesRow, Status
  <1>2. fact \in [Items -> FactRow] /\ iceberg \in [Items -> SalesRow]
    BY <1>1, FactTyped DEF Init
  <1>3. orders \in [Items -> Order] /\ payments \in [Items -> Payments]
    BY <1>1 DEF Init, Order, Payments
  <1>4. /\ staging \in [Items -> StagedOrder] /\ paid \in [Items -> StagedPayments]
        /\ daily \in [Days -> DailyRow]
    BY <1>1 DEF Init, StagedOrder, StagedPayments, DailyRow
  <1> QED
    BY <1>2, <1>3, <1>4 DEF Init, TypeOK

LEMMA TypeStep == TypeOK /\ FactsBounded /\ [Next]_vars => TypeOK'
  <1> SUFFICES ASSUME TypeOK, FactsBounded, [Next]_vars PROVE TypeOK'
    OBVIOUS
  <1>1. CASE UNCHANGED vars
    BY <1>1 DEF TypeOK, vars, sourceVars, runVars, dbtVars, iceVars
  <1>2. ASSUME NEW i \in Items, NEW d \in Days, ChangeOrder(i, d) PROVE TypeOK'
    <2>1. [day |-> d, version |-> version + 1] \in Order
      BY DEF TypeOK, Order, Day
    <2>2. orders' \in [Items -> Order]
      BY <1>2, <2>1 DEF TypeOK, ChangeOrder
    <2> QED
      BY <1>2, <2>2 DEF TypeOK, ChangeOrder, runVars, dbtVars, iceVars
  <1>3. ASSUME NEW i \in Items, NEW attempts \in 1..MaxAttempts, NEW completed \in 0..MaxAttempts,
               ChangePayments(i, attempts, completed)
        PROVE  TypeOK'
    <2>1. [attempts |-> attempts, completed |-> completed, version |-> version + 1] \in Payments
      BY BoundsAreNaturals DEF TypeOK, Payments
    <2>2. payments' \in [Items -> Payments]
      BY <1>3, <2>1 DEF TypeOK, ChangePayments
    <2> QED
      BY <1>3, <2>2 DEF TypeOK, ChangePayments, runVars, dbtVars, iceVars
  <1>4. ASSUME NEW changedOrders, NEW changedPayments, Stage(changedOrders, changedPayments),
               candidate' \in Nat
        PROVE  TypeOK'
    <2>1. loads' \in Nat
      BY <1>4 DEF TypeOK, Stage
    <2>2. staging' \in [Items -> StagedOrder]
      BY <1>4, <2>1, RowsTyped DEF TypeOK, Stage, StagedOrder
    <2>3. paid' \in [Items -> StagedPayments]
      BY <1>4, <2>1, RowsTyped DEF TypeOK, Stage, StagedPayments
    <2> QED
      BY <1>4, <2>1, <2>2, <2>3 DEF TypeOK, Stage, sourceVars
  <1>5. CASE Extract
    BY <1>4, <1>5 DEF Extract, TypeOK
  <1>6. ASSUME NEW window \in SUBSET Items, Backfill(window) PROVE TypeOK'
    BY <1>4, <1>6 DEF Backfill, TypeOK
  <1>7. CASE BuildFact
    <2>1. \A i \in Items: Fact(DbtSale(i), PreviousDay(i)) \in FactRow
      BY SalesTyped, FactTyped
    <2>2. fact' \in [Items -> FactRow]
      BY <1>7, <2>1 DEF BuildFact, TypeOK
    <2> QED
      BY <1>7, <2>2 DEF BuildFact, TypeOK, sourceVars, runVars, iceVars
  <1>8. CASE BuildDaily
    <2>1. daily' \in [Days -> DailyRow]
      BY <1>8, DayTotalTyped DEF BuildDaily, TypeOK
    <2> QED
      BY <1>8, <2>1 DEF BuildDaily, TypeOK, sourceVars, runVars, iceVars
  <1>9. CASE TestDaily
    BY <1>9 DEF TestDaily, TypeOK, sourceVars, runVars, iceVars
  <1>10. CASE DbtRetries
    BY <1>10 DEF DbtRetries, TypeOK, sourceVars, runVars, iceVars
  <1>11. ASSUME NEW answered \in BOOLEAN, IcebergJob(answered) PROVE TypeOK'
    <2>1. iceberg' \in [Items -> SalesRow]
      BY <1>11, SalesTyped DEF IcebergJob, IcebergMerged, TypeOK
    <2> QED
      BY <1>11, <2>1 DEF IcebergJob, TypeOK, sourceVars, runVars, dbtVars
  <1>12. CASE Advance
    BY <1>12 DEF Advance, TypeOK, sourceVars, iceVars
  <1>13. CASE FailRun
    BY <1>13 DEF FailRun, TypeOK, sourceVars, runVars, iceVars
  <1> QED
    BY <1>1, <1>2, <1>3, <1>5, <1>6, <1>7, <1>8, <1>9, <1>10, <1>11, <1>12, <1>13 DEF Next

-----------------------------------------------------------------------------
(* What the two builds and the Iceberg job do *)

LEMMA LoadedAtBounded ==
    ASSUME TypeOK, LoadsBounded, NEW i \in Items
    PROVE  LoadedAt(i) <= loads
  <1>1. loads \in Nat
    BY DEF TypeOK
  <1> QED
    BY <1>1, RowsTyped DEF LoadsBounded, LoadedAt, Greater

\* What is left alone keeps its marks.
LEMMA SameRows ==
    /\ UNCHANGED fact => /\ FactHigh' = FactHigh
                         /\ \A d \in Days: FactsOf(d)' = FactsOf(d) /\ DayTotal(d)' = DayTotal(d)
    /\ UNCHANGED daily => DailyHigh' = DailyHigh
    /\ UNCHANGED iceberg => IceHigh' = IceHigh
    /\ UNCHANGED <<fact, daily>> => Uncounted' = Uncounted /\ DailyIsFact' = DailyIsFact
    /\ UNCHANGED <<staging, paid>> =>
         \A i \in Items: /\ LoadedAt(i)' = LoadedAt(i) /\ DbtSale(i)' = DbtSale(i)
                         /\ SparkSale(i)' = SparkSale(i)
    /\ UNCHANGED <<staging, paid, fact>> => Selected' = Selected
    /\ UNCHANGED <<staging, paid, iceberg>> => Updates' = Updates
  <1>1. UNCHANGED fact =>
          /\ FactHigh' = FactHigh
          /\ \A d \in Days: FactsOf(d)' = FactsOf(d) /\ DayTotal(d)' = DayTotal(d)
    BY DEF FactHigh, FactsOf, DayTotal, Counted
  <1>2. UNCHANGED daily => DailyHigh' = DailyHigh
    BY DEF DailyHigh
  <1>3. UNCHANGED iceberg => IceHigh' = IceHigh
    BY DEF IceHigh
  <1>4. UNCHANGED <<fact, daily>> => Uncounted' = Uncounted /\ DailyIsFact' = DailyIsFact
    BY <1>1, <1>2 DEF Uncounted, DailyIsFact
  <1>5. UNCHANGED <<staging, paid>> =>
          \A i \in Items: /\ LoadedAt(i)' = LoadedAt(i) /\ DbtSale(i)' = DbtSale(i)
                          /\ SparkSale(i)' = SparkSale(i)
    BY DEF LoadedAt, DbtSale, SparkSale, DbtStatus, SparkStatus
  <1>6. UNCHANGED <<staging, paid, fact>> => Selected' = Selected
    BY <1>1, <1>5 DEF Selected
  <1>7. UNCHANGED <<staging, paid, iceberg>> => Updates' = Updates
    BY <1>3, <1>5 DEF Updates
  <1> QED
    BY <1>1, <1>2, <1>3, <1>4, <1>5, <1>6, <1>7

LEMMA SaleOfFact ==
    ASSUME NEW i, NEW d
    PROVE  /\ Sale(Fact(DbtSale(i), d)) = DbtSale(i)
           /\ Fact(DbtSale(i), d).loaded = LoadedAt(i) /\ Fact(DbtSale(i), d).day = staging[i].day
           /\ Fact(DbtSale(i), d).previous = d
  BY DEF Fact, Sale, DbtSale

\* The merge of fact_sales takes every selected row as it is staged, and leaves
\* nothing to select.
LEMMA FactBuilt ==
    ASSUME TypeOK, TypeOK', LoadsBounded, BuildFact
    PROVE  /\ \A i \in Selected: /\ Sale(fact'[i]) = DbtSale(i) /\ fact'[i].loaded = LoadedAt(i)
                                 /\ fact'[i].day = staging[i].day
                                 /\ fact'[i].previous = PreviousDay(i)
           /\ \A i \in Items \ Selected: fact'[i] = fact[i]
           /\ FactsBounded' /\ FactHigh <= FactHigh'
           /\ Selected' = {}
  <1>1. /\ \A i \in Selected: fact'[i] = Fact(DbtSale(i), PreviousDay(i))
        /\ \A i \in Items \ Selected: fact'[i] = fact[i]
    BY DEF BuildFact, Selected
  <1>2. \A i \in Selected: /\ Sale(fact'[i]) = DbtSale(i) /\ fact'[i].loaded = LoadedAt(i)
                           /\ fact'[i].day = staging[i].day
                           /\ fact'[i].previous = PreviousDay(i)
    <2> TAKE i \in Selected
    <2>1. fact'[i] = Fact(DbtSale(i), PreviousDay(i))
      BY <1>1
    <2> QED
      BY <2>1, SaleOfFact
  <1>3. FactMark
    BY FactMarks DEF LoadsBounded, FactsBounded
  <1>4. FactsBounded'
    BY <1>1, <1>2, LoadedAtBounded DEF LoadsBounded, FactsBounded, BuildFact, runVars, Selected
  <1>5. FactMark'
    BY <1>4, NextMarks
  <1>6. \A i \in Items: fact[i].loaded <= fact'[i].loaded /\ fact'[i].loaded \in Nat
    BY <1>1, <1>2, <1>3, RowsTyped, SalesTyped DEF Selected, FactMark
  <1>7. FactHigh <= FactHigh'
    BY <1>3, <1>5, <1>6, RowsTyped DEF FactMark
  <1>8. Selected' = {}
    <2> SUFFICES ASSUME NEW i \in Items PROVE ~(LoadedAt(i)' > FactHigh')
      BY DEF Selected
    <2>1. LoadedAt(i)' = LoadedAt(i) /\ LoadedAt(i) \in Nat
      BY SameRows, SalesTyped DEF BuildFact, runVars
    <2>2. CASE i \in Selected
      BY <1>2, <1>5, <2>1, <2>2 DEF FactMark
    <2>3. CASE i \notin Selected
      BY <1>3, <1>5, <1>7, <2>1, <2>3 DEF Selected, FactMark
    <2> QED
      BY <2>2, <2>3
  <1> QED
    BY <1>1, <1>2, <1>4, <1>7, <1>8

\* A recomputed day carries the newest loaded_at of its facts.
LEMMA DayTotalIsMaximum ==
    ASSUME TypeOK, FactsBounded, NEW d \in Days
    PROVE  /\ DayTotal(d).items = {Counted(i) : i \in FactsOf(d)}
           /\ DayTotal(d).loaded \in Nat /\ DayTotal(d).loaded <= FactHigh
           /\ \A i \in FactsOf(d): fact[i].loaded <= DayTotal(d).loaded
           /\ FactsOf(d) = {} => DayTotal(d).loaded = 0
  <1> DEFINE S == {fact[i].loaded : i \in FactsOf(d)}
  <1>1. FactMark
    BY FactMarks
  <1>2. FactsOf(d) \subseteq Items
    BY DEF FactsOf
  <1>3. S \in SUBSET Nat /\ FactHigh \in Nat /\ \A n \in S: n <= FactHigh
    BY <1>1, <1>2, RowsTyped DEF FactMark
  <1>4. DayTotal(d).items = {Counted(i) : i \in FactsOf(d)} /\ DayTotal(d).loaded = Newest(S)
    BY DEF DayTotal
  <1>5. FactsOf(d) = {} => S = {}
    OBVIOUS
  <1>6. \A i \in FactsOf(d): fact[i].loaded \in S
    OBVIOUS
  <1> HIDE DEF S
  <1>7. /\ Newest(S) \in S \cup {0} /\ Newest(S) \in Nat /\ Newest(S) <= FactHigh
        /\ \A n \in S: n <= Newest(S)
    BY <1>3, NewestOf
  <1> QED
    BY <1>4, <1>5, <1>6, <1>7

\* The job's snapshot takes every row above the table's high-water mark as
\* transform_sales makes it, and leaves nothing above it.
LEMMA IcebergBuilt ==
    ASSUME TypeOK, TypeOK', LoadsBounded, NEW answered \in BOOLEAN, IcebergJob(answered)
    PROVE  /\ \A i \in Updates: iceberg'[i] = SparkSale(i)
           /\ \A i \in Items \ Updates: iceberg'[i] = iceberg[i]
           /\ IceBounded'
           /\ Updates' = {}
  <1>1. IceMark
    BY IceMarks DEF LoadsBounded, IceBounded
  <1>2. \A i \in Items: LoadedAt(i) \in Nat /\ LoadedAt(i) <= loads /\ SparkSale(i).loaded = LoadedAt(i)
    BY SalesTyped, LoadedAtBounded DEF SparkSale
  <1>3. \A i \in Updates: iceberg'[i] = SparkSale(i)
    BY <1>1, <1>2, RowsTyped DEF IcebergJob, IcebergMerged, Updates, IceMark
  <1>4. \A i \in Items \ Updates: iceberg'[i] = iceberg[i]
    BY DEF IcebergJob, IcebergMerged
  <1>5. IceBounded'
    BY <1>2, <1>3, <1>4 DEF LoadsBounded, IceBounded, IcebergJob, runVars, Updates
  <1>6. IceMark'
    BY <1>5, NextMarks
  <1>7. \A i \in Items: iceberg[i].loaded <= iceberg'[i].loaded /\ iceberg'[i].loaded \in Nat
    BY <1>1, <1>2, <1>3, <1>4, RowsTyped DEF Updates, IceMark
  <1>8. IceHigh <= IceHigh'
    BY <1>1, <1>6, <1>7, RowsTyped DEF IceMark
  <1>9. Updates' = {}
    <2> SUFFICES ASSUME NEW i \in Items PROVE ~(LoadedAt(i)' > IceHigh')
      BY DEF Updates
    <2>1. LoadedAt(i)' = LoadedAt(i)
      BY SameRows DEF IcebergJob, runVars
    <2>2. CASE i \in Updates
      BY <1>2, <1>3, <1>6, <2>1, <2>2 DEF IceMark
    <2>3. CASE i \notin Updates
      BY <1>1, <1>2, <1>6, <1>8, <2>1, <2>3 DEF Updates, IceMark
    <2> QED
      BY <2>2, <2>3
  <1> QED
    BY <1>3, <1>4, <1>5, <1>9

-----------------------------------------------------------------------------
(* EngineInv is inductive *)

\* What an action that is none of the four below leaves alone.
Marts == <<fact, daily, iceberg>>
Staged == <<loads, staging, paid>>

LEMMA Bookkeeping ==
    ASSUME \/ UNCHANGED vars \/ TestDaily \/ DbtRetries \/ Advance \/ FailRun
    PROVE  /\ UNCHANGED <<orders, payments, Marts, Staged>>
           /\ build' \in {"fact", "daily", "tested"} => build' = build \/ build = "daily"
           /\ merged' = merged
  BY DEF vars, sourceVars, runVars, dbtVars, iceVars, TestDaily, DbtRetries, Advance, FailRun,
         Marts, Staged

LEMMA SourceChanges ==
    ASSUME \/ \E i \in Items, d \in Days: ChangeOrder(i, d)
           \/ \E i \in Items, attempts \in 1..MaxAttempts, completed \in 0..MaxAttempts:
                ChangePayments(i, attempts, completed)
    PROVE  UNCHANGED <<Marts, Staged, build, merged>>
  BY DEF ChangeOrder, ChangePayments, runVars, dbtVars, iceVars, Marts, Staged

LEMMA Staging ==
    ASSUME \/ Extract \/ \E window \in SUBSET Items: Backfill(window)
    PROVE  \E changedOrders, changedPayments: Stage(changedOrders, changedPayments)
  BY DEF Extract, Backfill

LEMMA LoadsBoundedStep ==
    ASSUME TypeOK, TypeOK', LoadsBounded, [Next]_vars
    PROVE  LoadsBounded'
  <1>1. loads \in Nat
    BY DEF TypeOK
  <1>2. ASSUME UNCHANGED <<Marts, Staged>> PROVE LoadsBounded'
    BY <1>2, SameRows DEF LoadsBounded, Marts, Staged
  <1>3. CASE \/ Extract \/ \E window \in SUBSET Items: Backfill(window)
    <2>1. PICK changedOrders, changedPayments: Stage(changedOrders, changedPayments)
      BY <1>3, Staging
    <2>2. loads' = loads + 1 /\ UNCHANGED Marts
      BY <2>1 DEF Stage, Marts
    <2>3. \A i \in Items: /\ staging'[i].loaded \in {staging[i].loaded, loads + 1}
                          /\ paid'[i].loaded \in {paid[i].loaded, loads + 1}
      BY <2>1 DEF Stage
    <2> QED
      BY <1>1, <2>2, <2>3, SameRows, RowsTyped DEF LoadsBounded, Marts
  <1>4. CASE BuildFact
    <2>1. FactMark /\ FactMark'
      BY <1>4, FactBuilt, FactMarks, NextMarks DEF LoadsBounded, FactsBounded
    <2>2. FactsBounded' /\ FactHigh <= FactHigh'
      BY <1>4, FactBuilt
    <2>3. \A d \in Days: daily'[d].loaded <= FactHigh' /\ daily[d].loaded \in Nat
      BY <1>4, <2>1, <2>2 DEF BuildFact, LoadsBounded, FactMark, TypeOK, DailyRow
    <2> QED
      BY <1>4, <2>2, <2>3 DEF BuildFact, LoadsBounded, FactsBounded, runVars, iceVars
  <1>5. CASE BuildDaily
    <2>1. \A d \in Days: DayTotal(d).loaded <= FactHigh
      BY DayTotalIsMaximum DEF LoadsBounded, FactsBounded
    <2>2. \A d \in Days: daily'[d].loaded <= FactHigh
      BY <1>5, <2>1 DEF BuildDaily, LoadsBounded
    <2> QED
      BY <1>5, <2>2, SameRows DEF BuildDaily, LoadsBounded, runVars, iceVars
  <1>6. ASSUME NEW answered \in BOOLEAN, IcebergJob(answered) PROVE LoadsBounded'
    BY <1>6, IcebergBuilt, SameRows DEF IcebergJob, LoadsBounded, IceBounded, runVars, dbtVars
  <1> QED
    BY <1>2, <1>3, <1>4, <1>5, <1>6, Bookkeeping, SourceChanges DEF Next

LEMMA RowsCompleteStep ==
    ASSUME TypeOK, TypeOK', LoadsBounded, RowsComplete, [Next]_vars
    PROVE  RowsComplete'
  <1>1. ASSUME UNCHANGED <<orders, payments, Marts, Staged>> PROVE RowsComplete'
    BY <1>1 DEF RowsComplete, Marts, Staged
  <1>2. ASSUME NEW i \in Items, NEW d \in Days, ChangeOrder(i, d) PROVE RowsComplete'
    <2>1. UNCHANGED <<payments, Marts, Staged>>
      BY <1>2 DEF ChangeOrder, runVars, dbtVars, iceVars, Marts, Staged
    <2>2. \A j \in Items: orders'[j].version > 0 => orders'[j].day \in Days
      BY <1>2 DEF ChangeOrder, RowsComplete, TypeOK
    <2> QED
      BY <2>1, <2>2 DEF RowsComplete, Marts, Staged
  <1>3. ASSUME NEW i \in Items, NEW attempts \in 1..MaxAttempts, NEW completed \in 0..MaxAttempts,
               ChangePayments(i, attempts, completed)
        PROVE  RowsComplete'
    <2>1. UNCHANGED <<orders, Marts, Staged>>
      BY <1>3 DEF ChangePayments, runVars, dbtVars, iceVars, Marts, Staged
    <2>2. \A j \in Items: payments'[j].version > 0 <=> payments'[j].attempts > 0
      BY <1>3, RowsTyped DEF ChangePayments, RowsComplete, TypeOK
    <2> QED
      BY <2>1, <2>2 DEF RowsComplete, Marts, Staged
  <1>4. CASE \/ Extract \/ \E window \in SUBSET Items: Backfill(window)
    <2>1. PICK changedOrders, changedPayments: Stage(changedOrders, changedPayments)
      BY <1>4, Staging
    <2>2. UNCHANGED <<orders, payments, Marts>>
      BY <2>1 DEF Stage, sourceVars, Marts
    <2>3. \A i \in Items:
            /\ \/ staging'[i] = staging[i]
               \/ staging'[i].day = orders[i].day /\ staging'[i].version = orders[i].version
            /\ \/ paid'[i] = paid[i]
               \/ /\ paid'[i].version = payments[i].version
                  /\ paid'[i].attempts = payments[i].attempts
      BY <2>1 DEF Stage
    <2> QED
      BY <2>2, <2>3 DEF RowsComplete, Marts
  <1>5. CASE BuildFact
    <2>1. UNCHANGED <<orders, payments, staging, paid, daily>>
      BY <1>5 DEF BuildFact, sourceVars, runVars
    <2>2. ASSUME NEW i \in Items PROVE fact'[i].loaded > 0 <=> fact'[i].day \in Days
      <3>1. CASE i \notin Selected
        BY <1>5, <3>1, FactBuilt DEF RowsComplete
      <3>2. CASE i \in Selected
        <4>1. LoadedAt(i) > 0 /\ fact'[i].loaded = LoadedAt(i) /\ fact'[i].day = staging[i].day
          BY <1>5, <3>2, FactBuilt, FactMarks, SalesTyped
             DEF Selected, FactMark, LoadsBounded, FactsBounded
        <4>2. staging[i].version > 0
          BY <4>1, RowsTyped DEF LoadedAt
        <4> QED
          BY <4>1, <4>2 DEF RowsComplete
      <3> QED
        BY <3>1, <3>2
    <2> QED
      BY <2>1, <2>2 DEF RowsComplete
  <1>6. CASE BuildDaily
    <2>1. UNCHANGED <<orders, payments, staging, paid, fact>>
      BY <1>6 DEF BuildDaily, sourceVars, runVars
    <2>2. ASSUME NEW d \in Days, DayTotal(d).items = {} PROVE DayTotal(d).loaded = 0
      <3>1. FactsOf(d) = {}
        BY <2>2 DEF DayTotal
      <3> QED
        BY <3>1, DayTotalIsMaximum DEF LoadsBounded, FactsBounded
    <2>3. \A d \in Days: daily'[d].items = {} => daily'[d].loaded = 0
      BY <1>6, <2>2 DEF BuildDaily, RowsComplete
    <2> QED
      BY <2>1, <2>3 DEF RowsComplete
  <1>7. ASSUME NEW answered \in BOOLEAN, IcebergJob(answered) PROVE RowsComplete'
    BY <1>7 DEF IcebergJob, RowsComplete, sourceVars, runVars, dbtVars
  <1> QED
    BY <1>1, <1>2, <1>3, <1>4, <1>5, <1>6, <1>7, Bookkeeping DEF Next

\* A row staged again is newer than both tables.
LEMMA StagedIsAbove ==
    ASSUME TypeOK, TypeOK', LoadsBounded, NEW changedOrders, NEW changedPayments,
           Stage(changedOrders, changedPayments), NEW i \in Items, staging'[i].version > 0
    PROVE  \/ LoadedAt(i)' > FactHigh /\ LoadedAt(i)' > IceHigh
           \/ staging'[i] = staging[i] /\ paid'[i] = paid[i]
  <1>1. /\ loads \in Nat /\ FactHigh \in Nat /\ IceHigh \in Nat
        /\ FactHigh <= loads /\ IceHigh <= loads
    BY FactMarks, IceMarks
       DEF TypeOK, LoadsBounded, FactsBounded, IceBounded, FactMark, IceMark
  <1>2. LoadedAt(i)' = Greater(staging'[i].loaded, paid'[i].loaded)
    BY RowsTyped DEF LoadedAt
  <1>3. /\ staging'[i] = staging[i] \/ staging'[i].loaded = loads + 1
        /\ paid'[i] = paid[i] \/ paid'[i].loaded = loads + 1
    BY DEF Stage
  <1>4. /\ staging'[i].loaded \in Nat /\ paid'[i].loaded \in Nat
    BY DEF TypeOK, StagedOrder, StagedPayments
  <1> QED
    BY <1>1, <1>2, <1>3, <1>4 DEF Greater

LEMMA FactsMergedStep ==
    ASSUME TypeOK, TypeOK', LoadsBounded, FactsMerged, [Next]_vars
    PROVE  FactsMerged'
  <1>1. ASSUME UNCHANGED <<staging, paid, fact>>,
               build' \in {"fact", "daily", "tested"} => build \in {"fact", "daily", "tested"}
        PROVE  FactsMerged'
    BY <1>1, SameRows DEF FactsMerged
  <1>2. CASE \/ Extract \/ \E window \in SUBSET Items: Backfill(window)
    <2>1. PICK changedOrders, changedPayments: Stage(changedOrders, changedPayments)
      BY <1>2, Staging
    <2>2. build' = "staged" /\ fact' = fact
      BY <2>1 DEF Stage
    <2>3. ASSUME NEW i \in Items, staging'[i].version > 0, i \notin Selected'
          PROVE  Sale(fact'[i]) = DbtSale(i)'
      <3>1. ~(LoadedAt(i)' > FactHigh)
        BY <2>2, <2>3, SameRows DEF Selected
      <3>2. staging'[i] = staging[i] /\ paid'[i] = paid[i]
        BY <2>1, <2>3, <3>1, StagedIsAbove
      <3>3. LoadedAt(i)' = LoadedAt(i) /\ DbtSale(i)' = DbtSale(i)
        BY <3>2 DEF LoadedAt, DbtSale, DbtStatus
      <3> QED
        BY <2>2, <2>3, <3>1, <3>2, <3>3 DEF FactsMerged, Selected
    <2> QED
      BY <2>2, <2>3 DEF FactsMerged
  <1>3. CASE BuildFact
    <2>1. UNCHANGED <<staging, paid>>
      BY <1>3 DEF BuildFact, runVars
    <2>2. \A i \in Items: staging[i].version > 0 => Sale(fact'[i]) = DbtSale(i)
      BY <1>3, FactBuilt DEF FactsMerged
    <2> QED
      BY <1>3, <2>1, <2>2, FactBuilt, SameRows DEF FactsMerged
  <1>4. CASE BuildDaily
    BY <1>1, <1>4 DEF BuildDaily, runVars
  <1>5. ASSUME NEW answered \in BOOLEAN, IcebergJob(answered) PROVE FactsMerged'
    BY <1>1, <1>5 DEF IcebergJob, runVars, dbtVars
  <1>6. CASE UNCHANGED vars \/ TestDaily \/ DbtRetries \/ Advance \/ FailRun
    BY <1>1, <1>6, Bookkeeping DEF Marts, Staged
  <1> QED
    BY <1>1, <1>2, <1>3, <1>4, <1>5, <1>6, SourceChanges DEF Next, Marts, Staged

LEMMA IcebergRowsMergedStep ==
    ASSUME TypeOK, TypeOK', LoadsBounded, IcebergRowsMerged, [Next]_vars
    PROVE  IcebergRowsMerged'
  <1>1. ASSUME UNCHANGED <<staging, paid, iceberg>>, merged' => merged PROVE IcebergRowsMerged'
    BY <1>1, SameRows DEF IcebergRowsMerged
  <1>2. CASE \/ Extract \/ \E window \in SUBSET Items: Backfill(window)
    <2>1. PICK changedOrders, changedPayments: Stage(changedOrders, changedPayments)
      BY <1>2, Staging
    <2>2. merged' = FALSE /\ iceberg' = iceberg
      BY <2>1 DEF Stage
    <2>3. ASSUME NEW i \in Items, staging'[i].version > 0, i \notin Updates'
          PROVE  iceberg'[i] = SparkSale(i)'
      <3>1. ~(LoadedAt(i)' > IceHigh)
        BY <2>2, <2>3, SameRows DEF Updates
      <3>2. staging'[i] = staging[i] /\ paid'[i] = paid[i]
        BY <2>1, <2>3, <3>1, StagedIsAbove
      <3>3. LoadedAt(i)' = LoadedAt(i) /\ SparkSale(i)' = SparkSale(i)
        BY <3>2 DEF LoadedAt, SparkSale, SparkStatus
      <3> QED
        BY <2>2, <2>3, <3>1, <3>2, <3>3 DEF IcebergRowsMerged, Updates
    <2> QED
      BY <2>2, <2>3 DEF IcebergRowsMerged
  <1>3. CASE BuildFact \/ BuildDaily
    BY <1>1, <1>3 DEF BuildFact, BuildDaily, runVars, iceVars
  <1>4. ASSUME NEW answered \in BOOLEAN, IcebergJob(answered) PROVE IcebergRowsMerged'
    <2>1. UNCHANGED <<staging, paid>>
      BY <1>4 DEF IcebergJob, runVars
    <2>2. \A i \in Items: staging[i].version > 0 => iceberg'[i] = SparkSale(i)
      BY <1>4, IcebergBuilt DEF IcebergRowsMerged
    <2> QED
      BY <1>4, <2>1, <2>2, IcebergBuilt, SameRows DEF IcebergRowsMerged
  <1>5. CASE UNCHANGED vars \/ TestDaily \/ DbtRetries \/ Advance \/ FailRun
    BY <1>1, <1>5, Bookkeeping DEF Marts, Staged
  <1> QED
    BY <1>1, <1>2, <1>3, <1>4, <1>5, SourceChanges DEF Next, Marts, Staged

LEMMA EngineInit == Init => EngineInv
  <1> SUFFICES ASSUME Init PROVE EngineInv
    OBVIOUS
  <1>1. TypeOK
    BY TypeInit
  <1>2. \A i \in Items: /\ fact[i].loaded = 0 /\ fact[i].day = NoDay
                        /\ staging[i].version = 0 /\ LoadedAt(i) = 0
    BY DEF Init, Fact, NoSale, LoadedAt
  <1>3. FactMark /\ IceMark
    BY <1>1, <1>2, FactMarks, IceMarks DEF FactsBounded, IceBounded, Init, NoSale
  <1>4. LoadsBounded /\ RowsComplete
    BY <1>2, <1>3, NoDayIsNoDay DEF Init, LoadsBounded, RowsComplete, FactMark, NoSale
  <1>5. Updates = {} /\ build = "none"
    BY <1>2, <1>3 DEF Updates, IceMark, Init
  <1> QED
    BY <1>2, <1>4, <1>5 DEF EngineInv, FactsMerged, IcebergRowsMerged

LEMMA EngineStep == TypeOK /\ EngineInv /\ [Next]_vars => (TypeOK /\ EngineInv)'
  <1> SUFFICES ASSUME TypeOK, EngineInv, [Next]_vars PROVE (TypeOK /\ EngineInv)'
    OBVIOUS
  <1>1. TypeOK'
    BY TypeStep DEF EngineInv, LoadsBounded, FactsBounded
  <1> QED
    BY <1>1, LoadsBoundedStep, RowsCompleteStep, FactsMergedStep, IcebergRowsMergedStep
       DEF EngineInv

LEMMA EngineInvariant == Spec => [](TypeOK /\ EngineInv)
  BY TypeInit, EngineInit, EngineStep, PTL DEF Spec

\* The marts, the staging rows and the run keep their types, whatever is
\* staged, built, merged or interrupted.
THEOREM SalesTypeCorrect == Spec => []TypeOK
  BY EngineInvariant, PTL

LEMMA StatusPaid ==
    ASSUME TypeOK, RowsComplete, NEW i \in Items
    PROVE  /\ DbtStatus(i) = SparkStatus(i)
           /\ DbtStatus(i) = "paid" <=> paid[i].attempts > 0 /\ paid[i].completed = paid[i].attempts
  <1>1. paid[i].version = 0 <=> paid[i].attempts = 0
    BY RowsTyped DEF RowsComplete
  <1>2. paid[i].attempts \in Nat
    BY RowsTyped
  <1> QED
    BY <1>1, <1>2 DEF DbtStatus, SparkStatus

\* When a run's dbt build and its Iceberg job are done, fact_sales and the
\* Iceberg table have the sales of the staged rows, both: whatever order the
\* two ran in, however often each was interrupted or repeated, and whatever
\* an earlier run that failed left in either of them.
THEOREM SalesEnginesAgree == Spec => []EnginesAgree
  <1>1. TypeOK /\ EngineInv => EnginesAgree
    <2> SUFFICES ASSUME TypeOK, EngineInv, build = "tested", merged,
                        NEW i \in Items, staging[i].version > 0
                 PROVE  /\ Sale(fact[i]) = iceberg[i]
                        /\ fact[i].day = staging[i].day /\ fact[i].version = staging[i].version
                        /\ fact[i].status = "paid" <=>
                             paid[i].attempts > 0 /\ paid[i].completed = paid[i].attempts
      BY DEF EnginesAgree
    <2>1. Sale(fact[i]) = DbtSale(i)
      BY DEF EngineInv, FactsMerged
    <2>2. iceberg[i] = SparkSale(i)
      BY DEF EngineInv, IcebergRowsMerged
    <2>3. DbtSale(i) = SparkSale(i)
      BY StatusPaid DEF DbtSale, SparkSale, EngineInv
    <2>4. /\ fact[i].day = staging[i].day /\ fact[i].version = staging[i].version
          /\ fact[i].status = DbtStatus(i)
      BY <2>1 DEF Sale, DbtSale
    <2> QED
      BY <2>1, <2>2, <2>3, <2>4, StatusPaid DEF EngineInv
  <1> QED
    BY <1>1, EngineInvariant, PTL

-----------------------------------------------------------------------------
(* daily_sales behind fact_sales *)

LEMMA Marks ==
    ASSUME TypeOK, EngineInv
    PROVE  FactMark /\ DailyMark
  BY FactMarks, DailyMarks DEF EngineInv, LoadsBounded, FactsBounded

\* What build_fact adds is above the mark of daily_sales, and the rest of
\* fact_sales is as it was.
LEMMA NewFactsUncounted ==
    ASSUME TypeOK, TypeOK', EngineInv, BuildFact
    PROVE  /\ \A i \in Selected: i \in Uncounted'
           /\ \A i \in Items \ Selected: (i \in Uncounted' <=> i \in Uncounted)
           /\ UNCHANGED daily
  <1>1. FactHigh \in Nat /\ DailyHigh \in Nat /\ DailyHigh <= FactHigh
    BY Marks DEF FactMark, DailyMark
  <1>2. DailyHigh' = DailyHigh /\ daily' = daily
    BY SameRows DEF BuildFact
  <1>3. \A i \in Selected: fact'[i].loaded \in Nat /\ fact'[i].loaded > FactHigh
    BY FactBuilt, SalesTyped DEF Selected, EngineInv
  <1>4. \A i \in Items \ Selected: fact'[i] = fact[i]
    BY FactBuilt DEF EngineInv
  <1> QED
    BY <1>1, <1>2, <1>3, <1>4 DEF Uncounted, Selected

\* A fact above the mark has its day among affected_dates.
LEMMA UncountedIsAffected ==
    ASSUME TypeOK, EngineInv, NEW i \in Uncounted
    PROVE  /\ i \in Items /\ fact[i].day \in Days /\ fact[i].day \in Affected
           /\ i \in FactsOf(fact[i].day)
  <1>1. i \in Items /\ fact[i].loaded > 0
    BY Marks, RowsTyped DEF Uncounted, DailyMark
  <1> QED
    BY <1>1 DEF EngineInv, RowsComplete, Affected, FactsOf

\* What the merge of daily_sales leaves for a fact that the mark has passed.
LEMMA CountedStep ==
    ASSUME TypeOK, TypeOK', EngineInv, EngineInv', CountedBelowHighWater, [Next]_vars
    PROVE  CountedBelowHighWater'
  <1>1. ASSUME UNCHANGED <<fact, daily>> PROVE CountedBelowHighWater'
    BY <1>1, SameRows DEF CountedBelowHighWater, Counted
  <1>2. CASE BuildFact
    <2> SUFFICES ASSUME NEW i \in Items \ Uncounted', fact'[i].loaded > 0
                 PROVE  Counted(i)' \in daily'[fact'[i].day].items
      BY DEF CountedBelowHighWater
    <2>1. i \notin Selected /\ i \notin Uncounted /\ daily' = daily
      BY <1>2, NewFactsUncounted
    <2>2. fact'[i] = fact[i]
      BY <1>2, <2>1, FactBuilt DEF EngineInv
    <2>3. Counted(i)' = Counted(i)
      BY <2>2 DEF Counted
    <2> QED
      BY <2>1, <2>2, <2>3 DEF CountedBelowHighWater
  <1>3. CASE BuildDaily
    <2> SUFFICES ASSUME NEW i \in Items, fact[i].loaded > 0
                 PROVE  \/ i \in Uncounted'
                        \/ Counted(i) \in daily'[fact[i].day].items
      BY <1>3 DEF CountedBelowHighWater, BuildDaily, Counted
    <2>1. fact[i].day \in Days /\ i \in FactsOf(fact[i].day)
      BY DEF EngineInv, RowsComplete, FactsOf
    <2>2. Counted(i) \in DayTotal(fact[i].day).items
      BY <2>1 DEF DayTotal
    <2>3. CASE fact[i].day \in Affected
      BY <1>3, <2>1, <2>2, <2>3 DEF BuildDaily
    <2>4. CASE fact[i].day \notin Affected
      <3>1. i \notin Uncounted
        BY <2>4, UncountedIsAffected
      <3>2. Counted(i) \in daily[fact[i].day].items
        BY <3>1 DEF CountedBelowHighWater
      <3> QED
        BY <1>3, <2>1, <2>4, <3>2 DEF BuildDaily
    <2> QED
      BY <2>3, <2>4
  <1>4. CASE \/ Extract \/ \E window \in SUBSET Items: Backfill(window)
    BY <1>1, <1>4, Staging DEF Stage
  <1>5. ASSUME NEW answered \in BOOLEAN, IcebergJob(answered) PROVE CountedBelowHighWater'
    BY <1>1, <1>5 DEF IcebergJob, dbtVars
  <1> QED
    BY <1>1, <1>2, <1>3, <1>4, <1>5, Bookkeeping, SourceChanges DEF Next, Marts

\* affected_dates may skip every fact at or below the mark of daily_sales: it
\* is counted there as it is, also when a run has failed between the two
\* models.
THEOREM SalesCountedBelowHighWater == Spec => []CountedBelowHighWater
  <1>1. Init => CountedBelowHighWater
    BY DEF Init, CountedBelowHighWater, Fact, NoSale
  <1>2. (TypeOK /\ EngineInv) /\ (TypeOK /\ EngineInv)' /\ CountedBelowHighWater /\ [Next]_vars
        => CountedBelowHighWater'
    BY CountedStep
  <1> QED
    BY <1>1, <1>2, EngineInvariant, PTL DEF Spec

\* The merge of daily_sales and its post_hook bring every day up to date: a day
\* that is not recomputed was right, because a stale one is affected.
LEMMA DailyBuilt ==
    ASSUME TypeOK, TypeOK', EngineInv, EngineInv', CountedBelowHighWater,
           StaleDayWillBeRepaired, BuildDaily
    PROVE  DailyIsFact' /\ Uncounted' = {}
  <1>1. fact' = fact /\ \A d \in Days: DayTotal(d)' = DayTotal(d)
    BY SameRows DEF BuildDaily
  <1>2. ASSUME NEW d \in Days, d \notin Affected, NEW counted \in daily[d].items
        PROVE  \E i \in FactsOf(d): counted = Counted(i)
    <2>1. counted \in Items \X Nat \X BOOLEAN
      BY <1>2 DEF TypeOK, DailyRow
    <2>2. counted[1] \in Items
      BY <2>1
    <2>3. CASE fact[counted[1]].day = d /\ counted = Counted(counted[1])
      BY <1>2, <2>2, <2>3, RowsTyped DEF FactsOf, EngineInv, RowsComplete
    <2>4. CASE counted[1] \in Uncounted /\ d \in {fact[counted[1]].day, fact[counted[1]].previous}
      BY <1>2, <2>4, NoDayIsNoDay DEF Affected
    <2> QED
      BY <1>2, <2>3, <2>4 DEF StaleDayWillBeRepaired
  <1>3. ASSUME NEW d \in Days PROVE daily'[d].items = DayTotal(d).items
    <2>1. CASE d \in Affected \/ FactsOf(d) = {}
      BY <2>1 DEF BuildDaily
    <2>2. CASE d \notin Affected /\ FactsOf(d) # {}
      <3>1. daily'[d].items = daily[d].items
        BY <2>2 DEF BuildDaily
      <3>2. \A i \in FactsOf(d): Counted(i) \in daily[d].items
        BY <2>2 DEF FactsOf, CountedBelowHighWater, Affected
      <3>3. daily[d].items = {Counted(i) : i \in FactsOf(d)}
        BY <1>2, <2>2, <3>2
      <3> QED
        BY <3>1, <3>3 DEF DayTotal
    <2> QED
      BY <2>1, <2>2
  <1>4. DailyIsFact'
    BY <1>1, <1>3 DEF DailyIsFact
  <1>5. DailyMark /\ DailyMark'
    BY Marks, NextMarks DEF EngineInv, LoadsBounded, FactsBounded
  <1>6. ASSUME NEW i \in Uncounted
        PROVE  /\ daily'[fact[i].day].loaded >= fact[i].loaded
               /\ fact[i].day \in Days /\ daily'[fact[i].day].loaded \in Nat
    <2>1. fact[i].day \in Days /\ fact[i].day \in Affected /\ i \in FactsOf(fact[i].day)
      BY UncountedIsAffected
    <2>2. daily'[fact[i].day] = DayTotal(fact[i].day)
      BY <2>1 DEF BuildDaily
    <2> QED
      BY <2>1, <2>2, DayTotalIsMaximum DEF EngineInv, LoadsBounded, FactsBounded
  <1>7. ASSUME NEW i \in Items, i \in Uncounted' PROVE FALSE
    <2>1. /\ fact[i].loaded \in Nat /\ DailyHigh \in Nat /\ DailyHigh' \in Nat
          /\ fact[i].loaded > DailyHigh'
          /\ \A d \in Days: daily'[d].loaded <= DailyHigh'
      BY <1>1, <1>5, <1>7, RowsTyped DEF DailyMark, Uncounted
    <2>2. i \notin Uncounted
      BY <1>6, <2>1
    <2>3. fact[i].loaded <= DailyHigh /\ DailyHigh > 0
      BY <1>7, <2>1, <2>2 DEF Uncounted
    <2>4. PICK d \in Days: daily[d].loaded = DailyHigh
      BY <1>5, <2>3 DEF DailyMark
    <2>5. CASE Uncounted = {}
      <3>1. Affected = {}
        BY <2>5 DEF Affected
      <3>2. PICK counted \in daily[d].items : TRUE
        BY <2>3, <2>4 DEF EngineInv, RowsComplete
      <3>3. FactsOf(d) # {}
        BY <1>2, <3>1, <3>2
      <3>4. daily'[d] = daily[d]
        BY <3>1, <3>3 DEF BuildDaily
      <3> QED
        BY <2>1, <2>3, <2>4, <3>4
    <2>6. CASE Uncounted # {}
      <3>1. PICK j \in Uncounted : TRUE
        BY <2>6
      <3>2. fact[j].loaded > DailyHigh /\ fact[j].loaded \in Nat
        BY <3>1, RowsTyped DEF Uncounted
      <3>3. daily'[fact[j].day].loaded >= fact[j].loaded
            /\ fact[j].day \in Days /\ daily'[fact[j].day].loaded \in Nat
        BY <1>6
      <3> QED
        BY <2>1, <2>3, <3>2, <3>3
    <2> QED
      BY <2>5, <2>6
  <1> QED
    BY <1>4, <1>7 DEF Uncounted

\* A fact that moves to another day while the one before it is counted names
\* the day it leaves.
LEMMA StaleStep ==
    ASSUME TypeOK, TypeOK', EngineInv, EngineInv', CountedBelowHighWater, RepairInv, [Next]_vars
    PROVE  StaleDayWillBeRepaired'
  <1>1. ASSUME UNCHANGED <<fact, daily>> PROVE StaleDayWillBeRepaired'
    BY <1>1, SameRows DEF RepairInv, StaleDayWillBeRepaired, Counted
  <1>2. CASE BuildFact
    <2> SUFFICES ASSUME NEW d \in Days, NEW counted \in daily[d].items, NEW i, i = counted[1]
                 PROVE  \/ fact'[i].day = d /\ counted = Counted(i)'
                        \/ i \in Uncounted' /\ d \in {fact'[i].day, fact'[i].previous}
      BY <1>2 DEF StaleDayWillBeRepaired, BuildFact
    <2>1. i \in Items
      <3>1. counted \in Items \X Nat \X BOOLEAN
        BY DEF TypeOK, DailyRow
      <3> QED
        BY <3>1
    <2>2. \/ fact[i].day = d /\ counted = Counted(i)
          \/ i \in Uncounted /\ d \in {fact[i].day, fact[i].previous}
      BY DEF RepairInv, StaleDayWillBeRepaired
    <2>3. CASE i \in Selected
      <3>1. Uncounted = {}
        BY <1>2, <2>3 DEF RepairInv, BuildProgress, BuildFact
      <3>2. fact[i].day = d
        BY <2>2, <3>1
      <3>3. fact'[i].day = staging[i].day /\ fact'[i].previous = PreviousDay(i) /\ i \in Uncounted'
        BY <1>2, <2>3, FactBuilt, NewFactsUncounted DEF EngineInv
      <3> QED
        BY <3>2, <3>3 DEF PreviousDay
    <2>4. CASE i \notin Selected
      <3>1. fact'[i] = fact[i] /\ (i \in Uncounted' <=> i \in Uncounted)
        BY <1>2, <2>1, <2>4, FactBuilt, NewFactsUncounted DEF EngineInv
      <3>2. Counted(i)' = Counted(i)
        BY <3>1 DEF Counted
      <3> QED
        BY <2>2, <3>1, <3>2
    <2> QED
      BY <2>3, <2>4
  <1>3. CASE BuildDaily
    <2> SUFFICES ASSUME NEW d \in Days, NEW counted \in daily'[d].items
                 PROVE  fact'[counted[1]].day = d /\ counted = Counted(counted[1])'
      BY DEF StaleDayWillBeRepaired
    <2>1. DailyIsFact' /\ UNCHANGED fact
      BY <1>3, DailyBuilt DEF RepairInv, BuildDaily
    <2>2. daily'[d].items = {Counted(i) : i \in FactsOf(d)}
      BY <2>1, SameRows DEF DailyIsFact, DayTotal
    <2>3. PICK i \in FactsOf(d): counted = Counted(i)
      BY <2>2
    <2>4. counted[1] = i /\ fact[i].day = d
      BY <2>3 DEF Counted, FactsOf
    <2> QED
      BY <2>1, <2>3, <2>4 DEF Counted
  <1>4. CASE \/ Extract \/ \E window \in SUBSET Items: Backfill(window)
    BY <1>1, <1>4, Staging DEF Stage
  <1>5. ASSUME NEW answered \in BOOLEAN, IcebergJob(answered) PROVE StaleDayWillBeRepaired'
    BY <1>1, <1>5 DEF IcebergJob, dbtVars
  <1> QED
    BY <1>1, <1>2, <1>3, <1>4, <1>5, Bookkeeping, SourceChanges DEF Next, Marts

LEMMA ProgressStep ==
    ASSUME LostRepairs = FALSE, TypeOK, TypeOK', EngineInv, EngineInv', CountedBelowHighWater,
           RepairInv, [Next]_vars
    PROVE  BuildProgress'
  <1> USE DEF RepairInv
  <1>1. ASSUME UNCHANGED <<staging, paid, fact, daily, build>> PROVE BuildProgress'
    BY <1>1, SameRows DEF BuildProgress
  <1>2. CASE \/ Extract \/ \E window \in SUBSET Items: Backfill(window)
    <2>1. PICK changedOrders, changedPayments: Stage(changedOrders, changedPayments)
      BY <1>2, Staging
    <2> QED
      BY <2>1, SameRows DEF BuildProgress, Stage
  <1>3. CASE BuildFact
    <2>1. Selected' = {} /\ build' = "fact"
      BY <1>3, FactBuilt DEF EngineInv, BuildFact
    <2> QED
      BY <2>1 DEF BuildProgress
  <1>4. CASE BuildDaily
    <2>1. DailyIsFact' /\ Uncounted' = {} /\ build' = "daily"
      BY <1>4, DailyBuilt DEF BuildDaily
    <2> QED
      BY <2>1 DEF BuildProgress
  <1>5. CASE TestDaily
    <2>1. UNCHANGED <<fact, daily>> /\ build' = "tested"
      BY <1>5 DEF TestDaily, BuildProgress
    <2> QED
      BY <1>5, <2>1, SameRows DEF BuildProgress, TestDaily
  <1>6. CASE DbtRetries
    <2>1. UNCHANGED <<staging, paid, fact, daily>> /\ build' = "staged"
      BY <1>6 DEF DbtRetries, runVars
    <2> QED
      BY <1>6, <2>1, SameRows DEF BuildProgress, DbtRetries
  <1>7. CASE Advance \/ FailRun
    <2>1. UNCHANGED <<fact, daily>> /\ build' = "none" /\ Uncounted = {}
      BY <1>7 DEF Advance, FailRun, BuildProgress
    <2> QED
      BY <2>1, SameRows DEF BuildProgress
  <1>8. ASSUME NEW answered \in BOOLEAN, IcebergJob(answered) PROVE BuildProgress'
    BY <1>1, <1>8 DEF IcebergJob, runVars, dbtVars
  <1>9. CASE UNCHANGED vars
    BY <1>1, <1>9 DEF vars, runVars, dbtVars
  <1> QED
    BY <1>1, <1>2, <1>3, <1>4, <1>5, <1>6, <1>7, <1>8, <1>9, SourceChanges
       DEF Next, Marts, Staged

LEMMA RepairInvariant ==
    ASSUME LostRepairs = FALSE
    PROVE  Spec => []RepairInv
  <1>1. Init => RepairInv
    <2> SUFFICES ASSUME Init PROVE RepairInv
      OBVIOUS
    <2>1. TypeOK /\ EngineInv
      BY TypeInit, EngineInit
    <2>2. Uncounted = {}
      BY <2>1, Marks DEF Init, Uncounted, DailyMark, Fact, NoSale
    <2> QED
      BY <2>2 DEF Init, RepairInv, BuildProgress, StaleDayWillBeRepaired
  <1>2. /\ (TypeOK /\ EngineInv) /\ (TypeOK /\ EngineInv)' /\ CountedBelowHighWater
        /\ RepairInv /\ [Next]_vars
        => RepairInv'
    BY StaleStep, ProgressStep DEF RepairInv
  <1> QED
    BY <1>1, <1>2, EngineInvariant, SalesCountedBelowHighWater, PTL DEF Spec

\* A day that still counts an item as it no longer is will be recomputed by
\* the next merge of daily_sales: the item's fact is above the mark and names
\* that day.  The assumption is what the finding of SalesLostRepair denies:
\* that no run ends between the two models.
THEOREM SalesStaleDayWillBeRepaired ==
    ASSUME LostRepairs = FALSE
    PROVE  Spec => []StaleDayWillBeRepaired
  BY RepairInvariant, PTL DEF RepairInv

\* So assert_daily_sales_matches_fact never fails.
THEOREM SalesDailyMatchesFact ==
    ASSUME LostRepairs = FALSE
    PROVE  Spec => []DailyMatchesFact
  <1>1. RepairInv => DailyMatchesFact
    BY DEF RepairInv, BuildProgress, DailyMatchesFact
  <1> QED
    BY <1>1, RepairInvariant, PTL

=============================================================================
