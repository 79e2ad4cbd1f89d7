------------------------- MODULE CustomerDimension -------------------------
(***************************************************************************)
(* Customer history in the warehouse: the dbt snapshot snap_customers over *)
(* the CDC Silver view, the dimension dim_customer with its tests, and the *)
(* as-of join by which fact_sales finds the customer version of an order.  *)
(*                                                                         *)
(* Names and emails are one image per row.  Time is a counter; a version   *)
(* is identified, as its dbt_scd_id is, by customer and valid_from.  CDC   *)
(* is what CustomerReplica promises, one customer at a time: Silver shows  *)
(* each customer as of a position in the source history that only grows.   *)
(***************************************************************************)
EXTENDS Integers, Sequences, FiniteSets

CONSTANTS
    Customers,      \* customer_id values
    Orders,         \* order_id values; an order has one item
    CustomerOf,     \* orders.customer_id
    Images,         \* values of (first_name, last_name, email)
    Gone,           \* the image of a customer with no source row
    LateStamps,     \* customers whose changes may carry an updated_at at or
                    \* below an earlier one (a transaction's start, NOW())
    MaxClock,       \* bound: source transactions
    MaxFaults       \* bound: interrupted dbt builds

ASSUME CustomersAreFinite == IsFiniteSet(Customers)
ASSUME CustomerOfType == CustomerOf \in [Orders -> Customers]
ASSUME GoneIsNoImage == Gone \notin Images
ASSUME LateStampsType == LateStamps \subseteq Customers
ASSUME BoundsAreNaturals == MaxClock \in Nat /\ MaxFaults \in Nat

VARIABLES
    clock,      \* the number of source transactions so far, as a timestamp
    history,    \* history[c]: the successive states of c in public.customers
    placed,     \* placed[o]: order_date at the source
    shown,      \* shown[c]: the position of Silver in history[c]
    staging,    \* staging[o]: order_date in staging.orders
    window,     \* window[o]: where o stands with respect to the watermark
    fresh,      \* orders staged later than anything in fact_sales
    phase,      \* progress of the active run
    retried,    \* TRUE iff its dbt task has used its retry
    versions,   \* snap_customers
    facts,      \* facts[o]: how many rows fact_sales has for o, and their keys
    faults

sourceVars == <<clock, history, placed>>
runVars == <<staging, window, fresh, phase, retried, faults>>
vars == <<sourceVars, shown, runVars, versions, facts>>

None == -1          \* SQL NULL: no order, no dbt_valid_to, no customer_sk
Now == clock + 1

SourceState == [image: Images \cup {Gone}, stamp: Nat]
Version == [customer: Customers, image: Images, from: Nat, to: Nat \cup {None}]

\* customer_sk (as the valid_from it stands for) and customer_key_resolution
Key == [from: Nat \cup {None}, resolution: {"as_of", "earliest_available", "unresolved"}]

TypeOK ==
    /\ clock \in Nat
    /\ history \in [Customers -> Seq(SourceState)]
    /\ placed \in [Orders -> Nat \cup {None}]
    /\ shown \in [Customers -> Nat]
    /\ \A c \in Customers: shown[c] <= Len(history[c])
    /\ staging \in [Orders -> Nat \cup {None}]
    /\ window \in [Orders -> {"committed", "changed", "extracted"}]
    /\ fresh \in SUBSET Orders
    /\ phase \in {"idle", "staged", "valid", "snapshot", "tested", "facts"}
    /\ retried \in BOOLEAN
    /\ versions \in SUBSET Version
    /\ facts \in [Orders -> [rows: Nat, keys: SUBSET Key]]
    /\ faults \in Nat

Init ==
    /\ clock = 0
    /\ history = [c \in Customers |-> <<>>]
    /\ placed = [o \in Orders |-> None]
    /\ shown = [c \in Customers |-> 0]
    /\ staging = [o \in Orders |-> None]
    /\ window = [o \in Orders |-> "committed"]
    /\ fresh = {}
    /\ phase = "idle"
    /\ retried = FALSE
    /\ versions = {}
    /\ facts = [o \in Orders |-> [rows |-> 0, keys |-> {}]]
    /\ faults = 0

StateAt(c, n) == IF n = 0 THEN [image |-> Gone, stamp |-> 0] ELSE history[c][n]
Current(c) == StateAt(c, Len(history[c]))      \* public.customers
Silver(c) == StateAt(c, shown[c])              \* cdc_silver.customers_current
Live(state) == state.image # Gone

-----------------------------------------------------------------------------
(* The source and CDC *)

\* A transaction inserts, changes or deletes customer c; the foreign key of
\* orders keeps a customer who has one.
ChangeCustomer(c, image, stamp) ==
    /\ clock < MaxClock
    /\ stamp = Now \/ (c \in LateStamps /\ stamp \in 1..clock)
    /\ image = Gone => Live(Current(c))
    /\ image = Gone => \A o \in Orders: CustomerOf[o] = c => placed[o] = None
    /\ history' = [history EXCEPT ![c] = Append(@, [image |-> image, stamp |-> stamp])]
    /\ clock' = Now
    /\ UNCHANGED <<placed, shown, runVars, versions, facts>>

\* An order is inserted, possibly with a date in the past, or changed.
WriteOrder(o, date) ==
    /\ clock < MaxClock
    /\ Live(Current(CustomerOf[o]))
    /\ date \in 0..Now
    /\ placed' = [placed EXCEPT ![o] = date]
    /\ window' = [window EXCEPT ![o] = "changed"]
    /\ clock' = Now
    /\ UNCHANGED <<history, shown, staging, fresh, phase, retried, faults, versions, facts>>

\* The materializer applies the next change of c.
ShowNext(c) ==
    /\ shown[c] < Len(history[c])
    /\ shown' = [shown EXCEPT ![c] = @ + 1]
    /\ UNCHANGED <<sourceVars, runVars, versions, facts>>

-----------------------------------------------------------------------------
(* The run around dbt *)

Extract ==
    /\ phase = "idle"
    /\ LET above == {o \in Orders : window[o] = "changed"}
       IN  /\ staging' = [o \in Orders |-> IF o \in above THEN placed[o] ELSE staging[o]]
           /\ window' = [o \in Orders |-> IF o \in above THEN "extracted" ELSE window[o]]
           /\ fresh' = fresh \cup above
    /\ phase' = "staged"
    /\ retried' = FALSE
    /\ UNCHANGED <<sourceVars, shown, versions, facts, faults>>

\* The run ends; the watermark moves to its candidate only on success.
EndRun(state) ==
    /\ phase' = "idle"
    /\ window' = [o \in Orders |-> IF window[o] = "extracted" THEN state ELSE window[o]]
    /\ UNCHANGED <<staging, retried>>

\* validate_relationships, orders_without_customer
Validate ==
    /\ phase = "staged"
    /\ IF \A o \in Orders: staging[o] # None => Live(Silver(CustomerOf[o]))
         THEN phase' = "valid" /\ UNCHANGED <<staging, window, retried>>
         ELSE EndRun("changed")
    /\ UNCHANGED <<sourceVars, shown, fresh, versions, facts, faults>>

\* dbt build ends with an error; Airflow runs the task once more.
DbtFails ==
    IF retried THEN EndRun("changed")
    ELSE phase' = "valid" /\ retried' = TRUE /\ UNCHANGED <<staging, window>>

DbtDies ==
    /\ phase \in {"valid", "snapshot", "tested", "facts"}
    /\ faults < MaxFaults
    /\ faults' = faults + 1
    /\ DbtFails
    /\ UNCHANGED <<sourceVars, shown, fresh, versions, facts>>

-----------------------------------------------------------------------------
(* dbt build: the snapshot *)

OpenVersions(c) == {v \in versions : v.customer = c /\ v.to = None}

\* check_cols of the source row against an open version
Differs(v, c) == Live(Silver(c)) /\ v.image # Silver(c).image

\* Plausible bug: the staging view reads Silver with its deleted rows.
NewVersionsOfGone ==
    {[customer |-> c, image |-> Silver(c).image, from |-> Silver(c).stamp, to |-> None] :
        c \in {d \in Customers : shown[d] > 0 /\ (OpenVersions(d) = {}
                                 \/ \E v \in OpenVersions(d): v.image # Silver(d).image)}}

\* A source row without an open version of its image gets one, valid from its
\* updated_at.
NewVersions ==
    {[customer |-> c, image |-> Silver(c).image, from |-> Silver(c).stamp, to |-> None] :
        c \in {d \in Customers : /\ Live(Silver(d))
                                 /\ \/ OpenVersions(d) = {}
                                    \/ \E v \in OpenVersions(d): Differs(v, d)}}

\* Plausible bug: no updated_at in the snapshot's configuration when closing.
ClosedAtSnapshot(v) ==
    IF v.to # None THEN v
    ELSE IF ~Live(Silver(v.customer)) \/ Differs(v, v.customer) THEN [v EXCEPT !.to = Now]
    ELSE v

\* Plausible bug: hard_deletes is left at its default, ignore.
ClosedIgnoringDeletes(v) ==
    IF v.to = None /\ Differs(v, v.customer)
      THEN [v EXCEPT !.to = Silver(v.customer).stamp] ELSE v

\* An open version ends at the updated_at of the row that replaces it, or, for
\* a row that is gone (hard_deletes: invalidate), when the snapshot is taken.
Closed(v) ==
    IF v.to # None THEN v
    ELSE IF ~Live(Silver(v.customer)) THEN [v EXCEPT !.to = Now]
    ELSE IF Differs(v, v.customer) THEN [v EXCEPT !.to = Silver(v.customer).stamp]
    ELSE v

\* The UPDATE and the INSERT of the snapshot, one transaction.
Snapshot ==
    /\ phase = "valid"
    /\ versions' = {Closed(v) : v \in versions} \cup NewVersions
    /\ phase' = "snapshot"
    /\ UNCHANGED <<sourceVars, shown, staging, window, fresh, retried, facts, faults>>

-----------------------------------------------------------------------------
(* dbt build: dim_customer and its tests, on Silver as it is now *)

\* unique dbt_scd_id and customer_sk
KeysAreUnique ==
    \A v, w \in versions: v.customer = w.customer /\ v.from = w.from => v = w

\* assert_dim_customer_valid_range
RangesMoveForward == \A v \in versions: v.to # None => v.to > v.from

\* assert_dim_customer_one_current_record
AtMostOneOpen == \A c \in Customers: Cardinality(OpenVersions(c)) <= 1

\* assert_dim_customer_current_keys_match_cdc_silver
OpenKeysMatchSilver == \A c \in Customers: Live(Silver(c)) <=> OpenVersions(c) # {}

TestDimension ==
    /\ phase = "snapshot"
    /\ IF KeysAreUnique /\ RangesMoveForward /\ AtMostOneOpen /\ OpenKeysMatchSilver
         THEN phase' = "tested" /\ UNCHANGED <<staging, window, retried>>
         ELSE DbtFails
    /\ UNCHANGED <<sourceVars, shown, fresh, versions, facts, faults>>

-----------------------------------------------------------------------------
(* dbt build: fact_sales *)

VersionsOf(c) == {v \in versions : v.customer = c}

\* Plausible bug: the range is open at its lower end.
CoversStrictly(v, date) == v.from < date /\ (v.to = None \/ date < v.to)

Covers(v, date) == v.from <= date /\ (v.to = None \/ date < v.to)

\* Plausible bug: the join takes the current version whatever the order's date.
KeysForCurrent(o) ==
    IF OpenVersions(CustomerOf[o]) = {}
      THEN {[from |-> None, resolution |-> "unresolved"]}
      ELSE {[from |-> v.from, resolution |-> "as_of"] : v \in OpenVersions(CustomerOf[o])}

\* The keys an order joins to: the versions in force at its date, or else the
\* first one if the order is older than all.
KeysFor(o) ==
    LET mine == VersionsOf(CustomerOf[o])
        matching == {v \in mine : Covers(v, staging[o])}
        earliest == {v \in mine : /\ \A other \in mine: v.from <= other.from
                                  /\ staging[o] < v.from}
    IN  IF matching # {} THEN {[from |-> v.from, resolution |-> "as_of"] : v \in matching}
        ELSE IF earliest # {}
        THEN {[from |-> v.from, resolution |-> "earliest_available"] : v \in earliest}
        ELSE {[from |-> None, resolution |-> "unresolved"]}

\* MERGE ON order_item_id: a stored fact cannot be updated from two rows.
MergeIsAmbiguous ==
    \E o \in fresh: facts[o].rows > 0 /\ Cardinality(KeysFor(o)) > 1

BuildFacts ==
    /\ phase = "tested"
    /\ IF MergeIsAmbiguous
         THEN DbtFails /\ UNCHANGED <<facts, fresh>>
         ELSE /\ facts' = [o \in Orders |->
                   IF o \notin fresh THEN facts[o]
                   ELSE [keys |-> KeysFor(o),
                         rows |-> IF facts[o].rows > 0 THEN facts[o].rows
                                  ELSE Cardinality(KeysFor(o))]]
              /\ fresh' = {}
              /\ phase' = "facts"
              /\ UNCHANGED <<staging, window, retried>>
    /\ UNCHANGED <<sourceVars, shown, versions, faults>>

\* One row per item, and a customer_sk found in one of the two accepted ways.
FactIsSound(o) ==
    /\ facts[o].rows = 1
    /\ \A key \in facts[o].keys: key.resolution # "unresolved"

\* The tests of fact_sales over the whole table; then the rest of the run.
TestFacts ==
    /\ phase = "facts"
    /\ IF \A o \in Orders: staging[o] # None => FactIsSound(o)
         THEN EndRun("committed") ELSE DbtFails
    /\ UNCHANGED <<sourceVars, shown, fresh, versions, facts, faults>>

-----------------------------------------------------------------------------

RunStep ==
    \/ Extract
    \/ Validate
    \/ Snapshot
    \/ TestDimension
    \/ BuildFacts
    \/ TestFacts

Next ==
    \/ \E c \in Customers, image \in Images \cup {Gone}, stamp \in 1..Now:
         ChangeCustomer(c, image, stamp)
    \/ \E o \in Orders, date \in 0..Now: WriteOrder(o, date)
    \/ \E c \in Customers: ShowNext(c)
    \/ RunStep
    \/ DbtDies

Spec == Init /\ [][Next]_vars

\* CDC goes on (CdcMaterializer, Converges), and so do the runs.
FairSpec ==
    /\ Spec
    /\ \A c \in Customers: WF_vars(ShowNext(c))
    /\ WF_vars(RunStep)

-----------------------------------------------------------------------------
(* Properties *)

\* The source has stamped c's changes in their order and has not inserted c
\* again after a delete (a customer_id is a fresh UUID).
Regular(c) ==
    /\ \A i \in 1..Len(history[c]): \A j \in 1..i - 1:
         history[c][j].stamp < history[c][i].stamp
    /\ \A i \in 1..Len(history[c]): history[c][i].image = Gone => i = Len(history[c])

\* Two versions of a regular customer are never in force at the same time, so
\* the as-of join has at most one match, whatever CDC had not yet shown when
\* the snapshots between were taken or at what time a delete was noticed.
OneVersionAtATime ==
    \A c \in Customers: Regular(c) =>
        \A v, w \in VersionsOf(c): v = w
                                   \/ (v.to # None /\ v.to <= w.from)
                                   \/ (w.to # None /\ w.to <= v.from)

\* No look-ahead: the attributes an as_of fact points to were written by the
\* source with an updated_at not after the order's date (valid_from is the
\* source's timestamp, not the snapshot's).
FactsDoNotLookAhead ==
    \A o \in Orders: window[o] = "committed" =>
        \A key \in facts[o].keys: key.resolution = "as_of" =>
            \E v \in VersionsOf(CustomerOf[o]), i \in 1..Len(history[CustomerOf[o]]):
                /\ v.from = key.from
                /\ history[CustomerOf[o]][i] = [image |-> v.image, stamp |-> v.from]
                /\ v.from <= placed[o]

\* Once the source is quiet the open versions are the live customers with the
\* images they have: snapshots see every customer's last state, even those of
\* builds whose tests then fail.
OpenVersionsShowSource ==
    \A c \in Customers:
        {v.image : v \in OpenVersions(c)} = IF Live(Current(c)) THEN {Current(c).image} ELSE {}
DimensionCatchesUp == <>[]OpenVersionsShowSource

\* Once the source is quiet, and if its histories are regular, every order has
\* its one fact and is below the watermark: no test of dbt build fails for
\* good because CDC was behind when some earlier run was built.
FactsCatchUp ==
    <>[]((\A c \in Customers: Regular(c)) =>
            \A o \in Orders: window[o] = "committed" /\ (placed[o] # None => FactIsSound(o)))
=============================================================================
