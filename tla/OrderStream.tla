---------------------------- MODULE OrderStream ----------------------------
(***************************************************************************)
(* spark/jobs/order_stream.py: Kafka order events -> three Iceberg tables. *)
(* A micro-batch is three table commits and then a checkpoint; a crash     *)
(* between them replays the same offset range.                             *)
(*                                                                         *)
(* An event id is <<order, version>> (publish_orders.py derives it from    *)
(* exactly these), so producer retries and backfills repeat ids.  The      *)
(* topic is one log; offsets start at 1.  Iceberg tables have no keys: a   *)
(* table is a set of rows, and the attempt that wrote a row (ingested_at)  *)
(* is part of it, so that writing a row twice shows.                       *)
(***************************************************************************)
EXTENDS Integers, Sequences, FiniteSets

CONSTANTS
    OrderIds,       \* business orders
    Versions,       \* source_updated_at values, numbers
    Kinds,          \* payloads on the topic, see below
    MaxRecords,     \* bound: records on the topic
    MaxFaults       \* bound: crashes of the streaming query

\* "valid": a v1 order event.  "malformed": not JSON, or a key is missing, or
\* a type or schema version is there and is another one.  "untyped": all keys
\* are there, but event_type or schema_version is missing.
ASSUME KindsAreKnown == Kinds \subseteq {"valid", "malformed", "untyped"}
ASSUME VersionsAreNumbers == Versions \subseteq Nat
ASSUME BoundsAreNaturals == MaxRecords \in Nat /\ MaxFaults \in Nat

VARIABLES
    log,        \* the topic
    planned,    \* last offset of the newest range in the offset log
    done,       \* last offset covered by the commit log of the checkpoint
    stage,      \* progress of merge_batch
    attempt,    \* number of calls of merge_batch so far
    history,    \* rows of order_events
    current,    \* rows of current_orders
    dlq,        \* rows of dead_letter_events
    faults

vars == <<log, planned, done, stage, attempt, history, current, dlq, faults>>

Event == [kind: Kinds, order: OrderIds, version: Versions]

TypeOK ==
    /\ log \in Seq(Event)
    /\ planned \in Nat /\ done \in Nat
    /\ stage \in {"stopped", "idle", "split", "history", "current", "returned"}
    /\ attempt \in Nat
    /\ history \in SUBSET [order: OrderIds, version: Versions, offset: Nat, attempt: Nat]
    /\ current \in SUBSET [order: OrderIds, version: Versions, attempt: Nat]
    /\ dlq \in SUBSET [offset: Nat, attempt: Nat]
    /\ faults \in Nat

Init ==
    /\ log = <<>>
    /\ planned = 0 /\ done = 0
    /\ stage = "stopped"
    /\ attempt = 0
    /\ history = {} /\ current = {} /\ dlq = {}
    /\ faults = 0

-----------------------------------------------------------------------------

\* Mutant: anything but an order event makes is_valid NULL.
IsValidOrNull(e) == IF e.kind = "valid" THEN "true" ELSE "null"

\* is_valid is a SQL conjunction: comparing a missing event_type or
\* schema_version gives NULL, and so does the whole, if nothing is FALSE.
IsValid(e) ==
    CASE e.kind = "valid"     -> "true"
      [] e.kind = "malformed" -> "false"
      [] e.kind = "untyped"   -> "null"

\* DataFrame.filter keeps the rows for which the condition is TRUE; NOT NULL
\* is NULL, so neither branch gets a row whose is_valid is NULL.
ValidIn(offsets) == {o \in offsets : IsValid(log[o]) = "true"}
InvalidIn(offsets) == {o \in offsets : IsValid(log[o]) = "false"}

\* The offset range of the micro-batch.
Batch == done + 1 .. planned
IdAt(o) == <<log[o].order, log[o].version>>
IdOf(row) == <<row.order, row.version>>

\* dropDuplicates(["event_id"]): one record per id, no matter which.
Deduplicated(offsets) ==
    {kept \in SUBSET offsets :
        /\ {IdAt(o) : o \in kept} = {IdAt(o) : o \in offsets}
        /\ \A a, b \in kept: IdAt(a) = IdAt(b) => a = b}

\* Mutant: ascending order.
OldestOf(offsets) ==
    {o \in offsets :
        \A other \in offsets:
            log[other].order = log[o].order =>
                \/ log[other].version > log[o].version
                \/ log[other].version = log[o].version /\ other >= o}

\* row_number() = 1 over (partition by order_id order by source_updated_at
\* desc, offset desc)
LatestOf(offsets) ==
    {o \in offsets :
        \A other \in offsets:
            log[other].order = log[o].order =>
                \/ log[other].version < log[o].version
                \/ log[other].version = log[o].version /\ other <= o}

-----------------------------------------------------------------------------

\* Some producer appends a record.
Produce(e) ==
    /\ Len(log) < MaxRecords
    /\ log' = Append(log, e)
    /\ UNCHANGED <<planned, done, stage, attempt, history, current, dlq, faults>>

\* Mutant: the query starts one record before its checkpoint.
StartQueryOneBefore ==
    /\ stage = "stopped"
    /\ stage' = "idle"
    /\ done' = done - 1
    /\ UNCHANGED <<log, planned, attempt, history, current, dlq, faults>>

\* main: the query starts from its checkpoint.
StartQuery ==
    /\ stage = "stopped"
    /\ stage' = "idle"
    /\ UNCHANGED <<log, planned, done, attempt, history, current, dlq, faults>>

\* A trigger records a new offset range before it runs it; a range that was
\* planned and not committed is run again as it is.
TriggerBatch ==
    /\ stage = "idle"
    /\ \/ planned = done /\ planned' \in planned + 1 .. Len(log)
       \/ planned > done /\ planned' = planned
    /\ attempt' = attempt + 1
    /\ stage' = "split"
    /\ UNCHANGED <<log, done, history, current, dlq, faults>>

\* Mutant: always append.
CommitHistoryAppend ==
    /\ stage = "split"
    /\ \E kept \in Deduplicated(ValidIn(Batch)):
         history' = history \cup
             {[order |-> log[o].order, version |-> log[o].version,
               offset |-> o, attempt |-> attempt] : o \in kept}
    /\ stage' = "history"
    /\ UNCHANGED <<log, planned, done, attempt, current, dlq, faults>>

\* order_events: append to an empty table, else MERGE WHEN NOT MATCHED.
CommitHistory ==
    /\ stage = "split"
    /\ \E kept \in Deduplicated(ValidIn(Batch)):
         LET fresh == IF history = {} THEN kept
                      ELSE {o \in kept : \A row \in history: IdOf(row) # IdAt(o)}
         IN  history' = history \cup
                 {[order |-> log[o].order, version |-> log[o].version,
                   offset |-> o, attempt |-> attempt] : o \in fresh}
    /\ stage' = "history"
    /\ UNCHANGED <<log, planned, done, attempt, current, dlq, faults>>

\* WHEN MATCHED AND source_updated_at >= ...
Replaces(new, old) == new.order = old.order /\ new.version >= old.version

\* current_orders after the latest of the kept events are appended to an
\* empty table or merged into a filled one.
MergedCurrent(kept) ==
    LET updates == {[order |-> log[o].order, version |-> log[o].version,
                     attempt |-> attempt] : o \in LatestOf(kept)}
        matched(new) == \E old \in current: old.order = new.order
    IN  {old \in current : ~\E new \in updates: Replaces(new, old)}
        \cup {new \in updates : \/ ~matched(new)
                                \/ \E old \in current: Replaces(new, old)}

\* Mutant: the commit does not wait for the history.
CommitCurrentFirst ==
    /\ stage \in {"split", "history"}
    /\ current' \in {MergedCurrent(kept) : kept \in Deduplicated(ValidIn(Batch))}
    /\ stage' = "current"
    /\ UNCHANGED <<log, planned, done, attempt, history, dlq, faults>>

CommitCurrent ==
    /\ stage = "history"
    /\ current' \in {MergedCurrent(kept) : kept \in Deduplicated(ValidIn(Batch))}
    /\ stage' = "current"
    /\ UNCHANGED <<log, planned, done, attempt, history, dlq, faults>>

\* Mutant: a batch with a malformed event does not get through.
CommitDeadLettersNever ==
    /\ stage = "current"
    /\ InvalidIn(Batch) = {}
    /\ stage' = "returned"
    /\ UNCHANGED <<log, planned, done, attempt, history, current, dlq, faults>>

\* dead_letter_events: MERGE WHEN NOT MATCHED on the hashed coordinates; then
\* merge_batch returns.
CommitDeadLetters ==
    /\ stage = "current"
    /\ dlq' = dlq \cup
         {[offset |-> o, attempt |-> attempt] :
            o \in {i \in InvalidIn(Batch) : \A row \in dlq: row.offset # i}}
    /\ stage' = "returned"
    /\ UNCHANGED <<log, planned, done, attempt, history, current, faults>>

\* Spark writes the commit log of the checkpoint.
Checkpoint ==
    /\ stage = "returned"
    /\ done' = planned
    /\ stage' = "idle"
    /\ UNCHANGED <<log, planned, attempt, history, current, dlq, faults>>

\* The driver dies, or a table commit fails and ends the query.
Crash ==
    /\ faults < MaxFaults
    /\ stage # "stopped"
    /\ stage' = "stopped"
    /\ faults' = faults + 1
    /\ UNCHANGED <<log, planned, done, attempt, history, current, dlq>>

QueryStep ==
    \/ StartQuery
    \/ TriggerBatch
    \/ CommitHistory
    \/ CommitCurrent
    \/ CommitDeadLetters
    \/ Checkpoint

Next ==
    \/ \E e \in Event: Produce(e)
    \/ QueryStep
    \/ Crash

Spec == Init /\ [][Next]_vars

\* The query is restarted (restart: unless-stopped) and keeps triggering.
FairSpec == Spec /\ WF_vars(QueryStep)

-----------------------------------------------------------------------------
(* Properties *)

\* The tables have the keys the replay safety is about: one history row per
\* event id, one current row per order, one dead letter per Kafka record,
\* whatever ranges are replayed and wherever merge_batch was interrupted.
OneRowPerKey ==
    /\ \A a, b \in history: IdOf(a) = IdOf(b) => a = b
    /\ \A a, b \in current: a.order = b.order => a = b
    /\ \A a, b \in dlq: a.offset = b.offset => a = b

\* "kept ... in the DLQ instead of a silent drop": a record the checkpoint is
\* past is in the history or, if it is not a v1 event, in the dead letters.
NoSilentDrop ==
    \A o \in 1..done:
        IF log[o].kind = "valid"
        THEN \E row \in history: IdOf(row) = IdAt(o)
        ELSE \E row \in dlq: row.offset = o

\* current_orders.latest_event_id always names a row of order_events, also
\* between the two table commits and after a crash there.
CurrentNamesHistory ==
    \A row \in current: \E h \in history: IdOf(h) = IdOf(row)

\* When no range is waiting to be replayed, current_orders is the newest
\* history version of every order, even if older events arrived last.
CurrentIsNewest ==
    planned = done =>
        \A h \in history: \E row \in current: row.order = h.order /\ row.version >= h.version

\* Every record is eventually behind the checkpoint, despite crashes.
EverythingConsumed == \A o \in 1..MaxRecords: Len(log) >= o ~> done >= o
=============================================================================
