-------------------------- MODULE CdcMaterializer --------------------------
(***************************************************************************)
(* Customer CDC: public.customers -> WAL -> Debezium -> compacted Kafka    *)
(* topic -> cdc/materialize_customers.py -> cdc_bronze.customer_changes    *)
(* and cdc_silver.customers.                                               *)
(*                                                                         *)
(* Data that no property distinguishes is abstracted: a row image is named *)
(* by the LSN of the change that wrote it (0 = no row), an LSN is the      *)
(* position of the change in the WAL, and Kafka offsets start at 1.        *)
(***************************************************************************)
EXTENDS Integers, Sequences, FiniteSets

CONSTANTS
    Customers,      \* customer_id values
    Partitions,     \* partitions of <prefix>.public.customers
    PartitionOf,    \* the producer's key partitioner
    Workers,        \* materializer processes sharing one consumer group
    Daemon,         \* the worker Docker restarts; others are one-off drains
    Nobody,         \* the owner of an unassigned partition
    BatchSize,      \* BATCH_SIZE, messages per Consumer.consume
    Compaction,     \* TRUE iff the log cleaner may run
    SlotLoss,       \* TRUE iff the replication slot may be lost
    MaxLsn,         \* bound: source changes
    MaxFaults       \* bound: stops, evictions, connector restarts, slot losses

ASSUME PartitionOfType == PartitionOf \in [Customers -> Partitions]
ASSUME DaemonIsWorker == Daemon \in Workers
ASSUME NobodyIsNoWorker == Nobody \notin Workers
ASSUME BoundsAreNaturals == MaxLsn \in Nat /\ MaxFaults \in Nat /\ BatchSize \in Nat
ASSUME CompactionIsBoolean == Compaction \in BOOLEAN
ASSUME SlotLossIsBoolean == SlotLoss \in BOOLEAN

VARIABLES
    wal,        \* sequence of source changes; an LSN is an index
    connector,  \* Debezium: snapshot rows still to send, LSN sent, LSN stored
    topic,      \* topic[p] is the log of partition p, never truncated
    cleaned,    \* coordinates <<p, offset>> the log cleaner has removed
    committed,  \* committed[p]: last acknowledged offset of the group
    members,    \* members of the consumer group, as the broker sees it
    owner,      \* owner[p]: the group member partition p is assigned to
    phase,      \* phase[w]: where worker w is in its main loop
    todo,       \* todo[w]: messages of the polled batch not yet handled
    upto,       \* upto[w][p]: last offset of p in the polled batch, or 0
    txBronze,   \* txBronze[w]: Bronze keys inserted by w's open transaction
    txSilver,   \* txSilver[w]: Silver rows locked by it, with its version
    bronze,     \* committed Bronze, by its primary key <<p, offset>>
    silver,     \* committed Silver
    faults      \* number of failures so far

feedVars   == <<wal, connector, topic, cleaned>>
groupVars  == <<committed, members, owner>>
workerVars == <<phase, todo, upto, txBronze, txSilver>>
storeVars  == <<bronze, silver>>
vars == <<feedVars, groupVars, workerVars, storeVars, faults>>

-----------------------------------------------------------------------------
(* Records and rows *)

\* A WAL entry, with the table it leaves; and a message, op "t" a tombstone.
Change == [key: Customers, op: {"c", "u", "d"}, rows: [Customers -> Nat]]
Record == [key: Customers, op: {"r", "c", "u", "d", "t"}, lsn: Nat, image: Nat]
Connector == [started: BOOLEAN, pending: SUBSET Record, sent: Nat, stored: Nat]

\* A Silver row; lsn = 0 stands for "no row", so that the INSERT branch and
\* the ON CONFLICT branch of the upsert are one rule.
Row == [live: BOOLEAN, lsn: Nat, offset: Nat, image: Nat]
NoRow == [live |-> FALSE, lsn |-> 0, offset |-> 0, image |-> 0]

SourceAt(n) == IF n = 0 THEN [k \in Customers |-> 0] ELSE wal[n].rows
Source == SourceAt(Len(wal))

\* <<partition, offset>> of every record ever sent, and of those a consumer can
\* still fetch.
Offsets == UNION {0..Len(topic[p]) : p \in Partitions}
Coordinates == {m \in Partitions \X Offsets : 1 <= m[2] /\ m[2] <= Len(topic[m[1]])}
Present == Coordinates \ cleaned

RecordAt(m) == topic[m[1]][m[2]]

\* (a, b) > (c, d) of SQL row comparison.
Newer(lsn, offset, row) ==
    \/ lsn > row.lsn
    \/ lsn = row.lsn /\ offset > row.offset

\* cdc_silver.customers_current
Visible(k) == IF silver[k].live THEN silver[k].image ELSE 0

TypeOK ==
    /\ wal \in Seq(Change)
    /\ connector \in Connector
    /\ topic \in [Partitions -> Seq(Record)]
    /\ cleaned \in SUBSET (Partitions \X Nat)
    /\ committed \in [Partitions -> Nat]
    /\ members \in SUBSET Workers
    /\ owner \in [Partitions -> Workers \cup {Nobody}]
    /\ phase \in [Workers -> {"down", "polling", "applying", "persisted"}]
    /\ todo \in [Workers -> SUBSET (Partitions \X Nat)]
    /\ upto \in [Workers -> [Partitions -> Nat]]
    /\ txBronze \in [Workers -> SUBSET (Partitions \X Nat)]
    /\ txSilver \in [Workers -> [Customers -> Row]]
    /\ bronze \in SUBSET (Partitions \X Nat)
    /\ silver \in [Customers -> Row]
    /\ faults \in Nat

-----------------------------------------------------------------------------
(* The source table and Debezium *)

Init ==
    /\ wal = <<>>
    /\ connector = [started |-> FALSE, pending |-> {}, sent |-> 0, stored |-> 0]
    /\ topic = [p \in Partitions |-> <<>>]
    /\ cleaned = {}
    /\ committed = [p \in Partitions |-> 0]
    /\ members = {}
    /\ owner = [p \in Partitions |-> Nobody]
    /\ phase = [w \in Workers |-> "down"]
    /\ todo = [w \in Workers |-> {}]
    /\ upto = [w \in Workers |-> [p \in Partitions |-> 0]]
    /\ txBronze = [w \in Workers |-> {}]
    /\ txSilver = [w \in Workers |-> [k \in Customers |-> NoRow]]
    /\ bronze = {}
    /\ silver = [k \in Customers |-> NoRow]
    /\ faults = 0

\* An OLTP transaction inserts, updates or deletes customer k.
SourceChange(k, op) ==
    /\ Len(wal) < MaxLsn
    /\ (op = "c") <=> (Source[k] = 0)
    /\ LET image == IF op = "d" THEN 0 ELSE Len(wal) + 1
       IN  wal' = Append(wal, [key |-> k, op |-> op,
                               rows |-> [Source EXCEPT ![k] = image]])
    /\ UNCHANGED <<connector, topic, cleaned, groupVars, workerVars, storeVars, faults>>

\* register_connector with snapshot.mode=initial: the rows of one consistent
\* snapshot will be sent as op=r, stamped with the snapshot's LSN.
StartSnapshot ==
    /\ ~connector.started
    /\ connector' =
         [started |-> TRUE, sent |-> Len(wal), stored |-> Len(wal),
          pending |-> {[key |-> k, op |-> "r", lsn |-> Len(wal), image |-> Source[k]] :
                         k \in {c \in Customers : Source[c] # 0}}]
    /\ UNCHANGED <<wal, topic, cleaned, groupVars, workerVars, storeVars, faults>>

SendSnapshotRow(r) ==
    /\ r \in connector.pending
    /\ connector' = [connector EXCEPT !.pending = @ \ {r}]
    /\ topic' = [topic EXCEPT ![PartitionOf[r.key]] = Append(@, r)]
    /\ UNCHANGED <<wal, cleaned, groupVars, workerVars, storeVars, faults>>

\* The records Debezium makes of the change with LSN n; a delete is followed
\* by a tombstone (tombstones.on.delete=true), which carries no source.lsn.
RecordsOf(n) ==
    LET c == wal[n]
        event == [key |-> c.key, op |-> c.op, lsn |-> n, image |-> c.rows[c.key]]
        tombstone == [key |-> c.key, op |-> "t", lsn |-> 0, image |-> 0]
    IN  IF c.op = "d" THEN <<event, tombstone>> ELSE <<event>>

StreamChange ==
    /\ connector.started /\ connector.pending = {}
    /\ connector.sent < Len(wal)
    /\ LET n == connector.sent + 1
       IN  /\ connector' = [connector EXCEPT !.sent = n]
           /\ topic' = [topic EXCEPT ![PartitionOf[wal[n].key]] = @ \o RecordsOf(n)]
    /\ UNCHANGED <<wal, cleaned, groupVars, workerVars, storeVars, faults>>

\* Kafka Connect flushes source offsets now and then ...
StoreSourceOffset ==
    /\ connector.pending = {}
    /\ connector.stored # connector.sent
    /\ connector' = [connector EXCEPT !.stored = @ + 1]
    /\ UNCHANGED <<wal, topic, cleaned, groupVars, workerVars, storeVars, faults>>

\* Mutant: the replay starts one change too early.
RestartConnectorOneBefore ==
    /\ faults < MaxFaults
    /\ connector.pending = {}
    /\ connector.sent # connector.stored
    /\ connector' = [connector EXCEPT !.sent = connector.stored - 1]
    /\ faults' = faults + 1
    /\ UNCHANGED <<wal, topic, cleaned, groupVars, workerVars, storeVars>>

\* ... and a restarted task sends again whatever came after the last flush.
RestartConnector ==
    /\ faults < MaxFaults
    /\ connector.pending = {}
    /\ connector.sent # connector.stored
    /\ connector' = [connector EXCEPT !.sent = connector.stored]
    /\ faults' = faults + 1
    /\ UNCHANGED <<wal, topic, cleaned, groupVars, workerVars, storeVars>>

\* Retained WAL exceeds max_slot_wal_keep_size while the connector is away: the
\* changes it has not sent are gone, and a controlled resnapshot starts it over
\* from the rows that still exist, so a delete among them is never sent.
LoseSlot ==
    /\ SlotLoss
    /\ connector.started
    /\ faults < MaxFaults
    /\ connector' = [started |-> FALSE, pending |-> {}, sent |-> 0, stored |-> 0]
    /\ faults' = faults + 1
    /\ UNCHANGED <<wal, topic, cleaned, groupVars, workerVars, storeVars>>

\* cleanup.policy=compact: a cleaner pass over the log of p up to offset n
\* drops every record whose key has a later one there.  A tombstone stays
\* (delete.retention.ms) until a later record of its key replaces it.
CleanLog(p, n) ==
    LET superseded == {m \in Present :
                         /\ m[1] = p
                         /\ \E later \in m[2] + 1 .. n: topic[p][later].key = RecordAt(m).key}
    IN  /\ Compaction
        /\ superseded # {}
        /\ cleaned' = cleaned \cup superseded
        /\ UNCHANGED <<wal, connector, topic, groupVars, workerVars, storeVars, faults>>

-----------------------------------------------------------------------------
(* The consumer group *)

\* The process subscribes and joins the group, whose members give up their
\* partitions at their next poll; a batch in hand goes on.
Start(w) ==
    /\ phase[w] = "down"
    /\ phase' = [phase EXCEPT ![w] = "polling"]
    /\ members' = members \cup {w}
    /\ owner' = [p \in Partitions |-> Nobody]
    /\ UNCHANGED <<feedVars, committed, todo, upto, txBronze, txSilver,
                   storeVars, faults>>

\* The group assigns partitions after a membership change; every member has
\* to be back in poll for that.
Rebalance ==
    /\ members # {}
    /\ \A w \in members: phase[w] = "polling"
    /\ \E p \in Partitions: owner[p] = Nobody
    /\ owner' \in [Partitions -> members]
    /\ UNCHANGED <<feedVars, committed, members, workerVars, storeVars, faults>>

Released(w) == [p \in Partitions |-> IF owner[p] = w THEN Nobody ELSE owner[p]]

\* The open transaction is rolled back and in-memory state is gone.
Die(w) ==
    /\ phase' = [phase EXCEPT ![w] = "down"]
    /\ todo' = [todo EXCEPT ![w] = {}]
    /\ upto' = [upto EXCEPT ![w] = [p \in Partitions |-> 0]]
    /\ txBronze' = [txBronze EXCEPT ![w] = {}]
    /\ txSilver' = [txSilver EXCEPT ![w] = [k \in Customers |-> NoRow]]
    /\ members' = members \ {w}
    /\ owner' = Released(w)
    /\ UNCHANGED <<feedVars, committed, storeVars>>

\* A crash, an exception out of process_batch, SIGTERM or the idle exit.
Stop(w) ==
    /\ faults < MaxFaults
    /\ phase[w] # "down"
    /\ faults' = faults + 1
    /\ Die(w)

\* max.poll.interval.ms passes while w handles a batch: the group goes on
\* without w, and w does not notice before it acknowledges.
Evict(w) ==
    /\ faults < MaxFaults
    /\ w \in members
    /\ phase[w] \in {"applying", "persisted"}
    /\ members' = members \ {w}
    /\ owner' = Released(w)
    /\ faults' = faults + 1
    /\ UNCHANGED <<feedVars, committed, workerVars, storeVars>>

-----------------------------------------------------------------------------
(* main, process_batch *)

\* consumer.consume: some next messages of every assigned partition, in
\* offset order, starting after the acknowledged offset.
Poll(w) ==
    /\ phase[w] = "polling"
    /\ \E end \in [Partitions -> Offsets]:
         LET batch == {m \in Present : /\ owner[m[1]] = w
                                       /\ committed[m[1]] < m[2]
                                       /\ m[2] <= end[m[1]]}
         IN  /\ batch # {} /\ Cardinality(batch) <= BatchSize
             /\ \A p \in Partitions:
                  end[p] = 0 \/ <<p, end[p]>> \in batch
             /\ todo' = [todo EXCEPT ![w] = batch]
             /\ upto' = [upto EXCEPT ![w] = end]
    /\ phase' = [phase EXCEPT ![w] = "applying"]
    /\ UNCHANGED <<feedVars, groupVars, txBronze, txSilver, storeVars, faults>>

\* The first unhandled message of a partition.
IsNext(w, m) ==
    /\ m \in todo[w]
    /\ \A other \in todo[w]: other[1] = m[1] => other[2] >= m[2]

\* The Silver row as w's transaction sees it.
RowSeen(w, k) == IF txSilver[w][k].lsn > 0 THEN txSilver[w][k] ELSE silver[k]

\* Mutants: no comparison with the stored position; a delete event that leaves
\* is_deleted alone.
AppliedLastWins(r, offset, row) ==
    [live |-> r.op # "d", lsn |-> r.lsn, offset |-> offset,
     image |-> IF r.op = "d" THEN row.image ELSE r.image]
AppliedIgnoringDeletes(r, offset, row) ==
    IF ~Newer(r.lsn, offset, row) THEN row
    ELSE [AppliedLastWins(r, offset, row) EXCEPT !.live = row.live \/ r.op # "d"]

\* apply_silver: what the upsert of a data event makes of a row.
Applied(r, offset, row) ==
    IF ~Newer(r.lsn, offset, row) THEN row
    ELSE [live |-> r.op # "d", lsn |-> r.lsn, offset |-> offset,
          image |-> IF r.op = "d" THEN row.image ELSE r.image]

\* Mutant: apply_silver reads the row first and writes it without a lock.
BlockedByBronzeOnly(w, m, other) ==
    /\ other # w
    /\ m \in txBronze[other]

\* PostgreSQL makes w wait: another open transaction has inserted the same
\* Bronze key, or (for a new data event) holds the lock on the Silver row.
BlockedBy(w, m, other) ==
    /\ other # w
    /\ \/ m \in txBronze[other]
       \/ /\ m \notin bronze \cup txBronze[w]
          /\ RecordAt(m).op # "t"
          /\ txSilver[other][RecordAt(m).key].lsn > 0

Blocked(w, m) == \E other \in Workers: BlockedBy(w, m, other)

\* insert_bronze, and apply_silver when the Bronze row is new.
ApplyMessage(w, m) ==
    /\ phase[w] = "applying"
    /\ IsNext(w, m)
    /\ ~Blocked(w, m)
    /\ todo' = [todo EXCEPT ![w] = @ \ {m}]
    /\ LET r == RecordAt(m)
           new == m \notin bronze
       IN  /\ txBronze' = IF new THEN [txBronze EXCEPT ![w] = @ \cup {m}] ELSE txBronze
           /\ txSilver' = IF new /\ r.op # "t"
                            THEN [txSilver EXCEPT ![w][r.key] =
                                    Applied(r, m[2], RowSeen(w, r.key))]
                            ELSE txSilver
    /\ UNCHANGED <<feedVars, groupVars, phase, upto, storeVars, faults>>

\* PostgreSQL breaks a deadlock by aborting one transaction; the error ends
\* the process.
DeadlockVictim(w) ==
    /\ \E other \in Workers:
         /\ phase[w] = "applying" /\ phase[other] = "applying"
         /\ \E m \in todo[w]: IsNext(w, m) /\ BlockedBy(w, m, other)
         /\ \E m \in todo[other]: IsNext(other, m) /\ BlockedBy(other, m, w)
    /\ faults' = faults
    /\ Die(w)

\* Mutant: the transaction commits in the middle of the batch.
CommitBatchEarly(w) ==
    /\ phase[w] = "applying"
    /\ phase' = [phase EXCEPT ![w] = "persisted"]
    /\ bronze' = bronze \cup txBronze[w]
    /\ silver' = [k \in Customers |-> RowSeen(w, k)]
    /\ txBronze' = [txBronze EXCEPT ![w] = {}]
    /\ txSilver' = [txSilver EXCEPT ![w] = [k \in Customers |-> NoRow]]
    /\ UNCHANGED <<feedVars, groupVars, todo, upto, faults>>

\* connection.commit()
CommitBatch(w) ==
    /\ phase[w] = "applying"
    /\ todo[w] = {}
    /\ phase' = [phase EXCEPT ![w] = "persisted"]
    /\ bronze' = bronze \cup txBronze[w]
    /\ silver' = [k \in Customers |-> RowSeen(w, k)]
    /\ txBronze' = [txBronze EXCEPT ![w] = {}]
    /\ txSilver' = [txSilver EXCEPT ![w] = [k \in Customers |-> NoRow]]
    /\ UNCHANGED <<feedVars, groupVars, todo, upto, faults>>

\* Mutants: offsets are acknowledged before the database commit, or at the end of the log.
AckBatchFirst(w) ==
    /\ phase[w] \in {"applying", "persisted"}
    /\ w \in members
    /\ committed' = [p \in Partitions |->
                       IF upto[w][p] = 0 THEN committed[p] ELSE upto[w][p]]
    /\ phase' = IF phase[w] = "applying" THEN phase ELSE [phase EXCEPT ![w] = "polling"]
    /\ UNCHANGED <<feedVars, members, owner, todo, upto, txBronze, txSilver, storeVars,
                   faults>>
AckBatchEndOfLog(w) ==
    /\ phase[w] = "persisted"
    /\ w \in members
    /\ committed' = [p \in Partitions |->
                       IF upto[w][p] = 0 THEN committed[p] ELSE Len(topic[p])]
    /\ phase' = [phase EXCEPT ![w] = "polling"]
    /\ upto' = [upto EXCEPT ![w] = [p \in Partitions |-> 0]]
    /\ UNCHANGED <<feedVars, members, owner, todo, txBronze, txSilver, storeVars, faults>>

\* commit_offsets: the next offset of every partition in the batch.
AckBatch(w) ==
    /\ phase[w] = "persisted"
    /\ w \in members
    /\ committed' = [p \in Partitions |->
                       IF upto[w][p] = 0 THEN committed[p] ELSE upto[w][p]]
    /\ phase' = [phase EXCEPT ![w] = "polling"]
    /\ upto' = [upto EXCEPT ![w] = [p \in Partitions |-> 0]]
    /\ UNCHANGED <<feedVars, members, owner, todo, txBronze, txSilver, storeVars, faults>>

\* Mutant: the refusal is swallowed, and the process polls on outside the group.
AckRefusedIgnored(w) ==
    /\ phase[w] = "persisted"
    /\ w \notin members
    /\ phase' = [phase EXCEPT ![w] = "polling"]
    /\ UNCHANGED <<feedVars, groupVars, todo, upto, txBronze, txSilver, storeVars, faults>>

\* The broker refuses the commit of a process it has evicted; the exception
\* ends the process.
AckRefused(w) ==
    /\ phase[w] = "persisted"
    /\ w \notin members
    /\ faults' = faults
    /\ Die(w)

Work(w) ==
    \/ Poll(w)
    \/ \E m \in todo[w]: ApplyMessage(w, m)
    \/ CommitBatch(w)
    \/ AckBatch(w)
    \/ AckRefused(w)
    \/ DeadlockVictim(w)

Feed ==
    \/ StartSnapshot
    \/ \E r \in connector.pending: SendSnapshotRow(r)
    \/ StreamChange

Next ==
    \/ \E k \in Customers, op \in {"c", "u", "d"}: SourceChange(k, op)
    \/ Feed
    \/ StoreSourceOffset
    \/ RestartConnector
    \/ LoseSlot
    \/ \E p \in Partitions: \E n \in 1..Len(topic[p]): CleanLog(p, n)
    \/ Rebalance
    \/ \E w \in Workers: Start(w) \/ Stop(w) \/ Evict(w) \/ Work(w)

Spec == Init /\ [][Next]_vars

\* The connector task and every running process keep taking steps; Docker
\* restarts the daemon (restart: unless-stopped).  Nothing forces a source
\* change, a fault, an offset flush or a one-off drain.
FairSpec ==
    /\ Spec
    /\ WF_vars(Feed)
    /\ WF_vars(Start(Daemon))
    /\ WF_vars(Rebalance)
    /\ \A w \in Workers: WF_vars(Work(w))

-----------------------------------------------------------------------------
(* Properties *)

DataEvents(S, k) == {m \in S : RecordAt(m).key = k /\ RecordAt(m).op # "t"}

\* row carries exactly what event m says; a delete keeps older attributes.
Reflects(row, m) ==
    /\ row.lsn = RecordAt(m).lsn
    /\ row.offset = m[2]
    /\ row.live <=> RecordAt(m).op # "d"
    /\ row.live => row.image = RecordAt(m).image

\* row is the newest of k's data events in S, and no row if there is none.
FoldOf(row, S, k) ==
    /\ row.lsn = 0 => DataEvents(S, k) = {}
    /\ row.lsn > 0 => \E m \in DataEvents(S, k): Reflects(row, m)
    /\ \A m \in DataEvents(S, k): ~Newer(RecordAt(m).lsn, m[2], row)

\* Silver can be rebuilt from Bronze: each row is the newest Bronze data event
\* of its customer by (lsn, offset), whatever redelivery, restart, eviction or
\* concurrent worker came in between (insert_bronze and apply_silver of one
\* message are one transaction).
SilverFoldsBronze == \A k \in Customers: FoldOf(silver[k], bronze, k)

\* DB before offset: every acknowledged offset is in Bronze, or had been
\* compacted away before it was read (process_batch commits, then acks).
AckedIsPersisted ==
    \A p \in Partitions: \A o \in 1..committed[p]: <<p, o>> \in bronze \cup cleaned

Drained ==
    /\ connector.started /\ connector.pending = {}
    /\ connector.sent = Len(wal)
    /\ \A p \in Partitions: committed[p] = Len(topic[p])

\* reconcile_customers.py finds no difference once the lag is zero.
DrainedReconciles == Drained => \A k \in Customers: Visible(k) = Source[k]

\* "the prior d event already marked the key deleted": when Debezium is not
\* in the middle of sending older changes again, a Bronze tombstone that no
\* later record of its key follows belongs to a customer Silver shows as
\* deleted (apply_silver ignores the tombstone itself).
TombstoneIsDeleted ==
    \A m \in bronze:
        LET r == RecordAt(m)
        IN  /\ r.op = "t"
            /\ connector.sent = Len(wal)
            /\ \A o \in m[2] + 1 .. Len(topic[m[1]]): topic[m[1]][o].key # r.key
            => ~silver[r.key].live

\* No step moves a Silver row backwards in (lsn, offset), so a deleted
\* customer is not resurrected by a replay or by a second worker.
SilverNeverRegresses ==
    [][\A k \in Customers: ~Newer(silver[k].lsn, silver[k].offset, silver'[k])]_vars

\* Once the source is quiet, Silver ends up equal to it and stays so.
Converges == <>[](\A k \in Customers: Visible(k) = Source[k])

Replica == INSTANCE CustomerReplica WITH
    history <- [n \in 1..Len(wal) |-> wal[n].rows],
    asOf <- [k \in Customers |-> silver[k].lsn],
    view <- [k \in Customers |-> Visible(k)]

\* The whole path implements the abstract replica.
ImplementsReplica == Replica!Spec

-----------------------------------------------------------------------------
(* The inductive invariant behind SilverFoldsBronze *)

\* Bronze, open or committed, and polled batches hold records of the topic.
OnlyTopicRecords ==
    /\ bronze \subseteq Coordinates
    /\ \A w \in Workers: txBronze[w] \cup todo[w] \subseteq Coordinates

\* Every record but a tombstone carries a source LSN.
DataHasLsn ==
    /\ \A m \in Coordinates: RecordAt(m).op # "t" => RecordAt(m).lsn > 0
    /\ \A r \in connector.pending: r.op # "t" => r.lsn > 0

\* A Silver row is locked by at most one open transaction.
RowLocks ==
    \A w, other \in Workers, k \in Customers:
        txSilver[w][k].lsn > 0 /\ txSilver[other][k].lsn > 0 => w = other

\* A transaction that has not touched k's row has inserted no event of k.
BronzeWithSilver ==
    \A w \in Workers, k \in Customers:
        txSilver[w][k].lsn = 0 => DataEvents(txBronze[w], k) = {}

\* What a transaction sees is the fold of the Bronze it sees.
OpenFolds ==
    \A w \in Workers, k \in Customers: FoldOf(RowSeen(w, k), bronze \cup txBronze[w], k)

\* SilverFoldsBronze survives a commit because the open transactions keep the
\* same relation, and keep out of each other's rows.
FoldInv ==
    /\ OnlyTopicRecords
    /\ DataHasLsn
    /\ RowLocks
    /\ BronzeWithSilver
    /\ OpenFolds
    /\ SilverFoldsBronze

(* The inductive invariant behind AckedIsPersisted *)

\* Whatever a worker has fetched, up to the offset it will acknowledge, is
\* stored, gone from the log, in its open transaction, or still to be handled.
FetchedIsHeld ==
    \A w \in Workers, p \in Partitions: \A o \in 1..upto[w][p]:
        <<p, o>> \in bronze \cup cleaned \cup txBronze[w] \cup todo[w]

\* A worker that is about to acknowledge has committed everything.
PersistedIsEmpty ==
    \A w \in Workers: phase[w] = "persisted" => todo[w] = {} /\ txBronze[w] = {}

AckInv == FetchedIsHeld /\ PersistedIsEmpty /\ AckedIsPersisted
=============================================================================
