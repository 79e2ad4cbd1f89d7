----------------------- MODULE CdcMaterializer_proofs -----------------------
(***************************************************************************)
(* Theorems about CdcMaterializer, for every number of customers,          *)
(* partitions and workers and for logs of every length.                    *)
(***************************************************************************)
EXTENDS CdcMaterializer, SequenceTheorems, TLAPS

-----------------------------------------------------------------------------
(* Type correctness *)

\* Offsets are naturals, and what a consumer can fetch is a coordinate.
LEMMA OffsetFacts ==
    ASSUME TypeOK
    PROVE  /\ Offsets \subseteq Nat
           /\ Coordinates \subseteq Partitions \X Nat
           /\ Present \subseteq Partitions \X Nat
           /\ Present \subseteq Coordinates
<1>1. Offsets \subseteq Nat
  BY DEF TypeOK, Offsets
<1>2. Coordinates \subseteq Partitions \X Nat
  BY <1>1 DEF Coordinates
<1> QED
  BY <1>2, <1>1 DEF Present

\* A coordinate names a record of its partition's log.
LEMMA RecordTyped ==
    ASSUME TypeOK, NEW m \in Coordinates
    PROVE  /\ m = <<m[1], m[2]>>
           /\ m[1] \in Partitions
           /\ m[2] \in 1..Len(topic[m[1]])
           /\ RecordAt(m) \in Record
<1>1. m[1] \in Partitions /\ m[2] \in Nat /\ m = <<m[1], m[2]>>
  BY OffsetFacts
<1>2. m[2] \in 1..Len(topic[m[1]])
  BY <1>1 DEF Coordinates, TypeOK
<1> QED
  BY <1>1, <1>2 DEF RecordAt, TypeOK

\* The source table at any LSN reached so far is a table.
LEMMA SourceTyped ==
    ASSUME TypeOK, NEW n \in 0..Len(wal)
    PROVE  SourceAt(n) \in [Customers -> Nat]
<1>1. CASE n = 0
  BY <1>1 DEF SourceAt
<1>2. CASE n # 0
  <2>1. wal[n] \in Change
    BY <1>2 DEF TypeOK
  <2> QED
    BY <1>2, <2>1 DEF SourceAt, Change
<1> QED
  BY <1>1, <1>2

\* The value the source table shows is well typed in every state.
LEMMA SourceAlwaysTyped ==
    ASSUME TypeOK
    PROVE  Source \in [Customers -> Nat] /\ Len(wal) \in Nat
<1>1. Len(wal) \in Nat
  BY DEF TypeOK
<1>2. Len(wal) \in 0..Len(wal)
  BY <1>1
<1> QED
  BY <1>1, <1>2, SourceTyped DEF Source

\* Upserting an event into a row gives a row.
LEMMA AppliedTyped ==
    ASSUME NEW r \in Record, NEW o \in Nat, NEW row \in Row
    PROVE  Applied(r, o, row) \in Row
  BY DEF Record, Row, Applied

\* What a transaction sees of a customer is a row.
LEMMA RowSeenTyped ==
    ASSUME TypeOK, NEW w \in Workers, NEW k \in Customers
    PROVE  RowSeen(w, k) \in Row
  BY DEF TypeOK, RowSeen

\* What StreamChange takes from the WAL and appends to the topic.
LEMMA StreamTyped ==
    ASSUME TypeOK, StreamChange
    PROVE  /\ connector.sent + 1 \in 1..Len(wal)
           /\ wal[connector.sent + 1] \in Change
           /\ PartitionOf[wal[connector.sent + 1].key] \in Partitions
           /\ RecordsOf(connector.sent + 1) \in Seq(Record)
<1> DEFINE n == connector.sent + 1
           c == wal[n]
           event == [key |-> c.key, op |-> c.op, lsn |-> n, image |-> c.rows[c.key]]
           tombstone == [key |-> c.key, op |-> "t", lsn |-> 0, image |-> 0]
<1>1. wal \in Seq(Change) /\ connector.sent \in Nat
  BY DEF TypeOK, Connector
<1>2. n \in 1..Len(wal)
  BY <1>1 DEF StreamChange
<1>3. c \in Change
  BY <1>1, <1>2
<1>4. c.key \in Customers /\ PartitionOf[c.key] \in Partitions
  BY <1>3, PartitionOfType DEF Change
<1>5. event \in Record
  <2>1. c.op \in {"r", "c", "u", "d", "t"} /\ c.rows[c.key] \in Nat
    BY <1>3, <1>4 DEF Change
  <2> QED
    BY <1>1, <1>4, <2>1 DEF Record
<1>6. tombstone \in Record
  BY <1>4 DEF Record
<1>7. <<event>> \in Seq(Record) /\ <<event, tombstone>> \in Seq(Record)
  BY <1>5, <1>6
<1>8. RecordsOf(n) = IF c.op = "d" THEN <<event, tombstone>> ELSE <<event>>
  BY DEF RecordsOf
<1>9. RecordsOf(n) \in Seq(Record)
  BY <1>7, <1>8
<1> QED
  BY <1>2, <1>3, <1>4, <1>9

\* The variables of the program have their types in every reachable state
\* (the state of bootstrap.py's connector, the topic and
\* materialize_customers.py).
LEMMA TypeInit == Init => TypeOK
  BY DEF Init, TypeOK, Connector, Row, NoRow

\* A worker that dies leaves well-typed state behind.
LEMMA DieTyped ==
    ASSUME TypeOK, NEW w \in Workers, Die(w), faults' \in Nat
    PROVE  TypeOK'
  BY DEF TypeOK, Die, Released, NoRow, Row, feedVars, storeVars

\* TypeOK alone is not inductive: what a message does to Silver is typed
\* because a polled message is in its partition's log.
LEMMA TypeStep == TypeOK /\ OnlyTopicRecords /\ [Next]_vars => TypeOK'
<1> SUFFICES ASSUME TypeOK, OnlyTopicRecords, [Next]_vars PROVE TypeOK'
  OBVIOUS
<1>1. ASSUME NEW k \in Customers, NEW op \in {"c", "u", "d"}, SourceChange(k, op)
      PROVE  TypeOK'
  <2>1. Source \in [Customers -> Nat]
    BY SourceAlwaysTyped
  <2>2. wal' \in Seq(Change)
    BY <1>1, <2>1 DEF SourceChange, TypeOK, Change
  <2> QED
    BY <1>1, <2>2 DEF SourceChange, TypeOK, groupVars, workerVars, storeVars
<1>2. ASSUME StartSnapshot PROVE TypeOK'
  <2>1. Source \in [Customers -> Nat] /\ Len(wal) \in Nat
    BY SourceAlwaysTyped
  <2>2. connector' \in Connector
    BY <1>2, <2>1 DEF StartSnapshot, Record, Connector
  <2> QED
    BY <1>2, <2>2 DEF StartSnapshot, TypeOK, groupVars, workerVars, storeVars
<1>3. ASSUME NEW r \in connector.pending, SendSnapshotRow(r) PROVE TypeOK'
  <2>1. r \in Record /\ PartitionOf[r.key] \in Partitions
    BY PartitionOfType DEF TypeOK, Connector, Record
  <2>2. topic' \in [Partitions -> Seq(Record)]
    BY <1>3, <2>1 DEF SendSnapshotRow, TypeOK
  <2>3. connector' \in Connector
    BY <1>3 DEF SendSnapshotRow, TypeOK, Connector
  <2> QED
    BY <1>3, <2>2, <2>3 DEF SendSnapshotRow, TypeOK, groupVars, workerVars, storeVars
<1>4. ASSUME StreamChange PROVE TypeOK'
  <2>1. topic' \in [Partitions -> Seq(Record)]
    <3> DEFINE n == connector.sent + 1
               p == PartitionOf[wal[n].key]
    <3>1. p \in Partitions /\ RecordsOf(n) \in Seq(Record)
      BY <1>4, StreamTyped
    <3>2. topic' = [topic EXCEPT ![p] = topic[p] \o RecordsOf(n)]
      BY <1>4 DEF StreamChange
    <3>3. topic \in [Partitions -> Seq(Record)]
      BY DEF TypeOK
    <3> HIDE DEF n, p
    <3>4. topic[p] \o RecordsOf(n) \in Seq(Record)
      BY <3>1, <3>3
    <3> QED
      BY <3>1, <3>2, <3>3, <3>4
  <2>2. connector \in Connector
    BY DEF TypeOK
  <2>3. connector' \in Connector
    BY <1>4, <2>2 DEF StreamChange, Connector
  <2> QED
    BY <1>4, <2>1, <2>3 DEF StreamChange, TypeOK, groupVars, workerVars, storeVars
<1>5. ASSUME StoreSourceOffset PROVE TypeOK'
  <2>1. connector \in Connector
    BY DEF TypeOK
  <2>2. connector' \in Connector
    BY <1>5, <2>1 DEF StoreSourceOffset, Connector
  <2> QED
    BY <1>5, <2>2 DEF StoreSourceOffset, TypeOK, groupVars, workerVars, storeVars
<1>6. ASSUME RestartConnector PROVE TypeOK'
  <2>1. connector \in Connector
    BY DEF TypeOK
  <2>2. connector' \in Connector
    BY <1>6, <2>1 DEF RestartConnector, Connector
  <2> QED
    BY <1>6, <2>2 DEF RestartConnector, TypeOK, groupVars, workerVars, storeVars
<1>19. ASSUME LoseSlot PROVE TypeOK'
  <2>1. connector' \in Connector
    BY <1>19 DEF LoseSlot, Connector
  <2> QED
    BY <1>19, <2>1 DEF LoseSlot, TypeOK, groupVars, workerVars, storeVars
<1>7. ASSUME NEW p \in Partitions, NEW n \in 1..Len(topic[p]), CleanLog(p, n) PROVE TypeOK'
  <2>1. cleaned' \subseteq Partitions \X Nat
    BY <1>7, OffsetFacts DEF CleanLog, TypeOK
  <2> QED
    BY <1>7, <2>1 DEF CleanLog, TypeOK, groupVars, workerVars, storeVars
<1>8. ASSUME Rebalance PROVE TypeOK'
  <2>1. owner' \in [Partitions -> Workers \cup {Nobody}]
    BY <1>8 DEF Rebalance, TypeOK
  <2> QED
    BY <1>8, <2>1 DEF Rebalance, TypeOK, feedVars, workerVars, storeVars
<1>9. ASSUME NEW w \in Workers, Start(w) PROVE TypeOK'
  BY <1>9 DEF Start, TypeOK, feedVars, storeVars
<1>10. ASSUME NEW w \in Workers, Stop(w) PROVE TypeOK'
  <2>1. Die(w) /\ faults' \in Nat
    BY <1>10 DEF Stop, TypeOK
  <2> QED
    BY <2>1, DieTyped
<1>11. ASSUME NEW w \in Workers, Evict(w) PROVE TypeOK'
  <2>1. owner' \in [Partitions -> Workers \cup {Nobody}]
    BY <1>11 DEF Evict, Released, TypeOK
  <2> QED
    BY <1>11, <2>1 DEF Evict, TypeOK, feedVars, workerVars, storeVars
<1>12. ASSUME NEW w \in Workers, Poll(w) PROVE TypeOK'
  <2>1. /\ todo' \in [Workers -> SUBSET (Partitions \X Nat)]
        /\ upto' \in [Workers -> [Partitions -> Nat]]
    <3>1. PICK end \in [Partitions -> Offsets]:
            /\ todo' = [todo EXCEPT ![w] = {m \in Present : /\ owner[m[1]] = w
                                                           /\ committed[m[1]] < m[2]
                                                           /\ m[2] <= end[m[1]]}]
            /\ upto' = [upto EXCEPT ![w] = end]
      BY <1>12 DEF Poll
    <3> DEFINE batch == {m \in Present : /\ owner[m[1]] = w
                                         /\ committed[m[1]] < m[2]
                                         /\ m[2] <= end[m[1]]}
    <3>2. end \in [Partitions -> Nat] /\ batch \in SUBSET (Partitions \X Nat)
      BY <3>1, OffsetFacts
    <3> QED
      BY <3>1, <3>2 DEF TypeOK
  <2> QED
    BY <1>12, <2>1 DEF Poll, TypeOK, feedVars, groupVars, storeVars
<1>13. ASSUME NEW w \in Workers, NEW m \in todo[w], ApplyMessage(w, m) PROVE TypeOK'
  <2>1. m \in Coordinates /\ m \in Partitions \X Nat /\ RecordAt(m) \in Record
    BY RecordTyped, OffsetFacts DEF OnlyTopicRecords
  <2>2. /\ RecordAt(m).key \in Customers
        /\ Applied(RecordAt(m), m[2], RowSeen(w, RecordAt(m).key)) \in Row
    <3>1. RecordAt(m).key \in Customers
      BY <2>1 DEF Record
    <3>2. RowSeen(w, RecordAt(m).key) \in Row
      BY <3>1, RowSeenTyped
    <3> QED
      BY <2>1, <3>1, <3>2, AppliedTyped
  <2>3. txSilver' \in [Workers -> [Customers -> Row]]
    BY <1>13, <2>2 DEF ApplyMessage, TypeOK
  <2>4. txBronze' \in [Workers -> SUBSET (Partitions \X Nat)]
    BY <1>13, <2>1 DEF ApplyMessage, TypeOK
  <2>5. todo' \in [Workers -> SUBSET (Partitions \X Nat)]
    BY <1>13 DEF ApplyMessage, TypeOK
  <2> QED
    BY <1>13, <2>3, <2>4, <2>5 DEF ApplyMessage, TypeOK, feedVars, groupVars, storeVars
<1>14. ASSUME NEW w \in Workers, CommitBatch(w) PROVE TypeOK'
  <2>1. silver' \in [Customers -> Row]
    BY <1>14, RowSeenTyped DEF CommitBatch
  <2>2. txSilver' \in [Workers -> [Customers -> Row]]
    BY <1>14 DEF CommitBatch, TypeOK, NoRow, Row
  <2> QED
    BY <1>14, <2>1, <2>2 DEF CommitBatch, TypeOK, feedVars, groupVars
<1>15. ASSUME NEW w \in Workers, AckBatch(w) PROVE TypeOK'
  <2>1. committed' \in [Partitions -> Nat]
    BY <1>15 DEF AckBatch, TypeOK
  <2>2. /\ upto' \in [Workers -> [Partitions -> Nat]]
        /\ phase' \in [Workers -> {"down", "polling", "applying", "persisted"}]
    BY <1>15 DEF AckBatch, TypeOK
  <2> QED
    BY <1>15, <2>1, <2>2 DEF AckBatch, TypeOK, feedVars, storeVars
<1>16. ASSUME NEW w \in Workers, AckRefused(w) PROVE TypeOK'
  BY <1>16, DieTyped DEF AckRefused, TypeOK
<1>17. ASSUME NEW w \in Workers, DeadlockVictim(w) PROVE TypeOK'
  BY <1>17, DieTyped DEF DeadlockVictim, TypeOK
<1>18. CASE UNCHANGED vars
  BY <1>18 DEF vars, feedVars, groupVars, workerVars, storeVars, TypeOK
<1> QED
  BY <1>1, <1>2, <1>3, <1>4, <1>5, <1>6, <1>7, <1>8, <1>9, <1>10, <1>11, <1>12,
     <1>13, <1>14, <1>15, <1>16, <1>17, <1>18, <1>19 DEF Next, Feed, Work


-----------------------------------------------------------------------------
(* The log only grows *)

\* A record keeps its coordinate: the topic is only appended to.
LEMMA LogGrows ==
    ASSUME TypeOK, TypeOK', [Next]_vars, NEW m \in Coordinates
    PROVE  m \in Coordinates' /\ RecordAt(m)' = RecordAt(m)
<1>1. /\ m = <<m[1], m[2]>> /\ m[1] \in Partitions /\ m[2] \in Nat
      /\ m[2] \in 1..Len(topic[m[1]])
  BY RecordTyped
<1>2. /\ Len(topic[m[1]]) <= Len(topic'[m[1]])
      /\ topic'[m[1]][m[2]] = topic[m[1]][m[2]]
  <2>1. CASE topic' = topic
    BY <1>1, <2>1 DEF TypeOK
  <2>2. ASSUME NEW q \in Partitions, NEW tail \in Seq(Record),
               topic' = [topic EXCEPT ![q] = @ \o tail]
        PROVE  /\ Len(topic[m[1]]) <= Len(topic'[m[1]])
               /\ topic'[m[1]][m[2]] = topic[m[1]][m[2]]
    BY <1>1, <2>2 DEF TypeOK
  <2>3. ASSUME NEW r \in connector.pending, SendSnapshotRow(r)
        PROVE  /\ Len(topic[m[1]]) <= Len(topic'[m[1]])
               /\ topic'[m[1]][m[2]] = topic[m[1]][m[2]]
    <3>1. r \in Record /\ PartitionOf[r.key] \in Partitions
      BY PartitionOfType DEF TypeOK, Connector, Record
    <3> QED
      BY <1>1, <2>3, <3>1 DEF SendSnapshotRow, TypeOK
  <2>4. CASE StreamChange
    <3> DEFINE n == connector.sent + 1
    <3>1. PartitionOf[wal[n].key] \in Partitions /\ RecordsOf(n) \in Seq(Record)
      BY <2>4, StreamTyped
    <3>2. topic' = [topic EXCEPT ![PartitionOf[wal[n].key]] = @ \o RecordsOf(n)]
      BY <2>4 DEF StreamChange
    <3> QED
      BY <2>2, <3>1, <3>2
  <2>5. \/ topic' = topic
        \/ \E r \in connector.pending: SendSnapshotRow(r)
        \/ StreamChange
    BY DEF Next, Feed, Work, vars, feedVars, SourceChange, StartSnapshot,
           StoreSourceOffset, RestartConnector, LoseSlot, CleanLog, Rebalance, Start, Stop, Evict,
           Die, Poll, ApplyMessage, CommitBatch, AckBatch, AckRefused, DeadlockVictim
  <2> QED
    BY <2>1, <2>3, <2>4, <2>5
<1>3. m[2] \in Offsets'
  BY <1>1, <1>2 DEF Offsets, TypeOK
<1> QED
  BY <1>1, <1>2, <1>3 DEF Coordinates, RecordAt, TypeOK

-----------------------------------------------------------------------------
(* FoldOf with the log as a parameter, to compare it before and after a step *)

Data(log, S, k) == {m \in S : log[m[1]][m[2]].key = k /\ log[m[1]][m[2]].op # "t"}

Says(row, r, o) ==
    /\ row.lsn = r.lsn
    /\ row.offset = o
    /\ row.live <=> r.op # "d"
    /\ row.live => row.image = r.image

Fold(log, row, S, k) ==
    /\ row.lsn = 0 => Data(log, S, k) = {}
    /\ row.lsn > 0 => \E m \in Data(log, S, k): Says(row, log[m[1]][m[2]], m[2])
    /\ \A m \in Data(log, S, k): ~Newer(log[m[1]][m[2]].lsn, m[2], row)

\* Only k's data events decide a fold.
LEMMA FoldData ==
    ASSUME NEW log1, NEW log2, NEW S, NEW T, NEW k, NEW row,
           Fold(log1, row, S, k),
           Data(log1, S, k) = Data(log2, T, k),
           \A m \in Data(log1, S, k): log1[m[1]][m[2]] = log2[m[1]][m[2]]
    PROVE  Fold(log2, row, T, k)
<1> DEFINE D == Data(log1, S, k)
<1>1. D = Data(log2, T, k)
  OBVIOUS
<1>2. \A m \in D: log1[m[1]][m[2]] = log2[m[1]][m[2]]
  OBVIOUS
<1>3. /\ row.lsn = 0 => D = {}
      /\ row.lsn > 0 => \E m \in D: Says(row, log1[m[1]][m[2]], m[2])
      /\ \A m \in D: ~Newer(log1[m[1]][m[2]].lsn, m[2], row)
  BY DEF Fold
<1> HIDE DEF D
<1>4. /\ row.lsn = 0 => D = {}
      /\ row.lsn > 0 => \E m \in D: Says(row, log2[m[1]][m[2]], m[2])
      /\ \A m \in D: ~Newer(log2[m[1]][m[2]].lsn, m[2], row)
  BY <1>2, <1>3
<1> QED
  BY <1>1, <1>4 DEF Fold

\* apply_silver of one more event takes the fold of a set of events to the
\* fold of the set with that event, in whatever order the events came.
LEMMA AppliedFolds ==
    ASSUME NEW log, NEW S, NEW k, NEW row \in Row, NEW m,
           \A x \in S \cup {m}: log[x[1]][x[2]] \in Record /\ x[2] \in Nat,
           log[m[1]][m[2]].key = k,
           log[m[1]][m[2]].op # "t",
           log[m[1]][m[2]].lsn > 0,
           Fold(log, row, S, k)
    PROVE  /\ Fold(log, Applied(log[m[1]][m[2]], m[2], row), S \cup {m}, k)
           /\ Applied(log[m[1]][m[2]], m[2], row).lsn > 0
<1> DEFINE r == log[m[1]][m[2]]
           D == Data(log, S, k)
           new == Applied(r, m[2], row)
<1>1. Data(log, S \cup {m}, k) = D \cup {m}
  BY DEF Data
<1>2. r.lsn \in Nat /\ r.lsn > 0 /\ m[2] \in Nat /\ row.lsn \in Nat /\ row.offset \in Nat
  BY DEF Record, Row
<1>3. \A x \in D: log[x[1]][x[2]].lsn \in Nat /\ x[2] \in Nat
  BY DEF Data, Record
<1>4. \A x \in D: ~Newer(log[x[1]][x[2]].lsn, x[2], row)
  BY DEF Fold
<1>5. CASE ~Newer(r.lsn, m[2], row)
  <2>1. new = row
    BY <1>5 DEF Applied
  <2>2. row.lsn > 0
    BY <1>2, <1>5 DEF Newer
  <2>3. \E x \in D: Says(row, log[x[1]][x[2]], x[2])
    BY <2>2 DEF Fold
  <2>4. \A x \in D \cup {m}: ~Newer(log[x[1]][x[2]].lsn, x[2], row)
    BY <1>4, <1>5
  <2> QED
    BY <1>1, <1>2, <2>1, <2>2, <2>3, <2>4 DEF Fold
<1>6. CASE Newer(r.lsn, m[2], row)
  <2>1. new = [live |-> r.op # "d", lsn |-> r.lsn, offset |-> m[2],
               image |-> IF r.op = "d" THEN row.image ELSE r.image]
    BY <1>6 DEF Applied
  <2>2. Says(new, r, m[2])
    <3>1. /\ new.lsn = r.lsn
          /\ new.offset = m[2]
          /\ new.live = (r.op # "d")
          /\ new.image = IF r.op = "d" THEN row.image ELSE r.image
      BY <2>1
    <3> HIDE DEF new, r
    <3> QED
      BY <3>1, Zenon DEF Says
  <2>3. ASSUME NEW x \in D PROVE ~Newer(log[x[1]][x[2]].lsn, x[2], new)
    BY <1>2, <1>3, <1>4, <1>6, <2>1 DEF Newer
  <2>4. ~Newer(r.lsn, m[2], new)
    BY <1>2, <2>1 DEF Newer
  <2>5. new.lsn > 0
    BY <1>2, <2>1
  <2>6. new.lsn # 0
    BY <1>2, <2>1
  <2>7. \A x \in D \cup {m}: ~Newer(log[x[1]][x[2]].lsn, x[2], new)
    BY <2>3, <2>4
  <2>8. \E x \in D \cup {m}: Says(new, log[x[1]][x[2]], x[2])
    BY <2>2
  <2>9. Fold(log, new, S \cup {m}, k)
    <3> HIDE DEF new
    <3> QED
      BY <1>1, <2>5, <2>6, <2>7, <2>8 DEF Fold
  <2> QED
    BY <2>5, <2>9
<1> QED
  BY <1>5, <1>6

-----------------------------------------------------------------------------
(* Bronze and polled batches hold records of the topic *)

\* Bronze and polled batches stay within the topic: Poll reads records, and
\* inserts and commits only move what was polled.
LEMMA OnlyTopicStep ==
    ASSUME TypeOK, TypeOK', OnlyTopicRecords, [Next]_vars
    PROVE  /\ OnlyTopicRecords'
           /\ bronze' \subseteq Coordinates
           /\ \A w \in Workers: txBronze'[w] \subseteq Coordinates
<1>1. /\ bronze \subseteq Coordinates
      /\ \A w \in Workers: txBronze[w] \subseteq Coordinates /\ todo[w] \subseteq Coordinates
  BY DEF OnlyTopicRecords
<1>2. /\ bronze' \subseteq Coordinates
      /\ \A v \in Workers: txBronze'[v] \subseteq Coordinates
      /\ \A v \in Workers: todo'[v] \subseteq Coordinates
  <2>1. CASE UNCHANGED <<bronze, txBronze, todo>>
    BY <1>1, <2>1
  <2>2. ASSUME NEW w \in Workers, Die(w)
        PROVE  <1>2
    <3>1. /\ bronze' = bronze
          /\ txBronze' = [txBronze EXCEPT ![w] = {}]
          /\ todo' = [todo EXCEPT ![w] = {}]
      BY <2>2 DEF Die, storeVars
    <3> QED
      BY <1>1, <3>1 DEF TypeOK
  <2>3. ASSUME NEW w \in Workers, Poll(w)
        PROVE  <1>2
    <3>1. UNCHANGED <<bronze, txBronze>>
      BY <2>3 DEF Poll, storeVars
    <3>2. PICK batch \in SUBSET Present: todo' = [todo EXCEPT ![w] = batch]
      BY <2>3 DEF Poll
    <3>3. batch \subseteq Coordinates
      BY <3>2, OffsetFacts
    <3>4. ASSUME NEW v \in Workers PROVE todo'[v] = todo[v] \/ todo'[v] = batch
      BY <3>2 DEF TypeOK
    <3> QED
      BY <1>1, <3>1, <3>3, <3>4
  <2>4. ASSUME NEW w \in Workers, NEW m \in todo[w], ApplyMessage(w, m)
        PROVE  <1>2
    <3>1. bronze' = bronze /\ todo' = [todo EXCEPT ![w] = @ \ {m}]
      BY <2>4 DEF ApplyMessage, storeVars
    <3>2. \/ txBronze' = txBronze
          \/ txBronze' = [txBronze EXCEPT ![w] = @ \cup {m}]
      BY <2>4 DEF ApplyMessage
    <3>3. ASSUME NEW v \in Workers
          PROVE  todo'[v] \subseteq todo[v] /\ txBronze'[v] \subseteq txBronze[v] \cup {m}
      BY <3>1, <3>2 DEF TypeOK
    <3>4. m \in Coordinates
      BY <1>1
    <3> QED
      BY <1>1, <3>1, <3>3, <3>4
  <2>5. ASSUME NEW w \in Workers, CommitBatch(w)
        PROVE  <1>2
    <3>1. /\ bronze' = bronze \cup txBronze[w]
          /\ txBronze' = [txBronze EXCEPT ![w] = {}]
          /\ todo' = todo
      BY <2>5 DEF CommitBatch
    <3> QED
      BY <1>1, <3>1 DEF TypeOK
  <2>6. \/ UNCHANGED <<bronze, txBronze, todo>>
        \/ \E w \in Workers:
             \/ Die(w) \/ Poll(w) \/ CommitBatch(w)
             \/ \E m \in todo[w]: ApplyMessage(w, m)
    BY DEF Next, Feed, Work, vars, workerVars, storeVars, SourceChange, StartSnapshot,
           SendSnapshotRow, StreamChange, StoreSourceOffset, RestartConnector, LoseSlot, CleanLog,
           Rebalance, Start, Stop, Evict, AckBatch, AckRefused, DeadlockVictim
  <2> QED
    BY <2>1, <2>2, <2>3, <2>4, <2>5, <2>6
<1>3. Coordinates \subseteq Coordinates'
  BY LogGrows
<1> QED
  BY <1>2, <1>3 DEF OnlyTopicRecords

-----------------------------------------------------------------------------
(* Every record but a tombstone carries a source LSN *)

\* A coordinate that a step adds names a record the step appended.
LEMMA AppendedRecords ==
    ASSUME TypeOK, NEW q \in Partitions, NEW tail \in Seq(Record),
           topic' = [topic EXCEPT ![q] = @ \o tail],
           NEW m \in Coordinates', m \notin Coordinates
    PROVE  \E i \in 1..Len(tail): RecordAt(m)' = tail[i]
<1>1. topic' \in [Partitions -> Seq(Record)]
  BY DEF TypeOK
<1>2. m[1] \in Partitions /\ m[2] \in Nat /\ m = <<m[1], m[2]>>
  BY <1>1 DEF Coordinates, Offsets
<1>3. 1 <= m[2] /\ m[2] <= Len(topic'[m[1]])
  BY DEF Coordinates
<1>4. m[2] > Len(topic[m[1]])
  <2>1. SUFFICES ASSUME m[2] <= Len(topic[m[1]]) PROVE FALSE
    BY <1>2 DEF TypeOK
  <2>2. m[2] \in Offsets
    BY <1>2, <2>1 DEF Offsets, TypeOK
  <2> QED
    BY <1>2, <1>3, <2>1, <2>2 DEF Coordinates
<1>5. m[1] = q
  BY <1>2, <1>3, <1>4 DEF TypeOK
<1>6. topic'[q] = topic[q] \o tail /\ topic[q] \in Seq(Record)
  BY DEF TypeOK
<1>7. /\ m[2] - Len(topic[q]) \in 1..Len(tail)
      /\ topic'[q][m[2]] = tail[m[2] - Len(topic[q])]
  BY <1>2, <1>3, <1>4, <1>5, <1>6
<1> QED
  BY <1>5, <1>7 DEF RecordAt

\* Only a tombstone comes without an LSN, whoever appends to the topic.
LEMMA DataHasLsnStep ==
    ASSUME TypeOK, TypeOK', DataHasLsn, [Next]_vars
    PROVE  DataHasLsn'
<1>1. ASSUME NEW m \in Coordinates, RecordAt(m)'.op # "t"
      PROVE  RecordAt(m)'.lsn > 0
  <2>1. RecordAt(m)' = RecordAt(m)
    BY LogGrows
  <2> QED
    BY <1>1, <2>1 DEF DataHasLsn
<1>2. ASSUME topic' = topic PROVE Coordinates' = Coordinates
  BY <1>2 DEF Coordinates, Offsets
<1>3. CASE UNCHANGED <<topic, connector.pending>>
  BY <1>1, <1>2, <1>3 DEF DataHasLsn
<1>4. CASE StartSnapshot
  <2>1. topic' = topic
    BY <1>4 DEF StartSnapshot
  <2>2. Source \in [Customers -> Nat] /\ Len(wal) \in Nat
    BY SourceAlwaysTyped
  <2>3. ASSUME NEW k \in Customers, Source[k] # 0 PROVE Len(wal) > 0
    BY <2>2, <2>3 DEF Source, SourceAt
  <2>4. connector'.pending =
          {[key |-> k, op |-> "r", lsn |-> Len(wal), image |-> Source[k]] :
             k \in {c \in Customers : Source[c] # 0}}
    BY <1>4 DEF StartSnapshot
  <2>5. \A r \in connector'.pending: r.lsn > 0
    BY <2>3, <2>4
  <2> QED
    BY <1>1, <1>2, <2>1, <2>5 DEF DataHasLsn
<1>5. ASSUME NEW r \in connector.pending, SendSnapshotRow(r) PROVE DataHasLsn'
  <2>1. r \in Record /\ PartitionOf[r.key] \in Partitions
    BY PartitionOfType DEF TypeOK, Connector, Record
  <2> DEFINE q == PartitionOf[r.key]
  <2>2. connector'.pending \subseteq connector.pending
    <3>1. connector' = [connector EXCEPT !.pending = @ \ {r}] /\ connector \in Connector
      BY <1>5 DEF SendSnapshotRow, TypeOK
    <3> QED
      BY <3>1 DEF Connector
  <2>3. topic' = [topic EXCEPT ![q] = @ \o <<r>>]
    <3>1. topic' = [topic EXCEPT ![q] = Append(topic[q], r)]
      BY <1>5 DEF SendSnapshotRow
    <3>2. Append(topic[q], r) = topic[q] \o <<r>>
      <4>1. topic[q] \in Seq(Record)
        BY <2>1 DEF TypeOK
      <4> QED
        BY <2>1, <4>1, AppendIsConcat
    <3> QED
      BY <3>1, <3>2
  <2>4. <<r>> \in Seq(Record) /\ Len(<<r>>) = 1 /\ <<r>>[1] = r
    BY <2>1
  <2> HIDE DEF q
  <2>5. ASSUME NEW m \in Coordinates', m \notin Coordinates PROVE RecordAt(m)' = r
    <3>1. q \in Partitions
      BY <2>1 DEF q
    <3>2. \E i \in 1..Len(<<r>>): RecordAt(m)' = <<r>>[i]
      BY <2>3, <2>4, <2>5, <3>1, AppendedRecords
    <3> QED
      BY <2>4, <3>2
  <2> QED
    BY <1>1, <2>2, <2>5 DEF DataHasLsn
<1>6. CASE StreamChange
  <2> DEFINE n == connector.sent + 1
  <2>1. /\ PartitionOf[wal[n].key] \in Partitions
        /\ RecordsOf(n) \in Seq(Record)
        /\ n \in Nat /\ n > 0
    BY StreamTyped, <1>6
  <2>2. /\ topic' = [topic EXCEPT ![PartitionOf[wal[n].key]] = @ \o RecordsOf(n)]
        /\ connector'.pending = connector.pending
    BY <1>6 DEF StreamChange, TypeOK, Connector
  <2>3. ASSUME NEW i \in 1..Len(RecordsOf(n)), RecordsOf(n)[i].op # "t"
        PROVE  RecordsOf(n)[i].lsn > 0
    BY <2>1, <2>3 DEF RecordsOf
  <2> HIDE DEF n
  <2>4. \A m \in Coordinates':
          m \notin Coordinates /\ RecordAt(m)'.op # "t" => RecordAt(m)'.lsn > 0
    BY <2>1, <2>2, <2>3, AppendedRecords
  <2> QED
    BY <1>1, <2>2, <2>4 DEF DataHasLsn
<1>7. \/ UNCHANGED <<topic, connector.pending>>
      \/ StartSnapshot
      \/ \E r \in connector.pending: SendSnapshotRow(r)
      \/ StreamChange
      \/ LoseSlot
  <2>1. CASE StoreSourceOffset \/ RestartConnector
    BY <2>1 DEF StoreSourceOffset, RestartConnector, TypeOK, Connector
  <2> QED
    BY <2>1, ZenonT(60) DEF Next, Feed, Work, vars, feedVars, SourceChange, CleanLog, Rebalance, Start,
           Stop, Evict, Die, Poll, ApplyMessage, CommitBatch, AckBatch, AckRefused,
           DeadlockVictim
<1>8. CASE LoseSlot
  <2>1. topic' = topic /\ connector'.pending = {}
    BY <1>8 DEF LoseSlot
  <2> QED
    BY <2>1 DEF DataHasLsn, Coordinates, Offsets, RecordAt
<1> QED
  BY <1>3, <1>4, <1>5, <1>6, <1>7, <1>8

-----------------------------------------------------------------------------
(* Silver is the fold of Bronze *)

Seen(ts, s, w, k) == IF ts[w][k].lsn > 0 THEN ts[w][k] ELSE s[k]

\* The parts of FoldInv about rows, with the log and the store as parameters.
RowInv(log, b, s, tb, ts) ==
    /\ \A w, other \in Workers, k \in Customers:
         ts[w][k].lsn > 0 /\ ts[other][k].lsn > 0 => w = other
    /\ \A w \in Workers, k \in Customers: ts[w][k].lsn = 0 => Data(log, tb[w], k) = {}
    /\ \A w \in Workers, k \in Customers: Fold(log, Seen(ts, s, w, k), b \cup tb[w], k)
    /\ \A k \in Customers: Fold(log, s[k], b, k)

\* RowInv is the part of FoldInv about rows: of the present state ...
LEMMA RowInvNow ==
    RowInv(topic, bronze, silver, txBronze, txSilver)
      <=> RowLocks /\ BronzeWithSilver /\ OpenFolds /\ SilverFoldsBronze
  BY DEF RowInv, RowLocks, BronzeWithSilver, OpenFolds, SilverFoldsBronze, RowSeen, Seen,
         FoldOf, Fold, DataEvents, Data, Reflects, Says, RecordAt

\* ... and of the next one.
LEMMA RowInvNext ==
    RowInv(topic', bronze', silver', txBronze', txSilver')
      <=> RowLocks' /\ BronzeWithSilver' /\ OpenFolds' /\ SilverFoldsBronze'
  BY DEF RowInv, RowLocks, BronzeWithSilver, OpenFolds, SilverFoldsBronze, RowSeen, Seen,
         FoldOf, Fold, DataEvents, Data, Reflects, Says, RecordAt

\* Appending to the log changes no fold of what it already holds.
LEMMA RowInvGrows ==
    ASSUME TypeOK, TypeOK', [Next]_vars,
           bronze' \subseteq Coordinates,
           \A w \in Workers: txBronze'[w] \subseteq Coordinates,
           RowInv(topic, bronze', silver', txBronze', txSilver')
    PROVE  RowInv(topic', bronze', silver', txBronze', txSilver')
<1>1. ASSUME NEW m \in Coordinates PROVE topic'[m[1]][m[2]] = topic[m[1]][m[2]]
  BY LogGrows DEF RecordAt
<1>2. ASSUME NEW S \in SUBSET Coordinates, NEW k
      PROVE  Data(topic', S, k) = Data(topic, S, k)
  BY <1>1 DEF Data
<1>3. ASSUME NEW S \in SUBSET Coordinates, NEW k, NEW row, Fold(topic, row, S, k)
      PROVE  Fold(topic', row, S, k)
  <2>1. Data(topic, S, k) = Data(topic', S, k)
    BY <1>2
  <2>2. \A m \in Data(topic, S, k): topic[m[1]][m[2]] = topic'[m[1]][m[2]]
    BY <1>1 DEF Data
  <2> QED
    BY <1>3, <2>1, <2>2, FoldData
<1>4. \A w \in Workers: bronze' \cup txBronze'[w] \in SUBSET Coordinates
  OBVIOUS
<1> QED
  BY <1>2, <1>3, <1>4 DEF RowInv

\* One message: the others hold no lock on its row, and its transaction sees
\* the fold of one more event.
LEMMA RowInvApply ==
    ASSUME TypeOK, FoldInv, NEW w \in Workers, NEW m \in todo[w], ApplyMessage(w, m)
    PROVE  RowInv(topic, bronze', silver', txBronze', txSilver')
<1> DEFINE r == RecordAt(m)
           key == r.key
           new == Applied(r, m[2], RowSeen(w, key))
<1>1. RowInv(topic, bronze, silver, txBronze, txSilver)
  BY RowInvNow DEF FoldInv
<1>2. /\ m \in Coordinates
      /\ bronze \subseteq Coordinates
      /\ \A v \in Workers: txBronze[v] \subseteq Coordinates
  BY DEF FoldInv, OnlyTopicRecords
<1>3. /\ r \in Record /\ key \in Customers
      /\ r = topic[m[1]][m[2]] /\ m[2] \in Nat
  BY <1>2, RecordTyped, OffsetFacts DEF Record, RecordAt
<1>4. bronze' = bronze /\ silver' = silver
  BY DEF ApplyMessage, storeVars
<1>5. CASE m \in bronze
  <2>1. txBronze' = txBronze /\ txSilver' = txSilver
    BY <1>5 DEF ApplyMessage
  <2> QED
    BY <1>1, <1>4, <2>1
<1>6. CASE m \notin bronze /\ r.op = "t"
  <2>1. txBronze' = [txBronze EXCEPT ![w] = @ \cup {m}] /\ txSilver' = txSilver
    BY <1>6 DEF ApplyMessage
  <2>2. ASSUME NEW S, NEW k PROVE Data(topic, S \cup {m}, k) = Data(topic, S, k)
    BY <1>3, <1>6 DEF Data
  <2>3. ASSUME NEW v \in Workers, NEW k \in Customers
        PROVE  /\ Data(topic, txBronze'[v], k) = Data(topic, txBronze[v], k)
               /\ Data(topic, bronze \cup txBronze'[v], k)
                    = Data(topic, bronze \cup txBronze[v], k)
    <3>1. txBronze'[v] = txBronze[v] \/ txBronze'[v] = txBronze[v] \cup {m}
      BY <2>1 DEF TypeOK
    <3>2. bronze \cup (txBronze[v] \cup {m}) = (bronze \cup txBronze[v]) \cup {m}
      OBVIOUS
    <3> QED
      BY <2>2, <3>1, <3>2
  <2>4. ASSUME NEW v \in Workers, NEW k \in Customers
        PROVE  Fold(topic, Seen(txSilver, silver, v, k), bronze \cup txBronze'[v], k)
    BY <1>1, <2>3, FoldData DEF RowInv
  <2> QED
    BY <1>1, <1>4, <2>1, <2>3, <2>4 DEF RowInv
<1>7. CASE m \notin bronze /\ r.op # "t"
  <2>1. /\ txBronze' = [txBronze EXCEPT ![w] = @ \cup {m}]
        /\ txSilver' = [txSilver EXCEPT ![w][key] = new]
    BY <1>7 DEF ApplyMessage
  <2>2. RowSeen(w, key) = Seen(txSilver, silver, w, key) /\ RowSeen(w, key) \in Row
    BY <1>3, RowSeenTyped DEF Seen, RowSeen
  <2>3. Fold(topic, RowSeen(w, key), bronze \cup txBronze[w], key)
    BY <1>1, <1>3, <2>2 DEF RowInv
  <2>4. \A x \in (bronze \cup txBronze[w]) \cup {m}:
          topic[x[1]][x[2]] \in Record /\ x[2] \in Nat
    BY <1>2, RecordTyped, OffsetFacts DEF RecordAt
  <2>5. r.lsn > 0
    BY <1>2, <1>7 DEF FoldInv, DataHasLsn
  <2>6. Fold(topic, new, (bronze \cup txBronze[w]) \cup {m}, key) /\ new.lsn > 0
    BY <1>3, <1>7, <2>2, <2>3, <2>4, <2>5, AppliedFolds
  <2>7. \A v \in Workers: v # w => ~(txSilver[v][key].lsn > 0)
    <3>1. CASE m \in txBronze[w]
      <4>1. m \in Data(topic, txBronze[w], key)
        BY <1>3, <1>7, <3>1 DEF Data
      <4>2. txSilver[w][key].lsn # 0
        BY <1>1, <1>3, <4>1 DEF RowInv
      <4>3. txSilver[w][key].lsn \in Nat
        BY <1>3 DEF TypeOK, Row
      <4>4. txSilver[w][key].lsn > 0
        BY <4>2, <4>3
      <4> QED
        BY <1>1, <1>3, <4>4 DEF RowInv
    <3>2. CASE m \notin txBronze[w]
      BY <1>7, <3>2 DEF ApplyMessage, Blocked, BlockedBy
    <3> QED
      BY <3>1, <3>2
  <2> HIDE DEF new
  <2>8. /\ txSilver'[w][key] = new /\ txBronze'[w] = txBronze[w] \cup {m}
        /\ \A v \in Workers: v # w => txSilver'[v] = txSilver[v] /\ txBronze'[v] = txBronze[v]
        /\ \A k \in Customers: k # key => txSilver'[w][k] = txSilver[w][k]
    BY <1>3, <2>1 DEF TypeOK
  <2>9. ASSUME NEW S, NEW k, k # key PROVE Data(topic, S \cup {m}, k) = Data(topic, S, k)
    BY <1>3, <2>9 DEF Data
  <2>10. ASSUME NEW v \in Workers, NEW k \in Customers, v # w \/ k # key
         PROVE  /\ txSilver'[v][k] = txSilver[v][k]
                /\ Data(topic, txBronze'[v], k) = Data(topic, txBronze[v], k)
                /\ Data(topic, bronze \cup txBronze'[v], k)
                     = Data(topic, bronze \cup txBronze[v], k)
    <3>1. CASE v # w
      BY <2>8, <3>1
    <3>2. CASE v = w /\ k # key
      <4>1. bronze \cup txBronze'[w] = (bronze \cup txBronze[w]) \cup {m}
        BY <2>8
      <4> QED
        BY <2>8, <2>9, <3>2, <4>1
    <3> QED
      BY <2>10, <3>1, <3>2
  <2>11. ASSUME NEW v \in Workers, NEW other \in Workers, NEW k \in Customers,
                txSilver'[v][k].lsn > 0, txSilver'[other][k].lsn > 0
         PROVE  v = other
    <3>1. CASE k = key
      BY <2>7, <2>8, <2>11, <3>1
    <3>2. CASE k # key
      BY <1>1, <2>10, <2>11, <3>2 DEF RowInv
    <3> QED
      BY <3>1, <3>2
  <2>12. ASSUME NEW v \in Workers, NEW k \in Customers, txSilver'[v][k].lsn = 0
         PROVE  Data(topic, txBronze'[v], k) = {}
    <3>1. v # w \/ k # key
      BY <2>6, <2>8, <2>12
    <3>2. txSilver[v][k].lsn = 0
      BY <2>10, <2>12, <3>1
    <3>3. Data(topic, txBronze[v], k) = {}
      BY <1>1, <3>2 DEF RowInv
    <3> QED
      BY <2>10, <3>1, <3>3
  <2>13. ASSUME NEW v \in Workers, NEW k \in Customers
         PROVE  Fold(topic, Seen(txSilver', silver, v, k), bronze \cup txBronze'[v], k)
    <3>1. CASE v = w /\ k = key
      <4>1. Seen(txSilver', silver, w, key) = new
        BY <2>6, <2>8 DEF Seen
      <4>2. bronze \cup txBronze'[w] = (bronze \cup txBronze[w]) \cup {m}
        BY <2>8
      <4> QED
        BY <2>6, <3>1, <4>1, <4>2
    <3>2. CASE v # w \/ k # key
      <4>1. Seen(txSilver', silver, v, k) = Seen(txSilver, silver, v, k)
        BY <2>10, <3>2 DEF Seen
      <4>2. Fold(topic, Seen(txSilver, silver, v, k), bronze \cup txBronze[v], k)
        BY <1>1 DEF RowInv
      <4> QED
        BY <2>10, <3>2, <4>1, <4>2, FoldData
    <3> QED
      BY <3>1, <3>2
  <2>14. \A k \in Customers: Fold(topic, silver[k], bronze, k)
    BY <1>1 DEF RowInv
  <2> QED
    BY <1>4, <2>11, <2>12, <2>13, <2>14 DEF RowInv
<1> QED
  BY <1>5, <1>6, <1>7

\* A commit publishes one transaction; the others have kept out of its rows.
LEMMA RowInvCommit ==
    ASSUME TypeOK, FoldInv, NEW w \in Workers, CommitBatch(w)
    PROVE  RowInv(topic, bronze', silver', txBronze', txSilver')
<1>1. RowInv(topic, bronze, silver, txBronze, txSilver)
  BY RowInvNow DEF FoldInv
<1>2. /\ bronze' = bronze \cup txBronze[w]
      /\ \A k \in Customers: silver'[k] = Seen(txSilver, silver, w, k)
      /\ \A k \in Customers: txSilver'[w][k].lsn = 0
      /\ txBronze'[w] = {}
      /\ \A v \in Workers: v # w => txBronze'[v] = txBronze[v] /\ txSilver'[v] = txSilver[v]
  BY DEF CommitBatch, RowSeen, Seen, NoRow, TypeOK
<1>3. \A v \in Workers, k \in Customers: txSilver[v][k].lsn \in Nat
  BY DEF TypeOK, Row
<1>4. ASSUME NEW v \in Workers, NEW other \in Workers, NEW k \in Customers,
             txSilver'[v][k].lsn > 0, txSilver'[other][k].lsn > 0
      PROVE  v = other
  <2>1. v # w /\ other # w
    BY <1>2, <1>4
  <2> QED
    BY <1>1, <1>2, <1>4, <2>1 DEF RowInv
<1>5. ASSUME NEW v \in Workers, NEW k \in Customers, txSilver'[v][k].lsn = 0
      PROVE  Data(topic, txBronze'[v], k) = {}
  BY <1>1, <1>2, <1>5 DEF RowInv, Data
<1>6. ASSUME NEW k \in Customers PROVE Fold(topic, silver'[k], bronze', k)
  BY <1>1, <1>2 DEF RowInv
<1>7. ASSUME NEW v \in Workers, NEW k \in Customers
      PROVE  Fold(topic, Seen(txSilver', silver', v, k), bronze' \cup txBronze'[v], k)
  <2>1. CASE txSilver'[v][k].lsn = 0
    <3>1. Seen(txSilver', silver', v, k) = silver'[k]
      BY <2>1 DEF Seen
    <3>2. Data(topic, txBronze'[v], k) = {}
      BY <1>5, <2>1
    <3>3. Data(topic, bronze', k) = Data(topic, bronze' \cup txBronze'[v], k)
      BY <3>2 DEF Data
    <3> QED
      BY <1>6, <3>1, <3>3, FoldData
  <2>2. CASE txSilver'[v][k].lsn > 0
    <3>1. v # w /\ txSilver[v][k].lsn > 0 /\ ~(txSilver[w][k].lsn > 0)
      BY <1>1, <1>2, <2>2 DEF RowInv
    <3>2. Data(topic, txBronze[w], k) = {}
      BY <1>1, <1>3, <3>1 DEF RowInv
    <3>3. Seen(txSilver', silver', v, k) = Seen(txSilver, silver, v, k)
      BY <1>2, <3>1 DEF Seen
    <3>4. Data(topic, bronze \cup txBronze[v], k) = Data(topic, bronze' \cup txBronze'[v], k)
      BY <1>2, <3>1, <3>2 DEF Data
    <3>5. Fold(topic, Seen(txSilver, silver, v, k), bronze \cup txBronze[v], k)
      BY <1>1 DEF RowInv
    <3> QED
      BY <3>3, <3>4, <3>5, FoldData
  <2>3. txSilver'[v][k].lsn = 0 \/ txSilver'[v][k].lsn > 0
    BY <1>2, <1>3
  <2> QED
    BY <2>1, <2>2, <2>3
<1> QED
  BY <1>4, <1>5, <1>6, <1>7 DEF RowInv

\* A worker that dies takes nothing with it but its own open transaction.
LEMMA RowInvDie ==
    ASSUME TypeOK, FoldInv, NEW w \in Workers, Die(w)
    PROVE  RowInv(topic, bronze', silver', txBronze', txSilver')
<1>1. RowInv(topic, bronze, silver, txBronze, txSilver)
  BY RowInvNow DEF FoldInv
<1>2. /\ bronze' = bronze /\ silver' = silver
      /\ \A k \in Customers: txSilver'[w][k].lsn = 0
      /\ txBronze'[w] = {}
      /\ \A v \in Workers: v # w => txBronze'[v] = txBronze[v] /\ txSilver'[v] = txSilver[v]
  BY DEF Die, storeVars, NoRow, TypeOK
<1>3. ASSUME NEW v \in Workers, NEW k \in Customers
      PROVE  Fold(topic, Seen(txSilver', silver, v, k), bronze \cup txBronze'[v], k)
  <2>1. CASE v = w
    <3>1. Seen(txSilver', silver, v, k) = silver[k] /\ bronze \cup txBronze'[v] = bronze
      BY <1>2, <2>1 DEF Seen
    <3> QED
      BY <1>1, <3>1 DEF RowInv
  <2>2. CASE v # w
    BY <1>1, <1>2, <2>2 DEF RowInv, Seen
  <2> QED
    BY <2>1, <2>2
<1>4. ASSUME NEW v \in Workers, NEW k \in Customers, txSilver'[v][k].lsn = 0
      PROVE  Data(topic, txBronze'[v], k) = {}
  BY <1>1, <1>2, <1>4 DEF RowInv, Data
<1>5. ASSUME NEW v \in Workers, NEW other \in Workers, NEW k \in Customers,
             txSilver'[v][k].lsn > 0, txSilver'[other][k].lsn > 0
      PROVE  v = other
  <2>1. v # w /\ other # w
    BY <1>2, <1>5
  <2> QED
    BY <1>1, <1>2, <1>5, <2>1 DEF RowInv
<1>6. \A k \in Customers: Fold(topic, silver[k], bronze, k)
  BY <1>1 DEF RowInv
<1> QED
  BY <1>2, <1>3, <1>4, <1>5, <1>6 DEF RowInv

\* Every step keeps the fold invariant.
LEMMA FoldInvStep == TypeOK /\ TypeOK' /\ FoldInv /\ [Next]_vars => FoldInv'
<1> SUFFICES ASSUME TypeOK, TypeOK', FoldInv, [Next]_vars PROVE FoldInv'
  OBVIOUS
<1>1. /\ OnlyTopicRecords'
      /\ bronze' \subseteq Coordinates
      /\ \A w \in Workers: txBronze'[w] \subseteq Coordinates
  BY OnlyTopicStep DEF FoldInv
<1>2. DataHasLsn'
  BY DataHasLsnStep DEF FoldInv
<1>3. RowInv(topic, bronze', silver', txBronze', txSilver')
  <2>1. CASE UNCHANGED <<bronze, silver, txBronze, txSilver>>
    BY <2>1, RowInvNow DEF FoldInv
  <2>2. \/ UNCHANGED <<bronze, silver, txBronze, txSilver>>
        \/ \E w \in Workers:
             Die(w) \/ CommitBatch(w) \/ \E m \in todo[w]: ApplyMessage(w, m)
    BY DEF Next, Feed, Work, vars, workerVars, storeVars, SourceChange, StartSnapshot,
           SendSnapshotRow, StreamChange, StoreSourceOffset, RestartConnector, LoseSlot, CleanLog,
           Rebalance, Start, Stop, Evict, Poll, AckBatch, AckRefused, DeadlockVictim
  <2> QED
    BY <2>1, <2>2, RowInvApply, RowInvCommit, RowInvDie
<1>4. RowInv(topic', bronze', silver', txBronze', txSilver')
  BY <1>1, <1>3, RowInvGrows
<1> QED
  BY <1>1, <1>2, <1>4, RowInvNext DEF FoldInv

\* Empty tables are the fold of nothing.
LEMMA FoldInvInit == Init => FoldInv
<1> SUFFICES ASSUME Init PROVE FoldInv
  OBVIOUS
<1>1. OnlyTopicRecords
  BY DEF Init, OnlyTopicRecords
<1>2. DataHasLsn
  <2>1. \A p \in Partitions: Len(topic[p]) = 0
    BY DEF Init
  <2>2. Offsets \subseteq Nat
    BY <2>1 DEF Offsets
  <2>3. Coordinates = {}
    <3>1. SUFFICES ASSUME NEW m \in Coordinates PROVE FALSE
      OBVIOUS
    <3>2. m[1] \in Partitions /\ m[2] \in Nat /\ 1 <= m[2] /\ m[2] <= Len(topic[m[1]])
      BY <2>2, <3>1 DEF Coordinates
    <3> QED
      BY <2>1, <3>2
  <2> QED
    BY <2>3 DEF Init, DataHasLsn
<1>3. \A k \in Customers: FoldOf(NoRow, {}, k)
  BY DEF FoldOf, DataEvents, NoRow
<1>4. SilverFoldsBronze
  BY <1>3 DEF Init, SilverFoldsBronze
<1>5. OpenFolds
  BY <1>3 DEF Init, OpenFolds, RowSeen
<1>6. RowLocks /\ BronzeWithSilver
  BY DEF Init, RowLocks, BronzeWithSilver, NoRow, DataEvents
<1> QED
  BY <1>1, <1>2, <1>4, <1>5, <1>6 DEF FoldInv

-----------------------------------------------------------------------------
(* Theorems *)

\* The two together hold in every reachable state.
LEMMA InductiveInvariant == Spec => [](TypeOK /\ FoldInv)
<1>1. Init => TypeOK /\ FoldInv
  BY TypeInit, FoldInvInit
<1>2. TypeOK /\ FoldInv /\ [Next]_vars => (TypeOK /\ FoldInv)'
  <2>1. TypeOK /\ FoldInv /\ [Next]_vars => TypeOK'
    BY TypeStep DEF FoldInv
  <2> QED
    BY <2>1, FoldInvStep
<1> QED
  BY <1>1, <1>2, PTL DEF Spec

\* The variables of the program keep their types: materialize_customers.py
\* handles only records of the topic, whose fields have the types it assumes.
THEOREM TypeCorrect == Spec => []TypeOK
  BY InductiveInvariant, PTL

\* The strengthening the next two theorems rest on: the row each open transaction
\* of process_batch would read is the fold of what it sees in Bronze.
THEOREM FoldAlways == Spec => []FoldInv
  BY InductiveInvariant, PTL

\* Every Silver row is the newest Bronze event of its customer, for every
\* interleaving of redelivery, crashes, evictions and concurrent workers
\* (process_batch runs insert_bronze and apply_silver in one transaction).
THEOREM SilverIsFold == Spec => []SilverFoldsBronze
<1>1. TypeOK /\ FoldInv => SilverFoldsBronze
  BY DEF FoldInv
<1> QED
  BY <1>1, InductiveInvariant, PTL

\* A commit writes rows at least as new as those it replaces.
LEMMA SilverForwardStep ==
    ASSUME TypeOK, TypeOK', FoldInv, [Next]_vars
    PROVE  \A k \in Customers: ~Newer(silver[k].lsn, silver[k].offset, silver'[k])
<1>1. ASSUME NEW k \in Customers, silver'[k] = silver[k]
      PROVE  ~Newer(silver[k].lsn, silver[k].offset, silver'[k])
  BY <1>1 DEF Newer, TypeOK, Row
<1>2. ASSUME NEW w \in Workers, CommitBatch(w), NEW k \in Customers, silver'[k] # silver[k]
      PROVE  ~Newer(silver[k].lsn, silver[k].offset, silver'[k])
  <2>1. silver'[k] = RowSeen(w, k)
    BY <1>2 DEF CommitBatch
  <2>2. /\ FoldOf(silver[k], bronze, k)
        /\ FoldOf(silver'[k], bronze \cup txBronze[w], k)
    BY <2>1 DEF FoldInv, SilverFoldsBronze, OpenFolds
  <2>3. silver'[k].lsn > 0
    BY <1>2, <2>1 DEF RowSeen
  <2>4. silver[k].lsn \in Nat /\ silver'[k].lsn \in Nat
    BY DEF TypeOK, Row
  <2>5. CASE silver[k].lsn = 0
    BY <2>3, <2>4, <2>5 DEF Newer
  <2>6. CASE silver[k].lsn > 0
    <3>1. PICK m \in DataEvents(bronze, k): Reflects(silver[k], m)
      BY <2>2, <2>6 DEF FoldOf
    <3>2. m \in DataEvents(bronze \cup txBronze[w], k)
      BY <3>1 DEF DataEvents
    <3>3. ~Newer(RecordAt(m).lsn, m[2], silver'[k])
      BY <2>2, <3>2 DEF FoldOf
    <3> QED
      BY <3>1, <3>3 DEF Reflects
  <2> QED
    BY <2>4, <2>5, <2>6
<1>3. silver' = silver \/ \E w \in Workers: CommitBatch(w)
  BY DEF Next, Feed, Work, vars, storeVars, SourceChange, StartSnapshot,
         SendSnapshotRow, StreamChange, StoreSourceOffset, RestartConnector, LoseSlot, CleanLog,
         Rebalance, Start, Stop, Die, Evict, Poll, ApplyMessage, AckBatch, AckRefused,
         DeadlockVictim
<1> QED
  BY <1>1, <1>2, <1>3

\* Deleted customers are not resurrected and newer rows not overwritten: no
\* commit of any worker moves a Silver row back in (source_lsn, kafka_offset)
\* (the WHERE clauses of apply_silver).
THEOREM SilverMovesForward == Spec => SilverNeverRegresses
<1> DEFINE Forward == \A k \in Customers: ~Newer(silver[k].lsn, silver[k].offset, silver'[k])
<1>1. TypeOK /\ TypeOK' /\ FoldInv /\ [Next]_vars => [Forward]_vars
  BY SilverForwardStep
<1> QED
  BY <1>1, InductiveInvariant, PTL DEF Spec, SilverNeverRegresses

-----------------------------------------------------------------------------
(* Acknowledged offsets are persisted *)

\* Everything up to the end of a polled batch is stored, compacted or polled.
LEMMA PollHolds ==
    ASSUME TypeOK, AckedIsPersisted, NEW w \in Workers, Poll(w),
           NEW p \in Partitions, NEW o \in 1..upto'[w][p]
    PROVE  <<p, o>> \in bronze \cup cleaned \cup todo'[w]
<1> DEFINE Batch(e) == {m \in Present : /\ owner[m[1]] = w
                                       /\ committed[m[1]] < m[2]
                                       /\ m[2] <= e[m[1]]}
<1>1. PICK e \in [Partitions -> Offsets]:
        /\ \A q \in Partitions: e[q] = 0 \/ <<q, e[q]>> \in Batch(e)
        /\ todo' = [todo EXCEPT ![w] = Batch(e)]
        /\ upto' = [upto EXCEPT ![w] = e]
  BY DEF Poll
<1>2. todo'[w] = Batch(e) /\ upto'[w] = e
  BY <1>1 DEF TypeOK
<1>3. e[p] \in Nat /\ o \in Nat /\ 1 <= o /\ o <= e[p] /\ committed[p] \in Nat
  <2>1. e[p] \in Nat /\ committed[p] \in Nat
    BY <1>1, OffsetFacts DEF TypeOK
  <2>2. o \in 1..e[p]
    BY <1>2
  <2> QED
    BY <2>1, <2>2
<1>4. <<p, e[p]>> \in Present /\ owner[p] = w
  BY <1>1, <1>3
<1>5. <<p, o>> \in Coordinates
  <2>1. e[p] <= Len(topic[p])
    BY <1>4 DEF Present, Coordinates
  <2>2. o \in 0..Len(topic[p])
    BY <1>3, <2>1 DEF TypeOK
  <2> QED
    BY <1>3, <2>1, <2>2 DEF Coordinates, Offsets, TypeOK
<1>6. CASE o <= committed[p]
  BY <1>3, <1>6 DEF AckedIsPersisted
<1>7. CASE o > committed[p]
  BY <1>2, <1>3, <1>4, <1>5, <1>7 DEF Present
<1> QED
  BY <1>3, <1>6, <1>7

\* Every step keeps the acknowledgement invariant.
LEMMA AckInvStep == TypeOK /\ AckInv /\ [Next]_vars => AckInv'
<1> SUFFICES ASSUME TypeOK, AckInv, [Next]_vars PROVE AckInv'
  OBVIOUS
<1> DEFINE Held(w, m) == m \in bronze \cup cleaned \cup txBronze[w] \cup todo[w]
<1>1. /\ \A w \in Workers, p \in Partitions: \A o \in 1..upto[w][p]: Held(w, <<p, o>>)
      /\ \A w \in Workers: phase[w] = "persisted" => todo[w] = {} /\ txBronze[w] = {}
      /\ \A p \in Partitions: \A o \in 1..committed[p]: <<p, o>> \in bronze \cup cleaned
  BY DEF AckInv, FetchedIsHeld, PersistedIsEmpty, AckedIsPersisted
<1>2. bronze \cup cleaned \subseteq bronze' \cup cleaned'
  BY DEF Next, Feed, Work, vars, feedVars, storeVars, SourceChange, StartSnapshot,
         SendSnapshotRow, StreamChange, StoreSourceOffset, RestartConnector, LoseSlot, CleanLog,
         Rebalance, Start, Stop, Die, Evict, Poll, ApplyMessage, CommitBatch, AckBatch,
         AckRefused, DeadlockVictim
<1> DEFINE Unmoved(w) == /\ upto'[w] = upto[w]
                         /\ todo'[w] = todo[w]
                         /\ txBronze'[w] = txBronze[w]
                         /\ phase'[w] = "persisted" => phase[w] = "persisted"
<1>3. ASSUME NEW v \in Workers, Unmoved(v)
      PROVE  /\ \A p \in Partitions: \A o \in 1..upto'[v][p]: Held(v, <<p, o>>)'
             /\ phase'[v] = "persisted" => todo'[v] = {} /\ txBronze'[v] = {}
  BY <1>1, <1>2, <1>3
<1>4. ASSUME NEW w \in Workers,
             \A p \in Partitions: \A o \in 1..upto'[w][p]: Held(w, <<p, o>>)',
             phase'[w] = "persisted" => todo'[w] = {} /\ txBronze'[w] = {},
             \A v \in Workers: v # w => Unmoved(v),
             committed' = committed
      PROVE  AckInv'
  BY <1>1, <1>2, <1>3, <1>4 DEF AckInv, FetchedIsHeld, PersistedIsEmpty, AckedIsPersisted
<1>5. ASSUME UNCHANGED <<committed, upto, todo, txBronze, phase>>
      PROVE  AckInv'
  BY <1>1, <1>2, <1>3, <1>5 DEF AckInv, FetchedIsHeld, PersistedIsEmpty, AckedIsPersisted
<1>6. ASSUME NEW w \in Workers, Start(w) PROVE AckInv'
  <2>1. /\ UNCHANGED <<committed, upto, todo, txBronze>>
        /\ phase' = [phase EXCEPT ![w] = "polling"]
    BY <1>6 DEF Start
  <2>2. \A v \in Workers: Unmoved(v)
    BY <2>1 DEF TypeOK
  <2> QED
    BY <1>3, <1>4, <2>1, <2>2
<1>7. ASSUME NEW w \in Workers, Die(w) PROVE AckInv'
  <2>1. /\ phase'[w] = "down" /\ \A p \in Partitions: upto'[w][p] = 0
        /\ committed' = committed
        /\ \A v \in Workers: v # w => Unmoved(v)
    BY <1>7 DEF Die, TypeOK
  <2> QED
    BY <1>4, <2>1
<1>8. ASSUME NEW w \in Workers, Poll(w) PROVE AckInv'
  <2>1. /\ phase'[w] = "applying" /\ committed' = committed
        /\ bronze' = bronze /\ cleaned' = cleaned
    BY <1>8 DEF Poll, TypeOK, groupVars, feedVars, storeVars
  <2>2. \A v \in Workers: v # w => Unmoved(v)
    BY <1>8 DEF Poll, TypeOK
  <2>3. \A p \in Partitions: \A o \in 1..upto'[w][p]: Held(w, <<p, o>>)'
    BY <1>8, <2>1, PollHolds DEF AckInv
  <2> QED
    BY <1>4, <2>1, <2>2, <2>3
<1>9. ASSUME NEW w \in Workers, NEW m \in todo[w], ApplyMessage(w, m) PROVE AckInv'
  <2>1. /\ phase' = phase /\ phase[w] = "applying"
        /\ committed' = committed /\ upto' = upto
        /\ bronze' = bronze /\ cleaned' = cleaned
    BY <1>9 DEF ApplyMessage, groupVars, feedVars, storeVars
  <2>2. \A v \in Workers: v # w => Unmoved(v)
    BY <1>9, <2>1 DEF ApplyMessage, TypeOK
  <2>3. /\ todo'[w] = todo[w] \ {m}
        /\ txBronze[w] \subseteq txBronze'[w]
        /\ m \in bronze \/ m \in txBronze'[w]
    BY <1>9 DEF ApplyMessage, TypeOK
  <2>4. \A p \in Partitions: \A o \in 1..upto'[w][p]: Held(w, <<p, o>>)'
    BY <1>1, <2>1, <2>3
  <2> QED
    BY <1>4, <2>1, <2>2, <2>4
<1>10. ASSUME NEW w \in Workers, CommitBatch(w) PROVE AckInv'
  <2>1. /\ todo[w] = {} /\ todo' = todo /\ upto' = upto /\ committed' = committed
        /\ txBronze'[w] = {} /\ bronze' = bronze \cup txBronze[w] /\ cleaned' = cleaned
    BY <1>10 DEF CommitBatch, TypeOK, groupVars, feedVars
  <2>2. \A v \in Workers: v # w => Unmoved(v)
    BY <1>10, <2>1 DEF CommitBatch, TypeOK
  <2>3. \A p \in Partitions: \A o \in 1..upto'[w][p]: Held(w, <<p, o>>)'
    BY <1>1, <2>1
  <2> QED
    BY <1>4, <2>1, <2>2, <2>3
<1>11. ASSUME NEW w \in Workers, AckBatch(w) PROVE AckInv'
  <2>1. /\ phase'[w] = "polling" /\ phase[w] = "persisted"
        /\ todo' = todo /\ txBronze' = txBronze
        /\ bronze' = bronze /\ cleaned' = cleaned
        /\ \A p \in Partitions: upto'[w][p] = 0
        /\ \A p \in Partitions: committed'[p] = committed[p] \/ committed'[p] = upto[w][p]
    BY <1>11 DEF AckBatch, TypeOK, feedVars, storeVars
  <2>2. \A v \in Workers: v # w => Unmoved(v)
    BY <1>11, <2>1 DEF AckBatch, TypeOK
  <2>3. \A p \in Partitions: \A o \in 1..upto[w][p]: <<p, o>> \in bronze \cup cleaned
    BY <1>1, <2>1
  <2>4. \A p \in Partitions: \A o \in 1..committed'[p]: <<p, o>> \in bronze' \cup cleaned'
    BY <1>1, <2>1, <2>3
  <2>5. \A p \in Partitions: \A o \in 1..upto'[w][p]: Held(w, <<p, o>>)'
    BY <2>1
  <2> QED
    BY <1>3, <2>1, <2>2, <2>4, <2>5
    DEF AckInv, FetchedIsHeld, PersistedIsEmpty, AckedIsPersisted
<1>12. \/ UNCHANGED <<committed, upto, todo, txBronze, phase>>
       \/ \E w \in Workers:
            \/ Start(w) \/ Die(w) \/ Poll(w) \/ CommitBatch(w) \/ AckBatch(w)
            \/ \E m \in todo[w]: ApplyMessage(w, m)
  BY DEF Next, Feed, Work, vars, workerVars, groupVars, SourceChange, StartSnapshot,
         SendSnapshotRow, StreamChange, StoreSourceOffset, RestartConnector, LoseSlot, CleanLog,
         Rebalance, Stop, Evict, AckRefused, DeadlockVictim
<1> QED
  BY <1>5, <1>6, <1>7, <1>8, <1>9, <1>10, <1>11, <1>12

\* What a worker has fetched, up to the offset it will acknowledge, is stored,
\* cleaned, in its open transaction or still to be applied (process_batch).
THEOREM AckAlways == Spec => []AckInv
<1>1. Init => AckInv
  BY DEF Init, AckInv, FetchedIsHeld, PersistedIsEmpty, AckedIsPersisted
<1>2. TypeOK /\ FoldInv /\ AckInv /\ [Next]_vars => AckInv'
  BY AckInvStep
<1> QED
  BY <1>1, <1>2, InductiveInvariant, PTL DEF Spec

\* No acknowledged offset is missing from Bronze, unless the log cleaner took
\* its record before it was read: process_batch commits the database before
\* it commits offsets, and a group member acknowledges only what it fetched.
THEOREM AckedPersisted == Spec => []AckedIsPersisted
<1>1. AckInv => AckedIsPersisted
  BY DEF AckInv
<1> QED
  BY <1>1, AckAlways, PTL
=============================================================================
