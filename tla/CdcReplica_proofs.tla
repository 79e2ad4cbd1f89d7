------------------------- MODULE CdcReplica_proofs --------------------------
(***************************************************************************)
(* CdcMaterializer implements CustomerReplica, and Silver equals the       *)
(* source when everything sent has been stored: for every number of        *)
(* customers, partitions and workers and for logs of every length.         *)
(***************************************************************************)
EXTENDS CdcMaterializer_proofs

-----------------------------------------------------------------------------
(* The inductive invariants.  What they say of the WAL has it as a          *)
(* parameter, to compare it before and after a step.                        *)

\* The source table after the n-th change of log.
TableOf(log, n) == IF n = 0 THEN [k \in Customers |-> 0] ELSE log[n].rows

\* A change writes the row of its customer, under its own LSN, and no other.
WellWritten(log) ==
    /\ \A n \in 1..Len(log): log[n].op = "d" <=> log[n].rows[log[n].key] = 0
    /\ \A n \in 1..Len(log): log[n].rows[log[n].key] \in {0, n}
    /\ \A n \in 1..Len(log): \A k \in Customers:
         k # log[n].key => TableOf(log, n)[k] = TableOf(log, n - 1)[k]

\* A row image is in the source from the LSN that names it.
ImagesNamed(log) ==
    \A n \in 0..Len(log), k \in Customers:
        TableOf(log, n)[k] # 0 =>
          /\ TableOf(log, n)[k] <= n
          /\ \A between \in TableOf(log, n)[k] .. n:
               TableOf(log, between)[k] = TableOf(log, n)[k]

WalInv == WellWritten(wal) /\ ImagesNamed(wal)

\* Every record that is sent, or about to be.
LogRecords == {RecordAt(m) : m \in Coordinates}
Records == LogRecords \cup connector.pending

\* A data record shows its customer as the source was at the record's LSN,
\* whether Debezium read it from the WAL, again, or in a snapshot.
Faithful(log, r) ==
    /\ r.lsn \in 1..Len(log)
    /\ r.image = TableOf(log, r.lsn)[r.key]
    /\ r.op = "d" <=> r.image = 0

RecordInv == \A r \in Records: r.op # "t" => Faithful(wal, r)

AbsentIsNotLive == \A k \in Customers: silver[k].lsn = 0 => ~silver[k].live

ReplicaInv == WalInv /\ RecordInv /\ AbsentIsNotLive

-----------------------------------------------------------------------------
(* The source *)

LEMMA TableNow == ASSUME NEW n PROVE SourceAt(n) = TableOf(wal, n)
  BY DEF SourceAt, TableOf

LEMMA TableTyped ==
    ASSUME NEW log \in Seq(Change), NEW n \in 0..Len(log)
    PROVE  TableOf(log, n) \in [Customers -> Nat]
<1>1. CASE n = 0
  BY <1>1 DEF TableOf
<1>2. CASE n # 0
  <2>1. log[n] \in Change
    BY <1>2
  <2> QED
    BY <1>2, <2>1 DEF TableOf, Change
<1> QED
  BY <1>1, <1>2

\* One more change adds one table to the history and leaves the others.
LEMMA TableAppended ==
    ASSUME NEW log \in Seq(Change), NEW change \in Change
    PROVE  LET next == Append(log, change)
               new == Len(log) + 1
           IN  /\ next \in Seq(Change) /\ Len(log) \in Nat /\ Len(next) = new
               /\ next[new] = change /\ TableOf(next, new) = change.rows
               /\ \A n \in 1..Len(log): next[n] = log[n]
               /\ \A n \in 0..Len(log): TableOf(next, n) = TableOf(log, n)
<1> DEFINE next == Append(log, change)
           new == Len(log) + 1
<1>1. /\ next \in Seq(Change) /\ Len(log) \in Nat /\ Len(next) = new
      /\ \A n \in 1..Len(log): next[n] = log[n]
      /\ next[new] = change
  BY AppendProperties
<1>2. TableOf(next, new) = change.rows
  <2>1. new # 0
    BY <1>1
  <2> QED
    BY <1>1, <2>1 DEF TableOf
<1>3. ASSUME NEW n \in 0..Len(log)
      PROVE  TableOf(next, n) = TableOf(log, n)
  <2>1. n = 0 \/ n \in 1..Len(log)
    BY <1>1
  <2>2. n \in 1..Len(log) => next[n] = log[n]
    BY <1>1
  <2> HIDE DEF next
  <2> QED
    BY <2>1, <2>2 DEF TableOf
<1> HIDE DEF next, new
<1>4. /\ next \in Seq(Change) /\ Len(log) \in Nat /\ Len(next) = new
      /\ next[new] = change /\ TableOf(next, new) = change.rows
      /\ \A n \in 1..Len(log): next[n] = log[n]
      /\ \A n \in 0..Len(log): TableOf(next, n) = TableOf(log, n)
  BY <1>1, <1>2, <1>3
<1> QED
  BY <1>4 DEF next, new

\* What a source transaction writes.
Writes(log, change) ==
    /\ change.op = "d" <=> change.rows[change.key] = 0
    /\ change.rows[change.key] \in {0, Len(log) + 1}
    /\ \A k \in Customers: k # change.key => change.rows[k] = TableOf(log, Len(log))[k]

LEMMA SourceWrites ==
    ASSUME TypeOK, NEW k \in Customers, NEW op \in {"c", "u", "d"}, SourceChange(k, op)
    PROVE  \E change \in Change:
             wal' = Append(wal, change) /\ change.key = k /\ Writes(wal, change)
<1> DEFINE image == IF op = "d" THEN 0 ELSE Len(wal) + 1
           table == [Source EXCEPT ![k] = image]
           change == [key |-> k, op |-> op, rows |-> table]
<1>1. Source \in [Customers -> Nat] /\ Len(wal) \in Nat
  BY SourceAlwaysTyped
<1>2. /\ table \in [Customers -> Nat] /\ table[k] = image
      /\ \A c \in Customers \ {k}: table[c] = Source[c]
      /\ op = "d" <=> image = 0
      /\ image \in {0, Len(wal) + 1}
  BY <1>1
<1>3. change \in Change /\ change.rows = table /\ change.key = k /\ change.op = op
  BY <1>2 DEF Change
<1>4. wal' = Append(wal, change)
  BY DEF SourceChange
<1>5. Source = TableOf(wal, Len(wal))
  BY TableNow DEF Source
<1> HIDE DEF change, table, image
<1>6. Writes(wal, change)
  BY <1>2, <1>3, <1>5 DEF Writes
<1> QED
  BY <1>3, <1>4, <1>6

LEMMA WellWrittenAppend ==
    ASSUME NEW log \in Seq(Change), NEW change \in Change,
           WellWritten(log), Writes(log, change)
    PROVE  WellWritten(Append(log, change))
<1> DEFINE next == Append(log, change)
           new == Len(log) + 1
<1>1. /\ next \in Seq(Change) /\ Len(log) \in Nat /\ Len(next) = new
      /\ next[new] = change /\ TableOf(next, new) = change.rows
      /\ \A n \in 1..Len(log): next[n] = log[n]
      /\ \A n \in 0..Len(log): TableOf(next, n) = TableOf(log, n)
  BY TableAppended
<1> HIDE DEF next
<1> SUFFICES WellWritten(next)
  BY DEF next
<1>2. ASSUME NEW n \in 1..Len(next)
      PROVE  /\ next[n].op = "d" <=> next[n].rows[next[n].key] = 0
             /\ next[n].rows[next[n].key] \in {0, n}
             /\ \A k \in Customers:
                  k # next[n].key => TableOf(next, n)[k] = TableOf(next, n - 1)[k]
  <2>1. CASE n = new
    <3>1. n - 1 = Len(log) /\ Len(log) \in 0..Len(log)
      BY <1>1, <2>1
    <3>2. next[n] = change /\ TableOf(next, n) = change.rows
      BY <1>1, <2>1
    <3>3. TableOf(next, n - 1) = TableOf(log, Len(log))
      BY <1>1, <3>1
    <3> QED
      BY <2>1, <3>2, <3>3 DEF Writes
  <2>2. CASE n # new
    <3>1. n \in 1..Len(log) /\ n \in 0..Len(log) /\ n - 1 \in 0..Len(log)
      BY <1>1, <2>2
    <3>2. /\ next[n] = log[n]
          /\ TableOf(next, n) = TableOf(log, n)
          /\ TableOf(next, n - 1) = TableOf(log, n - 1)
      BY <1>1, <3>1
    <3> QED
      BY <3>1, <3>2 DEF WellWritten
  <2> QED
    BY <2>1, <2>2
<1> QED
  BY <1>2 DEF WellWritten

LEMMA ImagesNamedAppend ==
    ASSUME NEW log \in Seq(Change), NEW change \in Change,
           ImagesNamed(log), Writes(log, change)
    PROVE  ImagesNamed(Append(log, change))
<1> DEFINE next == Append(log, change)
           new == Len(log) + 1
<1>1. /\ next \in Seq(Change) /\ Len(log) \in Nat /\ Len(next) = new
      /\ next[new] = change /\ TableOf(next, new) = change.rows
      /\ \A n \in 0..Len(log): TableOf(next, n) = TableOf(log, n)
  BY TableAppended
<1> HIDE DEF next
<1> SUFFICES ImagesNamed(next)
  BY DEF next
<1> SUFFICES ASSUME NEW n \in 0..Len(next), NEW k \in Customers, TableOf(next, n)[k] # 0
             PROVE  /\ TableOf(next, n)[k] <= n
                    /\ \A between \in TableOf(next, n)[k] .. n:
                         TableOf(next, between)[k] = TableOf(next, n)[k]
  BY DEF ImagesNamed
<1>2. CASE n # new
  <2>1. n \in 0..Len(log) /\ TableOf(next, n) = TableOf(log, n)
    BY <1>1, <1>2
  <2>2. TableOf(log, n)[k] \in Nat
    BY <2>1, TableTyped
  <2>3. /\ TableOf(log, n)[k] <= n
        /\ \A between \in TableOf(log, n)[k] .. n: TableOf(log, between)[k] = TableOf(log, n)[k]
    BY <2>1 DEF ImagesNamed
  <2>4. \A between \in TableOf(log, n)[k] .. n: between \in 0..Len(log)
    BY <2>1, <2>2
  <2> QED
    BY <1>1, <2>1, <2>3, <2>4
<1>3. CASE n = new /\ k = change.key
  <2>1. TableOf(next, n)[k] = n
    BY <1>1, <1>3 DEF Writes
  <2>2. n .. n = {n} /\ n <= n
    BY <1>1
  <2> QED
    BY <2>1, <2>2
<1>4. CASE n = new /\ k # change.key
  <2> DEFINE last == Len(log)
             image == TableOf(log, last)[k]
  <2>1. TableOf(next, n)[k] = image /\ last \in 0..Len(log)
    BY <1>1, <1>4 DEF Writes
  <2>2. image \in Nat
    BY <2>1, TableTyped
  <2>3. image <= last /\ \A between \in image .. last: TableOf(log, between)[k] = image
    BY <2>1 DEF ImagesNamed
  <2>4. ASSUME NEW between \in image .. n
        PROVE  TableOf(next, between)[k] = image
    <3>1. CASE between = n
      BY <2>1, <3>1
    <3>2. CASE between # n
      <4>1. between \in 0..Len(log) /\ between \in image .. last
        BY <1>1, <1>4, <2>2, <3>2
      <4> QED
        BY <1>1, <2>3, <4>1
    <3> QED
      BY <3>1, <3>2
  <2>5. image <= n
    BY <1>1, <1>4, <2>2, <2>3
  <2> HIDE DEF image
  <2> QED
    BY <2>1, <2>4, <2>5
<1> QED
  BY <1>2, <1>3, <1>4

\* Only the source writes the WAL.
LEMMA WalOrSource ==
    ASSUME TypeOK, [Next]_vars
    PROVE  \/ wal' = wal
           \/ \E change \in Change: wal' = Append(wal, change) /\ Writes(wal, change)
<1>1. UNCHANGED wal \/ \E k \in Customers, op \in {"c", "u", "d"}: SourceChange(k, op)
  BY DEF Next, Feed, Work, vars, feedVars, StartSnapshot, SendSnapshotRow, StreamChange,
         StoreSourceOffset, RestartConnector, LoseSlot, CleanLog, Rebalance, Start, Stop, Evict,
         Die, Poll, ApplyMessage, CommitBatch, AckBatch, AckRefused, DeadlockVictim
<1> QED
  BY <1>1, SourceWrites

LEMMA WalInvStep ==
    ASSUME TypeOK, WalInv, [Next]_vars
    PROVE  WalInv'
<1>1. wal \in Seq(Change)
  BY DEF TypeOK
<1>2. CASE wal' = wal
  BY <1>2 DEF WalInv, WellWritten, ImagesNamed, TableOf
<1>3. ASSUME NEW change \in Change, wal' = Append(wal, change), Writes(wal, change)
      PROVE  WalInv'
  BY <1>1, <1>3, WellWrittenAppend, ImagesNamedAppend DEF WalInv
<1> QED
  BY <1>2, <1>3, WalOrSource

\* The tables there are stay what they are.
LEMMA TablesStay ==
    ASSUME TypeOK, [Next]_vars
    PROVE  /\ Len(wal) <= Len(wal')
           /\ \A n \in 0..Len(wal): TableOf(wal', n) = TableOf(wal, n)
<1>1. wal \in Seq(Change) /\ Len(wal) \in Nat
  BY DEF TypeOK
<1>2. CASE wal' = wal
  BY <1>1, <1>2
<1>3. ASSUME NEW change \in Change, wal' = Append(wal, change)
      PROVE  /\ Len(wal) <= Len(wal')
             /\ \A n \in 0..Len(wal): TableOf(wal', n) = TableOf(wal, n)
  BY <1>1, <1>3, TableAppended
<1> QED
  BY <1>2, <1>3, WalOrSource

-----------------------------------------------------------------------------
(* The records *)

LEMMA LogRecordsKept ==
    ASSUME UNCHANGED topic
    PROVE  LogRecords' = LogRecords
  BY DEF LogRecords, RecordAt, Coordinates, Offsets

LEMMA LogRecordsAppended ==
    ASSUME TypeOK, TypeOK', [Next]_vars, NEW q \in Partitions, NEW tail \in Seq(Record),
           topic' = [topic EXCEPT ![q] = @ \o tail]
    PROVE  LogRecords' = LogRecords \cup {tail[i] : i \in 1..Len(tail)}
<1>1. ASSUME NEW m \in Coordinates PROVE m \in Coordinates' /\ RecordAt(m)' = RecordAt(m)
  BY LogGrows
<1>2. ASSUME NEW m \in Coordinates', m \notin Coordinates
      PROVE  RecordAt(m)' \in {tail[i] : i \in 1..Len(tail)}
  BY <1>2, AppendedRecords
<1>3. ASSUME NEW i \in 1..Len(tail)
      PROVE  tail[i] \in LogRecords'
  <2>1. topic[q] \in Seq(Record) /\ topic'[q] = topic[q] \o tail
    BY DEF TypeOK
  <2>2. Len(topic[q]) + i \in 1..Len(topic'[q]) /\ topic'[q][Len(topic[q]) + i] = tail[i]
    BY <2>1
  <2>3. PICK o \in 1..Len(topic'[q]): topic'[q][o] = tail[i]
    BY <2>2
  <2>4. Len(topic'[q]) \in Nat /\ o \in Offsets'
    BY <2>1 DEF Offsets
  <2>5. <<q, o>> \in Coordinates'
    BY <2>4 DEF Coordinates
  <2>6. RecordAt(<<q, o>>)' = tail[i]
    BY <2>3 DEF RecordAt
  <2> QED
    BY <2>5, <2>6 DEF LogRecords
<1>4. ASSUME NEW m \in Coordinates' PROVE RecordAt(m)' \in LogRecords \cup {tail[i] : i \in 1..Len(tail)}
  BY <1>1, <1>2 DEF LogRecords
<1>5. LogRecords \subseteq LogRecords'
  BY <1>1 DEF LogRecords
<1>6. LogRecords' \subseteq LogRecords \cup {tail[i] : i \in 1..Len(tail)}
  BY <1>4 DEF LogRecords
<1> QED
  BY <1>3, <1>5, <1>6

\* A snapshot row that is sent is no new record.
LEMMA RowSent ==
    ASSUME TypeOK, TypeOK', [Next]_vars, NEW r \in connector.pending, SendSnapshotRow(r)
    PROVE  /\ Records' = Records
           /\ connector'.started = connector.started
           /\ connector'.sent = connector.sent /\ connector'.stored = connector.stored
<1>1. r \in Record /\ PartitionOf[r.key] \in Partitions
  BY PartitionOfType DEF TypeOK, Connector, Record
<1>2. /\ connector'.pending = connector.pending \ {r}
      /\ connector'.started = connector.started
      /\ connector'.sent = connector.sent /\ connector'.stored = connector.stored
  BY DEF SendSnapshotRow, TypeOK, Connector
<1> DEFINE q == PartitionOf[r.key]
<1>3. topic[q] \in Seq(Record) /\ topic' = [topic EXCEPT ![q] = Append(topic[q], r)]
  BY <1>1 DEF SendSnapshotRow, TypeOK
<1> HIDE DEF q
<1>4. Append(topic[q], r) = topic[q] \o <<r>> /\ <<r>> \in Seq(Record)
  BY <1>1, <1>3, AppendIsConcat
<1>5. LogRecords' = LogRecords \cup {<<r>>[i] : i \in 1..Len(<<r>>)}
  BY <1>1, <1>3, <1>4, LogRecordsAppended DEF q
<1>6. {<<r>>[i] : i \in 1..Len(<<r>>)} = {r}
  OBVIOUS
<1> QED
  BY <1>2, <1>5, <1>6 DEF Records

\* The data record Debezium makes of the n-th change.
Event(n) == [key |-> wal[n].key, op |-> wal[n].op, lsn |-> n,
             image |-> wal[n].rows[wal[n].key]]

\* StreamChange sends it.
LEMMA ChangeSent ==
    ASSUME TypeOK, TypeOK', [Next]_vars, StreamChange
    PROVE  LET n == connector.sent + 1
           IN  /\ n \in 1..Len(wal)
               /\ Event(n) \in Records' /\ Records \subseteq Records'
               /\ \A r \in Records': r \in Records \/ r = Event(n) \/ r.op = "t"
               /\ wal' = wal
               /\ connector'.sent = n /\ connector'.stored = connector.stored
               /\ connector'.started /\ connector.started
<1> DEFINE n == connector.sent + 1
<1>1. /\ n \in 1..Len(wal)
      /\ PartitionOf[wal[n].key] \in Partitions
      /\ RecordsOf(n) \in Seq(Record)
  BY StreamTyped
<1>2. /\ topic' = [topic EXCEPT ![PartitionOf[wal[n].key]] = @ \o RecordsOf(n)]
      /\ wal' = wal
      /\ connector'.pending = connector.pending
      /\ connector'.sent = n /\ connector'.stored = connector.stored
      /\ connector'.started /\ connector.started
  BY DEF StreamChange, TypeOK, Connector
<1> HIDE DEF n
<1>3. LogRecords' = LogRecords \cup {RecordsOf(n)[i] : i \in 1..Len(RecordsOf(n))}
  BY <1>1, <1>2, LogRecordsAppended
<1>4. /\ 1 \in 1..Len(RecordsOf(n)) /\ RecordsOf(n)[1] = Event(n)
      /\ \A i \in 1..Len(RecordsOf(n)): RecordsOf(n)[i] = Event(n) \/ RecordsOf(n)[i].op = "t"
  BY DEF RecordsOf, Event
<1>5. /\ Event(n) \in Records' /\ Records \subseteq Records'
      /\ \A r \in Records': r \in Records \/ r = Event(n) \/ r.op = "t"
  BY <1>2, <1>3, <1>4 DEF Records
<1> QED
  BY <1>1, <1>2, <1>5 DEF n

\* The rows of a snapshot.
SnapshotRows == {[key |-> k, op |-> "r", lsn |-> Len(wal), image |-> Source[k]] :
                   k \in {c \in Customers : Source[c] # 0}}

LEMMA SnapshotStarted ==
    ASSUME TypeOK, StartSnapshot
    PROVE  /\ Records' = LogRecords \cup SnapshotRows
           /\ wal' = wal /\ ~connector.started /\ connector'.started
           /\ connector'.sent = Len(wal) /\ connector'.stored = Len(wal)
  BY LogRecordsKept DEF StartSnapshot, Records, SnapshotRows

\* The other steps send nothing.
LEMMA NothingSent ==
    ASSUME TypeOK, [Next]_vars, ~StartSnapshot, ~StreamChange,
           \A r \in connector.pending: ~SendSnapshotRow(r)
    PROVE  /\ topic' = topic /\ LogRecords' = LogRecords
           /\ \/ connector' = connector
              \/ wal' = wal /\ (StoreSourceOffset \/ RestartConnector \/ LoseSlot)
<1>1. /\ topic' = topic
      /\ \/ connector' = connector
         \/ wal' = wal /\ (StoreSourceOffset \/ RestartConnector \/ LoseSlot)
  BY DEF Next, Feed, Work, vars, feedVars, SourceChange, StoreSourceOffset, RestartConnector,
         LoseSlot, CleanLog, Rebalance, Start, Stop, Evict, Die, Poll, ApplyMessage,
         CommitBatch, AckBatch, AckRefused, DeadlockVictim
<1> QED
  BY <1>1, LogRecordsKept

\* No step sends a data record that is wrong about the source.
LEMMA RecordInvStep ==
    ASSUME TypeOK, TypeOK', WalInv, RecordInv, [Next]_vars
    PROVE  RecordInv'
<1>1. wal \in Seq(Change) /\ Len(wal) \in Nat
  BY DEF TypeOK
<1>2. ASSUME NEW r \in Records, r.op # "t" PROVE Faithful(wal', r)
  <2>1. Faithful(wal, r)
    BY <1>2 DEF RecordInv
  <2>2. r.lsn \in 0..Len(wal)
    BY <1>1, <2>1 DEF Faithful
  <2>3. Len(wal) <= Len(wal') /\ TableOf(wal', r.lsn) = TableOf(wal, r.lsn)
    BY <2>2, TablesStay
  <2>4. Len(wal') \in Nat
    BY DEF TypeOK
  <2> QED
    BY <1>1, <2>1, <2>3, <2>4 DEF Faithful
<1>3. CASE StartSnapshot
  <2>1. ASSUME NEW r \in SnapshotRows PROVE Faithful(wal, r)
    <3>1. PICK k \in Customers:
            /\ Source[k] # 0
            /\ r = [key |-> k, op |-> "r", lsn |-> Len(wal), image |-> Source[k]]
      BY <2>1 DEF SnapshotRows
    <3>2. Source = TableOf(wal, Len(wal))
      BY TableNow DEF Source
    <3>3. Len(wal) # 0
      BY <3>1, <3>2 DEF TableOf
    <3> QED
      BY <1>1, <3>1, <3>2, <3>3 DEF Faithful
  <2>2. ASSUME NEW r \in Records', r.op # "t" PROVE Faithful(wal', r)
    BY <1>2, <1>3, <2>1, <2>2, SnapshotStarted DEF Records
  <2> QED
    BY <2>2 DEF RecordInv
<1>4. CASE StreamChange
  <2> DEFINE n == connector.sent + 1
  <2>1. /\ n \in 1..Len(wal) /\ wal' = wal
        /\ \A r \in Records': r \in Records \/ r = Event(n) \/ r.op = "t"
    BY <1>4, ChangeSent
  <2> HIDE DEF n
  <2>2. Faithful(wal, Event(n))
    <3>1. n # 0 /\ wal[n].rows = TableOf(wal, n)
      BY <2>1 DEF TableOf
    <3>2. wal[n].op = "d" <=> wal[n].rows[wal[n].key] = 0
      BY <2>1 DEF WalInv, WellWritten
    <3> QED
      BY <2>1, <3>1, <3>2, <1>1 DEF Faithful, Event
  <2>3. ASSUME NEW r \in Records', r.op # "t" PROVE Faithful(wal', r)
    BY <1>2, <2>1, <2>2, <2>3
  <2> QED
    BY <2>3 DEF RecordInv
<1>5. ASSUME NEW r \in connector.pending, SendSnapshotRow(r) PROVE RecordInv'
  BY <1>2, <1>5, RowSent DEF RecordInv
<1>6. CASE ~StartSnapshot /\ ~StreamChange /\ \A r \in connector.pending: ~SendSnapshotRow(r)
  <2>1. connector'.pending \subseteq connector.pending
    <3>1. connector \in Connector
      BY DEF TypeOK
    <3>2. StoreSourceOffset \/ RestartConnector => connector'.pending = connector.pending
      BY <3>1 DEF StoreSourceOffset, RestartConnector, Connector
    <3>3. LoseSlot => connector'.pending = {}
      BY DEF LoseSlot
    <3> QED
      BY <1>6, <3>2, <3>3, NothingSent
  <2>2. Records' \subseteq Records
    BY <1>6, <2>1, NothingSent DEF Records
  <2> QED
    BY <1>2, <2>2 DEF RecordInv
<1> QED
  BY <1>3, <1>4, <1>5, <1>6

-----------------------------------------------------------------------------
(* What Silver shows *)

LEMMA AbsentStep ==
    ASSUME AbsentIsNotLive, [Next]_vars
    PROVE  AbsentIsNotLive'
<1>1. CASE silver' = silver
  BY <1>1 DEF AbsentIsNotLive
<1>2. ASSUME NEW w \in Workers, CommitBatch(w), NEW k \in Customers, silver'[k].lsn = 0
      PROVE  ~silver'[k].live
  <2>1. silver'[k] = RowSeen(w, k)
    BY <1>2 DEF CommitBatch
  <2>2. silver'[k] = silver[k] \/ silver'[k].lsn > 0
    BY <2>1 DEF RowSeen
  <2> QED
    BY <1>2, <2>2 DEF AbsentIsNotLive
<1>3. silver' = silver \/ \E w \in Workers: CommitBatch(w)
  BY DEF Next, Feed, Work, vars, storeVars, SourceChange, StartSnapshot,
         SendSnapshotRow, StreamChange, StoreSourceOffset, RestartConnector, LoseSlot, CleanLog,
         Rebalance, Start, Stop, Die, Evict, Poll, ApplyMessage, AckBatch, AckRefused,
         DeadlockVictim
<1> QED
  BY <1>1, <1>2, <1>3 DEF AbsentIsNotLive

LEMMA NoRecordsInit == Init => Records = {}
<1> SUFFICES ASSUME Init PROVE Records = {}
  OBVIOUS
<1>1. \A p \in Partitions: Len(topic[p]) = 0
  BY DEF Init
<1>2. Offsets \subseteq Nat
  BY <1>1 DEF Offsets
<1>3. ASSUME NEW m \in Coordinates PROVE FALSE
  <2>1. m[1] \in Partitions /\ m[2] \in Nat /\ 1 <= m[2] /\ m[2] <= Len(topic[m[1]])
    BY <1>2 DEF Coordinates
  <2> QED
    BY <1>1, <2>1
<1> QED
  BY <1>3 DEF Init, Records, LogRecords

LEMMA ReplicaInvInit == Init => ReplicaInv
<1> SUFFICES ASSUME Init PROVE ReplicaInv
  OBVIOUS
<1>1. Len(wal) = 0
  BY DEF Init
<1>2. WellWritten(wal)
  BY <1>1 DEF WellWritten
<1>3. ImagesNamed(wal)
  BY <1>1 DEF ImagesNamed, TableOf
<1>4. RecordInv
  BY NoRecordsInit DEF RecordInv
<1>5. AbsentIsNotLive
  BY DEF Init, AbsentIsNotLive, NoRow
<1> QED
  BY <1>2, <1>3, <1>4, <1>5 DEF ReplicaInv, WalInv

LEMMA ReplicaInvStep == TypeOK /\ TypeOK' /\ ReplicaInv /\ [Next]_vars => ReplicaInv'
  BY WalInvStep, RecordInvStep, AbsentStep DEF ReplicaInv

\* The records of the WAL and the topic never contradict the source: what
\* apply_silver is given for a customer is the row the customer had at the
\* record's LSN, in whatever order, and however often, Debezium sends it.
THEOREM RecordsAreFaithful == Spec => [](TypeOK /\ FoldInv /\ ReplicaInv)
<1>1. Init => ReplicaInv
  BY ReplicaInvInit
<1>2. TypeOK /\ TypeOK' /\ ReplicaInv /\ [Next]_vars => ReplicaInv'
  BY ReplicaInvStep
<1> QED
  BY <1>1, <1>2, InductiveInvariant, PTL DEF Spec

\* Every customer is shown as the source was at the LSN of its row.
ShownAsSource ==
    \A k \in Customers: /\ silver[k].lsn \in 0..Len(wal)
                         /\ Visible(k) = TableOf(wal, silver[k].lsn)[k]

LEMMA SilverShows == TypeOK /\ FoldInv /\ ReplicaInv => ShownAsSource
<1> SUFFICES ASSUME TypeOK, FoldInv, ReplicaInv, NEW k \in Customers
             PROVE  /\ silver[k].lsn \in 0..Len(wal)
                    /\ Visible(k) = TableOf(wal, silver[k].lsn)[k]
  BY DEF ShownAsSource
<1>1. Len(wal) \in Nat /\ silver[k] \in Row /\ silver[k].lsn \in Nat
  BY DEF TypeOK, Row
<1>2. CASE silver[k].lsn = 0
  <2>1. ~silver[k].live
    BY <1>2 DEF ReplicaInv, AbsentIsNotLive
  <2> QED
    BY <1>1, <1>2, <2>1 DEF Visible, TableOf
<1>3. CASE silver[k].lsn > 0
  <2>1. PICK m \in DataEvents(bronze, k): Reflects(silver[k], m)
    BY <1>3 DEF FoldInv, SilverFoldsBronze, FoldOf
  <2> DEFINE r == RecordAt(m)
  <2>2. r.key = k /\ r.op # "t" /\ m \in Coordinates
    BY <2>1 DEF DataEvents, FoldInv, OnlyTopicRecords
  <2>3. r \in Records
    BY <2>2 DEF Records, LogRecords
  <2>4. Faithful(wal, r)
    BY <2>2, <2>3 DEF ReplicaInv, RecordInv
  <2>5. /\ silver[k].lsn = r.lsn
        /\ silver[k].live <=> r.op # "d"
        /\ silver[k].live => silver[k].image = r.image
    BY <2>1 DEF Reflects
  <2> HIDE DEF r
  <2> QED
    BY <1>1, <2>2, <2>4, <2>5 DEF Faithful, Visible
<1> QED
  BY <1>1, <1>2, <1>3

-----------------------------------------------------------------------------
(* The refinement *)

History == [n \in 1..Len(wal) |-> wal[n].rows]

LEMMA HistoryIsSeq ==
    ASSUME NEW log \in Seq(Change)
    PROVE  LET history == [n \in 1..Len(log) |-> log[n].rows]
           IN  history \in Seq([Customers -> Nat]) /\ Len(history) = Len(log)
<1> DEFINE history == [n \in 1..Len(log) |-> log[n].rows]
<1>1. Len(log) \in Nat /\ \A n \in 1..Len(log): log[n] \in Change
  OBVIOUS
<1>2. history \in [1..Len(log) -> [Customers -> Nat]]
  BY <1>1 DEF Change
<1>3. DOMAIN history = 1..Len(log)
  OBVIOUS
<1> HIDE DEF history
<1>4. history \in Seq([Customers -> Nat])
  BY <1>1, <1>2, SeqDef
<1>5. Len(history) = Len(log)
  BY <1>1, <1>3, <1>4, LenProperties
<1> QED
  BY <1>4, <1>5 DEF history

\* The abstract table at an LSN is the table of the WAL.
LEMMA AbstractTable ==
    ASSUME TypeOK
    PROVE  /\ History \in Seq([Customers -> Nat]) /\ Len(History) = Len(wal)
           /\ \A n \in 0..Len(wal): Replica!TableAt(n) = TableOf(wal, n)
<1>1. wal \in Seq(Change) /\ Len(wal) \in Nat
  BY DEF TypeOK
<1>2. History \in Seq([Customers -> Nat]) /\ Len(History) = Len(wal)
  BY <1>1, HistoryIsSeq DEF History
<1>3. ASSUME NEW n \in 0..Len(wal) PROVE Replica!TableAt(n) = TableOf(wal, n)
  <2>1. n = 0 \/ n \in 1..Len(wal)
    BY <1>1
  <2> QED
    BY <2>1 DEF Replica!TableAt, TableOf
<1> QED
  BY <1>2, <1>3

LEMMA RefinesInit == Init => Replica!Init
<1> SUFFICES ASSUME Init PROVE Replica!Init
  OBVIOUS
<1>1. wal = <<>> /\ Len(wal) = 0
  BY DEF Init
<1>2. History = <<>>
  BY <1>1 DEF History
<1>3. \A k \in Customers: silver[k].lsn = 0 /\ Visible(k) = 0
  BY DEF Init, NoRow, Visible
<1> QED
  BY <1>2, <1>3 DEF Replica!Init, History

\* A source transaction is one abstract commit.
LEMMA RefinesSource ==
    ASSUME TypeOK, TypeOK', NEW change \in Change, wal' = Append(wal, change), Writes(wal, change),
           silver' = silver
    PROVE  Replica!SourceCommit(change.key)
<1> DEFINE last == Len(wal)
           k == change.key
           image == change.rows[k]
<1>1. wal \in Seq(Change) /\ last \in Nat /\ last \in 0..last
  BY DEF TypeOK
<1>2. k \in Customers /\ change.rows \in [Customers -> Nat]
  BY DEF Change
<1>3. /\ Len(wal') = last + 1 /\ wal'[last + 1] = change
      /\ \A n \in 1..last: wal'[n] = wal[n]
  BY <1>1, TableAppended
<1>4. /\ Len(History) = last /\ History \in Seq([Customers -> Nat])
      /\ Replica!TableAt(last) = TableOf(wal, last)
  BY <1>1, AbstractTable
<1>5. change.rows = [TableOf(wal, last) EXCEPT ![k] = image]
  <2>1. TableOf(wal, last) \in [Customers -> Nat]
    BY <1>1, TableTyped
  <2>2. \A c \in Customers: c # k => change.rows[c] = TableOf(wal, last)[c]
    BY DEF Writes
  <2> HIDE DEF last
  <2> QED
    BY <1>2, <2>1, <2>2
<1>6. History' = Append(History, change.rows)
  <2>1. /\ Append(History, change.rows) \in Seq([Customers -> Nat])
        /\ Len(Append(History, change.rows)) = last + 1
        /\ \A n \in 1..last: Append(History, change.rows)[n] = History[n]
        /\ Append(History, change.rows)[last + 1] = change.rows
    BY <1>2, <1>4, AppendProperties
  <2>2. History' \in Seq([Customers -> Nat]) /\ Len(History') = last + 1
    BY <1>3, HistoryIsSeq DEF History, TypeOK
  <2>3. ASSUME NEW n \in 1..last + 1
        PROVE  History'[n] = Append(History, change.rows)[n]
    <3>1. CASE n \in 1..last
      BY <1>1, <1>3, <2>1, <3>1 DEF History
    <3>2. CASE n = last + 1
      BY <1>1, <1>3, <2>1, <3>2 DEF History
    <3>3. n \in 1..last \/ n = last + 1
      BY <1>1
    <3> QED
      BY <3>1, <3>2, <3>3
  <2> HIDE DEF last
  <2> QED
    BY <2>1, <2>2, <2>3, SeqEqual
<1>7. image \in {0, Len(History) + 1}
  BY <1>4 DEF Writes
<1>8. \A c \in Customers: Visible(c)' = Visible(c)
  BY DEF Visible
<1> QED
  BY <1>4, <1>5, <1>6, <1>7, <1>8 DEF Replica!SourceCommit, History

\* Every other step refreshes the view of some customers, or of none.
LEMMA RefinesRefresh ==
    ASSUME TypeOK, TypeOK', FoldInv, ShownAsSource', [Next]_vars, wal' = wal
    PROVE  Replica!Refresh
<1>1. \A k \in Customers: /\ silver[k].lsn \in Nat /\ silver'[k].lsn \in 0..Len(wal)
                           /\ Visible(k)' = TableOf(wal, silver'[k].lsn)[k]
  BY DEF ShownAsSource, TypeOK, Row
<1>2. \A k \in Customers: silver'[k].lsn >= silver[k].lsn
  BY <1>1, SilverForwardStep DEF Newer
<1>3. \A k \in Customers: Visible(k)' = Replica!TableAt(silver'[k].lsn)[k]
  BY <1>1, AbstractTable
<1>4. Len(History) = Len(wal)
  BY AbstractTable
<1> QED
  BY <1>1, <1>2, <1>3, <1>4 DEF Replica!Refresh, History

LEMMA RefinesNext ==
    TypeOK /\ TypeOK' /\ FoldInv /\ ShownAsSource' /\ [Next]_vars => [Replica!Next]_(Replica!vars)
<1> SUFFICES ASSUME TypeOK, TypeOK', FoldInv, ShownAsSource', [Next]_vars
             PROVE  Replica!Next
  OBVIOUS
<1>1. CASE wal' = wal
  BY <1>1, RefinesRefresh DEF Replica!Next
<1>2. ASSUME NEW k \in Customers, NEW op \in {"c", "u", "d"}, SourceChange(k, op)
      PROVE  Replica!Next
  <2>1. silver' = silver
    BY <1>2 DEF SourceChange, storeVars
  <2> QED
    BY <1>2, <2>1, SourceWrites, RefinesSource DEF Replica!Next
<1>3. wal' = wal \/ \E k \in Customers, op \in {"c", "u", "d"}: SourceChange(k, op)
  BY DEF Next, Feed, Work, vars, feedVars, StartSnapshot, SendSnapshotRow, StreamChange,
         StoreSourceOffset, RestartConnector, LoseSlot, CleanLog, Rebalance, Start, Stop, Evict,
         Die, Poll, ApplyMessage, CommitBatch, AckBatch, AckRefused, DeadlockVictim
<1> QED
  BY <1>1, <1>2, <1>3

\* The whole path from public.customers to cdc_silver.customers_current shows
\* each customer as the source was at one LSN, which never goes back, through
\* every redelivery, restart, compaction and loss of the slot: register_connector,
\* Debezium, the topic and process_batch implement the abstract replica.
THEOREM CdcImplementsReplica == Spec => ImplementsReplica
<1>1. Init => Replica!Init
  BY RefinesInit
<1>2. TypeOK /\ TypeOK' /\ FoldInv /\ ShownAsSource' /\ [Next]_vars => [Replica!Next]_(Replica!vars)
  BY RefinesNext
<1>3. TypeOK /\ FoldInv /\ ReplicaInv => ShownAsSource
  BY SilverShows
<1> QED
  BY <1>1, <1>2, <1>3, RecordsAreFaithful, PTL DEF Spec, ImplementsReplica, Replica!Spec

-----------------------------------------------------------------------------
(* Everything that is needed is sent *)

DataOf(R, k) == {r \in R : r.key = k /\ r.op # "t"}

\* The records of R suffice to show k as it was at LSN n: one as new as the row
\* k had then, or a delete after every row of k sent until then.
Delivered(log, R, n, k) ==
    IF TableOf(log, n)[k] # 0
    THEN \E r \in DataOf(R, k): r.lsn >= TableOf(log, n)[k]
    ELSE \A r \in DataOf(R, k): r.op # "d" /\ r.lsn <= n =>
            \E d \in DataOf(R, k): d.op = "d" /\ d.lsn > r.lsn

\* They do for whatever LSN the connector may go back to: a restarted task sends
\* again all that came after the last flush, as long as its slot is there.
DeliveryInv ==
    /\ connector.stored <= connector.sent /\ connector.sent <= Len(wal)
    /\ ~connector.started => Records = {}
    /\ connector.started =>
         \A n \in connector.stored .. connector.sent, k \in Customers:
             Delivered(wal, Records, n, k)

LEMMA DeliveryInit == Init => DeliveryInv
  BY NoRecordsInit DEF Init, DeliveryInv

\* The snapshot delivers the source as it was when it was taken.
LEMMA SnapshotDelivers ==
    ASSUME TypeOK, WalInv, DeliveryInv, StartSnapshot
    PROVE  DeliveryInv'
<1> DEFINE last == Len(wal)
<1>1. /\ Records' = LogRecords \cup SnapshotRows /\ wal' = wal
      /\ ~connector.started /\ connector'.started
      /\ connector'.sent = last /\ connector'.stored = last /\ last \in Nat
  BY SnapshotStarted, SourceAlwaysTyped
<1>2. Records' = SnapshotRows
  BY <1>1 DEF DeliveryInv, Records
<1>3. Source = TableOf(wal, last) /\ Source \in [Customers -> Nat] /\ last \in 0..last
  BY <1>1, TableNow, SourceAlwaysTyped DEF Source
<1> HIDE DEF last
<1>4. ASSUME NEW k \in Customers PROVE Delivered(wal, SnapshotRows, last, k)
  <2>1. CASE Source[k] # 0
    <3> DEFINE row == [key |-> k, op |-> "r", lsn |-> last, image |-> Source[k]]
    <3>1. row \in DataOf(SnapshotRows, k)
      BY <2>1 DEF DataOf, SnapshotRows, last
    <3>2. last >= Source[k]
      BY <1>1, <1>3, <2>1 DEF WalInv, ImagesNamed, last
    <3> QED
      BY <1>3, <2>1, <3>1, <3>2 DEF Delivered
  <2>2. CASE Source[k] = 0
    <3>1. DataOf(SnapshotRows, k) = {}
      BY <2>2 DEF DataOf, SnapshotRows
    <3> QED
      BY <1>3, <2>2, <3>1 DEF Delivered
  <2> QED
    BY <2>1, <2>2
<1>5. ASSUME NEW n \in connector'.stored .. connector'.sent, NEW k \in Customers
      PROVE  Delivered(wal', Records', n, k)
  <2>1. n = last
    BY <1>1
  <2> QED
    BY <1>1, <1>2, <1>4, <2>1
<1>6. connector'.stored <= connector'.sent /\ connector'.sent <= Len(wal')
  BY <1>1 DEF last
<1> QED
  BY <1>1, <1>5, <1>6 DEF DeliveryInv

\* One more change sent delivers the source at its LSN.
LEMMA ChangeDelivers ==
    ASSUME NEW log \in Seq(Change), WellWritten(log), NEW last \in Nat, NEW n,
           n = last + 1, n \in 1..Len(log),
           NEW R, NEW T, R \subseteq T, NEW event \in T,
           \A r \in T: r.op # "t" => Faithful(log, r),
           \A r \in T: r \in R \/ r = event \/ r.op = "t",
           event.key = log[n].key, event.op = log[n].op, event.lsn = n,
           NEW k \in Customers, Delivered(log, R, last, k)
    PROVE  Delivered(log, T, n, k)
<1>1. DataOf(R, k) \subseteq DataOf(T, k)
  BY DEF DataOf
<1>2. log[n].op # "t" /\ n # 0 /\ TableOf(log, n) = log[n].rows
  <2>1. log[n] \in Change /\ n # 0
    OBVIOUS
  <2>2. log[n].op # "t"
    BY <2>1 DEF Change
  <2> QED
    BY <2>1, <2>2 DEF TableOf
<1>3. ASSUME NEW r \in DataOf(T, k), r.op # "d", r.lsn <= n, TableOf(log, n)[k] = 0
      PROVE  r.lsn <= last
  <2>1. Faithful(log, r) /\ r.key = k
    BY DEF DataOf
  <2>2. r.lsn # n /\ r.lsn \in 1..Len(log)
    BY <1>3, <2>1 DEF Faithful
  <2> QED
    BY <1>3, <2>2
<1>4. CASE event.key = k
  <2>1. event \in DataOf(T, k)
    BY <1>2, <1>4 DEF DataOf
  <2>2. TableOf(log, n)[k] \in {0, n} /\ (event.op = "d" <=> TableOf(log, n)[k] = 0)
    <3>1. /\ log[n].op = "d" <=> log[n].rows[log[n].key] = 0
          /\ log[n].rows[log[n].key] \in {0, n}
      BY DEF WellWritten
    <3>2. log[n].key = k /\ event.op = log[n].op
      BY <1>4
    <3> QED
      BY <1>2, <3>1, <3>2
  <2>3. CASE TableOf(log, n)[k] = n
    BY <1>2, <2>1, <2>3 DEF Delivered
  <2>4. CASE TableOf(log, n)[k] = 0
    <3>1. ASSUME NEW r \in DataOf(T, k), r.op # "d", r.lsn <= n
          PROVE  event.lsn > r.lsn
      <4>1. r.lsn <= last /\ r.lsn \in Nat
        BY <1>3, <2>4, <3>1 DEF DataOf, Faithful
      <4> QED
        BY <4>1
    <3> QED
      BY <2>1, <2>2, <2>4, <3>1 DEF Delivered
  <2> QED
    BY <2>2, <2>3, <2>4
<1>5. CASE event.key # k
  <2>1. TableOf(log, n)[k] = TableOf(log, last)[k]
    <3>1. n - 1 = last
      OBVIOUS
    <3>2. TableOf(log, n)[k] = TableOf(log, n - 1)[k]
      BY <1>5 DEF WellWritten
    <3> QED
      BY <3>1, <3>2
  <2>2. CASE TableOf(log, n)[k] # 0
    BY <1>1, <2>1, <2>2 DEF Delivered
  <2>3. CASE TableOf(log, n)[k] = 0
    <3>1. DataOf(T, k) = DataOf(R, k)
      BY <1>1, <1>5 DEF DataOf
    <3>2. \A r \in DataOf(T, k): r.op # "d" /\ r.lsn <= n => r.lsn <= last
      BY <1>3, <2>3
    <3> QED
      BY <2>1, <2>3, <3>1, <3>2 DEF Delivered
  <2> QED
    BY <2>2, <2>3
<1> QED
  BY <1>4, <1>5

\* It takes nothing from what was delivered before.
LEMMA StaysDelivered ==
    ASSUME NEW log, NEW n \in Nat, NEW R, NEW T, R \subseteq T, NEW event,
           \A r \in T: r \in R \/ r = event \/ r.op = "t",
           event.lsn \in Nat, event.lsn > n,
           NEW k, Delivered(log, R, n, k)
    PROVE  Delivered(log, T, n, k)
<1>1. DataOf(R, k) \subseteq DataOf(T, k)
  BY DEF DataOf
<1>2. CASE TableOf(log, n)[k] # 0
  BY <1>1, <1>2 DEF Delivered
<1>3. CASE TableOf(log, n)[k] = 0
  <2>1. ASSUME NEW r \in DataOf(T, k), r.lsn <= n PROVE r \in DataOf(R, k)
    BY <2>1 DEF DataOf
  <2> QED
    BY <1>1, <1>3, <2>1 DEF Delivered
<1> QED
  BY <1>2, <1>3

LEMMA StreamDelivers ==
    ASSUME TypeOK, TypeOK', [Next]_vars, WalInv, RecordInv', DeliveryInv, StreamChange
    PROVE  DeliveryInv'
<1> DEFINE n == connector.sent + 1
<1>1. /\ n \in 1..Len(wal) /\ wal' = wal
      /\ Event(n) \in Records' /\ Records \subseteq Records'
      /\ \A r \in Records': r \in Records \/ r = Event(n) \/ r.op = "t"
      /\ connector'.sent = n /\ connector'.stored = connector.stored
      /\ connector'.started /\ connector.started
  BY ChangeSent
<1>2. /\ connector.sent \in Nat /\ connector.stored \in Nat /\ wal \in Seq(Change)
      /\ n = connector.sent + 1 /\ Len(wal) \in Nat
      /\ connector.stored <= connector.sent /\ WellWritten(wal)
  BY DEF TypeOK, Connector, DeliveryInv, WalInv
<1>3. /\ \A r \in Records': r.op # "t" => Faithful(wal, r)
      /\ Event(n).key = wal[n].key /\ Event(n).op = wal[n].op /\ Event(n).lsn = n
  BY <1>1 DEF RecordInv, Event
<1> HIDE DEF n
<1>4. ASSUME NEW l \in connector.stored .. n, NEW k \in Customers
      PROVE  Delivered(wal, Records', l, k)
  <2>1. CASE l = n
    <3>1. Delivered(wal, Records, connector.sent, k)
      BY <1>1, <1>2 DEF DeliveryInv
    <3> DEFINE last == connector.sent
               next == Records'
               event == Event(n)
    <3>2. /\ last \in Nat /\ n = last + 1 /\ n \in 1..Len(wal)
          /\ wal \in Seq(Change) /\ WellWritten(wal)
      BY <1>1, <1>2
    <3>3. /\ Records \subseteq next /\ event \in next
          /\ \A r \in next: r.op # "t" => Faithful(wal, r)
          /\ \A r \in next: r \in Records \/ r = event \/ r.op = "t"
          /\ event.key = wal[n].key /\ event.op = wal[n].op /\ event.lsn = n
      BY <1>1, <1>3
    <3>4. Delivered(wal, Records, last, k)
      BY <3>1
    <3> HIDE DEF last, next, event
    <3>5. Delivered(wal, next, n, k)
      BY <3>2, <3>3, <3>4, ChangeDelivers
    <3> QED
      BY <2>1, <3>5 DEF next
  <2>2. CASE l # n
    <3>1. l \in Nat /\ l \in connector.stored .. connector.sent /\ n > l
      BY <1>2, <2>2
    <3>2. Delivered(wal, Records, l, k)
      BY <1>1, <3>1 DEF DeliveryInv
    <3>3. Event(n).lsn \in Nat /\ Event(n).lsn > l
      BY <1>1, <1>3, <3>1
    <3> QED
      BY <1>1, <3>1, <3>2, <3>3, StaysDelivered
  <2> QED
    BY <2>1, <2>2
<1>5. connector'.stored <= connector'.sent /\ connector'.sent <= Len(wal')
  BY <1>1, <1>2
<1> QED
  BY <1>1, <1>4, <1>5 DEF DeliveryInv

LEMMA DeliveryStep ==
    ASSUME SlotLoss = FALSE, TypeOK, TypeOK', WalInv, RecordInv', DeliveryInv, [Next]_vars
    PROVE  DeliveryInv'
<1>1. /\ connector \in Connector /\ connector.sent \in Nat /\ connector.stored \in Nat
      /\ connector.stored <= connector.sent /\ connector.sent <= Len(wal) /\ Len(wal) \in Nat
      /\ Len(wal') \in Nat
  BY DEF TypeOK, Connector, DeliveryInv
\* The rest of the steps send nothing, and move the connector no further than
\* where it has been or may go back to.
<1>2. ASSUME Records' = Records, connector'.started = connector.started,
             connector'.stored \in connector.stored .. connector.sent,
             connector'.sent \in connector.stored .. connector.sent,
             connector'.stored <= connector'.sent
      PROVE  DeliveryInv'
  <2>1. connector'.sent <= Len(wal')
    BY <1>1, <1>2, TablesStay
  <2>2. ASSUME connector.started,
               NEW n \in connector'.stored .. connector'.sent, NEW k \in Customers
        PROVE  Delivered(wal', Records, n, k)
    <3>1. n \in connector.stored .. connector.sent /\ n \in 0..Len(wal)
      BY <1>1, <1>2
    <3>2. TableOf(wal', n) = TableOf(wal, n)
      BY <3>1, TablesStay
    <3>3. Delivered(wal, Records, n, k)
      BY <2>2, <3>1 DEF DeliveryInv
    <3> QED
      BY <3>2, <3>3 DEF Delivered
  <2> QED
    BY <1>2, <2>1, <2>2 DEF DeliveryInv
<1>3. CASE StartSnapshot
  BY <1>3, SnapshotDelivers
<1>4. CASE StreamChange
  BY <1>4, StreamDelivers
<1>5. ASSUME NEW r \in connector.pending, SendSnapshotRow(r) PROVE DeliveryInv'
  BY <1>1, <1>2, <1>5, RowSent
<1>6. CASE ~StartSnapshot /\ ~StreamChange /\ \A r \in connector.pending: ~SendSnapshotRow(r)
  <2>1. ~LoseSlot
    BY DEF LoseSlot
  <2>2. LogRecords' = LogRecords
    BY <1>6, NothingSent
  <2>3. CASE connector' = connector
    <3>1. Records' = Records
      BY <2>2, <2>3 DEF Records
    <3> QED
      BY <1>1, <1>2, <2>3, <3>1
  <2>4. CASE StoreSourceOffset
    <3>1. connector' = [connector EXCEPT !.stored = connector.stored + 1]
          /\ connector.stored # connector.sent
      BY <2>4 DEF StoreSourceOffset
    <3>2. /\ connector'.pending = connector.pending /\ connector'.started = connector.started
          /\ connector'.sent = connector.sent /\ connector'.stored = connector.stored + 1
      BY <1>1, <3>1 DEF Connector
    <3>3. Records' = Records
      BY <2>2, <3>2 DEF Records
    <3> QED
      BY <1>1, <1>2, <3>1, <3>2, <3>3
  <2>5. CASE RestartConnector
    <3>1. connector' = [connector EXCEPT !.sent = connector.stored]
      BY <2>5 DEF RestartConnector
    <3>2. /\ connector'.pending = connector.pending /\ connector'.started = connector.started
          /\ connector'.sent = connector.stored /\ connector'.stored = connector.stored
      BY <1>1, <3>1 DEF Connector
    <3>3. Records' = Records
      BY <2>2, <3>2 DEF Records
    <3> QED
      BY <1>1, <1>2, <3>2, <3>3
  <2> QED
    BY <1>6, <2>1, <2>3, <2>4, <2>5, NothingSent
<1> QED
  BY <1>3, <1>4, <1>5, <1>6

-----------------------------------------------------------------------------
(* A drained Silver equals the source *)

\* Once all that is sent is acknowledged, every record is in Bronze, if the
\* cleaner has removed none that was not.
LEMMA DrainedRecords ==
    ASSUME TypeOK, Drained, AckedIsPersisted, cleaned \subseteq bronze,
           NEW r \in Records
    PROVE  \E m \in bronze: RecordAt(m) = r
<1>1. PICK m \in Coordinates: RecordAt(m) = r
  BY DEF Records, LogRecords, Drained
<1>2. m = <<m[1], m[2]>> /\ m[1] \in Partitions /\ m[2] \in 1..Len(topic[m[1]])
  BY RecordTyped
<1>3. m[2] \in 1..committed[m[1]]
  BY <1>2 DEF Drained
<1>4. m \in bronze \cup cleaned
  BY <1>2, <1>3 DEF AckedIsPersisted
<1> QED
  BY <1>1, <1>4

\* Silver is at least as new as every data record of its customer, then.
LEMMA DrainedIsNewest ==
    ASSUME TypeOK, FoldInv, Drained, AckedIsPersisted, cleaned \subseteq bronze,
           RecordInv, NEW k \in Customers, NEW r \in DataOf(Records, k)
    PROVE  r.lsn <= silver[k].lsn
<1>1. r \in Records /\ r.key = k /\ r.op # "t"
  BY DEF DataOf
<1>2. PICK m \in bronze: RecordAt(m) = r
  BY <1>1, DrainedRecords
<1>3. m \in DataEvents(bronze, k)
  BY <1>1, <1>2 DEF DataEvents
<1>4. ~Newer(r.lsn, m[2], silver[k])
  BY <1>2, <1>3 DEF FoldInv, SilverFoldsBronze, FoldOf
<1>5. r.lsn \in Nat /\ silver[k].lsn \in Nat
  BY <1>1 DEF RecordInv, Faithful, TypeOK, Row
<1> QED
  BY <1>4, <1>5 DEF Newer

LEMMA DrainedIsExact ==
    TypeOK /\ FoldInv /\ ReplicaInv /\ ShownAsSource /\ DeliveryInv /\ AckedIsPersisted
      => (cleaned \subseteq bronze => DrainedReconciles)
<1> SUFFICES ASSUME TypeOK, FoldInv, ReplicaInv, ShownAsSource, DeliveryInv, AckedIsPersisted,
                    cleaned \subseteq bronze, Drained, NEW k \in Customers
             PROVE  Visible(k) = Source[k]
  BY DEF DrainedReconciles
<1> DEFINE last == Len(wal)
           asOf == silver[k].lsn
<1>1. /\ last \in Nat /\ wal \in Seq(Change)
      /\ asOf \in 0..last /\ Visible(k) = TableOf(wal, asOf)[k]
  BY DEF TypeOK, ShownAsSource
<1>2. Source = TableOf(wal, last) /\ Source[k] \in Nat
  BY TableNow, SourceAlwaysTyped DEF Source
<1>3. Delivered(wal, Records, last, k)
  <2>1. connector.started /\ last \in connector.stored .. connector.sent
    BY DEF Drained, DeliveryInv, TypeOK, Connector
  <2> QED
    BY <2>1 DEF DeliveryInv
<1>4. ASSUME NEW r \in DataOf(Records, k) PROVE r.lsn <= asOf /\ Faithful(wal, r)
  BY DrainedIsNewest DEF ReplicaInv, RecordInv, DataOf
<1> HIDE DEF last, asOf
<1>5. CASE Source[k] # 0
  <2>1. PICK r \in DataOf(Records, k): r.lsn >= Source[k]
    BY <1>2, <1>3, <1>5 DEF Delivered
  <2>2. asOf \in Source[k] .. last
    BY <1>1, <1>2, <1>4, <2>1 DEF Faithful, last
  <2>3. last \in 0..Len(wal)
    BY <1>1 DEF last
  <2> QED
    BY <1>1, <1>2, <1>5, <2>2, <2>3 DEF ReplicaInv, WalInv, ImagesNamed
<1>6. CASE Source[k] = 0
  <2>1. CASE asOf = 0
    BY <1>1, <1>6, <2>1 DEF TableOf
  <2>2. CASE asOf > 0
    <3>1. PICK m \in DataEvents(bronze, k): Reflects(silver[k], m)
      BY <2>2 DEF FoldInv, SilverFoldsBronze, FoldOf, asOf
    <3>2. m \in Coordinates /\ RecordAt(m).key = k /\ RecordAt(m).op # "t"
      BY <3>1 DEF DataEvents, FoldInv, OnlyTopicRecords
    <3>3. RecordAt(m) \in DataOf(Records, k) /\ RecordAt(m).lsn = asOf
      BY <3>1, <3>2 DEF Records, LogRecords, DataOf, Reflects, asOf
    <3>4. RecordAt(m).op = "d"
      <4>1. ASSUME NEW d \in DataOf(Records, k) PROVE ~(d.lsn > RecordAt(m).lsn)
        BY <1>1, <1>4, <3>3 DEF Faithful
      <4>2. RecordAt(m).lsn <= last
        BY <1>1, <3>3
      <4> QED
        BY <1>2, <1>3, <1>6, <3>3, <4>1, <4>2 DEF Delivered
    <3>5. TableOf(wal, asOf)[k] = 0
      BY <1>4, <3>2, <3>3, <3>4 DEF Faithful
    <3> QED
      BY <1>1, <1>6, <3>5
  <2> QED
    BY <1>1, <2>1, <2>2
<1> QED
  BY <1>5, <1>6

\* When the lag is zero Silver equals the source, as reconcile_customers.py
\* expects, through redelivery, restarts of the connector and of any number of
\* workers: unless the slot was lost, or the log cleaner took a record before
\* it was read (bootstrap.py creates the table topics with cleanup.policy=compact).
THEOREM DrainedEqualsSource ==
    ASSUME SlotLoss = FALSE
    PROVE  Spec => [](cleaned \subseteq bronze => DrainedReconciles)
<1>1. Init => DeliveryInv
  BY DeliveryInit
<1>2. TypeOK /\ TypeOK' /\ ReplicaInv /\ ReplicaInv' /\ DeliveryInv /\ [Next]_vars
        => DeliveryInv'
  BY DeliveryStep DEF ReplicaInv
<1>3. Spec => []DeliveryInv
  BY <1>1, <1>2, RecordsAreFaithful, PTL DEF Spec
<1>4. TypeOK /\ FoldInv /\ ReplicaInv /\ DeliveryInv /\ AckedIsPersisted
        => (cleaned \subseteq bronze => DrainedReconciles)
  BY SilverShows, DrainedIsExact
<1> QED
  BY <1>3, <1>4, RecordsAreFaithful, AckedPersisted, PTL

\* Without compaction the property needs no such condition.
THEOREM DrainedEqualsSourceUncompacted ==
    ASSUME SlotLoss = FALSE, Compaction = FALSE
    PROVE  Spec => []DrainedReconciles
<1>1. Init => cleaned = {}
  BY DEF Init
<1>2. cleaned = {} /\ [Next]_vars => (cleaned = {})'
  BY DEF Next, Feed, Work, vars, feedVars, SourceChange, StartSnapshot, SendSnapshotRow,
         StreamChange, StoreSourceOffset, RestartConnector, LoseSlot, CleanLog, Rebalance, Start,
         Stop, Evict, Die, Poll, ApplyMessage, CommitBatch, AckBatch, AckRefused, DeadlockVictim
<1>3. (cleaned \subseteq bronze => DrainedReconciles) /\ cleaned = {} => DrainedReconciles
  OBVIOUS
<1> QED
  BY <1>1, <1>2, <1>3, DrainedEqualsSource, PTL DEF Spec

=============================================================================
