------------------------- MODULE OrderStream_proofs -------------------------
(***************************************************************************)
(* Proofs about OrderStream, for any orders, any versions, topics of any   *)
(* length and any number of crashes.                                       *)
(***************************************************************************)
EXTENDS OrderStream, WellFoundedInduction, SequenceTheorems, TLAPS

InHistory(o) == \E row \in history: IdOf(row) = IdAt(o)
InDeadLetters(o) == \E row \in dlq: row.offset = o
Covered(h) == \E row \in current: row.order = h.order /\ row.version >= h.version

\* The batch is the part of the log behind the checkpoint.
OffsetsOrdered == done <= planned /\ planned <= Len(log)

\* What of the batch is in the tables after each of the three commits.
BatchProgress ==
    /\ stage \in {"history", "current", "returned"} =>
         \A o \in Batch: log[o].kind = "valid" => InHistory(o)
    /\ stage = "returned" =>
         \A o \in Batch: log[o].kind = "malformed" => InDeadLetters(o)

BehindCheckpoint ==
    \A o \in 1..done: /\ log[o].kind = "valid" => InHistory(o)
                      /\ log[o].kind = "malformed" => InDeadLetters(o)

\* A history row that current_orders does not reflect yet comes from a batch
\* that will be merged again.
NewestInv ==
    /\ \A h \in history: \/ Covered(h)
                         \/ \E o \in Batch: log[o].kind = "valid" /\ IdAt(o) = IdOf(h)
    /\ stage \in {"current", "returned"} => \A h \in history: Covered(h)

StreamInv ==
    /\ OffsetsOrdered
    /\ BatchProgress
    /\ BehindCheckpoint
    /\ OneRowPerKey
    /\ CurrentNamesHistory
    /\ NewestInv

-----------------------------------------------------------------------------
(* The latest event of an order *)

LessThan == {pair \in Nat \X Nat : pair[1] < pair[2]}

LEMMA LeastNatural ==
    ASSUME NEW T \in SUBSET Nat, T # {}
    PROVE  \E n \in T: \A m \in T: n <= m
  <1>1. IsWellFoundedOn(LessThan, Nat)
    BY NatLessThanWellFounded DEF OpToRel, LessThan
  <1>2. PICK n \in T: \A m \in T: <<m, n>> \notin LessThan
    BY <1>1, WFMin, Zenon
  <1>3. \A m \in T: ~(m < n)
    BY <1>2 DEF LessThan
  <1> QED
    BY <1>3

LEMMA LogTyped ==
    ASSUME TypeOK
    PROVE  /\ Len(log) \in Nat
           /\ \A o \in 1..Len(log): /\ log[o] \in Event /\ log[o].kind \in Kinds
                                    /\ log[o].order \in OrderIds
                                    /\ log[o].version \in Versions /\ log[o].version \in Nat
  <1>1. log \in [1..Len(log) -> Event] /\ Len(log) \in Nat
    BY LenProperties DEF TypeOK
  <1>2. \A e \in Event: /\ e.kind \in Kinds /\ e.order \in OrderIds
                        /\ e.version \in Versions /\ e.version \in Nat
    BY VersionsAreNumbers DEF Event
  <1>3. \A o \in 1..Len(log): log[o] \in Event
    BY <1>1
  <1> QED
    BY <1>1, <1>2, <1>3, Zenon

\* The row_number() of a batch finds a latest event for every order in it.
LEMMA LatestExists ==
    ASSUME TypeOK, NEW offsets \in SUBSET (1..Len(log)), NEW o \in offsets
    PROVE  \E l \in LatestOf(offsets):
              log[l].order = log[o].order /\ log[l].version >= log[o].version
  <1> DEFINE Found(S, a) == \E l \in LatestOf(S):
                log[l].order = log[a].order /\ log[l].version >= log[a].version
             Bad == {n \in Nat : n <= Len(log)
                                 /\ \E S \in SUBSET (1..n): \E a \in S: ~Found(S, a)}
  <1> HIDE DEF Found, Bad
  <1>1. SUFFICES Bad = {}
    BY <1>1, LogTyped DEF Bad, Found
  <1>2. SUFFICES ASSUME Bad # {} PROVE FALSE
    OBVIOUS
  <1>3. PICK n \in Bad: \A m \in Bad: n <= m
    <2>1. Bad \in SUBSET Nat
      BY DEF Bad
    <2> QED
      BY <1>2, <2>1, LeastNatural, Zenon
  <1> PICK S \in SUBSET (1..n): \E a \in S: ~Found(S, a)
    BY DEF Bad
  <1>4. PICK a \in S: ~Found(S, a)
    OBVIOUS
  <1>5. /\ n \in Nat /\ n <= Len(log) /\ n # 0 /\ n - 1 \in Nat /\ n - 1 <= Len(log)
        /\ Len(log) \in Nat
        /\ \A b \in S: b \in 1..Len(log) /\ log[b].version \in Nat
    BY <1>4, LogTyped DEF Bad
  <1>6. \A R \in SUBSET (1..n - 1): \A b \in R: Found(R, b)
    <2>1. n - 1 \notin Bad
      BY <1>3, <1>5
    <2> QED
      BY <1>5, <2>1 DEF Bad
  <1>7. n \in S
    <2> SUFFICES ASSUME n \notin S PROVE FALSE
      OBVIOUS
    <2>1. S \in SUBSET (1..n - 1)
      BY <1>5
    <2> QED
      BY <1>4, <1>6, <2>1
  <1> DEFINE R == S \ {n}
  <1>8. R \in SUBSET (1..n - 1)
    BY <1>5
  <1>9. CASE log[a].order = log[n].order
    <2>1. CASE \A b \in R: log[b].order # log[n].order
      <3>1. n \in LatestOf(S) /\ a = n
        BY <1>4, <1>5, <1>7, <1>9, <2>1 DEF LatestOf
      <3> QED
        BY <1>4, <1>5, <1>7, <3>1 DEF Found
    <2>2. ASSUME NEW b \in R, log[b].order = log[n].order PROVE FALSE
      <3>1. PICK l \in LatestOf(R): log[l].order = log[n].order
        BY <1>6, <1>8, <2>2 DEF Found
      <3>2. /\ l \in R /\ l \in S /\ l < n
            /\ \A x \in R: log[x].order = log[n].order =>
                 \/ log[x].version < log[l].version
                 \/ log[x].version = log[l].version /\ x <= l
        BY <1>5, <1>8, <3>1 DEF LatestOf
      <3>5. /\ l \in Nat /\ log[l].version \in Nat /\ log[n].version \in Nat
            /\ log[a].version \in Nat
        <4>1. l \in S /\ n \in S /\ a \in S
          BY <1>4, <1>7, <3>2, Zenon
        <4>2. /\ l \in 1..Len(log) /\ log[l].version \in Nat /\ log[n].version \in Nat
              /\ log[a].version \in Nat
          BY <1>5, <4>1, Zenon
        <4> QED
          BY <1>5, <4>2
      <3>3. CASE log[n].version >= log[l].version
        <4>1. ASSUME NEW x \in S, log[x].order = log[n].order
              PROVE  \/ log[x].version < log[n].version
                     \/ log[x].version = log[n].version /\ x <= n
          <5>1. log[x].version \in Nat /\ x \in Nat /\ x <= n
            BY <1>5
          <5>2. CASE x = n
            BY <1>5, <5>1, <5>2
          <5>3. CASE x # n
            <6>1. \/ log[x].version < log[l].version
                  \/ log[x].version = log[l].version /\ x <= l
              BY <3>2, <4>1, <5>3
            <6> QED
              BY <3>3, <3>5, <5>1, <6>1
          <5> QED
            BY <5>2, <5>3
        <4>2. n \in LatestOf(S)
          BY <1>7, <4>1 DEF LatestOf
        <4>3. log[n].version >= log[a].version
          BY <1>4, <1>9, <3>5, <4>1
        <4> QED
          BY <1>4, <1>9, <4>2, <4>3 DEF Found
      <3>4. CASE ~(log[n].version >= log[l].version)
        <4>1. \A x \in S: log[x].order = log[n].order =>
                 \/ log[x].version < log[l].version
                 \/ log[x].version = log[l].version /\ x <= l
          BY <3>2, <3>4, <3>5
        <4>2. l \in LatestOf(S)
          BY <3>1, <3>2, <4>1 DEF LatestOf
        <4>3. log[l].version >= log[a].version
          BY <1>4, <1>9, <3>5, <4>1
        <4> QED
          BY <1>4, <1>9, <3>1, <4>2, <4>3 DEF Found
      <3> QED
        BY <3>3, <3>4
    <2> QED
      BY <2>1, <2>2
  <1>10. CASE log[a].order # log[n].order
    <2>1. a \in R
      BY <1>4, <1>10
    <2>2. PICK l \in LatestOf(R): log[l].order = log[a].order /\ log[l].version >= log[a].version
      BY <1>6, <1>8, <2>1 DEF Found
    <2>3. l \in LatestOf(S)
      BY <1>10, <2>2 DEF LatestOf
    <2> QED
      BY <1>4, <2>2, <2>3 DEF Found
  <1> QED
    BY <1>9, <1>10

-----------------------------------------------------------------------------
(* Types *)

LEMMA BatchTyped ==
    ASSUME TypeOK, OffsetsOrdered
    PROVE  /\ done \in Nat /\ planned \in Nat /\ Len(log) \in Nat
           /\ Batch \in SUBSET (1..Len(log))
           /\ ValidIn(Batch) = {o \in Batch : log[o].kind = "valid"}
           /\ \A o \in Batch: log[o].kind = "malformed" => o \in InvalidIn(Batch)
  <1>1. done \in Nat /\ planned \in Nat /\ Len(log) \in Nat
    BY LogTyped DEF TypeOK
  <1>2. Batch \in SUBSET (1..Len(log))
    BY <1>1 DEF Batch, OffsetsOrdered
  <1>3. \A o \in Batch: log[o].kind \in {"valid", "malformed", "untyped"}
    BY <1>2, LogTyped, KindsAreKnown
  <1> QED
    BY <1>1, <1>2, <1>3 DEF ValidIn, InvalidIn, IsValid

LEMMA KeptTyped ==
    ASSUME TypeOK, OffsetsOrdered, NEW kept \in Deduplicated(ValidIn(Batch))
    PROVE  /\ kept \in SUBSET Batch /\ kept \in SUBSET (1..Len(log))
           /\ \A o \in kept: log[o].kind = "valid"
           /\ \A o \in Batch: log[o].kind = "valid" => \E k \in kept: IdAt(k) = IdAt(o)
           /\ \A a, b \in kept: IdAt(a) = IdAt(b) => a = b
  <1>1. /\ kept \in SUBSET ValidIn(Batch)
        /\ {IdAt(o) : o \in kept} = {IdAt(o) : o \in ValidIn(Batch)}
        /\ \A a, b \in kept: IdAt(a) = IdAt(b) => a = b
    BY DEF Deduplicated
  <1>2. \A o \in ValidIn(Batch): \E k \in kept: IdAt(k) = IdAt(o)
    BY <1>1
  <1> QED
    BY <1>1, <1>2, BatchTyped

\* A row a micro-batch writes.
HistoryRow(o) == [order |-> log[o].order, version |-> log[o].version,
                  offset |-> o, attempt |-> attempt]
CurrentRow(o) == [order |-> log[o].order, version |-> log[o].version, attempt |-> attempt]
DeadLetter(o) == [offset |-> o, attempt |-> attempt]

LEMMA RowsTyped ==
    ASSUME TypeOK, NEW o \in 1..Len(log)
    PROVE  /\ HistoryRow(o) \in [order: OrderIds, version: Versions, offset: Nat, attempt: Nat]
           /\ IdOf(HistoryRow(o)) = IdAt(o)
           /\ HistoryRow(o).order = log[o].order /\ HistoryRow(o).version = log[o].version
           /\ CurrentRow(o) \in [order: OrderIds, version: Versions, attempt: Nat]
           /\ IdOf(CurrentRow(o)) = IdAt(o)
           /\ CurrentRow(o).order = log[o].order /\ CurrentRow(o).version = log[o].version
           /\ DeadLetter(o) \in [offset: Nat, attempt: Nat] /\ DeadLetter(o).offset = o
  <1>1. /\ log[o].order \in OrderIds /\ log[o].version \in Versions /\ o \in Nat
        /\ attempt \in Nat
    BY LogTyped DEF TypeOK
  <1> QED
    BY <1>1 DEF HistoryRow, CurrentRow, DeadLetter, IdOf, IdAt

\* The rows of a set of kept events that are not yet in the history.
Fresh(kept) == IF history = {} THEN kept
               ELSE {o \in kept : \A row \in history: IdOf(row) # IdAt(o)}
Updates(kept) == {CurrentRow(o) : o \in LatestOf(kept)}

LEMMA CommitHistoryShape ==
    ASSUME CommitHistory
    PROVE  \E kept \in Deduplicated(ValidIn(Batch)):
              history' = history \cup {HistoryRow(o) : o \in Fresh(kept)}
  BY DEF CommitHistory, Fresh, HistoryRow

LEMMA CommitCurrentShape ==
    ASSUME CommitCurrent
    PROVE  \E kept \in Deduplicated(ValidIn(Batch)):
              current' = {old \in current : ~\E new \in Updates(kept): Replaces(new, old)}
                         \cup {new \in Updates(kept) :
                                 \/ ~\E old \in current: old.order = new.order
                                 \/ \E old \in current: Replaces(new, old)}
  BY DEF CommitCurrent, MergedCurrent, Updates, CurrentRow

LEMMA CommitDeadLettersShape ==
    ASSUME CommitDeadLetters
    PROVE  dlq' = dlq \cup {DeadLetter(o) :
                              o \in {i \in InvalidIn(Batch) : \A row \in dlq: row.offset # i}}
  BY DEF CommitDeadLetters, DeadLetter

LEMMA StepTyped ==
    ASSUME TypeOK, OffsetsOrdered, [Next]_vars
    PROVE  TypeOK' /\ OffsetsOrdered'
  <1> USE DEF TypeOK, OffsetsOrdered
  <1>1. ASSUME NEW e \in Event, Produce(e) PROVE TypeOK' /\ OffsetsOrdered'
    <2>1. log' \in Seq(Event) /\ Len(log') = Len(log) + 1
      BY <1>1, AppendProperties DEF Produce
    <2> QED
      BY <1>1, <2>1, LogTyped DEF Produce
  <1>2. CASE StartQuery BY <1>2 DEF StartQuery
  <1>3. CASE TriggerBatch BY <1>3, LogTyped DEF TriggerBatch
  <1>4. CASE CommitHistory
    <2>1. PICK kept \in Deduplicated(ValidIn(Batch)):
             history' = history \cup {HistoryRow(o) : o \in Fresh(kept)}
      BY <1>4, CommitHistoryShape
    <2>2. \A o \in Fresh(kept): o \in 1..Len(log)
      BY KeptTyped DEF Fresh
    <2>3. history' \in SUBSET [order: OrderIds, version: Versions, offset: Nat, attempt: Nat]
      BY <2>1, <2>2, RowsTyped
    <2> QED
      BY <1>4, <2>3 DEF CommitHistory
  <1>5. CASE CommitCurrent
    <2>1. PICK kept \in Deduplicated(ValidIn(Batch)):
             current' \subseteq current \cup Updates(kept)
      BY <1>5, CommitCurrentShape
    <2>2. \A o \in LatestOf(kept): o \in 1..Len(log)
      BY KeptTyped DEF LatestOf
    <2>3. current' \in SUBSET [order: OrderIds, version: Versions, attempt: Nat]
      BY <2>1, <2>2, RowsTyped DEF Updates
    <2> QED
      BY <1>5, <2>3 DEF CommitCurrent
  <1>6. CASE CommitDeadLetters
    <2>1. \A o \in InvalidIn(Batch): o \in 1..Len(log)
      BY BatchTyped DEF InvalidIn
    <2>2. dlq' \in SUBSET [offset: Nat, attempt: Nat]
      BY <1>6, <2>1, CommitDeadLettersShape, RowsTyped
    <2> QED
      BY <1>6, <2>2 DEF CommitDeadLetters
  <1>7. CASE Checkpoint BY <1>7, LogTyped DEF Checkpoint
  <1>8. CASE Crash BY <1>8 DEF Crash
  <1>9. CASE UNCHANGED vars BY <1>9 DEF vars
  <1> QED
    BY <1>1, <1>2, <1>3, <1>4, <1>5, <1>6, <1>7, <1>8, <1>9 DEF Next, QueryStep

LEMMA InitTyped == Init => TypeOK /\ OffsetsOrdered
  <1>1. <<>> \in Seq(Event) /\ Len(<<>>) = 0
    BY EmptySeq
  <1> QED
    BY <1>1 DEF Init, TypeOK, OffsetsOrdered

\* Every variable keeps its type, and the checkpoint never runs ahead of the
\* planned range nor that ahead of the topic.  (order_stream.py:374-383)
THEOREM TypeCorrect == Spec => [](TypeOK /\ OffsetsOrdered)
  BY InitTyped, StepTyped, PTL DEF Spec

-----------------------------------------------------------------------------
(* The step of each table *)

\* The actions that write no table and keep the topic as far as it was planned.
LEMMA TopicGrows ==
    ASSUME TypeOK, OffsetsOrdered, NEW e \in Event, Produce(e)
    PROVE  /\ UNCHANGED <<planned, done, stage, attempt, history, current, dlq>>
           /\ Len(log) <= Len(log')
           /\ \A o \in 1..Len(log): log'[o] = log[o]
  BY AppendProperties, LogTyped DEF Produce, TypeOK

\* A batch adds to the history what it lacks, once.
LEMMA HistoryCommitted ==
    ASSUME TypeOK, StreamInv, CommitHistory
    PROVE  /\ history \subseteq history'
           /\ \A a, b \in history': IdOf(a) = IdOf(b) => a = b
           /\ \A o \in Batch: log[o].kind = "valid" => \E row \in history': IdOf(row) = IdAt(o)
           /\ \A row \in history' \ history:
                 \E o \in Batch: log[o].kind = "valid" /\ IdAt(o) = IdOf(row)
  <1>1. PICK kept \in Deduplicated(ValidIn(Batch)):
           history' = history \cup {HistoryRow(o) : o \in Fresh(kept)}
    BY CommitHistoryShape
  <1>2. /\ kept \in SUBSET Batch /\ kept \in SUBSET (1..Len(log))
        /\ \A o \in kept: log[o].kind = "valid"
        /\ \A o \in Batch: log[o].kind = "valid" => \E k \in kept: IdAt(k) = IdAt(o)
        /\ \A a, b \in kept: IdAt(a) = IdAt(b) => a = b
    BY KeptTyped DEF StreamInv
  <1>3. \A o \in kept: IdOf(HistoryRow(o)) = IdAt(o)
    BY <1>2, RowsTyped
  <1>4. /\ Fresh(kept) \subseteq kept
        /\ \A o \in Fresh(kept): \A row \in history: IdOf(row) # IdAt(o)
        /\ \A o \in kept \ Fresh(kept): \E row \in history: IdOf(row) = IdAt(o)
    BY DEF Fresh
  <1>5. \A a, b \in history: IdOf(a) = IdOf(b) => a = b
    BY DEF StreamInv, OneRowPerKey
  <1>6. ASSUME NEW a \in history', NEW b \in history', IdOf(a) = IdOf(b) PROVE a = b
    BY <1>1, <1>2, <1>3, <1>4, <1>5, <1>6
  <1>7. ASSUME NEW o \in Batch, log[o].kind = "valid"
        PROVE  \E row \in history': IdOf(row) = IdAt(o)
    <2>1. PICK k \in kept: IdAt(k) = IdAt(o)
      BY <1>2, <1>7
    <2>2. CASE k \in Fresh(kept)
      BY <1>1, <1>3, <2>1, <2>2
    <2>3. CASE k \notin Fresh(kept)
      BY <1>1, <1>4, <2>1, <2>3
    <2> QED
      BY <2>2, <2>3
  <1> QED
    BY <1>1, <1>2, <1>3, <1>4, <1>6, <1>7

\* Merging the latest kept events: one row per order remains, none goes back,
\* and every valid event of the batch is reflected.
LEMMA CurrentCommitted ==
    ASSUME TypeOK, StreamInv, CommitCurrent
    PROVE  /\ \A a, b \in current': a.order = b.order => a = b
           /\ \A row \in current': \/ row \in current
                                   \/ \E o \in Batch: log[o].kind = "valid" /\ IdAt(o) = IdOf(row)
           /\ \A old \in current: \E row \in current':
                 row.order = old.order /\ row.version >= old.version
           /\ \A o \in Batch: log[o].kind = "valid" =>
                 \E row \in current': row.order = log[o].order /\ row.version >= log[o].version
  <1>1. PICK kept \in Deduplicated(ValidIn(Batch)):
           current' = {old \in current : ~\E new \in Updates(kept): Replaces(new, old)}
                      \cup {new \in Updates(kept) :
                              \/ ~\E old \in current: old.order = new.order
                              \/ \E old \in current: Replaces(new, old)}
    BY CommitCurrentShape
  <1>2. /\ kept \in SUBSET Batch /\ kept \in SUBSET (1..Len(log))
        /\ \A o \in kept: log[o].kind = "valid"
        /\ \A o \in Batch: log[o].kind = "valid" => \E k \in kept: IdAt(k) = IdAt(o)
    BY KeptTyped DEF StreamInv
  <1>3. \A o \in LatestOf(kept):
           /\ o \in kept /\ o \in 1..Len(log) /\ log[o].version \in Nat
           /\ IdOf(CurrentRow(o)) = IdAt(o)
           /\ CurrentRow(o).order = log[o].order /\ CurrentRow(o).version = log[o].version
    BY <1>2, RowsTyped, LogTyped DEF LatestOf
  <1>4. \A new \in Updates(kept): \E o \in LatestOf(kept):
           new = CurrentRow(o)
    BY DEF Updates
  <1>5. \A row \in current: row.version \in Nat
    BY VersionsAreNumbers DEF TypeOK
  <1>6. \A new \in Updates(kept): new.version \in Nat
    BY <1>3, <1>4
  <1>7. \A a, b \in current: a.order = b.order => a = b
    BY DEF StreamInv, OneRowPerKey
  <1>8. ASSUME NEW a \in Updates(kept), NEW b \in Updates(kept), a.order = b.order PROVE a = b
    <2>1. PICK x \in LatestOf(kept), y \in LatestOf(kept): a = CurrentRow(x) /\ b = CurrentRow(y)
      BY <1>4
    <2>2. log[x].order = log[y].order /\ x \in kept /\ y \in kept
          /\ log[x].version \in Nat /\ log[y].version \in Nat /\ x \in Nat /\ y \in Nat
      BY <1>3, <1>8, <2>1
    <2>3. /\ log[y].version < log[x].version \/ (log[y].version = log[x].version /\ y <= x)
          /\ log[x].version < log[y].version \/ (log[x].version = log[y].version /\ x <= y)
      BY <2>2 DEF LatestOf
    <2>4. x = y
      BY <2>2, <2>3
    <2> QED
      BY <2>1, <2>4
  <1>9. ASSUME NEW a \in current', NEW b \in current', a.order = b.order PROVE a = b
    BY <1>1, <1>7, <1>8, <1>9 DEF Replaces
  <1>10. ASSUME NEW row \in current'
         PROVE  \/ row \in current
                \/ \E o \in Batch: log[o].kind = "valid" /\ IdAt(o) = IdOf(row)
    BY <1>1, <1>2, <1>3, <1>4
  <1>11. ASSUME NEW new \in Updates(kept)
         PROVE  \E row \in current': row.order = new.order /\ row.version >= new.version
    <2>1. CASE new \in current'
      BY <1>6, <2>1
    <2>2. CASE new \notin current'
      <3>1. PICK old \in current: old.order = new.order /\ ~Replaces(new, old)
        BY <1>1, <2>2
      <3>2. old.version > new.version
        BY <1>5, <1>6, <3>1 DEF Replaces
      <3>3. \A other \in Updates(kept): ~Replaces(other, old)
        BY <1>8, <3>1 DEF Replaces
      <3>4. old \in current'
        BY <1>1, <3>3
      <3> QED
        BY <1>5, <1>6, <3>1, <3>2, <3>4
    <2> QED
      BY <2>1, <2>2
  <1>12. ASSUME NEW old \in current
         PROVE  \E row \in current': row.order = old.order /\ row.version >= old.version
    <2>1. CASE old \in current'
      BY <1>5, <2>1
    <2>2. CASE old \notin current'
      <3>1. PICK new \in Updates(kept): new.order = old.order /\ new.version >= old.version
        BY <1>1, <2>2 DEF Replaces
      <3>2. PICK row \in current': row.order = new.order /\ row.version >= new.version
        BY <1>11
      <3>3. row.version \in Nat
        BY <1>1, <1>5, <1>6
      <3> QED
        BY <1>5, <1>6, <3>1, <3>2, <3>3
    <2> QED
      BY <2>1, <2>2
  <1>13. ASSUME NEW o \in Batch, log[o].kind = "valid"
         PROVE  \E row \in current': row.order = log[o].order /\ row.version >= log[o].version
    <2>1. PICK k \in kept: IdAt(k) = IdAt(o)
      BY <1>2, <1>13
    <2>2. log[k].order = log[o].order /\ log[k].version = log[o].version
      BY <2>1 DEF IdAt
    <2>3. PICK l \in LatestOf(kept):
             log[l].order = log[k].order /\ log[l].version >= log[k].version
      BY <1>2, LatestExists
    <2>4. CurrentRow(l) \in Updates(kept)
      BY DEF Updates
    <2>5. PICK row \in current': row.order = log[l].order /\ row.version >= log[l].version
      BY <1>3, <1>11, <2>4
    <2>6. row.version \in Nat /\ log[l].version \in Nat /\ log[k].version \in Nat
      BY <1>1, <1>2, <1>3, <1>5, <1>6, LogTyped
    <2> QED
      BY <2>2, <2>3, <2>5, <2>6
  <1> QED
    BY <1>9, <1>10, <1>12, <1>13

LEMMA DeadLettersCommitted ==
    ASSUME TypeOK, StreamInv, CommitDeadLetters
    PROVE  /\ dlq \subseteq dlq'
           /\ \A a, b \in dlq': a.offset = b.offset => a = b
           /\ \A o \in Batch: log[o].kind = "malformed" => \E row \in dlq': row.offset = o
  <1> DEFINE new == {i \in InvalidIn(Batch) : \A row \in dlq: row.offset # i}
  <1>1. dlq' = dlq \cup {DeadLetter(o) : o \in new}
    BY CommitDeadLettersShape
  <1>2. \A o \in new: DeadLetter(o).offset = o
    BY DEF DeadLetter
  <1>3. \A o \in Batch: log[o].kind = "malformed" => o \in InvalidIn(Batch)
    BY BatchTyped DEF StreamInv
  <1>4. \A a, b \in dlq: a.offset = b.offset => a = b
    BY DEF StreamInv, OneRowPerKey
  <1> QED
    BY <1>1, <1>2, <1>3, <1>4

-----------------------------------------------------------------------------
(* The inductive invariant *)

LEMMA StepKeepsInv == ASSUME TypeOK, StreamInv, [Next]_vars PROVE StreamInv'
  <1>1. OffsetsOrdered' /\ TypeOK'
    BY StepTyped DEF StreamInv
  <1>2. /\ done \in Nat /\ planned \in Nat /\ Len(log) \in Nat
        /\ Batch \in SUBSET (1..Len(log)) /\ 1..done \in SUBSET (1..Len(log))
    BY BatchTyped DEF StreamInv, OffsetsOrdered
  <1> USE DEF InHistory, InDeadLetters, Covered
  <1>3. ASSUME NEW e \in Event, Produce(e) PROVE StreamInv'
    <2>1. /\ UNCHANGED <<planned, done, stage, history, current, dlq>>
          /\ \A o \in 1..Len(log): log'[o] = log[o]
          /\ Batch' = Batch
      BY <1>3, TopicGrows DEF StreamInv, Batch
    <2>2. \A o \in 1..Len(log): IdAt(o)' = IdAt(o)
      BY <2>1 DEF IdAt
    <2>3. BatchProgress' /\ BehindCheckpoint'
      BY <1>2, <2>1, <2>2 DEF StreamInv, BatchProgress, BehindCheckpoint
    <2>4. NewestInv'
      BY <1>2, <2>1, <2>2 DEF StreamInv, NewestInv
    <2>5. OneRowPerKey' /\ CurrentNamesHistory'
      BY <2>1 DEF StreamInv, OneRowPerKey, CurrentNamesHistory
    <2> QED
      BY <1>1, <2>3, <2>4, <2>5 DEF StreamInv
  <1>4. CASE StartQuery \/ Crash \/ UNCHANGED vars
    <2>1. /\ UNCHANGED <<log, planned, done, history, current, dlq>>
          /\ stage' \in {"idle", "stopped", stage}
      BY <1>4 DEF StartQuery, Crash, vars
    <2> QED
      BY <1>1, <2>1 DEF StreamInv, BatchProgress, BehindCheckpoint, OneRowPerKey,
                        CurrentNamesHistory, NewestInv, Batch, IdAt
  <1>5. CASE TriggerBatch
    <2>1. /\ UNCHANGED <<log, done, history, current, dlq>>
          /\ stage' = "split" /\ planned' \in Nat /\ planned <= planned'
      BY <1>2, <1>5 DEF TriggerBatch
    <2>2. Batch \subseteq Batch'
      BY <1>2, <2>1 DEF Batch
    <2>3. NewestInv'
      BY <2>1, <2>2 DEF StreamInv, NewestInv, IdAt
    <2> QED
      BY <1>1, <2>1, <2>3 DEF StreamInv, BatchProgress, BehindCheckpoint, OneRowPerKey,
                              CurrentNamesHistory, IdAt
  <1>6. CASE CommitHistory
    <2>1. UNCHANGED <<log, planned, done, current, dlq>> /\ stage' = "history"
      BY <1>6 DEF CommitHistory
    <2>2. Batch' = Batch /\ \A o: IdAt(o)' = IdAt(o)
      BY <2>1 DEF Batch, IdAt
    <2>3. /\ history \subseteq history'
          /\ \A a, b \in history': IdOf(a) = IdOf(b) => a = b
          /\ \A o \in Batch: log[o].kind = "valid" => \E row \in history': IdOf(row) = IdAt(o)
          /\ \A row \in history' \ history:
                \E o \in Batch: log[o].kind = "valid" /\ IdAt(o) = IdOf(row)
      BY <1>6, HistoryCommitted
    <2>4. BatchProgress' /\ BehindCheckpoint'
      BY <2>1, <2>2, <2>3 DEF StreamInv, BatchProgress, BehindCheckpoint
    <2>5. OneRowPerKey' /\ CurrentNamesHistory'
      BY <2>1, <2>3 DEF StreamInv, OneRowPerKey, CurrentNamesHistory
    <2>6. NewestInv'
      BY <2>1, <2>2, <2>3 DEF StreamInv, NewestInv
    <2> QED
      BY <1>1, <2>4, <2>5, <2>6 DEF StreamInv
  <1>7. CASE CommitCurrent
    <2>1. /\ UNCHANGED <<log, planned, done, history, dlq>>
          /\ stage = "history" /\ stage' = "current"
      BY <1>7 DEF CommitCurrent
    <2>2. Batch' = Batch /\ \A o: IdAt(o)' = IdAt(o)
      BY <2>1 DEF Batch, IdAt
    <2>3. /\ \A a, b \in current': a.order = b.order => a = b
          /\ \A row \in current': \/ row \in current
                                  \/ \E o \in Batch: log[o].kind = "valid" /\ IdAt(o) = IdOf(row)
          /\ \A old \in current: \E row \in current':
                row.order = old.order /\ row.version >= old.version
          /\ \A o \in Batch: log[o].kind = "valid" =>
                \E row \in current': row.order = log[o].order /\ row.version >= log[o].version
      BY <1>7, CurrentCommitted
    <2>4. BatchProgress' /\ BehindCheckpoint'
      BY <2>1, <2>2 DEF StreamInv, BatchProgress, BehindCheckpoint
    <2>5. \A o \in Batch: log[o].kind = "valid" => InHistory(o)
      BY <2>1 DEF StreamInv, BatchProgress
    <2>6. OneRowPerKey' /\ CurrentNamesHistory'
      BY <2>1, <2>3, <2>5 DEF StreamInv, OneRowPerKey, CurrentNamesHistory
    <2>7. ASSUME NEW h \in history PROVE Covered(h)'
      <3>1. h.version \in Nat /\ \A row \in current \cup current': row.version \in Nat
        BY <1>1, VersionsAreNumbers DEF TypeOK
      <3>2. CASE Covered(h)
        <4>1. PICK old \in current: old.order = h.order /\ old.version >= h.version
          BY <3>2
        <4>2. PICK row \in current': row.order = old.order /\ row.version >= old.version
          BY <2>3
        <4> QED
          BY <3>1, <4>1, <4>2
      <3>3. CASE ~Covered(h)
        <4>1. PICK o \in Batch: log[o].kind = "valid" /\ IdAt(o) = IdOf(h)
          BY <3>3 DEF StreamInv, NewestInv
        <4>2. log[o].order = h.order /\ log[o].version = h.version
          BY <4>1 DEF IdAt, IdOf
        <4> QED
          BY <2>3, <4>1, <4>2
      <3> QED
        BY <3>2, <3>3
    <2>8. NewestInv'
      BY <2>1, <2>7 DEF NewestInv
    <2> QED
      BY <1>1, <2>4, <2>6, <2>8 DEF StreamInv
  <1>8. CASE CommitDeadLetters
    <2>1. /\ UNCHANGED <<log, planned, done, history, current>>
          /\ stage = "current" /\ stage' = "returned"
      BY <1>8 DEF CommitDeadLetters
    <2>2. Batch' = Batch /\ \A o: IdAt(o)' = IdAt(o)
      BY <2>1 DEF Batch, IdAt
    <2>3. /\ dlq \subseteq dlq'
          /\ \A a, b \in dlq': a.offset = b.offset => a = b
          /\ \A o \in Batch: log[o].kind = "malformed" => \E row \in dlq': row.offset = o
      BY <1>8, DeadLettersCommitted
    <2>4. BatchProgress' /\ BehindCheckpoint'
      BY <2>1, <2>2, <2>3 DEF StreamInv, BatchProgress, BehindCheckpoint
    <2>5. OneRowPerKey' /\ CurrentNamesHistory' /\ NewestInv'
      BY <2>1, <2>2, <2>3 DEF StreamInv, OneRowPerKey, CurrentNamesHistory, NewestInv
    <2> QED
      BY <1>1, <2>4, <2>5 DEF StreamInv
  <1>9. CASE Checkpoint
    <2>1. /\ UNCHANGED <<log, planned, history, current, dlq>>
          /\ stage = "returned" /\ stage' = "idle" /\ done' = planned
      BY <1>9 DEF Checkpoint
    <2>2. Batch' = {} /\ \A o: IdAt(o)' = IdAt(o)
      BY <1>2, <2>1 DEF Batch, IdAt
    <2>3. \A o \in 1..planned: o \in 1..done \/ o \in Batch
      BY <1>2 DEF Batch
    <2>4. BatchProgress' /\ BehindCheckpoint'
      BY <2>1, <2>2, <2>3 DEF StreamInv, BatchProgress, BehindCheckpoint
    <2>5. OneRowPerKey' /\ CurrentNamesHistory' /\ NewestInv'
      BY <2>1 DEF StreamInv, OneRowPerKey, CurrentNamesHistory, NewestInv
    <2> QED
      BY <1>1, <2>4, <2>5 DEF StreamInv
  <1> QED
    BY <1>3, <1>4, <1>5, <1>6, <1>7, <1>8, <1>9 DEF Next, QueryStep

LEMMA InitInv == Init => StreamInv
  <1>1. Init => OffsetsOrdered
    BY InitTyped
  <1> QED
    BY <1>1 DEF Init, StreamInv, BatchProgress, BehindCheckpoint, OneRowPerKey,
                CurrentNamesHistory, NewestInv, Batch

LEMMA Inductive == Spec => []StreamInv
  <1>1. TypeOK /\ StreamInv /\ [Next]_vars => StreamInv'
    BY StepKeepsInv
  <1> QED
    BY InitInv, TypeCorrect, <1>1, PTL DEF Spec

\* Replaying a range after a crash between any two table commits duplicates no
\* event, order or dead letter.  (order_stream.py:221, 261-274, 298-337)
THEOREM ReplaySafe == Spec => []OneRowPerKey
  <1>1. StreamInv => OneRowPerKey
    BY DEF StreamInv
  <1> QED
    BY <1>1, Inductive, PTL

\* No order of current_orders refers to an event the history lacks.
\* (order_stream.py:207-212, the order of the commits)
THEOREM CurrentRefersToHistory == Spec => []CurrentNamesHistory
  <1>1. StreamInv => CurrentNamesHistory
    BY DEF StreamInv
  <1> QED
    BY <1>1, Inductive, PTL

\* Whenever no range waits to be run again, current_orders reflects the newest
\* version of every order in the history, however late an older one arrived.
\* (order_stream.py:276-312, the window and WHEN MATCHED AND)
THEOREM CurrentReflectsHistory == Spec => []CurrentIsNewest
  <1>1. TypeOK /\ StreamInv => CurrentIsNewest
    <2> SUFFICES ASSUME TypeOK, StreamInv, planned = done, NEW h \in history
                 PROVE  Covered(h)
      BY DEF CurrentIsNewest, Covered
    <2>1. Batch = {}
      BY DEF Batch, TypeOK
    <2> QED
      BY <2>1 DEF StreamInv, NewestInv
  <1> QED
    BY <1>1, Inductive, TypeCorrect, PTL

\* If every payload has its two header fields, the checkpoint never passes a
\* record that is in neither the history nor the dead letters.
\* (order_stream.py:85-112, 221-225, is_valid and its negation)
THEOREM NothingDropped == ASSUME "untyped" \notin Kinds PROVE Spec => []NoSilentDrop
  <1>1. TypeOK /\ StreamInv => NoSilentDrop
    <2> SUFFICES ASSUME TypeOK, StreamInv, NEW o \in 1..done
                 PROVE  IF log[o].kind = "valid"
                        THEN \E row \in history: IdOf(row) = IdAt(o)
                        ELSE \E row \in dlq: row.offset = o
      BY DEF NoSilentDrop
    <2>1. o \in 1..Len(log)
      BY BatchTyped DEF StreamInv, OffsetsOrdered
    <2>2. log[o].kind \in {"valid", "malformed"}
      BY <2>1, LogTyped, KindsAreKnown
    <2> QED
      BY <2>2 DEF StreamInv, BehindCheckpoint, InHistory, InDeadLetters
  <1> QED
    BY <1>1, Inductive, TypeCorrect, PTL
=============================================================================
