---------------------- MODULE CustomerDimension_proofs ----------------------
(***************************************************************************)
(* Proofs about CustomerDimension, for any finite set of customers, any    *)
(* orders, histories of any length and any number of runs and faults.      *)
(***************************************************************************)
EXTENDS CustomerDimension, FiniteSetTheorems, SequenceTheorems, TLAPS

-----------------------------------------------------------------------------
(* The inductive invariant *)

StampsInThePast ==
    \A c \in Customers: \A i \in 1..Len(history[c]): history[c][i].stamp <= clock

\* A version is a state of the source that Silver has shown, valid from the
\* source's timestamp of it.
VersionsFromSource ==
    \A v \in versions: \E i \in 1..shown[v.customer]:
        history[v.customer][i] = [image |-> v.image, stamp |-> v.from]

\* What ended a version is at or before the state Silver shows, or that state
\* is the customer's last.
ClosedBehindSilver ==
    \A c \in Customers: Regular(c) =>
        \A v \in VersionsOf(c): v.to # None => v.to <= Silver(c).stamp \/ ~Live(Silver(c))

\* assert_dim_customer_valid_range of a regular customer.
RegularRanges ==
    \A c \in Customers: Regular(c) => \A v \in VersionsOf(c): v.to # None => v.to > v.from

DimensionInv ==
    /\ IsFiniteSet(versions)
    /\ StampsInThePast
    /\ VersionsFromSource
    /\ ClosedBehindSilver
    /\ RegularRanges
    /\ OneVersionAtATime

\* A fact joined after the last extract of its order points to versions that
\* began at or before the staged date.
FactsPointBack ==
    \A o \in Orders \ fresh: \A key \in facts[o].keys: key.resolution = "as_of" =>
        \E v \in VersionsOf(CustomerOf[o]): v.from = key.from /\ v.from <= staging[o]

\* What is below the watermark is staged as the source has it, and joined.
CommittedIsJoined ==
    /\ \A o \in Orders: window[o] \in {"committed", "extracted"} => staging[o] = placed[o]
    /\ \A o \in Orders: window[o] = "committed" => o \notin fresh
    /\ phase = "facts" => fresh = {}

FactInv == FactsPointBack /\ CommittedIsJoined

-----------------------------------------------------------------------------
(* Source states and versions *)

LEMMA HistoryTyped ==
    ASSUME TypeOK, NEW c \in Customers
    PROVE  /\ history[c] \in Seq(SourceState) /\ Len(history[c]) \in Nat
           /\ \A i \in 1..Len(history[c]): /\ history[c][i] \in SourceState
                                           /\ history[c][i].image \in Images \cup {Gone}
                                           /\ history[c][i].stamp \in Nat
           /\ shown[c] \in Nat /\ shown[c] <= Len(history[c])
  <1>1. history[c] \in Seq(SourceState) /\ shown[c] \in Nat /\ shown[c] <= Len(history[c])
    BY DEF TypeOK
  <1>2. Len(history[c]) \in Nat /\ history[c] \in [1..Len(history[c]) -> SourceState]
    BY <1>1, LenProperties
  <1>3. \A s \in SourceState: s.image \in Images \cup {Gone} /\ s.stamp \in Nat
    BY DEF SourceState
  <1> QED
    BY <1>1, <1>2, <1>3

LEMMA SilverTyped ==
    ASSUME TypeOK, NEW c \in Customers
    PROVE  /\ Silver(c) = [image |-> Silver(c).image, stamp |-> Silver(c).stamp]
           /\ Silver(c).stamp \in Nat
           /\ Live(Silver(c)) => /\ Silver(c).image \in Images /\ shown[c] \in 1..Len(history[c])
                                 /\ Silver(c) = history[c][shown[c]]
  <1>1. CASE shown[c] = 0
    BY <1>1 DEF Silver, StateAt, Live
  <1>2. CASE shown[c] # 0
    <2>1. shown[c] \in 1..Len(history[c]) /\ Silver(c) = history[c][shown[c]]
      BY <1>2, HistoryTyped DEF Silver, StateAt
    <2>2. Silver(c) \in SourceState
      BY <2>1, HistoryTyped
    <2> QED
      BY <2>1, <2>2 DEF SourceState, Live
  <1> QED
    BY <1>1, <1>2

LEMMA VersionTyped ==
    ASSUME TypeOK, NEW v \in versions
    PROVE  /\ v.customer \in Customers /\ v.image \in Images /\ v.from \in Nat
           /\ v.to \in Nat \cup {None}
           /\ v = [customer |-> v.customer, image |-> v.image, from |-> v.from, to |-> v.to]
  BY DEF TypeOK, Version

\* The UPDATE of the snapshot writes dbt_valid_to only.
LEMMA ClosedTyped ==
    ASSUME TypeOK, NEW v \in versions
    PROVE  /\ Closed(v) \in Version
           /\ Closed(v).customer = v.customer /\ Closed(v).image = v.image
           /\ Closed(v).from = v.from
           /\ v.to # None => Closed(v) = v
           /\ v.to = None =>
                \/ ~Live(Silver(v.customer)) /\ Closed(v).to = Now
                \/ /\ Live(Silver(v.customer)) /\ v.image # Silver(v.customer).image
                   /\ Closed(v).to = Silver(v.customer).stamp
                \/ /\ Live(Silver(v.customer)) /\ v.image = Silver(v.customer).image
                   /\ Closed(v) = v
  <1>1. v \in Version /\ v.customer \in Customers
    BY VersionTyped DEF TypeOK
  <1>2. Now \in Nat /\ Silver(v.customer).stamp \in Nat
    BY <1>1, SilverTyped DEF Now, TypeOK
  <1>3. \A n \in Nat: /\ [v EXCEPT !.to = n] \in Version
                      /\ [v EXCEPT !.to = n].customer = v.customer
                      /\ [v EXCEPT !.to = n].image = v.image
                      /\ [v EXCEPT !.to = n].from = v.from
                      /\ [v EXCEPT !.to = n].to = n
    BY <1>1 DEF Version
  <1>4. CASE v.to # None
    BY <1>1, <1>4 DEF Closed
  <1>5. CASE v.to = None /\ ~Live(Silver(v.customer))
    BY <1>2, <1>3, <1>5 DEF Closed
  <1>6. CASE v.to = None /\ Live(Silver(v.customer)) /\ v.image # Silver(v.customer).image
    BY <1>2, <1>3, <1>6 DEF Closed, Differs
  <1>7. CASE v.to = None /\ Live(Silver(v.customer)) /\ v.image = Silver(v.customer).image
    BY <1>1, <1>7 DEF Closed, Differs
  <1> QED
    BY <1>4, <1>5, <1>6, <1>7

LEMMA NewVersionTyped ==
    ASSUME TypeOK, NEW n \in NewVersions
    PROVE  /\ n \in Version /\ n.to = None /\ n.customer \in Customers
           /\ Live(Silver(n.customer))
           /\ n.image = Silver(n.customer).image /\ n.from = Silver(n.customer).stamp
           /\ \A v \in versions: v.customer = n.customer /\ v.to = None =>
                \E w \in versions: /\ w.customer = n.customer /\ w.to = None
                                   /\ w.image # n.image
  <1>1. PICK c \in Customers:
          /\ n = [customer |-> c, image |-> Silver(c).image, from |-> Silver(c).stamp, to |-> None]
          /\ Live(Silver(c))
          /\ OpenVersions(c) = {} \/ \E v \in OpenVersions(c): Differs(v, c)
    BY DEF NewVersions
  <1>2. n.customer = c /\ n.image = Silver(c).image /\ n.from = Silver(c).stamp /\ n.to = None
    BY <1>1
  <1>3. n \in Version
    BY <1>1, SilverTyped DEF Version
  <1> QED
    BY <1>1, <1>2, <1>3 DEF OpenVersions, Differs

-----------------------------------------------------------------------------
(* Finite sets of versions and keys *)

LEMMA FiniteImage ==
    ASSUME NEW S, NEW T, NEW f \in [S -> T], \A t \in T: \E x \in S: t = f[x], IsFiniteSet(S)
    PROVE  IsFiniteSet(T)
  <1>1. f \in Surjection(S, T)
    BY DEF Surjection
  <1> QED
    BY <1>1, FS_Surjection

LEMMA VersionsOfFinite ==
    ASSUME IsFiniteSet(versions), NEW c
    PROVE  IsFiniteSet(VersionsOf(c))
  <1>1. VersionsOf(c) \in SUBSET versions
    BY DEF VersionsOf
  <1> QED
    BY <1>1, FS_Subset

\* The keys of a set of versions.
KeysOf(V, resolution) == {[from |-> v.from, resolution |-> resolution] : v \in V}

LEMMA KeysOfFinite ==
    ASSUME TypeOK, IsFiniteSet(versions), NEW V \in SUBSET versions,
           NEW resolution \in {"as_of", "earliest_available", "unresolved"}
    PROVE  KeysOf(V, resolution) \in SUBSET Key /\ IsFiniteSet(KeysOf(V, resolution))
  <1> DEFINE f == [v \in V |-> [from |-> v.from, resolution |-> resolution]]
  <1>1. IsFiniteSet(V)
    BY FS_Subset
  <1>2. /\ f \in [V -> KeysOf(V, resolution)]
        /\ \A t \in KeysOf(V, resolution): \E v \in V: t = f[v]
    BY DEF KeysOf
  <1>3. IsFiniteSet(KeysOf(V, resolution))
    <2> HIDE DEF f
    <2> QED
      BY <1>1, <1>2, FiniteImage
  <1>4. KeysOf(V, resolution) \in SUBSET Key
    BY VersionTyped DEF KeysOf, Key
  <1> QED
    BY <1>3, <1>4

LEMMA KeysForTyped ==
    ASSUME TypeOK, IsFiniteSet(versions), NEW o \in Orders
    PROVE  /\ KeysFor(o) \in SUBSET Key
           /\ IsFiniteSet(KeysFor(o)) /\ Cardinality(KeysFor(o)) \in Nat
  <1> DEFINE mine == VersionsOf(CustomerOf[o])
             matching == {v \in mine : Covers(v, staging[o])}
             earliest == {v \in mine : /\ \A other \in mine: v.from <= other.from
                                       /\ staging[o] < v.from}
             unresolved == {[from |-> None, resolution |-> "unresolved"]}
  <1>1. matching \in SUBSET versions /\ earliest \in SUBSET versions
    BY DEF VersionsOf
  <1>2. KeysFor(o) \in {KeysOf(matching, "as_of"), KeysOf(earliest, "earliest_available"), unresolved}
    BY DEF KeysFor, KeysOf
  <1>3. unresolved \in SUBSET Key /\ IsFiniteSet(unresolved)
    <2>1. [from |-> None, resolution |-> "unresolved"] \in Key
      BY DEF Key
    <2> QED
      BY <2>1, FS_Singleton
  <1> HIDE DEF matching, earliest, unresolved
  <1>4. /\ KeysOf(matching, "as_of") \in SUBSET Key /\ IsFiniteSet(KeysOf(matching, "as_of"))
        /\ KeysOf(earliest, "earliest_available") \in SUBSET Key
        /\ IsFiniteSet(KeysOf(earliest, "earliest_available"))
    BY <1>1, KeysOfFinite
  <1>5. KeysFor(o) \in SUBSET Key /\ IsFiniteSet(KeysFor(o))
    BY <1>2, <1>3, <1>4
  <1> QED
    BY <1>5, FS_CardinalityType

LEMMA SnapshotFinite ==
    ASSUME TypeOK, IsFiniteSet(versions), Snapshot
    PROVE  versions' \in SUBSET Version /\ IsFiniteSet(versions')
  <1> DEFINE S == {d \in Customers : /\ Live(Silver(d))
                                     /\ \/ OpenVersions(d) = {}
                                        \/ \E v \in OpenVersions(d): Differs(v, d)}
             new == [c \in S |-> [customer |-> c, image |-> Silver(c).image,
                                  from |-> Silver(c).stamp, to |-> None]]
             closed == [v \in versions |-> Closed(v)]
             C == {Closed(v) : v \in versions}
  <1>1. IsFiniteSet(S)
    <2>1. S \in SUBSET Customers
      OBVIOUS
    <2> QED
      BY <2>1, FS_Subset, CustomersAreFinite
  <1>2. new \in [S -> NewVersions] /\ \A t \in NewVersions: \E c \in S: t = new[c]
    BY DEF NewVersions
  <1>3. closed \in [versions -> C] /\ \A t \in C: \E v \in versions: t = closed[v]
    OBVIOUS
  <1>4. versions' = C \cup NewVersions
    BY DEF Snapshot
  <1>5. C \in SUBSET Version /\ NewVersions \in SUBSET Version
    BY ClosedTyped, NewVersionTyped
  <1> HIDE DEF S, C, new, closed
  <1>6. IsFiniteSet(NewVersions) /\ IsFiniteSet(C)
    BY <1>1, <1>2, <1>3, FiniteImage
  <1> QED
    BY <1>4, <1>5, <1>6, FS_Union

-----------------------------------------------------------------------------
(* Type correctness *)

LEMMA DimensionTypeInit == Init => TypeOK /\ IsFiniteSet(versions)
  <1> SUFFICES ASSUME Init PROVE TypeOK /\ IsFiniteSet(versions)
    OBVIOUS
  <1>1. IsFiniteSet(versions)
    BY FS_EmptySet DEF Init
  <1>2. history \in [Customers -> Seq(SourceState)] /\ \A c \in Customers: Len(history[c]) = 0
    BY EmptySeq DEF Init
  <1>3. \A c \in Customers: shown[c] <= Len(history[c])
    BY <1>2 DEF Init
  <1> QED
    BY <1>1, <1>2, <1>3 DEF Init, TypeOK

\* A run's bookkeeping at its end or at dbt's retry.
LEMMA RunEnds ==
    ASSUME TypeOK, DbtFails \/ EndRun("changed") \/ EndRun("committed")
    PROVE  /\ phase' \in {"idle", "valid"} /\ staging' = staging /\ retried' \in BOOLEAN
           /\ window' \in [Orders -> {"committed", "changed", "extracted"}]
  BY DEF DbtFails, EndRun, TypeOK

LEMMA HistoryStep ==
    ASSUME TypeOK, NEW c \in Customers, NEW image \in Images \cup {Gone}, NEW stamp \in 1..Now,
           ChangeCustomer(c, image, stamp)
    PROVE  /\ history' \in [Customers -> Seq(SourceState)]
           /\ Len(history'[c]) = Len(history[c]) + 1
           /\ \A i \in 1..Len(history[c]): history'[c][i] = history[c][i]
           /\ history'[c][Len(history[c]) + 1] = [image |-> image, stamp |-> stamp]
           /\ \A d \in Customers \ {c}: history'[d] = history[d]
  <1>1. [image |-> image, stamp |-> stamp] \in SourceState
    BY DEF SourceState, TypeOK, Now
  <1>2. history'[c] = Append(history[c], [image |-> image, stamp |-> stamp])
        /\ \A d \in Customers \ {c}: history'[d] = history[d]
    BY DEF ChangeCustomer, TypeOK
  <1>3. history'[c] \in Seq(SourceState)
    BY <1>1, <1>2, HistoryTyped, AppendProperties
  <1>4. history' \in [Customers -> Seq(SourceState)]
    BY <1>1, HistoryTyped, AppendProperties DEF ChangeCustomer, TypeOK
  <1> QED
    BY <1>1, <1>2, <1>4, HistoryTyped, AppendProperties

LEMMA DimensionTypeStep ==
    TypeOK /\ IsFiniteSet(versions) /\ [Next]_vars => (TypeOK /\ IsFiniteSet(versions))'
  <1> SUFFICES ASSUME TypeOK, IsFiniteSet(versions), [Next]_vars
               PROVE  (TypeOK /\ IsFiniteSet(versions))'
    OBVIOUS
  <1>1. CASE UNCHANGED vars
    BY <1>1 DEF TypeOK, vars, sourceVars, runVars
  <1>2. ASSUME NEW c \in Customers, NEW image \in Images \cup {Gone}, NEW stamp \in 1..Now,
               ChangeCustomer(c, image, stamp)
        PROVE  (TypeOK /\ IsFiniteSet(versions))'
    <2>1. clock' \in Nat
      BY <1>2 DEF TypeOK, ChangeCustomer, Now
    <2>2. \A d \in Customers: shown[d] <= Len(history'[d])
      <3> SUFFICES ASSUME NEW d \in Customers PROVE shown[d] <= Len(history'[d])
        OBVIOUS
      <3>1. shown[d] \in Nat /\ Len(history[d]) \in Nat /\ shown[d] <= Len(history[d])
        BY HistoryTyped
      <3>2. Len(history'[d]) \in {Len(history[d]), Len(history[d]) + 1}
        BY <1>2, HistoryStep
      <3> QED
        BY <3>1, <3>2
    <2> QED
      BY <1>2, <2>1, <2>2, HistoryStep DEF TypeOK, ChangeCustomer, runVars
  <1>3. ASSUME NEW o \in Orders, NEW date \in 0..Now, WriteOrder(o, date)
        PROVE  (TypeOK /\ IsFiniteSet(versions))'
    <2>1. clock' \in Nat /\ date \in Nat
      BY <1>3 DEF TypeOK, WriteOrder, Now
    <2> QED
      BY <1>3, <2>1 DEF TypeOK, WriteOrder
  <1>4. ASSUME NEW c \in Customers, ShowNext(c) PROVE (TypeOK /\ IsFiniteSet(versions))'
    <2>1. \A d \in Customers: shown'[d] \in Nat /\ shown'[d] <= Len(history[d])
      BY <1>4, HistoryTyped DEF ShowNext, TypeOK
    <2>2. shown' \in [Customers -> Nat]
      BY <1>4 DEF ShowNext, TypeOK
    <2> QED
      BY <1>4, <2>1, <2>2 DEF TypeOK, ShowNext, sourceVars, runVars
  <1>5. CASE Extract
    BY <1>5 DEF TypeOK, Extract, sourceVars
  <1>6. CASE Validate
    BY <1>6, RunEnds DEF TypeOK, Validate, sourceVars
  <1>7. CASE Snapshot
    BY <1>7, SnapshotFinite DEF TypeOK, Snapshot, sourceVars
  <1>8. CASE TestDimension
    BY <1>8, RunEnds DEF TypeOK, TestDimension, sourceVars
  <1>9. CASE BuildFacts
    <2>1. CASE MergeIsAmbiguous
      BY <1>9, <2>1, RunEnds DEF TypeOK, BuildFacts, sourceVars
    <2>2. CASE ~MergeIsAmbiguous
      <3>1. facts' \in [Orders -> [rows: Nat, keys: SUBSET Key]]
        BY <1>9, <2>2, KeysForTyped DEF TypeOK, BuildFacts
      <3> QED
        BY <1>9, <2>2, <3>1 DEF TypeOK, BuildFacts, sourceVars
    <2> QED
      BY <2>1, <2>2
  <1>10. CASE TestFacts
    BY <1>10, RunEnds DEF TypeOK, TestFacts, sourceVars
  <1>11. CASE DbtDies
    BY <1>11, RunEnds DEF TypeOK, DbtDies, sourceVars
  <1> QED
    BY <1>1, <1>2, <1>3, <1>4, <1>5, <1>6, <1>7, <1>8, <1>9, <1>10, <1>11 DEF Next, RunStep

LEMMA TypeInvariant == Spec => [](TypeOK /\ IsFiniteSet(versions))
  BY DimensionTypeInit, DimensionTypeStep, PTL DEF Spec

\* Source, runs, snapshot and facts keep their types, and the snapshot is
\* finite, so that counting the rows an order joins to means something.
THEOREM DimensionTypeCorrect == Spec => []TypeOK
  BY TypeInvariant, PTL

-----------------------------------------------------------------------------
(* DimensionInv is inductive *)

\* A later change cannot make a history regular, and Silver does not see it.
LEMMA SourceStep ==
    ASSUME TypeOK, NEW c \in Customers, NEW image \in Images \cup {Gone}, NEW stamp \in 1..Now,
           ChangeCustomer(c, image, stamp), NEW d \in Customers
    PROVE  /\ Regular(d)' => Regular(d)
           /\ Silver(d)' = Silver(d)
           /\ Len(history[d]) <= Len(history'[d])
           /\ \A i \in 1..Len(history[d]): history'[d][i] = history[d][i]
  <1>1. /\ Len(history[d]) \in Nat /\ Len(history'[d]) \in Nat
        /\ Len(history[d]) <= Len(history'[d])
        /\ \A i \in 1..Len(history[d]): history'[d][i] = history[d][i]
        /\ Len(history'[d]) > Len(history[d]) \/ history'[d] = history[d]
    <2>1. Len(history[d]) \in Nat
      BY HistoryTyped
    <2>2. CASE d = c
      <3>1. /\ Len(history'[d]) = Len(history[d]) + 1
            /\ \A i \in 1..Len(history[d]): history'[d][i] = history[d][i]
        BY <2>2, HistoryStep
      <3> QED
        BY <2>1, <3>1
    <2>3. CASE d # c
      <3>1. history'[d] = history[d]
        BY <2>3, HistoryStep
      <3> QED
        BY <2>1, <3>1
    <2> QED
      BY <2>2, <2>3
  <1>2. Silver(d)' = Silver(d)
    <2>1. shown' = shown /\ shown[d] \in Nat /\ shown[d] <= Len(history[d])
      BY HistoryTyped DEF ChangeCustomer
    <2> QED
      BY <1>1, <2>1 DEF Silver, StateAt
  <1>3. ASSUME Regular(d)' PROVE Regular(d)
    <2>1. /\ \A i \in 1..Len(history'[d]): \A j \in 1..i - 1:
               history'[d][j].stamp < history'[d][i].stamp
          /\ \A i \in 1..Len(history'[d]): history'[d][i].image = Gone => i = Len(history'[d])
      BY <1>3 DEF Regular
    <2>2. \A i \in 1..Len(history[d]): \A j \in 1..i - 1: history[d][j].stamp < history[d][i].stamp
      <3> SUFFICES ASSUME NEW i \in 1..Len(history[d]), NEW j \in 1..i - 1
                   PROVE  history[d][j].stamp < history[d][i].stamp
        OBVIOUS
      <3>1. i \in 1..Len(history'[d]) /\ j \in 1..Len(history[d])
        BY <1>1
      <3> QED
        BY <1>1, <2>1, <3>1
    <2>3. \A i \in 1..Len(history[d]): history[d][i].image = Gone => i = Len(history[d])
      <3> SUFFICES ASSUME NEW i \in 1..Len(history[d]), history[d][i].image = Gone
                   PROVE  i = Len(history[d])
        OBVIOUS
      <3>1. history'[d][i].image = Gone /\ i \in 1..Len(history'[d])
        BY <1>1
      <3>2. i = Len(history'[d])
        BY <2>1, <3>1
      <3> QED
        BY <1>1, <3>2
    <2> QED
      BY <2>2, <2>3 DEF Regular
  <1> QED
    BY <1>1, <1>2, <1>3

\* Silver of a regular customer moves to later stamps, and not on from a
\* deleted row.
LEMMA SilverStep ==
    ASSUME TypeOK, NEW c \in Customers, ShowNext(c), Regular(c)
    PROVE  /\ Silver(c)' = history[c][shown[c] + 1]
           /\ Live(Silver(c)) => Silver(c).stamp < Silver(c)'.stamp
           /\ ~Live(Silver(c)) => shown[c] = 0
           /\ shown'[c] = shown[c] + 1
  <1>1. shown[c] \in Nat /\ shown[c] < Len(history[c]) /\ Len(history[c]) \in Nat
        /\ shown'[c] = shown[c] + 1 /\ history' = history
    BY HistoryTyped DEF ShowNext, TypeOK, sourceVars
  <1>2. Silver(c)' = history[c][shown[c] + 1]
    BY <1>1 DEF Silver, StateAt
  <1>3. ASSUME Live(Silver(c)) PROVE Silver(c).stamp < Silver(c)'.stamp
    <2>1. shown[c] \in 1..Len(history[c]) /\ Silver(c) = history[c][shown[c]]
      BY <1>3, SilverTyped
    <2>2. shown[c] + 1 \in 1..Len(history[c]) /\ shown[c] \in 1..(shown[c] + 1) - 1
      BY <1>1, <2>1
    <2>3. history[c][shown[c]].stamp < history[c][shown[c] + 1].stamp
      BY <2>2 DEF Regular
    <2> QED
      BY <1>2, <2>1, <2>3
  <1>4. ASSUME ~Live(Silver(c)), shown[c] # 0 PROVE FALSE
    <2>1. shown[c] \in 1..Len(history[c]) /\ history[c][shown[c]].image = Gone
      BY <1>1, <1>4 DEF Silver, StateAt, Live
    <2>2. shown[c] = Len(history[c])
      BY <2>1 DEF Regular
    <2> QED
      BY <1>1, <2>2
  <1> QED
    BY <1>1, <1>2, <1>3, <1>4

LEMMA SourceChangeKeeps ==
    ASSUME TypeOK, DimensionInv, NEW c \in Customers, NEW image \in Images \cup {Gone},
           NEW stamp \in 1..Now, ChangeCustomer(c, image, stamp), IsFiniteSet(versions')
    PROVE  DimensionInv'
  <1>1. UNCHANGED <<shown, versions>> /\ clock' = clock + 1 /\ clock \in Nat
    BY DEF ChangeCustomer, Now, TypeOK
  <1>2. \A d \in Customers: VersionsOf(d)' = VersionsOf(d)
    BY <1>1 DEF VersionsOf
  <1>3. StampsInThePast'
    <2> SUFFICES ASSUME NEW d \in Customers, NEW i \in 1..Len(history'[d])
                 PROVE  history'[d][i].stamp <= clock + 1
      BY <1>1 DEF StampsInThePast
    <2>1. CASE i \in 1..Len(history[d])
      <3>1. history'[d][i] = history[d][i] /\ history[d][i].stamp \in Nat
            /\ history[d][i].stamp <= clock
        BY <2>1, SourceStep, HistoryTyped DEF DimensionInv, StampsInThePast
      <3> QED
        BY <1>1, <3>1
    <2>2. CASE i \notin 1..Len(history[d])
      <3>1. d = c
        <4> SUFFICES ASSUME d # c PROVE FALSE
          OBVIOUS
        <4>1. history'[d] = history[d]
          BY HistoryStep
        <4> QED
          BY <2>2, <4>1
      <3>2. i = Len(history[c]) + 1
        <4>1. Len(history'[c]) = Len(history[c]) + 1 /\ Len(history[c]) \in Nat
          BY HistoryStep, HistoryTyped
        <4> QED
          BY <2>2, <3>1, <4>1
      <3>3. history'[d][i] = [image |-> image, stamp |-> stamp]
        BY <3>1, <3>2, HistoryStep
      <3> QED
        BY <1>1, <3>3 DEF Now
    <2> QED
      BY <2>1, <2>2
  <1>4. VersionsFromSource'
    <2> SUFFICES ASSUME NEW v \in versions
                 PROVE  \E i \in 1..shown[v.customer]:
                          history'[v.customer][i] = [image |-> v.image, stamp |-> v.from]
      BY <1>1 DEF VersionsFromSource
    <2>1. PICK i \in 1..shown[v.customer]:
            history[v.customer][i] = [image |-> v.image, stamp |-> v.from]
      BY DEF DimensionInv, VersionsFromSource
    <2>2. v.customer \in Customers
      BY VersionTyped
    <2>3. i \in 1..Len(history[v.customer])
      BY <2>2, HistoryTyped
    <2> QED
      BY <2>1, <2>2, <2>3, SourceStep
  <1>5. ClosedBehindSilver' /\ RegularRanges' /\ OneVersionAtATime'
    BY <1>2, SourceStep
       DEF DimensionInv, ClosedBehindSilver, RegularRanges, OneVersionAtATime
  <1> QED
    BY <1>3, <1>4, <1>5 DEF DimensionInv

LEMMA ShowNextKeeps ==
    ASSUME TypeOK, DimensionInv, NEW c \in Customers, ShowNext(c)
    PROVE  DimensionInv'
  <1>1. UNCHANGED <<history, clock, versions>>
    BY DEF ShowNext, sourceVars
  <1>2. \A d \in Customers: /\ Regular(d)' = Regular(d) /\ VersionsOf(d)' = VersionsOf(d)
                            /\ shown'[d] = IF d = c THEN shown[d] + 1 ELSE shown[d]
    BY <1>1 DEF ShowNext, Regular, VersionsOf, TypeOK
  <1>3. VersionsFromSource'
    <2> SUFFICES ASSUME NEW v \in versions
                 PROVE  \E i \in 1..shown'[v.customer]:
                          history[v.customer][i] = [image |-> v.image, stamp |-> v.from]
      BY <1>1 DEF VersionsFromSource
    <2>1. PICK i \in 1..shown[v.customer]:
            history[v.customer][i] = [image |-> v.image, stamp |-> v.from]
      BY DEF DimensionInv, VersionsFromSource
    <2>2. i \in 1..shown'[v.customer]
      BY <1>2, VersionTyped, HistoryTyped
    <2> QED
      BY <2>1, <2>2
  <1>4. ClosedBehindSilver'
    <2> SUFFICES ASSUME NEW d \in Customers, Regular(d), NEW v \in VersionsOf(d), v.to # None,
                        Live(Silver(d)')
                 PROVE  v.to <= Silver(d)'.stamp
      BY <1>2 DEF ClosedBehindSilver
    <2>1. v \in versions /\ v.customer = d
      BY DEF VersionsOf
    <2>2. v.to \in Nat
      BY <2>1, VersionTyped
    <2>3. CASE d # c
      <3>1. Silver(d)' = Silver(d)
        BY <1>1, <1>2, <2>3 DEF Silver, StateAt
      <3> QED
        BY <3>1 DEF DimensionInv, ClosedBehindSilver
    <2>4. CASE d = c
      <3>1. CASE Live(Silver(d))
        <4>1. v.to <= Silver(d).stamp
          BY <3>1 DEF DimensionInv, ClosedBehindSilver
        <4>2. /\ Silver(d)' = history[d][shown[d] + 1]
              /\ Silver(d).stamp < Silver(d)'.stamp
          BY <2>4, <3>1, SilverStep
        <4>3. shown[d] + 1 \in 1..Len(history[d])
          BY <2>4, HistoryTyped DEF ShowNext
        <4>4. Silver(d).stamp \in Nat /\ Silver(d)'.stamp \in Nat
          BY <4>2, <4>3, SilverTyped, HistoryTyped
        <4> QED
          BY <2>2, <4>1, <4>2, <4>4
      <3>2. CASE ~Live(Silver(d))
        <4>1. shown[v.customer] = 0
          BY <2>1, <2>4, <3>2, SilverStep
        <4>2. 1..shown[v.customer] # {}
          BY <2>1 DEF DimensionInv, VersionsFromSource
        <4> QED
          BY <4>1, <4>2
      <3> QED
        BY <3>1, <3>2
    <2> QED
      BY <2>3, <2>4
  <1>5. StampsInThePast' /\ RegularRanges' /\ OneVersionAtATime' /\ IsFiniteSet(versions')
    BY <1>1, <1>2 DEF DimensionInv, StampsInThePast, RegularRanges, OneVersionAtATime
  <1> QED
    BY <1>3, <1>4, <1>5 DEF DimensionInv

LEMMA SnapshotSame ==
    ASSUME Snapshot, NEW c \in Customers
    PROVE  Regular(c)' = Regular(c) /\ Silver(c)' = Silver(c)
  BY DEF Snapshot, sourceVars, Regular, Silver, StateAt

\* The versions of c after a snapshot: the stored ones, perhaps closed, and new
\* ones, which are alike.
LEMMA SnapshotVersions ==
    ASSUME Snapshot, TypeOK, NEW c \in Customers, NEW x \in VersionsOf(c)'
    PROVE  \/ x \in NewVersions /\ x.customer = c
           \/ \E v \in VersionsOf(c): x = Closed(v)
  BY ClosedTyped DEF Snapshot, VersionsOf

\* What closes an open version comes after everything that closed or began
\* one before it.
LEMMA SnapshotRanges ==
    ASSUME TypeOK, DimensionInv, NEW c \in Customers, Regular(c), NEW v \in VersionsOf(c)
    PROVE  /\ v.to = None /\ Closed(v).to # None => Closed(v).to > v.from
           /\ Live(Silver(c)) /\ v.image # Silver(c).image => v.from < Silver(c).stamp
  <1>1. v \in versions /\ v.customer = c /\ v.from \in Nat
    BY VersionTyped DEF VersionsOf
  <1>2. PICK i \in 1..shown[c]: history[c][i] = [image |-> v.image, stamp |-> v.from]
    BY <1>1 DEF DimensionInv, VersionsFromSource
  <1>3. i \in 1..Len(history[c]) /\ shown[c] \in Nat /\ shown[c] <= Len(history[c])
    BY <1>2, HistoryTyped
  <1>4. v.from < Now
    BY <1>1, <1>2, <1>3 DEF DimensionInv, StampsInThePast, Now, TypeOK
  <1>5. ASSUME Live(Silver(c)), v.image # Silver(c).image PROVE v.from < Silver(c).stamp
    <2>1. Silver(c) = history[c][shown[c]] /\ shown[c] \in 1..Len(history[c])
      BY <1>5, SilverTyped
    <2>2. i # shown[c]
      BY <1>2, <1>5, <2>1
    <2>3. i \in 1..shown[c] - 1
      BY <1>2, <1>3, <2>2
    <2>4. history[c][i].stamp < history[c][shown[c]].stamp
      BY <2>1, <2>3 DEF Regular
    <2> QED
      BY <1>2, <2>1, <2>4
  <1>6. ASSUME v.to = None, Closed(v).to # None PROVE Closed(v).to > v.from
    <2>1. \/ ~Live(Silver(c)) /\ Closed(v).to = Now
          \/ /\ Live(Silver(c)) /\ v.image # Silver(c).image /\ Closed(v).to = Silver(c).stamp
      BY <1>1, <1>6, ClosedTyped
    <2>2. Now \in Nat /\ Silver(c).stamp \in Nat
      BY SilverTyped DEF Now, TypeOK
    <2> QED
      BY <1>1, <1>4, <1>5, <2>1, <2>2
  <1> QED
    BY <1>5, <1>6

LEMMA SnapshotKeepsSource ==
    ASSUME TypeOK, DimensionInv, Snapshot
    PROVE  StampsInThePast' /\ VersionsFromSource'
  <1>1. UNCHANGED <<clock, history, shown>>
    BY DEF Snapshot, sourceVars
  <1>2. ASSUME NEW x \in versions'
        PROVE  \E i \in 1..shown[x.customer]:
                 history[x.customer][i] = [image |-> x.image, stamp |-> x.from]
    <2>1. CASE x \in NewVersions
      <3>1. /\ x.customer \in Customers /\ Live(Silver(x.customer))
            /\ x.image = Silver(x.customer).image /\ x.from = Silver(x.customer).stamp
        BY <2>1, NewVersionTyped
      <3>2. /\ Silver(x.customer) = history[x.customer][shown[x.customer]]
            /\ Silver(x.customer) = [image |-> x.image, stamp |-> x.from]
            /\ shown[x.customer] \in 1..shown[x.customer]
        BY <3>1, SilverTyped, HistoryTyped
      <3> QED
        BY <3>2
    <2>2. CASE x \notin NewVersions
      <3>1. PICK v \in versions: x = Closed(v)
        BY <2>2 DEF Snapshot
      <3>2. x.customer = v.customer /\ x.image = v.image /\ x.from = v.from
        BY <3>1, ClosedTyped
      <3> QED
        BY <3>2 DEF DimensionInv, VersionsFromSource
    <2> QED
      BY <2>1, <2>2
  <1> QED
    BY <1>1, <1>2 DEF DimensionInv, StampsInThePast, VersionsFromSource

LEMMA SnapshotKeepsRanges ==
    ASSUME TypeOK, DimensionInv, Snapshot
    PROVE  ClosedBehindSilver' /\ RegularRanges'
  <1> SUFFICES ASSUME NEW c \in Customers, Regular(c), NEW x \in VersionsOf(c)', x.to # None
               PROVE  /\ x.to > x.from
                      /\ x.to <= Silver(c).stamp \/ ~Live(Silver(c))
    BY SnapshotSame DEF ClosedBehindSilver, RegularRanges
  <1>1. PICK v \in VersionsOf(c): x = Closed(v)
    BY SnapshotVersions, NewVersionTyped
  <1>2. v \in versions /\ v.customer = c
    BY DEF VersionsOf
  <1>3. Silver(c).stamp \in Nat
    BY SilverTyped
  <1>4. CASE v.to # None
    BY <1>1, <1>2, <1>4, ClosedTyped DEF DimensionInv, ClosedBehindSilver, RegularRanges
  <1>5. CASE v.to = None
    <2>1. x.to > x.from
      BY <1>1, <1>2, <1>5, ClosedTyped, SnapshotRanges
    <2>2. ~Live(Silver(c)) \/ x.to = Silver(c).stamp
      BY <1>1, <1>2, <1>5, ClosedTyped
    <2> QED
      BY <1>3, <2>1, <2>2
  <1> QED
    BY <1>4, <1>5

Apart(v, w) == (v.to # None /\ v.to <= w.from) \/ (w.to # None /\ w.to <= v.from)

\* A stored version, as the snapshot leaves it, ends before a new one begins.
LEMMA NewVersionApart ==
    ASSUME TypeOK, DimensionInv, NEW c \in Customers, Regular(c),
           NEW n \in NewVersions, n.customer = c, NEW v \in VersionsOf(c)
    PROVE  Closed(v).to # None /\ Closed(v).to <= n.from
  <1>1. v \in versions /\ v.customer = c
    BY DEF VersionsOf
  <1>2. Live(Silver(c)) /\ n.image = Silver(c).image /\ n.from = Silver(c).stamp
    BY NewVersionTyped
  <1>3. Silver(c).stamp \in Nat /\ None \notin Nat
    BY SilverTyped DEF None
  <1>4. CASE v.to # None
    <2>1. Closed(v) = v /\ v.to <= Silver(c).stamp
      BY <1>1, <1>2, <1>4, ClosedTyped DEF DimensionInv, ClosedBehindSilver
    <2> QED
      BY <1>2, <1>4, <2>1
  <1>5. CASE v.to = None
    <2>1. PICK w \in versions: w.customer = c /\ w.to = None /\ w.image # n.image
      BY <1>1, <1>5, NewVersionTyped
    <2>2. w \in VersionsOf(c)
      BY <2>1 DEF VersionsOf
    <2>3. v = w
      BY <1>5, <2>1, <2>2 DEF DimensionInv, OneVersionAtATime
    <2>4. Closed(v).to = Silver(c).stamp
      BY <1>1, <1>2, <1>5, <2>1, <2>3, ClosedTyped
    <2> QED
      BY <1>2, <1>3, <2>4
  <1> QED
    BY <1>4, <1>5

LEMMA SnapshotKeepsApart ==
    ASSUME TypeOK, DimensionInv, Snapshot
    PROVE  OneVersionAtATime'
  <1> SUFFICES ASSUME NEW c \in Customers, Regular(c),
                      NEW x \in VersionsOf(c)', NEW y \in VersionsOf(c)', x # y
               PROVE  Apart(x, y)
    BY SnapshotSame DEF OneVersionAtATime, Apart
  <1>1. CASE x \in NewVersions /\ y \in NewVersions
    <2>1. x \in versions' /\ y \in versions' /\ x.customer = c /\ y.customer = c
      BY DEF VersionsOf
    <2>2. \A n \in NewVersions: n.customer = c =>
            n = [customer |-> c, image |-> Silver(c).image, from |-> Silver(c).stamp, to |-> None]
      BY DEF NewVersions
    <2> QED
      BY <1>1, <2>1, <2>2
  <1>2. CASE x \in NewVersions /\ y \notin NewVersions
    <2>1. PICK w \in VersionsOf(c): y = Closed(w)
      BY <1>2, SnapshotVersions
    <2>2. x.customer = c
      BY DEF VersionsOf
    <2> QED
      BY <1>2, <2>1, <2>2, NewVersionApart DEF Apart
  <1>3. CASE x \notin NewVersions /\ y \in NewVersions
    <2>1. PICK v \in VersionsOf(c): x = Closed(v)
      BY <1>3, SnapshotVersions
    <2>2. y.customer = c
      BY DEF VersionsOf
    <2> QED
      BY <1>3, <2>1, <2>2, NewVersionApart DEF Apart
  <1>4. CASE x \notin NewVersions /\ y \notin NewVersions
    <2>1. PICK v \in VersionsOf(c): x = Closed(v)
      BY <1>4, SnapshotVersions
    <2>2. PICK w \in VersionsOf(c): y = Closed(w)
      BY <1>4, SnapshotVersions
    <2>3. Apart(v, w)
      BY <2>1, <2>2 DEF DimensionInv, OneVersionAtATime, Apart
    <2>4. v \in versions /\ w \in versions
      BY DEF VersionsOf
    <2>5. /\ x.from = v.from /\ y.from = w.from
          /\ v.to # None => x = v
          /\ w.to # None => y = w
      BY <2>1, <2>2, <2>4, ClosedTyped
    <2> QED
      BY <2>3, <2>5 DEF Apart
  <1> QED
    BY <1>1, <1>2, <1>3, <1>4

LEMMA DimensionStep ==
    TypeOK /\ DimensionInv /\ IsFiniteSet(versions)' /\ [Next]_vars => DimensionInv'
  <1> SUFFICES ASSUME TypeOK, DimensionInv, IsFiniteSet(versions)', [Next]_vars
               PROVE  DimensionInv'
    OBVIOUS
  <1>1. ASSUME UNCHANGED <<history, shown, versions>>, clock' \in {clock, clock + 1}
        PROVE  DimensionInv'
    <2>1. \A c \in Customers: /\ Regular(c)' = Regular(c) /\ Silver(c)' = Silver(c)
                              /\ VersionsOf(c)' = VersionsOf(c)
      BY <1>1 DEF Regular, Silver, StateAt, VersionsOf
    <2>2. StampsInThePast'
      <3> SUFFICES ASSUME NEW c \in Customers, NEW i \in 1..Len(history[c])
                   PROVE  history[c][i].stamp <= clock'
        BY <1>1 DEF StampsInThePast
      <3>1. history[c][i].stamp \in Nat /\ clock \in Nat /\ history[c][i].stamp <= clock
        BY HistoryTyped DEF TypeOK, DimensionInv, StampsInThePast
      <3> QED
        BY <1>1, <3>1
    <2> QED
      BY <1>1, <2>1, <2>2
         DEF DimensionInv, VersionsFromSource, ClosedBehindSilver, RegularRanges, OneVersionAtATime
  <1>2. CASE \E c \in Customers, image \in Images \cup {Gone}, stamp \in 1..Now:
               ChangeCustomer(c, image, stamp)
    BY <1>2, SourceChangeKeeps
  <1>3. CASE \E c \in Customers: ShowNext(c)
    BY <1>3, ShowNextKeeps
  <1>4. CASE Snapshot
    BY <1>4, SnapshotKeepsSource, SnapshotKeepsRanges, SnapshotKeepsApart DEF DimensionInv
  <1>5. CASE \E o \in Orders, date \in 0..Now: WriteOrder(o, date)
    BY <1>1, <1>5 DEF WriteOrder, Now
  <1>6. CASE Extract \/ Validate \/ TestDimension \/ BuildFacts \/ TestFacts \/ DbtDies
    BY <1>1, <1>6
       DEF Extract, Validate, TestDimension, BuildFacts, TestFacts, DbtDies, sourceVars
  <1>7. CASE UNCHANGED vars
    BY <1>1, <1>7 DEF vars, sourceVars
  <1> QED
    BY <1>2, <1>3, <1>4, <1>5, <1>6, <1>7 DEF Next, RunStep

LEMMA DimensionInvariant == Spec => [](TypeOK /\ DimensionInv)
  <1>1. Init => TypeOK /\ DimensionInv
    <2> SUFFICES ASSUME Init PROVE TypeOK /\ DimensionInv
      OBVIOUS
    <2>1. TypeOK /\ IsFiniteSet(versions) /\ versions = {}
      BY DimensionTypeInit DEF Init
    <2>2. \A c \in Customers: VersionsOf(c) = {} /\ Len(history[c]) = 0
      BY EmptySeq DEF Init, VersionsOf
    <2> QED
      BY <2>1, <2>2
         DEF DimensionInv, StampsInThePast, VersionsFromSource, ClosedBehindSilver,
             RegularRanges, OneVersionAtATime
  <1> QED
    BY <1>1, DimensionStep, TypeInvariant, PTL DEF Spec

\* Two versions of a customer whose source history is regular are never in
\* force at the same time, however far CDC was behind at each snapshot, and
\* whenever a delete was noticed.
THEOREM DimensionOneVersionAtATime == Spec => []OneVersionAtATime
  BY DimensionInvariant, PTL DEF DimensionInv

-----------------------------------------------------------------------------
(* The facts *)

\* A snapshot keeps the beginning of every version it has.
LEMMA BeginningsKept ==
    ASSUME TypeOK, Snapshot, NEW c, NEW v \in VersionsOf(c)
    PROVE  \E w \in VersionsOf(c)': w.from = v.from
  <1>1. v \in versions /\ v.customer = c
    BY DEF VersionsOf
  <1>2. Closed(v) \in versions' /\ Closed(v).customer = c /\ Closed(v).from = v.from
    BY <1>1, ClosedTyped DEF Snapshot
  <1> QED
    BY <1>2 DEF VersionsOf

\* The as_of keys of an order are versions that began by its staged date.
LEMMA AsOfKeysPointBack ==
    ASSUME NEW o \in Orders, NEW key \in KeysFor(o), key.resolution = "as_of"
    PROVE  \E v \in VersionsOf(CustomerOf[o]): v.from = key.from /\ v.from <= staging[o]
  <1>1. key \in {[from |-> v.from, resolution |-> "as_of"] :
                   v \in {v \in VersionsOf(CustomerOf[o]) : Covers(v, staging[o])}}
    BY DEF KeysFor
  <1>2. PICK v \in VersionsOf(CustomerOf[o]):
          Covers(v, staging[o]) /\ key = [from |-> v.from, resolution |-> "as_of"]
    BY <1>1
  <1> QED
    BY <1>2 DEF Covers

LEMMA FactsStep ==
    TypeOK /\ FactInv /\ [Next]_vars => FactInv'
  <1> SUFFICES ASSUME TypeOK, FactInv, [Next]_vars PROVE FactInv'
    OBVIOUS
  <1>1. ASSUME UNCHANGED <<placed, staging, window, fresh, phase, versions, facts>> PROVE FactInv'
    BY <1>1 DEF FactInv, FactsPointBack, CommittedIsJoined, VersionsOf
  <1>2. ASSUME UNCHANGED <<placed, fresh, versions, facts>>, phase' # "facts",
               DbtFails \/ EndRun("changed")
        PROVE  FactInv'
    <2>1. staging' = staging
          /\ \A o \in Orders: window'[o] \in {"committed", "extracted"} => window'[o] = window[o]
      BY <1>2 DEF DbtFails, EndRun, TypeOK
    <2> QED
      BY <1>2, <2>1 DEF FactInv, FactsPointBack, CommittedIsJoined, VersionsOf
  <1>3. ASSUME NEW o \in Orders, NEW date \in 0..Now, WriteOrder(o, date) PROVE FactInv'
    <2>1. UNCHANGED <<staging, fresh, phase, versions, facts>>
      BY <1>3 DEF WriteOrder
    <2>2. \A p \in Orders: /\ window'[p] = IF p = o THEN "changed" ELSE window[p]
                           /\ p # o => placed'[p] = placed[p]
      BY <1>3 DEF WriteOrder, TypeOK
    <2> QED
      BY <2>1, <2>2 DEF FactInv, FactsPointBack, CommittedIsJoined, VersionsOf
  <1>4. CASE Extract
    <2>1. UNCHANGED <<placed, versions, facts>> /\ phase' = "staged"
      BY <1>4 DEF Extract, sourceVars
    <2>2. \A o \in Orders:
            IF window[o] = "changed"
            THEN staging'[o] = placed[o] /\ window'[o] = "extracted" /\ o \in fresh'
            ELSE /\ staging'[o] = staging[o] /\ window'[o] = window[o]
                 /\ o \in fresh' <=> o \in fresh
      BY <1>4 DEF Extract
    <2> QED
      BY <2>1, <2>2 DEF FactInv, FactsPointBack, CommittedIsJoined, VersionsOf
  <1>5. CASE Validate
    <2>1. \/ phase' = "valid" /\ UNCHANGED <<staging, window>>
          \/ EndRun("changed")
      BY <1>5 DEF Validate
    <2>2. UNCHANGED <<placed, fresh, versions, facts>> /\ phase' # "facts"
      BY <1>5, <2>1 DEF Validate, EndRun, sourceVars
    <2> QED
      BY <1>2, <2>1, <2>2 DEF FactInv, FactsPointBack, CommittedIsJoined, VersionsOf
  <1>6. CASE Snapshot
    <2>1. UNCHANGED <<placed, staging, window, fresh, facts>> /\ phase' = "snapshot"
      BY <1>6 DEF Snapshot, sourceVars
    <2>2. FactsPointBack'
      BY <1>6, <2>1, BeginningsKept DEF FactInv, FactsPointBack
    <2> QED
      BY <2>1, <2>2 DEF FactInv, CommittedIsJoined
  <1>7. CASE TestDimension
    <2>1. \/ phase' = "tested" /\ UNCHANGED <<staging, window>>
          \/ DbtFails
      BY <1>7 DEF TestDimension
    <2>2. UNCHANGED <<placed, fresh, versions, facts>> /\ phase' # "facts"
      BY <1>7, <2>1 DEF TestDimension, DbtFails, EndRun, sourceVars
    <2> QED
      BY <1>2, <2>1, <2>2 DEF FactInv, FactsPointBack, CommittedIsJoined, VersionsOf
  <1>8. CASE BuildFacts
    <2>1. CASE MergeIsAmbiguous
      <3>1. DbtFails /\ UNCHANGED <<placed, fresh, versions, facts>>
        BY <1>8, <2>1 DEF BuildFacts, sourceVars
      <3> QED
        BY <1>2, <3>1 DEF DbtFails, EndRun
    <2>2. CASE ~MergeIsAmbiguous
      <3>1. UNCHANGED <<placed, versions, staging, window>> /\ fresh' = {}
        BY <1>8, <2>2 DEF BuildFacts, sourceVars
      <3>2. \A o \in Orders: facts'[o].keys = IF o \in fresh THEN KeysFor(o) ELSE facts[o].keys
        BY <1>8, <2>2 DEF BuildFacts
      <3>3. FactsPointBack'
        BY <3>1, <3>2, AsOfKeysPointBack DEF FactInv, FactsPointBack, VersionsOf
      <3> QED
        BY <3>1, <3>3 DEF FactInv, CommittedIsJoined
    <2> QED
      BY <2>1, <2>2
  <1>9. CASE TestFacts
    <2>1. UNCHANGED <<placed, fresh, versions, facts>> /\ fresh = {} /\ phase' # "facts"
      BY <1>9 DEF TestFacts, sourceVars, FactInv, CommittedIsJoined, EndRun, DbtFails
    <2>2. CASE DbtFails
      BY <1>2, <2>1, <2>2
    <2>3. CASE EndRun("committed")
      <3>1. staging' = staging
            /\ \A o \in Orders: window'[o] = IF window[o] = "extracted" THEN "committed" ELSE window[o]
        BY <2>3 DEF EndRun
      <3> QED
        BY <2>1, <3>1 DEF FactInv, FactsPointBack, CommittedIsJoined, VersionsOf
    <2> QED
      BY <1>9, <2>2, <2>3 DEF TestFacts
  <1>10. CASE DbtDies
    BY <1>2, <1>10 DEF DbtDies, sourceVars, DbtFails, EndRun
  <1>11. CASE \/ \E c \in Customers, image \in Images \cup {Gone}, stamp \in 1..Now:
                   ChangeCustomer(c, image, stamp)
              \/ \E c \in Customers: ShowNext(c)
              \/ UNCHANGED vars
    BY <1>1, <1>11 DEF ChangeCustomer, ShowNext, vars, sourceVars, runVars
  <1> QED
    BY <1>3, <1>4, <1>5, <1>6, <1>7, <1>8, <1>9, <1>10, <1>11 DEF Next, RunStep

LEMMA FactInvariant == Spec => []FactInv
  <1>1. Init => FactInv
    BY DEF Init, FactInv, FactsPointBack, CommittedIsJoined
  <1> QED
    BY <1>1, FactsStep, TypeInvariant, PTL DEF Spec

\* A committed fact's as_of customer is one the source had written by the
\* order's date, whatever the snapshot, CDC and retried builds did in between.
THEOREM FactsNeverLookAhead == Spec => []FactsDoNotLookAhead
  <1>1. TypeOK /\ DimensionInv /\ FactInv => FactsDoNotLookAhead
    <2> SUFFICES ASSUME TypeOK, DimensionInv, FactInv,
                        NEW o \in Orders, window[o] = "committed",
                        NEW key \in facts[o].keys, key.resolution = "as_of"
                 PROVE  \E v \in VersionsOf(CustomerOf[o]), i \in 1..Len(history[CustomerOf[o]]):
                          /\ v.from = key.from
                          /\ history[CustomerOf[o]][i] = [image |-> v.image, stamp |-> v.from]
                          /\ v.from <= placed[o]
      BY DEF FactsDoNotLookAhead
    <2>1. staging[o] = placed[o] /\ o \notin fresh
      BY DEF FactInv, CommittedIsJoined
    <2>2. PICK v \in VersionsOf(CustomerOf[o]): v.from = key.from /\ v.from <= staging[o]
      BY <2>1 DEF FactInv, FactsPointBack
    <2>3. v \in versions /\ v.customer = CustomerOf[o] /\ CustomerOf[o] \in Customers
      BY CustomerOfType DEF VersionsOf
    <2>4. PICK i \in 1..shown[CustomerOf[o]]:
            history[CustomerOf[o]][i] = [image |-> v.image, stamp |-> v.from]
      BY <2>3 DEF DimensionInv, VersionsFromSource
    <2>5. i \in 1..Len(history[CustomerOf[o]])
      BY <2>3, <2>4, HistoryTyped
    <2> QED
      BY <2>1, <2>2, <2>4, <2>5
  <1> QED
    BY <1>1, DimensionInvariant, FactInvariant, PTL

-----------------------------------------------------------------------------
(* The tests of the dimension and the merge of the facts *)

LEMMA AtMostOneElement ==
    ASSUME NEW S, IsFiniteSet(S), \A x, y \in S: x = y
    PROVE  Cardinality(S) <= 1
  <1>1. CASE S = {}
    BY <1>1, FS_EmptySet
  <1>2. CASE S # {}
    <2>1. PICK x \in S : S = {x}
      BY <1>2
    <2> QED
      BY <2>1, FS_Singleton
  <1> QED
    BY <1>1, <1>2

\* The as-of join finds one key for an order of a regular customer.
LEMMA OneKey ==
    ASSUME TypeOK, DimensionInv, NEW o \in Orders, Regular(CustomerOf[o]),
           NEW k \in KeysFor(o), NEW l \in KeysFor(o)
    PROVE  k = l
  <1> DEFINE mine == VersionsOf(CustomerOf[o])
             matching == {v \in mine : Covers(v, staging[o])}
             earliest == {v \in mine : /\ \A other \in mine: v.from <= other.from
                                       /\ staging[o] < v.from}
  <1>1. CustomerOf[o] \in Customers /\ staging[o] \in Int
    BY CustomerOfType DEF TypeOK, None
  <1>2. \A v \in mine: v.from \in Nat /\ v.to \in Nat \cup {None}
    BY VersionTyped DEF VersionsOf
  <1>3. ASSUME NEW v \in matching, NEW w \in matching PROVE v.from = w.from
    <2>1. v = w \/ (v.to # None /\ v.to <= w.from) \/ (w.to # None /\ w.to <= v.from)
      BY <1>1 DEF DimensionInv, OneVersionAtATime
    <2>2. /\ v.from <= staging[o] /\ (v.to = None \/ staging[o] < v.to)
          /\ w.from <= staging[o] /\ (w.to = None \/ staging[o] < w.to)
      BY DEF Covers
    <2> QED
      BY <1>1, <1>2, <2>1, <2>2 DEF None
  <1>4. ASSUME NEW v \in earliest, NEW w \in earliest PROVE v.from = w.from
    <2>1. v.from <= w.from /\ w.from <= v.from
      OBVIOUS
    <2> QED
      BY <1>2, <2>1
  <1>5. CASE matching # {}
    <2>1. KeysFor(o) = {[from |-> v.from, resolution |-> "as_of"] : v \in matching}
      BY <1>5 DEF KeysFor
    <2> QED
      BY <1>3, <2>1
  <1>6. CASE matching = {} /\ earliest # {}
    <2>1. KeysFor(o) = {[from |-> v.from, resolution |-> "earliest_available"] : v \in earliest}
      BY <1>6 DEF KeysFor
    <2> QED
      BY <1>4, <2>1
  <1>7. CASE matching = {} /\ earliest = {}
    <2>1. KeysFor(o) = {[from |-> None, resolution |-> "unresolved"]}
      BY <1>7 DEF KeysFor
    <2> QED
      BY <2>1
  <1> QED
    BY <1>5, <1>6, <1>7

\* If the source's histories are regular, then of the tests of dim_customer
\* only the one that compares it with Silver as it is now can fail, and the
\* merge of fact_sales is never ambiguous.
RegularBuildsAreSound ==
    (\A c \in Customers: Regular(c)) =>
        KeysAreUnique /\ RangesMoveForward /\ AtMostOneOpen /\ ~MergeIsAmbiguous

\* However many snapshots were taken, and whatever CDC had shown by then.
THEOREM DimensionTestsHold == Spec => []RegularBuildsAreSound
  <1>1. TypeOK /\ DimensionInv => RegularBuildsAreSound
    <2> SUFFICES ASSUME TypeOK, DimensionInv, \A c \in Customers: Regular(c)
                 PROVE  KeysAreUnique /\ RangesMoveForward /\ AtMostOneOpen /\ ~MergeIsAmbiguous
      BY DEF RegularBuildsAreSound
    <2>1. \A v \in versions: /\ v.customer \in Customers /\ v \in VersionsOf(v.customer)
                             /\ v.from \in Nat /\ v.to \in Nat \cup {None}
      BY VersionTyped DEF VersionsOf
    <2>2. RangesMoveForward
      BY <2>1 DEF DimensionInv, RegularRanges, RangesMoveForward
    <2>3. KeysAreUnique
      <3> SUFFICES ASSUME NEW v \in versions, NEW w \in versions,
                          v.customer = w.customer, v.from = w.from, v # w
                   PROVE  FALSE
        BY DEF KeysAreUnique
      <3>1. (v.to # None /\ v.to <= w.from) \/ (w.to # None /\ w.to <= v.from)
        BY <2>1 DEF DimensionInv, OneVersionAtATime
      <3> QED
        BY <2>1, <2>2, <3>1 DEF RangesMoveForward
    <2>4. AtMostOneOpen
      <3> SUFFICES ASSUME NEW c \in Customers PROVE Cardinality(OpenVersions(c)) <= 1
        BY DEF AtMostOneOpen
      <3>1. \A v, w \in OpenVersions(c): v = w
        BY DEF OpenVersions, VersionsOf, DimensionInv, OneVersionAtATime
      <3>2. IsFiniteSet(OpenVersions(c))
        <4>1. OpenVersions(c) \in SUBSET versions
          BY DEF OpenVersions
        <4> QED
          BY <4>1, FS_Subset DEF DimensionInv
      <3> QED
        BY <3>1, <3>2, AtMostOneElement
    <2>5. ~MergeIsAmbiguous
      <3> SUFFICES ASSUME NEW o \in Orders PROVE ~(Cardinality(KeysFor(o)) > 1)
        BY DEF MergeIsAmbiguous, TypeOK
      <3>1. /\ IsFiniteSet(KeysFor(o)) /\ Cardinality(KeysFor(o)) \in Nat
            /\ \A k, l \in KeysFor(o): k = l
        BY KeysForTyped, OneKey, CustomerOfType DEF DimensionInv
      <3> QED
        BY <3>1, AtMostOneElement
    <2> QED
      BY <2>2, <2>3, <2>4, <2>5
  <1> QED
    BY <1>1, DimensionInvariant, PTL

=============================================================================
