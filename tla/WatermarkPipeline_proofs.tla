---------------------- MODULE WatermarkPipeline_proofs ----------------------
(***************************************************************************)
(* Proofs about WatermarkPipeline, for any tables and rows, any number of  *)
(* retries, crashes, backfills and source transactions.                    *)
(***************************************************************************)
EXTENDS WatermarkPipeline, TLAPS

-----------------------------------------------------------------------------
(* What holds whatever the source, the attempts and the resets do *)

\* A transaction in flight is newer than the row it will replace, and alone.
InflightInv ==
    /\ \A w \in inflight: source[w[1]][w[2]] < w[3] /\ w[3] <= clock
    /\ \A v, w \in inflight: v[1] = w[1] /\ v[2] = w[2] => v = w
    /\ \A t \in Tables, r \in Rows: source[t][r] <= clock

\* Every path goes through staging, and a snapshot shows what was committed.
PathInv ==
    /\ SinksFollowSource
    /\ \A z \in lost: \A r \in Rows: z.seen[r] <= source[z.table][r]

DagInv ==
    /\ ~run.active => \A x \in Tasks: task[x] = "pending"
    /\ \A x \in Tasks: task[x] \in {"bounded", "applied", "success"} =>
         \A y \in Upstream(x): task[y] = "success"
    /\ task["advance"] = "bounded" => run.mode = "incremental"

Incremental == run.active /\ run.mode = "incremental"

\* An extract that has its lock waited for the older statements on its table.
LockInv == \A t \in Tables: Incremental /\ task[t] \in {"applied", "success"} => ~Locked(t)

-----------------------------------------------------------------------------
(* What holds when timestamps follow the commit order, resets come between  *)
(* runs (they may die half-way), and the statement of a lost backfill does  *)
(* not outlive its attempt: it holds no lock, and may stage an old version  *)
(* over one that the watermark covers                                       *)

InOrder ==
    /\ LateCommits = FALSE
    /\ Resets # "any time"
    /\ LostModes \subseteq {"incremental"}

\* Transactions in flight are stamped apart, after all that is committed.
StampInv ==
    /\ \A v, w \in inflight: v[3] = w[3] => v = w
    /\ \A w \in inflight, t \in Tables, r \in Rows: source[t][r] < w[3]

\* A bound once read: whatever is committed later is newer.
Bound(n) == n <= clock /\ \A w \in inflight: n < w[3]

ResetInv ==
    /\ reset = "dropped" => ~run.active /\ lost = {}
    /\ \A z \in lost: z.mode = "incremental"

\* Every source row up to v is staged in its current version.
CoveredTo(t, v) ==
    \A r \in Rows: 0 < source[t][r] /\ source[t][r] <= v => staging[t][r] = source[t][r]

\* The watermark this run will leave behind if it ends well.
Top(t) == Larger(candidate[t], watermark[t])

\* What a lost statement does not see was committed after its window and after
\* everything a watermark may cover.
SeenOk(z) ==
    \A r \in Rows: \/ z.seen[r] = source[z.table][r]
                   \/ source[z.table][r] > z.hi /\ source[z.table][r] > Top(z.table)

CoverInv ==
    reset = "idle" =>
        /\ \A t \in Tables: CoveredTo(t, Top(t)) /\ Bound(Top(t))
        /\ \A t \in Tables: Incremental /\ task[t] = "bounded" =>
             window[t].lo = watermark[t] /\ Bound(window[t].hi)
        /\ \A z \in lost: z.lo = watermark[z.table] /\ Bound(z.hi) /\ SeenOk(z)

\* The loader holds what is staged.
Taken(s) == \A t \in Tables, r \in Rows: staging[t][r] # 0 => loaded[s][t][r] = staging[t][r]

PublishedTo(v) ==
    \A r \in Rows: 0 < staging[Orders][r] /\ staging[Orders][r] <= v
                     => <<r, staging[Orders][r]>> \in events

SinkInv ==
    /\ SinksCoverWatermark
    /\ \A s \in Loaders: Incremental /\ task[s] \in {"applied", "success"} => Taken(s)
    /\ reset = "idle" /\ Incremental /\ task["publish"] \in {"applied", "success"}
         => PublishedTo(Top(Orders))

\* Staging is not behind what a loader holds and the watermark covers.
StaysInv ==
    reset = "idle" =>
        \A s \in Loaders, t \in Tables, r \in Rows:
            staging[t][r] # 0 /\ loaded[s][t][r] <= watermark[t]
              => loaded[s][t][r] <= staging[t][r]

OrderedInv == StampInv /\ ResetInv /\ CoverInv /\ SinkInv /\ StaysInv

-----------------------------------------------------------------------------
(* Types *)

USE DEF sourceVars, metaVars, sinkVars, dagVars

States == {"pending", "bounded", "applied", "success", "failed"}

LEMMA TasksAre ==
    /\ Tables \subseteq Tasks /\ Loaders \subseteq Tasks /\ Orders \in Tables
    /\ {"count", "relations", "publish", "advance"} \subseteq Tasks
    /\ "publish" \notin Tables /\ "advance" \notin Tables /\ "count" \notin Tables
    /\ "relations" \notin Tables /\ Loaders \cap Tables = {}
    /\ Loaders \subseteq {"dbt", "iceberg"}
  BY TablesAreNotTasks, OrdersIsTable DEF Tasks, Sinks, Loaders

LEMMA BecomesShape ==
    ASSUME TypeOK, NEW x \in Tasks, NEW state \in States, Becomes(x, state)
    PROVE  /\ task' \in [Tasks -> States] /\ task'[x] = state
           /\ \A y \in Tasks \ {x}: task'[y] = task[y]
  BY DEF TypeOK, Becomes, States

LEMMA AttemptFailsShape ==
    ASSUME TypeOK, NEW x \in Tasks, AttemptFails(x)
    PROVE  /\ task' \in [Tasks -> States] /\ tries' \in [Tasks -> Nat]
           /\ task'[x] \in {"pending", "failed"}
           /\ \A y \in Tasks \ {x}: task'[y] = task[y]
  <1>1. task \in [Tasks -> States] /\ tries \in [Tasks -> Nat] /\ tries[x] + 1 \in Nat
    BY DEF TypeOK, States
  <1> QED
    BY <1>1 DEF AttemptFails, Becomes, States

\* What an extract writes, from the rows its snapshot shows.
LEMMA StagedShape ==
    ASSUME TypeOK, NEW t \in Tables, NEW seen \in [Rows -> Nat], NEW mode, NEW lo, NEW hi,
           staging' = Staged(t, seen, mode, lo, hi)
    PROVE  /\ staging' \in [Tables -> [Rows -> Nat]]
           /\ \A u \in Tables, r \in Rows:
                staging'[u][r] = IF u = t /\ seen[r] # 0 /\ Within(seen[r], mode, lo, hi)
                                 THEN seen[r] ELSE staging[u][r]
  <1>1. staging \in [Tables -> [Rows -> Nat]] /\ staging[t] \in [Rows -> Nat]
    BY DEF TypeOK
  <1> DEFINE rows == [r \in Rows |-> IF seen[r] # 0 /\ Within(seen[r], mode, lo, hi)
                                     THEN seen[r] ELSE staging[t][r]]
  <1>2. staging' = [staging EXCEPT ![t] = rows]
    BY DEF Staged
  <1>3. rows \in [Rows -> Nat]
    BY <1>1
  <1>4. \A r \in Rows: rows[r] = IF seen[r] # 0 /\ Within(seen[r], mode, lo, hi)
                                 THEN seen[r] ELSE staging[t][r]
    OBVIOUS
  <1> HIDE DEF rows
  <1> QED
    BY <1>1, <1>2, <1>3, <1>4

LEMMA RaisedShape ==
    ASSUME TypeOK, NEW t \in Tables, NEW mode \in Modes, NEW hi \in Nat,
           candidate' = Raised(t, mode, hi)
    PROVE  /\ candidate' \in [Tables -> Nat \cup {NoCandidate}]
           /\ \A u \in Tables: candidate'[u] = IF u = t /\ mode = "incremental"
                                               THEN Larger(candidate[t], hi) ELSE candidate[u]
  <1>1. candidate \in [Tables -> Nat \cup {NoCandidate}]
    BY DEF TypeOK
  <1>2. Larger(candidate[t], hi) \in Nat \cup {NoCandidate}
    BY <1>1 DEF Larger
  <1> QED
    BY <1>1, <1>2 DEF Raised

LEMMA LoadShape ==
    ASSUME TypeOK, NEW s \in Loaders, Load(s)
    PROVE  /\ loaded' \in [Loaders -> [Tables -> [Rows -> Nat]]]
           /\ \A l \in Loaders, t \in Tables, r \in Rows:
                loaded'[l][t][r] = IF l = s /\ staging[t][r] # 0 THEN staging[t][r]
                                   ELSE loaded[l][t][r]
  <1>1. /\ staging \in [Tables -> [Rows -> Nat]]
        /\ loaded \in [Loaders -> [Tables -> [Rows -> Nat]]]
        /\ loaded[s] \in [Tables -> [Rows -> Nat]]
    BY DEF TypeOK
  <1> DEFINE merged == [t \in Tables |-> [r \in Rows |->
                          IF staging[t][r] = 0 THEN loaded[s][t][r] ELSE staging[t][r]]]
  <1>2. loaded' = [loaded EXCEPT ![s] = merged]
    BY DEF Load
  <1>3. merged \in [Tables -> [Rows -> Nat]]
    BY <1>1
  <1>4. \A t \in Tables, r \in Rows:
          merged[t][r] = IF staging[t][r] = 0 THEN loaded[s][t][r] ELSE staging[t][r]
    OBVIOUS
  <1> HIDE DEF merged
  <1> QED
    BY <1>1, <1>2, <1>3, <1>4

LEMMA ToPublishTyped ==
    ASSUME TypeOK
    PROVE  \A e \in ToPublish: /\ e \in Rows \X Nat /\ e[1] \in Rows
                               /\ e[2] = staging[Orders][e[1]]
  <1>1. \A r \in Rows: staging[Orders][r] \in Nat
    BY TasksAre DEF TypeOK
  <1> QED
    BY <1>1 DEF ToPublish

LEMMA InitTyped == Init => TypeOK
  BY DEF Init, TypeOK, NoRows, Fresh, IdleRun, NoCandidate, Modes

\* A task that waits, raises, crashes or returns changes nothing but itself.
TaskMoves(x) ==
    \/ Validate(x)
    \/ TaskReturns(x)
    \/ TaskCrashes(x)
    \/ x = "publish" /\ PublishRefuses
    \/ x = "advance" /\ AdvanceCheck

LEMMA TaskMovesShape ==
    ASSUME TypeOK, NEW x \in Tasks, TaskMoves(x)
    PROVE  /\ UNCHANGED <<sourceVars, staging, metaVars, sinkVars, run, window, backfills, reset>>
           /\ task' \in [Tasks -> States] /\ tries' \in [Tasks -> Nat] /\ faults' \in Nat
           /\ \A y \in Tasks \ {x}: task'[y] = task[y]
  <1>1. CASE Validate(x)
    BY <1>1, BecomesShape, AttemptFailsShape DEF Validate, Raises, States, TypeOK
  <1>2. CASE TaskReturns(x)
    BY <1>2, BecomesShape DEF TaskReturns, States, TypeOK
  <1>3. CASE TaskCrashes(x)
    <2>1. faults' \in Nat
      BY <1>3 DEF TaskCrashes, TypeOK
    <2> QED
      BY <1>3, <2>1, AttemptFailsShape DEF TaskCrashes
  <1>4. CASE x = "publish" /\ PublishRefuses
    BY <1>4, AttemptFailsShape DEF PublishRefuses, Raises, TypeOK
  <1>5. CASE x = "advance" /\ AdvanceCheck
    <2>1. CASE AttemptFails("advance")
      BY <1>5, <2>1, AttemptFailsShape DEF AdvanceCheck, TypeOK
    <2>2. CASE ~AttemptFails("advance")
      BY <1>5, <2>2, BecomesShape DEF AdvanceCheck, States, TypeOK
    <2> QED
      BY <2>1, <2>2
  <1> QED
    BY <1>1, <1>2, <1>3, <1>4, <1>5 DEF TaskMoves

\* The statement that a crash leaves running.
LostOf(x) == [table |-> x, mode |-> run.mode, lo |-> window[x].lo, hi |-> window[x].hi,
              seen |-> source[x]]

LEMMA LostShape ==
    ASSUME TypeOK, NEW x \in Tasks, TaskMoves(x)
    PROVE  \/ lost' = lost
           \/ /\ run.mode \in LostModes /\ x \in Tables /\ task[x] = "bounded"
              /\ task'[x] \in {"pending", "failed"}
              /\ lost' = lost \cup {LostOf(x)}
  BY AttemptFailsShape DEF TaskMoves, Validate, Raises, TaskReturns, TaskCrashes,
                          PublishRefuses, AdvanceCheck, LostOf

LEMMA BoundsShape ==
    ASSUME TypeOK, NEW t \in Tables, ExtractBounds(t)
    PROVE  /\ UNCHANGED <<sourceVars, staging, metaVars, sinkVars, run, tries, backfills,
                          lost, reset, faults>>
           /\ task' \in [Tasks -> States] /\ task'[t] = "bounded"
           /\ \A y \in Tasks \ {t}: task'[y] = task[y]
           /\ window' \in [Tables -> [lo: Nat, hi: Nat]]
           /\ \A u \in Tables \ {t}: window'[u] = window[u]
           /\ run.mode = "incremental" =>
                 /\ window'[t].lo = watermark[t]
                 /\ \A r \in Rows: source[t][r] # 0 => source[t][r] <= window'[t].hi
                 /\ \/ window'[t].hi = watermark[t]
                    \/ \E r \in Rows: source[t][r] = window'[t].hi
  <1>1. /\ task' \in [Tasks -> States] /\ task'[t] = "bounded"
        /\ \A y \in Tasks \ {t}: task'[y] = task[y]
    BY TasksAre, BecomesShape DEF ExtractBounds, States
  <1>2. watermark[t] \in Nat /\ \A r \in Rows: source[t][r] \in Nat
    BY DEF TypeOK
  <1>3. PICK lo \in Nat, hi \in Nat:
           /\ window' = [window EXCEPT ![t] = [lo |-> lo, hi |-> hi]]
           /\ run.mode = "incremental" =>
                 /\ lo = watermark[t]
                 /\ \A v \in Versions(t): v <= hi
                 /\ hi = watermark[t] \/ hi \in Versions(t)
    <2>1. CASE run.mode = "backfill"
      BY <2>1 DEF ExtractBounds, TypeOK
    <2>2. CASE run.mode = "incremental"
      <3>1. PICK hi \in IF Versions(t) = {} THEN {watermark[t]} ELSE Versions(t):
               /\ \A v \in Versions(t): v <= hi
               /\ window' = [window EXCEPT ![t] = [lo |-> watermark[t], hi |-> hi]]
        BY <2>2 DEF ExtractBounds
      <3>2. hi \in Nat
        BY <1>2, <3>1 DEF Versions
      <3> QED
        BY <1>2, <3>1, <3>2
    <2> QED
      BY <2>1, <2>2 DEF TypeOK, Modes
  <1>4. /\ window' \in [Tables -> [lo: Nat, hi: Nat]]
        /\ window'[t].lo = lo /\ window'[t].hi = hi
        /\ \A u \in Tables \ {t}: window'[u] = window[u]
    BY <1>3 DEF TypeOK
  <1>5. /\ \A r \in Rows: source[t][r] # 0 => source[t][r] \in Versions(t)
        /\ \A v \in Versions(t): \E r \in Rows: source[t][r] = v
    BY DEF Versions
  <1> QED
    BY <1>1, <1>3, <1>4, <1>5 DEF ExtractBounds

LEMMA AdvanceShape ==
    ASSUME TypeOK, AdvanceCommit
    PROVE  /\ watermark' \in [Tables -> Nat]
           /\ \A t \in Tables: candidate'[t] = NoCandidate /\ watermark'[t] = Top(t)
           /\ candidate' \in [Tables -> Nat \cup {NoCandidate}]
           /\ task' \in [Tasks -> States] /\ task'["advance"] = "applied"
           /\ \A y \in Tasks \ {"advance"}: task'[y] = task[y]
  <1>1. /\ task' \in [Tasks -> States] /\ task'["advance"] = "applied"
        /\ \A y \in Tasks \ {"advance"}: task'[y] = task[y]
    BY TasksAre, BecomesShape DEF AdvanceCommit, States
  <1>2. \A t \in Tables: watermark[t] \in Nat /\ candidate[t] \in Nat \cup {NoCandidate}
    BY DEF TypeOK
  <1>3. /\ watermark' = [t \in Tables |-> IF candidate[t] = NoCandidate THEN watermark[t]
                                         ELSE Larger(watermark[t], candidate[t])]
        /\ candidate' = [t \in Tables |-> NoCandidate]
    BY DEF AdvanceCommit
  <1>4. \A t \in Tables: watermark'[t] = Top(t) /\ watermark'[t] \in Nat
    BY <1>2, <1>3 DEF Top, Larger, NoCandidate
  <1> QED
    BY <1>1, <1>3, <1>4

LEMMA WriteShape ==
    ASSUME TypeOK, NEW t \in Tables, NEW r \in Rows, BeginWrite(t, r)
    PROVE  /\ clock' = clock + 1 /\ inflight' = inflight \cup {<<t, r, clock + 1>>}
           /\ UNCHANGED <<source, shown, staging, metaVars, sinkVars, dagVars, lost, reset, faults>>
           /\ \A w \in inflight: ~(w[1] = t /\ w[2] = r)
  BY DEF BeginWrite

LEMMA CommitShape ==
    ASSUME TypeOK, NEW w \in inflight, CommitWrite(w)
    PROVE  /\ w \in Tables \X Rows \X Nat /\ w[1] \in Tables /\ w[2] \in Rows /\ w[3] \in Nat
           /\ source' \in [Tables -> [Rows -> Nat]]
           /\ \A u \in Tables, q \in Rows:
                source'[u][q] = IF u = w[1] /\ q = w[2] THEN w[3] ELSE source[u][q]
           /\ inflight' = inflight \ {w}
           /\ UNCHANGED <<clock, shown, staging, metaVars, sinkVars, dagVars, lost, reset, faults>>
  <1>1. w \in Tables \X Rows \X Nat /\ w[1] \in Tables /\ w[2] \in Rows /\ w[3] \in Nat
    BY DEF TypeOK
  <1>2. source \in [Tables -> [Rows -> Nat]] /\ source[w[1]] \in [Rows -> Nat]
    BY <1>1 DEF TypeOK
  <1>3. source' = [source EXCEPT ![w[1]][w[2]] = w[3]]
    BY DEF CommitWrite
  <1>4. /\ source' \in [Tables -> [Rows -> Nat]]
        /\ \A u \in Tables, q \in Rows:
             source'[u][q] = IF u = w[1] /\ q = w[2] THEN w[3] ELSE source[u][q]
    BY <1>1, <1>2, <1>3
  <1> QED
    BY <1>1, <1>4 DEF CommitWrite

\* The disjuncts of Next, the moves of tasks taken together.
LEMMA NextIs ==
    ASSUME Next
    PROVE  \/ \E t \in Tables, r \in Rows: BeginWrite(t, r)
           \/ \E w \in inflight: CommitWrite(w)
           \/ \E c \in Customers: ShowCustomer(c)
           \/ StartScheduled
           \/ \E start, end \in 1..clock + 1: StartBackfill(start, end)
           \/ EndRun
           \/ \E x \in Tasks: TaskMoves(x)
           \/ \E t \in Tables: ExtractBounds(t) \/ ExtractUpsert(t)
           \/ \E s \in Loaders: Load(s)
           \/ Publish
           \/ AdvanceCommit
           \/ \E z \in lost: LostUpsert(z) \/ LostRollback(z)
           \/ \E delivered \in SUBSET ToPublish: PublishPartly(delivered)
           \/ ResetStaging \/ ResetMetadata \/ ResetDies
  <1>1. \A x \in Tasks: TaskStep(x) =>
           \/ TaskMoves(x)
           \/ x \in Tables /\ (ExtractBounds(x) \/ ExtractUpsert(x))
           \/ x \in Loaders /\ Load(x)
           \/ Publish \/ AdvanceCommit
    BY DEF TaskStep, TaskMoves, Load
  <1>2. \A x \in Tasks: TaskCrashes(x) => TaskMoves(x)
    BY DEF TaskMoves
  <1> QED
    BY <1>1, <1>2 DEF Next

LEMMA RunStepsShape ==
    ASSUME TypeOK,
           \/ StartScheduled
           \/ \E start, end \in 1..clock + 1: StartBackfill(start, end)
           \/ EndRun
    PROVE  /\ UNCHANGED <<sourceVars, staging, metaVars, sinkVars, lost, reset, faults>>
           /\ run' \in [active: BOOLEAN, mode: Modes, start: Nat, end: Nat]
           /\ task' \in [Tasks -> States] /\ tries' \in [Tasks -> Nat]
           /\ window' \in [Tables -> [lo: Nat, hi: Nat]] /\ backfills' \in Nat
           /\ \/ RunMayStart /\ run'.active /\ task' = task
              \/ ~run'.active /\ task' = Fresh
  <1>1. CASE StartScheduled
    BY <1>1 DEF StartScheduled, IdleRun, TypeOK, States, Modes
  <1>2. ASSUME NEW start \in 1..clock + 1, NEW end \in 1..clock + 1, StartBackfill(start, end)
        PROVE  /\ UNCHANGED <<sourceVars, staging, metaVars, sinkVars, lost, reset, faults>>
               /\ run' \in [active: BOOLEAN, mode: Modes,
                            start: Nat, end: Nat]
               /\ task' = task /\ tries' = tries /\ window' = window /\ backfills' \in Nat
               /\ RunMayStart /\ run'.active
    <2>1. start \in Nat /\ end \in Nat
      BY DEF TypeOK
    <2> QED
      BY <1>2, <2>1 DEF StartBackfill, TypeOK, Modes
  <1>3. CASE EndRun
    BY <1>3 DEF EndRun, IdleRun, Fresh, TypeOK, States, Modes
  <1> QED
    BY <1>1, <1>2, <1>3 DEF TypeOK, States

LEMMA PublishShape ==
    ASSUME TypeOK,
           Publish \/ \E delivered \in SUBSET ToPublish: PublishPartly(delivered)
    PROVE  /\ events \subseteq events' /\ events' \subseteq events \cup ToPublish
           /\ UNCHANGED <<sourceVars, staging, metaVars, loaded, run, window, backfills, lost,
                          reset>>
           /\ task' \in [Tasks -> States] /\ tries' \in [Tasks -> Nat] /\ faults' \in Nat
           /\ \A y \in Tasks \ {"publish"}: task'[y] = task[y]
           /\ \/ Publish /\ events' = events \cup ToPublish /\ task'["publish"] = "applied"
              \/ task'["publish"] \in {"pending", "failed"}
  <1>1. CASE Publish
    BY <1>1, TasksAre, BecomesShape DEF Publish, States, TypeOK
  <1>2. CASE \E delivered \in SUBSET ToPublish: PublishPartly(delivered)
    <2>1. PICK delivered \in SUBSET ToPublish: PublishPartly(delivered)
      BY <1>2
    <2>2. faults' \in Nat
      BY <2>1 DEF PublishPartly, TypeOK
    <2>3. /\ task' \in [Tasks -> States] /\ tries' \in [Tasks -> Nat]
          /\ task'["publish"] \in {"pending", "failed"}
          /\ \A y \in Tasks \ {"publish"}: task'[y] = task[y]
      BY <2>1, TasksAre, AttemptFailsShape DEF PublishPartly
    <2>4. /\ events' = events \cup delivered
          /\ UNCHANGED <<sourceVars, staging, metaVars, loaded, run, window, backfills, lost,
                         reset>>
      BY <2>1 DEF PublishPartly
    <2> QED
      BY <2>2, <2>3, <2>4
  <1> QED
    BY <1>1, <1>2

LEMMA ResetStagingShape ==
    ASSUME TypeOK, ResetStaging
    PROVE  /\ UNCHANGED <<sourceVars, metaVars, sinkVars, dagVars, lost, faults>>
           /\ reset # "dropped" /\ reset' = "dropped" /\ lost = {}
           /\ staging' \in [Tables -> [Rows -> Nat]]
           /\ \A t \in Tables, r \in Rows: staging'[t][r] = 0
  BY DEF ResetStaging, NoRows

LEMMA ResetMetadataShape ==
    ASSUME TypeOK, ResetMetadata
    PROVE  /\ UNCHANGED <<sourceVars, staging, sinkVars, dagVars, lost, faults>>
           /\ lost = {} /\ reset = "dropped" /\ reset' = "idle"
           /\ watermark' \in [Tables -> Nat]
           /\ candidate' \in [Tables -> Nat \cup {NoCandidate}]
           /\ \A t \in Tables: watermark'[t] = 0 /\ candidate'[t] = NoCandidate
  BY DEF ResetMetadata

LEMMA StepTyped == ASSUME TypeOK, [Next]_vars PROVE TypeOK'
  <1> USE DEF TypeOK, States
  <1>1. ASSUME NEW t \in Tables, NEW r \in Rows, BeginWrite(t, r) PROVE TypeOK'
    <2>1. inflight' \in SUBSET (Tables \X Rows \X Nat) /\ clock' \in Nat
      BY <1>1, WriteShape
    <2> QED
      BY <1>1, <2>1, WriteShape
  <1>2. ASSUME NEW w \in inflight, CommitWrite(w) PROVE TypeOK'
    BY <1>2, CommitShape
  <1>3. ASSUME NEW c \in Customers, ShowCustomer(c) PROVE TypeOK'
    BY <1>3 DEF ShowCustomer
  <1>4. CASE \/ StartScheduled
             \/ \E start, end \in 1..clock + 1: StartBackfill(start, end)
             \/ EndRun
    BY <1>4, RunStepsShape
  <1>5. ASSUME NEW x \in Tasks, TaskMoves(x) PROVE TypeOK'
    <2>1. CASE lost' = lost
      BY <1>5, <2>1, TaskMovesShape
    <2>2. CASE x \in Tables /\ lost' = lost \cup {LostOf(x)}
      <3>1. /\ run.mode \in Modes /\ source[x] \in [Rows -> Nat]
            /\ window[x].lo \in Nat /\ window[x].hi \in Nat
        BY <2>2
      <3>2. LostOf(x) \in [table: Tables, mode: Modes, lo: Nat, hi: Nat, seen: [Rows -> Nat]]
        BY <2>2, <3>1 DEF LostOf
      <3>3. lost' \in SUBSET [table: Tables, mode: Modes, lo: Nat, hi: Nat, seen: [Rows -> Nat]]
        BY <2>2, <3>2
      <3> QED
        BY <1>5, <3>3, TaskMovesShape
    <2> QED
      BY <1>5, <2>1, <2>2, LostShape
  <1>6. ASSUME NEW t \in Tables, ExtractBounds(t) PROVE TypeOK'
    BY <1>6, BoundsShape
  <1>7. ASSUME NEW t \in Tables, ExtractUpsert(t) PROVE TypeOK'
    <2>1. task' \in [Tasks -> States]
      BY <1>7, TasksAre, BecomesShape DEF ExtractUpsert
    <2>2. run.mode \in Modes /\ window[t].hi \in Nat /\ source[t] \in [Rows -> Nat]
      OBVIOUS
    <2>3. /\ staging' \in [Tables -> [Rows -> Nat]]
          /\ candidate' \in [Tables -> Nat \cup {NoCandidate}]
      BY <1>7, <2>2, StagedShape, RaisedShape DEF ExtractUpsert
    <2> QED
      BY <1>7, <2>1, <2>3 DEF ExtractUpsert
  <1>8. ASSUME NEW s \in Loaders, Load(s) PROVE TypeOK'
    <2>1. task' \in [Tasks -> States]
      BY <1>8, TasksAre, BecomesShape DEF Load
    <2> QED
      BY <1>8, <2>1, LoadShape DEF Load
  <1>9. CASE Publish \/ \E delivered \in SUBSET ToPublish: PublishPartly(delivered)
    <2>1. events' \in SUBSET (Rows \X Nat)
      BY <1>9, PublishShape, ToPublishTyped
    <2> QED
      BY <1>9, <2>1, PublishShape
  <1>10. CASE AdvanceCommit
    <2>1. /\ task' \in [Tasks -> States] /\ watermark' \in [Tables -> Nat]
          /\ candidate' \in [Tables -> Nat \cup {NoCandidate}]
      BY <1>10, AdvanceShape
    <2> QED
      BY <1>10, <2>1 DEF AdvanceCommit
  <1>11. ASSUME NEW z \in lost, LostUpsert(z) PROVE TypeOK'
    <2>1. z.table \in Tables /\ z.mode \in Modes /\ z.hi \in Nat /\ z.seen \in [Rows -> Nat]
      OBVIOUS
    <2>2. /\ staging' \in [Tables -> [Rows -> Nat]]
          /\ candidate' \in [Tables -> Nat \cup {NoCandidate}]
      BY <1>11, <2>1, StagedShape, RaisedShape DEF LostUpsert
    <2> QED
      BY <1>11, <2>2 DEF LostUpsert
  <1>12. CASE ResetStaging \/ ResetMetadata \/ ResetDies
    <2>1. CASE ResetStaging
      BY <2>1, ResetStagingShape
    <2>2. CASE ResetMetadata
      BY <2>2, ResetMetadataShape
    <2>3. CASE ResetDies
      <3>1. faults' \in Nat /\ reset' = "half"
        BY <2>3 DEF ResetDies
      <3> QED
        BY <2>3, <3>1 DEF ResetDies
    <2> QED
      BY <1>12, <2>1, <2>2, <2>3
  <1>13. CASE UNCHANGED vars
    BY <1>13 DEF vars
  <1>14. ASSUME NEW z \in lost, LostRollback(z) PROVE TypeOK'
    BY <1>14 DEF LostRollback
  <1> QED
    BY <1>1, <1>2, <1>3, <1>4, <1>5, <1>6, <1>7, <1>8, <1>9, <1>10, <1>11, <1>12, <1>13, <1>14, NextIs

\* Every variable keeps its type in every behaviour, with any resets, lost
\* attempts and late commits.  (ecommerce_pipeline.py:65-533)
THEOREM TypeCorrect == Spec => []TypeOK
  BY InitTyped, StepTyped, PTL DEF Spec

-----------------------------------------------------------------------------
(* The path through staging *)

\* The rows of the source only change by a write or a commit.
LEMMA SourceSteps ==
    ASSUME TypeOK, [Next]_vars
    PROVE  \/ \E t \in Tables, r \in Rows: BeginWrite(t, r)
           \/ \E w \in inflight: CommitWrite(w)
           \/ UNCHANGED <<clock, source, inflight>>
  <1>1. \A x \in Tasks: TaskMoves(x) => UNCHANGED <<clock, source, inflight>>
    BY TaskMovesShape
  <1>2. \A t \in Tables: ExtractBounds(t) \/ ExtractUpsert(t)
                           => UNCHANGED <<clock, source, inflight>>
    BY DEF ExtractBounds, ExtractUpsert
  <1>3. \A s \in Loaders: Load(s) => UNCHANGED <<clock, source, inflight>>
    BY DEF Load
  <1>4. \A start, end: StartBackfill(start, end) => UNCHANGED <<clock, source, inflight>>
    BY DEF StartBackfill
  <1>5. \A z: LostUpsert(z) \/ LostRollback(z) => UNCHANGED <<clock, source, inflight>>
    BY DEF LostUpsert, LostRollback
  <1>6. \A delivered: PublishPartly(delivered) => UNCHANGED <<clock, source, inflight>>
    BY DEF PublishPartly
  <1>7. \A c: ShowCustomer(c) => UNCHANGED <<clock, source, inflight>>
    BY DEF ShowCustomer
  <1>8. StartScheduled \/ EndRun \/ Publish \/ AdvanceCommit \/ ResetStaging
          \/ ResetMetadata \/ ResetDies \/ UNCHANGED vars
          => UNCHANGED <<clock, source, inflight>>
    BY DEF StartScheduled, EndRun, Publish, AdvanceCommit, ResetStaging, ResetMetadata,
           ResetDies, vars
  <1> QED
    BY <1>1, <1>2, <1>3, <1>4, <1>5, <1>6, <1>7, <1>8, NextIs

LEMMA InflightStep ==
    ASSUME TypeOK, InflightInv, [Next]_vars
    PROVE  InflightInv' /\ \A t \in Tables, r \in Rows: source'[t][r] >= source[t][r]
  <1>1. /\ clock \in Nat /\ \A t \in Tables, r \in Rows: source[t][r] \in Nat
        /\ \A w \in inflight: w[1] \in Tables /\ w[2] \in Rows /\ w[3] \in Nat
    BY DEF TypeOK
  <1>2. ASSUME NEW t \in Tables, NEW r \in Rows, BeginWrite(t, r)
        PROVE  InflightInv' /\ \A u \in Tables, q \in Rows: source'[u][q] >= source[u][q]
    <2>1. /\ clock' = clock + 1 /\ source' = source
          /\ \A w \in inflight: ~(w[1] = t /\ w[2] = r)
      BY <1>2, WriteShape
    <2>2. \A w \in inflight': w \in inflight \/ (w[1] = t /\ w[2] = r /\ w[3] = clock + 1
                                                  /\ w = <<t, r, clock + 1>>)
      BY <1>2, WriteShape
    <2> QED
      BY <1>1, <2>1, <2>2 DEF InflightInv
  <1>3. ASSUME NEW w \in inflight, CommitWrite(w)
        PROVE  InflightInv' /\ \A u \in Tables, q \in Rows: source'[u][q] >= source[u][q]
    <2>1. /\ \A u \in Tables, q \in Rows:
               source'[u][q] = IF u = w[1] /\ q = w[2] THEN w[3] ELSE source[u][q]
          /\ inflight' = inflight \ {w} /\ clock' = clock
      BY <1>3, CommitShape
    <2>2. \A v \in inflight': v \in inflight /\ ~(v[1] = w[1] /\ v[2] = w[2])
      BY <2>1 DEF InflightInv
    <2> QED
      BY <1>1, <2>1, <2>2 DEF InflightInv
  <1>4. CASE UNCHANGED <<clock, source, inflight>>
    BY <1>1, <1>4 DEF InflightInv
  <1> QED
    BY <1>2, <1>3, <1>4, SourceSteps

\* A lost statement begins with the rows of its time, and ends.
LEMMA LostSteps ==
    ASSUME TypeOK, [Next]_vars
    PROVE  \/ lost' \subseteq lost
           \/ /\ UNCHANGED <<clock, source, inflight, staging, metaVars, sinkVars, run, window,
                             reset>>
              /\ \E x \in Tables:
                   /\ run.mode \in LostModes /\ task[x] = "bounded" /\ lost' = lost \cup {LostOf(x)}
                   /\ task'[x] \in {"pending", "failed"}
                   /\ \A y \in Tasks \ {x}: task'[y] = task[y]
  <1>1. ASSUME NEW x \in Tasks, TaskMoves(x), lost' # lost
        PROVE  /\ UNCHANGED <<clock, source, inflight, staging, metaVars, sinkVars, run, window,
                              reset>>
               /\ x \in Tables /\ run.mode \in LostModes /\ task[x] = "bounded"
               /\ lost' = lost \cup {LostOf(x)}
               /\ task'[x] \in {"pending", "failed"}
               /\ \A y \in Tasks \ {x}: task'[y] = task[y]
    BY <1>1, LostShape, TaskMovesShape
  <1>2. \A t \in Tables: ExtractBounds(t) \/ ExtractUpsert(t) => lost' = lost
    BY DEF ExtractBounds, ExtractUpsert
  <1>3. \A s \in Loaders: Load(s) => lost' = lost
    BY DEF Load
  <1>4. \A t \in Tables, r \in Rows: BeginWrite(t, r) => lost' = lost
    BY WriteShape
  <1>5. \A z: LostUpsert(z) \/ LostRollback(z) => lost' \subseteq lost
    BY DEF LostUpsert, LostRollback
  <1>6. \A delivered \in SUBSET ToPublish: PublishPartly(delivered) => lost' = lost
    BY PublishShape
  <1>7. \A c: ShowCustomer(c) => lost' = lost
    BY DEF ShowCustomer
  <1>8. \A w: CommitWrite(w) => lost' = lost
    BY DEF CommitWrite
  <1>9. \A start, end: StartBackfill(start, end) => lost' = lost
    BY DEF StartBackfill
  <1>10. StartScheduled \/ EndRun \/ Publish \/ AdvanceCommit \/ ResetStaging
           \/ ResetMetadata \/ ResetDies \/ UNCHANGED vars => lost' = lost
    BY DEF StartScheduled, EndRun, Publish, AdvanceCommit, ResetStaging, ResetMetadata,
           ResetDies, vars
  <1> QED
    BY <1>1, <1>2, <1>3, <1>4, <1>5, <1>6, <1>7, <1>8, <1>9, <1>10, NextIs

\* What a step does to the stores along the path.
LEMMA PathSteps ==
    ASSUME TypeOK, [Next]_vars
    PROVE  \/ UNCHANGED <<staging, loaded, events>>
           \/ /\ UNCHANGED <<loaded, events, source>>
              /\ \A t \in Tables, r \in Rows:
                   \/ staging'[t][r] \in {staging[t][r], source[t][r], 0}
                   \/ \E z \in lost: z.table = t /\ staging'[t][r] = z.seen[r]
           \/ \E s \in Loaders: Load(s)
           \/ /\ UNCHANGED <<staging, loaded, source>>
              /\ events' \subseteq events \cup ToPublish
  <1>1. \A x \in Tasks: TaskMoves(x) => UNCHANGED <<staging, loaded, events>>
    BY TaskMovesShape
  <1>2. \A t \in Tables: ExtractBounds(t) => UNCHANGED <<staging, loaded, events>>
    BY DEF ExtractBounds
  <1>3. ASSUME NEW t \in Tables, ExtractUpsert(t)
        PROVE  /\ UNCHANGED <<loaded, events, source>>
               /\ \A u \in Tables, r \in Rows:
                    staging'[u][r] \in {staging[u][r], source[u][r], 0}
    <2>1. source[t] \in [Rows -> Nat]
      BY DEF TypeOK
    <2> QED
      BY <1>3, <2>1, StagedShape DEF ExtractUpsert
  <1>4. ASSUME NEW z \in lost, LostUpsert(z)
        PROVE  /\ UNCHANGED <<loaded, events, source>>
               /\ \A u \in Tables, r \in Rows:
                    \/ staging'[u][r] = staging[u][r]
                    \/ z.table = u /\ staging'[u][r] = z.seen[r]
    <2>1. z.table \in Tables /\ z.seen \in [Rows -> Nat]
      BY DEF TypeOK
    <2> QED
      BY <1>4, <2>1, StagedShape DEF LostUpsert
  <1>5. Publish \/ (\E delivered \in SUBSET ToPublish: PublishPartly(delivered))
          => /\ UNCHANGED <<staging, loaded, source>>
             /\ events' \subseteq events \cup ToPublish
    BY PublishShape
  <1>6. ResetStaging => /\ UNCHANGED <<loaded, events, source>>
                        /\ \A t \in Tables, r \in Rows: staging'[t][r] = 0
    BY ResetStagingShape
  <1>7. \A t \in Tables, r \in Rows: BeginWrite(t, r) => UNCHANGED <<staging, loaded, events>>
    BY WriteShape
  <1>8. \A w \in inflight: CommitWrite(w) => UNCHANGED <<staging, loaded, events>>
    BY CommitShape
  <1>9. \A c: ShowCustomer(c) => UNCHANGED <<staging, loaded, events>>
    BY DEF ShowCustomer
  <1>10. \A start, end: StartBackfill(start, end) => UNCHANGED <<staging, loaded, events>>
    BY DEF StartBackfill
  <1>11. \A z: LostRollback(z) => UNCHANGED <<staging, loaded, events>>
    BY DEF LostRollback
  <1>12. StartScheduled \/ EndRun \/ AdvanceCommit \/ ResetMetadata \/ ResetDies
           \/ UNCHANGED vars => UNCHANGED <<staging, loaded, events>>
    BY DEF StartScheduled, EndRun, AdvanceCommit, ResetMetadata, ResetDies, vars
  <1> QED
    BY <1>1, <1>2, <1>3, <1>4, <1>5, <1>6, <1>7, <1>8, <1>9, <1>10, <1>11, <1>12, NextIs

LEMMA PathStep ==
    ASSUME TypeOK, TypeOK', InflightInv, PathInv, [Next]_vars
    PROVE  PathInv'
  <1>1. /\ \A t \in Tables, r \in Rows: source[t][r] \in Nat /\ source'[t][r] \in Nat
        /\ \A t \in Tables, r \in Rows: staging[t][r] \in Nat /\ staging'[t][r] \in Nat
        /\ \A s \in Loaders, t \in Tables, r \in Rows:
             loaded[s][t][r] \in Nat /\ loaded'[s][t][r] \in Nat
        /\ \A e \in events: e[1] \in Rows /\ e[2] \in Nat
        /\ \A z \in lost: z.table \in Tables /\ \A r \in Rows: z.seen[r] \in Nat
    BY DEF TypeOK
  <1>2. \A t \in Tables, r \in Rows: source'[t][r] >= source[t][r]
    BY InflightStep
  <1>3. SinksFollowSource'
    <2>1. CASE UNCHANGED <<staging, loaded, events>>
      BY <1>1, <1>2, <2>1, OrdersIsTable DEF PathInv, SinksFollowSource
    <2>2. CASE /\ UNCHANGED <<loaded, events, source>>
               /\ \A t \in Tables, r \in Rows:
                    \/ staging'[t][r] \in {staging[t][r], source[t][r], 0}
                    \/ \E z \in lost: z.table = t /\ staging'[t][r] = z.seen[r]
      <3>1. \A t \in Tables, r \in Rows: staging'[t][r] <= source[t][r]
        BY <1>1, <2>2 DEF PathInv, SinksFollowSource
      <3> QED
        BY <2>2, <3>1 DEF PathInv, SinksFollowSource
    <2>3. ASSUME NEW s \in Loaders, Load(s) PROVE SinksFollowSource'
      <3>1. UNCHANGED <<source, staging, events>>
        BY <2>3 DEF Load
      <3>2. \A l \in Loaders, t \in Tables, r \in Rows:
               loaded'[l][t][r] \in {staging[t][r], loaded[l][t][r]}
        BY <2>3, LoadShape
      <3> QED
        BY <1>1, <3>1, <3>2 DEF PathInv, SinksFollowSource
    <2>4. CASE /\ UNCHANGED <<staging, loaded, source>>
               /\ events' \subseteq events \cup ToPublish
      <3>1. \A e \in ToPublish: e[2] <= source[Orders][e[1]]
        BY <1>1, ToPublishTyped, OrdersIsTable DEF PathInv, SinksFollowSource
      <3> QED
        BY <2>4, <3>1 DEF PathInv, SinksFollowSource
    <2> QED
      BY <2>1, <2>2, <2>3, <2>4, PathSteps
  <1>4. \A z \in lost': \A r \in Rows: z.seen[r] <= source'[z.table][r]
    <2>1. CASE lost' \subseteq lost
      BY <1>1, <1>2, <2>1 DEF PathInv
    <2>2. ASSUME NEW x \in Tables, lost' = lost \cup {LostOf(x)}, source' = source
          PROVE  \A z \in lost': \A r \in Rows: z.seen[r] <= source'[z.table][r]
      <3>1. LostOf(x).seen = source[x] /\ LostOf(x).table = x
        BY DEF LostOf
      <3> QED
        BY <1>1, <2>2, <3>1 DEF PathInv
    <2> QED
      BY <2>1, <2>2, LostSteps
  <1> QED
    BY <1>3, <1>4 DEF PathInv

LEMMA InitPath == Init => InflightInv /\ PathInv
  <1>1. Init => /\ \A t \in Tables, r \in Rows: source[t][r] = 0 /\ staging[t][r] = 0
                /\ \A s \in Loaders, t \in Tables, r \in Rows: loaded[s][t][r] = 0
                /\ events = {} /\ inflight = {} /\ clock = 0 /\ lost = {}
    BY DEF Init, NoRows
  <1> QED
    BY <1>1 DEF InflightInv, PathInv, SinksFollowSource

\* The invariant of the theorems that follow.
LEMMA PathAlways == Spec => [](TypeOK /\ InflightInv /\ PathInv)
  <1>1. Init => TypeOK /\ InflightInv /\ PathInv
    BY InitTyped, InitPath
  <1>2. TypeOK /\ InflightInv /\ PathInv /\ [Next]_vars => (TypeOK /\ InflightInv /\ PathInv)'
    BY StepTyped, InflightStep, PathStep
  <1> QED
    BY <1>1, <1>2, PTL DEF Spec

\* No sink holds a version the source never committed or one newer than the
\* source's, across late commits, resets at any time and lost attempts whose
\* statements stage what an old snapshot shows.
\* (ecommerce_pipeline.py:65-533, run_iceberg_batch, publish_orders.py)
THEOREM SinksNeverAhead == Spec => []SinksFollowSource
  BY PathAlways, PTL DEF PathInv

-----------------------------------------------------------------------------
(* Nothing goes back, unless a statement outlives its attempt *)

\* No loader takes a version back and only the reset lowers a watermark.
NothingGoesBack ==
    [][/\ \A t \in Tables: watermark'[t] >= watermark[t] \/ reset = "dropped"
       /\ \A s \in Loaders, t \in Tables, r \in Rows: loaded'[s][t][r] >= loaded[s][t][r]]_vars

\* Without lost statements staging is never behind a loader, or was emptied.
BackInv ==
    /\ lost = {}
    /\ \A s \in Loaders, t \in Tables, r \in Rows:
         staging[t][r] # 0 => loaded[s][t][r] <= staging[t][r]

LEMMA WatermarkSteps ==
    ASSUME TypeOK, [Next]_vars
    PROVE  AdvanceCommit \/ ResetMetadata \/ watermark' = watermark
  <1>1. \A x \in Tasks: TaskMoves(x) => watermark' = watermark
    BY TaskMovesShape
  <1>2. \A t \in Tables: ExtractBounds(t) \/ ExtractUpsert(t) => watermark' = watermark
    BY DEF ExtractBounds, ExtractUpsert
  <1>3. \A s: Load(s) => watermark' = watermark
    BY DEF Load
  <1>4. \A start, end: StartBackfill(start, end) => watermark' = watermark
    BY DEF StartBackfill
  <1>5. \A z: LostUpsert(z) \/ LostRollback(z) => watermark' = watermark
    BY DEF LostUpsert, LostRollback
  <1>6. \A delivered: PublishPartly(delivered) => watermark' = watermark
    BY DEF PublishPartly
  <1>7. \A c: ShowCustomer(c) => watermark' = watermark
    BY DEF ShowCustomer
  <1>8. \A t \in Tables, r \in Rows: BeginWrite(t, r) => watermark' = watermark
    BY WriteShape
  <1>9. \A w: CommitWrite(w) => watermark' = watermark
    BY DEF CommitWrite
  <1>10. StartScheduled \/ EndRun \/ Publish \/ ResetStaging \/ ResetDies \/ UNCHANGED vars
           => watermark' = watermark
    BY DEF StartScheduled, EndRun, Publish, ResetStaging, ResetDies, vars
  <1> QED
    BY <1>1, <1>2, <1>3, <1>4, <1>5, <1>6, <1>7, <1>8, <1>9, <1>10, NextIs

LEMMA BackStep ==
    ASSUME LostModes = {}, TypeOK, TypeOK', InflightInv, PathInv, BackInv, [Next]_vars
    PROVE  /\ BackInv'
           /\ \A s \in Loaders, t \in Tables, r \in Rows: loaded'[s][t][r] >= loaded[s][t][r]
  <1>1. /\ \A t \in Tables, r \in Rows: source[t][r] \in Nat
        /\ \A t \in Tables, r \in Rows: staging[t][r] \in Nat
        /\ \A s \in Loaders, t \in Tables, r \in Rows: loaded[s][t][r] \in Nat
    BY DEF TypeOK
  <1>2. lost' = {}
    BY LostSteps DEF BackInv
  <1>3. ASSUME NEW s \in Loaders, NEW t \in Tables, NEW r \in Rows
        PROVE  /\ staging'[t][r] # 0 => loaded'[s][t][r] <= staging'[t][r]
               /\ loaded'[s][t][r] >= loaded[s][t][r]
    <2>1. CASE UNCHANGED <<staging, loaded>>
      BY <1>1, <2>1 DEF BackInv
    <2>2. CASE loaded' = loaded /\ staging'[t][r] \in {staging[t][r], source[t][r], 0}
      BY <1>1, <2>2 DEF BackInv, PathInv, SinksFollowSource
    <2>3. ASSUME NEW l \in Loaders, Load(l)
          PROVE  /\ staging'[t][r] # 0 => loaded'[s][t][r] <= staging'[t][r]
                 /\ loaded'[s][t][r] >= loaded[s][t][r]
      <3>1. staging' = staging /\ loaded'[s][t][r] = IF s = l /\ staging[t][r] # 0
                                                     THEN staging[t][r] ELSE loaded[s][t][r]
        BY <2>3, LoadShape DEF Load
      <3> QED
        BY <1>1, <3>1 DEF BackInv
    <2> QED
      BY <2>1, <2>2, <2>3, PathSteps DEF BackInv
  <1> QED
    BY <1>2, <1>3 DEF BackInv

LEMMA WatermarkForward ==
    ASSUME TypeOK, [Next]_vars
    PROVE  \A t \in Tables: watermark'[t] >= watermark[t] \/ reset = "dropped"
  <1>1. \A t \in Tables: watermark[t] \in Nat /\ candidate[t] \in Nat \cup {NoCandidate}
    BY DEF TypeOK
  <1>2. AdvanceCommit => \A t \in Tables: watermark'[t] >= watermark[t]
    BY <1>1, AdvanceShape DEF Top, Larger, NoCandidate
  <1>3. ResetMetadata => reset = "dropped"
    BY ResetMetadataShape
  <1> QED
    BY <1>1, <1>2, <1>3, WatermarkSteps

\* If no statement outlives its attempt, no loader goes back to an older
\* version and only the reset lowers a watermark, whatever windows backfills
\* reread, with late commits and resets at any time.  A statement that does
\* outlive it may stage what its snapshot shows over a newer version; then the
\* loaders keep what the watermark covers (CommittedStaysHolds).
\* (ecommerce_pipeline.py:118, 464, ecommerce_reset_other_schema.py:33)
THEOREM NothingGoesBackHolds == ASSUME LostModes = {} PROVE Spec => NothingGoesBack
  <1>1. Init => BackInv
    <2>1. Init => lost = {} /\ \A t \in Tables, r \in Rows: staging[t][r] = 0
      BY DEF Init, NoRows
    <2> QED
      BY <2>1 DEF BackInv
  <1>2. TypeOK /\ InflightInv /\ PathInv /\ (TypeOK /\ InflightInv /\ PathInv)' /\ BackInv
          /\ [Next]_vars => BackInv'
    BY BackStep
  <1>3. /\ TypeOK /\ InflightInv /\ PathInv /\ (TypeOK /\ InflightInv /\ PathInv)' /\ BackInv
        /\ [Next]_vars
        => [/\ \A t \in Tables: watermark'[t] >= watermark[t] \/ reset = "dropped"
            /\ \A s \in Loaders, t \in Tables, r \in Rows:
                 loaded'[s][t][r] >= loaded[s][t][r]]_vars
    BY BackStep, WatermarkForward
  <1> QED
    BY <1>1, <1>2, <1>3, PathAlways, PTL DEF Spec, NothingGoesBack

-----------------------------------------------------------------------------
(* The tasks of a run, the locks and the resets between runs *)

LEMMA UpstreamIs ==
    /\ \A t \in Tables: Upstream(t) = {}
    /\ Upstream("count") = Tables /\ Upstream("relations") = {"count"}
    /\ \A s \in Sinks: Upstream(s) = {"relations"}
    /\ Upstream("advance") = Sinks
    /\ \A x \in Tasks: Upstream(x) \subseteq Tasks
  <1>1. /\ \A t \in Tables: Upstream(t) = {}
        /\ Upstream("count") = Tables /\ Upstream("relations") = {"count"}
        /\ \A s \in Sinks: Upstream(s) = {"relations"}
        /\ Upstream("advance") = Sinks
    BY TablesAreNotTasks DEF Upstream, Sinks, Loaders
  <1> QED
    BY <1>1 DEF Tasks

\* A task moves whose upstream succeeded; the others and the run stay.
Turn(x) ==
    /\ Ready(x) \/ task[x] \in {"bounded", "applied"}
    /\ run' = run /\ \A y \in Tasks \ {x}: task'[y] = task[y]
    /\ x = "advance" /\ task'[x] = "bounded" => run.mode = "incremental"

\* At most one task moves in a step.
LEMMA TaskTurns ==
    ASSUME TypeOK, [Next]_vars
    PROVE  \/ task' = task /\ run' = run
           \/ RunMayStart /\ task' = task
           \/ ~run'.active /\ task' = Fresh
           \/ \E x \in Tasks: Turn(x)
  <1>1. ASSUME NEW x \in Tasks, TaskMoves(x) PROVE Turn(x)
    <2>1. run' = run /\ \A y \in Tasks \ {x}: task'[y] = task[y]
      BY <1>1, TaskMovesShape
    <2>2. Ready(x) \/ task[x] \in {"bounded", "applied"}
      BY <1>1 DEF TaskMoves, Validate, TaskReturns, TaskCrashes, Running, PublishRefuses,
                  AdvanceCheck
    <2>3. x = "advance" /\ task'[x] = "bounded" => run.mode = "incremental"
      BY <1>1, AttemptFailsShape, BecomesShape
        DEF TaskMoves, Validate, TaskReturns, TaskCrashes, PublishRefuses, AdvanceCheck, States
    <2> QED
      BY <2>1, <2>2, <2>3 DEF Turn
  <1>2. ASSUME NEW t \in Tables, ExtractBounds(t) \/ ExtractUpsert(t)
        PROVE  t \in Tasks /\ Turn(t)
    BY <1>2, TasksAre, BecomesShape DEF ExtractBounds, ExtractUpsert, Turn, States
  <1>3. ASSUME NEW s \in Loaders, Load(s) PROVE s \in Tasks /\ Turn(s)
    BY <1>3, TasksAre, BecomesShape DEF Load, Turn, States
  <1>4. Publish \/ (\E delivered \in SUBSET ToPublish: PublishPartly(delivered))
          => "publish" \in Tasks /\ Turn("publish")
    BY TasksAre, PublishShape DEF Publish, PublishPartly, Turn
  <1>5. AdvanceCommit => "advance" \in Tasks /\ Turn("advance")
    BY TasksAre, AdvanceShape DEF AdvanceCommit, Turn
  <1>6. \/ StartScheduled
        \/ \E start, end \in 1..clock + 1: StartBackfill(start, end)
        \/ EndRun
        => (RunMayStart /\ task' = task) \/ (~run'.active /\ task' = Fresh)
    BY RunStepsShape
  <1>7. \A t \in Tables, r \in Rows: BeginWrite(t, r) => task' = task /\ run' = run
    BY WriteShape
  <1>8. \A w \in inflight: CommitWrite(w) => task' = task /\ run' = run
    BY CommitShape
  <1>9. \A c: ShowCustomer(c) => task' = task /\ run' = run
    BY DEF ShowCustomer
  <1>10. \A z: LostUpsert(z) \/ LostRollback(z) => task' = task /\ run' = run
    BY DEF LostUpsert, LostRollback
  <1>11. ResetStaging \/ ResetMetadata \/ ResetDies \/ UNCHANGED vars
           => task' = task /\ run' = run
    BY DEF ResetStaging, ResetMetadata, ResetDies, vars
  <1> QED
    BY <1>1, <1>2, <1>3, <1>4, <1>5, <1>6, <1>7, <1>8, <1>9, <1>10, <1>11, NextIs

LEMMA DagStep ==
    ASSUME TypeOK, DagInv, [Next]_vars
    PROVE  DagInv'
  <1>1. CASE task' = task /\ run' = run
    BY <1>1 DEF DagInv
  <1>2. CASE RunMayStart /\ task' = task
    <2>1. \A x \in Tasks: task'[x] = "pending"
      BY <1>2 DEF DagInv, RunMayStart
    <2> QED
      BY <2>1, TasksAre DEF DagInv
  <1>3. CASE ~run'.active /\ task' = Fresh
    <2>1. \A x \in Tasks: task'[x] = "pending"
      BY <1>3 DEF Fresh
    <2> QED
      BY <2>1, TasksAre DEF DagInv
  <1>4. ASSUME NEW x \in Tasks, Turn(x) PROVE DagInv'
    <2>1. run.active
      BY <1>4 DEF DagInv, Ready, Turn
    <2>2. \A y \in Upstream(x): task[y] = "success"
      BY <1>4 DEF DagInv, Ready, Turn
    <2>3. task[x] # "success"
      BY <1>4 DEF Ready, Turn
    <2>4. \A z \in Tasks: z # x /\ task[z] \in {"bounded", "applied", "success"}
                           => \A y \in Upstream(z): task[y] = "success"
      BY DEF DagInv
    <2>5. \A y \in Tasks: task[y] = "success" => task'[y] = "success"
      BY <1>4, <2>3 DEF Turn
    <2>6. \A z \in Tasks: task'[z] \in {"bounded", "applied", "success"}
                           => \A y \in Upstream(z): task'[y] = "success"
      BY <1>4, <2>2, <2>4, <2>5, UpstreamIs DEF Turn
    <2>7. task'["advance"] = "bounded" => run'.mode = "incremental"
      BY <1>4, TasksAre DEF DagInv, Turn
    <2> QED
      BY <1>4, <2>1, <2>6, <2>7 DEF DagInv, Turn
  <1> QED
    BY <1>1, <1>2, <1>3, <1>4, TaskTurns

\* Once a sink's task has run, every extract of the run has succeeded.
LEMMA SinksAreLast ==
    ASSUME DagInv, NEW s \in Sinks, task[s] \in {"applied", "success"}
    PROVE  \A t \in Tables: task[t] = "success"
  <1>1. s \in Tasks /\ "count" \in Tasks /\ "relations" \in Tasks
    BY DEF Tasks
  <1>2. task["relations"] = "success"
    BY <1>1, UpstreamIs DEF DagInv
  <1>3. task["count"] = "success"
    BY <1>1, <1>2, UpstreamIs DEF DagInv
  <1> QED
    BY <1>1, <1>3, UpstreamIs DEF DagInv

\* Steps that move no row and no watermark.
Calm ==
    /\ UNCHANGED <<clock, source, inflight, staging, watermark, candidate, loaded, events, run,
                   window, reset>>
    /\ \A t \in Tables: task'[t] = "bounded" => task[t] = "bounded"
    /\ \A x \in Tables \cup Sinks:
         task'[x] \in {"applied", "success"} => task[x] \in {"applied", "success"}

\* A run that begins or ends.
RunTurns ==
    /\ UNCHANGED <<clock, source, inflight, staging, watermark, candidate, loaded, events, lost,
                   reset>>
    /\ \A x \in Tasks: task'[x] = "pending"
    /\ reset # "dropped" \/ Resets = "any time" \/ ~run'.active

LEMMA CalmMoves == ASSUME TypeOK, NEW x \in Tasks, TaskMoves(x) PROVE Calm
  <1>1. /\ UNCHANGED <<clock, source, inflight, staging, watermark, candidate, loaded, events,
                       run, window, reset>>
        /\ \A y \in Tasks \ {x}: task'[y] = task[y]
    BY TaskMovesShape
  <1>2. x \in Tables => task'[x] # "bounded"
    BY TasksAre, AttemptFailsShape, BecomesShape
      DEF TaskMoves, Validate, TaskReturns, TaskCrashes, PublishRefuses, AdvanceCheck, States
  <1>3. x \in Tables \cup Sinks /\ task'[x] \in {"applied", "success"}
          => task[x] \in {"applied", "success"}
    BY TablesAreNotTasks, AttemptFailsShape, BecomesShape
      DEF TaskMoves, Validate, TaskReturns, TaskCrashes, PublishRefuses, Raises, AdvanceCheck,
          States, Sinks, Loaders
  <1>4. Tables \cup Sinks \subseteq Tasks
    BY DEF Tasks
  <1>5. /\ \A t \in Tables: task'[t] = "bounded" => task[t] = "bounded"
        /\ \A y \in Tables \cup Sinks:
             task'[y] \in {"applied", "success"} => task[y] \in {"applied", "success"}
    BY <1>1, <1>2, <1>3, <1>4
  <1> QED
    BY <1>1, <1>5 DEF Calm

LEMMA StepCases ==
    ASSUME TypeOK, DagInv, [Next]_vars
    PROVE  \/ \E t \in Tables, r \in Rows: BeginWrite(t, r)
           \/ \E w \in inflight: CommitWrite(w)
           \/ Calm
           \/ RunTurns
           \/ \E t \in Tables: ExtractBounds(t) \/ ExtractUpsert(t)
           \/ \E s \in Loaders: Load(s)
           \/ Publish \/ \E delivered \in SUBSET ToPublish: PublishPartly(delivered)
           \/ AdvanceCommit
           \/ \E z \in lost: LostUpsert(z)
           \/ ResetStaging \/ ResetMetadata \/ ResetDies
  <1>1. CASE \/ StartScheduled
             \/ \E start, end \in 1..clock + 1: StartBackfill(start, end)
             \/ EndRun
    <2>1. /\ UNCHANGED <<sourceVars, staging, metaVars, sinkVars, lost, reset, faults>>
          /\ \/ RunMayStart /\ run'.active /\ task' = task
             \/ ~run'.active /\ task' = Fresh
      BY <1>1, RunStepsShape
    <2>2. \A x \in Tasks: task'[x] = "pending"
      BY <2>1 DEF DagInv, RunMayStart, Fresh
    <2>3. reset # "dropped" \/ Resets = "any time" \/ ~run'.active
      BY <2>1 DEF RunMayStart
    <2> QED
      BY <2>1, <2>2, <2>3 DEF RunTurns
  <1>2. (\E c \in Customers: ShowCustomer(c)) \/ UNCHANGED vars => Calm
    BY DEF ShowCustomer, vars, Calm
  <1>3. (\E z \in lost: LostRollback(z)) => Calm
    BY DEF LostRollback, Calm
  <1> QED
    BY <1>1, <1>2, <1>3, CalmMoves, NextIs

\* An attempt holds a window it read before, or reads it in this step.
LEMMA BoundedMoves ==
    ASSUME TypeOK, DagInv, [Next]_vars, NEW t \in Tables, task'[t] = "bounded"
    PROVE  ExtractBounds(t) \/ (task[t] = "bounded" /\ window'[t] = window[t] /\ run' = run)
  <1> DEFINE Held == ExtractBounds(t)
                       \/ (task[t] = "bounded" /\ window'[t] = window[t] /\ run' = run)
  <1>1. t \in Tasks /\ t # "publish" /\ t # "advance" /\ t \notin Loaders
    BY TasksAre
  <1>2. ASSUME NEW u \in Tables, NEW r \in Rows, BeginWrite(u, r) PROVE Held
    BY <1>2, WriteShape
  <1>3. ASSUME NEW w \in inflight, CommitWrite(w) PROVE Held
    BY <1>3, CommitShape
  <1>4. Calm => Held
    BY DEF Calm
  <1>5. ~RunTurns
    BY <1>1 DEF RunTurns
  <1>6. ASSUME NEW u \in Tables, ExtractBounds(u) PROVE Held
    BY <1>1, <1>6, BoundsShape
  <1>7. ASSUME NEW u \in Tables, ExtractUpsert(u) PROVE Held
    <2>1. u \in Tasks
      BY TasksAre
    <2>2. task'[u] = "applied" /\ \A y \in Tasks \ {u}: task'[y] = task[y]
      BY <1>7, <2>1, BecomesShape DEF ExtractUpsert, States
    <2> QED
      BY <1>1, <1>7, <2>2 DEF ExtractUpsert
  <1>8. ASSUME NEW s \in Loaders, Load(s) PROVE Held
    <2>1. s \in Tasks /\ t # s
      BY <1>1, TasksAre
    <2>2. \A y \in Tasks \ {s}: task'[y] = task[y]
      BY <1>8, <2>1, BecomesShape DEF Load, States
    <2> QED
      BY <1>1, <1>8, <2>1, <2>2 DEF Load
  <1>9. Publish \/ (\E delivered \in SUBSET ToPublish: PublishPartly(delivered)) => Held
    BY <1>1, PublishShape
  <1>10. AdvanceCommit => Held
    BY <1>1, AdvanceShape DEF AdvanceCommit
  <1>11. ASSUME NEW z \in lost, LostUpsert(z) PROVE Held
    BY <1>11 DEF LostUpsert
  <1>12. ResetStaging \/ ResetMetadata \/ ResetDies => Held
    BY DEF ResetStaging, ResetMetadata, ResetDies
  <1> HIDE DEF Held
  <1>13. Held
    BY <1>2, <1>3, <1>4, <1>5, <1>6, <1>7, <1>8, <1>9, <1>10, <1>11, <1>12, StepCases
  <1> QED
    BY <1>13 DEF Held

\* A task of this run that has its effect had it before, or has it in this step.
LEMMA AppliedMoves ==
    ASSUME TypeOK, DagInv, [Next]_vars, NEW x \in Tables \cup Sinks,
           task'[x] \in {"applied", "success"}
    PROVE  \/ task[x] \in {"applied", "success"} /\ run' = run
           \/ x \in Tables /\ ExtractUpsert(x)
           \/ x \in Loaders /\ Load(x)
           \/ x = "publish" /\ Publish
  <1> DEFINE Held == \/ task[x] \in {"applied", "success"} /\ run' = run
                     \/ x \in Tables /\ ExtractUpsert(x)
                     \/ x \in Loaders /\ Load(x)
                     \/ x = "publish" /\ Publish
  <1>1. x \in Tasks /\ x # "advance"
    BY TasksAre DEF Tasks, Sinks, Loaders
  <1>2. ASSUME NEW u \in Tables, NEW r \in Rows, BeginWrite(u, r) PROVE Held
    BY <1>2, WriteShape
  <1>3. ASSUME NEW w \in inflight, CommitWrite(w) PROVE Held
    BY <1>3, CommitShape
  <1>4. Calm => Held
    BY DEF Calm
  <1>5. ~RunTurns
    BY <1>1 DEF RunTurns
  <1>6. ASSUME NEW u \in Tables, ExtractBounds(u) PROVE Held
    BY <1>1, <1>6, BoundsShape
  <1>7. ASSUME NEW u \in Tables, ExtractUpsert(u) PROVE Held
    <2>1. u \in Tasks
      BY TasksAre
    <2>2. \A y \in Tasks \ {u}: task'[y] = task[y]
      BY <1>7, <2>1, BecomesShape DEF ExtractUpsert, States
    <2> QED
      BY <1>1, <1>7, <2>2 DEF ExtractUpsert
  <1>8. ASSUME NEW s \in Loaders, Load(s) PROVE Held
    <2>1. s \in Tasks
      BY TasksAre
    <2>2. \A y \in Tasks \ {s}: task'[y] = task[y]
      BY <1>8, <2>1, BecomesShape DEF Load, States
    <2> QED
      BY <1>1, <1>8, <2>2 DEF Load
  <1>9. Publish \/ (\E delivered \in SUBSET ToPublish: PublishPartly(delivered)) => Held
    BY <1>1, PublishShape
  <1>10. AdvanceCommit => Held
    BY <1>1, AdvanceShape DEF AdvanceCommit
  <1>11. ASSUME NEW z \in lost, LostUpsert(z) PROVE Held
    BY <1>11 DEF LostUpsert
  <1>12. ResetStaging \/ ResetMetadata \/ ResetDies => Held
    BY DEF ResetStaging, ResetMetadata, ResetDies
  <1> HIDE DEF Held
  <1>13. Held
    BY <1>2, <1>3, <1>4, <1>5, <1>6, <1>7, <1>8, <1>9, <1>10, <1>11, <1>12, StepCases
  <1> QED
    BY <1>13 DEF Held

\* A lost statement was lost before, or is that of the attempt that ends now.
LEMMA LostMoves ==
    ASSUME TypeOK, [Next]_vars, NEW z \in lost'
    PROVE  \/ z \in lost
           \/ /\ UNCHANGED <<clock, source, inflight, staging, metaVars, sinkVars, run, reset>>
              /\ z.table \in Tables /\ task[z.table] = "bounded" /\ z.mode = run.mode
              /\ z.lo = window[z.table].lo /\ z.hi = window[z.table].hi /\ z.seen = source[z.table]
              /\ run.mode \in LostModes
              /\ \A y \in Tasks \ {z.table}: task'[y] = task[y]
  <1>1. CASE lost' \subseteq lost
    BY <1>1
  <1>2. ASSUME NEW x \in Tables, run.mode \in LostModes, task[x] = "bounded",
               lost' = lost \cup {LostOf(x)}, \A y \in Tasks \ {x}: task'[y] = task[y],
               UNCHANGED <<clock, source, inflight, staging, metaVars, sinkVars, run, reset>>
        PROVE  \/ z \in lost
               \/ /\ z.table \in Tables /\ task[z.table] = "bounded" /\ z.mode = run.mode
                  /\ z.lo = window[z.table].lo /\ z.hi = window[z.table].hi
                  /\ z.seen = source[z.table]
                  /\ run.mode \in LostModes
                  /\ \A y \in Tasks \ {z.table}: task'[y] = task[y]
    <2>1. /\ LostOf(x).table = x /\ LostOf(x).mode = run.mode /\ LostOf(x).seen = source[x]
          /\ LostOf(x).lo = window[x].lo /\ LostOf(x).hi = window[x].hi
      BY DEF LostOf
    <2> QED
      BY <1>2, <2>1
  <1> QED
    BY <1>1, <1>2, LostSteps

LEMMA LockStep ==
    ASSUME TypeOK, DagInv, LockInv, [Next]_vars
    PROVE  LockInv'
  <1>1. SUFFICES ASSUME NEW t \in Tables, run'.active, run'.mode = "incremental",
                        task'[t] \in {"applied", "success"}, NEW z \in lost', z.table = t,
                        z.mode = "incremental"
                 PROVE  FALSE
    BY DEF LockInv, Locked, Incremental
  <1>2. CASE ExtractUpsert(t)
    BY <1>1, <1>2 DEF ExtractUpsert, Locked
  <1>3. CASE task[t] \in {"applied", "success"} /\ run' = run
    <2>1. z \notin lost
      BY <1>1, <1>3 DEF LockInv, Locked, Incremental
    <2> QED
      BY <1>1, <1>3, <2>1, LostMoves
  <1> QED
    BY <1>1, <1>2, <1>3, AppliedMoves, TasksAre

\* Once a sink's task has run, no incremental statement is left.
LEMMA NoneLocked ==
    ASSUME TypeOK, DagInv, LockInv, ResetInv, Incremental,
           NEW s \in Sinks, task[s] \in {"applied", "success"}
    PROVE  lost = {}
  <1>1. \A t \in Tables: ~Locked(t)
    BY SinksAreLast DEF LockInv
  <1> QED
    BY <1>1 DEF Locked, ResetInv, TypeOK

LEMMA ResetMoves ==
    ASSUME TypeOK, DagInv, [Next]_vars
    PROVE  reset' = reset \/ ResetStaging \/ ResetMetadata \/ ResetDies
  <1>1. \A t \in Tables, r \in Rows: BeginWrite(t, r) => reset' = reset
    BY WriteShape
  <1>2. \A w \in inflight: CommitWrite(w) => reset' = reset
    BY CommitShape
  <1>3. \A t \in Tables: ExtractBounds(t) \/ ExtractUpsert(t) => reset' = reset
    BY DEF ExtractBounds, ExtractUpsert
  <1>4. \A y \in lost: LostUpsert(y) => reset' = reset
    BY DEF LostUpsert
  <1>5. \A s \in Loaders: Load(s) => reset' = reset
    BY DEF Load
  <1>6. Publish \/ (\E delivered \in SUBSET ToPublish: PublishPartly(delivered)) => reset' = reset
    BY PublishShape
  <1>7. Calm \/ RunTurns \/ AdvanceCommit => reset' = reset
    BY DEF Calm, RunTurns, AdvanceCommit
  <1> QED
    BY <1>1, <1>2, <1>3, <1>4, <1>5, <1>6, <1>7, StepCases

\* Only the second file of the reset ends it, with nothing running.
LEMMA ResetEnds ==
    ASSUME TypeOK, DagInv, ResetInv, [Next]_vars, reset' = "idle", reset # "idle"
    PROVE  ResetMetadata /\ ~run.active /\ lost = {} /\ reset = "dropped"
  <1>1. ~ResetStaging /\ ~ResetDies
    BY DEF ResetStaging, ResetDies
  <1>2. ResetMetadata /\ reset = "dropped"
    BY <1>1, ResetMoves, ResetMetadataShape
  <1> QED
    BY <1>2 DEF ResetInv

LEMMA RunMoves ==
    ASSUME TypeOK, DagInv, [Next]_vars
    PROVE  run' = run \/ RunTurns
  <1>1. \A t \in Tables, r \in Rows: BeginWrite(t, r) => run' = run
    BY WriteShape
  <1>2. \A w \in inflight: CommitWrite(w) => run' = run
    BY CommitShape
  <1>3. \A t \in Tables: ExtractBounds(t) \/ ExtractUpsert(t) => run' = run
    BY DEF ExtractBounds, ExtractUpsert
  <1>4. \A y \in lost: LostUpsert(y) => run' = run
    BY DEF LostUpsert
  <1>5. \A s \in Loaders: Load(s) => run' = run
    BY DEF Load
  <1>6. Publish \/ (\E delivered \in SUBSET ToPublish: PublishPartly(delivered)) => run' = run
    BY PublishShape
  <1>7. Calm \/ AdvanceCommit \/ ResetStaging \/ ResetMetadata \/ ResetDies => run' = run
    BY DEF Calm, AdvanceCommit, ResetStaging, ResetMetadata, ResetDies
  <1> QED
    BY <1>1, <1>2, <1>3, <1>4, <1>5, <1>6, <1>7, StepCases

LEMMA ResetStep ==
    ASSUME TypeOK, DagInv, InOrder, ResetInv, [Next]_vars
    PROVE  ResetInv'
  <1>1. ASSUME NEW z \in lost' PROVE z.mode = "incremental"
    <2>1. CASE z \in lost
      BY <2>1 DEF ResetInv
    <2>2. CASE z.mode = run.mode /\ run.mode \in LostModes
      BY <2>2 DEF InOrder
    <2> QED
      BY <2>1, <2>2, LostMoves
  <1>2. ASSUME reset' = "dropped" PROVE ~run'.active /\ lost' = {}
    <2>1. CASE ResetStaging
      BY <2>1, ResetStagingShape DEF ResetStaging, InOrder
    <2>2. CASE reset' = reset
      <3>1. ~run.active /\ lost = {}
        BY <1>2, <2>2 DEF ResetInv
      <3>2. ~run'.active
        BY <1>2, <2>2, <3>1, RunMoves DEF RunTurns, InOrder
      <3>3. \A z \in lost': FALSE
        BY <3>1, LostMoves, TasksAre DEF DagInv
      <3> QED
        BY <3>2, <3>3
    <2>3. ~ResetMetadata /\ ~ResetDies
      BY <1>2 DEF ResetMetadata, ResetDies
    <2> QED
      BY <2>1, <2>2, <2>3, ResetMoves
  <1> QED
    BY <1>1, <1>2 DEF ResetInv

\* Stamps follow the commit order: what is committed next is newer than every
\* bound read so far.
LEMMA StampStep ==
    ASSUME TypeOK, InflightInv, InOrder, StampInv, [Next]_vars
    PROVE  /\ StampInv'
           /\ \A n \in Nat: Bound(n) => n <= clock' /\ \A w \in inflight': n < w[3]
           /\ \A t \in Tables, r \in Rows, n \in Nat:
                Bound(n) /\ source'[t][r] # source[t][r] => n < source'[t][r]
  <1>1. /\ clock \in Nat /\ \A t \in Tables, r \in Rows: source[t][r] \in Nat
        /\ \A w \in inflight: w[3] \in Nat
    BY DEF TypeOK
  <1>2. ASSUME NEW t \in Tables, NEW r \in Rows, BeginWrite(t, r)
        PROVE  /\ StampInv'
               /\ \A n \in Nat: Bound(n) => n <= clock' /\ \A w \in inflight': n < w[3]
               /\ source' = source
    <2>1. /\ clock' = clock + 1 /\ source' = source
          /\ \A w \in inflight': w \in inflight \/ (w[3] = clock + 1 /\ w = <<t, r, clock + 1>>)
      BY <1>2, WriteShape
    <2>2. \A w \in inflight: w[3] <= clock
      BY DEF InflightInv
    <2> QED
      BY <1>1, <2>1, <2>2 DEF StampInv, InflightInv, Bound
  <1>3. ASSUME NEW w \in inflight, CommitWrite(w)
        PROVE  /\ StampInv'
               /\ \A n \in Nat: Bound(n) => n <= clock' /\ \A v \in inflight': n < v[3]
               /\ \A t \in Tables, r \in Rows, n \in Nat:
                    Bound(n) /\ source'[t][r] # source[t][r] => n < source'[t][r]
    <2>1. /\ \A u \in Tables, q \in Rows:
               source'[u][q] = IF u = w[1] /\ q = w[2] THEN w[3] ELSE source[u][q]
          /\ inflight' = inflight \ {w} /\ clock' = clock
      BY <1>3, CommitShape
    <2>2. \A v \in inflight': w[3] < v[3]
      <3>1. \A v \in inflight: w[3] <= v[3]
        BY <1>3 DEF CommitWrite, InOrder
      <3> QED
        BY <1>1, <2>1, <3>1 DEF StampInv
    <2> QED
      BY <1>1, <2>1, <2>2 DEF StampInv, Bound
  <1>4. CASE UNCHANGED <<clock, source, inflight>>
    BY <1>4 DEF StampInv, Bound
  <1> QED
    BY <1>2, <1>3, <1>4, SourceSteps

-----------------------------------------------------------------------------
(* What the watermark covers *)

LEMMA TopNumbers ==
    ASSUME TypeOK
    PROVE  /\ clock \in Nat
           /\ \A t \in Tables: watermark[t] \in Nat /\ candidate[t] \in Int
           /\ \A t \in Tables: Top(t) \in Nat /\ watermark[t] <= Top(t) /\ candidate[t] <= Top(t)
           /\ \A t \in Tables: Top(t) = watermark[t] \/ Top(t) = candidate[t]
  BY DEF TypeOK, Top, Larger, NoCandidate

LEMMA RowNumbers ==
    ASSUME TypeOK
    PROVE  /\ clock \in Nat
           /\ \A t \in Tables, r \in Rows: source[t][r] \in Nat
           /\ \A t \in Tables, r \in Rows: staging[t][r] \in Nat
           /\ \A s \in Loaders, t \in Tables, r \in Rows: loaded[s][t][r] \in Nat
  BY DEF TypeOK

LEMMA WindowNumbers ==
    ASSUME TypeOK
    PROVE  /\ \A t \in Tables: window[t].lo \in Nat /\ window[t].hi \in Nat
           /\ \A t \in Tables: source[t] \in [Rows -> Nat]
           /\ run.mode \in Modes
           /\ \A z \in lost: /\ z.table \in Tables /\ z.mode \in Modes
                             /\ z.lo \in Nat /\ z.hi \in Nat /\ z.seen \in [Rows -> Nat]
                             /\ \A r \in Rows: z.seen[r] \in Nat
  BY DEF TypeOK

\* The top after the step.
NextTop(t) == Larger(candidate'[t], watermark'[t])

\* A step that is not an extract or the reset leaves the top.
LEMMA TopMoves ==
    ASSUME TypeOK, DagInv, [Next]_vars, reset = "idle"
    PROVE  \/ staging' = staging /\ \A u \in Tables: NextTop(u) = Top(u)
           \/ \E t \in Tables: ExtractUpsert(t)
           \/ \E z \in lost: LostUpsert(z)
           \/ ResetStaging
  <1> DEFINE Rests == staging' = staging /\ \A u \in Tables: NextTop(u) = Top(u)
  <1>1. AdvanceCommit => Rests
    <2>1. AdvanceCommit => \A u \in Tables: candidate'[u] = NoCandidate /\ watermark'[u] = Top(u)
      BY AdvanceShape
    <2>2. AdvanceCommit => \A u \in Tables: NextTop(u) = Top(u)
      BY <2>1, TopNumbers DEF NextTop, Larger, NoCandidate
    <2> QED
      BY <2>2 DEF AdvanceCommit
  <1>2. UNCHANGED <<staging, watermark, candidate>> => Rests
    BY DEF Top, NextTop, Larger
  <1>3. \A t \in Tables, r \in Rows: BeginWrite(t, r) => UNCHANGED <<staging, watermark, candidate>>
    BY WriteShape
  <1>4. \A w \in inflight: CommitWrite(w) => UNCHANGED <<staging, watermark, candidate>>
    BY CommitShape
  <1>5. \A t \in Tables: ExtractBounds(t) => UNCHANGED <<staging, watermark, candidate>>
    BY DEF ExtractBounds
  <1>6. \A s \in Loaders: Load(s) => UNCHANGED <<staging, watermark, candidate>>
    BY DEF Load
  <1>7. Publish \/ (\E delivered \in SUBSET ToPublish: PublishPartly(delivered))
          => UNCHANGED <<staging, watermark, candidate>>
    BY PublishShape
  <1>8. Calm \/ RunTurns => UNCHANGED <<staging, watermark, candidate>>
    BY DEF Calm, RunTurns
  <1>9. ~ResetMetadata /\ ~ResetDies
    BY DEF ResetMetadata, ResetDies
  <1> HIDE DEF Rests
  <1>10. Rests \/ (\E t \in Tables: ExtractUpsert(t)) \/ (\E z \in lost: LostUpsert(z))
           \/ ResetStaging
    BY <1>1, <1>2, <1>3, <1>4, <1>5, <1>6, <1>7, <1>8, <1>9, StepCases
  <1> QED
    BY <1>10 DEF Rests

\* One extract statement, in its attempt's time or after it.
Upsert(t, seen, mode, lo, hi) ==
    /\ staging' = Staged(t, seen, mode, lo, hi)
    /\ candidate' = Raised(t, mode, hi)
    /\ UNCHANGED <<clock, source, inflight, watermark, loaded, events, run, window, reset>>

\* A statement of an incremental run whose window and snapshot are still good,
\* or one of a backfill that reads the rows as they are.
Good(t, seen, mode, lo, hi) ==
    \/ /\ mode = "incremental" /\ lo = watermark[t] /\ Bound(hi)
       /\ \A r \in Rows: \/ seen[r] = source[t][r]
                         \/ source[t][r] > hi /\ source[t][r] > Top(t)
    \/ mode = "backfill" /\ seen = source[t]

LEMMA UpsertTop ==
    ASSUME TypeOK, NEW t \in Tables, NEW seen \in [Rows -> Nat], NEW mode \in Modes,
           NEW lo \in Nat, NEW hi \in Nat, Upsert(t, seen, mode, lo, hi)
    PROVE  \A u \in Tables: NextTop(u) = IF u = t /\ mode = "incremental" /\ hi > Top(u)
                                         THEN hi ELSE Top(u)
  <1>1. \A u \in Tables: candidate'[u] = IF u = t /\ mode = "incremental"
                                         THEN Larger(candidate[t], hi) ELSE candidate[u]
    BY RaisedShape DEF Upsert, Modes
  <1>2. TAKE u \in Tables
  <1>3. watermark'[u] = watermark[u] /\ watermark[u] \in Nat /\ candidate[u] \in Int
    BY TopNumbers DEF Upsert
  <1>4. CASE u = t /\ mode = "incremental"
    <2>1. candidate'[u] = Larger(candidate[u], hi)
      BY <1>1, <1>4
    <2> QED
      BY <1>3, <1>4, <2>1 DEF Top, NextTop, Larger
  <1>5. CASE ~(u = t /\ mode = "incremental")
    <2>1. candidate'[u] = candidate[u]
      BY <1>1, <1>5
    <2> QED
      BY <1>3, <1>5, <2>1 DEF Top, NextTop
  <1> QED
    BY <1>4, <1>5

\* A good statement covers its window, and changes no row the watermark covers.
LEMMA UpsertCovers ==
    ASSUME TypeOK, NEW t \in Tables, NEW seen \in [Rows -> Nat], NEW mode \in Modes,
           NEW lo \in Nat, NEW hi \in Nat, Upsert(t, seen, mode, lo, hi),
           Good(t, seen, mode, lo, hi),
           \A u \in Tables: CoveredTo(u, Top(u)) /\ Bound(Top(u))
    PROVE  /\ \A u \in Tables: CoveredTo(u, Top(u))' /\ Bound(Top(u))'
           /\ \A u \in Tables, r \in Rows:
                staging'[u][r] = staging[u][r] \/ staging'[u][r] > watermark[u]
  <1>1. /\ UNCHANGED <<clock, source, inflight, watermark>>
        /\ \A u \in Tables, r \in Rows:
             staging'[u][r] = IF u = t /\ seen[r] # 0 /\ Within(seen[r], mode, lo, hi)
                              THEN seen[r] ELSE staging[u][r]
    BY StagedShape DEF Upsert
  <1>2. \A u \in Tables: NextTop(u) = IF u = t /\ mode = "incremental" /\ hi > Top(u)
                                      THEN hi ELSE Top(u)
    BY UpsertTop
  <1>3. \A r \in Rows: seen[r] \in Nat
    OBVIOUS
  <1>4. ASSUME NEW u \in Tables
        PROVE  Bound(NextTop(u)) /\ Bound(Top(u))'
    <2>1. Bound(NextTop(u))
      BY <1>2 DEF Good
    <2> QED
      BY <1>1, <2>1 DEF Bound, Top, NextTop
  <1>5. ASSUME NEW u \in Tables, NEW r \in Rows, 0 < source[u][r], source[u][r] <= NextTop(u)
        PROVE  staging'[u][r] = source[u][r]
    <2>1. CASE u # t
      BY <1>1, <1>2, <1>5, <2>1 DEF CoveredTo
    <2>2. CASE u = t /\ mode = "backfill"
      <3>1. staging[u][r] = source[u][r]
        BY <1>2, <1>5, <2>2 DEF CoveredTo, Modes
      <3> QED
        BY <1>1, <2>2, <3>1 DEF Good
    <2>3. CASE u = t /\ mode = "incremental"
      <3>1. seen[r] = source[t][r]
        BY <1>2, <1>3, <1>5, <2>3, TopNumbers, RowNumbers DEF Good
      <3>2. CASE source[t][r] <= Top(t)
        BY <1>1, <1>5, <2>3, <3>1, <3>2 DEF CoveredTo
      <3>3. CASE Top(t) < source[t][r]
        <4>1. lo < source[t][r] /\ source[t][r] <= hi
          BY <1>2, <1>5, <2>3, <3>3, TopNumbers, RowNumbers DEF Good
        <4> QED
          BY <1>1, <1>5, <2>3, <3>1, <4>1 DEF Within
      <3> QED
        BY <3>2, <3>3, TopNumbers, RowNumbers
    <2> QED
      BY <2>1, <2>2, <2>3 DEF Modes
  <1>6. ASSUME NEW u \in Tables, NEW r \in Rows
        PROVE  staging'[u][r] = staging[u][r] \/ staging'[u][r] > watermark[u]
    <2>1. SUFFICES ASSUME u = t, seen[r] # 0, Within(seen[r], mode, lo, hi), staging'[u][r] = seen[r]
                   PROVE  staging'[u][r] = staging[u][r] \/ staging'[u][r] > watermark[u]
      BY <1>1
    <2>2. CASE mode = "incremental"
      BY <1>3, <2>1, <2>2, TopNumbers DEF Good, Within
    <2>3. CASE mode = "backfill"
      <3>1. seen[r] = source[t][r]
        BY <2>3 DEF Good
      <3>2. source[t][r] <= watermark[t] => staging[t][r] = source[t][r]
        BY <2>1, <3>1, TopNumbers, RowNumbers DEF CoveredTo
      <3> QED
        BY <2>1, <3>1, <3>2, TopNumbers, RowNumbers
    <2> QED
      BY <2>2, <2>3 DEF Modes
  <1> QED
    BY <1>1, <1>4, <1>5, <1>6 DEF CoveredTo, Top, NextTop

\* Every statement that takes effect between resets is a good one.
LEMMA UpsertsOfStep ==
    ASSUME TypeOK, DagInv, CoverInv, ResetInv, reset = "idle"
    PROVE  /\ \A t \in Tables: ExtractUpsert(t) =>
                /\ Upsert(t, source[t], run.mode, window[t].lo, window[t].hi)
                /\ Good(t, source[t], run.mode, window[t].lo, window[t].hi) /\ lost' = lost
                /\ run.mode = "incremental" => ~Locked(t)
           /\ \A z \in lost: LostUpsert(z) =>
                /\ Upsert(z.table, z.seen, z.mode, z.lo, z.hi)
                /\ Good(z.table, z.seen, z.mode, z.lo, z.hi) /\ lost' = lost \ {z} /\ task' = task
                /\ \A y \in lost: y.table = z.table => NotBefore(y, z)
  <1>1. ASSUME NEW t \in Tables, ExtractUpsert(t)
        PROVE  /\ Upsert(t, source[t], run.mode, window[t].lo, window[t].hi)
               /\ Good(t, source[t], run.mode, window[t].lo, window[t].hi) /\ lost' = lost
               /\ run.mode = "incremental" => ~Locked(t)
    <2>1. task[t] = "bounded" /\ t \in Tasks
      BY <1>1, TasksAre DEF ExtractUpsert
    <2>2. run.active
      BY <2>1 DEF DagInv
    <2>3. Good(t, source[t], run.mode, window[t].lo, window[t].hi)
      BY <2>1, <2>2, WindowNumbers DEF Good, CoverInv, Incremental, Modes
    <2> QED
      BY <1>1, <2>3 DEF ExtractUpsert, Upsert
  <1>2. ASSUME NEW z \in lost, LostUpsert(z)
        PROVE  /\ Upsert(z.table, z.seen, z.mode, z.lo, z.hi)
               /\ Good(z.table, z.seen, z.mode, z.lo, z.hi) /\ lost' = lost \ {z} /\ task' = task
               /\ \A y \in lost: y.table = z.table => NotBefore(y, z)
    <2>1. z.mode = "incremental" /\ \A y \in lost: y.mode = "incremental"
      BY DEF ResetInv
    <2>2. Good(z.table, z.seen, z.mode, z.lo, z.hi)
      BY <2>1 DEF Good, CoverInv, SeenOk
    <2> QED
      BY <1>2, <2>1, <2>2 DEF LostUpsert, Upsert
  <1> QED
    BY <1>1, <1>2

\* After the reset nothing is covered and nothing runs.
LEMMA CoverReset ==
    ASSUME TypeOK, InflightInv, ResetMetadata, ~run.active, lost = {}
    PROVE  CoverInv'
  <1>1. /\ UNCHANGED <<clock, source, inflight, staging, run>> /\ lost' = {}
        /\ \A t \in Tables: watermark'[t] = 0 /\ candidate'[t] = NoCandidate
    BY ResetMetadataShape
  <1>2. \A t \in Tables: Top(t)' = 0
    BY <1>1 DEF Top, Larger, NoCandidate
  <1>3. \A w \in inflight: 0 < w[3]
    BY DEF TypeOK, InflightInv
  <1> QED
    BY <1>1, <1>2, <1>3, RowNumbers DEF CoverInv, CoveredTo, Bound, Incremental

\* Up to the top every source row stays staged in its current version.
LEMMA CoverTop ==
    ASSUME TypeOK, InflightInv, InOrder, StampInv, ResetInv, DagInv, CoverInv, [Next]_vars,
           reset = "idle", reset' = "idle"
    PROVE  \A t \in Tables: CoveredTo(t, Top(t))' /\ Bound(Top(t))'
  <1>1. \A t \in Tables: CoveredTo(t, Top(t)) /\ Bound(Top(t))
    BY DEF CoverInv
  <1>2. ASSUME NEW t \in Tables, ExtractUpsert(t)
        PROVE  \A u \in Tables: CoveredTo(u, Top(u))' /\ Bound(Top(u))'
    BY <1>1, <1>2, UpsertsOfStep, UpsertCovers, WindowNumbers
  <1>3. ASSUME NEW z \in lost, LostUpsert(z)
        PROVE  \A u \in Tables: CoveredTo(u, Top(u))' /\ Bound(Top(u))'
    BY <1>1, <1>3, UpsertsOfStep, UpsertCovers, WindowNumbers
  <1>4. ASSUME staging' = staging, \A u \in Tables: NextTop(u) = Top(u), NEW t \in Tables
        PROVE  CoveredTo(t, Top(t))' /\ Bound(Top(t))'
    <2>1. Top(t)' = Top(t) /\ Top(t) \in Nat /\ Bound(Top(t)) /\ CoveredTo(t, Top(t))
      BY <1>1, <1>4, TopNumbers DEF Top, NextTop
    <2>2. /\ Top(t) <= clock' /\ \A w \in inflight': Top(t) < w[3]
          /\ \A r \in Rows: source'[t][r] # source[t][r] => Top(t) < source'[t][r]
      BY <2>1, StampStep
    <2>3. Bound(Top(t))'
      BY <2>1, <2>2 DEF Bound
    <2>4. \A r \in Rows: source'[t][r] <= Top(t) => source'[t][r] = source[t][r]
      <3>1. TAKE r \in Rows
      <3>2. source[t][r] \in Nat /\ (source'[t][r] # source[t][r] => Top(t) < source'[t][r])
        BY <2>2, RowNumbers
      <3>3. CASE source'[t][r] # source[t][r]
        <4>1. source'[t][r] \in Nat
          BY StepTyped DEF TypeOK
        <4> QED
          BY <2>1, <3>2, <4>1
      <3> QED
        BY <3>3
    <2> QED
      BY <1>4, <2>1, <2>3, <2>4 DEF CoveredTo
  <1>5. ~ResetStaging
    BY DEF ResetStaging
  <1> QED
    BY <1>2, <1>3, <1>4, <1>5, TopMoves

\* The windows of attempts start at the watermark, while one can still run.
LEMMA CoverWindows ==
    ASSUME TypeOK, InflightInv, InOrder, StampInv, DagInv, CoverInv, [Next]_vars,
           reset = "idle", reset' = "idle", NEW t \in Tables,
           run'.active, run'.mode = "incremental", task'[t] = "bounded"
    PROVE  window'[t].lo = watermark'[t] /\ Bound(window[t].hi)'
  <1>1. CASE ExtractBounds(t)
    <2>1. /\ UNCHANGED <<clock, source, inflight, watermark, run>>
          /\ window'[t].lo = watermark[t] /\ window'[t].hi \in Nat
          /\ \/ window'[t].hi = watermark[t]
             \/ \E r \in Rows: source[t][r] = window'[t].hi
      BY <1>1, BoundsShape
    <2>2. Bound(watermark[t])
      BY TopNumbers DEF CoverInv, Bound, TypeOK
    <2>3. \A r \in Rows: Bound(source[t][r])
      BY DEF InflightInv, StampInv, Bound
    <2>4. Bound(window'[t].hi)
      BY <2>1, <2>2, <2>3
    <2> QED
      BY <2>1, <2>4 DEF Bound
  <1>2. CASE task[t] = "bounded" /\ window'[t] = window[t] /\ run' = run
    <2>1. window[t].lo = watermark[t] /\ Bound(window[t].hi) /\ window[t].hi \in Nat
      BY <1>2, WindowNumbers DEF CoverInv, Incremental
    <2>2. ~AdvanceCommit
      <3>1. AdvanceCommit => \A s \in Sinks: task[s] = "success"
        BY TasksAre, UpstreamIs DEF AdvanceCommit, DagInv
      <3>2. "publish" \in Sinks
        BY DEF Sinks
      <3> QED
        BY <1>2, <3>1, <3>2, SinksAreLast
    <2>3. ~ResetMetadata
      BY DEF ResetMetadata
    <2>4. watermark' = watermark
      BY <2>2, <2>3, WatermarkSteps
    <2>5. window[t].hi <= clock' /\ \A w \in inflight': window[t].hi < w[3]
      BY <2>1, StampStep
    <2> QED
      BY <1>2, <2>1, <2>4, <2>5 DEF Bound
  <1> QED
    BY <1>1, <1>2, BoundedMoves

\* A lost statement keeps the watermark where its window starts, and what its
\* snapshot does not show stays above all that it, or an older one, may raise.
LEMMA CoverLost ==
    ASSUME TypeOK, TypeOK', InflightInv, InOrder, StampInv, PathInv, ResetInv, DagInv, CoverInv,
           [Next]_vars, reset = "idle", reset' = "idle", NEW z \in lost'
    PROVE  z.lo = watermark'[z.table] /\ Bound(z.hi)' /\ SeenOk(z)'
  <1>1. CASE z \in lost
    <2>1. /\ z.lo = watermark[z.table] /\ Bound(z.hi) /\ SeenOk(z) /\ z.table \in Tables
          /\ z.hi \in Nat /\ z.mode = "incremental"
      BY <1>1, WindowNumbers DEF CoverInv, ResetInv
    <2>2. watermark' = watermark
      <3>1. ~AdvanceCommit
        BY <1>1, <2>1 DEF AdvanceCommit, Locked
      <3>2. ~ResetMetadata
        BY DEF ResetMetadata
      <3> QED
        BY <3>1, <3>2, WatermarkSteps
    <2>3. Bound(z.hi)'
      BY <2>1, StampStep DEF Bound
    <2>4. ASSUME NEW r \in Rows, z.seen[r] # source'[z.table][r]
          PROVE  source'[z.table][r] > z.hi /\ source'[z.table][r] > NextTop(z.table)
      <3>1. /\ source[z.table][r] \in Nat /\ source'[z.table][r] \in Nat /\ z.seen[r] \in Nat
            /\ Top(z.table) \in Nat /\ Bound(Top(z.table))
        BY <1>1, <2>1, TopNumbers, WindowNumbers DEF TypeOK, CoverInv
      <3>2. CASE NextTop(z.table) = Top(z.table)
        <4>1. CASE source'[z.table][r] # source[z.table][r]
          BY <2>1, <3>1, <3>2, <4>1, StampStep
        <4>2. CASE source'[z.table][r] = source[z.table][r]
          BY <2>1, <2>4, <3>2, <4>2 DEF SeenOk
        <4> QED
          BY <4>1, <4>2
      <3>3. ASSUME NEW t \in Tables, ExtractUpsert(t)
            PROVE  NextTop(z.table) = Top(z.table)
        <4>1. /\ Upsert(t, source[t], run.mode, window[t].lo, window[t].hi)
              /\ run.mode = "incremental" => ~Locked(t)
          BY <3>3, UpsertsOfStep
        <4>2. ~(z.table = t /\ run.mode = "incremental")
          BY <1>1, <2>1, <4>1 DEF Locked
        <4> QED
          BY <2>1, <4>1, <4>2, UpsertTop, WindowNumbers
      <3>4. ASSUME NEW y \in lost, LostUpsert(y)
            PROVE  source'[z.table][r] > z.hi /\ source'[z.table][r] > NextTop(z.table)
        <4>1. /\ Upsert(y.table, y.seen, y.mode, y.lo, y.hi)
              /\ z.table = y.table => NotBefore(z, y)
          BY <1>1, <3>4, UpsertsOfStep
        <4>2. source' = source /\ SeenOk(y) /\ y.hi \in Nat /\ y.seen[r] \in Nat
          BY <4>1, WindowNumbers DEF Upsert, CoverInv
        <4>3. source[z.table][r] > z.hi /\ source[z.table][r] > Top(z.table)
          BY <2>1, <2>4, <4>2 DEF SeenOk
        <4>4. \A u \in Tables: NextTop(u) = IF u = y.table /\ y.mode = "incremental" /\ y.hi > Top(u)
                                            THEN y.hi ELSE Top(u)
          BY <4>1, UpsertTop, WindowNumbers
        <4>5. CASE z.table = y.table
          <5>1. y.seen[r] <= z.seen[r] /\ z.seen[r] <= source[z.table][r]
            BY <1>1, <4>1, <4>5 DEF NotBefore, PathInv
          <5>2. y.seen[r] # source[y.table][r]
            BY <2>4, <3>1, <4>2, <4>5, <5>1
          <5>3. source[y.table][r] > y.hi
            BY <4>2, <5>2 DEF SeenOk
          <5> QED
            BY <2>1, <4>2, <4>3, <4>4, <4>5, <5>3
        <4>6. CASE z.table # y.table
          BY <2>1, <4>2, <4>3, <4>4, <4>6
        <4> QED
          BY <4>5, <4>6
      <3>5. ~ResetStaging
        BY DEF ResetStaging
      <3> QED
        BY <2>1, <3>2, <3>3, <3>4, <3>5, TopMoves
    <2>5. SeenOk(z)'
      BY <2>4 DEF SeenOk, Top, NextTop
    <2> QED
      BY <2>1, <2>2, <2>3, <2>5
  <1>2. CASE z \notin lost
    <2>1. /\ UNCHANGED <<clock, source, inflight, metaVars, run>>
          /\ z.table \in Tables /\ task[z.table] = "bounded" /\ z.mode = run.mode
          /\ z.lo = window[z.table].lo /\ z.hi = window[z.table].hi /\ z.seen = source[z.table]
          /\ run.mode \in LostModes
      BY <1>2, LostMoves
    <2>2. Incremental
      BY <2>1, TasksAre DEF Incremental, InOrder, DagInv
    <2>3. window[z.table].lo = watermark[z.table] /\ Bound(window[z.table].hi)
      BY <2>1, <2>2 DEF CoverInv
    <2> QED
      BY <2>1, <2>3 DEF Bound, SeenOk
  <1> QED
    BY <1>1, <1>2

LEMMA CoverStep ==
    ASSUME TypeOK, TypeOK', InflightInv, InOrder, StampInv, PathInv, ResetInv, DagInv, CoverInv,
           [Next]_vars
    PROVE  CoverInv'
  <1>1. SUFFICES ASSUME reset' = "idle" PROVE CoverInv'
    BY DEF CoverInv
  <1>2. CASE reset = "idle"
    <2>1. \A t \in Tables: CoveredTo(t, Top(t))' /\ Bound(Top(t))'
      BY <1>1, <1>2, CoverTop
    <2>2. \A t \in Tables: Incremental' /\ task'[t] = "bounded"
                             => window'[t].lo = watermark'[t] /\ Bound(window[t].hi)'
      BY <1>1, <1>2, CoverWindows DEF Incremental
    <2>3. \A z \in lost': z.lo = watermark'[z.table] /\ Bound(z.hi)' /\ SeenOk(z)'
      BY <1>1, <1>2, CoverLost
    <2> QED
      BY <2>1, <2>2, <2>3 DEF CoverInv
  <1>3. CASE reset # "idle"
    BY <1>1, <1>3, ResetEnds, CoverReset
  <1> QED
    BY <1>2, <1>3

-----------------------------------------------------------------------------
(* What the sinks have *)

LEMMA StagingMoves ==
    ASSUME TypeOK, DagInv, [Next]_vars
    PROVE  \/ staging' = staging
           \/ \E t \in Tables: ExtractUpsert(t)
           \/ \E z \in lost: LostUpsert(z)
           \/ ResetStaging
  <1>1. \A t \in Tables, r \in Rows: BeginWrite(t, r) => staging' = staging
    BY WriteShape
  <1>2. \A w \in inflight: CommitWrite(w) => staging' = staging
    BY CommitShape
  <1>3. \A t \in Tables: ExtractBounds(t) => staging' = staging
    BY DEF ExtractBounds
  <1>4. \A s \in Loaders: Load(s) => staging' = staging
    BY DEF Load
  <1>5. Publish \/ (\E delivered \in SUBSET ToPublish: PublishPartly(delivered))
          => staging' = staging
    BY PublishShape
  <1>6. Calm \/ RunTurns \/ AdvanceCommit \/ ResetMetadata \/ ResetDies => staging' = staging
    BY DEF Calm, RunTurns, AdvanceCommit, ResetMetadata, ResetDies
  <1> QED
    BY <1>1, <1>2, <1>3, <1>4, <1>5, <1>6, StepCases

LEMMA LoadedMoves ==
    ASSUME TypeOK, [Next]_vars
    PROVE  \/ loaded' = loaded
           \/ /\ staging' = staging
              /\ \E s \in Loaders:
                   \A l \in Loaders, t \in Tables, r \in Rows:
                     loaded'[l][t][r] = IF l = s /\ staging[t][r] # 0 THEN staging[t][r]
                                        ELSE loaded[l][t][r]
  <1>1. \A s \in Loaders: Load(s) => staging' = staging
    BY DEF Load
  <1> QED
    BY <1>1, PathSteps, LoadShape

LEMMA EventsGrow == ASSUME TypeOK, [Next]_vars PROVE events \subseteq events'
  <1>1. Publish \/ (\E delivered \in SUBSET ToPublish: PublishPartly(delivered))
          => events \subseteq events'
    BY PublishShape
  <1>2. \A x \in Tasks: TaskMoves(x) => events' = events
    BY TaskMovesShape
  <1>3. \A t \in Tables: ExtractBounds(t) \/ ExtractUpsert(t) => events' = events
    BY DEF ExtractBounds, ExtractUpsert
  <1>4. \A s: Load(s) => events' = events
    BY DEF Load
  <1>5. \A start, end: StartBackfill(start, end) => events' = events
    BY DEF StartBackfill
  <1>6. \A z: LostUpsert(z) \/ LostRollback(z) => events' = events
    BY DEF LostUpsert, LostRollback
  <1>7. \A c: ShowCustomer(c) => events' = events
    BY DEF ShowCustomer
  <1>8. \A t \in Tables, r \in Rows: BeginWrite(t, r) => events' = events
    BY WriteShape
  <1>9. \A w: CommitWrite(w) => events' = events
    BY DEF CommitWrite
  <1>10. StartScheduled \/ EndRun \/ AdvanceCommit \/ ResetStaging \/ ResetMetadata \/ ResetDies
           \/ UNCHANGED vars => events' = events
    BY DEF StartScheduled, EndRun, AdvanceCommit, ResetStaging, ResetMetadata, ResetDies, vars
  <1> QED
    BY <1>1, <1>2, <1>3, <1>4, <1>5, <1>6, <1>7, <1>8, <1>9, <1>10, NextIs

\* Between resets, what the watermark covers is not staged in another version.
LEMMA RowsKeep ==
    ASSUME TypeOK, DagInv, CoverInv, ResetInv, [Next]_vars, reset = "idle", reset' = "idle"
    PROVE  \A t \in Tables, r \in Rows:
             staging'[t][r] = staging[t][r] \/ staging'[t][r] > watermark[t]
  <1>1. \A u \in Tables: CoveredTo(u, Top(u)) /\ Bound(Top(u))
    BY DEF CoverInv
  <1>2. ASSUME NEW t \in Tables, ExtractUpsert(t)
        PROVE  \A u \in Tables, r \in Rows:
                 staging'[u][r] = staging[u][r] \/ staging'[u][r] > watermark[u]
    BY <1>1, <1>2, UpsertsOfStep, UpsertCovers, WindowNumbers
  <1>3. ASSUME NEW z \in lost, LostUpsert(z)
        PROVE  \A u \in Tables, r \in Rows:
                 staging'[u][r] = staging[u][r] \/ staging'[u][r] > watermark[u]
    BY <1>1, <1>3, UpsertsOfStep, UpsertCovers, WindowNumbers
  <1>4. ~ResetStaging
    BY DEF ResetStaging
  <1> QED
    BY <1>2, <1>3, <1>4, StagingMoves

\* Once a sink's task has run, nothing is staged before the run ends.
LEMMA StagingRests ==
    ASSUME TypeOK, InOrder, ResetInv, DagInv, LockInv, [Next]_vars, Incremental,
           NEW s \in Sinks, task[s] \in {"applied", "success"}
    PROVE  staging' = staging /\ (reset = "idle" => \A t \in Tables: NextTop(t) = Top(t))
  <1>1. \A t \in Tables: ~ExtractUpsert(t)
    BY SinksAreLast DEF ExtractUpsert
  <1>2. lost = {}
    BY NoneLocked
  <1>3. ~ResetStaging
    BY DEF ResetStaging, InOrder, Incremental
  <1> QED
    BY <1>1, <1>2, <1>3, StagingMoves, TopMoves

LEMMA PublishTakesWindow ==
    ASSUME TypeOK, Publish, run.mode = "incremental", PublishedTo(watermark[Orders])
    PROVE  \A r \in Rows: 0 < staging[Orders][r] /\ staging[Orders][r] <= Top(Orders)
                            => <<r, staging[Orders][r]>> \in events'
  <1>1. events' = events \cup ToPublish
    BY DEF Publish
  <1>2. /\ watermark[Orders] \in Nat /\ candidate[Orders] \in Int
        /\ Top(Orders) = watermark[Orders] \/ Top(Orders) = candidate[Orders]
        /\ \A r \in Rows: staging[Orders][r] \in Nat
    BY OrdersIsTable, TopNumbers, RowNumbers
  <1>3. SUFFICES ASSUME NEW r \in Rows, 0 < staging[Orders][r], staging[Orders][r] <= Top(Orders)
                 PROVE  <<r, staging[Orders][r]>> \in events \cup ToPublish
    BY <1>1
  <1>4. CASE staging[Orders][r] <= watermark[Orders]
    BY <1>3, <1>4 DEF PublishedTo
  <1>5. CASE watermark[Orders] < staging[Orders][r]
    <2>1. staging[Orders][r] <= candidate[Orders]
      BY <1>2, <1>3, <1>5
    <2>2. staging[Orders][r] # 0 /\ Within(staging[Orders][r], run.mode,
                                           watermark[Orders], candidate[Orders])
      BY <1>2, <1>3, <1>5, <2>1 DEF Within
    <2> QED
      BY <2>2 DEF ToPublish
  <1> QED
    BY <1>2, <1>4, <1>5

\* A loader that is done holds what is staged, until the run ends.
LEMMA TakenStep ==
    ASSUME TypeOK, InOrder, ResetInv, DagInv, LockInv, SinkInv, [Next]_vars, NEW s \in Loaders,
           run'.active, run'.mode = "incremental", task'[s] \in {"applied", "success"}
    PROVE  Taken(s)'
  <1>1. CASE Load(s)
    <2>1. staging' = staging
      BY <1>1 DEF Load
    <2> QED
      BY <1>1, <2>1, LoadShape DEF Taken
  <1>2. CASE task[s] \in {"applied", "success"} /\ run' = run
    <2>1. Incremental /\ s \in Sinks
      BY <1>2 DEF Incremental, Sinks
    <2>2. staging' = staging /\ Taken(s)
      BY <1>2, <2>1, StagingRests DEF SinkInv
    <2>3. \A t \in Tables, r \in Rows: staging[t][r] # 0 => loaded'[s][t][r] = staging[t][r]
      BY <2>2, LoadedMoves DEF Taken
    <2> QED
      BY <2>2, <2>3 DEF Taken
  <1>3. s \in Sinks /\ s \notin Tables /\ s # "publish"
    BY TasksAre DEF Sinks, Loaders
  <1> QED
    BY <1>1, <1>2, <1>3, AppliedMoves

LEMMA PublishedStep ==
    ASSUME TypeOK, InOrder, ResetInv, DagInv, LockInv, SinkInv, [Next]_vars,
           reset = "idle", run'.active, run'.mode = "incremental",
           task'["publish"] \in {"applied", "success"}
    PROVE  PublishedTo(Top(Orders))'
  <1>1. CASE Publish
    <2>1. run' = run /\ staging' = staging /\ UNCHANGED <<watermark, candidate>>
      BY <1>1 DEF Publish
    <2>2. PublishedTo(watermark[Orders])
      BY OrdersIsTable DEF SinkInv, SinksCoverWatermark, PublishedTo
    <2> QED
      BY <1>1, <2>1, <2>2, PublishTakesWindow DEF PublishedTo, Top, Larger
  <1>2. CASE task["publish"] \in {"applied", "success"} /\ run' = run
    <2>1. Incremental /\ "publish" \in Sinks
      BY <1>2 DEF Incremental, Sinks
    <2>2. staging' = staging /\ NextTop(Orders) = Top(Orders)
      BY <1>2, <2>1, StagingRests, OrdersIsTable
    <2>3. PublishedTo(Top(Orders))
      BY <1>2, <2>1 DEF SinkInv
    <2>4. Top(Orders)' = Top(Orders)
      BY <2>2 DEF NextTop, Top
    <2> QED
      BY <2>2, <2>3, <2>4, EventsGrow DEF PublishedTo
  <1>3. "publish" \in Sinks /\ "publish" \notin Tables /\ "publish" \notin Loaders
    BY TasksAre DEF Sinks, Loaders
  <1> QED
    BY <1>1, <1>2, <1>3, AppliedMoves

\* What the watermark covers after the step was staged and taken before it.
LEMMA BarrierStep ==
    ASSUME TypeOK, TypeOK', InOrder, ResetInv, DagInv, CoverInv, SinkInv, [Next]_vars,
           reset = "idle", reset' = "idle"
    PROVE  SinksCoverWatermark'
  <1>1. SUFFICES ASSUME NEW t \in Tables, NEW r \in Rows,
                        0 < staging'[t][r], staging'[t][r] <= watermark'[t]
                 PROVE  /\ \A s \in Loaders: loaded'[s][t][r] >= staging'[t][r]
                        /\ t = Orders => <<r, staging'[t][r]>> \in events'
    BY DEF SinksCoverWatermark
  <1>2. /\ staging[t][r] \in Nat /\ watermark[t] \in Nat /\ staging'[t][r] \in Nat
        /\ \A s \in Loaders: loaded[s][t][r] \in Nat /\ loaded'[s][t][r] \in Nat
    BY DEF TypeOK
  <1>3. /\ staging'[t][r] = staging[t][r]
        /\ \A s \in Loaders: loaded[s][t][r] >= staging[t][r]
        /\ t = Orders => <<r, staging[t][r]>> \in events
    <2>1. CASE AdvanceCommit
      <3>1. \A s \in Sinks: task[s] = "success"
        BY <2>1, TasksAre, UpstreamIs DEF AdvanceCommit, DagInv
      <3>2. Incremental
        BY <2>1, TasksAre DEF AdvanceCommit, DagInv, Incremental
      <3>3. /\ \A s \in Loaders: Taken(s)
            /\ PublishedTo(Top(Orders))
        BY <3>1, <3>2 DEF SinkInv, Sinks
      <3>4. watermark'[t] = Top(t) /\ staging' = staging
        BY <2>1, AdvanceShape DEF AdvanceCommit
      <3> QED
        BY <1>1, <1>2, <3>3, <3>4 DEF Taken, PublishedTo
    <2>2. CASE watermark' = watermark
      <3>1. staging'[t][r] = staging[t][r]
        BY <1>1, <1>2, <2>2, RowsKeep
      <3> QED
        BY <1>1, <2>2, <3>1 DEF SinkInv, SinksCoverWatermark
    <2>3. ~ResetMetadata
      BY DEF ResetMetadata
    <2> QED
      BY <2>1, <2>2, <2>3, WatermarkSteps
  <1>4. \A s \in Loaders: loaded'[s][t][r] >= staging[t][r]
    BY <1>2, <1>3, LoadedMoves
  <1> QED
    BY <1>3, <1>4, EventsGrow

LEMMA SinkStep ==
    ASSUME TypeOK, TypeOK', InOrder, ResetInv, DagInv, LockInv, CoverInv, SinkInv, [Next]_vars
    PROVE  SinkInv'
  <1>1. \A s \in Loaders: Incremental' /\ task'[s] \in {"applied", "success"} => Taken(s)'
    BY TakenStep DEF Incremental
  <1>2. CASE reset' = "idle" /\ reset = "idle"
    BY <1>1, <1>2, BarrierStep, PublishedStep DEF SinkInv, Incremental
  <1>3. CASE reset' = "idle" /\ reset # "idle"
    <2>1. ResetMetadata /\ ~run.active
      BY <1>3, ResetEnds
    <2>2. (\A t \in Tables: watermark'[t] = 0) /\ run' = run /\ staging' = staging
      BY <2>1, ResetMetadataShape
    <2> QED
      BY <1>1, <2>1, <2>2, RowNumbers DEF SinkInv, SinksCoverWatermark, Incremental
  <1>4. CASE reset' # "idle"
    BY <1>1, <1>4 DEF SinkInv, SinksCoverWatermark
  <1> QED
    BY <1>2, <1>3, <1>4

\* Between resets a statement stages what is newer than the watermark, or the
\* row as it is; and only a run whose loaders hold what is staged advances it.
LEMMA StaysStep ==
    ASSUME TypeOK, TypeOK', InOrder, ResetInv, PathInv, PathInv', DagInv, CoverInv, SinkInv,
           StaysInv, [Next]_vars
    PROVE  StaysInv'
  <1>1. SUFFICES ASSUME reset' = "idle", NEW s \in Loaders, NEW t \in Tables, NEW r \in Rows,
                        staging'[t][r] # 0, loaded'[s][t][r] <= watermark'[t]
                 PROVE  loaded'[s][t][r] <= staging'[t][r]
    BY DEF StaysInv
  <1>2. /\ staging[t][r] \in Nat /\ staging'[t][r] \in Nat
        /\ loaded[s][t][r] \in Nat /\ loaded'[s][t][r] \in Nat
        /\ watermark[t] \in Nat /\ watermark'[t] \in Nat
    BY DEF TypeOK
  <1>3. CASE reset # "idle"
    <2>1. watermark'[t] = 0
      BY <1>1, <1>3, ResetEnds, ResetMetadataShape
    <2> QED
      BY <1>1, <1>2, <2>1
  <1>4. CASE reset = "idle" /\ loaded' # loaded
    <2>1. /\ staging' = staging
          /\ loaded'[s][t][r] = staging[t][r] \/ loaded'[s][t][r] = loaded[s][t][r]
      BY <1>4, LoadedMoves
    <2>2. watermark' = watermark
      <3>1. ~AdvanceCommit /\ ~ResetMetadata
        BY <1>4 DEF AdvanceCommit, ResetMetadata
      <3> QED
        BY <3>1, WatermarkSteps
    <2> QED
      BY <1>1, <1>2, <1>4, <2>1, <2>2 DEF StaysInv
  <1>5. CASE reset = "idle" /\ loaded' = loaded
    <2>1. CASE AdvanceCommit
      <3>1. task[s] = "success" /\ Incremental
        BY <2>1, TasksAre, UpstreamIs DEF AdvanceCommit, DagInv, Incremental, Sinks
      <3>2. Taken(s)
        BY <3>1 DEF SinkInv
      <3>3. staging' = staging
        BY <2>1 DEF AdvanceCommit
      <3> QED
        BY <1>1, <1>2, <1>5, <3>2, <3>3 DEF Taken
    <2>2. CASE watermark' = watermark
      <3>1. staging'[t][r] = staging[t][r] \/ staging'[t][r] > watermark[t]
        BY <1>1, <1>5, RowsKeep
      <3>2. CASE staging'[t][r] = staging[t][r]
        BY <1>1, <1>5, <2>2, <3>2 DEF StaysInv
      <3>3. CASE staging'[t][r] > watermark[t]
        BY <1>1, <1>2, <2>2, <3>3
      <3> QED
        BY <3>1, <3>2, <3>3
    <2>3. ~ResetMetadata
      BY <1>5 DEF ResetMetadata
    <2> QED
      BY <2>1, <2>2, <2>3, WatermarkSteps
  <1> QED
    BY <1>3, <1>4, <1>5

-----------------------------------------------------------------------------

LEMMA InitDag == Init => DagInv /\ LockInv
  <1>1. Init => /\ run.active = FALSE /\ lost = {} /\ \A x \in Tasks: task[x] = "pending"
    BY DEF Init, IdleRun, Fresh
  <1> QED
    BY <1>1, TasksAre DEF DagInv, LockInv, Incremental

LEMMA InitOrdered == Init => OrderedInv
  <1> SUFFICES ASSUME Init PROVE OrderedInv
    OBVIOUS
  <1>1. /\ \A t \in Tables: watermark[t] = 0 /\ candidate[t] = NoCandidate
        /\ \A t \in Tables, r \in Rows: source[t][r] = 0 /\ staging[t][r] = 0
        /\ clock = 0 /\ run.active = FALSE /\ lost = {} /\ reset = "idle" /\ inflight = {}
    BY DEF Init, NoRows, IdleRun
  <1>2. \A t \in Tables: Top(t) = 0
    BY <1>1 DEF Top, Larger, NoCandidate
  <1>3. ResetInv /\ StampInv
    BY <1>1 DEF ResetInv, StampInv
  <1>4. CoverInv
    BY <1>1, <1>2 DEF CoverInv, CoveredTo, Bound, Incremental
  <1>5. SinkInv
    BY <1>1 DEF SinkInv, SinksCoverWatermark, Incremental
  <1>6. StaysInv
    BY <1>1 DEF StaysInv
  <1> QED
    BY <1>3, <1>4, <1>5, <1>6 DEF OrderedInv

\* The inductive invariant of the three theorems that follow.
LEMMA OrderedAlways ==
    ASSUME InOrder
    PROVE  Spec => [](TypeOK /\ InflightInv /\ PathInv /\ DagInv /\ LockInv /\ OrderedInv)
  <1>1. TypeOK /\ DagInv /\ LockInv /\ [Next]_vars => (DagInv /\ LockInv)'
    BY DagStep, LockStep
  <1>2. TypeOK /\ InflightInv /\ PathInv /\ DagInv /\ LockInv /\ OrderedInv
          /\ (TypeOK /\ InflightInv /\ PathInv)' /\ [Next]_vars => OrderedInv'
    <2> SUFFICES ASSUME TypeOK, TypeOK', InflightInv, PathInv, PathInv', DagInv, LockInv,
                        OrderedInv, [Next]_vars
                 PROVE  OrderedInv'
      OBVIOUS
    <2>1. StampInv' /\ ResetInv'
      BY StampStep, ResetStep DEF OrderedInv
    <2>2. CoverInv' /\ SinkInv' /\ StaysInv'
      BY CoverStep, SinkStep, StaysStep DEF OrderedInv
    <2> QED
      BY <2>1, <2>2 DEF OrderedInv
  <1> QED
    BY <1>1, <1>2, InitDag, InitOrdered, PathAlways, PTL DEF Spec

\* Whatever the watermark covers is staged in its current version, so the next
\* open window skips nothing: after any crashes, retries, failed runs, backfills
\* and resets between runs, and with the statements of lost incremental attempts
\* staging, late, what their snapshots show.  (ecommerce_pipeline.py:96-140, 464)
THEOREM WatermarkIsSafe == ASSUME InOrder PROVE Spec => []NothingSkipped
  <1>1. TypeOK /\ OrderedInv => NothingSkipped
    <2> SUFFICES ASSUME TypeOK, OrderedInv, reset = "idle", NEW t \in Tables, NEW r \in Rows,
                        0 < source[t][r], source[t][r] <= watermark[t]
                 PROVE  staging[t][r] = source[t][r]
      BY DEF NothingSkipped
    <2> QED
      BY TopNumbers, RowNumbers DEF OrderedInv, CoverInv, CoveredTo
  <1> QED
    BY <1>1, OrderedAlways, PTL

\* Whatever the watermark covers was merged by both loaders and published, in
\* the staged version.  (ecommerce_pipeline.py:464, publish_orders.py)
THEOREM CommitBarrier == ASSUME InOrder PROVE Spec => []SinksCoverWatermark
  <1>1. OrderedInv => SinksCoverWatermark
    BY DEF OrderedInv, SinkInv
  <1> QED
    BY <1>1, OrderedAlways, PTL

\* A loader never takes back what the watermark covers, although a statement of
\* a lost attempt may stage an older version of a newer row for a while.
\* (ecommerce_pipeline.py:118-139, 464)
THEOREM CommittedStaysHolds == ASSUME InOrder PROVE Spec => CommittedStays
  <1>1. ASSUME TypeOK, StaysInv, [Next]_vars, reset = "idle", NEW s \in Loaders, NEW t \in Tables,
               NEW r \in Rows, loaded[s][t][r] <= watermark[t]
        PROVE  loaded'[s][t][r] >= loaded[s][t][r]
    <2>1. loaded[s][t][r] \in Nat /\ staging[t][r] \in Nat
      BY <1>1, RowNumbers
    <2>2. \/ loaded'[s][t][r] = loaded[s][t][r]
          \/ staging[t][r] # 0 /\ loaded'[s][t][r] = staging[t][r]
      BY <1>1, LoadedMoves
    <2> QED
      BY <1>1, <2>1, <2>2 DEF StaysInv
  <1>2. TypeOK /\ OrderedInv /\ [Next]_vars
          => [reset = "idle" =>
                \A s \in Loaders, t \in Tables, r \in Rows:
                  loaded[s][t][r] <= watermark[t] => loaded'[s][t][r] >= loaded[s][t][r]]_vars
    BY <1>1 DEF OrderedInv
  <1> QED
    BY <1>2, OrderedAlways, PTL DEF Spec, CommittedStays
=============================================================================
