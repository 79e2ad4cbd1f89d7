------------------------ MODULE CdcOperations_proofs ------------------------
(***************************************************************************)
(* Proofs about CdcOperations, for any number of bootstrap jobs, any       *)
(* collectors and all bounds.                                              *)
(***************************************************************************)
EXTENDS CdcOperations, TLAPS

\* What a job that was not spoilt has achieved by the statement it is at.
RoleDone == {"connect", "usage", "select", "publication?", "publication", "wait", "put",
             "poll", "done"}
ConnectDone == RoleDone \ {"connect"}
UsageDone == ConnectDone \ {"usage"}
SelectDone == UsageDone \ {"select"}
PublicationDone == {"wait", "put", "poll", "done"}

Progress(j) ==
    /\ job[j] \in RoleDone => role = "ready"
    /\ job[j] \in ConnectDone => "connect" \in granted
    /\ job[j] \in UsageDone => "usage" \in granted
    /\ job[j] \in SelectDone => "select" \in granted
    /\ job[j] \in PublicationDone => publication = "ready"

\* The inductive invariant of SuccessMeansPrepared.
PreparedInv ==
    /\ \A j \in Jobs: ~spoilt[j] => Progress(j)
    /\ \A j \in Jobs: job[j] = "done" => ran
    /\ task = "RUNNING" \/ slot => ran

USE DEF prepVars, jobVars, connectVars, exportVars

LEMMA GrantsAre ==
    /\ DOMAIN Grants = 1..3 /\ Len(Grants) = 3
    /\ Grants[1] = "connect" /\ Grants[2] = "usage" /\ Grants[3] = "select"
  BY DEF Grants

LEMMA CollectorsHaveAFirst == Collectors \in Seq(STRING) /\ Len(Collectors) \in Nat \ {0}
                              /\ DOMAIN Collectors = 1..Len(Collectors)
  <1>1. Collectors \in Seq(STRING) /\ DOMAIN Collectors = 1..Len(Collectors)
        /\ Len(Collectors) \in Nat
    BY CollectorsAreNamed
  <1>2. \E i \in DOMAIN Collectors: Collectors[i] = "postgres"
    BY CollectorsAreNamed DEF Range
  <1> QED
    BY <1>1, <1>2

LEMMA TypeInit == Init => TypeOK
  <1> SUFFICES ASSUME Init PROVE TypeOK
    OBVIOUS
  <1>1. at \in DOMAIN Collectors
    BY CollectorsHaveAFirst DEF Init
  <1>2. gauge \in [Series -> {NoSeries, 0, 1}]
    BY DEF Init
  <1>3. /\ job \in [Jobs -> Steps]
        /\ seen \in [Jobs -> BOOLEAN] /\ spoilt \in [Jobs -> BOOLEAN]
        /\ healthy \in [Services -> BOOLEAN]
    BY DEF Init, Steps
  <1> QED
    BY <1>1, <1>2, <1>3 DEF Init, TypeOK

LEMMA JobStepTyped == ASSUME TypeOK, NEW j \in Jobs, JobStep(j) PROVE TypeOK'
  <1> USE DEF TypeOK, Steps, Becomes, Statement, Untouched, World
  <1>1. CASE CannotConnect(j) BY <1>1 DEF CannotConnect
  <1>2. CASE CheckRole(j) BY <1>2 DEF CheckRole
  <1>3. CASE SetRole(j) BY <1>3 DEF SetRole
  <1>4. ASSUME NEW i \in 1..Len(Grants), Grant(j, i) PROVE TypeOK'
    <2>1. Grants[i] \in {"connect", "usage", "select"}
      BY GrantsAre
    <2>2. (IF i < Len(Grants) THEN Grants[i + 1] ELSE "publication?") \in Steps
      BY GrantsAre
    <2> DEFINE next == IF i < Len(Grants) THEN Grants[i + 1] ELSE "publication?"
    <2> HIDE DEF next
    <2>3. Statement(j, Grants[i], role # "absent", next)
      BY <1>4 DEF Grant, next
    <2>4. next \in Steps
      BY <2>2 DEF next
    <2>5. job' \in [Jobs -> Steps]
      BY <2>3, <2>4
    <2>6. granted' \in SUBSET {"connect", "usage", "select"}
      BY <1>4, <2>1 DEF Grant
    <2> QED
      BY <1>4, <2>3, <2>5, <2>6 DEF Grant
  <1>5. CASE CheckPublication(j) BY <1>5 DEF CheckPublication
  <1>6. CASE SetPublication(j) BY <1>6 DEF SetPublication
  <1>7. CASE WaitForConnect(j) BY <1>7 DEF WaitForConnect
  <1>8. CASE Put(j) BY <1>8 DEF Put
  <1>9. CASE Poll(j) BY <1>9 DEF Poll
  <1>10. CASE PollDeadline(j) BY <1>10 DEF PollDeadline
  <1> QED
    BY <1>1, <1>2, <1>3, <1>4, <1>5, <1>6, <1>7, <1>8, <1>9, <1>10 DEF JobStep

LEMMA CollectTyped == ASSUME TypeOK, Export PROVE TypeOK'
  <1> USE DEF TypeOK, World
  <1>1. ASSUME NEW c, Collects(c) PROVE c \in Series /\ at' \in DOMAIN Collectors
    <2>1. at \in 1..Len(Collectors) /\ Collectors[at] = c
      BY <1>1, CollectorsHaveAFirst DEF Collects
    <2>2. c \in Series
      BY <2>1, CollectorsHaveAFirst DEF Series, Range
    <2>3. at' \in 1..Len(Collectors)
      BY <1>1, <2>1, CollectorsHaveAFirst DEF Collects
    <2> QED
      BY <2>2, <2>3, CollectorsHaveAFirst
  <1>2. \A b: Bit(b) \in {0, 1}
    BY DEF Bit
  <1>3. CASE CollectPostgres
    <2>1. "postgres" \in Series /\ "slot" \in Series /\ at' \in DOMAIN Collectors
      BY <1>1, <1>3 DEF CollectPostgres, Series
    <2>2. gauge' \in [Series -> {NoSeries, 0, 1}]
      BY <1>2, <1>3, <2>1 DEF CollectPostgres
    <2> QED
      BY <1>3, <2>1, <2>2 DEF CollectPostgres
  <1>4. CASE CollectDebezium
    <2>1. "debezium" \in Series /\ at' \in DOMAIN Collectors
      BY <1>1, <1>4 DEF CollectDebezium
    <2>2. gauge' \in [Series -> {NoSeries, 0, 1}]
      BY <1>2, <1>4, <2>1 DEF CollectDebezium
    <2> QED
      BY <1>4, <2>1, <2>2 DEF CollectDebezium
  <1>5. ASSUME NEW s \in Services, CollectService(s) PROVE TypeOK'
    <2>1. s \in Series /\ at' \in DOMAIN Collectors
      BY <1>1, <1>5 DEF CollectService
    <2>2. gauge' \in [Series -> {NoSeries, 0, 1}]
      BY <1>2, <1>5, <2>1 DEF CollectService
    <2> QED
      BY <1>5, <2>1, <2>2 DEF CollectService
  <1> QED
    BY <1>3, <1>4, <1>5 DEF Export

LEMMA StepTyped == ASSUME TypeOK, [Next]_vars PROVE TypeOK'
  <1> USE DEF TypeOK, Steps, Becomes, BoundsAreNaturals
  <1>1. ASSUME NEW j \in Jobs, StartJob(j) PROVE TypeOK'
    BY <1>1 DEF StartJob
  <1>2. ASSUME NEW j \in Jobs, JobStep(j) PROVE TypeOK'
    BY <1>2, JobStepTyped
  <1>3. ASSUME NEW j \in Jobs, JobFails(j) PROVE TypeOK'
    BY <1>3 DEF JobFails
  <1>4. CASE ApplyConfig BY <1>4 DEF ApplyConfig
  <1>5. CASE StartTask BY <1>5 DEF StartTask, Prepared
  <1>6. CASE StreamBreaks BY <1>6 DEF StreamBreaks
  <1>7. CASE StreamResumes BY <1>7 DEF StreamResumes
  <1>8. CASE ConnectStops
    <2>1. connect' = FALSE /\ slot' = FALSE /\ task' = "none"
      BY <1>8 DEF ConnectStops
    <2>3. faults' \in Nat
      BY <1>8 DEF ConnectStops
    <2>2. UNCHANGED <<database, role, granted, publication, job, seen, spoilt, asked,
                      connector, ran, healthy, at, gauge, runs>>
      BY <1>8 DEF ConnectStops
    <2> QED
      BY <2>1, <2>2, <2>3
  <1>9. CASE ConnectStarts BY <1>9 DEF ConnectStarts
  <1>10. CASE Drift
    <2>1. /\ role' \in {"absent", "stale", "ready"}
          /\ granted' \in SUBSET {"connect", "usage", "select"}
          /\ publication' \in {"absent", "stale", "ready"}
      BY <1>10 DEF Drift
    <2>2. spoilt' \in [Jobs -> BOOLEAN] /\ faults' \in Nat
      BY <1>10 DEF Drift
    <2> QED
      BY <1>10, <2>1, <2>2 DEF Drift
  <1>11. CASE DatabaseHangs BY <1>11 DEF DatabaseHangs
  <1>12. CASE DatabaseStops BY <1>12 DEF DatabaseStops
  <1>13. CASE DatabaseRecovers BY <1>13 DEF DatabaseRecovers
  <1>14. ASSUME NEW s \in Services, ServiceChanges(s) PROVE TypeOK'
    BY <1>14 DEF ServiceChanges
  <1>15. CASE Export BY <1>15, CollectTyped
  <1>16. CASE UNCHANGED vars BY <1>16 DEF vars
  <1> QED
    BY <1>1, <1>2, <1>3, <1>4, <1>5, <1>6, <1>7, <1>8, <1>9, <1>10, <1>11, <1>12, <1>13,
       <1>14, <1>15, <1>16 DEF Next

\* Every variable keeps its type in every behaviour: no gauge ever has a value
\* other than 0 and 1 once it is set, and the exporter always has a next
\* collector.  (platform_exporter.py:228-238, the loop over the collectors)
THEOREM TypeCorrect == Spec => []TypeOK
  <1>1. Init => TypeOK
    BY TypeInit
  <1>2. TypeOK /\ [Next]_vars => TypeOK'
    BY StepTyped
  <1> QED
    BY <1>1, <1>2, PTL DEF Spec

-----------------------------------------------------------------------------

\* A statement of one job takes nothing away from another: it may only add a
\* privilege and make the role and the publication ready.
LEMMA OthersKeepProgress ==
    ASSUME TypeOK, NEW k \in Jobs, Progress(k), job'[k] = job[k],
           role' \in {role, "ready"}, granted \subseteq granted',
           publication' \in {publication, "ready"}
    PROVE  Progress(k)'
  BY DEF Progress

\* Nor does an interruption.
LEMMA FailingKeepsProgress ==
    ASSUME NEW k \in Jobs, job'[k] \in {"failed", "role?"}
    PROVE  Progress(k)'
  BY DEF Progress, RoleDone, ConnectDone, UsageDone, SelectDone, PublicationDone

LEMMA JobStepPrepares ==
    ASSUME TypeOK, PreparedInv, NEW j \in Jobs, JobStep(j)
    PROVE  PreparedInv'
  <1> USE DEF Statement, Untouched, Becomes
  <1> DEFINE Mine == ~spoilt[j] => Progress(j)'
             Only == /\ \A k \in Jobs \ {j}: job'[k] = job[k]
                     /\ role' \in {role, "ready"} /\ granted \subseteq granted'
                     /\ publication' \in {publication, "ready"}
                     /\ UNCHANGED <<spoilt, ran, task, slot>>
                     /\ job'[j] = "done" => task = "RUNNING"
  <1> USE DEF RoleDone, ConnectDone, UsageDone, SelectDone, PublicationDone
  <1>1. /\ job \in [Jobs -> Steps] /\ DOMAIN job = Jobs
        /\ ~spoilt[j] => Progress(j)
    BY DEF TypeOK, PreparedInv
  <1>2. ASSUME CannotConnect(j) \/ CheckRole(j) \/ SetRole(j) PROVE Only /\ Mine
    BY <1>1, <1>2 DEF CannotConnect, CheckRole, SetRole, Progress
  <1>3. ASSUME NEW i \in 1..Len(Grants), Grant(j, i) PROVE Only /\ Mine
    <2>1. CASE i = 1
      BY <1>1, <1>3, <2>1, GrantsAre DEF Grant, Progress
    <2>2. CASE i = 2
      BY <1>1, <1>3, <2>2, GrantsAre DEF Grant, Progress
    <2>3. CASE i = 3
      BY <1>1, <1>3, <2>3, GrantsAre DEF Grant, Progress
    <2> QED
      BY <2>1, <2>2, <2>3, GrantsAre
  <1>4. ASSUME CheckPublication(j) \/ SetPublication(j) PROVE Only /\ Mine
    BY <1>1, <1>4 DEF CheckPublication, SetPublication, Progress
  <1>5. ASSUME WaitForConnect(j) \/ Put(j) PROVE Only /\ Mine
    BY <1>1, <1>5 DEF WaitForConnect, Put, Progress
  <1>6. ASSUME Poll(j) \/ PollDeadline(j) PROVE Only /\ Mine
    BY <1>1, <1>6 DEF Poll, PollDeadline, AllRunning, Progress
  <1>7. Only /\ Mine
    BY <1>2, <1>3, <1>4, <1>5, <1>6 DEF JobStep
  <1>8. ASSUME NEW k \in Jobs, ~spoilt'[k] PROVE Progress(k)'
    BY <1>7, <1>8, OthersKeepProgress DEF PreparedInv
  <1>9. ASSUME NEW k \in Jobs, job'[k] = "done" PROVE ran'
    BY <1>7, <1>9 DEF PreparedInv
  <1> QED
    BY <1>7, <1>8, <1>9 DEF PreparedInv

LEMMA StepPrepares == ASSUME TypeOK, PreparedInv, [Next]_vars PROVE PreparedInv'
  <1> USE DEF PreparedInv, Becomes
  <1>1. ASSUME NEW j \in Jobs, StartJob(j) \/ JobFails(j) PROVE PreparedInv'
    <2>1. /\ job'[j] \in {"failed", "role?"}
          /\ \A k \in Jobs \ {j}: job'[k] = job[k] /\ spoilt'[k] = spoilt[k]
          /\ UNCHANGED <<role, granted, publication, task, ran, slot>>
      BY <1>1 DEF StartJob, JobFails, TypeOK
    <2>2. ASSUME NEW k \in Jobs, ~spoilt'[k] PROVE Progress(k)'
      BY <2>1, <2>2, FailingKeepsProgress, OthersKeepProgress
    <2> QED
      BY <2>1, <2>2
  <1>2. ASSUME NEW j \in Jobs, JobStep(j) PROVE PreparedInv'
    BY <1>2, JobStepPrepares
  <1>3. CASE \/ UNCHANGED vars \/ DatabaseHangs \/ DatabaseRecovers \/ Export
             \/ \E s \in Services: ServiceChanges(s)
    <2>1. UNCHANGED <<role, granted, publication, job, spoilt, task, ran, slot>>
      BY <1>3 DEF vars, DatabaseHangs, DatabaseRecovers, Export, ServiceChanges,
                  CollectPostgres, CollectDebezium, CollectService, World
    <2> QED
      BY <2>1 DEF Progress
  <1>4. CASE \/ ApplyConfig \/ StartTask \/ StreamBreaks \/ StreamResumes \/ ConnectStops
             \/ ConnectStarts
    <2>1. /\ UNCHANGED <<role, granted, publication, job, spoilt>>
          /\ ran => ran'
          /\ task' = "RUNNING" \/ slot' => ran' \/ task = "RUNNING" \/ slot
      <3> USE DEF TypeOK
      <3>1. CASE ApplyConfig BY <3>1 DEF ApplyConfig
      <3>2. CASE StartTask BY <3>2 DEF StartTask
      <3>3. CASE StreamBreaks BY <3>3 DEF StreamBreaks
      <3>4. CASE StreamResumes BY <3>4 DEF StreamResumes
      <3>5. CASE ConnectStops BY <3>5 DEF ConnectStops
      <3>6. CASE ConnectStarts BY <3>6 DEF ConnectStarts
      <3> QED
        BY <1>4, <3>1, <3>2, <3>3, <3>4, <3>5, <3>6
    <2> QED
      BY <2>1 DEF Progress
  <1>5. CASE Drift
    BY <1>5 DEF Drift
  <1>6. CASE DatabaseStops
    <2>1. /\ UNCHANGED <<role, granted, publication, spoilt, task, ran, slot>>
          /\ \A k \in Jobs: job'[k] \in {job[k], "failed"}
      BY <1>6 DEF DatabaseStops
    <2>2. ASSUME NEW k \in Jobs, ~spoilt'[k] PROVE Progress(k)'
      BY <2>1, <2>2, FailingKeepsProgress, OthersKeepProgress
    <2> QED
      BY <2>1, <2>2
  <1> QED
    BY <1>1, <1>2, <1>3, <1>4, <1>5, <1>6 DEF Next


LEMMA PreparedInit == Init => PreparedInv
  BY DEF Init, PreparedInv, Progress, RoleDone, ConnectDone, UsageDone, SelectDone,
         PublicationDone

\* A bootstrap that ends with success while nothing was broken leaves the role,
\* every privilege and the publication the source task needs, and a task has
\* run with them, for any number of jobs that overlap, die between two
\* statements and start again.  (bootstrap.py:77-123, 161-180)
THEOREM PreparedAfterSuccess == Spec => []SuccessMeansPrepared
  <1>1. Init => PreparedInv
    BY PreparedInit
  <1>2. TypeOK /\ PreparedInv /\ [Next]_vars => PreparedInv'
    BY StepPrepares
  <1>3. TypeOK /\ PreparedInv => SuccessMeansPrepared
    <2> SUFFICES ASSUME TypeOK, PreparedInv, NEW j \in Jobs, job[j] = "done", ~spoilt[j]
                 PROVE  Prepared /\ ran
      BY DEF SuccessMeansPrepared
    <2>1. role = "ready" /\ publication = "ready" /\ ran
          /\ {"connect", "usage", "select"} \subseteq granted
      BY DEF PreparedInv, Progress, RoleDone, ConnectDone, UsageDone, SelectDone,
             PublicationDone
    <2>2. {Grants[i] : i \in 1..Len(Grants)} = {"connect", "usage", "select"}
      BY GrantsAre
    <2> QED
      BY <2>1, <2>2 DEF Prepared, TypeOK
  <1> QED
    BY <1>1, <1>2, <1>3, TypeCorrect, PTL DEF Spec

=============================================================================
