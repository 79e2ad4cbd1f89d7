--------------------------- MODULE CdcOperations ---------------------------
(***************************************************************************)
(* Operating the CDC path: the finite job cdc/bootstrap.py prepares        *)
(* PostgreSQL and registers the connector, Kafka Connect runs it, and      *)
(* monitoring/platform_exporter.py turns what it sees into the gauges the  *)
(* alert rules of Prometheus are about.                                    *)
(*                                                                         *)
(* Jobs may overlap, be interrupted between two statements and be run      *)
(* again; an operator may break in between what an earlier job prepared.   *)
(* An alert has a duration ("for"), so a rule fires and keeps firing once  *)
(* its gauge stays 0: the properties speak of gauges that stay.            *)
(***************************************************************************)
EXTENDS Integers, FiniteSets, Sequences, Functions

CONSTANTS
    Jobs,           \* processes running bootstrap.py
    Collectors,     \* the collectors of the exporter in their order: "postgres",
                    \* "debezium" and components that answer a probe or do not
    MaxRuns,        \* bound: starts of a job
    MaxFaults       \* bound: interruptions, drifts and outages

ASSUME BoundsAreNaturals == MaxRuns \in Nat /\ MaxFaults \in Nat
ASSUME CollectorsAreNamed ==
    /\ Collectors \in Seq(STRING) /\ IsInjective(Collectors)
    /\ {"postgres", "debezium"} \subseteq Range(Collectors)
    /\ "slot" \notin Range(Collectors)

VARIABLES
    database,   \* PostgreSQL: "up", "down", or "hung" (connections are accepted
                \* and statements are not answered)
    role,       \* the replication user
    granted,    \* its privileges
    publication,\* its publication; "stale" is one of other tables
    job,        \* job[j]: the next statement of j
    seen,       \* seen[j]: TRUE iff its last SELECT 1 found a row
    spoilt,     \* spoilt[j]: TRUE iff something was broken while j was running
    connect,    \* TRUE iff the Connect worker serves its REST API
    asked,      \* TRUE iff a configuration is stored and not yet acted upon
    connector,  \* state of the connector, "none" if there is none (404)
    task,       \* state of its only task, "none" if the list is empty
    ran,        \* TRUE iff a task has ever been RUNNING
    slot,       \* TRUE iff the replication slot is active
    healthy,    \* healthy[s]: TRUE iff service s answers its probe
    at,         \* position in Collectors of the one the exporter runs next
    gauge,      \* 0 or 1; NoSeries before the first collection
    runs,
    faults

prepVars    == <<role, granted, publication>>
jobVars     == <<job, seen, spoilt, runs>>
connectVars == <<connect, asked, connector, task, ran, slot>>
exportVars  == <<at, gauge>>
vars == <<database, prepVars, jobVars, connectVars, healthy, exportVars, faults>>

NoSeries == -1
Grants == <<"connect", "usage", "select">>
Steps == {"idle", "role?", "role", "connect", "usage", "select", "publication?",
          "publication", "wait", "put", "poll", "done", "failed"}
Services == Range(Collectors) \ {"postgres", "debezium"}
Series == {"slot"} \cup Range(Collectors)

TypeOK ==
    /\ database \in {"up", "down", "hung"}
    /\ role \in {"absent", "stale", "ready"}
    /\ granted \in SUBSET {"connect", "usage", "select"}
    /\ publication \in {"absent", "stale", "ready"}
    /\ job \in [Jobs -> Steps]
    /\ seen \in [Jobs -> BOOLEAN]
    /\ spoilt \in [Jobs -> BOOLEAN]
    /\ connect \in BOOLEAN
    /\ asked \in BOOLEAN
    /\ connector \in {"none", "RUNNING"}
    /\ task \in {"none", "RUNNING", "FAILED"}
    /\ ran \in BOOLEAN
    /\ slot \in BOOLEAN
    /\ healthy \in [Services -> BOOLEAN]
    /\ at \in DOMAIN Collectors
    /\ gauge \in [Series -> {NoSeries, 0, 1}]
    /\ runs \in Nat
    /\ faults \in Nat

Init ==
    /\ database = "up"
    /\ role = "absent" /\ granted = {} /\ publication = "absent"
    /\ job = [j \in Jobs |-> "idle"]
    /\ seen = [j \in Jobs |-> FALSE]
    /\ spoilt = [j \in Jobs |-> FALSE]
    /\ connect = TRUE
    /\ asked = FALSE
    /\ connector = "none" /\ task = "none" /\ ran = FALSE /\ slot = FALSE
    /\ healthy = [s \in Services |-> TRUE]
    /\ at = 1
    /\ gauge = [g \in Series |-> NoSeries]
    /\ runs = 0
    /\ faults = 0

\* What the source task needs in PostgreSQL.
Prepared ==
    /\ role = "ready"
    /\ granted = {Grants[i] : i \in 1..Len(Grants)}
    /\ publication = "ready"

-----------------------------------------------------------------------------
(* cdc/bootstrap.py *)

Becomes(j, step) == job' = [job EXCEPT ![j] = step]

StartJob(j) ==
    /\ job[j] \in {"idle", "done", "failed"}
    /\ runs < MaxRuns
    /\ runs' = runs + 1
    /\ Becomes(j, "role?")
    /\ spoilt' = [spoilt EXCEPT ![j] = FALSE]
    /\ UNCHANGED <<database, prepVars, seen, connectVars, healthy, exportVars, faults>>

Active(j) == job[j] \notin {"idle", "done", "failed"}

\* configure_postgres holds one connection from its first statement to its last.
Connected(j) == Active(j) /\ job[j] \notin {"role?", "wait", "put", "poll"}

\* The process is interrupted, or one of its calls raises.  Every statement
\* before is committed (autocommit).
JobFails(j) ==
    /\ Active(j)
    /\ faults < MaxFaults
    /\ faults' = faults + 1
    /\ Becomes(j, "failed")
    /\ UNCHANGED <<database, prepVars, seen, spoilt, runs, connectVars, healthy, exportVars>>

Untouched == UNCHANGED <<database, spoilt, runs, connectVars, healthy, exportVars, faults>>

\* A statement of configure_postgres; one that is not possible raises.
Statement(j, step, possible, next) ==
    /\ job[j] = step
    /\ database = "up"
    /\ Becomes(j, IF possible THEN next ELSE "failed")

CannotConnect(j) ==
    /\ job[j] = "role?"
    /\ database = "down"
    /\ Becomes(j, "failed")
    /\ UNCHANGED <<prepVars, seen>> /\ Untouched

\* SELECT 1 FROM pg_roles
CheckRole(j) ==
    /\ Statement(j, "role?", TRUE, "role")
    /\ seen' = [seen EXCEPT ![j] = (role # "absent")]
    /\ UNCHANGED prepVars /\ Untouched

\* CREATE ROLE, or ALTER ROLE if the row was seen: each is an error if another
\* session has meanwhile made it so.
SetRole(j) ==
    /\ Statement(j, "role", seen[j] <=> role # "absent", "connect")
    /\ role' = IF job'[j] = "connect" THEN "ready" ELSE role
    /\ UNCHANGED <<granted, publication, seen>> /\ Untouched

\* GRANT CONNECT, USAGE and SELECT, in this order.
Grant(j, i) ==
    /\ Statement(j, Grants[i], role # "absent",
                 IF i < Len(Grants) THEN Grants[i + 1] ELSE "publication?")
    /\ granted' = IF job'[j] = "failed" THEN granted ELSE granted \cup {Grants[i]}
    /\ UNCHANGED <<role, publication, seen>> /\ Untouched

\* SELECT 1 FROM pg_publication
CheckPublication(j) ==
    /\ Statement(j, "publication?", TRUE, "publication")
    /\ seen' = [seen EXCEPT ![j] = (publication # "absent")]
    /\ UNCHANGED prepVars /\ Untouched

\* Mutant: a publication that exists is left as it is.
SetPublicationIfMissing(j) ==
    /\ Statement(j, "publication", seen[j] <=> publication # "absent", "wait")
    /\ publication' = IF job'[j] = "wait" /\ ~seen[j] THEN "ready" ELSE publication
    /\ UNCHANGED <<role, granted, seen>> /\ Untouched

\* CREATE PUBLICATION, or ALTER PUBLICATION .. SET TABLE if one was seen.
SetPublication(j) ==
    /\ Statement(j, "publication", seen[j] <=> publication # "absent", "wait")
    /\ publication' = IF job'[j] = "wait" THEN "ready" ELSE publication
    /\ UNCHANGED <<role, granted, seen>> /\ Untouched

\* wait_for_connect, up to its deadline.
WaitForConnect(j) ==
    /\ job[j] = "wait"
    /\ Becomes(j, IF connect THEN "put" ELSE "failed")
    /\ UNCHANGED <<prepVars, seen>> /\ Untouched

\* PUT of the connector's configuration, accepted before anything acts on it.
Put(j) ==
    /\ job[j] = "put"
    /\ Becomes(j, IF connect THEN "poll" ELSE "failed")
    /\ asked' = (asked \/ connect)
    /\ UNCHANGED <<database, prepVars, seen, spoilt, runs, connect, connector, task, ran, slot,
                   healthy, exportVars, faults>>

\* connector RUNNING, and tasks: not empty, all RUNNING.
AllRunning == connector = "RUNNING" /\ task = "RUNNING"

\* GET of the status: 404 and unfinished starts are polled again, any other
\* error raises; the deadline ends it.
Poll(j) ==
    /\ job[j] = "poll"
    /\ \/ connect /\ AllRunning /\ Becomes(j, "done")
       \/ connect /\ ~AllRunning /\ task = "FAILED" /\ Becomes(j, "failed")
       \/ ~connect /\ Becomes(j, "failed")
    /\ UNCHANGED <<prepVars, seen>> /\ Untouched

PollDeadline(j) ==
    /\ job[j] = "poll"
    /\ ~(connect /\ AllRunning)
    /\ Becomes(j, "failed")
    /\ UNCHANGED <<prepVars, seen>> /\ Untouched

JobStep(j) ==
    \/ CannotConnect(j) \/ CheckRole(j) \/ SetRole(j)
    \/ \E i \in 1..Len(Grants): Grant(j, i)
    \/ CheckPublication(j) \/ SetPublication(j)
    \/ WaitForConnect(j) \/ Put(j) \/ Poll(j) \/ PollDeadline(j)

-----------------------------------------------------------------------------
(* Kafka Connect and the replication slot *)

\* The worker acts on the stored configuration: it starts the connector, and
\* starts its task again or leaves one whose settings are the same.
ApplyConfig ==
    /\ connect /\ asked
    /\ asked' = FALSE
    /\ connector' = "RUNNING"
    /\ \/ UNCHANGED <<task, slot>>
       \/ task' = "none" /\ slot' = FALSE
    /\ UNCHANGED <<database, prepVars, jobVars, connect, ran, healthy, exportVars, faults>>

StartTask ==
    /\ connect /\ connector = "RUNNING" /\ task = "none"
    /\ LET works == Prepared /\ database = "up"
       IN  /\ task' = IF works THEN "RUNNING" ELSE "FAILED"
           /\ slot' = works
           /\ ran' = (ran \/ works)
    /\ UNCHANGED <<database, prepVars, jobVars, connect, asked, connector, healthy,
                   exportVars, faults>>

\* The stream breaks; the task gives up, or stays RUNNING and tries again.
StreamBreaks ==
    /\ slot
    /\ slot' = FALSE
    /\ ~Prepared \/ database # "up"
    /\ task' \in {"RUNNING", "FAILED"}
    /\ UNCHANGED <<database, prepVars, jobVars, connect, asked, connector, ran, healthy,
                   exportVars, faults>>

StreamResumes ==
    /\ connect /\ task = "RUNNING" /\ ~slot
    /\ Prepared /\ database = "up"
    /\ slot' = TRUE
    /\ UNCHANGED <<database, prepVars, jobVars, connect, asked, connector, task, ran,
                   healthy, exportVars, faults>>

ConnectStops ==
    /\ connect
    /\ faults < MaxFaults
    /\ faults' = faults + 1
    /\ connect' = FALSE /\ slot' = FALSE
    /\ task' = "none"
    /\ UNCHANGED <<database, prepVars, jobVars, asked, connector, ran, healthy, exportVars>>

\* restart: unless-stopped; connectors are in the config topic.
ConnectStarts ==
    /\ ~connect
    /\ connect' = TRUE
    /\ UNCHANGED <<database, prepVars, jobVars, asked, connector, task, ran, slot, healthy,
                   exportVars, faults>>

-----------------------------------------------------------------------------
(* The environment *)

\* Something an earlier job prepared is dropped or changed by hand.
Drift ==
    /\ faults < MaxFaults
    /\ faults' = faults + 1
    /\ \/ role = "ready" /\ role' = "stale" /\ UNCHANGED <<granted, publication>>
       \/ granted # {} /\ granted' = granted \ {"select"} /\ UNCHANGED <<role, publication>>
       \/ publication = "ready" /\ publication' \in {"absent", "stale"}
          /\ UNCHANGED <<role, granted>>
    /\ spoilt' = [j \in Jobs |-> TRUE]
    /\ UNCHANGED <<database, job, seen, runs, connectVars, healthy, exportVars>>

DatabaseHangs ==
    /\ database = "up"
    /\ faults < MaxFaults
    /\ faults' = faults + 1
    /\ database' = "hung"
    /\ UNCHANGED <<prepVars, jobVars, connectVars, healthy, exportVars>>

\* The next statement of a job whose connection is lost raises.
DatabaseStops ==
    /\ database # "down"
    /\ faults < MaxFaults
    /\ faults' = faults + 1
    /\ database' = "down"
    /\ job' = [j \in Jobs |-> IF Connected(j) THEN "failed" ELSE job[j]]
    /\ UNCHANGED <<prepVars, seen, spoilt, runs, connectVars, healthy, exportVars>>

\* The server starts again, or what it hung on is gone.
DatabaseRecovers ==
    /\ database # "up"
    /\ database' = "up"
    /\ UNCHANGED <<prepVars, jobVars, connectVars, healthy, exportVars, faults>>

ServiceChanges(s) ==
    /\ healthy[s] => faults < MaxFaults
    /\ healthy' = [healthy EXCEPT ![s] = ~@]
    /\ faults' = IF healthy[s] THEN faults + 1 ELSE faults
    /\ UNCHANGED <<database, prepVars, jobVars, connectVars, exportVars>>

-----------------------------------------------------------------------------
(* monitoring/platform_exporter.py: collect, one collector after another *)

Bit(condition) == IF condition THEN 1 ELSE 0
Collects(c) ==
    /\ Collectors[at] = c
    /\ at' = IF at = Len(Collectors) THEN 1 ELSE at + 1
World == <<database, prepVars, jobVars, connectVars, healthy, faults>>

\* Mutant: the exception is only printed.
CollectPostgresQuietly ==
    /\ Collects("postgres")
    /\ database # "hung"
    /\ gauge' = IF database = "up" THEN [gauge EXCEPT !["postgres"] = 1, !["slot"] = Bit(slot)]
                ELSE gauge
    /\ UNCHANGED World

\* An exception resets the component's own gauge; that of the slot keeps the
\* value of the last good collection.  No statement has a timeout.
CollectPostgres ==
    /\ Collects("postgres")
    /\ database # "hung"
    /\ gauge' = IF database = "up" THEN [gauge EXCEPT !["postgres"] = 1, !["slot"] = Bit(slot)]
                ELSE [gauge EXCEPT !["postgres"] = 0]
    /\ UNCHANGED World

\* platform_component_up{debezium} and cdc_connector_up: connector and every
\* task RUNNING, and 0 for any exception.
CollectDebezium ==
    /\ Collects("debezium")
    /\ gauge' = [gauge EXCEPT !["debezium"] = Bit(connect /\ AllRunning)]
    /\ UNCHANGED World

\* Mutant: the status code of the answer.
CollectServiceCode(s) ==
    /\ Collects(s)
    /\ gauge' = [gauge EXCEPT ![s] = IF healthy[s] THEN 200 ELSE 0]
    /\ UNCHANGED World

\* Mutant: only a failure is written.
CollectServiceFailure(s) ==
    /\ Collects(s)
    /\ gauge' = [gauge EXCEPT ![s] = IF healthy[s] /\ @ # NoSeries THEN @ ELSE Bit(healthy[s])]
    /\ UNCHANGED World

\* collect_kafka and collect_http.
CollectService(s) ==
    /\ Collects(s)
    /\ gauge' = [gauge EXCEPT ![s] = Bit(healthy[s])]
    /\ UNCHANGED World

Export == CollectPostgres \/ CollectDebezium \/ \E s \in Services: CollectService(s)

-----------------------------------------------------------------------------

Next ==
    \/ \E j \in Jobs: StartJob(j) \/ JobStep(j) \/ JobFails(j)
    \/ ApplyConfig \/ StartTask \/ StreamBreaks \/ StreamResumes
    \/ ConnectStops \/ ConnectStarts
    \/ Drift
    \/ DatabaseHangs \/ DatabaseStops \/ DatabaseRecovers
    \/ \E s \in Services: ServiceChanges(s)
    \/ Export

Spec == Init /\ [][Next]_vars

\* main loops for ever, and every collector but that of a hung database ends
\* (a timeout of 5 s, or the connection is refused).
FairSpec == Spec /\ WF_vars(Export)

-----------------------------------------------------------------------------

\* A bootstrap that reports success leaves the role, its privileges and the
\* publication of exactly the captured tables, and a task has run with them:
\* whatever part of it earlier jobs had done when they were interrupted,
\* whichever jobs run beside it, unless something was broken meanwhile.
\* (bootstrap.py:1-6, "finite, idempotent deployment job")
SuccessMeansPrepared ==
    \A j \in Jobs: job[j] = "done" /\ ~spoilt[j] => Prepared /\ ran

\* A stream that has stopped for good is shown for good, by the slot, the
\* connector or the database, and so is a service that has, unless the exporter
\* itself waits for ever for an answer of PostgreSQL.
\* (platform_exporter.py:3-7; alerts.yml:6, 42, 51)
StopIsReported ==
    \/ <>[](database = "hung")
    \/ /\ <>[]~slot => <>[](\E g \in {"slot", "postgres", "debezium"}: gauge[g] = 0)
       /\ <>[](task # "RUNNING" \/ ~connect) => <>[](gauge["debezium"] = 0)
       /\ \A s \in Services: <>[]~healthy[s] => <>[](gauge[s] = 0)

\* No alert outlives its cause: once everything works for good, no gauge is 0.
\* (platform_exporter.py:158-161, 164-174, 206-225: values set by a failure)
AlertsResolve ==
    <>[](/\ database = "up" /\ connect /\ AllRunning /\ slot
         /\ \A s \in Services: healthy[s])
        => <>[](\A g \in Series: gauge[g] = 1)
=============================================================================
