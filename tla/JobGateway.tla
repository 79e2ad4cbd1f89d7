----------------------------- MODULE JobGateway -----------------------------
(***************************************************************************)
(* spark/gateway/job_gateway.py and the Airflow tasks that call it:        *)
(* run_iceberg_batch of ecommerce_pipeline and                             *)
(* compact_and_expire_snapshots of lakehouse_maintenance, with their       *)
(* client timeouts and retries in discrete time (a tick is five minutes).  *)
(*                                                                         *)
(* Every POST has a handler thread, which outlives the client's interest   *)
(* in it.  A job may end at any time up to the timeout.                    *)
(***************************************************************************)
EXTENDS Integers, Sequences, FiniteSets

CONSTANTS
    Callers,        \* the Airflow tasks that post jobs
    JobTimeout,     \* JOB_TIMEOUT_SECONDS, in ticks
    CallTimeout,    \* CallTimeout[c]: requests timeout, execution_timeout
    RetryDelay,     \* RetryDelay[c]: retry_delay, in ticks
    Retries,        \* Retries[c]
    MaxPosts,       \* bound: no run starts after this many POSTs
    MaxFaults       \* bound: crashes of tasks and of the gateway

ASSUME JobTimeoutIsNatural == JobTimeout \in Nat \ {0}
ASSUME CallersType ==
    /\ CallTimeout \in [Callers -> Nat \ {0}]
    /\ RetryDelay \in [Callers -> Nat \ {0}]
    /\ Retries \in [Callers -> Nat]
ASSUME BoundsAreNaturals == MaxPosts \in Nat /\ MaxFaults \in Nat

Free == 0

VARIABLES
    posts,      \* the handlers, in order of arrival
    lock,       \* job_lock: the handler that holds it, or Free
    caller,     \* caller[c]: the active task instance, and its latest post
    faults

vars == <<posts, lock, caller, faults>>

Post == [by: Callers, try: Nat, age: Nat, ran: BOOLEAN, ok: BOOLEAN,
         state: {"arrived", "running", "ended", "answered", "closed"}]

Caller == [state: {"idle", "waiting", "backoff", "succeeded", "failed"},
           tries: Nat, timer: Nat, post: Nat]

TypeOK ==
    /\ posts \in Seq(Post)
    /\ lock \in Nat
    /\ caller \in [Callers -> Caller]
    /\ faults \in Nat

Init ==
    /\ posts = <<>>
    /\ lock = Free
    /\ caller = [c \in Callers |->
                   [state |-> "idle", tries |-> 0, timer |-> 0, post |-> 0]]
    /\ faults = 0

In(i, state) == posts[i].state = state
Becomes(i, state) == posts' = [posts EXCEPT ![i].state = state]
Closed(p) == [p EXCEPT !.state = "closed", !.age = 0]
Close(i) == posts' = [posts EXCEPT ![i] = Closed(@)]

\* The caller is still waiting for the answer to post i.
Awaits(c, i) == caller[c].state = "waiting" /\ caller[c].post = i

\* Mutant: the attempts are counted down.
FailedCountingDown(c) ==
    IF caller[c].tries < Retries[c]
    THEN [caller[c] EXCEPT !.state = "backoff", !.tries = @ - 1, !.timer = 0]
    ELSE [caller[c] EXCEPT !.state = "failed", !.timer = 0]

\* The attempt of c ends in an error: up_for_retry while retries remain.
Failed(c) ==
    IF caller[c].tries < Retries[c]
    THEN [caller[c] EXCEPT !.state = "backoff", !.tries = @ + 1, !.timer = 0]
    ELSE [caller[c] EXCEPT !.state = "failed", !.timer = 0]

-----------------------------------------------------------------------------
(* Airflow *)

\* requests.post of attempt number try
Submit(c, try) ==
    /\ posts' = Append(posts, [by |-> c, try |-> try, age |-> 0,
                               ran |-> FALSE, ok |-> FALSE, state |-> "arrived"])
    /\ caller' = [caller EXCEPT ![c] = [state |-> "waiting", tries |-> try, timer |-> 0,
                                        post |-> Len(posts) + 1]]
    /\ UNCHANGED <<lock, faults>>

\* A DAG run reaches the task.  max_active_runs=1: the last run is over, but
\* a job it posted may still be running.
Start(c) ==
    /\ Len(posts) < MaxPosts
    /\ caller[c].state \in {"idle", "succeeded", "failed"}
    /\ Submit(c, 0)

Retry(c) ==
    /\ caller[c].state = "backoff"
    /\ caller[c].timer = RetryDelay[c]
    /\ Submit(c, caller[c].tries)

\* The client gives up; nothing tells the gateway.
CallTimesOut(c) ==
    /\ caller[c].state = "waiting"
    /\ caller[c].timer = CallTimeout[c]
    /\ caller' = [caller EXCEPT ![c] = Failed(c)]
    /\ UNCHANGED <<posts, lock, faults>>

\* The Airflow worker dies while it waits.
TaskDies(c) ==
    /\ faults < MaxFaults
    /\ caller[c].state = "waiting"
    /\ caller' = [caller EXCEPT ![c] = Failed(c)]
    /\ faults' = faults + 1
    /\ UNCHANGED <<posts, lock>>

-----------------------------------------------------------------------------
(* do_POST *)

\* Mutant: the lock is not consulted.
AcceptAlways(i) ==
    /\ In(i, "arrived")
    /\ lock' = i
    /\ posts' = [posts EXCEPT ![i].state = "running", ![i].ran = TRUE]
    /\ UNCHANGED <<caller, faults>>

\* job_lock.acquire(blocking=False), then spark-submit.
Accept(i) ==
    /\ In(i, "arrived")
    /\ lock = Free
    /\ lock' = i
    /\ posts' = [posts EXCEPT ![i].state = "running", ![i].ran = TRUE]
    /\ UNCHANGED <<caller, faults>>

\* 409 gateway_busy; Airflow may retry.
Refuse(i) ==
    /\ In(i, "arrived")
    /\ lock # Free
    /\ Close(i)
    /\ LET c == posts[i].by
       IN  caller' = [caller EXCEPT ![c] = IF Awaits(c, i) THEN Failed(c) ELSE @]
    /\ UNCHANGED <<lock, faults>>

\* The subprocess returns, with return code 0 or another one.
JobEnds(i, ok) ==
    /\ In(i, "running")
    /\ posts' = [posts EXCEPT ![i].state = "ended", ![i].ok = ok]
    /\ UNCHANGED <<lock, caller, faults>>

\* Mutant: no timeout=JOB_TIMEOUT_SECONDS.
NeverOverdue(i) == FALSE
Overdue(i) == posts[i].age = JobTimeout

\* subprocess.TimeoutExpired: the driver is killed.
JobTimesOut(i) ==
    /\ In(i, "running")
    /\ Overdue(i)
    /\ Becomes(i, "ended")
    /\ UNCHANGED <<lock, caller, faults>>

\* Mutant: whatever the job returned.
AnsweredAlwaysOk(c, i) ==
    IF Awaits(c, i) THEN [caller[c] EXCEPT !.state = "succeeded", !.timer = 0] ELSE caller[c]

\* What the answer to post i makes of its caller, if that still listens.
Answered(c, i) ==
    CASE ~Awaits(c, i)               -> caller[c]
      [] Awaits(c, i) /\ posts[i].ok -> [caller[c] EXCEPT !.state = "succeeded", !.timer = 0]
      [] OTHER                       -> Failed(c)

\* send_json: 200, 502 or 504, or a broken pipe.
Answer(i) ==
    /\ In(i, "ended")
    /\ Becomes(i, "answered")
    /\ caller' = [caller EXCEPT ![posts[i].by] = Answered(posts[i].by, i)]
    /\ UNCHANGED <<lock, faults>>

\* Mutant: the lock is only released after a successful answer.
ReleaseOnSuccess(i) ==
    /\ In(i, "answered")
    /\ lock' = IF posts[i].ok THEN Free ELSE lock
    /\ Close(i)
    /\ UNCHANGED <<caller, faults>>

\* finally: job_lock.release(), also after the broken pipe.
Release(i) ==
    /\ In(i, "answered")
    /\ lock' = Free
    /\ Close(i)
    /\ UNCHANGED <<caller, faults>>

\* The container restarts: drivers, handlers and the lock are gone, waiting
\* clients lose their connection.
GatewayRestarts ==
    /\ faults < MaxFaults
    /\ \E i \in 1..Len(posts): ~In(i, "closed")
    /\ posts' = [i \in 1..Len(posts) |-> Closed(posts[i])]
    /\ lock' = Free
    /\ caller' = [c \in Callers |->
                    IF caller[c].state = "waiting" THEN Failed(c) ELSE caller[c]]
    /\ faults' = faults + 1

-----------------------------------------------------------------------------
(* Time *)

\* Five minutes pass.  Handlers and clients act at once when they can, so time
\* waits for requests in hand, for deadlines and for due retries.
Tick ==
    /\ \A i \in 1..Len(posts):
         /\ In(i, "running") \/ In(i, "closed")
         /\ In(i, "running") => ~Overdue(i)
    /\ \A c \in Callers:
         /\ caller[c].state = "waiting" => caller[c].timer < CallTimeout[c]
         /\ caller[c].state = "backoff" => caller[c].timer < RetryDelay[c]
    /\ \/ \E i \in 1..Len(posts): In(i, "running")
       \/ \E c \in Callers: caller[c].state \in {"waiting", "backoff"}
    /\ posts' = [i \in 1..Len(posts) |->
                   IF In(i, "running") THEN [posts[i] EXCEPT !.age = @ + 1] ELSE posts[i]]
    /\ caller' = [c \in Callers |->
                    IF caller[c].state \in {"waiting", "backoff"}
                    THEN [caller[c] EXCEPT !.timer = @ + 1] ELSE caller[c]]
    /\ UNCHANGED <<lock, faults>>

HandlerStep(i) ==
    \/ Accept(i)
    \/ Refuse(i)
    \/ JobTimesOut(i)
    \/ Answer(i)
    \/ Release(i)

Next ==
    \/ \E c \in Callers: Start(c) \/ Retry(c) \/ CallTimesOut(c) \/ TaskDies(c)
    \/ \E i \in 1..Len(posts): HandlerStep(i) \/ \E ok \in BOOLEAN: JobEnds(i, ok)
    \/ GatewayRestarts
    \/ Tick

Spec == Init /\ [][Next]_vars

\* Time passes and threads run; Airflow retries what is due.  A job need not
\* end by itself, and nobody has to start a run.
FairSpec ==
    /\ Spec
    /\ WF_vars(Tick)
    /\ WF_vars(\E i \in 1..Len(posts): HandlerStep(i))
    /\ \A c \in Callers: WF_vars(CallTimesOut(c) \/ Retry(c))

-----------------------------------------------------------------------------
(* Properties *)

\* At most one driver runs ("the single lock intentionally serializes
\* memory-heavy finite jobs"), and the lock is held exactly while a handler
\* that will still release it is at work: it leaks on no path.
LockMatchesHandler ==
    \A i \in 1..Len(posts):
        posts[i].state \in {"running", "ended", "answered"} <=> lock = i

\* Airflow marks the task green only for a job that this very attempt posted,
\* ran to the end and saw succeed; a late answer to an abandoned attempt
\* counts for nothing.
SuccessIsOwn ==
    \A c \in Callers: caller[c].state = "succeeded" =>
        LET p == posts[caller[c].post]
        IN  p.by = c /\ p.ran /\ p.ok /\ p.try = caller[c].tries

\* Without crashes a retry never runs into the job of its own earlier attempt:
\* the client waits at least as long as the gateway lets a job run.
OwnJobIsOver ==
    \A c \in Callers, i \in 1..Len(posts):
        /\ faults = 0
        /\ caller[c].state = "backoff"
        /\ caller[c].timer = RetryDelay[c]
        /\ posts[i].by = c
        => In(i, "closed")

\* Whoever holds the gateway gives it back, even if its client is long gone.
LockIsReleased == lock # Free ~> lock = Free
=============================================================================
