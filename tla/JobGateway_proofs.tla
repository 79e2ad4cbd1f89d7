------------------------- MODULE JobGateway_proofs -------------------------
(***************************************************************************)
(* Proofs about JobGateway, for any callers, any timeouts and delays and   *)
(* any number of posts and crashes.                                        *)
(***************************************************************************)
EXTENDS JobGateway, SequenceTheorems, TLAPS

\* The lock names a handler that exists.
LockIsAPost == lock \in 0..Len(posts)

LockInv == LockIsAPost /\ LockMatchesHandler

\* What a caller was told, or waits for, is about the post it names.
OkHasRun == \A i \in 1..Len(posts):
    /\ posts[i].state \in {"running", "ended", "answered"} => posts[i].ran
    /\ posts[i].ok => posts[i].ran /\ posts[i].state \notin {"arrived", "running"}

NamesItsPost == \A c \in Callers: caller[c].state \in {"waiting", "succeeded"} =>
    LET i == caller[c].post
    IN  /\ i \in 1..Len(posts)
        /\ posts[i].by = c /\ posts[i].try = caller[c].tries
        /\ caller[c].state = "succeeded" => posts[i].ok

SuccessInv == OkHasRun /\ NamesItsPost

\* While nothing has crashed, a job that is not overdue is still waited for,
\* and its client has waited exactly as long as it has run.
InTime(i) ==
    LET c == posts[i].by
    IN  /\ posts[i].age <= JobTimeout
        /\ In(i, "arrived") => posts[i].age = 0 /\ Awaits(c, i) /\ caller[c].timer = 0
        /\ In(i, "running") => Overdue(i) \/ (Awaits(c, i) /\ caller[c].timer = posts[i].age)
        /\ caller[c].state = "backoff" /\ caller[c].timer > 0 => In(i, "closed")

TimeInv == faults = 0 => \A i \in 1..Len(posts): InTime(i)

-----------------------------------------------------------------------------

LEMMA PostsAreAFunction ==
    ASSUME TypeOK
    PROVE  /\ posts \in [1..Len(posts) -> Post] /\ Len(posts) \in Nat
           /\ \A i \in 1..Len(posts): posts[i] \in Post /\ posts[i].by \in Callers
  <1>1. posts \in [1..Len(posts) -> Post] /\ Len(posts) \in Nat
    BY LenProperties DEF TypeOK
  <1> QED
    BY <1>1 DEF Post

\* finally: the connection is closed, and the age no longer matters.
LEMMA ClosedShape ==
    ASSUME NEW p \in Post
    PROVE  /\ Closed(p) \in Post
           /\ Closed(p).state = "closed" /\ Closed(p).age = 0
           /\ Closed(p).by = p.by /\ Closed(p).try = p.try
           /\ Closed(p).ran = p.ran /\ Closed(p).ok = p.ok
  BY DEF Closed, Post

LEMMA BecomesShape ==
    ASSUME NEW p \in Post,
           NEW state \in {"arrived", "running", "ended", "answered", "closed"}
    PROVE  /\ [p EXCEPT !.state = state] \in Post
           /\ [p EXCEPT !.state = state].by = p.by
           /\ [p EXCEPT !.state = state].try = p.try
           /\ [p EXCEPT !.state = state].state = state
           /\ [p EXCEPT !.state = state].age = p.age
           /\ [p EXCEPT !.state = state].ran = p.ran
           /\ [p EXCEPT !.state = state].ok = p.ok
  BY DEF Post

LEMMA OlderShape ==
    ASSUME NEW p \in Post
    PROVE  /\ [p EXCEPT !.age = @ + 1] \in Post
           /\ [p EXCEPT !.age = @ + 1].by = p.by
           /\ [p EXCEPT !.age = @ + 1].try = p.try
           /\ [p EXCEPT !.age = @ + 1].state = p.state
           /\ [p EXCEPT !.age = @ + 1].age = p.age + 1
           /\ [p EXCEPT !.age = @ + 1].ran = p.ran
           /\ [p EXCEPT !.age = @ + 1].ok = p.ok
  BY DEF Post

LEMMA FunctionIsASequence ==
    ASSUME NEW S, NEW n \in Nat, NEW f \in [1..n -> S]
    PROVE  f \in Seq(S) /\ Len(f) = n
  OBVIOUS

LEMMA FailedTyped ==
    ASSUME TypeOK, NEW c \in Callers
    PROVE  /\ Failed(c) \in Caller
           /\ Failed(c).state \in {"backoff", "failed"} /\ Failed(c).timer = 0
  <1>1. caller[c] \in Caller /\ Retries[c] \in Nat
    BY CallersType DEF TypeOK
  <1>2. caller[c].tries + 1 \in Nat
    BY <1>1 DEF Caller
  <1>3. CASE caller[c].tries < Retries[c]
    BY <1>1, <1>2, <1>3 DEF Failed, Caller
  <1>4. CASE ~(caller[c].tries < Retries[c])
    BY <1>1, <1>4 DEF Failed, Caller
  <1> QED
    BY <1>3, <1>4

\* Submit appends a post and touches nothing else of the handlers.
LEMMA SubmitShape ==
    ASSUME TypeOK, NEW c \in Callers, NEW try \in Nat, Submit(c, try)
    PROVE  /\ posts' \in Seq(Post) /\ Len(posts') = Len(posts) + 1
           /\ \A i \in 1..Len(posts): posts'[i] = posts[i]
           /\ LET p == posts'[Len(posts) + 1]
              IN  /\ p.by = c /\ p.try = try /\ p.age = 0 /\ p.ran = FALSE /\ p.ok = FALSE
                  /\ p.state = "arrived"
           /\ caller' \in [Callers -> Caller]
           /\ caller'[c].state = "waiting" /\ caller'[c].tries = try
           /\ caller'[c].timer = 0 /\ caller'[c].post = Len(posts) + 1
           /\ \A d \in Callers \ {c}: caller'[d] = caller[d]
  <1> DEFINE p == [by |-> c, try |-> try, age |-> 0, ran |-> FALSE, ok |-> FALSE,
                   state |-> "arrived"]
  <1>1. p \in Post
    BY DEF Post
  <1>2. posts' = Append(posts, p) /\ posts \in Seq(Post)
    BY DEF Submit, TypeOK
  <1>3. /\ posts' \in Seq(Post) /\ Len(posts') = Len(posts) + 1
        /\ \A i \in 1..Len(posts): posts'[i] = posts[i]
        /\ posts'[Len(posts) + 1] = p
    BY <1>1, <1>2, AppendProperties
  <1>4. [state |-> "waiting", tries |-> try, timer |-> 0, post |-> Len(posts) + 1] \in Caller
    BY PostsAreAFunction DEF Caller
  <1> QED
    BY <1>3, <1>4 DEF Submit, TypeOK

\* A handler changes only its own post, and of that only these fields.
Handles(i) ==
    /\ Len(posts') = Len(posts)
    /\ \A k \in 1..Len(posts) \ {i}: posts'[k] = posts[k]
    /\ posts'[i].by = posts[i].by /\ posts'[i].try = posts[i].try

LEMMA HandlerShape ==
    ASSUME TypeOK, NEW i \in 1..Len(posts),
           HandlerStep(i) \/ \E ok \in BOOLEAN: JobEnds(i, ok)
    PROVE  posts' \in Seq(Post) /\ Handles(i)
  <1> USE PostsAreAFunction
  <1> SUFFICES /\ posts' \in [1..Len(posts) -> Post]
               /\ \A k \in 1..Len(posts) \ {i}: posts'[k] = posts[k]
               /\ posts'[i].by = posts[i].by /\ posts'[i].try = posts[i].try
    BY FunctionIsASequence DEF Handles
  <1>1. CASE Accept(i)
    BY <1>1 DEF Accept, Post
  <1>2. CASE Refuse(i) \/ Release(i)
    BY <1>2, ClosedShape DEF Refuse, Release, Close
  <1>3. CASE JobTimesOut(i) \/ Answer(i)
    <2> PICK state \in {"ended", "answered"}: Becomes(i, state)
      BY <1>3 DEF JobTimesOut, Answer
    <2> DEFINE p == [posts[i] EXCEPT !.state = state]
    <2>1. p \in Post /\ p.by = posts[i].by /\ p.try = posts[i].try
      <3>1. posts[i] \in Post /\ state \in {"arrived", "running", "ended", "answered", "closed"}
        OBVIOUS
      <3> QED
        BY <3>1, BecomesShape, Zenon
    <2>2. posts' = [posts EXCEPT ![i] = p]
      BY DEF Becomes
    <2> HIDE DEF p
    <2> QED
      BY <2>1, <2>2
  <1>4. ASSUME NEW ok \in BOOLEAN, JobEnds(i, ok)
        PROVE  /\ posts' \in [1..Len(posts) -> Post]
               /\ \A k \in 1..Len(posts) \ {i}: posts'[k] = posts[k]
               /\ posts'[i].by = posts[i].by /\ posts'[i].try = posts[i].try
    BY <1>4, ZenonT(60) DEF JobEnds, Post
  <1> QED
    BY <1>1, <1>2, <1>3, <1>4 DEF HandlerStep

LEMMA AnsweredTyped ==
    ASSUME TypeOK, NEW i \in 1..Len(posts), NEW c \in Callers
    PROVE  Answered(c, i) \in Caller
  <1>1. caller[c] \in Caller
    BY DEF TypeOK
  <1>2. [caller[c] EXCEPT !.state = "succeeded", !.timer = 0] \in Caller
    BY <1>1 DEF Caller
  <1> QED
    BY <1>1, <1>2, FailedTyped DEF Answered

LEMMA StepTyped == ASSUME TypeOK, [Next]_vars PROVE TypeOK'
  <1> USE DEF TypeOK
  <1>1. ASSUME NEW c \in Callers, NEW try \in Nat, Submit(c, try) PROVE TypeOK'
    BY <1>1, SubmitShape DEF Submit
  <1>2. ASSUME NEW c \in Callers, Start(c) \/ Retry(c) PROVE TypeOK'
    <2>1. caller[c].tries \in Nat
      BY DEF Caller
    <2> QED
      BY <1>1, <1>2, <2>1 DEF Start, Retry
  <1>3. ASSUME NEW c \in Callers, CallTimesOut(c) \/ TaskDies(c) PROVE TypeOK'
    <2>1. Failed(c) \in Caller
      BY FailedTyped
    <2> QED
      BY <1>3, <2>1 DEF CallTimesOut, TaskDies
  <1>4. ASSUME NEW i \in 1..Len(posts), HandlerStep(i) PROVE TypeOK'
    <2>1. posts' \in Seq(Post) /\ posts[i].by \in Callers
      BY <1>4, HandlerShape, PostsAreAFunction
    <2>2. lock' \in Nat /\ faults' \in Nat
      BY <1>4 DEF HandlerStep, Accept, Refuse, JobTimesOut, Answer, Release, Free
    <2>3. caller' \in [Callers -> Caller]
      <3>1. Failed(posts[i].by) \in Caller /\ Answered(posts[i].by, i) \in Caller
        BY <2>1, FailedTyped, AnsweredTyped
      <3> QED
        BY <1>4, <2>1, <3>1 DEF HandlerStep, Accept, Refuse, JobTimesOut, Answer, Release
    <2> QED
      BY <2>1, <2>2, <2>3
  <1>5. ASSUME NEW i \in 1..Len(posts), NEW ok \in BOOLEAN, JobEnds(i, ok) PROVE TypeOK'
    BY <1>5, HandlerShape DEF JobEnds
  <1>6. CASE GatewayRestarts
    <2>1. \A i \in 1..Len(posts): Closed(posts[i]) \in Post
      BY PostsAreAFunction, ClosedShape
    <2>4. posts' \in [1..Len(posts) -> Post]
      BY <1>6, <2>1, Zenon DEF GatewayRestarts
    <2>2. posts' \in Seq(Post)
      BY <2>4, FunctionIsASequence, PostsAreAFunction
    <2>3. caller' \in [Callers -> Caller]
      BY <1>6, FailedTyped DEF GatewayRestarts
    <2> QED
      BY <1>6, <2>2, <2>3 DEF GatewayRestarts, Free
  <1>7. CASE Tick
    <2>1. \A i \in 1..Len(posts): [posts[i] EXCEPT !.age = @ + 1] \in Post
      BY PostsAreAFunction, OlderShape, Zenon
    <2>2. posts' \in [1..Len(posts) -> Post]
      <3>1. posts' = [i \in 1..Len(posts) |->
                        IF posts[i].state = "running" THEN [posts[i] EXCEPT !.age = @ + 1]
                        ELSE posts[i]]
        BY <1>7 DEF Tick, In
      <3> QED
        BY <2>1, <3>1, PostsAreAFunction, Zenon
    <2>3. posts' \in Seq(Post)
      BY <2>2, FunctionIsASequence, PostsAreAFunction
    <2>4. \A c \in Callers: [caller[c] EXCEPT !.timer = @ + 1] \in Caller
      BY SMTT(30) DEF Caller
    <2>5. caller' \in [Callers -> Caller]
      BY <1>7, <2>4 DEF Tick
    <2> QED
      BY <1>7, <2>3, <2>5 DEF Tick
  <1>8. CASE UNCHANGED vars
    BY <1>8 DEF vars
  <1> QED
    BY <1>2, <1>3, <1>4, <1>5, <1>6, <1>7, <1>8 DEF Next

\* Every variable keeps its type in every behaviour.
\* (job_gateway.py:60-109; the retry counters of the two tasks)
THEOREM TypeCorrect == Spec => []TypeOK
  <1>1. Init => TypeOK
    BY DEF Init, TypeOK, Caller, Free
  <1>2. TypeOK /\ [Next]_vars => TypeOK'
    BY StepTyped
  <1> QED
    BY <1>1, <1>2, PTL DEF Spec

-----------------------------------------------------------------------------
(* What each step makes of the posts *)

\* The fields of post i after a step of its handler.
LEMMA AfterHandler ==
    ASSUME TypeOK, NEW i \in 1..Len(posts)
    PROVE  /\ Accept(i) => /\ posts'[i].state = "running" /\ posts'[i].ran
                           /\ posts'[i].ok = posts[i].ok /\ posts'[i].age = posts[i].age
           /\ Refuse(i) \/ Release(i) =>
                           /\ posts'[i].state = "closed" /\ posts'[i].age = 0
                           /\ posts'[i].ran = posts[i].ran /\ posts'[i].ok = posts[i].ok
           /\ JobTimesOut(i) =>
                           /\ posts'[i].state = "ended" /\ posts'[i].age = posts[i].age
                           /\ posts'[i].ran = posts[i].ran /\ posts'[i].ok = posts[i].ok
           /\ Answer(i) => /\ posts'[i].state = "answered" /\ posts'[i].age = posts[i].age
                           /\ posts'[i].ran = posts[i].ran /\ posts'[i].ok = posts[i].ok
           /\ \A ok \in BOOLEAN: JobEnds(i, ok) =>
                           /\ posts'[i].state = "ended" /\ posts'[i].age = posts[i].age
                           /\ posts'[i].ran = posts[i].ran /\ posts'[i].ok = ok
  <1>1. posts \in [1..Len(posts) -> Post] /\ posts[i] \in Post
    BY PostsAreAFunction
  <1>2. ASSUME Accept(i)
        PROVE  /\ posts'[i].state = "running" /\ posts'[i].ran
               /\ posts'[i].ok = posts[i].ok /\ posts'[i].age = posts[i].age
    BY <1>1, <1>2 DEF Accept, Post
  <1>3. ASSUME Refuse(i) \/ Release(i)
        PROVE  /\ posts'[i].state = "closed" /\ posts'[i].age = 0
               /\ posts'[i].ran = posts[i].ran /\ posts'[i].ok = posts[i].ok
    <2>1. posts'[i] = Closed(posts[i])
      BY <1>1, <1>3 DEF Refuse, Release, Close
    <2> QED
      BY <1>1, <2>1, ClosedShape
  <1>4. ASSUME NEW state \in {"ended", "answered"}, Becomes(i, state)
        PROVE  /\ posts'[i].state = state /\ posts'[i].age = posts[i].age
               /\ posts'[i].ran = posts[i].ran /\ posts'[i].ok = posts[i].ok
    BY <1>1, <1>4 DEF Becomes, Post
  <1>5. ASSUME NEW ok \in BOOLEAN, JobEnds(i, ok)
        PROVE  /\ posts'[i].state = "ended" /\ posts'[i].age = posts[i].age
               /\ posts'[i].ran = posts[i].ran /\ posts'[i].ok = ok
    BY <1>1, <1>5 DEF JobEnds, Post
  <1> QED
    BY <1>2, <1>3, <1>4, <1>5 DEF JobTimesOut, Answer

LEMMA AfterRestart ==
    ASSUME TypeOK, GatewayRestarts
    PROVE  /\ Len(posts') = Len(posts)
           /\ \A i \in 1..Len(posts):
                /\ posts'[i].by = posts[i].by /\ posts'[i].try = posts[i].try
                /\ posts'[i].state = "closed" /\ posts'[i].age = 0
                /\ posts'[i].ran = posts[i].ran /\ posts'[i].ok = posts[i].ok
  <1>1. posts' = [i \in 1..Len(posts) |-> Closed(posts[i])] /\ Len(posts) \in Nat
    BY PostsAreAFunction DEF GatewayRestarts
  <1>2. posts' \in [1..Len(posts) -> Post]
    BY <1>1, PostsAreAFunction, ClosedShape, Zenon
  <1>3. Len(posts') = Len(posts)
    BY <1>1, <1>2, FunctionIsASequence, Zenon
  <1>4. \A i \in 1..Len(posts): posts[i] \in Post /\ posts'[i] = Closed(posts[i])
    BY <1>1, PostsAreAFunction
  <1> QED
    BY <1>3, <1>4, ClosedShape

LEMMA AfterTick ==
    ASSUME TypeOK, Tick
    PROVE  /\ Len(posts') = Len(posts)
           /\ \A i \in 1..Len(posts):
                /\ posts'[i].by = posts[i].by /\ posts'[i].try = posts[i].try
                /\ posts'[i].state = posts[i].state
                /\ posts'[i].ran = posts[i].ran /\ posts'[i].ok = posts[i].ok
                /\ posts'[i].age = IF In(i, "running") THEN posts[i].age + 1
                                   ELSE posts[i].age
  <1>1. /\ Len(posts) \in Nat
        /\ posts' = [i \in 1..Len(posts) |->
                       IF In(i, "running") THEN [posts[i] EXCEPT !.age = @ + 1]
                       ELSE posts[i]]
    BY PostsAreAFunction DEF Tick
  <1>2. \A i \in 1..Len(posts): [posts[i] EXCEPT !.age = @ + 1] \in Post
    BY PostsAreAFunction, OlderShape, Zenon
  <1>3. posts' \in [1..Len(posts) -> Post]
    BY <1>1, <1>2, PostsAreAFunction, Zenon
  <1>4. Len(posts') = Len(posts)
    BY <1>1, <1>3, FunctionIsASequence, Zenon
  <1>5. ASSUME NEW i \in 1..Len(posts)
        PROVE  /\ posts'[i].by = posts[i].by /\ posts'[i].try = posts[i].try
               /\ posts'[i].state = posts[i].state
               /\ posts'[i].ran = posts[i].ran /\ posts'[i].ok = posts[i].ok
               /\ posts'[i].age = IF In(i, "running") THEN posts[i].age + 1
                                  ELSE posts[i].age
    <2> DEFINE p == posts[i]
    <2>1. posts'[i] = IF In(i, "running") THEN [p EXCEPT !.age = @ + 1] ELSE p
      BY <1>1
    <2>2. p \in Post
      BY PostsAreAFunction
    <2> HIDE DEF p
    <2>3. CASE In(i, "running")
      <3>1. posts'[i] = [p EXCEPT !.age = @ + 1]
        BY <2>1, <2>3
      <3> QED
        BY <2>2, <2>3, <3>1, OlderShape DEF p
    <2>4. CASE ~In(i, "running")
      BY <2>1, <2>4 DEF p
    <2> QED
      BY <2>3, <2>4
  <1> QED
    BY <1>4, <1>5

-----------------------------------------------------------------------------
(* The lock *)

LEMMA StepKeepsLock == ASSUME TypeOK, LockInv, [Next]_vars PROVE LockInv'
  <1> USE DEF LockInv, LockIsAPost, LockMatchesHandler, In
  <1>1. Len(posts) \in Nat
    BY PostsAreAFunction
  <1>2. ASSUME NEW c \in Callers, Start(c) \/ Retry(c) PROVE LockInv'
    <2>1. PICK try \in Nat: Submit(c, try)
      BY <1>2 DEF Start, Retry, TypeOK, Caller
    <2>2. lock' = lock
      BY <2>1 DEF Submit
    <2>3. /\ Len(posts') = Len(posts) + 1
          /\ \A i \in 1..Len(posts): posts'[i].state = posts[i].state
          /\ posts'[Len(posts) + 1].state = "arrived"
      BY <2>1, SubmitShape
    <2>4. LockIsAPost'
      BY <1>1, <2>2, <2>3
    <2>5. ASSUME NEW i \in 1..Len(posts')
          PROVE  posts'[i].state \in {"running", "ended", "answered"} <=> lock' = i
      <3>1. CASE i \in 1..Len(posts)
        BY <2>2, <2>3, <3>1
      <3>2. CASE i = Len(posts) + 1
        BY <1>1, <2>2, <2>3, <3>2
      <3> QED
        BY <1>1, <2>3, <3>1, <3>2
    <2> QED
      BY <2>4, <2>5
  <1>3. ASSUME NEW c \in Callers, CallTimesOut(c) \/ TaskDies(c) PROVE LockInv'
    BY <1>3 DEF CallTimesOut, TaskDies
  <1>4. ASSUME NEW i \in 1..Len(posts), HandlerStep(i) PROVE LockInv'
    <2>1. Handles(i)
      BY <1>4, HandlerShape
    <2>2. CASE Accept(i)
      <3>1. In(i, "arrived") /\ lock = Free /\ lock' = i
        BY <2>2 DEF Accept
      <3> QED
        BY <1>1, <2>1, <2>2, <3>1, AfterHandler DEF Handles, Free
    <2>3. CASE Refuse(i)
      <3>1. In(i, "arrived") /\ lock' = lock
        BY <2>3 DEF Refuse
      <3> QED
        BY <1>1, <2>1, <2>3, <3>1, AfterHandler DEF Handles
    <2>4. CASE JobTimesOut(i)
      <3>1. In(i, "running") /\ lock' = lock
        BY <2>4 DEF JobTimesOut
      <3> QED
        BY <1>1, <2>1, <2>4, <3>1, AfterHandler DEF Handles
    <2>5. CASE Answer(i)
      <3>1. In(i, "ended") /\ lock' = lock
        BY <2>5 DEF Answer
      <3> QED
        BY <1>1, <2>1, <2>5, <3>1, AfterHandler DEF Handles
    <2>6. CASE Release(i)
      <3>1. In(i, "answered") /\ lock' = Free
        BY <2>6 DEF Release
      <3> QED
        BY <1>1, <2>1, <2>6, <3>1, AfterHandler DEF Handles, Free
    <2> QED
      BY <1>4, <2>2, <2>3, <2>4, <2>5, <2>6 DEF HandlerStep
  <1>5. ASSUME NEW i \in 1..Len(posts), NEW ok \in BOOLEAN, JobEnds(i, ok) PROVE LockInv'
    <2>1. Handles(i) /\ In(i, "running") /\ lock' = lock
      BY <1>5, HandlerShape DEF JobEnds
    <2> QED
      BY <1>1, <1>5, <2>1, AfterHandler DEF Handles
  <1>6. CASE GatewayRestarts
    <2>1. \A i \in 1..Len(posts): posts'[i].state = "closed"
      BY <1>6, AfterRestart
    <2>2. lock' = Free /\ Len(posts') = Len(posts)
      BY <1>6, AfterRestart DEF GatewayRestarts
    <2> QED
      BY <1>1, <2>1, <2>2 DEF Free
  <1>7. CASE Tick
    <2>1. \A i \in 1..Len(posts): posts'[i].state = posts[i].state
      BY <1>7, AfterTick
    <2>2. lock' = lock /\ Len(posts') = Len(posts)
      BY <1>7, AfterTick DEF Tick
    <2> QED
      BY <1>1, <2>1, <2>2
  <1>8. CASE UNCHANGED vars
    BY <1>8 DEF vars
  <1> QED
    BY <1>2, <1>3, <1>4, <1>5, <1>6, <1>7, <1>8 DEF Next

\* One lock, one driver: in every behaviour the lock is held exactly while a
\* handler that will release it is at work, whatever clients time out, retry
\* or die, and across restarts of the gateway.
\* (job_gateway.py:73-109, the finally around spark-submit)
THEOREM LockIsExact == Spec => []LockMatchesHandler
  <1>1. Init => LockInv
    BY DEF Init, LockInv, LockIsAPost, LockMatchesHandler, Free
  <1>2. TypeOK /\ LockInv /\ [Next]_vars => LockInv'
    BY StepKeepsLock
  <1>3. LockInv => LockMatchesHandler
    BY DEF LockInv
  <1> QED
    BY <1>1, <1>2, <1>3, TypeCorrect, PTL DEF Spec

-----------------------------------------------------------------------------
(* What each step makes of the callers *)

LEMMA AnsweredShape ==
    ASSUME TypeOK, NEW c \in Callers, NEW i \in 1..Len(posts)
    PROVE  LET a == Answered(c, i)
           IN  \/ ~Awaits(c, i) /\ a = caller[c]
               \/ Awaits(c, i) /\ a.state \in {"backoff", "failed"} /\ a.timer = 0
               \/ /\ Awaits(c, i) /\ posts[i].ok /\ a.state = "succeeded"
                  /\ a.post = caller[c].post /\ a.tries = caller[c].tries
  <1>1. caller[c] \in Caller
    BY DEF TypeOK
  <1>2. CASE ~Awaits(c, i)
    BY <1>2 DEF Answered
  <1>3. CASE Awaits(c, i) /\ posts[i].ok
    <2>1. Answered(c, i) = [caller[c] EXCEPT !.state = "succeeded", !.timer = 0]
      BY <1>3 DEF Answered
    <2> QED
      BY <1>1, <1>3, <2>1 DEF Caller
  <1>4. CASE Awaits(c, i) /\ ~posts[i].ok
    <2>1. Answered(c, i) = Failed(c)
      BY <1>4 DEF Answered
    <2> QED
      BY <1>4, <2>1, FailedTyped
  <1> QED
    BY <1>2, <1>3, <1>4

LEMMA CallersAfterTick ==
    ASSUME TypeOK, Tick, NEW c \in Callers
    PROVE  /\ caller'[c].state = caller[c].state /\ caller'[c].tries = caller[c].tries
           /\ caller'[c].post = caller[c].post
           /\ caller'[c].timer = IF caller[c].state \in {"waiting", "backoff"}
                                 THEN caller[c].timer + 1 ELSE caller[c].timer
  <1> DEFINE r == caller[c]
  <1>1. r \in Caller
    BY DEF TypeOK
  <1>2. caller'[c] = IF r.state \in {"waiting", "backoff"}
                     THEN [r EXCEPT !.timer = @ + 1] ELSE r
    BY DEF Tick
  <1> HIDE DEF r
  <1>3. /\ caller'[c].state = r.state /\ caller'[c].tries = r.tries
        /\ caller'[c].post = r.post
        /\ caller'[c].timer = IF r.state \in {"waiting", "backoff"} THEN r.timer + 1
                              ELSE r.timer
    BY <1>1, <1>2 DEF Caller
  <1> QED
    BY <1>3 DEF r

-----------------------------------------------------------------------------
(* Whose success it is *)

\* A handler is done with its post before it may say ok, so a step of another
\* handler, or one after the answer, takes no success back.
LEMMA HandlerKeepsOk ==
    ASSUME TypeOK, OkHasRun, NEW i \in 1..Len(posts),
           HandlerStep(i) \/ \E ok \in BOOLEAN: JobEnds(i, ok)
    PROVE  /\ OkHasRun'
           /\ \A k \in 1..Len(posts): posts[k].ok => posts'[k].ok
  <1> USE DEF OkHasRun, In
  <1>1. Handles(i)
    BY HandlerShape
  <1>2. SUFFICES /\ posts'[i].state \in {"running", "ended", "answered"} => posts'[i].ran
                 /\ posts'[i].ok => /\ posts'[i].ran
                                    /\ posts'[i].state \notin {"arrived", "running"}
                 /\ posts[i].ok => posts'[i].ok
    BY <1>1 DEF Handles
  <1>3. CASE Accept(i)
    BY <1>3, AfterHandler DEF Accept
  <1>4. CASE Refuse(i) \/ Release(i)
    BY <1>4, AfterHandler DEF Refuse, Release
  <1>5. CASE JobTimesOut(i)
    BY <1>5, AfterHandler DEF JobTimesOut
  <1>6. CASE Answer(i)
    BY <1>6, AfterHandler DEF Answer
  <1>7. ASSUME NEW ok \in BOOLEAN, JobEnds(i, ok)
        PROVE  /\ posts'[i].state = "ended" /\ posts'[i].ran /\ ~posts[i].ok
    BY <1>7, AfterHandler DEF JobEnds
  <1> QED
    BY <1>3, <1>4, <1>5, <1>6, <1>7 DEF HandlerStep

\* A caller that is told nothing keeps the post it names.
LEMMA StillNamed ==
    ASSUME NamesItsPost, NEW c \in Callers,
           Len(posts) \in Nat, Len(posts') \in Nat, Len(posts) <= Len(posts'),
           \A i \in 1..Len(posts): /\ posts'[i].by = posts[i].by
                                   /\ posts'[i].try = posts[i].try
                                   /\ posts[i].ok => posts'[i].ok,
           caller'[c].state \in {"waiting", "succeeded"},
           caller[c].state \in {"waiting", "succeeded"},
           caller'[c].post = caller[c].post, caller'[c].tries = caller[c].tries,
           caller'[c].state = "succeeded" => posts[caller[c].post].ok
    PROVE  LET i == caller'[c].post
           IN  /\ i \in 1..Len(posts')
               /\ posts'[i].by = c /\ posts'[i].try = caller'[c].tries
               /\ caller'[c].state = "succeeded" => posts'[i].ok
  BY DEF NamesItsPost

LEMMA StepKeepsSuccess == ASSUME TypeOK, SuccessInv, [Next]_vars PROVE SuccessInv'
  <1> DEFINE Named(c) ==
               LET i == caller[c].post
               IN  /\ i \in 1..Len(posts)
                   /\ posts[i].by = c /\ posts[i].try = caller[c].tries
                   /\ caller[c].state = "succeeded" => posts[i].ok
             Told(c) == caller[c].state \in {"waiting", "succeeded"}
             Same(c) == /\ caller'[c].state = caller[c].state
                        /\ caller'[c].post = caller[c].post
                        /\ caller'[c].tries = caller[c].tries
             Kept == /\ Len(posts') \in Nat /\ Len(posts) <= Len(posts')
                     /\ \A i \in 1..Len(posts): /\ posts'[i].by = posts[i].by
                                                /\ posts'[i].try = posts[i].try
                                                /\ posts[i].ok => posts'[i].ok
  <1>1. Len(posts) \in Nat /\ OkHasRun /\ NamesItsPost
    BY PostsAreAFunction DEF SuccessInv
  <1>2. ASSUME Kept, NEW c \in Callers, Same(c), Told(c)' PROVE Named(c)'
    <2>1. Told(c) /\ (caller'[c].state = "succeeded" => posts[caller[c].post].ok)
      BY <1>1, <1>2 DEF NamesItsPost
    <2> QED
      BY <1>1, <1>2, <2>1, StillNamed
  <1>3. ASSUME \A c \in Callers: Told(c)' => Named(c)' PROVE NamesItsPost'
    BY <1>3 DEF NamesItsPost
  <1> HIDE DEF Named
  <1>4. ASSUME NEW d \in Callers, Start(d) \/ Retry(d) PROVE SuccessInv'
    <2>1. PICK try \in Nat: Submit(d, try)
      BY <1>4 DEF Start, Retry, TypeOK, Caller
    <2>2. Kept
      <3>1. /\ Len(posts') = Len(posts) + 1
            /\ \A i \in 1..Len(posts): posts'[i] = posts[i]
        BY <2>1, SubmitShape
      <3>2. Len(posts') \in Nat /\ Len(posts) <= Len(posts')
        BY <1>1, <3>1
      <3> QED
        BY <3>1, <3>2
    <2>3. OkHasRun'
      <3> SUFFICES ASSUME NEW i \in 1..Len(posts')
                   PROVE  /\ posts'[i].state \in {"running", "ended", "answered"} => posts'[i].ran
                          /\ posts'[i].ok => /\ posts'[i].ran
                                             /\ posts'[i].state \notin {"arrived", "running"}
        BY DEF OkHasRun
      <3>1. CASE i \in 1..Len(posts)
        BY <1>1, <2>1, <3>1, SubmitShape, ZenonT(60) DEF OkHasRun
      <3>2. CASE i = Len(posts) + 1
        BY <2>1, <3>2, SubmitShape
      <3>3. Len(posts') = Len(posts) + 1
        BY <2>1, SubmitShape
      <3> QED
        BY <1>1, <3>1, <3>2, <3>3
    <2>4. ASSUME NEW c \in Callers, c # d, Told(c)' PROVE Named(c)'
      <3>1. caller'[c] = caller[c]
        BY <2>1, <2>4, SubmitShape
      <3> QED
        BY <1>2, <2>2, <2>4, <3>1
    <2>5. Named(d)'
      <3>1. /\ Len(posts') = Len(posts) + 1
            /\ caller'[d].post = Len(posts) + 1 /\ caller'[d].tries = try
            /\ caller'[d].state = "waiting"
            /\ posts'[Len(posts) + 1].by = d /\ posts'[Len(posts) + 1].try = try
        BY <2>1, SubmitShape
      <3> QED
        BY <1>1, <3>1 DEF Named
    <2> QED
      BY <1>3, <2>3, <2>4, <2>5 DEF SuccessInv
  <1>5. ASSUME NEW d \in Callers, CallTimesOut(d) \/ TaskDies(d) PROVE SuccessInv'
    <2>1. posts' = posts /\ caller' = [caller EXCEPT ![d] = Failed(d)]
      BY <1>5 DEF CallTimesOut, TaskDies
    <2>2. Kept /\ OkHasRun'
      BY <1>1, <2>1 DEF OkHasRun
    <2>3. ~Told(d)'
      BY <2>1, FailedTyped DEF TypeOK
    <2>4. \A c \in Callers \ {d}: Same(c)
      BY <2>1 DEF TypeOK
    <2> QED
      BY <1>2, <1>3, <2>2, <2>3, <2>4 DEF SuccessInv
  <1>6. ASSUME NEW i \in 1..Len(posts),
               HandlerStep(i) \/ \E ok \in BOOLEAN: JobEnds(i, ok)
        PROVE  SuccessInv'
    <2>1. Handles(i) /\ posts[i].by \in Callers
      BY <1>6, HandlerShape, PostsAreAFunction
    <2>2. Kept /\ OkHasRun'
      BY <1>1, <1>6, <2>1, HandlerKeepsOk DEF Handles
    <2>3. ASSUME NEW c \in Callers, Told(c)'
          PROVE  Same(c) \/ (Awaits(c, i) /\ posts[i].ok /\ caller'[c].state = "succeeded"
                             /\ caller'[c].post = caller[c].post
                             /\ caller'[c].tries = caller[c].tries)
      <3>1. CASE UNCHANGED caller
        BY <3>1
      <3>2. CASE Refuse(i)
        BY <2>3, <3>2, FailedTyped DEF Refuse, TypeOK
      <3>3. CASE Answer(i)
        <4>1. caller'[c] = IF c = posts[i].by THEN Answered(c, i) ELSE caller[c]
          BY <3>3 DEF Answer, TypeOK
        <4> QED
          BY <2>3, <4>1, AnsweredShape
      <3> QED
        BY <1>6, <3>1, <3>2, <3>3 DEF HandlerStep, Accept, JobTimesOut, Release, JobEnds
    <2>4. ASSUME NEW c \in Callers, Told(c)', ~Same(c) PROVE Named(c)'
      <3>1. /\ Awaits(c, i) /\ posts[i].ok
            /\ caller'[c].state \in {"waiting", "succeeded"}
            /\ caller'[c].post = caller[c].post /\ caller'[c].tries = caller[c].tries
        BY <2>3, <2>4
      <3>2. caller[c].state \in {"waiting", "succeeded"} /\ posts[caller[c].post].ok
        BY <3>1 DEF Awaits
      <3> QED
        BY <1>1, <2>2, <3>1, <3>2, StillNamed DEF Named
    <2> QED
      BY <1>2, <1>3, <2>2, <2>4 DEF SuccessInv
  <1>7. CASE GatewayRestarts
    <2>1. Kept /\ OkHasRun'
      BY <1>1, <1>7, AfterRestart DEF OkHasRun
    <2>2. ASSUME NEW c \in Callers, Told(c)' PROVE Same(c)
      BY <1>7, <2>2, FailedTyped DEF GatewayRestarts
    <2> QED
      BY <1>2, <1>3, <2>1, <2>2 DEF SuccessInv
  <1>8. CASE Tick
    <2>1. Kept /\ OkHasRun'
      BY <1>1, <1>8, AfterTick DEF OkHasRun
    <2>2. \A c \in Callers: Same(c)
      BY <1>8, CallersAfterTick
    <2> QED
      BY <1>2, <1>3, <2>1, <2>2 DEF SuccessInv
  <1>9. CASE UNCHANGED vars
    BY <1>9 DEF vars, SuccessInv, OkHasRun, NamesItsPost
  <1> QED
    BY <1>4, <1>5, <1>6, <1>7, <1>8, <1>9 DEF Next

\* Airflow marks a task green only for a job its own last attempt posted, which
\* ran and returned 0, however attempts time out, are retried and are answered
\* late.  (job_gateway.py:99-117; ecommerce_pipeline.py:396-410)
THEOREM SuccessBelongs == Spec => []SuccessIsOwn
  <1>1. Init => SuccessInv
    BY DEF Init, SuccessInv, OkHasRun, NamesItsPost
  <1>2. TypeOK /\ SuccessInv /\ [Next]_vars => SuccessInv'
    BY StepKeepsSuccess
  <1>3. SuccessInv => SuccessIsOwn
    <2> SUFFICES ASSUME SuccessInv, NEW c \in Callers, caller[c].state = "succeeded"
                 PROVE  LET p == posts[caller[c].post]
                        IN  p.by = c /\ p.ran /\ p.ok /\ p.try = caller[c].tries
      BY DEF SuccessIsOwn
    <2>1. caller[c].post \in 1..Len(posts)
      BY DEF SuccessInv, NamesItsPost
    <2>2. posts[caller[c].post].by = c /\ posts[caller[c].post].try = caller[c].tries
          /\ posts[caller[c].post].ok
      BY DEF SuccessInv, NamesItsPost
    <2>3. posts[caller[c].post].ran
      BY <2>1, <2>2 DEF SuccessInv, OkHasRun
    <2> QED
      BY <2>2, <2>3
  <1> QED
    BY <1>1, <1>2, <1>3, TypeCorrect, PTL DEF Spec

-----------------------------------------------------------------------------
(* How long a job may run *)

\* A client waits at least as long as the gateway lets a job run
\* (job_gateway.py:31; ecommerce_pipeline.py:400; lakehouse_maintenance.py:39).
ClientsOutlast == \A c \in Callers: CallTimeout[c] >= JobTimeout

LEMMA StepKeepsTime ==
    ASSUME ClientsOutlast, TypeOK, TimeInv, [Next]_vars
    PROVE  TimeInv'
  <1> SUFFICES ASSUME faults' = 0, NEW i \in 1..Len(posts') PROVE InTime(i)'
    BY DEF TimeInv
  <1> DEFINE b == posts[i].by
  <1>1. /\ JobTimeout \in Nat \ {0} /\ Len(posts) \in Nat
        /\ \A c \in Callers: CallTimeout[c] \in Nat /\ CallTimeout[c] >= JobTimeout
        /\ \A c \in Callers: caller[c] \in Caller /\ caller[c].timer \in Nat
    BY PostsAreAFunction, JobTimeoutIsNatural, CallersType DEF ClientsOutlast, TypeOK, Caller
  <1>2. faults = 0 /\ ~GatewayRestarts /\ \A c \in Callers: ~TaskDies(c)
    <2>1. /\ faults \in Nat
          /\ GatewayRestarts => faults' = faults + 1
          /\ \A c \in Callers: TaskDies(c) => faults' = faults + 1
          /\ faults' \in {faults, faults + 1}
      BY DEF TypeOK, vars, Next, Start, Retry, Submit, CallTimesOut, TaskDies, HandlerStep,
             Accept, Refuse, JobTimesOut, Answer, Release, JobEnds, GatewayRestarts, Tick
    <2> QED
      BY <2>1
  <1>3. ASSUME i \in 1..Len(posts)
        PROVE  /\ b \in Callers /\ posts[i].age \in Nat /\ InTime(i)
               /\ caller[b].timer \in Nat
    BY <1>1, <1>2, <1>3, PostsAreAFunction DEF TimeInv, Post
  <1> USE DEF InTime, In, Overdue, Awaits
  <1>4. ASSUME NEW d \in Callers, Start(d) \/ Retry(d) PROVE InTime(i)'
    <2>1. PICK try \in Nat: Submit(d, try)
      BY <1>4 DEF Start, Retry, TypeOK, Caller
    <2>2. CASE i \in 1..Len(posts)
      <3>1. posts'[i] = posts[i] /\ (b # d => caller'[b] = caller[b])
            /\ caller[d].state # "waiting" /\ caller'[d].state = "waiting"
        BY <1>3, <1>4, <2>1, <2>2, SubmitShape, ZenonT(60) DEF Start, Retry
      <3>2. CASE b # d
        BY <1>3, <2>2, <3>1, <3>2
      <3>3. CASE b = d
        BY <1>3, <2>2, <3>1, <3>3
      <3> QED
        BY <3>2, <3>3
    <2>3. CASE i = Len(posts) + 1
      <3>1. /\ posts'[i].by = d /\ posts'[i].age = 0 /\ posts'[i].state = "arrived"
            /\ caller'[d].state = "waiting" /\ caller'[d].post = i /\ caller'[d].timer = 0
        BY <2>1, <2>3, SubmitShape
      <3> QED
        BY <1>1, <3>1
    <2>4. Len(posts') = Len(posts) + 1
      BY <2>1, SubmitShape
    <2> QED
      BY <1>1, <2>2, <2>3, <2>4
  <1>5. ASSUME NEW d \in Callers, CallTimesOut(d) PROVE InTime(i)'
    <2>1. posts' = posts /\ i \in 1..Len(posts)
      BY <1>5 DEF CallTimesOut
    <2>2. CASE b # d
      <3>1. caller'[b] = caller[b]
        BY <1>3, <1>5, <2>1, <2>2 DEF CallTimesOut, TypeOK
      <3> QED
        BY <1>3, <2>1, <3>1
    <2>3. CASE b = d
      <3>1. /\ caller'[d].state \in {"backoff", "failed"} /\ caller'[d].timer = 0
            /\ caller[d].state = "waiting" /\ caller[d].timer = CallTimeout[d]
        BY <1>5, FailedTyped DEF CallTimesOut, TypeOK
      <3>2. CallTimeout[d] \in Nat /\ CallTimeout[d] >= JobTimeout
        BY <1>1
      <3> QED
        BY <1>1, <1>3, <2>1, <2>3, <3>1, <3>2
    <2> QED
      BY <2>2, <2>3
  <1>6. ASSUME NEW k \in 1..Len(posts), UNCHANGED caller, Handles(k),
               \/ posts[k].state = "arrived" /\ posts'[k].state = "running"
               \/ posts'[k].state \in {"ended", "answered", "closed"},
               posts'[k].age \in {0, posts[k].age},
               posts[k].state \notin {"arrived"} \/ posts'[k].age = posts[k].age,
               posts[k].state = "closed" => posts'[k].state = "closed"
        PROVE  InTime(i)'
    <2>1. i \in 1..Len(posts)
      BY <1>6 DEF Handles
    <2>2. CASE i # k
      BY <1>3, <1>6, <2>1, <2>2 DEF Handles
    <2>3. CASE i = k
      <3>1. posts'[i].by = b
        BY <1>6, <2>3 DEF Handles
      <3> QED
        BY <1>1, <1>3, <1>6, <2>1, <2>3, <3>1
    <2> QED
      BY <2>2, <2>3
  <1>7. ASSUME NEW k \in 1..Len(posts), \E ok \in BOOLEAN: JobEnds(k, ok)
        PROVE  InTime(i)'
    <2>1. UNCHANGED caller /\ posts[k].state = "running"
      BY <1>7 DEF JobEnds
    <2> QED
      BY <1>6, <1>7, <2>1, HandlerShape, AfterHandler
  <1>8. ASSUME NEW k \in 1..Len(posts), Accept(k) \/ JobTimesOut(k) \/ Release(k)
        PROVE  InTime(i)'
    <2>1. UNCHANGED caller /\ Handles(k) /\ posts[k].age \in Nat
      BY <1>8, HandlerShape, PostsAreAFunction
         DEF HandlerStep, Accept, JobTimesOut, Release, Post
    <2>2. CASE Accept(k)
      BY <1>6, <2>1, <2>2, AfterHandler DEF Accept
    <2>3. CASE JobTimesOut(k)
      BY <1>6, <2>1, <2>3, AfterHandler DEF JobTimesOut
    <2>4. CASE Release(k)
      BY <1>6, <2>1, <2>4, AfterHandler DEF Release
    <2> QED
      BY <1>8, <2>2, <2>3, <2>4
  <1>9. ASSUME NEW k \in 1..Len(posts), Refuse(k) \/ Answer(k) PROVE InTime(i)'
    <2> DEFINE d == posts[k].by
    <2>1. /\ Handles(k) /\ d \in Callers /\ i \in 1..Len(posts)
          /\ \A c \in Callers \ {d}: caller'[c] = caller[c]
      BY <1>9, HandlerShape, PostsAreAFunction
         DEF HandlerStep, Handles, Refuse, Answer, TypeOK
    <2>2. \/ caller'[d] = caller[d]
          \/ Awaits(d, k) /\ caller'[d].state # "waiting"
             /\ (caller'[d].state = "backoff" => caller'[d].timer = 0)
      <3>1. CASE Refuse(k)
        BY <2>1, <3>1, FailedTyped DEF Refuse, TypeOK
      <3>2. CASE Answer(k)
        <4>1. caller'[d] = Answered(d, k)
          BY <2>1, <3>2 DEF Answer, TypeOK
        <4> QED
          BY <2>1, <4>1, AnsweredShape
      <3> QED
        BY <1>9, <3>1, <3>2
    <2>3. CASE i # k
      <3>1. posts'[i] = posts[i]
        BY <2>1, <2>3 DEF Handles
      <3> QED
        BY <1>3, <2>1, <2>2, <2>3, <3>1
    <2>4. CASE i = k
      <3>1. /\ posts'[i].by = b /\ posts'[i].age \in {0, posts[i].age}
            /\ \/ posts'[i].state = "closed"
               \/ posts'[i].state = "answered" /\ posts[i].state = "ended"
        BY <1>9, <2>1, <2>4, AfterHandler DEF Handles, Refuse, Answer
      <3> QED
        BY <1>1, <1>3, <2>1, <2>2, <2>4, <3>1
    <2> QED
      BY <2>3, <2>4
  <1>10. CASE Tick
    <2>1. i \in 1..Len(posts)
      BY <1>10, AfterTick
    <2>2. /\ posts'[i].by = b /\ posts'[i].state = posts[i].state
          /\ posts'[i].age = IF posts[i].state = "running" THEN posts[i].age + 1
                             ELSE posts[i].age
      BY <1>10, <2>1, AfterTick
    <2>3. /\ caller'[b].state = caller[b].state /\ caller'[b].post = caller[b].post
          /\ caller'[b].timer = IF caller[b].state \in {"waiting", "backoff"}
                                THEN caller[b].timer + 1 ELSE caller[b].timer
      BY <1>3, <1>10, <2>1, CallersAfterTick
    <2>4. \/ posts[i].state = "running" /\ posts[i].age # JobTimeout
          \/ posts[i].state = "closed"
      BY <1>10, <2>1 DEF Tick
    <2> QED
      BY <1>1, <1>3, <2>1, <2>2, <2>3, <2>4
  <1>11. CASE UNCHANGED vars
    <2>1. posts' = posts /\ caller' = caller
      BY <1>11 DEF vars
    <2> QED
      BY <1>3, <2>1
  <1> QED
    BY <1>2, <1>4, <1>5, <1>7, <1>8, <1>9, <1>10, <1>11 DEF Next, HandlerStep

\* When clients wait at least as long as the gateway lets a job run, then
\* without crashes a retry never meets the job of its own earlier attempt.
\* (job_gateway.py:31, 108; ecommerce_pipeline.py:400; lakehouse_maintenance.py:39)
THEOREM RetryFindsOwnJobOver == ASSUME ClientsOutlast PROVE Spec => []OwnJobIsOver
  <1>1. Init => TimeInv
    BY DEF Init, TimeInv
  <1>2. TypeOK /\ TimeInv /\ [Next]_vars => TimeInv'
    BY ClientsOutlast, StepKeepsTime
  <1>3. TypeOK /\ TimeInv => OwnJobIsOver
    <2> SUFFICES ASSUME TypeOK, TimeInv, NEW c \in Callers, NEW i \in 1..Len(posts),
                        faults = 0, caller[c].state = "backoff",
                        caller[c].timer = RetryDelay[c], posts[i].by = c
                 PROVE  In(i, "closed")
      BY DEF OwnJobIsOver
    <2>1. caller[c].timer > 0
      BY CallersType
    <2> QED
      BY <2>1 DEF TimeInv, InTime
  <1> QED
    BY <1>1, <1>2, <1>3, TypeCorrect, PTL DEF Spec
=============================================================================
