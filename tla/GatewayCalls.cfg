SPECIFICATION FairSpec
CONSTANTS
    Callers <- Tasks
    JobTimeout = 3
    CallTimeout <- ShortCallTimeout
    RetryDelay <- CodeRetryDelay
    Retries <- CodeRetries
    MaxPosts = 3
    MaxFaults = 1
INVARIANTS
    TypeOK
    LockMatchesHandler
    SuccessIsOwn
    OwnJobIsOver
PROPERTIES
    LockIsReleased
\* The system may stop: the number of requests is bounded.
CHECK_DEADLOCK FALSE
