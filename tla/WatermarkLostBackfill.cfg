SPECIFICATION Spec
CONSTANTS
    r1 = r1
    r2 = r2
    c1 = c1
    Tables <- OneTable
    Orders = "orders"
    Refs <- NoRefs
    Rows = {r1, r2}
    Customers = {c1}
    CustomerOf <- OneCustomer
    Retries <- NoRetry
    LateCommits = FALSE
    Resets = "never"
    LostModes = {"backfill"}
    ResetCrashes = FALSE
    MaxClock = 3
    MaxFaults = 1
    MaxBackfills = 1
INVARIANTS
    NothingSkipped
