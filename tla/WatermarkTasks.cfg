SPECIFICATION FairSpec
CONSTANTS
    r1 = r1
    r2 = r2
    c1 = c1
    Tables <- TwoTables
    Orders = "orders"
    Refs <- ItemsReferToOrders
    Rows = {r1, r2}
    Customers = {c1}
    CustomerOf <- OneCustomer
    Retries <- RetryMostOnce
    LateCommits = FALSE
    Resets = "between runs"
    LostModes = {"incremental"}
    ResetCrashes = TRUE
    MaxClock = 3
    MaxFaults = 1
    MaxBackfills = 1
INVARIANTS
    TypeOK
    NothingSkipped
    SinksCoverWatermark
    SinksFollowSource
PROPERTIES
    CommittedStays
    EventuallyDelivered
