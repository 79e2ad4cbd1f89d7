SPECIFICATION Spec
CONSTANTS
    c1 = c1
    c2 = c2
    p1 = p1
    p2 = p2
    daemon = daemon
    once = once
    Nobody = Nobody
    Customers = {c1}
    Partitions = {p1}
    PartitionOf <- OneCustomer
    Workers = {daemon}
    Daemon = daemon
    BatchSize = 2
    Compaction = TRUE
    SlotLoss = FALSE
    MaxLsn = 3
    MaxFaults = 0
INVARIANTS
    TombstoneIsDeleted
CHECK_DEADLOCK FALSE
