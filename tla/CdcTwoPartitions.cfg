SPECIFICATION Spec
CONSTANTS
    c1 = c1
    c2 = c2
    p1 = p1
    p2 = p2
    daemon = daemon
    once = once
    Nobody = Nobody
    Customers = {c1, c2}
    Partitions = {p1, p2}
    PartitionOf <- OwnPartition
    Workers = {daemon, once}
    Daemon = daemon
    BatchSize = 2
    Compaction = TRUE
    SlotLoss = TRUE
    MaxLsn = 2
    MaxFaults = 1
INVARIANTS
    FoldInv
    AckInv
CHECK_DEADLOCK FALSE
