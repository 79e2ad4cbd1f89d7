SPECIFICATION FairSpec
CONSTANTS
    c1 = c1
    c2 = c2
    p1 = p1
    p2 = p2
    daemon = daemon
    once = once
    Nobody = Nobody
    Customers = {c1}
    Partitions = {p1}
    PartitionOf <- OneCustomer
    Workers = {daemon, once}
    Daemon = daemon
    BatchSize = 2
    Compaction = FALSE
    SlotLoss = FALSE
    MaxLsn = 3
    MaxFaults = 2
INVARIANTS
    TypeOK
    SilverFoldsBronze
    AckedIsPersisted
    DrainedReconciles
PROPERTIES
    SilverNeverRegresses
    ImplementsReplica
    Converges
CHECK_DEADLOCK FALSE
