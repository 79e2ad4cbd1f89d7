SPECIFICATION FairSpec
CONSTANTS
    o1 = o1
    o2 = o2
    OrderIds = {o1, o2}
    Versions = {1, 2}
    Kinds = {"valid", "malformed"}
    MaxRecords = 3
    MaxFaults = 2
INVARIANTS
    TypeOK
    OneRowPerKey
    NoSilentDrop
    CurrentNamesHistory
    CurrentIsNewest
PROPERTIES
    EverythingConsumed
\* The system may stop: the topic is bounded and everything may be consumed.
CHECK_DEADLOCK FALSE
