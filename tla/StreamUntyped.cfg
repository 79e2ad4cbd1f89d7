SPECIFICATION Spec
CONSTANTS
    o1 = o1
    o2 = o2
    OrderIds = {o1}
    Versions = {1}
    Kinds = {"valid", "malformed", "untyped"}
    MaxRecords = 1
    MaxFaults = 0
INVARIANTS
    NoSilentDrop
\* The system may stop: the topic is bounded and everything may be consumed.
CHECK_DEADLOCK FALSE
