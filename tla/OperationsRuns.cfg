SPECIFICATION FairSpec
CONSTANTS
    j1 = j1
    j2 = j2
    Jobs = {j1, j2}
    Collectors <- MCCollectors
    MaxRuns = 2
    MaxFaults = 2
INVARIANTS
    TypeOK
    SuccessMeansPrepared
PROPERTIES
    StopIsReported
    AlertsResolve
