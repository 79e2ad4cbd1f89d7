SPECIFICATION Spec
CONSTANTS
    i1 = i1
    i2 = i2
    mon = mon
    tue = tue
    wed = wed
    Items = {i1, i2}
    Days = {mon, tue, wed}
    NoDay = NoDay
    LostRepairs = FALSE
    MaxVersion = 4
    MaxAttempts = 2
    MaxLoads = 3
    MaxFaults = 2
INVARIANTS
    TypeOK
    DailyMatchesFact
    StaleDayWillBeRepaired
    CountedBelowHighWater
    EnginesAgree
SYMMETRY Symmetry
CHECK_DEADLOCK FALSE
