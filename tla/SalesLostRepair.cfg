SPECIFICATION Spec
CONSTANTS
    i1 = i1
    i2 = i2
    mon = mon
    tue = tue
    wed = wed
    Items = {i1, i2}
    Days = {mon, tue}
    NoDay = NoDay
    LostRepairs = TRUE
    MaxVersion = 3
    MaxAttempts = 1
    MaxLoads = 3
    MaxFaults = 1
INVARIANTS
    DailyMatchesFact
SYMMETRY Symmetry
CHECK_DEADLOCK FALSE
