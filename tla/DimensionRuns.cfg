SPECIFICATION FairSpec
CONSTANTS
    c1 = c1
    c2 = c2
    o1 = o1
    Customers = {c1, c2}
    Orders = {o1}
    CustomerOf <- FirstCustomer
    Images = {"a", "b"}
    Gone = "gone"
    LateStamps = {c2}
    MaxClock = 3
    MaxFaults = 1
INVARIANTS
    TypeOK
    OneVersionAtATime
    FactsDoNotLookAhead
PROPERTIES
    DimensionCatchesUp
    FactsCatchUp
