\* Two users, two units of a reserve, three units of time.
CONSTANTS
    User = {u1, u2}
    RAY = 20
    ONE = 10
    WEEK = 2
    Weight <- Weights
    EPOCH = 1
    Rate <- Rates
    PhaseLists <- Lists
    Amounts = {1, 2}
    MaxBalance = 2
    MaxTime = 3
    MaxCalls = 5
SPECIFICATION Spec
INVARIANTS
    TypeOK
    WorkingSupplyIsSum
    RewardsWithinEmission
PROPERTIES
    SharesFollowTokens
    AllocationIsCurrent
SYMMETRY Users
CHECK_DEADLOCK FALSE
