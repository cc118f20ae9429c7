SPECIFICATION Spec
CONSTANTS
    WAD = 1000
    RAY = 10000
    PERCENTAGE_FACTOR = 100
    SECONDS_PER_YEAR = 4
    WAD_RAY_RATIO = 10
    Strategy <- MCStrategy
    ReserveFactor = 10
    u1 = u1
    u2 = u2
    User = {u1, u2}
    Treasury = treasury
    MAX_UINT_AMOUNT = 99999
    MaxStableLoan = 25
    RebalanceThreshold = 90
    CollateralLtv = TRUE
    FeeToVaultPercent = 30
    FlashPremium = 5
    PremiumToProtocol = 30
    UnbackedCap = 2000
    BridgeFee = 20
    Opening <- MCOpening
    Amount = {500, 99999}
    Gap = {1}
    Travel = {3}
    APPROVAL = 50000
    MaxActions = 2
    Tolerance = 6
INVARIANTS
    TypeOK
    ReserveAsExpected
    UserAsExpected
    EventsAsExpected
PROPERTY
    SuiteEnds
