\* Outages, grace periods and falling prices.
CONSTANTS
    WAD = 100
    RAY = 2
    PERCENTAGE_FACTOR = 10
    User = {u1, u2}
    Treasury = tr
    a1 = a1
    a2 = a2
    c1 = c1
    Asset = {a1, a2}
    Category = {}
    NoCategory = none
    CeilingUnit = 1
    StableLag = 0
    Configs <- SentinelConfigs
    EModes <- NoEModes
    Prices <- SentinelPrices
    InitialPrice <- SentinelPrice
    Growth = {}
    Amounts = {1}
    MaxBalance = 2
    MaxCash = 9
    MaxIndex = 5
    NewSwitch <- NoDecision
    NewNumber <- SentinelNumber
    NewCollateral <- NoDecision
    NewEMode <- NoDecision
    NewMembership <- NoDecision
    GracePeriods = {0, 1}
    MaxAge = 2
SPECIFICATION SentinelSpec
INVARIANT
    DeepDebtsStayLiquidatable
PROPERTY
    OutageSparesPositions
SYMMETRY Users
