\* Categories, their members and collateral settings change.
CONSTANTS
    WAD = 100
    RAY = 2
    PERCENTAGE_FACTOR = 10
    User = {u1, u2}
    Treasury = tr
    a1 = a1
    a2 = a2
    c1 = c1
    Asset = {a1, a2}
    Category = {c1}
    NoCategory = none
    CeilingUnit = 1
    StableLag = 0
    Configs <- CategoryConfigs
    EModes <- NoEModes
    Prices <- CategoryPrices
    InitialPrice <- CategoryPrice
    Growth = {}
    Amounts = {1}
    MaxBalance = 2
    MaxCash = 9
    MaxIndex = 5
    NewSwitch <- NoDecision
    NewNumber <- NoDecision
    NewCollateral <- CategoryCollateral
    NewEMode <- CategoryEModes
    NewMembership <- CategoryMembers
SPECIFICATION GovernedSpec
INVARIANTS
    SoundConfiguration
PROPERTY
    UsersKeepHealth
SYMMETRY Users
