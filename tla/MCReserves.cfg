\* Ceilings, siloed borrowing, activity, pauses and freezes change under open
\* positions and a falling price.
CONSTANTS
    WAD = 100
    RAY = 2
    PERCENTAGE_FACTOR = 10
    User = {u1, u2}
    Treasury = tr
    a1 = a1
    a2 = a2
    c1 = c1
    Asset = {a1, a2}
    Category = {}
    NoCategory = none
    CeilingUnit = 1
    StableLag = 0
    Configs <- ReserveConfigs
    EModes <- NoEModes
    Prices <- ReservePrices
    InitialPrice <- ReservePrice
    Growth = {}
    Amounts = {1, 2}
    MaxBalance = 2
    MaxCash = 9
    MaxIndex = 5
    NewSwitch <- ReserveSwitch
    NewNumber <- ReserveNumber
    NewCollateral <- NoDecision
    NewEMode <- NoDecision
    NewMembership <- NoDecision
SPECIFICATION GovernedSpec
INVARIANTS
    SiloedOwedAlone
    CeilingStartsAtZero
PROPERTIES
    PausedStandsStill
    FrozenOnlyShrinks
SYMMETRY Users
