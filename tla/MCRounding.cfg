\* One user, two reserves, indexes of 1, 1.75 and 3: every rounding case;
\* the borrowed one is switched off, with debts left behind, and on again.
CONSTANTS
    WAD = 20
    RAY = 4
    PERCENTAGE_FACTOR = 10
    User = {u1}
    Treasury = tr
    a1 = a1
    a2 = a2
    c1 = c1
    Asset = {a1, a2}
    Category = {}
    NoCategory = none
    CeilingUnit = 1
    StableLag = 1
    Configs <- RoundingConfigs
    EModes <- NoEModes
    Prices <- RoundingPrices
    InitialPrice <- RoundingPrice
    Growth = {4, 7}
    Amounts = {1, 2}
    MaxBalance = 3
    MaxCash = 5
    MaxIndex = 12
    NewSwitch <- RoundingSwitch
    NewNumber <- NoDecision
    NewCollateral <- NoDecision
    NewEMode <- NoDecision
    NewMembership <- NoDecision
SPECIFICATION GovernedSpec
INVARIANTS
    TypeOK
    DebtIsFlagged
PROPERTIES
    InactiveStandsStill
