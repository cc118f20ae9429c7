\* A category with a price source of its own.
CONSTANTS
    WAD = 100
    RAY = 2
    PERCENTAGE_FACTOR = 10
    User = {u1, u2}
    Treasury = tr
    a1 = a1
    a2 = a2
    c1 = c1
    Asset = {a1, a2}
    Category = {c1}
    NoCategory = none
    CeilingUnit = 1
    StableLag = 0
    Configs <- EModeConfigs
    EModes <- EModeCategories
    Prices <- EModePrices
    InitialPrice <- ModesPrice
    Growth = {}
    Amounts = {1, 2}
    MaxBalance = 3
    MaxCash = 9
    MaxIndex = 5
SPECIFICATION Spec
PROPERTY
    EModeEntryKeepsHealth
SYMMETRY Users
