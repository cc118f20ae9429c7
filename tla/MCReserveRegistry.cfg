\* Three assets compete for two ids.  At index 3 a scaled unit reads 2: repaying 1
\* burns it and leaves the bit.
CONSTANTS
    WAD = 2
    RAY = 2
    PERCENTAGE_FACTOR = 2
    Asset = {a1, a2, a3}
    Zero = zero
    MaxNumberReserves = 2
    User = {u1, u2}
    Amounts = {1}
    StableLag = 1
    MaxBalance = 1
    MaxIndex = 3
SPECIFICATION Spec
INVARIANTS
    TypeOK
    AlwaysRoom
    DebtsHaveBits
    BitsAreWalked
PROPERTY
    KeepsListing
SYMMETRY Alike
