----------------------------- MODULE Positions -----------------------------
(***************************************************************************)
(* The state the pool's handlers share, and the views every validation is  *)
(* made of: token balances (ScaledBalanceTokenBase, StableDebtToken), the  *)
(* user's flags (UserConfiguration), the account data GenericLogic sums up *)
(* from them, isolation and siloed state, and eMode (EModeLogic).          *)
(*                                                                         *)
(* A balance is scaled: the claim of an hToken or of a variable debt is    *)
(* the scaled balance times the reserve's current index, rounded half up.  *)
(* li and vi are the NORMALIZED indexes (getReserveNormalizedIncome and    *)
(* getReserveNormalizedVariableDebt), which every handler computes with    *)
(* after updateState.  A stable debt is kept as its current balance.       *)
(***************************************************************************)
EXTENDS WadRay, FiniteSets, FiniteSetsExt

CONSTANTS
    User,        \* accounts that call the pool
    Treasury,    \* the hTokens' RESERVE_TREASURY_ADDRESS, which never calls it
    Asset,       \* the listed reserves
    Category,    \* the eMode categories other than 0
    NoCategory,  \* eMode category 0
    CeilingUnit, \* units of a debt ceiling per whole asset (10^DEBT_CEILING_DECIMALS)
    StableLag    \* how far the stable debt token's total may lag behind the debts

ASSUME AccountAssumption ==
    /\ IsFiniteSet(User) /\ Treasury \notin User
    /\ IsFiniteSet(Asset)
    /\ NoCategory \notin Category
    /\ Category \cap Asset = {}
    /\ CeilingUnit \in Nat \ {0}
    /\ StableLag \in Nat

Account == User \cup {Treasury}

VARIABLES
    config,   \* per reserve: its ReserveConfigurationMap
    eModes,   \* per category: its EModeCategory
    price,    \* what the oracle answers for an asset or a category's priceSource
    hBal,     \* scaled hToken balances
    vBal,     \* scaled variable debt balances
    sBal,     \* stable debt balances, interest included
    li,       \* normalized income index of a reserve
    vi,       \* normalized variable debt index of a reserve
    cash,     \* underlying held by the hToken
    coll,     \* per user: the reserves whose collateral bit is set
    bor,      \* per user: the reserves whose borrowing bit is set
    emode,    \* per user: its eMode category
    isoDebt   \* per reserve: isolationModeTotalDebt

vars == <<config, eModes, price, hBal, vBal, sBal, li, vi, cash, coll, bor,
          emode, isoDebt>>

(***************************************************************************)
(* The configuration bits the handlers read.  unit is 10^decimals; a cap,  *)
(* a ceiling or a fee of 0 means none.                                     *)
(***************************************************************************)
AssetConfig ==
    [ltv : Nat, lt : Nat, bonus : Nat, fee : 0 .. PERCENTAGE_FACTOR,
     unit : Nat \ {0}, ceiling : Nat, supplyCap : Nat, borrowCap : Nat,
     isoBorrowable : BOOLEAN, siloed : BOOLEAN, borrowing : BOOLEAN,
     stable : BOOLEAN, active : BOOLEAN, frozen : BOOLEAN, paused : BOOLEAN,
     category : Category \cup {NoCategory}]

EModeConfig == [ltv : Nat, lt : Nat, bonus : Nat, priceSource : BOOLEAN]

-----------------------------------------------------------------------------
(* Balances.                                                               *)

HBalance(u, a) == RayMul(hBal[u][a], li[a])

VariableDebt(u, a) == RayMul(vBal[u][a], vi[a])

Debt(u, a) == VariableDebt(u, a) + sBal[u][a]

\* What all accounts of a token's table hold of reserve a.
Total(table, a) == SumFunction([u \in DOMAIN table |-> table[u][a]])

ScaledSupply(a) == Total(hBal, a)

VariableSupply(a) == RayMul(Total(vBal, a), vi[a])

\* What the stable debt token may report as its total, which accrues at an average
\* rate apart from the debts and is reset by burns that seem to repay all of it.
StableSupplies(a) ==
    {n \in 0 .. Total(sBal, a) : Total(sBal, a) <= n + StableLag}

-----------------------------------------------------------------------------
(* Flags: isolation mode and siloed borrowing.                             *)

\* The isolated reserve that backs u's whole position, as a set of at most one.
IsolatedIn(u, collateral) ==
    {a \in collateral[u] : collateral[u] = {a} /\ config[a].ceiling # 0}

\* Faulty variant: looks at the collateral bits.
SiloedInCollateral(u) == {a \in coll[u] : coll[u] = {a} /\ config[a].siloed}

\* The siloed reserve u borrows from, as a set of at most one.
SiloedIn(u) == {a \in bor[u] : bor[u] = {a} /\ config[a].siloed}

\* Faulty variant: an isolated reserve may join others.
JoinsCollateral(u, a, collateral) == IsolatedIn(u, collateral) = {}

\* May reserve a be activated as collateral of u?
CanUseAsCollateral(u, a, collateral) ==
    \/ collateral[u] = {}
    \/ IsolatedIn(u, collateral) = {} /\ config[a].ceiling = 0

\* An amount of reserve a in the units of a debt ceiling, truncated.
CeilingAmount(a, amount) == (amount * CeilingUnit) \div config[a].unit

-----------------------------------------------------------------------------
(* Account data, under the user's eMode category.                          *)

\* Faulty variant: forgets the category of the reserve.
InAnyEMode(u, a) == emode[u] # NoCategory

InEMode(u, a) == emode[u] # NoCategory /\ config[a].category = emode[u]

CategoryPriced(u) == emode[u] # NoCategory /\ eModes[emode[u]].priceSource

AssetPrice(u, a) ==
    IF CategoryPriced(u) /\ InEMode(u, a) THEN price[emode[u]] ELSE price[a]

Ltv(u, a) ==
    IF config[a].ltv # 0 /\ InEMode(u, a) THEN eModes[emode[u]].ltv
    ELSE config[a].ltv

Threshold(u, a) ==
    IF InEMode(u, a) THEN eModes[emode[u]].lt ELSE config[a].lt

\* The flagged reserves that count as collateral.
Backing(u) == {a \in coll[u] : config[a].lt # 0}

CollateralValue(u, a) ==
    (HBalance(u, a) * AssetPrice(u, a)) \div config[a].unit

TotalCollateral(u) ==
    SumFunctionOnSet([a \in Asset |-> CollateralValue(u, a)], Backing(u))

DebtValue(u, a) == (Debt(u, a) * AssetPrice(u, a)) \div config[a].unit

TotalDebtValue(u) == SumFunctionOnSet([a \in Asset |-> DebtValue(u, a)], bor[u])

\* The average of weight over u's collateral, truncated.
Average(u, weight(_, _)) ==
    LET total == TotalCollateral(u) IN
    IF total = 0 THEN 0
    ELSE SumFunctionOnSet([a \in Asset |-> CollateralValue(u, a) * weight(u, a)],
                          Backing(u)) \div total

AverageLtv(u) == Average(u, Ltv)

\* The health factor is below bound; without a debt value it is infinite.
HealthBelow(u, bound) ==
    LET debt == TotalDebtValue(u) IN
    /\ debt # 0
    /\ WadDiv(PercentMul(TotalCollateral(u), Average(u, Threshold)), debt) < bound

Healthy(u) == ~HealthBelow(u, WAD)

\* Faulty variant: only looks at the LTVs.
LtvOK(u, a) == config[a].ltv # 0 => \A b \in Backing(u) : config[b].ltv # 0

\* validateHFAndLtv: healthy, and a collateral that lends nothing goes first.
HealthyAndLtvOK(u, a) ==
    /\ Healthy(u)
    /\ config[a].ltv # 0 => \A b \in Backing(u) : config[b].ltv # 0

=============================================================================
