------------------------------ MODULE LendPool ------------------------------
(***************************************************************************)
(* The pool's entry points as atomic transactions on the shared state of   *)
(* Positions: a handler that reverts changes nothing, so a guard is a      *)
(* require (or a checked subtraction) and an action is a call that         *)
(* succeeds.  Handlers interleave with time (Accrue) and with the oracle   *)
(* (SetPrice).                                                             *)
(*                                                                         *)
(* Abstractions: users hold as much underlying as they need; calls are     *)
(* made by the account they concern (supplying or repaying for another is  *)
(* the same state change); reserve factors are 0, so nothing accrues to    *)
(* the treasury; no price oracle sentinel is set; indexes grow by any of a *)
(* set of factors instead of by the rate strategy.                         *)
(***************************************************************************)
EXTENDS Positions

CONSTANTS
    Configs,       \* initial reserve configurations, [Asset -> AssetConfig]
    EModes,        \* initial eMode categories, [Category -> EModeConfig]
    Prices,        \* what the oracle may answer, per asset or category
    InitialPrice,  \* what it answers at first
    Growth,        \* factors (in RAY) an index may grow by
    Amounts,       \* the amounts calls are made with
    MaxBalance,    \* bound: the scaled supply of a reserve, a stable debt
    MaxCash,       \* bound: the underlying an hToken holds
    MaxIndex       \* bound: an index

\* What the configurator's setters require of an asset or of a category.
SoundConfig(c) ==
    /\ c.ltv <= c.lt
    /\ c.lt # 0 => /\ c.bonus > PERCENTAGE_FACTOR
                   /\ PercentMul(c.lt, c.bonus) <= PERCENTAGE_FACTOR

ASSUME PoolAssumption ==
    /\ Configs \subseteq [Asset -> AssetConfig]
    /\ \A c \in Configs, a \in Asset : SoundConfig(c[a])
    /\ EModes \in [Category -> EModeConfig]
    /\ \A c \in Category : SoundConfig(EModes[c])
    /\ Prices \in [Asset \cup Category -> SUBSET (Nat \ {0})]
    /\ InitialPrice \in [Asset \cup Category -> Nat \ {0}]
    /\ Growth \subseteq {g \in Nat : g >= RAY}
    /\ Amounts \subseteq Nat
    /\ MaxBalance \in Nat /\ MaxCash \in Nat /\ MaxIndex \in Nat

\* DEFAULT_LIQUIDATION_CLOSE_FACTOR and CLOSE_FACTOR_HF_THRESHOLD (0.95).
CloseFactor == PERCENTAGE_FACTOR \div 2
CloseFactorHealth == (WAD * 19) \div 20

RateMode == {"stable", "variable"}

Lesser(x, y) == IF x <= y THEN x ELSE y

\* Faulty variant: a paused reserve is usable.
Active(a) == config[a].active

Usable(a) == config[a].active /\ ~config[a].paused

\* f with reserve a added to, or removed from, the set of user u if cond.
AddIf(f, u, a, cond) == IF cond THEN [f EXCEPT ![u] = @ \cup {a}] ELSE f
RemoveIf(f, u, a, cond) == IF cond THEN [f EXCEPT ![u] = @ \ {a}] ELSE f

-----------------------------------------------------------------------------
(* Collateral: supply, withdraw, transfer of hTokens, use as collateral.   *)

Supply(u, a, amount) ==
    LET scaled == RayDiv(amount, li[a]) IN
    /\ amount # 0 /\ scaled # 0
    /\ Usable(a) /\ ~config[a].frozen
    /\ \/ config[a].supplyCap = 0
       \/ RayMul(ScaledSupply(a), li[a]) + amount
              <= config[a].supplyCap * config[a].unit
    /\ ScaledSupply(a) + scaled <= MaxBalance /\ cash[a] + amount <= MaxCash
    /\ hBal' = [hBal EXCEPT ![u][a] = @ + scaled]
    /\ cash' = [cash EXCEPT ![a] = @ + amount]
    /\ coll' = AddIf(coll, u, a, hBal[u][a] = 0 /\ CanUseAsCollateral(u, a, coll))
    /\ UNCHANGED <<config, eModes, price, vBal, sBal, li, vi, bor, emode, isoDebt>>

Withdraw(u, a, amount) ==
    LET scaled == RayDiv(amount, li[a]) IN
    /\ amount # 0 /\ amount <= HBalance(u, a)
    /\ Usable(a)
    /\ scaled # 0 /\ scaled <= hBal[u][a]
    /\ amount <= cash[a]
    /\ hBal' = [hBal EXCEPT ![u][a] = @ - scaled]
    /\ cash' = [cash EXCEPT ![a] = @ - amount]
    /\ coll' = RemoveIf(coll, u, a, amount = HBalance(u, a))
    /\ UNCHANGED <<config, eModes, price, vBal, sBal, li, vi, bor, emode, isoDebt>>
    /\ a \in coll[u] /\ bor[u] # {} => HealthyAndLtvOK(u, a)'

\* An hToken transfer and the finalizeTransfer it calls back into the pool.
Transfer(u, to, a, amount) ==
    LET scaled == RayDiv(amount, li[a]) IN
    /\ u # to
    /\ scaled <= hBal[u][a]
    /\ ~config[a].paused
    /\ hBal' = [hBal EXCEPT ![u][a] = @ - scaled, ![to][a] = @ + scaled]
    /\ coll' = AddIf(RemoveIf(coll, u, a, amount # 0 /\ amount = HBalance(u, a)),
                     to, a, /\ amount # 0 /\ HBalance(to, a) = 0
                            /\ CanUseAsCollateral(to, a, coll))
    /\ UNCHANGED <<config, eModes, price, vBal, sBal, li, vi, cash, bor, emode,
                   isoDebt>>
    /\ amount # 0 /\ a \in coll[u] /\ bor[u] # {} => HealthyAndLtvOK(u, a)'

EnableCollateral(u, a) ==
    /\ HBalance(u, a) # 0
    /\ Usable(a)
    /\ a \notin coll[u]
    /\ CanUseAsCollateral(u, a, coll)
    /\ coll' = [coll EXCEPT ![u] = @ \cup {a}]
    /\ UNCHANGED <<config, eModes, price, hBal, vBal, sBal, li, vi, cash, bor,
                   emode, isoDebt>>

DisableCollateral(u, a) ==
    /\ HBalance(u, a) # 0
    /\ Usable(a)
    /\ a \in coll[u]
    /\ coll' = [coll EXCEPT ![u] = @ \ {a}]
    /\ UNCHANGED <<config, eModes, price, hBal, vBal, sBal, li, vi, cash, bor,
                   emode, isoDebt>>
    /\ HealthyAndLtvOK(u, a)'

-----------------------------------------------------------------------------
(* Debt: borrow, repay, swap of the rate mode.                             *)

\* validateBorrow, but for what depends on the rate mode.
BorrowAllowed(u, a, amount) ==
    /\ amount # 0
    /\ Usable(a) /\ ~config[a].frozen /\ config[a].borrowing
    /\ \/ config[a].borrowCap = 0
       \/ \E stable \in StableSupplies(a) :
             VariableSupply(a) + stable + amount
                 <= config[a].borrowCap * config[a].unit
    /\ \A c \in IsolatedIn(u, coll) :
          /\ config[a].isoBorrowable
          /\ isoDebt[c] + CeilingAmount(a, amount) <= config[c].ceiling
    /\ emode[u] # NoCategory => InEMode(u, a)
    /\ AverageLtv(u) # 0 /\ TotalCollateral(u) # 0
    /\ ~HealthBelow(u, WAD + 1)
    /\ PercentDiv(TotalDebtValue(u)
                     + (AssetPrice(u, a) * amount) \div config[a].unit,
                  AverageLtv(u)) <= TotalCollateral(u)
    /\ bor[u] # {} => IF SiloedIn(u) # {} THEN SiloedIn(u) = {a}
                      ELSE ~config[a].siloed

\* A stable borrower must not lend to himself: held is his debt, or the loan.
StableAllowed(u, a, held) ==
    /\ config[a].stable
    /\ a \notin coll[u] \/ config[a].ltv = 0 \/ held > HBalance(u, a)

\* maxStableRateBorrowSizePercent is 25%.
StableLoanAllowed(a, amount) ==
    amount <= PercentMul(cash[a], PERCENTAGE_FACTOR \div 4)

MintDebt(u, a, amount, mode) ==
    \/ /\ mode = "variable"
       /\ RayDiv(amount, vi[a]) # 0
       /\ vBal' = [vBal EXCEPT ![u][a] = @ + RayDiv(amount, vi[a])]
       /\ bor' = AddIf(bor, u, a, vBal[u][a] = 0)
       /\ UNCHANGED sBal
    \/ /\ mode = "stable"
       /\ StableAllowed(u, a, amount) /\ StableLoanAllowed(a, amount)
       /\ sBal' = [sBal EXCEPT ![u][a] = @ + amount]
       /\ bor' = AddIf(bor, u, a, sBal[u][a] = 0)
       /\ UNCHANGED vBal

Borrow(u, a, amount, mode) ==
    /\ BorrowAllowed(u, a, amount)
    /\ amount <= cash[a]
    /\ MintDebt(u, a, amount, mode)
    /\ isoDebt' = [c \in Asset |-> IF c \in IsolatedIn(u, coll)
                                   THEN isoDebt[c] + CeilingAmount(a, amount)
                                   ELSE isoDebt[c]]
    /\ cash' = [cash EXCEPT ![a] = @ - amount]
    /\ UNCHANGED <<config, eModes, price, hBal, li, vi, coll, emode>>

\* updateIsolatedDebtIfIsolated, under the collateral flags it is called with.
RepaidIsolatedDebt(u, a, amount, collateral) ==
    [c \in Asset |->
        IF c \notin IsolatedIn(u, collateral) THEN isoDebt[c]
        ELSE IF isoDebt[c] <= CeilingAmount(a, amount) THEN 0
        ELSE isoDebt[c] - CeilingAmount(a, amount)]

\* Burn amount of u's debt, all of it of the given mode.
BurnVariable(u, a, amount) ==
    LET scaled == RayDiv(amount, vi[a]) IN
    /\ scaled # 0 /\ scaled <= vBal[u][a]
    /\ vBal' = [vBal EXCEPT ![u][a] = @ - scaled]

BurnStable(u, a, amount) ==
    /\ amount <= sBal[u][a]
    /\ sBal' = [sBal EXCEPT ![u][a] = @ - amount]

\* Faulty variant: takes underlying although u pays with hTokens.
PaymentTakenTwice(u, a, amount, useHTokens) ==
    LET scaled == RayDiv(amount, li[a]) IN
    /\ useHTokens => scaled # 0 /\ scaled <= hBal[u][a]
    /\ hBal' = IF useHTokens THEN [hBal EXCEPT ![u][a] = @ - scaled] ELSE hBal
    /\ cash[a] + amount <= MaxCash
    /\ cash' = [cash EXCEPT ![a] = @ + amount]

\* Faulty variant: burns hTokens u may not have.
PaymentUnchecked(u, a, amount, useHTokens) ==
    IF useHTokens
    THEN hBal' = [hBal EXCEPT ![u][a] = @ - RayDiv(amount, li[a])] /\ UNCHANGED cash
    ELSE cash' = [cash EXCEPT ![a] = @ + amount] /\ UNCHANGED hBal

\* What the hToken takes: underlying, or (repayWithHTokens) u's own hTokens.
Payment(u, a, amount, useHTokens) ==
    LET scaled == RayDiv(amount, li[a]) IN
    IF useHTokens
    THEN /\ scaled # 0 /\ scaled <= hBal[u][a]
         /\ hBal' = [hBal EXCEPT ![u][a] = @ - scaled]
         /\ UNCHANGED cash
    ELSE /\ cash[a] + amount <= MaxCash
         /\ cash' = [cash EXCEPT ![a] = @ + amount]
         /\ UNCHANGED hBal

Repay(u, a, offered, mode, useHTokens) ==
    LET owed == IF mode = "stable" THEN sBal[u][a] ELSE VariableDebt(u, a)
        amount == Lesser(offered, owed) IN
    /\ offered # 0 /\ owed # 0
    /\ Usable(a)
    /\ \/ mode = "variable" /\ BurnVariable(u, a, amount) /\ UNCHANGED sBal
       \/ mode = "stable" /\ BurnStable(u, a, amount) /\ UNCHANGED vBal
    /\ bor' = RemoveIf(bor, u, a, Debt(u, a) = amount)
    /\ isoDebt' = RepaidIsolatedDebt(u, a, amount, coll)
    /\ Payment(u, a, amount, useHTokens)
    /\ UNCHANGED <<config, eModes, price, li, vi, coll, emode>>

\* Faulty variant: swaps in a frozen reserve.
SwapToVariableFrozen(u, a) ==
    LET scaled == RayDiv(sBal[u][a], vi[a]) IN
    /\ Usable(a)
    /\ sBal[u][a] # 0 /\ scaled # 0
    /\ sBal' = [sBal EXCEPT ![u][a] = 0]
    /\ vBal' = [vBal EXCEPT ![u][a] = @ + scaled]
    /\ UNCHANGED <<config, eModes, price, hBal, li, vi, cash, coll, bor, emode,
                   isoDebt>>

\* swapBorrowRateMode of the whole debt of the given mode.
SwapToVariable(u, a) ==
    LET scaled == RayDiv(sBal[u][a], vi[a]) IN
    /\ Usable(a) /\ ~config[a].frozen
    /\ sBal[u][a] # 0 /\ scaled # 0
    /\ sBal' = [sBal EXCEPT ![u][a] = 0]
    /\ vBal' = [vBal EXCEPT ![u][a] = @ + scaled]
    /\ UNCHANGED <<config, eModes, price, hBal, li, vi, cash, coll, bor, emode,
                   isoDebt>>

SwapToStable(u, a) ==
    /\ Usable(a) /\ ~config[a].frozen
    /\ VariableDebt(u, a) # 0
    /\ StableAllowed(u, a, Debt(u, a))
    /\ BurnVariable(u, a, VariableDebt(u, a))
    /\ sBal' = [sBal EXCEPT ![u][a] = @ + VariableDebt(u, a)]
    /\ UNCHANGED <<config, eModes, price, hBal, li, vi, cash, coll, bor, emode,
                   isoDebt>>

-----------------------------------------------------------------------------
(* Liquidation.                                                            *)

\* The price the liquidation values reserve a of u's position at.
CollateralPrice(u, a) == AssetPrice(u, a)
DebtPrice(u, a) == IF CategoryPriced(u) THEN price[emode[u]] ELSE price[a]

LiquidationBonus(u, a) ==
    IF InEMode(u, a) THEN eModes[emode[u]].bonus ELSE config[a].bonus

\* Faulty variant: compares the balance before the bonus is added.
QuoteCappedEarly(u, c, d, debtToCover) ==
    LET pc == CollateralPrice(u, c) * config[d].unit
        pd == DebtPrice(u, d) * config[c].unit
        bonus == LiquidationBonus(u, c)
        wanted == PercentMul((pd * debtToCover) \div pc, bonus)
        capped == (pd * debtToCover) \div pc > HBalance(u, c)
        seized == IF capped THEN HBalance(u, c) ELSE wanted
        fee == IF config[c].fee = 0 THEN 0
               ELSE PercentMul(seized - PercentDiv(seized, bonus), config[c].fee)
    IN [collateral |-> seized - fee,
        debt |-> IF capped THEN PercentDiv((pc * seized) \div pd, bonus)
                 ELSE debtToCover,
        fee |-> fee]

\* _calculateAvailableCollateralToLiquidate.
Quote(u, c, d, debtToCover) ==
    LET pc == CollateralPrice(u, c) * config[d].unit
        pd == DebtPrice(u, d) * config[c].unit
        bonus == LiquidationBonus(u, c)
        wanted == PercentMul((pd * debtToCover) \div pc, bonus)
        capped == wanted > HBalance(u, c)
        seized == IF capped THEN HBalance(u, c) ELSE wanted
        fee == IF config[c].fee = 0 THEN 0
               ELSE PercentMul(seized - PercentDiv(seized, bonus), config[c].fee)
    IN [collateral |-> seized - fee,
        debt |-> IF capped THEN PercentDiv((pc * seized) \div pd, bonus)
                 ELSE debtToCover,
        fee |-> fee]

\* _calculateDebt: at most the close factor of the debt in one call.
DebtToLiquidate(u, d, debtToCover) ==
    LET factor == IF ~HealthBelow(u, CloseFactorHealth + 1) THEN CloseFactor
                  ELSE PERCENTAGE_FACTOR
    IN Lesser(debtToCover, PercentMul(Debt(u, d), factor))

\* Faulty variant: waits until the whole debt may be liquidated.
LiquidationAllowedLate(u, c, d) ==
    /\ Usable(c) /\ Usable(d) /\ c \in Backing(u) /\ Debt(u, d) # 0
    /\ HealthBelow(u, CloseFactorHealth)

\* validateLiquidationCall.
LiquidationAllowed(u, c, d) ==
    /\ Usable(c) /\ Usable(d)
    /\ c \in Backing(u)
    /\ Debt(u, d) # 0
    /\ HealthBelow(u, WAD)

\* _burnDebtTokens: variable debt first, then stable debt.
BurnDebt(u, d, amount) ==
    \/ /\ VariableDebt(u, d) >= amount
       /\ BurnVariable(u, d, amount)
       /\ UNCHANGED sBal
    \/ /\ VariableDebt(u, d) < amount
       /\ IF VariableDebt(u, d) # 0 THEN BurnVariable(u, d, VariableDebt(u, d))
          ELSE UNCHANGED vBal
       /\ BurnStable(u, d, amount - VariableDebt(u, d))

\* u's hTokens go to the liquidator, or are burnt, and the fee to the treasury;
\* the fee is clamped to what rounding has left of the balance.
SeizeHTokens(liquidator, u, c, quote, receiveHToken) ==
    LET seized == RayDiv(quote.collateral, li[c])
        left == IF receiveHToken /\ liquidator = u THEN hBal[u][c]
                ELSE hBal[u][c] - seized
        fee == Lesser(RayDiv(quote.fee, li[c]), left)
        paid == [hBal EXCEPT ![u][c] = left]
        received == IF receiveHToken /\ liquidator # u
                    THEN [paid EXCEPT ![liquidator][c] = @ + seized] ELSE paid
        charged == [received EXCEPT ![u][c] = @ - fee]
    IN /\ seized <= hBal[u][c]
       /\ receiveHToken \/ seized # 0
       /\ hBal' = [charged EXCEPT ![Treasury][c] = @ + fee]

Liquidate(liquidator, u, c, d, debtToCover, receiveHToken) ==
    LET quote == Quote(u, c, d, DebtToLiquidate(u, d, debtToCover))
        emptied == quote.collateral + quote.fee = HBalance(u, c)
        left == RemoveIf(coll, u, c, emptied)
        \* the liquidator's balance when his hTokens arrive
        fresh == receiveHToken /\ HBalance(liquidator, c) = 0
    IN
    /\ LiquidationAllowed(u, c, d)
    /\ bor' = RemoveIf(bor, u, d, Debt(u, d) = quote.debt)
    /\ BurnDebt(u, d, quote.debt)
    /\ isoDebt' = RepaidIsolatedDebt(u, d, quote.debt, left)
    /\ SeizeHTokens(liquidator, u, c, quote, receiveHToken)
    /\ coll' = AddIf(left, liquidator, c,
                     fresh /\ CanUseAsCollateral(liquidator, c, left))
    /\ IF receiveHToken
       THEN cash' = [cash EXCEPT ![d] = @ + quote.debt]
       ELSE /\ quote.collateral <= cash[c]
            /\ cash' = [a \in Asset |->
                          cash[a] - (IF a = c THEN quote.collateral ELSE 0)
                                  + (IF a = d THEN quote.debt ELSE 0)]
    /\ cash'[d] <= MaxCash
    /\ UNCHANGED <<config, eModes, price, li, vi, emode>>

-----------------------------------------------------------------------------
(* eMode, time and the oracle.                                             *)

\* Faulty variant: leaving eMode is not followed by a health check.
SetUserEModeUnchecked(u, category) ==
    /\ category # NoCategory =>
          /\ eModes[category].lt # 0
          /\ \A a \in bor[u] : config[a].category = category
    /\ emode' = [emode EXCEPT ![u] = category]
    /\ UNCHANGED <<config, eModes, price, hBal, vBal, sBal, li, vi, cash, coll,
                   bor, isoDebt>>

SetUserEMode(u, category) ==
    /\ category # NoCategory =>
          /\ eModes[category].lt # 0
          /\ \A a \in bor[u] : config[a].category = category
    /\ emode' = [emode EXCEPT ![u] = category]
    /\ UNCHANGED <<config, eModes, price, hBal, vBal, sBal, li, vi, cash, coll,
                   bor, isoDebt>>
    /\ emode[u] # NoCategory => Healthy(u)'

\* Time passes: a reserve with debt earns, and its debts grow, by any factors.
Accrue(a, income, variable, stable) ==
    /\ \E u \in User : Debt(u, a) # 0
    /\ RayMul(li[a], income) <= MaxIndex /\ RayMul(vi[a], variable) <= MaxIndex
    /\ \A u \in User : RayMul(sBal[u][a], stable) <= MaxBalance
    /\ li' = [li EXCEPT ![a] = RayMul(@, income)]
    /\ vi' = [vi EXCEPT ![a] = RayMul(@, variable)]
    /\ sBal' = [u \in User |-> [sBal[u] EXCEPT ![a] = RayMul(@, stable)]]
    /\ UNCHANGED <<config, eModes, price, hBal, vBal, cash, coll, bor, emode,
                   isoDebt>>

SetPrice(source, p) ==
    /\ price' = [price EXCEPT ![source] = p]
    /\ UNCHANGED <<config, eModes, hBal, vBal, sBal, li, vi, cash, coll, bor,
                   emode, isoDebt>>

-----------------------------------------------------------------------------
Init ==
    /\ config \in Configs
    /\ eModes = EModes
    /\ price = InitialPrice
    /\ hBal = [u \in Account |-> [a \in Asset |-> 0]]
    /\ vBal = [u \in User |-> [a \in Asset |-> 0]]
    /\ sBal = [u \in User |-> [a \in Asset |-> 0]]
    /\ li = [a \in Asset |-> RAY]
    /\ vi = [a \in Asset |-> RAY]
    /\ cash = [a \in Asset |-> 0]
    /\ coll = [u \in User |-> {}]
    /\ bor = [u \in User |-> {}]
    /\ emode = [u \in User |-> NoCategory]
    /\ isoDebt = [a \in Asset |-> 0]

\* Calls that change who holds an hToken or what backs a position.
CollateralCalls ==
    \E u \in User, a \in Asset :
        \/ \E amount \in Amounts : Supply(u, a, amount)
        \/ \E amount \in Amounts \cup {HBalance(u, a)} :
              \/ Withdraw(u, a, amount)
              \/ \E to \in User : Transfer(u, to, a, amount)
        \/ EnableCollateral(u, a)
        \/ DisableCollateral(u, a)

BorrowCalls ==
    \E u \in User, a \in Asset, amount \in Amounts, mode \in RateMode :
        Borrow(u, a, amount, mode)

\* Calls that change what a user owes already.
DebtCalls ==
    \E u \in User, a \in Asset :
        \/ \E offered \in Amounts \cup {Debt(u, a), HBalance(u, a)},
              mode \in RateMode, useHTokens \in BOOLEAN :
                Repay(u, a, offered, mode, useHTokens)
        \/ SwapToVariable(u, a)
        \/ SwapToStable(u, a)

LiquidationOf(u) ==
    \E c, d \in Asset :
        /\ LiquidationAllowed(u, c, d)
        /\ \E liquidator \in User, receiveHToken \in BOOLEAN,
              debtToCover \in Amounts \cup {Debt(u, d)} :
                Liquidate(liquidator, u, c, d, debtToCover, receiveHToken)

LiquidationCalls == \E u \in User : LiquidationOf(u)

EModeCalls ==
    \E u \in User, category \in Category \cup {NoCategory} :
        SetUserEMode(u, category)

\* What happens to the pool without a call.
Environment ==
    \/ \E a \in Asset, income, variable, stable \in Growth :
          Accrue(a, income, variable, stable)
    \/ \E source \in Asset \cup Category : \E p \in Prices[source] : SetPrice(source, p)

Calls == CollateralCalls \/ DebtCalls \/ EModeCalls

Next == Calls \/ BorrowCalls \/ LiquidationCalls \/ Environment

Spec == Init /\ [][Next]_vars

-----------------------------------------------------------------------------
(* Properties.                                                             *)

\* Every variable has its type: no balance, index or counter underflows.
TypeOK ==
    /\ config \in [Asset -> AssetConfig]
    /\ eModes \in [Category -> EModeConfig]
    /\ price \in [Asset \cup Category -> Nat \ {0}]
    /\ hBal \in [Account -> [Asset -> Nat]]
    /\ vBal \in [User -> [Asset -> Nat]]
    /\ sBal \in [User -> [Asset -> Nat]]
    /\ li \in [Asset -> {i \in Nat : i >= RAY}]
    /\ vi \in [Asset -> {i \in Nat : i >= RAY}]
    /\ cash \in [Asset -> Nat]
    /\ coll \in [User -> SUBSET Asset]
    /\ bor \in [User -> SUBSET Asset]
    /\ emode \in [User -> Category \cup {NoCategory}]
    /\ isoDebt \in [Asset -> Nat]

\* No debt escapes the account data: a user who owes anything in a reserve, even
\* one scaled unit left by rounding, has its borrowing bit set, in whatever order
\* he borrowed, swapped, repaid and was liquidated (GenericLogic skips the
\* reserves whose bits are clear).
DebtIsFlagged ==
    \A u \in User, a \in Asset :
        vBal[u][a] # 0 \/ sBal[u][a] # 0 => a \in bor[u]

\* A reserve with a debt ceiling never backs a position together with another
\* reserve: supplies, received transfers, seized hTokens and explicit calls
\* included (validateUseAsCollateral).
IsolatedIsAlone ==
    \A u \in User : \A a \in coll[u] : config[a].ceiling # 0 => coll[u] = {a}

\* Who borrows a siloed reserve borrows nothing else (validateBorrow).
SiloedIsAlone ==
    \A u \in User : \A a \in bor[u] : config[a].siloed => bor[u] = {a}

\* A user in eMode only owes reserves of his category, which is why a
\* liquidation prices his debt at the category's source without looking.
EModeDebtInCategory ==
    \A u \in User :
        emode[u] # NoCategory =>
            \A a \in Asset : Debt(u, a) # 0 => config[a].category = emode[u]

\* What is owed of a reserve, whatever the debt tokens report.
TotalDebt(a) == VariableSupply(a) + Total(sBal, a)

\* While no interest accrues, the pool neither loses nor creates underlying:
\* what the hToken holds and what users owe is what hToken holders claim.
Conservation ==
    \A a \in Asset :
        cash[a] + TotalDebt(a) = RayMul(ScaledSupply(a), li[a])

\* A liquidation takes at most the debt it may cover and the collateral there is,
\* and what it seizes is worth at most the debt repaid plus the bonus: up to one
\* unit of the debt for the truncation and half a unit of each for the rounding.
QuoteIsFair ==
    \A u \in User, c, d \in Asset :
        LiquidationAllowed(u, c, d) =>
            \A debtToCover \in Amounts \cup {Debt(u, d)} :
                LET repaid == DebtToLiquidate(u, d, debtToCover)
                    quote == Quote(u, c, d, repaid)
                    seized == quote.collateral + quote.fee
                    pc == CollateralPrice(u, c) * config[d].unit
                    pd == DebtPrice(u, d) * config[c].unit
                IN /\ quote.debt <= repaid
                   /\ seized <= HBalance(u, c)
                   /\ 2 * pc * seized * PERCENTAGE_FACTOR
                         <= pd * (2 * quote.debt + 1) * LiquidationBonus(u, c)
                               + (pc + 2 * pd) * PERCENTAGE_FACTOR

\* An unhealthy account can be liquidated at once, by someone, as soon as one of
\* its collaterals is worth one unit of one of its debts and the bonus (below
\* that a liquidation rounds to nothing and reverts).
UnhealthyIsLiquidatable ==
    \A u \in User, c, d \in Asset :
        /\ ~Healthy(u)
        /\ c \in Backing(u) /\ Debt(u, d) # 0
        /\ CollateralValue(u, c) * config[d].unit * PERCENTAGE_FACTOR
              >= DebtPrice(u, d) * LiquidationBonus(u, c)
        => ENABLED LiquidationOf(u)

\* What backs u's debts when the average threshold, which is truncated, is taken one
\* unit higher.
Cover(u) == PercentMul(TotalCollateral(u), Average(u, Threshold) + 1)

\* Healthy but for that truncation.
NearlyHealthy(u) ==
    LET debt == TotalDebtValue(u) IN debt # 0 => WadDiv(Cover(u), debt) >= WAD

\* How far a balance may be from the amounts that moved it, at index i.
Drift(i) == IF i = RAY THEN 0 ELSE 1 + i \div (2 * RAY)

\* What the roundings of a call on reserve a are worth in the account data of u:
\* one truncation, and the drifts of an hToken and of a variable debt.
RoundingWorth(u, a) ==
    LET worth(n) == (n * AssetPrice(u, a) + config[a].unit - 1) \div config[a].unit
    IN 1 + worth(Drift(li[a])) + worth(Drift(vi[a]))

\* After the call u's debts are backed but for slack, and but for what the health
\* factor was rounded up by before it.
BackedButFor(u, slack) ==
    WAD * TotalDebtValue(u)'
        <= WAD * (Cover(u)' + slack) + (TotalDebtValue(u) \div 2)

\* An account that was healthy before a call still is.  One that was given
\* collateral with a lower threshold may miss it by the truncation of the average,
\* one whose debt in some reserve moved by what its roundings are worth, and one
\* that enters eMode, which is not followed by a health check, by any amount (see
\* EModeEntryKeepsHealth).
StaysHealthy(u) ==
    Healthy(u) =>
        \/ Healthy(u)'
        \/ emode[u] = NoCategory /\ emode'[u] # NoCategory
        \/ /\ \E a \in coll'[u] : a \notin coll[u] \/ hBal'[u][a] > hBal[u][a]
           /\ NearlyHealthy(u)'
        \/ \E a \in Asset :
              /\ vBal'[u][a] # vBal[u][a] \/ sBal'[u][a] # sBal[u][a]
              /\ BackedButFor(u, RoundingWorth(u, a))

KeepsHealth == \A u \in User : StaysHealthy(u)

\* No call makes a healthy account unhealthy, the account's own or another's, by
\* more than roundings: only time and prices do.
CallsKeepHealth == [][KeepsHealth \/ Environment]_vars

\* Entering or leaving eMode leaves a healthy account healthy.
EModeEntryKeepsHealth ==
    [][\A u \in User :
          emode'[u] # emode[u] /\ Healthy(u) => Healthy(u)']_vars

\* What users isolated in c owe, in the units of its ceiling.
Exposure(c) ==
    MapThenSumSet(
        LAMBDA u : MapThenSumSet(LAMBDA a : CeilingAmount(a, Debt(u, a)), bor[u]),
        {u \in User : IsolatedIn(u, coll) = {c}})

\* A borrow against an isolated collateral leaves the total exposure within the
\* debt ceiling (no interest accrues here, which the ceiling does not count).
BorrowWithinCeiling ==
    [][\A c \in Asset : isoDebt'[c] > isoDebt[c] => Exposure(c)' <= config[c].ceiling]_vars

=============================================================================
