---------------------------- MODULE Calculations ----------------------------
(***************************************************************************)
(* What the test suites expect of a reserve: the second implementation of  *)
(* its accounting, test-suites/helpers/utils/calculations.ts.              *)
(*                                                                         *)
(* It works on what the data provider and the tokens show of a chain       *)
(* before a call (getReserveData and getUserData of helpers.ts) and gives  *)
(* what they should show after it.  A reserve's data is r before the call  *)
(* and e as expected after it, a user's data is u and x; t is the time of  *)
(* the transaction and `now' that of the second reading.                   *)
(***************************************************************************)
EXTENDS Reserve, WadRayTs

-----------------------------------------------------------------------------
(* Reading the chain.                                                      *)

\* The debt's share of the supply with and without what is unbacked.
UsageRatio(stable, variable, liquidity) ==
    IF stable + variable = 0 THEN 0
    ELSE rayDiv(stable + variable, liquidity + stable + variable)

getReserveData(c) ==
    [unbacked |-> c.unbacked,
     accruedToTreasuryScaled |-> c.accrued,
     availableLiquidity |-> c.cash,
     totalLiquidity |-> c.cash + c.unbacked,
     borrowUsageRatio |-> UsageRatio(StableSupply(c), VariableSupply(c), c.cash),
     supplyUsageRatio |-> UsageRatio(StableSupply(c), VariableSupply(c), c.cash + c.unbacked),
     totalStableDebt |-> StableSupply(c),
     totalVariableDebt |-> VariableSupply(c),
     liquidityRate |-> c.liquidityRate,
     stableBorrowRate |-> c.stableRate,
     variableBorrowRate |-> c.variableRate,
     averageStableBorrowRate |-> c.s.avg,
     liquidityIndex |-> c.li,
     variableBorrowIndex |-> c.vi,
     principalStableDebt |-> c.s.supply,
     scaledVariableDebt |-> c.v.total,
     lastUpdateTimestamp |-> c.lastUpdate,
     totalStableDebtLastUpdated |-> c.s.supplyStamp]

\* A user's data; the wallet is that of the caller, if one is named.
getUserData(c, user, sender) ==
    [scaledHTokenBalance |-> c.h.scaled[user],
     currentHTokenBalance |-> HBalance(c, user),
     currentStableDebt |-> StableBalance(c, user),
     currentVariableDebt |-> VariableBalance(c, user),
     principalStableDebt |-> c.s.principal[user],
     scaledVariableDebt |-> c.v.scaled[user],
     stableBorrowRate |-> c.s.rate[user],
     stableRateLastUpdated |-> c.s.stamp[user],
     liquidityRate |-> c.liquidityRate,
     usageAsCollateralEnabled |-> user \in c.coll,
     walletBalance |-> c.wallet[sender]]

-----------------------------------------------------------------------------
(* Interest.                                                               *)

calcLinearInterest(rate, now, last) == div(rate * (now - last), SECONDS_PER_YEAR) + RAY

calcCompoundedInterest(rate, now, last) ==
    LET dt == now - last
        less2 == IF dt > 2 THEN dt - 2 ELSE 0
        powerTwo == div(rayMul(rate, rate), SECONDS_PER_YEAR * SECONDS_PER_YEAR)
        powerThree == div(rayMul(powerTwo, rate), SECONDS_PER_YEAR)
    IN IF dt = 0 THEN RAY
       ELSE RAY + div(rate * dt, SECONDS_PER_YEAR)
                + div(dt * (dt - 1) * powerTwo, 2)
                + div(dt * (dt - 1) * less2 * powerThree, 6)

calcExpectedReserveNormalizedIncome(r, now) ==
    IF r.liquidityRate = 0 THEN r.liquidityIndex
    ELSE rayMul(calcLinearInterest(r.liquidityRate, now, r.lastUpdateTimestamp),
                r.liquidityIndex)

calcExpectedReserveNormalizedDebt(rate, index, last, now) ==
    IF rate = 0 THEN index ELSE rayMul(calcCompoundedInterest(rate, now, last), index)

calcExpectedHTokenBalance(r, u, now) ==
    rayMul(u.scaledHTokenBalance, calcExpectedReserveNormalizedIncome(r, now))

calcExpectedScaledHTokenBalance(u, index, added, taken) ==
    u.scaledHTokenBalance + rayDiv(added, index) - rayDiv(taken, index)

calcExpectedVariableDebtTokenBalance(r, u, now) ==
    rayMul(u.scaledVariableDebt,
           calcExpectedReserveNormalizedDebt(r.variableBorrowRate, r.variableBorrowIndex,
                                             r.lastUpdateTimestamp, now))

calcExpectedStableDebtTokenBalance(principal, rate, last, now) ==
    IF rate = 0 \/ now = last \/ last = 0 THEN principal
    ELSE rayMul(principal, calcCompoundedInterest(rate, now, last))

\* The stable debt of a user and the total of all of them, at a time.
UserStableDebt(u, now) ==
    calcExpectedStableDebtTokenBalance(u.principalStableDebt, u.stableBorrowRate,
                                       u.stableRateLastUpdated, now)

calcExpectedTotalStableDebt(principal, avg, last, now) ==
    rayMul(calcCompoundedInterest(avg, now, last), principal)

StableDebtUntil(r, now) ==
    calcExpectedTotalStableDebt(r.principalStableDebt, r.averageStableBorrowRate,
                                r.totalStableDebtLastUpdated, now)

calcExpectedTotalVariableDebt(r, index) == rayMul(r.scaledVariableDebt, index)

\* The average rate, exact where the token's is in RAY.
calcExpectedAverageStableBorrowRate(avg, total, changed, rate) ==
    IF total + changed = 0 THEN 0
    ELSE div(avg * total + rate * changed, total + changed)

calcExpectedAverageStableBorrowRateRebalance(avg, total, changed, rate) ==
    IF total + wadToRay(changed) = 0 THEN 0
    ELSE rayDiv(rayMul(avg, total) + rayMul(rate, wadToRay(changed)),
                total + wadToRay(changed))

calcExpectedUserStableRate(balance, rateBefore, amount, rateNew) ==
    div(balance * rateBefore + amount * rateNew, balance + amount)

-----------------------------------------------------------------------------
(* Rates.                                                                  *)

calcExpectedOverallBorrowRate(stable, variable, variableRate, avg) ==
    IF stable + variable = 0 THEN 0
    ELSE rayDiv(rayMul(wadToRay(variable), variableRate) + rayMul(wadToRay(stable), avg),
                wadToRay(stable + variable))

calcExpectedInterestRates(stable, variable, avg, available, total) ==
    LET usage == UsageRatio(stable, variable, available)
        optimal == Strategy.optimalUsage
        excess == rayDiv(usage - optimal, RAY - optimal)
        Sloped(base, slope1, slope2) ==
            IF usage > optimal THEN base + slope1 + rayMul(slope2, excess)
            ELSE base + rayDiv(rayMul(slope1, usage), optimal)
        stableShare == IF stable > 0 THEN rayDiv(stable, stable + variable) ELSE 0
        offset == IF stableShare > Strategy.optimalStableToTotal
                  THEN rayMul(Strategy.stableExcessOffset,
                              rayDiv(stableShare - Strategy.optimalStableToTotal,
                                     RAY - Strategy.optimalStableToTotal))
                  ELSE 0
        variableRate == Sloped(Strategy.baseVariable, Strategy.variableSlope1,
                               Strategy.variableSlope2)
    IN [variable |-> variableRate,
        stable |-> Sloped(BaseStableRate, Strategy.stableSlope1, Strategy.stableSlope2)
                     + offset,
        liquidity |->
            percentMul(rayMul(calcExpectedOverallBorrowRate(stable, variable, variableRate, avg),
                              UsageRatio(stable, variable, total)),
                       PERCENTAGE_FACTOR - ReserveFactor)]

-----------------------------------------------------------------------------
(* The steps every expectation is made of.                                 *)

calcExpectedLiquidityIndex(r, t) ==
    IF r.supplyUsageRatio = 0 THEN r.liquidityIndex
    ELSE rayMul(calcLinearInterest(r.liquidityRate, t, r.lastUpdateTimestamp),
                r.liquidityIndex)

calcExpectedVariableBorrowIndex(r, t) ==
    IF r.totalVariableDebt = 0 THEN r.variableBorrowIndex
    ELSE rayMul(calcCompoundedInterest(r.variableBorrowRate, t, r.lastUpdateTimestamp),
                r.variableBorrowIndex)

calcExpectedAccrueToTreasury(r, e) ==
    LET variable(d) == rayMul(d.scaledVariableDebt, d.variableBorrowIndex)
        stableBefore == StableDebtUntil(r, r.lastUpdateTimestamp)
        minted == percentMul(variable(e) + e.totalStableDebt - variable(r) - stableBefore,
                             ReserveFactor)
    IN IF ReserveFactor # 0 /\ minted > 0
       THEN r.accruedToTreasuryScaled + rayDiv(minted, e.liquidityIndex)
       ELSE r.accruedToTreasuryScaled

updateState(r, t) ==
    LET index == calcExpectedVariableBorrowIndex(r, t)
        e == [r EXCEPT !.liquidityIndex = calcExpectedLiquidityIndex(r, t),
                       !.variableBorrowIndex = index,
                       !.totalStableDebt = StableDebtUntil(r, t),
                       !.totalVariableDebt = calcExpectedTotalVariableDebt(r, index)]
    IN [e EXCEPT !.accruedToTreasuryScaled = calcExpectedAccrueToTreasury(r, e)]

calcExpectedUsageRatios(e) ==
    [e EXCEPT !.borrowUsageRatio =
                  UsageRatio(e.totalStableDebt, e.totalVariableDebt, e.availableLiquidity),
              !.supplyUsageRatio =
                  UsageRatio(e.totalStableDebt, e.totalVariableDebt, e.totalLiquidity)]

updateTotalLiquidityAndUsageRatio(e) ==
    calcExpectedUsageRatios([e EXCEPT !.totalLiquidity = e.availableLiquidity + e.unbacked])

updateLiquidityAndUsageRatios(r, e, added, taken) ==
    updateTotalLiquidityAndUsageRatio(
        [e EXCEPT !.availableLiquidity = r.availableLiquidity + added - taken])

\* e with the rates that debts of these amounts call for.
RatesOf(e, rates) ==
    [e EXCEPT !.liquidityRate = rates.liquidity,
              !.stableBorrowRate = rates.stable,
              !.variableBorrowRate = rates.variable]

WithRates(e, stable, variable) ==
    RatesOf(e, calcExpectedInterestRates(stable, variable, e.averageStableBorrowRate,
                                         e.availableLiquidity, e.totalLiquidity))

\* e with the rates its own debts call for.
Rated(e) ==
    updateTotalLiquidityAndUsageRatio(WithRates(e, e.totalStableDebt, e.totalVariableDebt))

-----------------------------------------------------------------------------
(* What a reserve should look like after a call.                           *)

calcExpectedReserveDataAfterDeposit(amount, r, t) ==
    Rated(updateLiquidityAndUsageRatios(r, updateState(r, t), amount, 0))

calcExpectedReserveDataAfterWithdraw(amount, r, u, t) ==
    LET taken == IF amount = MAX_UINT_AMOUNT THEN calcExpectedHTokenBalance(r, u, t) ELSE amount
    IN Rated(updateLiquidityAndUsageRatios(r, updateState(r, t), 0, taken))

\* The average is recomputed with nothing added.
SameAverage(r, e) ==
    [e EXCEPT !.averageStableBorrowRate =
        calcExpectedAverageStableBorrowRate(r.averageStableBorrowRate, r.totalStableDebt,
                                            0, r.stableBorrowRate)]

calcExpectedReserveDataAfterMintUnbacked(amount, r, t) ==
    LET e == [updateState(r, t) EXCEPT !.unbacked = r.unbacked + amount]
    IN Rated(SameAverage(r, updateLiquidityAndUsageRatios(r, e, 0, 0)))

calcExpectedReserveDataAfterBackUnbacked(scaledSupply, amount, fee, r, t) ==
    LET e == updateState(r, t)
        backing == IF amount < r.unbacked THEN amount ELSE r.unbacked
        toProtocol == percentMul(fee, BridgeFee)
        claim == rayMul(scaledSupply, e.liquidityIndex)
                   + rayMul(e.accruedToTreasuryScaled, e.liquidityIndex)
        index == rayMul(rayDiv(wadToRay(fee - toProtocol), wadToRay(claim)) + RAY,
                        e.liquidityIndex)
        backed == [e EXCEPT !.liquidityIndex = index,
                            !.accruedToTreasuryScaled = @ + rayDiv(toProtocol, index),
                            !.unbacked = r.unbacked - backing]
    IN Rated(SameAverage(r, updateLiquidityAndUsageRatios(r, backed, backing + fee, 0)))

\* e with a loan of each kind, and the rates that follow.
WithStableLoan(e, r, amount, stable) ==
    WithRates([e EXCEPT !.averageStableBorrowRate =
                            calcExpectedAverageStableBorrowRate(
                                r.averageStableBorrowRate, stable, amount, r.stableBorrowRate),
                        !.principalStableDebt = stable + amount],
              stable + amount, e.totalVariableDebt)

WithVariableLoan(e, r, amount, t) ==
    LET scaled == e.scaledVariableDebt + rayDiv(amount, e.variableBorrowIndex)
    IN WithRates([e EXCEPT !.scaledVariableDebt = scaled],
                 calcExpectedStableDebtTokenBalance(r.principalStableDebt,
                                                    r.averageStableBorrowRate,
                                                    r.totalStableDebtLastUpdated, t),
                 rayMul(scaled, e.variableBorrowIndex))

\* The second reading may come long after the loan: debts are carried on to it
\* at the new rates.
DebtsCarriedOn(e, mode, r, t, now) ==
    calcExpectedUsageRatios(
        [e EXCEPT
            !.totalStableDebt =
                IF mode = "stable"
                THEN calcExpectedTotalStableDebt(e.principalStableDebt,
                                                 e.averageStableBorrowRate, t, now)
                ELSE StableDebtUntil(r, now),
            !.totalVariableDebt =
                rayMul(e.scaledVariableDebt,
                       calcExpectedReserveNormalizedDebt(e.variableBorrowRate,
                                                         e.variableBorrowIndex, t, now))])

calcExpectedReserveDataAfterBorrow(amount, mode, r, t, now) ==
    LET lent == [updateLiquidityAndUsageRatios(r, updateState(r, t), 0, amount)
                    EXCEPT !.lastUpdateTimestamp = t]
    IN IF mode = "stable"
       THEN DebtsCarriedOn(WithStableLoan(lent, r, amount, StableDebtUntil(r, t)), mode, r, t, now)
       ELSE DebtsCarriedOn(WithVariableLoan(lent, r, amount, t), mode, r, t, now)

\* e with the whole stable debt it is left with, at an average rate.
StableLeft(e, debt, avg) ==
    [e EXCEPT !.principalStableDebt = debt,
              !.totalStableDebt = debt,
              !.averageStableBorrowRate = avg]

\* The amount is not capped by the debt: stories never repay more, except all.
calcExpectedReserveDataAfterRepay(amount, mode, r, u, t) ==
    LET debt == IF mode = "stable" THEN UserStableDebt(u, t)
                ELSE calcExpectedVariableDebtTokenBalance(r, u, t)
        repaid == IF amount = MAX_UINT_AMOUNT THEN debt ELSE amount
        e == updateLiquidityAndUsageRatios(r, updateState(r, t), repaid, 0)
        stable == StableDebtUntil(r, t)
        avg == calcExpectedAverageStableBorrowRate(r.averageStableBorrowRate, stable,
                                                   negated(repaid), u.stableBorrowRate)
        scaled == r.scaledVariableDebt - rayDiv(repaid, e.variableBorrowIndex)
        burnt == IF mode = "variable"
                 THEN [e EXCEPT !.scaledVariableDebt = scaled,
                                !.totalVariableDebt = rayMul(scaled, e.variableBorrowIndex)]
                 ELSE IF stable < repaid \/ avg < 0
                 THEN StableLeft(e, 0, 0)
                 ELSE StableLeft(e, stable - repaid, avg)
    IN [Rated(calcExpectedUsageRatios(burnt)) EXCEPT !.lastUpdateTimestamp = t]

calcExpectedReserveDataAfterSwapRateMode(r, u, mode, t) ==
    LET e == updateLiquidityAndUsageRatios(r, updateState(r, t), 0, 0)
        variableDebt == calcExpectedVariableDebtTokenBalance(r, u, t)
        stableDebt == UserStableDebt(u, t)
        scaled == IF mode = "stable"
                  THEN r.scaledVariableDebt + rayDiv(stableDebt, e.variableBorrowIndex)
                  ELSE r.scaledVariableDebt - rayDiv(variableDebt, e.variableBorrowIndex)
        left == IF mode = "stable"
                THEN StableLeft(e, e.totalStableDebt - stableDebt,
                                calcExpectedAverageStableBorrowRate(
                                    r.averageStableBorrowRate, e.totalStableDebt,
                                    negated(stableDebt), u.stableBorrowRate))
                ELSE StableLeft(e, e.totalStableDebt + variableDebt,
                                calcExpectedAverageStableBorrowRate(
                                    r.averageStableBorrowRate, r.totalStableDebt,
                                    variableDebt, r.stableBorrowRate))
    IN Rated([left EXCEPT !.scaledVariableDebt = scaled,
                          !.totalVariableDebt = rayMul(scaled, e.variableBorrowIndex)])

calcExpectedReserveDataAfterStableRateRebalance(r, u, t) ==
    LET e == updateLiquidityAndUsageRatios(r, updateState(r, t), 0, 0)
        debt == UserStableDebt(u, t)
        total == StableDebtUntil(r, t)
        avgBefore == calcExpectedAverageStableBorrowRateRebalance(
                         r.averageStableBorrowRate, total, negated(debt), u.stableBorrowRate)
        avg == calcExpectedAverageStableBorrowRateRebalance(
                   avgBefore, total - debt, debt, r.stableBorrowRate)
    IN Rated(StableLeft(e, total, avg))

-----------------------------------------------------------------------------
(* What a user should look like after a call.                              *)

\* u with its debts of both modes at a time.
WithDebts(r, u, now) ==
    [u EXCEPT !.currentStableDebt = UserStableDebt(u, now),
              !.currentVariableDebt = calcExpectedVariableDebtTokenBalance(r, u, now)]

\* The principal of the stable debt is expected to be the variable debt.
calcExpectedUserDataAfterDeposit(amount, r, e, u, t) ==
    [WithDebts(r, u, t) EXCEPT
        !.principalStableDebt = calcExpectedVariableDebtTokenBalance(r, u, t),
        !.liquidityRate = e.liquidityRate,
        !.scaledHTokenBalance = calcExpectedScaledHTokenBalance(u, e.liquidityIndex, amount, 0),
        !.currentHTokenBalance = calcExpectedHTokenBalance(r, u, t) + amount,
        !.usageAsCollateralEnabled = u.currentHTokenBalance = 0 \/ @,
        !.walletBalance = @ - amount]

calcExpectedUserDataAfterWithdraw(amount, r, e, u, t) ==
    LET balance == calcExpectedHTokenBalance(r, u, t)
        taken == IF amount = MAX_UINT_AMOUNT THEN balance ELSE amount
    IN [WithDebts(r, u, t) EXCEPT
            !.liquidityRate = e.liquidityRate,
            !.scaledHTokenBalance =
                calcExpectedScaledHTokenBalance(u, e.liquidityIndex, 0, taken),
            !.currentHTokenBalance = balance - taken,
            !.usageAsCollateralEnabled =
                u.currentHTokenBalance = 0 \/ (@ /\ balance # taken),
            !.walletBalance = @ + taken]

\* A variable loan is expected to leave the user with the debt of everyone.
calcExpectedUserDataAfterBorrow(amount, mode, r, e, u, t, now) ==
    LET stable == UserStableDebt(u, t)
        owing == IF mode = "stable"
                 THEN [u EXCEPT !.principalStableDebt = stable + amount,
                                !.stableRateLastUpdated = t,
                                !.stableBorrowRate =
                                    calcExpectedUserStableRate(stable, @, amount,
                                                               r.stableBorrowRate)]
                 ELSE [u EXCEPT !.scaledVariableDebt =
                                    r.scaledVariableDebt + rayDiv(amount, e.variableBorrowIndex)]
    IN [WithDebts(e, owing, now) EXCEPT
            !.liquidityRate = e.liquidityRate,
            !.currentHTokenBalance = calcExpectedHTokenBalance(e, u, now),
            !.walletBalance = @ + amount]

\* After repaying a variable debt, the stable debt and its principal are
\* expected in each other's place.
calcExpectedUserDataAfterRepay(amount, mode, r, e, u, self, t, now) ==
    LET variable == calcExpectedVariableDebtTokenBalance(r, u, now)
        stable == UserStableDebt(u, now)
        repaid == IF amount # MAX_UINT_AMOUNT THEN amount
                  ELSE IF mode = "stable" THEN stable ELSE variable
        scaled == u.scaledVariableDebt - rayDiv(repaid, e.variableBorrowIndex)
        left == stable - repaid
        owing == IF mode = "stable"
                 THEN [u EXCEPT !.currentVariableDebt = variable,
                                !.principalStableDebt = left,
                                !.currentStableDebt = left,
                                !.stableBorrowRate = IF left = 0 THEN 0 ELSE @,
                                !.stableRateLastUpdated = IF left = 0 THEN 0 ELSE t]
                 ELSE [u EXCEPT !.currentStableDebt = u.principalStableDebt,
                                !.principalStableDebt = stable,
                                !.scaledVariableDebt = scaled,
                                !.currentVariableDebt = rayMul(scaled, e.variableBorrowIndex)]
    IN [owing EXCEPT !.liquidityRate = e.liquidityRate,
                     !.currentHTokenBalance = calcExpectedHTokenBalance(r, u, t),
                     !.walletBalance = IF self THEN @ - repaid ELSE @]

\* Everything else as it was read before the call, at that time.
calcExpectedUserDataAfterSetUseAsCollateral(use, u) ==
    [u EXCEPT !.usageAsCollateralEnabled = use]

calcExpectedUserDataAfterSwapRateMode(r, e, u, mode, t) ==
    LET stable == UserStableDebt(u, t)
        variable == calcExpectedVariableDebtTokenBalance(r, u, t)
        scaled == u.scaledVariableDebt + rayDiv(stable, e.variableBorrowIndex)
        owing == IF mode = "stable"
                 THEN [u EXCEPT !.currentStableDebt = 0,
                                !.principalStableDebt = 0,
                                !.stableBorrowRate = 0,
                                !.stableRateLastUpdated = 0,
                                !.scaledVariableDebt = scaled,
                                !.currentVariableDebt = rayMul(scaled, e.variableBorrowIndex)]
                 ELSE [u EXCEPT !.principalStableDebt = u.currentStableDebt + variable,
                                !.currentStableDebt = u.currentStableDebt + variable,
                                !.stableBorrowRate =
                                    calcExpectedUserStableRate(stable, @, variable,
                                                               r.stableBorrowRate),
                                !.stableRateLastUpdated = t,
                                !.scaledVariableDebt = 0,
                                !.currentVariableDebt = 0]
    IN [owing EXCEPT !.currentHTokenBalance = calcExpectedHTokenBalance(r, u, t),
                     !.liquidityRate = e.liquidityRate]

\* The user's new rate is expected to be the average of all users.
calcExpectedUserDataAfterStableRateRebalance(r, e, u, t) ==
    [WithDebts(r, u, t) EXCEPT
        !.principalStableDebt = UserStableDebt(u, t),
        !.stableRateLastUpdated = t,
        !.stableBorrowRate = e.averageStableBorrowRate,
        !.liquidityRate = e.liquidityRate,
        !.currentHTokenBalance = calcExpectedHTokenBalance(r, u, t)]

=============================================================================
