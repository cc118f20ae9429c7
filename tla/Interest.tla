------------------------------ MODULE Interest ------------------------------
(***************************************************************************)
(* Interest: libraries/math/MathUtils.sol and the rate strategy of a       *)
(* reserve, pool/DefaultReserveInterestRateStrategy.sol.  Rates are yearly *)
(* and in RAY, amounts in WAD; the length of a year and the ratio of the   *)
(* two scales are parameters.                                              *)
(***************************************************************************)
EXTENDS WadRay

CONSTANTS
    SECONDS_PER_YEAR,
    WAD_RAY_RATIO,      \* RAY / WAD (10^9)
    Strategy,           \* the immutables of the strategy contract
    ReserveFactor       \* the protocol's share of the interest

StrategyParameter ==
    {"optimalUsage", "baseVariable", "variableSlope1", "variableSlope2",
     "stableSlope1", "stableSlope2", "baseStableOffset", "stableExcessOffset",
     "optimalStableToTotal"}

ASSUME InterestAssumption ==
    /\ SECONDS_PER_YEAR \in Nat \ {0}
    /\ WAD_RAY_RATIO \in Nat \ {0}
    /\ RAY = WAD * WAD_RAY_RATIO
    /\ Strategy \in [StrategyParameter -> Nat]
    /\ Strategy.optimalUsage \in 1 .. RAY
    /\ Strategy.optimalStableToTotal \in 0 .. RAY
    /\ ReserveFactor \in 0 .. PERCENTAGE_FACTOR

WadToRay(a) == a * WAD_RAY_RATIO

\* What one RAY grows to in dt seconds at a simple rate.
LinearInterest(rate, dt) == RAY + (rate * dt) \div SECONDS_PER_YEAR

\* The same, compounded every second: three terms of the binomial series.
CompoundedInterest(rate, dt) ==
    LET less2 == IF dt > 2 THEN dt - 2 ELSE 0
        power2 == RayMul(rate, rate) \div (SECONDS_PER_YEAR * SECONDS_PER_YEAR)
        power3 == RayMul(power2, rate) \div SECONDS_PER_YEAR
    IN IF dt = 0 THEN RAY
       ELSE RAY + (rate * dt) \div SECONDS_PER_YEAR
                + (dt * (dt - 1) * power2) \div 2
                + (dt * (dt - 1) * less2 * power3) \div 6

\* The average rate of the whole debt, weighted by amounts.
OverallBorrowRate(stable, variable, variableRate, avgStableRate) ==
    IF stable + variable = 0 THEN 0
    ELSE RayDiv(RayMul(WadToRay(variable), variableRate)
                    + RayMul(WadToRay(stable), avgStableRate),
                WadToRay(stable + variable))

\* The kinked curve both borrow rates follow.
Curve(base, slope1, slope2, usage) ==
    IF usage > Strategy.optimalUsage
    THEN base + slope1
              + RayMul(slope2, RayDiv(usage - Strategy.optimalUsage,
                                      RAY - Strategy.optimalUsage))
    ELSE base + RayDiv(RayMul(slope1, usage), Strategy.optimalUsage)

\* What stable borrowers pay for too large a stable share of the debt.
ExcessOffset(stableToTotal) ==
    IF stableToTotal > Strategy.optimalStableToTotal
    THEN RayMul(Strategy.stableExcessOffset,
                RayDiv(stableToTotal - Strategy.optimalStableToTotal,
                       RAY - Strategy.optimalStableToTotal))
    ELSE 0

BaseStableRate == Strategy.variableSlope1 + Strategy.baseStableOffset

\* Faulty variant: suppliers are paid the protocol's share as well.
WholeInterest(rate) == rate

\* The part of the interest that goes to suppliers.
SuppliersPart(rate) == PercentMul(rate, PERCENTAGE_FACTOR - ReserveFactor)

\* calculateInterestRates, for the debts and the liquidity a handler leaves.
InterestRates(stable, variable, avgStableRate, available, unbacked) ==
    LET debt == stable + variable
        Share(a, b) == IF debt = 0 THEN 0 ELSE RayDiv(a, b)
        usage == Share(debt, available + debt)
        variableRate == Curve(Strategy.baseVariable, Strategy.variableSlope1,
                              Strategy.variableSlope2, usage)
    IN [variable |-> variableRate,
        stable |-> Curve(BaseStableRate, Strategy.stableSlope1,
                         Strategy.stableSlope2, usage)
                     + ExcessOffset(Share(stable, debt)),
        liquidity |->
            SuppliersPart(
                RayMul(OverallBorrowRate(stable, variable, variableRate, avgStableRate),
                       Share(debt, available + debt + unbacked)))]

=============================================================================
