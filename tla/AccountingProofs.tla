-------------------------- MODULE AccountingProofs --------------------------
(***************************************************************************)
(* What holds of the books of a reserve for any accounts, amounts, times,  *)
(* scales and rate strategies: they keep their types, indexes never fall,  *)
(* scaled totals are the sums of the balances, a call that moves funds     *)
(* leaves the rates its outcome implies, and its events tell the balances. *)
(***************************************************************************)
EXTENDS Accounting, WadRayProofs, Sums

-----------------------------------------------------------------------------
(* Interest.                                                               *)

\* A larger dividend has no smaller quotient.
LEMMA DivMonotone ==
    \A m, n \in Nat, d \in Nat \ {0} : m <= n => m \div d <= n \div d
<1> SUFFICES ASSUME NEW m \in Nat, NEW n \in Nat, NEW d \in Nat \ {0}, m <= n
             PROVE  m \div d <= n \div d
  OBVIOUS
<1> DEFINE q == m \div d
<1>1. q \in Nat /\ d * q <= m
  BY DivBrackets, Zenon
<1> HIDE DEF q
<1>2. d * q <= n
  BY <1>1, SMT
<1>3. q <= n \div d
  BY <1>1, <1>2, DivAtLeast, Zenon
<1> QED
  BY <1>3 DEF q

\* Products order as their factors do.
LEMMA ProductsOrdered ==
    \A a, b, x, y \in Nat : a <= b /\ x <= y => a * x <= b * y
<1> SUFFICES ASSUME NEW a \in Nat, NEW b \in Nat, NEW x \in Nat, NEW y \in Nat,
                    a <= b, x <= y
             PROVE  a * x <= b * y
  OBVIOUS
<1>1. a * x <= a * y /\ a * y <= b * y
  BY OrderOfProducts, Zenon
<1>2. a * x \in Nat /\ a * y \in Nat /\ b * y \in Nat
  BY ProductType, Zenon
<1> QED
  BY <1>1, <1>2, SMT

\* rayMul grows with both its factors.
LEMMA RayMulMonotone ==
    \A a, b, x, y \in Nat : a <= b /\ x <= y => RayMul(a, x) <= RayMul(b, y)
<1> SUFFICES ASSUME NEW a \in Nat, NEW b \in Nat, NEW x \in Nat, NEW y \in Nat,
                    a <= b, x <= y
             PROVE  RayMul(a, x) <= RayMul(b, y)
  OBVIOUS
<1> DEFINE p == a * x
           q == b * y
<1>1. p \in Nat /\ q \in Nat /\ p <= q
  BY ProductType, ProductsOrdered, Zenon
<1> HIDE DEF p, q
<1>2. p + HALF_RAY \in Nat /\ q + HALF_RAY \in Nat /\ p + HALF_RAY <= q + HALF_RAY
  BY <1>1, HalfRay, SMT
<1>3. (p + HALF_RAY) \div RAY <= (q + HALF_RAY) \div RAY
  BY <1>2, DivMonotone, HalfRay, Zenon
<1> QED
  BY <1>3, Zenon DEF RayMul, p, q

\* What grows by a factor of at least one ray does not fall.
LEMMA GrowthGrows ==
    \A g, i \in Nat : g >= RAY => RayMul(g, i) \in Nat /\ RayMul(g, i) >= i
<1> SUFFICES ASSUME NEW g \in Nat, NEW i \in Nat, g >= RAY
             PROVE  RayMul(g, i) \in Nat /\ RayMul(g, i) >= i
  OBVIOUS
<1>1. RayMul(g, i) = RayMul(i, g)
  <2>1. g * i = i * g
    BY SMT
  <2> QED BY <2>1, Zenon DEF RayMul
<1> QED
  BY <1>1, RayMulType, RayMulGrows, Zenon

\* A part divided by its whole is at most one ray.
LEMMA ShareAtMostOne ==
    \A a \in Nat, b \in Nat \ {0} : a <= b => RayDiv(a, b) <= RAY
<1> SUFFICES ASSUME NEW a \in Nat, NEW b \in Nat \ {0}, a <= b
             PROVE  RayDiv(a, b) <= RAY
  OBVIOUS
<1> DEFINE p == a * RAY
           q == b * RAY
           h == b \div 2
<1>1. p \in Nat /\ q \in Nat /\ p <= q
  BY ProductType, OrderOfProducts, HalfRay, Zenon
<1>2. h \in Nat /\ h < b
  BY SMT
<1>3. b * (RAY + 1) = q + b
  BY HalfRay, SMT
<1> HIDE DEF p, q, h
<1>4. p + h \in Nat /\ p + h < b * (RAY + 1)
  BY <1>1, <1>2, <1>3, SMT
<1>5. (p + h) \div b <= RAY
  BY <1>4, DivAtMost, HalfRay, SMT
<1> QED
  BY <1>5 DEF RayDiv, p, h

\* Simple interest: a factor of at least one ray.
LEMMA LinearGrows ==
    \A r, dt \in Nat : LinearInterest(r, dt) \in Nat /\ LinearInterest(r, dt) >= RAY
<1> SUFFICES ASSUME NEW r \in Nat, NEW dt \in Nat
             PROVE  LinearInterest(r, dt) \in Nat /\ LinearInterest(r, dt) >= RAY
  OBVIOUS
<1>1. r * dt \in Nat /\ SECONDS_PER_YEAR \in Nat \ {0}
  BY ProductType, InterestAssumption
<1>2. (r * dt) \div SECONDS_PER_YEAR \in Nat
  BY <1>1, DivType
<1> DEFINE q == (r * dt) \div SECONDS_PER_YEAR
<1> HIDE DEF q
<1>3. RAY + q \in Nat /\ RAY + q >= RAY
  BY <1>2, HalfRay, SMT DEF q
<1> QED
  BY <1>3 DEF LinearInterest, q

\* Compound interest: a factor of at least one ray, and the longer the larger.
LEMMA CompoundedGrows ==
    \A r, m, n \in Nat : m <= n =>
        /\ CompoundedInterest(r, m) \in Nat /\ CompoundedInterest(r, m) >= RAY
        /\ CompoundedInterest(r, n) \in Nat
        /\ CompoundedInterest(r, m) <= CompoundedInterest(r, n)
<1> SUFFICES ASSUME NEW r \in Nat, NEW m \in Nat, NEW n \in Nat, m <= n
    PROVE  /\ CompoundedInterest(r, m) \in Nat /\ CompoundedInterest(r, m) >= RAY
           /\ CompoundedInterest(r, n) \in Nat
           /\ CompoundedInterest(r, m) <= CompoundedInterest(r, n)
  OBVIOUS
<1> DEFINE Y == SECONDS_PER_YEAR
           p2 == RayMul(r, r) \div (Y * Y)
           p3 == RayMul(p2, r) \div Y
           Less(d) == IF d > 2 THEN d - 2 ELSE 0
           First(d) == (r * d) \div Y
           Second(d) == (d * (d - 1) * p2) \div 2
           Third(d) == (d * (d - 1) * Less(d) * p3) \div 6
<1>1. Y \in Nat \ {0} /\ Y * Y \in Nat \ {0}
  BY InterestAssumption, SMT
<1>2. p2 \in Nat
  BY <1>1, RayMulType, DivType, Zenon
<1>3. p3 \in Nat
  BY <1>1, <1>2, RayMulType, DivType, Zenon
<1> HIDE DEF p2, p3
<1>4. ASSUME NEW d \in Nat, d # 0
      PROVE  /\ r * d \in Nat /\ d - 1 \in Nat /\ Less(d) \in Nat
             /\ d * (d - 1) \in Nat /\ d * (d - 1) * p2 \in Nat
             /\ d * (d - 1) * Less(d) \in Nat /\ d * (d - 1) * Less(d) * p3 \in Nat
  <2>1. d - 1 \in Nat /\ Less(d) \in Nat
    BY <1>4, SMT
  <2> HIDE DEF Less
  <2>2. r * d \in Nat /\ d * (d - 1) \in Nat
    BY <2>1, ProductType, Zenon
  <2>3. d * (d - 1) * p2 \in Nat /\ d * (d - 1) * Less(d) \in Nat
    BY <1>2, <2>1, <2>2, ProductType, Zenon
  <2> QED BY <1>3, <2>1, <2>2, <2>3, ProductType, Zenon
<1>5. ASSUME NEW d \in Nat, d # 0
      PROVE  First(d) \in Nat /\ Second(d) \in Nat /\ Third(d) \in Nat
  <2>1. 2 \in Nat \ {0} /\ 6 \in Nat \ {0}
    BY SMT
  <2> HIDE DEF Less
  <2> QED BY <1>1, <1>4, <1>5, <2>1, DivType, Zenon
<1>6. ASSUME NEW d \in Nat
      PROVE  CompoundedInterest(r, d)
               = IF d = 0 THEN RAY ELSE RAY + First(d) + Second(d) + Third(d)
  BY Zenon DEF CompoundedInterest, p2, p3
<1>7. ASSUME m # 0
      PROVE  First(m) <= First(n) /\ Second(m) <= Second(n) /\ Third(m) <= Third(n)
  <2>1. n # 0 /\ m - 1 \in Nat /\ n - 1 \in Nat /\ m - 1 <= n - 1
        /\ Less(m) \in Nat /\ Less(n) \in Nat /\ Less(m) <= Less(n)
        /\ 2 \in Nat \ {0} /\ 6 \in Nat \ {0} /\ p2 <= p2 /\ p3 <= p3 /\ r <= r
    BY <1>2, <1>3, <1>7, SMT
  <2> HIDE DEF Less
  <2>2. r * m <= r * n /\ m * (m - 1) <= n * (n - 1)
    BY <2>1, ProductsOrdered, Zenon
  <2>3. /\ m * (m - 1) * p2 <= n * (n - 1) * p2
        /\ m * (m - 1) * Less(m) <= n * (n - 1) * Less(n)
    BY <1>2, <1>4, <1>7, <2>1, <2>2, ProductsOrdered, Zenon
  <2>4. m * (m - 1) * Less(m) * p3 <= n * (n - 1) * Less(n) * p3
    BY <1>3, <1>4, <1>7, <2>1, <2>3, ProductsOrdered, Zenon
  <2>5. /\ r * m \in Nat /\ r * n \in Nat
        /\ m * (m - 1) * p2 \in Nat /\ n * (n - 1) * p2 \in Nat
        /\ m * (m - 1) * Less(m) * p3 \in Nat /\ n * (n - 1) * Less(n) * p3 \in Nat
    BY <1>4, <1>7, <2>1
  <2>6. First(m) <= First(n)
    BY <1>1, <2>2, <2>5, DivMonotone, Zenon
  <2>7. Second(m) <= Second(n)
    BY <2>1, <2>3, <2>5, DivMonotone, Zenon
  <2>8. Third(m) <= Third(n)
    BY <2>1, <2>4, <2>5, DivMonotone, Zenon
  <2> QED BY <2>6, <2>7, <2>8
<1> HIDE DEF First, Second, Third
<1> QED
  BY <1>5, <1>6, <1>7, HalfRay, SMT

\* The parameters of the strategy are naturals, and its kinks at most one ray.
LEMMA StrategyType ==
    /\ Strategy.optimalUsage \in Nat \ {0} /\ Strategy.optimalUsage <= RAY
    /\ Strategy.optimalStableToTotal \in Nat
    /\ Strategy.optimalStableToTotal <= RAY
    /\ Strategy.baseVariable \in Nat /\ Strategy.variableSlope1 \in Nat
    /\ Strategy.variableSlope2 \in Nat /\ Strategy.stableSlope1 \in Nat
    /\ Strategy.stableSlope2 \in Nat /\ Strategy.stableExcessOffset \in Nat
    /\ BaseStableRate \in Nat
<1>1. \A p \in StrategyParameter : Strategy[p] \in Nat
  BY InterestAssumption
<1>2. /\ Strategy.baseVariable \in Nat /\ Strategy.variableSlope1 \in Nat
      /\ Strategy.variableSlope2 \in Nat /\ Strategy.stableSlope1 \in Nat
      /\ Strategy.stableSlope2 \in Nat /\ Strategy.stableExcessOffset \in Nat
      /\ Strategy.baseStableOffset \in Nat
  BY <1>1, Zenon DEF StrategyParameter
<1>3. Strategy.optimalUsage \in 1 .. RAY /\ Strategy.optimalStableToTotal \in 0 .. RAY
  BY InterestAssumption
<1> QED
  BY <1>2, <1>3, HalfRay, SMT DEF BaseStableRate

\* A borrow rate is a natural at any usage that is a share.
LEMMA CurveType ==
    \A base, slope1, slope2, usage \in Nat :
        usage <= RAY => Curve(base, slope1, slope2, usage) \in Nat
<1> SUFFICES ASSUME NEW base \in Nat, NEW slope1 \in Nat, NEW slope2 \in Nat,
                    NEW usage \in Nat, usage <= RAY
             PROVE  Curve(base, slope1, slope2, usage) \in Nat
  OBVIOUS
<1> DEFINE o == Strategy.optimalUsage
<1>1. o \in Nat \ {0} /\ o <= RAY /\ RAY \in Nat
  BY StrategyType, HalfRay
<1> HIDE DEF o
<1>2. CASE usage > o
  <2> DEFINE x == RayMul(slope2, RayDiv(usage - o, RAY - o))
  <2>1. usage - o \in Nat /\ RAY - o \in Nat \ {0}
    BY <1>1, <1>2, SMT
  <2>2. x \in Nat
    BY <2>1, RayDivType, RayMulType, Zenon
  <2> HIDE DEF x
  <2>3. base + slope1 + x \in Nat
    BY <2>2, SMT
  <2> QED BY <1>2, <2>3, Zenon DEF Curve, x, o
<1>3. CASE ~(usage > o)
  <2> DEFINE x == RayDiv(RayMul(slope1, usage), o)
  <2>1. x \in Nat
    BY <1>1, RayDivType, RayMulType, Zenon
  <2> HIDE DEF x
  <2>2. base + x \in Nat
    BY <2>1, SMT
  <2> QED BY <1>3, <2>2, Zenon DEF Curve, x, o
<1> QED
  BY <1>2, <1>3

\* So is the premium for too large a stable share.
LEMMA ExcessType ==
    \A share \in Nat : share <= RAY => ExcessOffset(share) \in Nat
<1> SUFFICES ASSUME NEW share \in Nat, share <= RAY
             PROVE  ExcessOffset(share) \in Nat
  OBVIOUS
<1> DEFINE o == Strategy.optimalStableToTotal
<1>1. o \in Nat /\ o <= RAY /\ RAY \in Nat /\ Strategy.stableExcessOffset \in Nat
  BY StrategyType, HalfRay
<1> HIDE DEF o
<1>2. CASE share > o
  <2>1. share - o \in Nat /\ RAY - o \in Nat \ {0}
    BY <1>1, <1>2, SMT
  <2>2. RayMul(Strategy.stableExcessOffset, RayDiv(share - o, RAY - o)) \in Nat
    BY <1>1, <2>1, RayDivType, RayMulType, Zenon
  <2> QED BY <1>2, <2>2, Zenon DEF ExcessOffset, o
<1>3. CASE ~(share > o)
  BY <1>3, Zenon DEF ExcessOffset, o
<1> QED
  BY <1>2, <1>3

\* Amounts in rays are naturals, and only nothing is nothing.
LEMMA WadToRayType ==
    \A a \in Nat : WadToRay(a) \in Nat /\ (a # 0 => WadToRay(a) # 0)
<1> SUFFICES ASSUME NEW a \in Nat
             PROVE  WadToRay(a) \in Nat /\ (a # 0 => WadToRay(a) # 0)
  OBVIOUS
<1>1. WAD_RAY_RATIO \in Nat \ {0}
  BY InterestAssumption
<1>2. a * WAD_RAY_RATIO \in Nat /\ (a # 0 => a * WAD_RAY_RATIO # 0)
  BY <1>1, SMT
<1> QED
  BY <1>2 DEF WadToRay

\* The weighted average of two rates is a natural where there is any amount.
LEMMA WeightedType ==
    \A x, p, y, q \in Nat : x + y # 0 => Weighted(x, p, y, q) \in Nat
<1> SUFFICES ASSUME NEW x \in Nat, NEW p \in Nat, NEW y \in Nat, NEW q \in Nat, x + y # 0
             PROVE  Weighted(x, p, y, q) \in Nat
  OBVIOUS
<1>1. x + y \in Nat
  BY SMT
<1>2. RayMul(p, WadToRay(x)) \in Nat /\ RayMul(q, WadToRay(y)) \in Nat
      /\ WadToRay(x + y) \in Nat \ {0}
  BY <1>1, WadToRayType, RayMulType
<1>3. RayMul(p, WadToRay(x)) + RayMul(q, WadToRay(y)) \in Nat
  BY <1>2, SMT
<1> QED
  BY <1>2, <1>3, RayDivType, Zenon DEF Weighted

\* And so is the average over the whole debt.
LEMMA OverallType ==
    \A s, v, p, q \in Nat : OverallBorrowRate(s, v, p, q) \in Nat
<1> SUFFICES ASSUME NEW s \in Nat, NEW v \in Nat, NEW p \in Nat, NEW q \in Nat
             PROVE  OverallBorrowRate(s, v, p, q) \in Nat
  OBVIOUS
<1>1. CASE s + v = 0
  BY <1>1, Zenon DEF OverallBorrowRate
<1>2. CASE s + v # 0
  <2>1. s + v \in Nat
    BY SMT
  <2>2. RayMul(WadToRay(v), p) \in Nat /\ RayMul(WadToRay(s), q) \in Nat
        /\ WadToRay(s + v) \in Nat \ {0}
    BY <1>2, <2>1, WadToRayType, RayMulType
  <2>3. RayMul(WadToRay(v), p) + RayMul(WadToRay(s), q) \in Nat
    BY <2>2, SMT
  <2> QED BY <1>2, <2>2, <2>3, RayDivType, Zenon DEF OverallBorrowRate
<1> QED
  BY <1>1, <1>2

\* The strategy answers with naturals whatever the debts and the liquidity: it
\* never divides by nothing, not even with the kink at 100%, nor goes below zero.
LEMMA RatesType ==
    ASSUME NEW s \in Nat, NEW v \in Nat, NEW avg \in Nat, NEW available \in Nat,
           NEW unbacked \in Nat
    PROVE  LET rates == InterestRates(s, v, avg, available, unbacked)
           IN /\ rates.variable \in Nat /\ rates.stable \in Nat
              /\ rates.liquidity \in Nat
<1> DEFINE debt == s + v
           Share(a, b) == IF debt = 0 THEN 0 ELSE RayDiv(a, b)
           usage == Share(debt, available + debt)
           toTotal == Share(s, debt)
           supplied == Share(debt, available + debt + unbacked)
           variableRate == Curve(Strategy.baseVariable, Strategy.variableSlope1,
                                 Strategy.variableSlope2, usage)
           stableCurve == Curve(BaseStableRate, Strategy.stableSlope1,
                                Strategy.stableSlope2, usage)
           overall == OverallBorrowRate(s, v, variableRate, avg)
<1>1. /\ debt \in Nat /\ available + debt \in Nat /\ available + debt + unbacked \in Nat
      /\ debt <= available + debt /\ s <= debt
      /\ debt # 0 => available + debt # 0 /\ available + debt + unbacked # 0
  BY SMT
<1>2. /\ usage \in Nat /\ usage <= RAY /\ toTotal \in Nat /\ toTotal <= RAY
      /\ supplied \in Nat
  <2>1. CASE debt = 0
    BY <2>1, HalfRay, SMT
  <2>2. CASE debt # 0
    <3> HIDE DEF debt
    <3>1. /\ RayDiv(debt, available + debt) \in Nat /\ RayDiv(s, debt) \in Nat
          /\ RayDiv(debt, available + debt + unbacked) \in Nat
      BY <1>1, <2>2, RayDivType
    <3>2. /\ RayDiv(debt, available + debt) <= RAY /\ RayDiv(s, debt) <= RAY
      BY <1>1, <2>2, ShareAtMostOne
    <3> QED BY <2>2, <3>1, <3>2, Zenon
  <2> QED BY <2>1, <2>2
<1> HIDE DEF debt, usage, toTotal, supplied
<1>3. variableRate \in Nat /\ stableCurve \in Nat /\ ExcessOffset(toTotal) \in Nat
  BY <1>2, StrategyType, CurveType, ExcessType, Zenon
<1> HIDE DEF variableRate, stableCurve
<1>4. stableCurve + ExcessOffset(toTotal) \in Nat
  BY <1>3, SMT
<1>5. overall \in Nat
  BY <1>3, OverallType, Zenon
<1> HIDE DEF overall
<1>6. SuppliersPart(RayMul(overall, supplied)) \in Nat
  <2>1. PERCENTAGE_FACTOR - ReserveFactor \in Nat
    <3>1. ReserveFactor \in 0 .. PERCENTAGE_FACTOR
      BY InterestAssumption
    <3> QED BY <3>1, HalfFactor, SMT
  <2> QED BY <1>2, <1>5, <2>1, RayMulType, PercentMulType, Zenon DEF SuppliersPart
<1>7. InterestRates(s, v, avg, available, unbacked)
        = [variable |-> variableRate, stable |-> stableCurve + ExcessOffset(toTotal),
           liquidity |-> SuppliersPart(RayMul(overall, supplied))]
  BY Zenon DEF InterestRates, debt, usage, toTotal, supplied, variableRate, stableCurve,
               overall
<1> QED
  BY <1>3, <1>4, <1>6, <1>7

-----------------------------------------------------------------------------
(* The tokens.                                                             *)

\* There are finitely many accounts.
LEMMA AccountsFinite == IsFiniteSet(User) /\ IsFiniteSet(Account)
<1>1. IsFiniteSet(User)
  BY ReserveAssumption
<1>2. IsFiniteSet({Treasury})
  BY FS_Singleton
<1> QED
  BY <1>1, <1>2, FS_Union DEF Account

\* The total of a token is the sum of its balances.
Adds(t) == t.total = SumFunction(t.scaled)

\* Replacing one balance and moving the total alike keeps it so.
LEMMA BalanceChange ==
    ASSUME NEW A, IsFiniteSet(A), NEW f \in [A -> Nat], NEW g \in [A -> Nat],
           NEW u \in A, \A y \in A : y # u => g[y] = f[y]
    PROVE  /\ SumFunction(g) = SumFunction(f) - f[u] + g[u]
           /\ SumFunction(f) \in Nat /\ SumFunction(g) \in Nat
<1>1. f \in [A -> Int] /\ g \in [A -> Int]
  OBVIOUS
<1>2. SumFunction(g) = SumFunction(f) - f[u] + g[u]
  BY <1>1, TotalChange
<1> QED
  BY <1>2, TotalType

\* A mint adds to the balance of one account and to the total.
LEMMA MintKeepsTotal ==
    ASSUME NEW A, IsFiniteSet(A), NEW t \in ScaledTokens(A), Adds(t), NEW u \in A,
           NEW amount \in Nat, NEW index \in Nat \ {0}
    PROVE  LET n == MintScaled(t, u, amount, index)
           IN n \in ScaledTokens(A) /\ Adds(n)
<1> DEFINE n == MintScaled(t, u, amount, index)
           x == RayDiv(amount, index)
           b == t.scaled[u] + x
<1>1. x \in Nat
  BY RayDivType, Zenon
<1>2. n = [scaled |-> [t.scaled EXCEPT ![u] = b],
           index |-> [t.index EXCEPT ![u] = index], total |-> t.total + x]
  BY Zenon DEF MintScaled
<1> HIDE DEF n, x
<1>3. /\ t.scaled \in [A -> Nat] /\ t.index \in [A -> Nat]
      /\ t.scaled[u] \in Nat /\ t.total \in Nat
  BY DEF ScaledTokens
<1>4. b \in Nat
  BY <1>1, <1>3, SMT
<1>5. /\ n.scaled \in [A -> Nat] /\ n.index \in [A -> Nat]
      /\ n.scaled[u] = b /\ n.total = t.total + x
      /\ \A y \in A : y # u => n.scaled[y] = t.scaled[y]
  BY <1>2, <1>3, <1>4
<1>6. /\ SumFunction(n.scaled) = SumFunction(t.scaled) - t.scaled[u] + b
      /\ SumFunction(n.scaled) \in Nat
  BY <1>3, <1>5, BalanceChange
<1>7. n.total = SumFunction(n.scaled)
  BY <1>1, <1>3, <1>5, <1>6, SMT DEF Adds
<1>8. n \in ScaledTokens(A)
  BY <1>2, <1>5, <1>6, <1>7 DEF ScaledTokens
<1> QED
  BY <1>7, <1>8 DEF n, Adds

\* A burn within the balance takes from both.
LEMMA BurnKeepsTotal ==
    ASSUME NEW A, IsFiniteSet(A), NEW t \in ScaledTokens(A), Adds(t), NEW u \in A,
           NEW amount \in Nat, NEW index \in Nat \ {0}, CanBurn(t, u, amount, index)
    PROVE  LET n == BurnScaled(t, u, amount, index)
           IN n \in ScaledTokens(A) /\ Adds(n)
<1> DEFINE n == BurnScaled(t, u, amount, index)
           x == RayDiv(amount, index)
           b == t.scaled[u] - x
<1>1. x \in Nat /\ x <= t.scaled[u]
  BY RayDivType, Zenon DEF CanBurn
<1>2. n = [scaled |-> [t.scaled EXCEPT ![u] = b],
           index |-> [t.index EXCEPT ![u] = index], total |-> t.total - x]
  BY Zenon DEF BurnScaled
<1> HIDE DEF n, x
<1>3. /\ t.scaled \in [A -> Nat] /\ t.index \in [A -> Nat]
      /\ t.scaled[u] \in Nat /\ t.total \in Nat
  BY DEF ScaledTokens
<1>4. b \in Nat
  BY <1>1, <1>3, SMT
<1>5. /\ n.scaled \in [A -> Nat] /\ n.index \in [A -> Nat]
      /\ n.scaled[u] = b /\ n.total = t.total - x
      /\ \A y \in A : y # u => n.scaled[y] = t.scaled[y]
  BY <1>2, <1>3, <1>4
<1>6. /\ SumFunction(n.scaled) = SumFunction(t.scaled) - t.scaled[u] + b
      /\ SumFunction(n.scaled) \in Nat
  BY <1>3, <1>5, BalanceChange
<1>7. n.total = SumFunction(n.scaled)
  BY <1>1, <1>3, <1>5, <1>6, SMT DEF Adds
<1>8. n \in ScaledTokens(A)
  BY <1>2, <1>5, <1>6, <1>7 DEF ScaledTokens
<1> QED
  BY <1>7, <1>8 DEF n, Adds

\* A transfer, to oneself or another, leaves the sum.
LEMMA TransferKeepsTotal ==
    ASSUME NEW A, IsFiniteSet(A), NEW t \in ScaledTokens(A), Adds(t),
           NEW from \in A, NEW to \in A,
           NEW amount \in Nat, NEW index \in Nat \ {0},
           RayDiv(amount, index) <= t.scaled[from]
    PROVE  LET n == TransferScaled(t, from, to, amount, index)
           IN n \in ScaledTokens(A) /\ Adds(n)
<1> DEFINE n == TransferScaled(t, from, to, amount, index)
           x == RayDiv(amount, index)
           less == [t.scaled EXCEPT ![from] = t.scaled[from] - x]
           moved == [less EXCEPT ![to] = less[to] + x]
<1>1. x \in Nat /\ x <= t.scaled[from]
  BY RayDivType, Zenon
<1>2. n = [scaled |-> moved,
           index |-> [t.index EXCEPT ![from] = index, ![to] = index],
           total |-> t.total]
  BY Zenon DEF TransferScaled
<1> HIDE DEF n, x
<1>3. t.scaled \in [A -> Nat] /\ t.index \in [A -> Nat] /\ t.total \in Nat
  BY DEF ScaledTokens
<1>4. t.scaled[from] - x \in Nat
  BY <1>1, <1>3, SMT
<1>5. less \in [A -> Nat]
  BY <1>3, <1>4
<1>6. SumFunction(less) = SumFunction(t.scaled) - t.scaled[from] + (t.scaled[from] - x)
  <2>1. t.scaled \in [A -> Int] /\ t.scaled[from] - x \in Int
    BY <1>3, <1>4
  <2> QED BY <2>1, TotalUpdate
<1> HIDE DEF less
<1>7. less[to] + x \in Nat
  BY <1>1, <1>5, SMT
<1>8. SumFunction(moved) = SumFunction(less) - less[to] + (less[to] + x)
  <2> DEFINE put == less[to] + x
  <2>1. less \in [A -> Int] /\ put \in Int
    BY <1>5, <1>7
  <2> HIDE DEF put
  <2>2. SumFunction([less EXCEPT ![to] = put]) = SumFunction(less) - less[to] + put
    BY <2>1, TotalUpdate
  <2> QED BY <2>2 DEF put
<1>9. moved \in [A -> Nat]
  BY <1>5, <1>7
<1> HIDE DEF moved
<1>10. SumFunction(less) \in Nat /\ SumFunction(t.scaled) \in Nat
  BY <1>3, <1>5, TotalType
<1>11. SumFunction(moved) = SumFunction(t.scaled)
  <2>1. t.scaled[from] \in Nat /\ less[to] \in Nat
    BY <1>3, <1>5
  <2> QED BY <1>1, <1>6, <1>8, <1>10, <2>1, SMT
<1>12. n \in ScaledTokens(A)
  BY <1>2, <1>3, <1>9 DEF ScaledTokens
<1> QED
  BY <1>2, <1>11, <1>12 DEF n, Adds

-----------------------------------------------------------------------------
(* The chain.                                                              *)

\* The chains c and d differ in the fields F only.
SameBut(c, d, F) == DOMAIN d = Stored /\ \A f \in Stored \ F : d[f] = c[f]

\* A chain whose scaled totals add up, and one brought to the present.
Sound(c) == IsChain(c) /\ Adds(c.h) /\ Adds(c.v)
Fresh(c) == Sound(c) /\ c.lastUpdate = c.now

\* The indexes of the present are at least the stored ones.
LEMMA IndexesGrow ==
    ASSUME NEW c, IsChain(c)
    PROVE  /\ NormalizedIncome(c) \in Nat /\ NormalizedIncome(c) >= c.li
           /\ NormalizedDebt(c) \in Nat /\ NormalizedDebt(c) >= c.vi
           /\ NextDebtIndex(c) \in Nat /\ NextDebtIndex(c) >= c.vi
<1>1. /\ c.li \in Nat /\ c.vi \in Nat /\ c.liquidityRate \in Nat /\ c.variableRate \in Nat
      /\ c.now - c.lastUpdate \in Nat
  <2>1. c.now \in Nat /\ c.lastUpdate \in 0 .. c.now
    BY DEF IsChain
  <2>2. c.now - c.lastUpdate \in Nat
    BY <2>1, SMT
  <2> QED BY <2>2 DEF IsChain
<1> DEFINE dt == c.now - c.lastUpdate
<1>2. /\ LinearInterest(c.liquidityRate, dt) \in Nat
      /\ LinearInterest(c.liquidityRate, dt) >= RAY
  BY <1>1, LinearGrows
<1>3. /\ CompoundedInterest(c.variableRate, dt) \in Nat
      /\ CompoundedInterest(c.variableRate, dt) >= RAY
  <2>1. dt <= dt
    BY <1>1, SMT
  <2> QED BY <1>1, <2>1, CompoundedGrows
<1>4. /\ RayMul(LinearInterest(c.liquidityRate, dt), c.li) \in Nat
      /\ RayMul(LinearInterest(c.liquidityRate, dt), c.li) >= c.li
  BY <1>1, <1>2, GrowthGrows
<1>5. /\ RayMul(CompoundedInterest(c.variableRate, dt), c.vi) \in Nat
      /\ RayMul(CompoundedInterest(c.variableRate, dt), c.vi) >= c.vi
  BY <1>1, <1>3, GrowthGrows
<1>6. c.li >= c.li /\ c.vi >= c.vi
  BY <1>1, SMT
<1>7. NormalizedDebt(c) \in Nat /\ NormalizedDebt(c) >= c.vi
  BY <1>1, <1>5, <1>6, Zenon DEF NormalizedDebt
<1> QED
  BY <1>1, <1>4, <1>6, <1>7, Zenon DEF NormalizedIncome, NextDebtIndex

\* Stable debts and their total are naturals at any time.
LEMMA StableType ==
    ASSUME NEW c, IsChain(c)
    PROVE  /\ StableSupply(c) \in Nat
           /\ \A u \in User : StableBalance(c, u) \in Nat
           /\ c.s.supply \in Nat /\ c.s.avg \in Nat
           /\ \A u \in User : c.s.principal[u] \in Nat /\ c.s.rate[u] \in Nat
<1>1. /\ c.s.supply \in Nat /\ c.s.avg \in Nat /\ c.s.supplyStamp \in Nat
      /\ c.s.principal \in [User -> Nat] /\ c.s.rate \in [User -> Nat]
      /\ c.s.stamp \in [User -> Nat]
  BY DEF IsChain, StableTokens
<1>2. c.now - c.s.supplyStamp \in Nat
  BY <1>1, SMT DEF IsChain
<1>3. CompoundedInterest(c.s.avg, c.now - c.s.supplyStamp) \in Nat
  <2>1. c.now - c.s.supplyStamp <= c.now - c.s.supplyStamp
    BY <1>2, SMT
  <2> QED BY <1>1, <1>2, <2>1, CompoundedGrows
<1>4. StableSupply(c) \in Nat
  <2>1. RayMul(c.s.supply, CompoundedInterest(c.s.avg, c.now - c.s.supplyStamp)) \in Nat
    BY <1>1, <1>3, RayMulType
  <2> QED BY <2>1, Zenon DEF StableSupply
<1>5. ASSUME NEW u \in User PROVE StableBalance(c, u) \in Nat
  <2>1. c.s.principal[u] \in Nat /\ c.s.rate[u] \in Nat /\ c.s.stamp[u] \in Nat
    BY <1>1
  <2>2. c.s.stamp[u] <= c.now /\ c.now \in Nat
    BY DEF IsChain
  <2> DEFINE dt == c.now - c.s.stamp[u]
  <2>3. dt \in Nat /\ dt <= dt
    BY <2>1, <2>2, SMT
  <2> HIDE DEF dt
  <2>4. CompoundedInterest(c.s.rate[u], dt) \in Nat
    BY <2>1, <2>3, CompoundedGrows
  <2>5. RayMul(c.s.principal[u], CompoundedInterest(c.s.rate[u], dt)) \in Nat
    BY <2>1, <2>4, RayMulType
  <2> QED BY <2>5, Zenon DEF StableBalance, dt
<1> QED
  BY <1>1, <1>4, <1>5

\* The treasury's share is of interest that accrued: the debts of the present
\* are at least those at the last update.
LEMMA ShareType ==
    ASSUME NEW c, IsChain(c)
    PROVE  TreasuryShare(c) \in Nat
<1> DEFINE then == c.lastUpdate - c.s.supplyStamp
           now == c.now - c.s.supplyStamp
           before == RayMul(c.s.supply, CompoundedInterest(c.s.avg, then))
           after == RayMul(c.s.supply, CompoundedInterest(c.s.avg, now))
           owed == RayMul(c.v.total, c.vi)
           owing == RayMul(c.v.total, NextDebtIndex(c))
<1>1. /\ c.s.supply \in Nat /\ c.s.avg \in Nat /\ c.s.supplyStamp \in Nat
      /\ c.v.total \in Nat /\ c.vi \in Nat
  BY DEF IsChain, StableTokens, ScaledTokens
<1>2. then \in Nat /\ now \in Nat /\ then <= now
  BY <1>1, SMT DEF IsChain
<1> HIDE DEF then, now
<1>3. /\ CompoundedInterest(c.s.avg, then) \in Nat /\ CompoundedInterest(c.s.avg, now) \in Nat
      /\ CompoundedInterest(c.s.avg, then) <= CompoundedInterest(c.s.avg, now)
  BY <1>1, <1>2, CompoundedGrows
<1>4. before \in Nat /\ after \in Nat /\ before <= after
  <2>1. c.s.supply <= c.s.supply
    BY <1>1, SMT
  <2> QED BY <1>1, <1>3, <2>1, RayMulMonotone, RayMulType, Zenon
<1>5. owed \in Nat /\ owing \in Nat /\ owed <= owing
  <2>1. c.v.total <= c.v.total /\ NextDebtIndex(c) \in Nat /\ c.vi <= NextDebtIndex(c)
    BY <1>1, IndexesGrow, SMT
  <2> QED BY <1>1, <2>1, RayMulMonotone, RayMulType, Zenon
<1>6. StableSupply(c) \in Nat /\ before <= StableSupply(c)
  <2>1. CASE c.s.supply = 0
    <3>1. before = 0
      BY <1>3, <2>1, RayMulZero
    <3> QED BY <2>1, <3>1, StableType, SMT
  <2>2. CASE c.s.supply # 0
    <3>1. StableSupply(c) = after
      BY <2>2, Zenon DEF StableSupply, now
    <3> QED BY <1>4, <3>1
  <2> QED BY <2>1, <2>2
<1> HIDE DEF before, owed, owing
<1>7. owing - owed + StableSupply(c) - before \in Nat
  BY <1>4, <1>5, <1>6, SMT
<1>8. ReserveFactor \in Nat
  <2>1. ReserveFactor \in 0 .. PERCENTAGE_FACTOR
    BY InterestAssumption
  <2> QED BY <2>1, HalfFactor, SMT
<1>9. TreasuryShare(c) = PercentMul(owing - owed + StableSupply(c) - before, ReserveFactor)
  BY Zenon DEF TreasuryShare, owing, owed, before, then
<1> QED
  BY <1>7, <1>8, <1>9, PercentMulType

\* updateState brings a sound chain to the present, and moves indexes up.
LEMMA Updated ==
    ASSUME NEW c, Sound(c), NEW u, u = UpdateState(c)
    PROVE  /\ Fresh(u) /\ u.li >= c.li /\ u.vi >= c.vi
           /\ SameBut(c, u, {"li", "vi", "accrued", "lastUpdate"})
<1> USE DEF Sound
<1>1. /\ c.li \in Nat /\ c.vi \in Nat /\ c.now \in Nat /\ c.lastUpdate \in Nat
      /\ c.accrued \in Nat /\ c.li >= RAY /\ c.vi >= RAY /\ DOMAIN c = Stored
  BY SMT DEF IsChain
<1>2. CASE c.lastUpdate = c.now
  <2>1. u = c
    BY <1>2, Zenon DEF UpdateState
  <2>2. SameBut(c, u, {"li", "vi", "accrued", "lastUpdate"})
    BY <1>1, <2>1 DEF SameBut
  <2> QED BY <1>1, <1>2, <2>1, <2>2, SMT DEF Fresh
<1>3. CASE c.lastUpdate # c.now
  <2> DEFINE li == NormalizedIncome(c)
             vi == NextDebtIndex(c)
             accrued == c.accrued + RayDiv(TreasuryShare(c), li)
  <2>1. /\ SameBut(c, u, {"li", "vi", "accrued", "lastUpdate"})
        /\ u.li = li /\ u.vi = vi /\ u.accrued = accrued /\ u.lastUpdate = c.now
    BY <1>1, <1>3, Zenon DEF UpdateState, SameBut, Stored
  <2>2. li \in Nat /\ li >= c.li /\ vi \in Nat /\ vi >= c.vi
    BY IndexesGrow
  <2> HIDE DEF li, vi
  <2>3. li \in Nat \ {0} /\ li >= RAY /\ vi >= RAY
    BY <1>1, <2>2, HalfRay, SMT
  <2>4. accrued \in Nat
    <3>1. RayDiv(TreasuryShare(c), li) \in Nat
      BY <2>3, ShareType, RayDivType
    <3> QED BY <1>1, <3>1, SMT
  <2> HIDE DEF accrued
  <2>5. u.now = c.now /\ u.s = c.s /\ u.h = c.h /\ u.v = c.v
    BY <2>1, Zenon DEF SameBut, Stored
  <2>6. u.s.supplyStamp <= u.lastUpdate /\ u.lastUpdate \in 0 .. u.now
    <3>1. c.s.supplyStamp \in Nat /\ c.s.supplyStamp <= c.lastUpdate
          /\ c.lastUpdate \in 0 .. c.now /\ c.now \in Nat
      BY DEF IsChain, StableTokens
    <3> QED BY <2>1, <2>5, <3>1, SMT
  <2>7. IsChain(u)
    BY <2>1, <2>2, <2>3, <2>4, <2>6, SMT DEF IsChain, SameBut, Stored
  <2> QED BY <2>1, <2>2, <2>5, <2>7 DEF Fresh
<1> QED
  BY <1>2, <1>3

\* Minting stable debt keeps the token's types, and stamps it with the present.
LEMMA MintStableType ==
    ASSUME NEW c, IsChain(c), NEW u \in User, NEW amount \in Nat, amount # 0,
           NEW rate \in Nat
    PROVE  LET n == MintStable(c, u, amount, rate)
           IN /\ n \in StableTokens /\ n.supplyStamp = c.now
              /\ \A w \in User : n.stamp[w] <= c.now
<1> DEFINE balance == StableBalance(c, u)
           supply == StableSupply(c)
           own == Weighted(balance, c.s.rate[u], amount, rate)
           avg == Weighted(supply, c.s.avg, amount, rate)
           n == MintStable(c, u, amount, rate)
<1>1. /\ balance \in Nat /\ supply \in Nat /\ c.s.avg \in Nat /\ c.s.rate[u] \in Nat
  BY StableType
<1>2. n = [principal |-> [c.s.principal EXCEPT ![u] = balance + amount],
           rate |-> [c.s.rate EXCEPT ![u] = own],
           stamp |-> [c.s.stamp EXCEPT ![u] = c.now],
           supply |-> supply + amount, avg |-> avg, supplyStamp |-> c.now]
  BY Zenon DEF MintStable
<1> HIDE DEF balance, supply, n
<1>3. /\ balance + amount \in Nat /\ supply + amount \in Nat
      /\ balance + amount # 0 /\ supply + amount # 0
  BY <1>1, SMT
<1>4. own \in Nat /\ avg \in Nat
  BY <1>1, <1>3, WeightedType
<1> HIDE DEF own, avg
<1>5. /\ c.s.principal \in [User -> Nat] /\ c.s.rate \in [User -> Nat]
      /\ c.s.stamp \in [User -> Nat] /\ c.now \in Nat
      /\ \A w \in User : c.s.stamp[w] <= c.now
  BY DEF IsChain, StableTokens
<1>6. /\ [c.s.principal EXCEPT ![u] = balance + amount] \in [User -> Nat]
      /\ [c.s.rate EXCEPT ![u] = own] \in [User -> Nat]
      /\ [c.s.stamp EXCEPT ![u] = c.now] \in [User -> Nat]
      /\ \A w \in User : [c.s.stamp EXCEPT ![u] = c.now][w] <= c.now
  BY <1>3, <1>4, <1>5
<1> QED
  BY <1>2, <1>3, <1>4, <1>5, <1>6 DEF StableTokens, n

\* Burning debt from a total leaves a natural total and average rate; the total
\* kept is the one the burn goes on with, unless the whole total is erased.
LEMMA WithoutType ==
    ASSUME NEW supply \in Nat, NEW average \in Nat, NEW amount \in Nat, NEW rate \in Nat
    PROVE  LET w == Without(supply, average, amount, rate)
           IN w.next \in Nat /\ w.avg \in Nat /\ w.kept \in {0, w.next}
<1> DEFINE weight == RayMul(average, WadToRay(supply))
           share == RayMul(rate, WadToRay(amount))
           next == IF supply <= amount THEN 0 ELSE supply - amount
           avg == IF supply <= amount \/ share >= weight THEN 0
                  ELSE RayDiv(weight - share, WadToRay(next))
<1>1. weight \in Nat /\ share \in Nat
  BY WadToRayType, RayMulType
<1>2. next \in Nat /\ (~(supply <= amount) => next # 0)
  BY SMT
<1>3. Without(supply, average, amount, rate)
        = [next |-> next, avg |-> avg, kept |-> IF share >= weight THEN 0 ELSE next]
  BY Zenon DEF Without
<1> HIDE DEF weight, share, next
<1>4. CASE supply <= amount \/ share >= weight
  BY <1>2, <1>3, <1>4
<1>5. CASE ~(supply <= amount \/ share >= weight)
  <2>1. weight - share \in Nat /\ WadToRay(next) \in Nat \ {0}
    <3>1. weight - share \in Nat
      BY <1>1, <1>5, SMT
    <3> QED BY <1>2, <1>5, <3>1, WadToRayType
  <2>2. avg \in Nat
    BY <1>5, <2>1, RayDivType, Zenon
  <2> QED BY <1>2, <1>3, <2>2
<1> QED
  BY <1>4, <1>5

\* So does burning part or all of a stable debt.
LEMMA BurnStableType ==
    ASSUME NEW c, IsChain(c), NEW u \in User, NEW amount \in Nat,
           amount <= StableBalance(c, u)
    PROVE  LET n == BurnStable(c, u, amount)
               burnt == BurntStable(c, u, amount)
           IN /\ n \in StableTokens /\ n.supplyStamp = c.now
              /\ \A w \in User : n.stamp[w] <= c.now
              /\ burnt.next \in Nat /\ n.supply \in {0, burnt.next}
<1> DEFINE balance == StableBalance(c, u)
           burnt == BurntStable(c, u, amount)
           all == amount = balance
           own == IF all THEN 0 ELSE c.s.rate[u]
           stamp == IF all THEN 0 ELSE c.now
           n == BurnStable(c, u, amount)
<1>1. /\ balance \in Nat /\ StableSupply(c) \in Nat /\ c.s.avg \in Nat /\ c.s.rate[u] \in Nat
  BY StableType
<1>2. n = [principal |-> [c.s.principal EXCEPT ![u] = balance - amount],
           rate |-> [c.s.rate EXCEPT ![u] = own],
           stamp |-> [c.s.stamp EXCEPT ![u] = stamp],
           supply |-> burnt.kept, avg |-> burnt.avg, supplyStamp |-> c.now]
  BY Zenon DEF BurnStable
<1>3. burnt.next \in Nat /\ burnt.avg \in Nat /\ burnt.kept \in {0, burnt.next}
  BY <1>1, WithoutType DEF BurntStable
<1>4. balance - amount \in Nat
  BY <1>1, SMT
<1> HIDE DEF balance, burnt, n
<1>5. /\ c.s.principal \in [User -> Nat] /\ c.s.rate \in [User -> Nat]
      /\ c.s.stamp \in [User -> Nat] /\ c.now \in Nat
      /\ \A w \in User : c.s.stamp[w] <= c.now
  BY DEF IsChain, StableTokens
<1>6. own \in Nat /\ stamp \in Nat /\ stamp <= c.now
  BY <1>1, <1>5, SMT
<1> HIDE DEF own, stamp
<1>7. /\ [c.s.principal EXCEPT ![u] = balance - amount] \in [User -> Nat]
      /\ [c.s.rate EXCEPT ![u] = own] \in [User -> Nat]
      /\ [c.s.stamp EXCEPT ![u] = stamp] \in [User -> Nat]
      /\ \A w \in User : [c.s.stamp EXCEPT ![u] = stamp][w] <= c.now
  BY <1>4, <1>5, <1>6
<1>8. burnt.kept \in Nat
  BY <1>3
<1>9. n \in StableTokens
  BY <1>2, <1>3, <1>5, <1>7, <1>8 DEF StableTokens
<1> QED
  BY <1>2, <1>3, <1>7, <1>9 DEF burnt, n

\* Stable debt replaced at the present keeps the chain fresh.
LEMMA StableReplaced ==
    ASSUME NEW c, Fresh(c), NEW d, SameBut(c, d, {"s"}), d.s \in StableTokens,
           d.s.supplyStamp = c.now, \A w \in User : d.s.stamp[w] <= c.now
    PROVE  Fresh(d)
<1>1. d.now = c.now /\ d.lastUpdate = c.lastUpdate /\ d.h = c.h /\ d.v = c.v
  BY Zenon DEF SameBut, Stored
<1>2. c.now <= c.now
  BY SMT DEF Fresh, Sound, IsChain
<1>3. IsChain(d)
  BY <1>1, <1>2, SMT DEF Fresh, Sound, IsChain, SameBut, Stored
<1> QED
  BY <1>1, <1>3 DEF Fresh, Sound

\* So does variable debt whose total adds up.
LEMMA VariableReplaced ==
    ASSUME NEW c, Fresh(c), NEW d, SameBut(c, d, {"v"}), d.v \in ScaledTokens(User),
           Adds(d.v)
    PROVE  Fresh(d)
<1>1. d.now = c.now /\ d.lastUpdate = c.lastUpdate /\ d.h = c.h
  BY Zenon DEF SameBut, Stored
<1>2. IsChain(d)
  BY SMT DEF Fresh, Sound, IsChain, SameBut, Stored
<1> QED
  BY <1>1, <1>2 DEF Fresh, Sound

\* Setting the rates changes nothing else; they are those of the liquidity left.
LEMMA RatesSet ==
    ASSUME NEW c, Fresh(c), NEW stable \in Nat, NEW added \in Nat, NEW taken \in Nat,
           taken <= c.cash + added, NEW r, r = SetRates(c, stable, added, taken)
    PROVE  /\ Fresh(r) /\ SameBut(c, r, {"liquidityRate", "stableRate", "variableRate"})
           /\ RatesOf(r) = InterestRates(stable, RayMul(r.v.total, r.vi), r.s.avg,
                                         r.cash + added - taken, r.unbacked)
<1> DEFINE rates == InterestRates(stable, RayMul(c.v.total, c.vi), c.s.avg,
                                  c.cash + added - taken, c.unbacked)
<1>1. DOMAIN c = Stored /\ c.cash \in Nat /\ c.vi \in Nat /\ c.v.total \in Nat
      /\ c.s.avg \in Nat /\ c.unbacked \in Nat
  <2>1. c.unbacked \in 0 .. UnbackedCap /\ UnbackedCap \in Nat
    BY ReserveAssumption DEF Fresh, Sound, IsChain
  <2>2. c.unbacked \in Nat
    BY <2>1, SMT
  <2> QED BY <2>2 DEF Fresh, Sound, IsChain, ScaledTokens, StableTokens
<1>2. RayMul(c.v.total, c.vi) \in Nat /\ c.cash + added - taken \in Nat
  <2>1. c.cash + added - taken \in Nat
    BY <1>1, SMT
  <2> QED BY <1>1, <2>1, RayMulType
<1>3. rates.variable \in Nat /\ rates.stable \in Nat /\ rates.liquidity \in Nat
  BY <1>1, <1>2, RatesType
<1>4. rates = [variable |-> rates.variable, stable |-> rates.stable,
               liquidity |-> rates.liquidity]
  BY Zenon DEF InterestRates
<1>5. r = AtRates(c, rates)
  BY Zenon DEF SetRates
<1> HIDE DEF rates
<1>6. /\ SameBut(c, r, {"liquidityRate", "stableRate", "variableRate"})
      /\ r.liquidityRate = rates.liquidity /\ r.stableRate = rates.stable
      /\ r.variableRate = rates.variable
  BY <1>1, <1>5, Zenon DEF AtRates, SameBut, Stored
<1>7. /\ r.now = c.now /\ r.lastUpdate = c.lastUpdate /\ r.h = c.h /\ r.v = c.v
      /\ r.vi = c.vi /\ r.s = c.s /\ r.cash = c.cash /\ r.unbacked = c.unbacked
  BY <1>6, Zenon DEF SameBut, Stored
<1>8. IsChain(r)
  BY <1>3, <1>6, SMT DEF Fresh, Sound, IsChain, SameBut, Stored
<1>9. RatesOf(r) = rates
  BY <1>4, <1>6, Zenon DEF RatesOf
<1> QED
  BY <1>6, <1>7, <1>8, <1>9 DEF Fresh, Sound, rates

\* What a handler leaves: a sound chain, indexes that have not fallen, and the
\* rates of its outcome.
Keeps(c, d) ==
    /\ Sound(d) /\ d.li >= c.li /\ d.vi >= c.vi
    /\ LeavesCurrentRates(c, d)

\* After the rates are set, a handler moves hTokens, collateral, cash, wallets
\* and allowances only.
Moves(r, d) ==
    /\ SameBut(r, d, {"h", "coll", "cash", "flash", "wallet", "allowance", "log"})
    /\ d.h \in ScaledTokens(Account) /\ Adds(d.h) /\ d.coll \subseteq User
    /\ d.flash \in Nat /\ d.wallet \in [User -> Nat]
    /\ d.allowance \in [RateMode -> [User -> [User -> Nat]]]

\* The rates are current if it moves the cash they were set for, and the stable
\* total they were set for is the stored one.
LEMMA Settled ==
    ASSUME NEW x, Fresh(x), NEW stable \in Nat, NEW added \in Nat, NEW taken \in Nat,
           taken <= x.cash + added, NEW d, Moves(SetRates(x, stable, added, taken), d),
           d.cash = x.cash + added - taken
    PROVE  /\ Sound(d) /\ d.li = x.li /\ d.vi = x.vi /\ d.s = x.s
           /\ stable = StableSupply(x) => RatesOf(d) = ImpliedRates(d)
<1> DEFINE r == SetRates(x, stable, added, taken)
<1>1. /\ Fresh(r) /\ SameBut(x, r, {"liquidityRate", "stableRate", "variableRate"})
      /\ RatesOf(r) = InterestRates(stable, RayMul(r.v.total, r.vi), r.s.avg,
                                    r.cash + added - taken, r.unbacked)
  BY RatesSet
<1> HIDE DEF r
<1>2. r.cash = x.cash /\ r.s = x.s /\ r.now = x.now /\ r.li = x.li /\ r.vi = x.vi
  BY <1>1, Zenon DEF SameBut, Stored
<1>3. /\ d.now = r.now /\ d.lastUpdate = r.lastUpdate /\ d.v = r.v /\ d.li = r.li
      /\ d.vi = r.vi /\ d.s = r.s /\ d.unbacked = r.unbacked
      /\ d.liquidityRate = r.liquidityRate /\ d.stableRate = r.stableRate
      /\ d.variableRate = r.variableRate
  BY Zenon DEF Moves, SameBut, Stored, r
<1>4. d.cash \in Nat
  <2>1. x.cash \in Nat
    BY DEF Fresh, Sound, IsChain
  <2> QED BY <2>1, SMT
<1>5. IsChain(d)
  <2>1. Moves(r, d)
    BY DEF r
  <2> QED BY <1>1, <1>4, <2>1, SMT DEF Fresh, Sound, IsChain, SameBut, Stored, Moves
<1>6. Sound(d)
  BY <1>1, <1>3, <1>5, Zenon DEF Fresh, Sound, Moves
<1>7. StableSupply(d) = StableSupply(x)
  BY <1>2, <1>3, Zenon DEF StableSupply
<1>8. VariableSupply(d) = RayMul(r.v.total, r.vi)
  BY <1>1, <1>3, Zenon DEF VariableSupply, NormalizedDebt, Fresh
<1>9. RatesOf(d) = RatesOf(r)
  BY <1>3, Zenon DEF RatesOf
<1> QED
  BY <1>1, <1>2, <1>3, <1>6, <1>7, <1>8, <1>9, Zenon DEF ImpliedRates

-----------------------------------------------------------------------------
(* The handlers, in the order of the module.                               *)

\* The outcome of a call, and that its checks passed.
LEMMA Passed ==
    ASSUME NEW checks, NEW outcome, NEW d \in Require(checks, outcome)
    PROVE  checks /\ d = outcome
BY DEF Require

\* updateState and then a step that keeps the present chain: a handler.
LEMMA HandlerKeeps ==
    ASSUME NEW c, Sound(c), NEW u, u = UpdateState(c), NEW d,
           Sound(d), d.li >= u.li, d.vi >= u.vi,
           RatesOf(d) = ImpliedRates(d) \/ ErasesStableTotal(d)
    PROVE  Keeps(c, d)
<1>1. Fresh(u) /\ u.li >= c.li /\ u.vi >= c.vi
  BY Updated
<1>2. /\ c.li \in Nat /\ c.vi \in Nat /\ u.li \in Nat /\ u.vi \in Nat
      /\ d.li \in Nat /\ d.vi \in Nat
  BY <1>1 DEF Fresh, Sound, IsChain
<1>3. d.li >= c.li /\ d.vi >= c.vi
  BY <1>1, <1>2, SMT
<1> QED
  BY <1>3, Zenon DEF Keeps, LeavesCurrentRates

\* Types of what handlers compute with.
LEMMA FreshTypes ==
    ASSUME NEW u, Fresh(u)
    PROVE  /\ DOMAIN u = Stored /\ u.li \in Nat \ {0} /\ u.vi \in Nat \ {0}
           /\ u.li >= RAY /\ u.vi >= RAY
           /\ u.h \in ScaledTokens(Account) /\ Adds(u.h)
           /\ u.v \in ScaledTokens(User) /\ Adds(u.v)
           /\ u.cash \in Nat /\ u.flash \in Nat /\ u.accrued \in Nat
           /\ u.wallet \in [User -> Nat] /\ u.coll \subseteq User
           /\ u.allowance \in [RateMode -> [User -> [User -> Nat]]]
           /\ u.stableRate \in Nat /\ u.now \in Nat
           /\ StableSupply(u) \in Nat
<1>1. u.li >= RAY /\ u.vi >= RAY /\ u.li \in Nat /\ u.vi \in Nat
  BY DEF Fresh, Sound, IsChain
<1>2. u.li \in Nat \ {0} /\ u.vi \in Nat \ {0}
  BY <1>1, HalfRay, SMT
<1>3. StableSupply(u) \in Nat
  BY StableType DEF Fresh, Sound
<1> QED
  BY <1>1, <1>2, <1>3 DEF Fresh, Sound, IsChain

\* What setting the rates leaves alone.
LEMMA RatesFields ==
    ASSUME NEW x, DOMAIN x = Stored, NEW stable, NEW added, NEW taken
    PROVE  SameBut(x, SetRates(x, stable, added, taken),
                   {"liquidityRate", "stableRate", "variableRate"})
BY Zenon DEF SetRates, AtRates, SameBut, Stored

\* hTokens credited on a present chain.
LEMMA Credited ==
    ASSUME NEW r, DOMAIN r = Stored, r.li \in Nat \ {0}, r.h \in ScaledTokens(Account),
           Adds(r.h), r.coll \subseteq User, NEW u \in User, NEW amount \in Nat,
           NEW k, k = Credit(r, u, amount)
    PROVE  /\ SameBut(r, k, {"h", "coll"})
           /\ k.h \in ScaledTokens(Account) /\ Adds(k.h) /\ k.coll \subseteq User
<1>1. /\ SameBut(r, k, {"h", "coll"})
      /\ k.h = MintScaled(r.h, u, amount, r.li)
      /\ k.coll = IF r.h.scaled[u] = 0 THEN r.coll \cup {u} ELSE r.coll
  BY Zenon DEF Credit, SameBut, Stored
<1>2. u \in Account
  BY DEF Account
<1>3. k.h \in ScaledTokens(Account) /\ Adds(k.h)
  BY <1>1, <1>2, MintKeepsTotal, AccountsFinite
<1>4. k.coll \subseteq User
  BY <1>1
<1> QED
  BY <1>1, <1>3, <1>4

\* A deposit.
LEMMA SupplyKeeps ==
    ASSUME NEW c, Sound(c), NEW by \in User, NEW for \in User, NEW amount \in Nat,
           NEW d \in Supply(c, by, for, amount)
    PROVE  Keeps(c, d)
<1> DEFINE u == UpdateState(c)
           r == SetRates(u, StableSupply(u), amount, 0)
           k == Credit(r, for, amount)
           log == MintEvents("hToken", u.h, by, for, amount, u.li)
                    \cup {Payment(by, "hToken", amount)}
<1>1. /\ amount <= u.wallet[by]
      /\ d = [k EXCEPT !.cash = @ + amount, !.wallet[by] = @ - amount, !.log = log]
  BY Passed DEF Supply
<1>2. Fresh(u)
  BY Updated
<1> HIDE DEF u, log
<1>3. /\ DOMAIN u = Stored /\ u.li \in Nat \ {0} /\ u.h \in ScaledTokens(Account) /\ Adds(u.h)
      /\ u.cash \in Nat /\ u.wallet \in [User -> Nat] /\ u.coll \subseteq User
      /\ u.flash \in Nat /\ u.allowance \in [RateMode -> [User -> [User -> Nat]]]
      /\ StableSupply(u) \in Nat
  BY <1>2, FreshTypes
<1>4. /\ SameBut(u, r, {"liquidityRate", "stableRate", "variableRate"})
      /\ r = SetRates(u, StableSupply(u), amount, 0)
  BY <1>3, RatesFields
<1> HIDE DEF r
<1>5. /\ DOMAIN r = Stored /\ r.li = u.li /\ r.h = u.h /\ r.coll = u.coll
      /\ r.cash = u.cash /\ r.wallet = u.wallet /\ r.flash = u.flash
      /\ r.allowance = u.allowance
  BY <1>4, Zenon DEF SameBut, Stored
<1>6. /\ SameBut(r, k, {"h", "coll"})
      /\ k.h \in ScaledTokens(Account) /\ Adds(k.h) /\ k.coll \subseteq User
  BY <1>3, <1>5, Credited
<1> HIDE DEF k
<1>7. /\ SameBut(k, d, {"cash", "wallet", "log"})
      /\ d.cash = k.cash + amount
      /\ d.wallet = [k.wallet EXCEPT ![by] = k.wallet[by] - amount]
  BY <1>1, <1>6, Zenon DEF SameBut, Stored
<1>8. /\ SameBut(r, d, {"h", "coll", "cash", "flash", "wallet", "allowance", "log"})
      /\ d.h = k.h /\ d.coll = k.coll /\ k.cash = r.cash /\ k.wallet = r.wallet
      /\ d.flash = r.flash /\ d.allowance = r.allowance
  BY <1>6, <1>7, Zenon DEF SameBut, Stored
<1>9. 0 \in Nat /\ 0 <= u.cash + amount /\ d.cash = u.cash + amount - 0
  BY <1>3, <1>5, <1>7, <1>8, SMT
<1>10. d.wallet \in [User -> Nat]
  <2>1. u.wallet[by] - amount \in Nat
    BY <1>1, <1>3, SMT
  <2> QED BY <1>3, <1>5, <1>7, <1>8, <2>1
<1>11. Moves(r, d)
  BY <1>3, <1>5, <1>6, <1>8, <1>10 DEF Moves
<1>12. Sound(d) /\ d.li = u.li /\ d.vi = u.vi /\ RatesOf(d) = ImpliedRates(d)
  BY <1>2, <1>3, <1>4, <1>9, <1>11, Settled
<1>13. d.li >= u.li /\ d.vi >= u.vi
  BY <1>2, <1>12, FreshTypes, SMT
<1> QED
  BY <1>12, <1>13, HandlerKeeps DEF u

\* A withdrawal, of an amount or of everything.
LEMMA WithdrawKeeps ==
    ASSUME NEW c, Sound(c), NEW by \in User, NEW amount \in Nat,
           NEW d \in Withdraw(c, by, amount)
    PROVE  Keeps(c, d)
<1> DEFINE u == UpdateState(c)
           balance == RayMul(u.h.scaled[by], u.li)
           taken == IF amount = MAX_UINT_AMOUNT THEN balance ELSE amount
           r == SetRates(u, StableSupply(u), 0, taken)
           log == BurnEvents("hToken", u.h, by, by, taken, u.li)
                    \cup {Payment("hToken", by, taken)}
<1>1. /\ taken <= u.cash /\ CanBurn(u.h, by, taken, u.li)
      /\ d = [r EXCEPT !.h = BurnScaled(@, by, taken, u.li),
                       !.coll = IF taken = balance THEN @ \ {by} ELSE @,
                       !.cash = @ - taken, !.wallet[by] = @ + taken, !.log = log]
  BY Passed, ZenonT(40) DEF Withdraw
<1>2. Fresh(u)
  BY Updated
<1> HIDE DEF u, log
<1>3. /\ DOMAIN u = Stored /\ u.li \in Nat \ {0} /\ u.h \in ScaledTokens(Account) /\ Adds(u.h)
      /\ u.cash \in Nat /\ u.wallet \in [User -> Nat] /\ u.coll \subseteq User
      /\ u.flash \in Nat /\ u.allowance \in [RateMode -> [User -> [User -> Nat]]]
      /\ StableSupply(u) \in Nat
  BY <1>2, FreshTypes
<1>4. by \in Account /\ taken \in Nat
  <2>1. by \in Account
    BY DEF Account
  <2>2. u.h.scaled[by] \in Nat
    BY <1>3, <2>1 DEF ScaledTokens
  <2>3. balance \in Nat
    BY <1>3, <2>2, RayMulType
  <2> QED BY <2>1, <2>3
<1> HIDE DEF taken, balance
<1>5. /\ SameBut(u, r, {"liquidityRate", "stableRate", "variableRate"})
      /\ r = SetRates(u, StableSupply(u), 0, taken)
  BY <1>3, RatesFields
<1> HIDE DEF r
<1>6. /\ DOMAIN r = Stored /\ r.li = u.li /\ r.h = u.h /\ r.coll = u.coll
      /\ r.cash = u.cash /\ r.wallet = u.wallet /\ r.flash = u.flash
      /\ r.allowance = u.allowance
  BY <1>5, Zenon DEF SameBut, Stored
<1>7. /\ SameBut(r, d, {"h", "coll", "cash", "wallet", "log"})
      /\ d.h = BurnScaled(r.h, by, taken, u.li) /\ d.cash = r.cash - taken
      /\ d.coll = IF taken = balance THEN r.coll \ {by} ELSE r.coll
      /\ d.wallet = [r.wallet EXCEPT ![by] = r.wallet[by] + taken]
  BY <1>1, <1>6, Zenon DEF SameBut, Stored
<1>8. /\ SameBut(r, d, {"h", "coll", "cash", "flash", "wallet", "allowance", "log"})
      /\ d.flash = r.flash /\ d.allowance = r.allowance
  BY <1>7, Zenon DEF SameBut, Stored
<1>9. 0 \in Nat /\ taken <= u.cash + 0 /\ d.cash = u.cash + 0 - taken
  BY <1>1, <1>3, <1>4, <1>6, <1>7, SMT
<1>10. d.wallet \in [User -> Nat] /\ d.coll \subseteq User
  <2>1. u.wallet[by] + taken \in Nat
    BY <1>3, <1>4, SMT
  <2> QED BY <1>3, <1>6, <1>7, <2>1
<1>11. d.h \in ScaledTokens(Account) /\ Adds(d.h)
  BY <1>1, <1>3, <1>4, <1>6, <1>7, BurnKeepsTotal, AccountsFinite
<1>12. Moves(r, d)
  BY <1>3, <1>6, <1>8, <1>10, <1>11 DEF Moves
<1>13. Sound(d) /\ d.li = u.li /\ d.vi = u.vi /\ RatesOf(d) = ImpliedRates(d)
  BY <1>2, <1>3, <1>4, <1>5, <1>9, <1>12, Settled
<1>14. d.li >= u.li /\ d.vi >= u.vi
  BY <1>2, <1>13, FreshTypes, SMT
<1> QED
  BY <1>13, <1>14, HandlerKeeps DEF u

\* A call that moves hTokens, collateral or allowances only.
LEMMA QuietKeeps ==
    ASSUME NEW c, Sound(c), NEW d, SameBut(c, d, {"h", "coll", "allowance", "log"}),
           d.h \in ScaledTokens(Account), Adds(d.h), d.coll \subseteq User,
           d.allowance \in [RateMode -> [User -> [User -> Nat]]]
    PROVE  Keeps(c, d)
<1>1. /\ d.li = c.li /\ d.vi = c.vi /\ d.v = c.v /\ d.s = c.s /\ d.cash = c.cash
      /\ d.unbacked = c.unbacked
  BY Zenon DEF SameBut, Stored
<1>2. IsChain(d)
  BY SMT DEF Sound, IsChain, SameBut, Stored
<1>3. ~MovesFunds(c, d)
  BY <1>1, Zenon DEF MovesFunds
<1>4. d.li >= c.li /\ d.vi >= c.vi
  BY <1>1, SMT DEF Sound, IsChain
<1> QED
  BY <1>1, <1>2, <1>3, <1>4 DEF Keeps, Sound, LeavesCurrentRates

\* A transfer of hTokens, to oneself too.
LEMMA TransferKeeps ==
    ASSUME NEW c, Sound(c), NEW by \in User, NEW from \in User, NEW to \in User,
           NEW amount \in Nat, NEW d \in Transfer(c, by, from, to, amount)
    PROVE  Keeps(c, d)
<1> DEFINE index == NormalizedIncome(c)
           leaves == IF HBalance(c, from) = amount THEN {from} ELSE {}
           joins == IF HBalance(c, to) = 0 THEN {to} ELSE {}
           coll == IF from = to \/ amount = 0 THEN c.coll ELSE (c.coll \ leaves) \cup joins
           log == TransferEvents(c.h, by, from, to, amount, index)
<1>1. /\ RayDiv(amount, index) <= c.h.scaled[from]
      /\ d = [c EXCEPT !.h = TransferScaled(@, from, to, amount, index),
                       !.coll = IF from = to \/ amount = 0 THEN @
                                ELSE (@ \ leaves) \cup joins,
                       !.log = log]
  <2> DEFINE outcome ==
        [c EXCEPT !.h = TransferScaled(@, from, to, amount, index),
                  !.coll = IF from = to \/ amount = 0 THEN @ ELSE (@ \ leaves) \cup joins,
                  !.log = log]
  <2>1. d \in Require(RayDiv(amount, index) <= c.h.scaled[from], outcome)
    BY Zenon DEF Transfer
  <2> HIDE DEF outcome
  <2>2. RayDiv(amount, index) <= c.h.scaled[from] /\ d = outcome
    BY <2>1, Zenon DEF Require
  <2> QED BY <2>2, Zenon DEF outcome
<1>2. index \in Nat \ {0}
  <2>1. index \in Nat /\ index >= c.li /\ c.li \in Nat /\ c.li >= RAY
    BY IndexesGrow DEF Sound, IsChain
  <2> HIDE DEF index
  <2> QED BY <2>1, HalfRay, SMT
<1>3. /\ DOMAIN c = Stored /\ c.h \in ScaledTokens(Account) /\ Adds(c.h)
      /\ c.coll \subseteq User /\ c.allowance \in [RateMode -> [User -> [User -> Nat]]]
  BY DEF Sound, IsChain
<1>4. coll \subseteq User
  BY <1>3
<1> HIDE DEF index, log, leaves, joins
<1>5. /\ SameBut(c, d, {"h", "coll", "allowance", "log"})
      /\ d.h = TransferScaled(c.h, from, to, amount, index) /\ d.coll = coll
      /\ d.allowance = c.allowance
  BY <1>1, <1>3, Zenon DEF SameBut, Stored
<1> HIDE DEF coll
<1>6. from \in Account /\ to \in Account
  BY DEF Account
<1>7. d.h \in ScaledTokens(Account) /\ Adds(d.h)
  BY <1>1, <1>2, <1>3, <1>5, <1>6, TransferKeepsTotal, AccountsFinite
<1> QED
  BY <1>3, <1>4, <1>5, <1>7, QuietKeeps

\* Using a deposit as collateral, or no longer.
LEMMA CollateralKeeps ==
    ASSUME NEW c, Sound(c), NEW by \in User, NEW use \in BOOLEAN,
           NEW d \in SetUseReserveAsCollateral(c, by, use)
    PROVE  Keeps(c, d)
<1>1. d = [c EXCEPT !.coll = IF use THEN @ \cup {by} ELSE @ \ {by}, !.log = {}]
  BY Passed DEF SetUseReserveAsCollateral
<1>2. /\ DOMAIN c = Stored /\ c.h \in ScaledTokens(Account) /\ Adds(c.h)
      /\ c.coll \subseteq User /\ c.allowance \in [RateMode -> [User -> [User -> Nat]]]
  BY DEF Sound, IsChain
<1>3. /\ SameBut(c, d, {"h", "coll", "allowance", "log"})
      /\ d.h = c.h /\ d.coll = (IF use THEN c.coll \cup {by} ELSE c.coll \ {by})
      /\ d.allowance = c.allowance
  BY <1>1, <1>2, Zenon DEF SameBut, Stored
<1>4. d.coll \subseteq User
  BY <1>2, <1>3
<1> QED
  BY <1>2, <1>3, <1>4, QuietKeeps

\* A delegation of credit.
LEMMA DelegationKeeps ==
    ASSUME NEW c, Sound(c), NEW by \in User, NEW to \in User, NEW mode \in RateMode,
           NEW amount \in Nat, NEW d \in ApproveDelegation(c, by, to, mode, amount)
    PROVE  Keeps(c, d)
<1>1. d = [c EXCEPT !.allowance[mode][by][to] = amount, !.log = {}]
  BY DEF ApproveDelegation
<1>2. /\ DOMAIN c = Stored /\ c.h \in ScaledTokens(Account) /\ Adds(c.h)
      /\ c.coll \subseteq User /\ c.allowance \in [RateMode -> [User -> [User -> Nat]]]
  BY DEF Sound, IsChain
<1>3. /\ SameBut(c, d, {"h", "coll", "allowance", "log"})
      /\ d.h = c.h /\ d.coll = c.coll
      /\ d.allowance = [c.allowance EXCEPT ![mode][by][to] = amount]
  BY <1>1, <1>2, Zenon DEF SameBut, Stored
<1>4. d.allowance \in [RateMode -> [User -> [User -> Nat]]]
  BY <1>2, <1>3
<1> QED
  BY <1>2, <1>3, <1>4, QuietKeeps

\* The passage of time.
LEMMA TickKeeps ==
    ASSUME NEW c, Sound(c), NEW dt \in Nat, NEW d \in Tick(c, dt)
    PROVE  Keeps(c, d)
<1>1. d = [c EXCEPT !.now = @ + dt, !.log = {}]
  BY Passed DEF Tick
<1>2. DOMAIN c = Stored /\ c.now \in Nat /\ c.lastUpdate \in 0 .. c.now
      /\ \A u \in User : c.s.stamp[u] \in Nat /\ c.s.stamp[u] <= c.now
  BY DEF Sound, IsChain, StableTokens
<1>3. SameBut(c, d, {"now", "log"}) /\ d.now = c.now + dt
  BY <1>1, <1>2, Zenon DEF SameBut, Stored
<1>4. /\ d.li = c.li /\ d.vi = c.vi /\ d.h = c.h /\ d.v = c.v /\ d.s = c.s
      /\ d.cash = c.cash /\ d.unbacked = c.unbacked /\ d.lastUpdate = c.lastUpdate
  BY <1>3, Zenon DEF SameBut, Stored
<1>5. d.now \in Nat /\ d.lastUpdate \in 0 .. d.now
      /\ \A u \in User : d.s.stamp[u] <= d.now
  BY <1>2, <1>3, <1>4, SMT
<1>6. IsChain(d)
  BY <1>3, <1>5, SMT DEF Sound, IsChain, SameBut, Stored
<1>7. ~MovesFunds(c, d)
  BY <1>4, Zenon DEF MovesFunds
<1>8. d.li >= c.li /\ d.vi >= c.vi
  BY <1>4, SMT DEF Sound, IsChain
<1> QED
  BY <1>4, <1>6, <1>7, <1>8 DEF Keeps, Sound, LeavesCurrentRates

\* Debt minted in either mode keeps the chain fresh.
LEMMA DebtMinted ==
    ASSUME NEW u, Fresh(u), NEW for \in User, NEW amount \in Nat, amount # 0,
           NEW rate \in Nat, NEW mode \in RateMode,
           NEW d, SameBut(u, d, {"s", "v"}),
           d.s = IF mode = "stable" THEN MintStable(u, for, amount, rate) ELSE u.s,
           d.v = IF mode = "variable" THEN MintScaled(u.v, for, amount, u.vi) ELSE u.v
    PROVE  Fresh(d)
<1>1. CASE mode = "stable"
  <2>1. d.v = u.v /\ d.s = MintStable(u, for, amount, rate)
    BY <1>1
  <2>2. SameBut(u, d, {"s"})
    BY <2>1, Zenon DEF SameBut
  <2>3. d.s \in StableTokens /\ d.s.supplyStamp = u.now
        /\ \A w \in User : d.s.stamp[w] <= u.now
    BY <2>1, MintStableType DEF Fresh, Sound
  <2> QED BY <2>2, <2>3, StableReplaced
<1>2. CASE mode = "variable"
  <2>1. d.s = u.s /\ d.v = MintScaled(u.v, for, amount, u.vi)
    BY <1>2
  <2>2. SameBut(u, d, {"v"})
    BY <2>1, Zenon DEF SameBut
  <2>3. u.v \in ScaledTokens(User) /\ Adds(u.v) /\ u.vi \in Nat \ {0}
    BY FreshTypes
  <2>4. d.v \in ScaledTokens(User) /\ Adds(d.v)
    BY <2>1, <2>3, MintKeepsTotal, AccountsFinite
  <2> QED BY <2>2, <2>4, VariableReplaced
<1> QED
  BY <1>1, <1>2 DEF RateMode

\* So does debt burnt.  The stable total that the code goes on with is the one
\* it keeps, or else the burn erased a total.
LEMMA DebtBurnt ==
    ASSUME NEW u, Fresh(u), NEW for \in User, NEW amount \in Nat, NEW mode \in RateMode,
           mode = "stable" => amount <= StableBalance(u, for),
           mode = "variable" => CanBurn(u.v, for, amount, u.vi),
           NEW d, d = BurnDebt(u, for, amount, mode)
    PROVE  /\ Fresh(d) /\ SameBut(u, d, {"s", "v"})
           /\ StableTotalAfter(u, for, amount, mode) \in Nat
           /\ mode = "variable" => d.s = u.s
           /\ \/ StableTotalAfter(u, for, amount, mode) = StableSupply(d)
              \/ /\ mode = "stable" /\ d.s.supply = 0
                 /\ BurntStable(u, for, amount).next # 0
<1>1. /\ SameBut(u, d, {"s", "v"})
      /\ d.s = (IF mode = "stable" THEN BurnStable(u, for, amount) ELSE u.s)
      /\ d.v = (IF mode = "variable" THEN BurnScaled(u.v, for, amount, u.vi) ELSE u.v)
  <2>1. DOMAIN u = Stored
    BY FreshTypes
  <2> QED BY <2>1, Zenon DEF BurnDebt, SameBut, Stored
<1>2. CASE mode = "stable"
  <2> DEFINE next == BurntStable(u, for, amount).next
  <2>1. d.v = u.v /\ d.s = BurnStable(u, for, amount)
    BY <1>1, <1>2
  <2>2. SameBut(u, d, {"s"})
    BY <1>1, <2>1, Zenon DEF SameBut
  <2>3. /\ d.s \in StableTokens /\ d.s.supplyStamp = u.now
        /\ \A w \in User : d.s.stamp[w] <= u.now
        /\ next \in Nat /\ d.s.supply \in {0, next}
    BY <1>2, <2>1, BurnStableType DEF Fresh, Sound
  <2>4. Fresh(d)
    BY <2>2, <2>3, StableReplaced
  <2>5. StableTotalAfter(u, for, amount, mode) = next
    BY <1>2 DEF StableTotalAfter
  <2> HIDE DEF next
  <2>6. ASSUME d.s.supply = next PROVE StableSupply(d) = next
    <3>1. CASE next = 0
      BY <2>6, <3>1, Zenon DEF StableSupply
    <3>2. CASE next # 0
      <4>1. d.now = u.now /\ u.now \in Nat
        BY <2>2, FreshTypes DEF SameBut, Stored
      <4>2. d.now - d.s.supplyStamp = 0
        BY <2>3, <4>1, SMT
      <4>3. CompoundedInterest(d.s.avg, d.now - d.s.supplyStamp) = RAY
        BY <4>2, Zenon DEF CompoundedInterest
      <4>4. StableSupply(d) = RayMul(next, RAY)
        BY <2>6, <3>2, <4>3, Zenon DEF StableSupply
      <4> QED BY <2>3, <4>4, RayIsOne
    <3> QED BY <3>1, <3>2
  <2>7. (next # 0 /\ d.s.supply = 0) \/ d.s.supply = next
    BY <2>3
  <2> QED BY <1>1, <1>2, <2>3, <2>4, <2>5, <2>6, <2>7 DEF next
<1>3. CASE mode = "variable"
  <2>1. d.s = u.s /\ d.v = BurnScaled(u.v, for, amount, u.vi)
    BY <1>1, <1>3
  <2>2. SameBut(u, d, {"v"})
    BY <1>1, <2>1, Zenon DEF SameBut
  <2>3. u.v \in ScaledTokens(User) /\ Adds(u.v) /\ u.vi \in Nat \ {0}
        /\ StableSupply(u) \in Nat
    BY FreshTypes
  <2>4. d.v \in ScaledTokens(User) /\ Adds(d.v)
    BY <1>3, <2>1, <2>3, BurnKeepsTotal, AccountsFinite
  <2>5. Fresh(d)
    BY <2>2, <2>4, VariableReplaced
  <2>6. StableTotalAfter(u, for, amount, mode) = StableSupply(u)
    BY <1>3 DEF StableTotalAfter
  <2>7. d.now = u.now
    BY <2>2, Zenon DEF SameBut, Stored
  <2>8. StableSupply(d) = StableSupply(u)
    BY <2>1, <2>7, Zenon DEF StableSupply
  <2> QED BY <1>1, <2>1, <2>3, <2>5, <2>6, <2>8
<1> QED
  BY <1>2, <1>3 DEF RateMode

\* A burn reports the total it goes on with.
LEMMA BurnReports ==
    ASSUME NEW u, NEW for, NEW amount, BurntStable(u, for, amount).next # 0
    PROVE  \E e \in BurnDebtEvents(u, for, amount, "stable") :
              e[1] = "sToken" /\ e[2] \in {"Mint", "Burn"} /\ e[Len(e)] # 0
<1> DEFINE balance == StableBalance(u, for)
           increase == balance - u.s.principal[for]
           burnt == BurntStable(u, for, amount)
           minted == <<"sToken", "Mint", for, for, increase - amount, balance, increase,
                       u.s.rate[for], burnt.avg, burnt.next>>
           lost == <<"sToken", "Burn", for, amount - increase, balance, increase,
                     burnt.avg, burnt.next>>
<1>1. minted[1] = "sToken" /\ minted[2] = "Mint" /\ minted[Len(minted)] = burnt.next
  OBVIOUS
<1>2. lost[1] = "sToken" /\ lost[2] = "Burn" /\ lost[Len(lost)] = burnt.next
  OBVIOUS
<1>3. minted \in BurnStableEvents(u, for, amount) \/ lost \in BurnStableEvents(u, for, amount)
  BY Zenon DEF BurnStableEvents
<1>4. BurnDebtEvents(u, for, amount, "stable") = BurnStableEvents(u, for, amount)
  BY DEF BurnDebtEvents
<1> HIDE DEF minted, lost
<1> QED
  BY <1>1, <1>2, <1>3, <1>4, Zenon DEF burnt

\* Debts and balances at the present are naturals.
LEMMA BalanceTypes ==
    ASSUME NEW u, Fresh(u), NEW w \in User
    PROVE  /\ \A mode \in RateMode : Debt(u, w, mode) \in Nat
           /\ StableBalance(u, w) \in Nat /\ HBalance(u, w) \in Nat
<1>1. StableBalance(u, w) \in Nat
  BY StableType DEF Fresh, Sound
<1>2. u.h.scaled[w] \in Nat /\ u.v.scaled[w] \in Nat
  BY DEF Fresh, Sound, IsChain, ScaledTokens, Account
<1>3. NormalizedIncome(u) \in Nat /\ NormalizedDebt(u) \in Nat
  BY IndexesGrow DEF Fresh, Sound
<1>4. VariableBalance(u, w) \in Nat /\ HBalance(u, w) \in Nat
  BY <1>2, <1>3, RayMulType DEF VariableBalance, HBalance
<1> QED
  BY <1>1, <1>4 DEF Debt

\* A loan, in either mode, for oneself or on delegated credit.
LEMMA BorrowKeeps ==
    ASSUME NEW c, Sound(c), NEW by \in User, NEW for \in User, NEW amount \in Nat,
           NEW mode \in RateMode, NEW d \in Borrow(c, by, for, amount, mode)
    PROVE  Keeps(c, d)
<1> DEFINE u == UpdateState(c)
           lent == [u EXCEPT !.s = IF mode = "stable"
                                   THEN MintStable(u, for, amount, u.stableRate) ELSE @,
                             !.v = IF mode = "variable"
                                   THEN MintScaled(@, for, amount, u.vi) ELSE @]
           r == SetRates(lent, StableSupply(lent), 0, amount)
           log == {Payment("hToken", by, amount)} \cup
                  IF mode = "stable" THEN MintStableEvents(u, by, for, amount, lent.s)
                  ELSE MintEvents("vToken", u.v, by, for, amount, u.vi)
           outcome == [r EXCEPT !.cash = @ - amount,
                                !.wallet[by] = @ + amount,
                                !.allowance[mode][for][by] = IF by = for THEN @ ELSE @ - amount,
                                !.log = log]
<1>1. /\ amount # 0 /\ amount <= u.cash
      /\ by = for \/ amount <= u.allowance[mode][for][by]
      /\ d = outcome
  BY Passed, ZenonT(40) DEF Borrow
<1>2. Fresh(u)
  BY Updated
<1> HIDE DEF u, log
<1>3. /\ DOMAIN u = Stored /\ u.h \in ScaledTokens(Account) /\ Adds(u.h)
      /\ u.cash \in Nat /\ u.wallet \in [User -> Nat] /\ u.coll \subseteq User
      /\ u.flash \in Nat /\ u.allowance \in [RateMode -> [User -> [User -> Nat]]]
      /\ u.stableRate \in Nat
  BY <1>2, FreshTypes
<1>4. /\ SameBut(u, lent, {"s", "v"})
      /\ lent.s = (IF mode = "stable" THEN MintStable(u, for, amount, u.stableRate) ELSE u.s)
      /\ lent.v = (IF mode = "variable" THEN MintScaled(u.v, for, amount, u.vi) ELSE u.v)
  BY <1>3, Zenon DEF SameBut, Stored
<1> HIDE DEF lent
<1>5. Fresh(lent)
  BY <1>1, <1>2, <1>3, <1>4, DebtMinted
<1>6. StableSupply(lent) \in Nat /\ DOMAIN lent = Stored
  BY <1>5, FreshTypes
<1>7. /\ SameBut(lent, r, {"liquidityRate", "stableRate", "variableRate"})
      /\ r = SetRates(lent, StableSupply(lent), 0, amount)
  BY <1>6, RatesFields
<1> HIDE DEF r
<1>8. /\ DOMAIN r = Stored /\ r.h = u.h /\ r.coll = u.coll /\ r.cash = u.cash
      /\ r.wallet = u.wallet /\ r.flash = u.flash /\ r.allowance = u.allowance
      /\ lent.cash = u.cash /\ lent.li = u.li /\ lent.vi = u.vi
  BY <1>4, <1>7, Zenon DEF SameBut, Stored
<1>9. /\ SameBut(r, d, {"cash", "wallet", "allowance", "log"})
      /\ d.cash = r.cash - amount
      /\ d.wallet = [r.wallet EXCEPT ![by] = r.wallet[by] + amount]
      /\ d.allowance = [r.allowance EXCEPT ![mode][for][by] =
                            IF by = for THEN r.allowance[mode][for][by]
                            ELSE r.allowance[mode][for][by] - amount]
  BY <1>1, <1>8, Zenon DEF SameBut, Stored
<1> HIDE DEF outcome
<1>10. /\ SameBut(r, d, {"h", "coll", "cash", "flash", "wallet", "allowance", "log"})
       /\ d.h = r.h /\ d.coll = r.coll /\ d.flash = r.flash
  BY <1>9, Zenon DEF SameBut, Stored
<1>11. 0 \in Nat /\ amount <= lent.cash + 0 /\ d.cash = lent.cash + 0 - amount
  BY <1>1, <1>3, <1>8, <1>9, SMT
<1>12. d.wallet \in [User -> Nat]
  <2>1. u.wallet[by] + amount \in Nat
    BY <1>3, SMT
  <2> QED BY <1>3, <1>8, <1>9, <2>1
<1>13. d.allowance \in [RateMode -> [User -> [User -> Nat]]]
  <2> DEFINE left == IF by = for THEN r.allowance[mode][for][by]
                     ELSE r.allowance[mode][for][by] - amount
  <2>1. r.allowance[mode][for][by] \in Nat
    BY <1>3, <1>8
  <2>2. left \in Nat
    BY <1>1, <1>8, <2>1, SMT
  <2>3. d.allowance = [r.allowance EXCEPT ![mode][for][by] = left]
    BY <1>9
  <2> HIDE DEF left
  <2> QED BY <1>3, <1>8, <2>2, <2>3
<1>14. Moves(r, d)
  BY <1>3, <1>8, <1>10, <1>12, <1>13 DEF Moves
<1>15. Sound(d) /\ d.li = lent.li /\ d.vi = lent.vi /\ RatesOf(d) = ImpliedRates(d)
  BY <1>5, <1>6, <1>7, <1>11, <1>14, Settled
<1>16. d.li >= u.li /\ d.vi >= u.vi
  BY <1>2, <1>8, <1>15, FreshTypes, SMT
<1> QED
  BY <1>15, <1>16, HandlerKeeps DEF u

\* A repayment, in cash or in hTokens.
LEMMA RepayKeeps ==
    ASSUME NEW c, Sound(c), NEW by \in User, NEW for \in User, NEW amount \in Nat,
           NEW mode \in RateMode, NEW useH \in BOOLEAN,
           NEW d \in Repay(c, by, for, amount, mode, useH)
    PROVE  Keeps(c, d)
<1> DEFINE u == UpdateState(c)
           debt == Debt(u, for, mode)
           sent == IF useH /\ amount = MAX_UINT_AMOUNT THEN HBalance(u, by) ELSE amount
           paid == IF sent < debt THEN sent ELSE debt
           cash == IF useH THEN 0 ELSE paid
           burnt == BurnDebt(u, for, paid, mode)
           total == StableTotalAfter(u, for, paid, mode)
           r == SetRates(burnt, total, cash, 0)
           log == BurnDebtEvents(u, for, paid, mode) \cup
                  IF useH THEN BurnEvents("hToken", u.h, by, "hToken", paid, u.li)
                  ELSE {Payment(by, "hToken", paid)}
           outcome == [r EXCEPT !.h = IF useH THEN BurnScaled(@, by, paid, u.li) ELSE @,
                                !.cash = @ + cash,
                                !.wallet[by] = @ - cash,
                                !.log = log]
<1>1. /\ mode = "variable" => CanBurn(u.v, for, paid, u.vi)
      /\ useH => CanBurn(u.h, by, paid, u.li)
      /\ cash <= u.wallet[by]
      /\ d = outcome
  <2>1. d \in Require(/\ amount # 0
                      /\ amount = MAX_UINT_AMOUNT => by = for
                      /\ debt # 0
                      /\ mode = "variable" => CanBurn(u.v, for, paid, u.vi)
                      /\ useH => CanBurn(u.h, by, paid, u.li)
                      /\ cash <= u.wallet[by],
                      outcome)
    BY Zenon DEF Repay
  <2> HIDE DEF outcome, cash, paid, debt, u
  <2> QED BY <2>1, Zenon DEF Require
<1>2. Fresh(u)
  BY Updated
<1> HIDE DEF u
<1>3. /\ DOMAIN u = Stored /\ u.h \in ScaledTokens(Account) /\ Adds(u.h)
      /\ u.li \in Nat \ {0} /\ u.cash \in Nat /\ u.wallet \in [User -> Nat]
      /\ u.coll \subseteq User /\ u.flash \in Nat
      /\ u.allowance \in [RateMode -> [User -> [User -> Nat]]]
  BY <1>2, FreshTypes
<1>4. debt \in Nat /\ sent \in Nat /\ (mode = "stable" => debt = StableBalance(u, for))
  <2>1. debt \in Nat /\ HBalance(u, by) \in Nat
    BY <1>2, BalanceTypes
  <2> QED BY <2>1 DEF Debt
<1> HIDE DEF debt, sent
<1>5. paid \in Nat /\ paid <= debt
  BY <1>4, SMT
<1> HIDE DEF paid
<1>6. cash \in Nat
  BY <1>5
<1> HIDE DEF cash
<1>7. /\ Fresh(burnt) /\ SameBut(u, burnt, {"s", "v"}) /\ total \in Nat
      /\ \/ total = StableSupply(burnt)
         \/ /\ mode = "stable" /\ burnt.s.supply = 0
            /\ BurntStable(u, for, paid).next # 0
  <2>1. mode = "stable" => paid <= StableBalance(u, for)
    BY <1>4, <1>5
  <2> QED BY <1>1, <1>2, <1>5, <2>1, DebtBurnt
<1> HIDE DEF burnt, total
<1>8. SameBut(burnt, r, {"liquidityRate", "stableRate", "variableRate"})
  <2>1. DOMAIN burnt = Stored
    BY <1>7, FreshTypes
  <2> QED BY <2>1, RatesFields
<1>9. r = SetRates(burnt, total, cash, 0)
  OBVIOUS
<1> HIDE DEF r, log
<1>10. /\ DOMAIN r = Stored /\ r.h = u.h /\ r.coll = u.coll /\ r.cash = u.cash
       /\ r.wallet = u.wallet /\ r.flash = u.flash /\ r.allowance = u.allowance
       /\ burnt.cash = u.cash /\ burnt.li = u.li /\ burnt.vi = u.vi
  BY <1>7, <1>8, Zenon DEF SameBut, Stored
<1>11. /\ SameBut(r, d, {"h", "cash", "wallet", "log"})
       /\ d.h = (IF useH THEN BurnScaled(r.h, by, paid, u.li) ELSE r.h)
       /\ d.cash = r.cash + cash /\ d.log = log
       /\ d.wallet = [r.wallet EXCEPT ![by] = r.wallet[by] - cash]
  BY <1>1, <1>10, Zenon DEF SameBut, Stored
<1> HIDE DEF outcome
<1>12. /\ SameBut(r, d, {"h", "coll", "cash", "flash", "wallet", "allowance", "log"})
       /\ d.coll = r.coll /\ d.flash = r.flash /\ d.allowance = r.allowance
  BY <1>11, Zenon DEF SameBut, Stored
<1>13. 0 \in Nat /\ 0 <= burnt.cash + cash /\ d.cash = burnt.cash + cash - 0
  BY <1>3, <1>6, <1>10, <1>11, SMT
<1>14. d.wallet \in [User -> Nat]
  <2>1. u.wallet[by] - cash \in Nat
    BY <1>1, <1>3, <1>6, SMT
  <2> QED BY <1>3, <1>10, <1>11, <2>1
<1>15. d.h \in ScaledTokens(Account) /\ Adds(d.h)
  <2>1. CASE useH
    <3>1. d.h = BurnScaled(u.h, by, paid, u.li) /\ by \in Account
      BY <1>10, <1>11, <2>1 DEF Account
    <3> QED BY <1>1, <1>3, <1>5, <2>1, <3>1, BurnKeepsTotal, AccountsFinite
  <2>2. CASE ~useH
    BY <1>3, <1>10, <1>11, <2>2
  <2> QED BY <2>1, <2>2
<1>16. Moves(r, d)
  BY <1>3, <1>10, <1>12, <1>14, <1>15 DEF Moves
<1>17. /\ Sound(d) /\ d.li = burnt.li /\ d.vi = burnt.vi /\ d.s = burnt.s
       /\ total = StableSupply(burnt) => RatesOf(d) = ImpliedRates(d)
  BY <1>6, <1>7, <1>9, <1>13, <1>16, Settled
<1>18. RatesOf(d) = ImpliedRates(d) \/ ErasesStableTotal(d)
  <2>1. CASE total = StableSupply(burnt)
    BY <1>17, <2>1
  <2>2. CASE /\ mode = "stable" /\ burnt.s.supply = 0
             /\ BurntStable(u, for, paid).next # 0
    <3>1. \E e \in BurnDebtEvents(u, for, paid, mode) :
             e[1] = "sToken" /\ e[2] \in {"Mint", "Burn"} /\ e[Len(e)] # 0
      BY <2>2, BurnReports
    <3>2. BurnDebtEvents(u, for, paid, mode) \subseteq d.log
      BY <1>11, Zenon DEF log
    <3> QED BY <1>17, <2>2, <3>1, <3>2, Zenon DEF ErasesStableTotal
  <2> QED BY <1>7, <2>1, <2>2
<1>19. d.li >= u.li /\ d.vi >= u.vi
  BY <1>2, <1>10, <1>17, FreshTypes, SMT
<1> QED
  BY <1>17, <1>18, <1>19, HandlerKeeps DEF u

\* A handler that moves debts only: after the rates, nothing but the log changes.
LEMMA DebtsMoved ==
    ASSUME NEW u, Fresh(u), NEW x, Fresh(x), SameBut(u, x, {"s", "v"}), NEW total \in Nat,
           NEW d, SameBut(SetRates(x, total, 0, 0), d, {"log"})
    PROVE  /\ Sound(d) /\ d.li >= u.li /\ d.vi >= u.vi /\ d.s = x.s
           /\ total = StableSupply(x) => RatesOf(d) = ImpliedRates(d)
<1> DEFINE r == SetRates(x, total, 0, 0)
<1>1. /\ DOMAIN x = Stored /\ x.h \in ScaledTokens(Account) /\ Adds(x.h) /\ x.cash \in Nat
      /\ x.coll \subseteq User /\ x.flash \in Nat /\ x.wallet \in [User -> Nat]
      /\ x.allowance \in [RateMode -> [User -> [User -> Nat]]]
  BY FreshTypes
<1>2. SameBut(x, r, {"liquidityRate", "stableRate", "variableRate"})
  BY <1>1, RatesFields
<1>3. r = SetRates(x, total, 0, 0) /\ SameBut(r, d, {"log"})
  OBVIOUS
<1> HIDE DEF r
<1>4. /\ SameBut(r, d, {"h", "coll", "cash", "flash", "wallet", "allowance", "log"})
      /\ d.h = x.h /\ d.coll = x.coll /\ d.cash = x.cash /\ d.wallet = x.wallet
      /\ d.flash = x.flash /\ d.allowance = x.allowance
  BY <1>2, <1>3, Zenon DEF SameBut, Stored
<1>5. Moves(r, d)
  BY <1>1, <1>4 DEF Moves
<1>6. 0 \in Nat /\ 0 <= x.cash + 0 /\ d.cash = x.cash + 0 - 0
  BY <1>1, <1>4, SMT
<1>7. /\ Sound(d) /\ d.li = x.li /\ d.vi = x.vi /\ d.s = x.s
      /\ total = StableSupply(x) => RatesOf(d) = ImpliedRates(d)
  BY <1>3, <1>5, <1>6, Settled
<1>8. x.li = u.li /\ x.vi = u.vi /\ u.li \in Nat /\ u.vi \in Nat
  <2>1. x.li = u.li /\ x.vi = u.vi
    BY Zenon DEF SameBut, Stored
  <2> QED BY <2>1, FreshTypes
<1>9. d.li >= u.li /\ d.vi >= u.vi
  BY <1>7, <1>8, SMT
<1> QED
  BY <1>7, <1>9

\* A debt that changes its mode.
LEMMA SwapKeeps ==
    ASSUME NEW c, Sound(c), NEW by \in User, NEW mode \in RateMode,
           NEW d \in SwapBorrowRateMode(c, by, mode)
    PROVE  Keeps(c, d)
<1> DEFINE u == UpdateState(c)
           debt == Debt(u, by, mode)
           burnt == BurnDebt(u, by, debt, mode)
           swapped == IF mode = "stable"
                      THEN [burnt EXCEPT !.v = MintScaled(@, by, debt, u.vi)]
                      ELSE [burnt EXCEPT !.s = MintStable(burnt, by, debt, u.stableRate)]
           after == StableTotalAfter(u, by, debt, mode)
           total == IF mode = "stable" THEN after ELSE StableSupply(swapped)
           log == BurnDebtEvents(u, by, debt, mode) \cup
                  IF mode = "stable" THEN MintEvents("vToken", u.v, by, by, debt, u.vi)
                  ELSE MintStableEvents(burnt, by, by, debt, swapped.s)
           outcome == [SetRates(swapped, total, 0, 0) EXCEPT !.log = log]
<1>1. /\ debt # 0
      /\ mode = "variable" => CanBurn(u.v, by, debt, u.vi)
      /\ d = outcome
  BY Passed, Zenon DEF SwapBorrowRateMode
<1>2. Fresh(u)
  BY Updated
<1> HIDE DEF u
<1>3. debt \in Nat /\ (mode = "stable" => debt <= StableBalance(u, by))
  <2>1. debt \in Nat /\ StableBalance(u, by) \in Nat
    BY <1>2, BalanceTypes
  <2>2. mode = "stable" => debt = StableBalance(u, by)
    BY DEF Debt
  <2> HIDE DEF debt
  <2> QED BY <2>1, <2>2, SMT
<1> HIDE DEF debt
<1>4. /\ Fresh(burnt) /\ SameBut(u, burnt, {"s", "v"}) /\ after \in Nat
      /\ \/ after = StableSupply(burnt)
         \/ /\ mode = "stable" /\ burnt.s.supply = 0
            /\ BurntStable(u, by, debt).next # 0
  BY <1>1, <1>2, <1>3, DebtBurnt
<1> HIDE DEF burnt, after
<1>5. /\ DOMAIN burnt = Stored /\ burnt.vi = u.vi
      /\ u.stableRate \in Nat /\ u.vi \in Nat \ {0}
  <2>1. burnt.vi = u.vi
    BY <1>4, Zenon DEF SameBut, Stored
  <2> QED BY <1>2, <1>4, <2>1, FreshTypes
<1>6. /\ SameBut(burnt, swapped, {"s", "v"})
      /\ mode = "stable" => swapped.s = burnt.s /\ swapped.v = MintScaled(burnt.v, by, debt, u.vi)
      /\ mode # "stable" => swapped.v = burnt.v
                            /\ swapped.s = MintStable(burnt, by, debt, u.stableRate)
  BY <1>5, Zenon DEF SameBut, Stored
<1> HIDE DEF swapped
<1>7. Fresh(swapped)
  <2>1. CASE mode = "stable"
    <3> DEFINE other == "variable"
    <3>1. /\ swapped.s = (IF other = "stable"
                          THEN MintStable(burnt, by, debt, u.stableRate) ELSE burnt.s)
          /\ swapped.v = (IF other = "variable"
                          THEN MintScaled(burnt.v, by, debt, burnt.vi) ELSE burnt.v)
          /\ other \in RateMode
      BY <1>5, <1>6, <2>1 DEF RateMode
    <3> HIDE DEF other
    <3> QED BY <1>1, <1>3, <1>4, <1>5, <1>6, <3>1, DebtMinted
  <2>2. CASE mode # "stable"
    <3> DEFINE other == "stable"
    <3>1. /\ swapped.s = (IF other = "stable"
                          THEN MintStable(burnt, by, debt, u.stableRate) ELSE burnt.s)
          /\ swapped.v = (IF other = "variable"
                          THEN MintScaled(burnt.v, by, debt, burnt.vi) ELSE burnt.v)
          /\ other \in RateMode
      BY <1>5, <1>6, <2>2 DEF RateMode
    <3> HIDE DEF other
    <3> QED BY <1>1, <1>3, <1>4, <1>5, <1>6, <3>1, DebtMinted
  <2> QED BY <2>1, <2>2
<1>8. SameBut(u, swapped, {"s", "v"})
  BY <1>4, <1>6, Zenon DEF SameBut
<1>9. total \in Nat
  <2>1. StableSupply(swapped) \in Nat
    BY <1>7, FreshTypes
  <2> QED BY <1>4, <2>1
<1>10. mode = "stable" => StableSupply(swapped) = StableSupply(burnt) /\ total = after
  <2>1. swapped.now = burnt.now
    BY <1>6, Zenon DEF SameBut, Stored
  <2> QED BY <1>6, <2>1, Zenon DEF StableSupply
<1>11. mode # "stable" => total = StableSupply(swapped)
  OBVIOUS
<1> HIDE DEF total, log
<1>12. SameBut(SetRates(swapped, total, 0, 0), d, {"log"}) /\ d.log = log
  <2>1. DOMAIN SetRates(swapped, total, 0, 0) = Stored
    <3>1. DOMAIN swapped = Stored
      BY <1>7, FreshTypes
    <3> QED BY <3>1, RatesFields DEF SameBut
  <2> QED BY <1>1, <2>1, Zenon DEF SameBut, Stored
<1> HIDE DEF outcome
<1>13. /\ Sound(d) /\ d.li >= u.li /\ d.vi >= u.vi /\ d.s = swapped.s
       /\ total = StableSupply(swapped) => RatesOf(d) = ImpliedRates(d)
  BY <1>2, <1>7, <1>8, <1>9, <1>12, DebtsMoved
<1>14. RatesOf(d) = ImpliedRates(d) \/ ErasesStableTotal(d)
  <2>1. CASE total = StableSupply(swapped)
    BY <1>13, <2>1
  <2>2. CASE /\ mode = "stable" /\ burnt.s.supply = 0
             /\ BurntStable(u, by, debt).next # 0
    <3>1. \E e \in BurnDebtEvents(u, by, debt, mode) :
             e[1] = "sToken" /\ e[2] \in {"Mint", "Burn"} /\ e[Len(e)] # 0
      BY <2>2, BurnReports
    <3>2. BurnDebtEvents(u, by, debt, mode) \subseteq d.log
      BY <1>12, Zenon DEF log
    <3>3. d.s.supply = 0
      BY <1>6, <1>13, <2>2
    <3> QED BY <3>1, <3>2, <3>3, Zenon DEF ErasesStableTotal
  <2> QED BY <1>4, <1>10, <1>11, <2>1, <2>2
<1> QED
  BY <1>13, <1>14, HandlerKeeps DEF u

\* A stable debt at a new rate.
LEMMA RebalanceKeeps ==
    ASSUME NEW c, Sound(c), NEW user \in User, NEW d \in RebalanceStableBorrowRate(c, user)
    PROVE  Keeps(c, d)
<1> DEFINE u == UpdateState(c)
           debt == StableBalance(u, user)
           burnt == [u EXCEPT !.s = BurnStable(u, user, debt)]
           minted == [burnt EXCEPT !.s = MintStable(burnt, user, debt, u.stableRate)]
           total == StableSupply(minted)
           log == BurnStableEvents(u, user, debt) \cup
                  MintStableEvents(burnt, user, user, debt, minted.s)
           outcome == [SetRates(minted, total, 0, 0) EXCEPT !.log = log]
<1>1. debt # 0 /\ d = outcome
  BY Passed, Zenon DEF RebalanceStableBorrowRate
<1>2. Fresh(u)
  BY Updated
<1> HIDE DEF u
<1>3. debt \in Nat /\ debt <= StableBalance(u, user) /\ u.stableRate \in Nat
      /\ DOMAIN u = Stored
  <2>1. debt \in Nat
    BY <1>2, BalanceTypes
  <2>2. debt <= debt
    BY <2>1, SMT
  <2> QED BY <1>2, <2>1, <2>2, FreshTypes
<1> HIDE DEF debt
<1>4. SameBut(u, burnt, {"s"}) /\ burnt.s = BurnStable(u, user, debt)
  BY <1>3, Zenon DEF SameBut, Stored
<1> HIDE DEF burnt
<1>5. Fresh(burnt)
  BY <1>2, <1>3, <1>4, BurnStableType, StableReplaced DEF Fresh, Sound
<1>6. SameBut(burnt, minted, {"s"}) /\ minted.s = MintStable(burnt, user, debt, u.stableRate)
  <2>1. DOMAIN burnt = Stored
    BY <1>5, FreshTypes
  <2> QED BY <2>1, Zenon DEF SameBut, Stored
<1> HIDE DEF minted
<1>7. Fresh(minted)
  BY <1>1, <1>3, <1>5, <1>6, MintStableType, StableReplaced DEF Fresh, Sound
<1>8. SameBut(u, minted, {"s", "v"})
  BY <1>4, <1>6, Zenon DEF SameBut
<1>9. total \in Nat /\ DOMAIN minted = Stored
  BY <1>7, FreshTypes
<1>10. total = StableSupply(minted)
  OBVIOUS
<1> HIDE DEF total, log
<1>11. SameBut(SetRates(minted, total, 0, 0), d, {"log"})
  <2>1. DOMAIN SetRates(minted, total, 0, 0) = Stored
    BY <1>9, RatesFields DEF SameBut
  <2> QED BY <1>1, <2>1, Zenon DEF SameBut, Stored
<1> HIDE DEF outcome
<1>12. Sound(d) /\ d.li >= u.li /\ d.vi >= u.vi /\ RatesOf(d) = ImpliedRates(d)
  BY <1>2, <1>7, <1>8, <1>9, <1>10, <1>11, DebtsMoved
<1> QED
  BY <1>12, HandlerKeeps DEF u

\* The treasury's hTokens and the payment to the vault.
LEMMA TreasuryKeeps ==
    ASSUME NEW c, Sound(c), NEW d \in MintToTreasury(c)
    PROVE  Keeps(c, d)
<1> DEFINE index == NormalizedIncome(c)
           amount == RayMul(c.accrued, index)
           vault == PercentMul(amount, FeeToVaultPercent)
           cleared == [c EXCEPT !.accrued = 0, !.log = {}]
           paid == Payment("hToken", "vault", vault)
           log == MintEvents("hToken", c.h, "pool", Treasury, amount - vault, index)
                    \cup {paid}
           outcome == [cleared EXCEPT
                          !.h = MintScaled(@, Treasury, amount - vault, index),
                          !.cash = @ - vault, !.log = log]
<1>1. \/ d = cleared
      \/ vault <= c.cash /\ d = outcome
  <2> DEFINE checks == vault <= c.cash /\ CanMint(amount - vault, index)
  <2>1. MintToTreasury(c) = IF amount = 0 THEN {cleared} ELSE Require(checks, outcome)
    BY Zenon DEF MintToTreasury
  <2> HIDE DEF outcome, vault, amount, index, cleared
  <2> QED BY <2>1, Zenon DEF Require
<1>2. /\ DOMAIN c = Stored /\ c.li \in Nat /\ c.li >= RAY /\ c.vi \in Nat
      /\ c.accrued \in Nat /\ c.cash \in Nat
      /\ c.h \in ScaledTokens(Account) /\ Adds(c.h) /\ IsChain(c) /\ Adds(c.v)
  BY DEF Sound, IsChain
<1>3. index \in Nat \ {0}
  <2>1. index \in Nat /\ index >= c.li
    BY <1>2, IndexesGrow
  <2> HIDE DEF index
  <2> QED BY <1>2, <2>1, HalfRay, SMT
<1> HIDE DEF index
<1>4. amount \in Nat
  BY <1>2, <1>3, RayMulType
<1> HIDE DEF amount
<1>5. vault \in Nat /\ amount - vault \in Nat
  <2>1. FeeToVaultPercent \in Nat /\ FeeToVaultPercent <= PERCENTAGE_FACTOR
    <3>1. FeeToVaultPercent \in 0 .. PERCENTAGE_FACTOR
      BY ReserveAssumption
    <3> QED BY <3>1, HalfFactor, SMT
  <2>2. vault \in Nat /\ vault <= amount
    BY <1>4, <2>1, PercentMulType, PercentMulBound
  <2> QED BY <1>4, <2>2, SMT
<1>6. c.li >= c.li /\ c.vi >= c.vi
  BY <1>2, SMT
<1>7. SameBut(c, cleared, {"accrued", "log"}) /\ cleared.accrued = 0
  BY <1>2, Zenon DEF SameBut, Stored
<1> HIDE DEF cleared
<1>8. CASE d = cleared
  <2>1. /\ d.li = c.li /\ d.vi = c.vi /\ d.h = c.h /\ d.v = c.v /\ d.s = c.s
        /\ d.cash = c.cash /\ d.unbacked = c.unbacked
    BY <1>7, <1>8, Zenon DEF SameBut, Stored
  <2>2. IsChain(d)
    BY <1>2, <1>7, <1>8, SMT DEF IsChain, SameBut, Stored
  <2>3. ~MovesFunds(c, d)
    BY <2>1, Zenon DEF MovesFunds
  <2> QED BY <1>2, <1>6, <2>1, <2>2, <2>3 DEF Keeps, Sound, LeavesCurrentRates
<1>9. CASE vault <= c.cash /\ d = outcome
  <2>1. paid \in log
    OBVIOUS
  <2> HIDE DEF log, vault
  <2>2. /\ SameBut(c, d, {"h", "cash", "accrued", "log"})
        /\ d.h = MintScaled(c.h, Treasury, amount - vault, index)
        /\ d.cash = c.cash - vault /\ d.accrued = 0 /\ d.log = log
    BY <1>7, <1>9, Zenon DEF SameBut, Stored
  <2> HIDE DEF outcome
  <2>3. Treasury \in Account
    BY DEF Account
  <2>4. d.h \in ScaledTokens(Account) /\ Adds(d.h)
    BY <1>2, <1>3, <1>5, <2>2, <2>3, MintKeepsTotal, AccountsFinite
  <2>5. d.cash \in Nat
    BY <1>2, <1>5, <1>9, <2>2, SMT
  <2>6. IsChain(d)
    BY <1>2, <2>2, <2>4, <2>5, SMT DEF IsChain, SameBut, Stored
  <2>7. d.li = c.li /\ d.vi = c.vi /\ d.v = c.v
    BY <2>2, Zenon DEF SameBut, Stored
  <2>8. paid[1] = "underlying" /\ paid[4] = "vault"
    BY DEF Payment
  <2> HIDE DEF paid
  <2>9. PaysVault(d.log)
    BY <2>1, <2>2, <2>8, Zenon DEF PaysVault
  <2> QED BY <1>2, <1>6, <2>4, <2>6, <2>7, <2>9 DEF Keeps, Sound, LeavesCurrentRates
<1> QED
  BY <1>1, <1>8, <1>9

\* hTokens minted by a bridge ahead of the funds.
LEMMA UnbackedKeeps ==
    ASSUME NEW c, Sound(c), NEW for \in User, NEW amount \in Nat,
           NEW d \in MintUnbacked(c, for, amount)
    PROVE  Keeps(c, d)
<1> DEFINE u == UpdateState(c)
           owed == [u EXCEPT !.unbacked = @ + amount]
           r == SetRates(owed, StableSupply(u), 0, 0)
           k == Credit(r, for, amount)
           log == MintEvents("hToken", u.h, "bridge", for, amount, u.li)
           outcome == [k EXCEPT !.log = log]
<1>1. owed.unbacked <= UnbackedCap /\ d = outcome
  BY Passed, Zenon DEF MintUnbacked
<1>2. Fresh(u)
  BY Updated
<1> HIDE DEF u, log
<1>3. /\ DOMAIN u = Stored /\ u.li \in Nat \ {0} /\ u.h \in ScaledTokens(Account) /\ Adds(u.h)
      /\ u.cash \in Nat /\ u.wallet \in [User -> Nat] /\ u.coll \subseteq User
      /\ u.flash \in Nat /\ u.allowance \in [RateMode -> [User -> [User -> Nat]]]
      /\ StableSupply(u) \in Nat
  BY <1>2, FreshTypes
<1>4. SameBut(u, owed, {"unbacked"}) /\ owed.unbacked = u.unbacked + amount
  BY <1>3, Zenon DEF SameBut, Stored
<1> HIDE DEF owed
<1>5. /\ owed.li = u.li /\ owed.vi = u.vi /\ owed.h = u.h /\ owed.v = u.v /\ owed.s = u.s
      /\ owed.now = u.now /\ owed.lastUpdate = u.lastUpdate /\ owed.cash = u.cash
      /\ DOMAIN owed = Stored
  BY <1>4, Zenon DEF SameBut, Stored
<1>6. owed.unbacked \in 0 .. UnbackedCap
  <2>1. u.unbacked \in 0 .. UnbackedCap /\ UnbackedCap \in Nat
    BY <1>2, ReserveAssumption DEF Fresh, Sound, IsChain
  <2> QED BY <1>1, <1>4, <2>1, SMT
<1>7. Fresh(owed)
  <2>1. IsChain(owed)
    BY <1>2, <1>4, <1>6, SMT DEF Fresh, Sound, IsChain, SameBut, Stored
  <2> QED BY <1>2, <1>5, <2>1 DEF Fresh, Sound
<1>8. /\ SameBut(owed, r, {"liquidityRate", "stableRate", "variableRate"})
      /\ r = SetRates(owed, StableSupply(u), 0, 0)
  BY <1>5, RatesFields
<1> HIDE DEF r
<1>9. /\ DOMAIN r = Stored /\ r.li = u.li /\ r.h = u.h /\ r.coll = u.coll
      /\ r.cash = u.cash /\ r.wallet = u.wallet /\ r.flash = u.flash
      /\ r.allowance = u.allowance
  BY <1>4, <1>8, Zenon DEF SameBut, Stored
<1>10. /\ SameBut(r, k, {"h", "coll"})
       /\ k.h \in ScaledTokens(Account) /\ Adds(k.h) /\ k.coll \subseteq User
  BY <1>3, <1>9, Credited
<1> HIDE DEF k
<1>11. SameBut(k, d, {"log"})
  BY <1>1, <1>10, Zenon DEF SameBut, Stored
<1> HIDE DEF outcome
<1>12. /\ SameBut(r, d, {"h", "coll", "cash", "flash", "wallet", "allowance", "log"})
       /\ d.h = k.h /\ d.coll = k.coll /\ d.cash = r.cash /\ d.wallet = r.wallet
       /\ d.flash = r.flash /\ d.allowance = r.allowance
  BY <1>10, <1>11, Zenon DEF SameBut, Stored
<1>13. 0 \in Nat /\ 0 <= owed.cash + 0 /\ d.cash = owed.cash + 0 - 0
  BY <1>3, <1>5, <1>9, <1>12, SMT
<1>14. Moves(r, d)
  BY <1>3, <1>9, <1>10, <1>12 DEF Moves
<1>15. StableSupply(owed) = StableSupply(u)
  BY <1>5, Zenon DEF StableSupply
<1>16. Sound(d) /\ d.li = owed.li /\ d.vi = owed.vi /\ RatesOf(d) = ImpliedRates(d)
  BY <1>3, <1>7, <1>8, <1>13, <1>14, <1>15, Settled
<1>17. d.li >= u.li /\ d.vi >= u.vi
  BY <1>2, <1>5, <1>16, FreshTypes, SMT
<1> QED
  BY <1>16, <1>17, HandlerKeeps DEF u

\* A one-off income raises the liquidity index and the treasury's share.
LEMMA Cumulated ==
    ASSUME NEW u, Fresh(u), NEW income \in Nat, NEW toTreasury \in Nat,
           SuppliersClaim(u) # 0, NEW e, e = Cumulate(u, income, toTreasury)
    PROVE  Fresh(e) /\ SameBut(u, e, {"li", "accrued"}) /\ e.li >= u.li
<1> DEFINE claim == SuppliersClaim(u)
           factor == RayDiv(WadToRay(income), WadToRay(claim)) + RAY
           next == RayMul(factor, u.li)
           accrued == u.accrued + RayDiv(toTreasury, next)
<1>1. /\ DOMAIN u = Stored /\ u.li \in Nat \ {0} /\ u.li >= RAY /\ u.accrued \in Nat
      /\ u.h.total \in Nat
  BY FreshTypes DEF ScaledTokens
<1>2. claim \in Nat \ {0}
  <2>1. NormalizedIncome(u) \in Nat
    BY IndexesGrow DEF Fresh, Sound
  <2>2. RayMul(u.h.total, NormalizedIncome(u)) \in Nat /\ RayMul(u.accrued, u.li) \in Nat
    BY <1>1, <2>1, RayMulType
  <2>3. RayMul(u.h.total, NormalizedIncome(u)) + RayMul(u.accrued, u.li) \in Nat
    BY <2>2, SMT
  <2> QED BY <2>3, Zenon DEF SuppliersClaim
<1> HIDE DEF claim
<1>3. RayDiv(WadToRay(income), WadToRay(claim)) \in Nat
  BY <1>2, WadToRayType, RayDivType
<1>4. factor \in Nat /\ factor >= RAY
  BY <1>3, HalfRay, SMT
<1> HIDE DEF factor
<1>5. next \in Nat /\ next >= u.li
  BY <1>1, <1>4, GrowthGrows
<1>6. /\ SameBut(u, e, {"li", "accrued"}) /\ e.li = next /\ e.accrued = accrued
  <2>1. e = [u EXCEPT !.li = next, !.accrued = @ + RayDiv(toTreasury, next)]
    BY Zenon DEF Cumulate, factor, claim
  <2> HIDE DEF next
  <2> QED BY <1>1, <2>1, Zenon DEF SameBut, Stored
<1> HIDE DEF next
<1>7. next \in Nat \ {0} /\ next >= RAY
  BY <1>1, <1>5, HalfRay, SMT
<1>8. accrued \in Nat
  <2>1. RayDiv(toTreasury, next) \in Nat
    BY <1>7, RayDivType
  <2> QED BY <1>1, <2>1, SMT
<1> HIDE DEF accrued
<1>9. IsChain(e)
  BY <1>5, <1>6, <1>7, <1>8, SMT DEF Fresh, Sound, IsChain, SameBut, Stored
<1>10. e.h = u.h /\ e.v = u.v /\ e.lastUpdate = u.lastUpdate /\ e.now = u.now
  BY <1>6, Zenon DEF SameBut, Stored
<1> QED
  BY <1>5, <1>6, <1>9, <1>10 DEF Fresh, Sound

\* What a percentage splits off an income leaves a rest.
LEMMA Split ==
    ASSUME NEW income \in Nat, NEW percent \in 0 .. PERCENTAGE_FACTOR
    PROVE  PercentMul(income, percent) \in Nat /\ income - PercentMul(income, percent) \in Nat
<1>1. percent \in Nat /\ percent <= PERCENTAGE_FACTOR
  BY HalfFactor, SMT
<1>2. PercentMul(income, percent) \in Nat /\ PercentMul(income, percent) <= income
  BY <1>1, PercentMulType, PercentMulBound
<1> QED
  BY <1>2, SMT

\* A bridge backs what it minted, and pays its fee.
LEMMA BackingKeeps ==
    ASSUME NEW c, Sound(c), NEW amount \in Nat, NEW fee \in Nat,
           NEW d \in BackUnbacked(c, amount, fee)
    PROVE  Keeps(c, d)
<1> DEFINE u == UpdateState(c)
           backing == IF amount < u.unbacked THEN amount ELSE u.unbacked
           toProtocol == PercentMul(fee, BridgeFee)
           earned == Cumulate(u, fee - toProtocol, toProtocol)
           backed == [earned EXCEPT !.unbacked = @ - backing]
           added == backing + fee
           r == SetRates(backed, StableSupply(u), added, 0)
           outcome == [r EXCEPT !.cash = @ + backing + fee,
                                !.log = {Payment("bridge", "hToken", backing + fee)}]
<1>1. SuppliersClaim(u) # 0 /\ d = outcome
  BY Passed, Zenon DEF BackUnbacked
<1>2. Fresh(u)
  BY Updated
<1> HIDE DEF u
<1>3. /\ DOMAIN u = Stored /\ u.h \in ScaledTokens(Account) /\ Adds(u.h)
      /\ u.cash \in Nat /\ u.wallet \in [User -> Nat] /\ u.coll \subseteq User
      /\ u.flash \in Nat /\ u.allowance \in [RateMode -> [User -> [User -> Nat]]]
      /\ StableSupply(u) \in Nat
  BY <1>2, FreshTypes
<1>4. u.unbacked \in Nat /\ u.unbacked <= UnbackedCap
  <2>1. u.unbacked \in 0 .. UnbackedCap /\ UnbackedCap \in Nat
    BY <1>2, ReserveAssumption DEF Fresh, Sound, IsChain
  <2> QED BY <2>1, SMT
<1>5. backing \in Nat /\ backing <= u.unbacked
  BY <1>4, SMT
<1> HIDE DEF backing
<1>6. toProtocol \in Nat /\ fee - toProtocol \in Nat
  BY ReserveAssumption, Split
<1> HIDE DEF toProtocol
<1>7. Fresh(earned) /\ SameBut(u, earned, {"li", "accrued"}) /\ earned.li >= u.li
  BY <1>1, <1>2, <1>6, Cumulated
<1> HIDE DEF earned
<1>8. SameBut(earned, backed, {"unbacked"}) /\ backed.unbacked = u.unbacked - backing
  <2>1. DOMAIN earned = Stored /\ earned.unbacked = u.unbacked
    BY <1>7, Zenon DEF SameBut, Stored
  <2> QED BY <2>1, Zenon DEF SameBut, Stored
<1> HIDE DEF backed
<1>9. /\ backed.li = earned.li /\ backed.vi = u.vi /\ backed.h = u.h /\ backed.v = earned.v
      /\ backed.s = u.s /\ backed.now = u.now /\ backed.lastUpdate = earned.lastUpdate
      /\ earned.h = u.h /\ earned.now = u.now /\ backed.cash = u.cash
      /\ DOMAIN backed = Stored
  BY <1>7, <1>8, Zenon DEF SameBut, Stored
<1>10. Fresh(backed)
  <2>1. backed.unbacked \in 0 .. UnbackedCap
    BY <1>4, <1>5, <1>8, ReserveAssumption, SMT
  <2>2. IsChain(backed)
    BY <1>7, <1>8, <2>1, SMT DEF Fresh, Sound, IsChain, SameBut, Stored
  <2> QED BY <1>7, <1>9, <2>2 DEF Fresh, Sound
<1>11. added \in Nat
  BY <1>5, SMT
<1>12. /\ SameBut(backed, r, {"liquidityRate", "stableRate", "variableRate"})
       /\ r = SetRates(backed, StableSupply(u), added, 0)
  BY <1>9, RatesFields
<1> HIDE DEF r
<1>13. /\ DOMAIN r = Stored /\ r.h = u.h /\ r.coll = u.coll
       /\ r.cash = u.cash /\ r.wallet = u.wallet /\ r.flash = u.flash
       /\ r.allowance = u.allowance
  BY <1>7, <1>8, <1>12, Zenon DEF SameBut, Stored
<1>14. SameBut(r, d, {"cash", "log"}) /\ d.cash = r.cash + backing + fee
  BY <1>1, <1>13, Zenon DEF SameBut, Stored
<1> HIDE DEF outcome
<1>15. /\ SameBut(r, d, {"h", "coll", "cash", "flash", "wallet", "allowance", "log"})
       /\ d.h = r.h /\ d.coll = r.coll /\ d.wallet = r.wallet
       /\ d.flash = r.flash /\ d.allowance = r.allowance
  BY <1>14, Zenon DEF SameBut, Stored
<1>16. 0 \in Nat /\ 0 <= backed.cash + added /\ d.cash = backed.cash + added - 0
  BY <1>3, <1>5, <1>9, <1>13, <1>14, SMT
<1> HIDE DEF added
<1>17. Moves(r, d)
  BY <1>3, <1>13, <1>15 DEF Moves
<1>18. StableSupply(backed) = StableSupply(u)
  BY <1>9, Zenon DEF StableSupply
<1>19. Sound(d) /\ d.li = backed.li /\ d.vi = backed.vi /\ RatesOf(d) = ImpliedRates(d)
  BY <1>3, <1>10, <1>11, <1>12, <1>16, <1>17, <1>18, Settled
<1>20. d.li >= u.li /\ d.vi >= u.vi
  BY <1>2, <1>7, <1>9, <1>19, FreshTypes, SMT
<1> QED
  BY <1>19, <1>20, HandlerKeeps DEF u

\* A flash loan paid out.
LEMMA FlashOutKeeps ==
    ASSUME NEW c, Sound(c), NEW amount \in Nat, NEW d \in FlashOut(c, amount)
    PROVE  Keeps(c, d)
<1> DEFINE outcome == [c EXCEPT !.flash = @ + amount, !.cash = @ - amount,
                                !.log = {Payment("hToken", "receiver", amount)}]
<1>1. amount <= c.cash /\ d = outcome
  BY Passed, Zenon DEF FlashOut
<1>2. DOMAIN c = Stored /\ c.cash \in Nat /\ c.flash \in Nat /\ c.li \in Nat /\ c.vi \in Nat
  BY DEF Sound, IsChain
<1>3. /\ SameBut(c, d, {"flash", "cash", "log"})
      /\ d.flash = c.flash + amount /\ d.cash = c.cash - amount
  BY <1>1, <1>2, Zenon DEF SameBut, Stored
<1> HIDE DEF outcome
<1>4. /\ d.li = c.li /\ d.vi = c.vi /\ d.h = c.h /\ d.v = c.v /\ d.s = c.s
      /\ d.unbacked = c.unbacked
  BY <1>3, Zenon DEF SameBut, Stored
<1>5. d.cash \in Nat /\ d.flash \in Nat /\ (d.flash = 0 => d.cash = c.cash)
  BY <1>1, <1>2, <1>3, SMT
<1>6. IsChain(d)
  BY <1>3, <1>5, SMT DEF Sound, IsChain, SameBut, Stored
<1>7. d.flash = 0 => ~MovesFunds(c, d)
  BY <1>3, <1>4, <1>5, Zenon DEF MovesFunds
<1>8. d.li >= c.li /\ d.vi >= c.vi
  BY <1>2, <1>4, SMT
<1> QED
  BY <1>4, <1>6, <1>7, <1>8 DEF Keeps, Sound, LeavesCurrentRates

\* A flash loan paid back with its premium.
LEMMA FlashBackKeeps ==
    ASSUME NEW c, Sound(c), NEW amount \in Nat, NEW d \in FlashBack(c, amount)
    PROVE  Keeps(c, d)
<1> DEFINE u == UpdateState(c)
           premium == PercentMul(amount, FlashPremium)
           toProtocol == PercentMul(premium, PremiumToProtocol)
           earned == Cumulate(u, premium - toProtocol, toProtocol)
           returned == amount + premium
           r == SetRates(earned, StableSupply(u), returned, 0)
           outcome == [r EXCEPT !.flash = @ - amount, !.cash = @ + returned,
                                !.log = {Payment("receiver", "hToken", returned)}]
<1>1. amount \in 1 .. c.flash /\ SuppliersClaim(u) # 0 /\ d = outcome
  BY Passed, Zenon DEF FlashBack
<1>2. Fresh(u) /\ u.flash = c.flash
  <2>1. Fresh(u) /\ SameBut(c, u, {"li", "vi", "accrued", "lastUpdate"})
    BY Updated
  <2> QED BY <2>1, Zenon DEF SameBut, Stored, Sound, IsChain
<1> HIDE DEF u
<1>3. /\ DOMAIN u = Stored /\ u.h \in ScaledTokens(Account) /\ Adds(u.h)
      /\ u.cash \in Nat /\ u.wallet \in [User -> Nat] /\ u.coll \subseteq User
      /\ u.flash \in Nat /\ u.allowance \in [RateMode -> [User -> [User -> Nat]]]
      /\ StableSupply(u) \in Nat
  BY <1>2, FreshTypes
<1>4. premium \in Nat
  BY <1>3, ReserveAssumption, Split
<1> HIDE DEF premium
<1>5. toProtocol \in Nat /\ premium - toProtocol \in Nat
  BY <1>4, ReserveAssumption, Split
<1> HIDE DEF toProtocol
<1>6. Fresh(earned) /\ SameBut(u, earned, {"li", "accrued"}) /\ earned.li >= u.li
  BY <1>1, <1>2, <1>5, Cumulated
<1> HIDE DEF earned
<1>7. /\ earned.vi = u.vi /\ earned.s = u.s /\ earned.now = u.now /\ earned.cash = u.cash
      /\ DOMAIN earned = Stored
  BY <1>6, Zenon DEF SameBut, Stored
<1>8. returned \in Nat
  BY <1>3, <1>4, SMT
<1> HIDE DEF returned
<1>9. /\ SameBut(earned, r, {"liquidityRate", "stableRate", "variableRate"})
      /\ r = SetRates(earned, StableSupply(u), returned, 0)
  BY <1>7, RatesFields
<1> HIDE DEF r
<1>10. /\ DOMAIN r = Stored /\ r.h = u.h /\ r.coll = u.coll
       /\ r.cash = u.cash /\ r.wallet = u.wallet /\ r.allowance = u.allowance
       /\ r.flash = u.flash
  BY <1>6, <1>9, Zenon DEF SameBut, Stored
<1>11. /\ SameBut(r, d, {"flash", "cash", "log"}) /\ d.cash = r.cash + returned
       /\ d.flash = r.flash - amount
  BY <1>1, <1>10, Zenon DEF SameBut, Stored
<1> HIDE DEF outcome
<1>12. /\ SameBut(r, d, {"h", "coll", "cash", "flash", "wallet", "allowance", "log"})
       /\ d.h = r.h /\ d.coll = r.coll /\ d.wallet = r.wallet
       /\ d.allowance = r.allowance
  BY <1>11, Zenon DEF SameBut, Stored
<1>13. /\ 0 \in Nat /\ 0 <= earned.cash + returned /\ d.cash = earned.cash + returned - 0
       /\ d.flash \in Nat
  BY <1>1, <1>2, <1>3, <1>7, <1>8, <1>10, <1>11, SMT
<1>14. Moves(r, d)
  BY <1>3, <1>10, <1>11, <1>12, <1>13 DEF Moves
<1>15. StableSupply(earned) = StableSupply(u)
  BY <1>7, Zenon DEF StableSupply
<1>16. Sound(d) /\ d.li = earned.li /\ d.vi = earned.vi /\ RatesOf(d) = ImpliedRates(d)
  BY <1>3, <1>6, <1>8, <1>9, <1>13, <1>14, <1>15, Settled
<1>17. d.li >= u.li /\ d.vi >= u.vi
  BY <1>2, <1>6, <1>7, <1>16, FreshTypes, SMT
<1> QED
  BY <1>16, <1>17, HandlerKeeps DEF u

-----------------------------------------------------------------------------
(* Events.  How far a scaled balance moves by an amount, and what the      *)
(* Transfer events of a log add up to.                                     *)

\* A half-up product, between its bounds.
LEMMA RayMulBrackets ==
    \A a, b \in Nat : /\ RayMul(a, b) * RAY <= a * b + HALF_RAY
                      /\ a * b - HALF_RAY < RayMul(a, b) * RAY
<1> SUFFICES ASSUME NEW a \in Nat, NEW b \in Nat
             PROVE  /\ RayMul(a, b) * RAY <= a * b + HALF_RAY
                    /\ a * b - HALF_RAY < RayMul(a, b) * RAY
  OBVIOUS
<1> DEFINE p == a * b
           n == p + HALF_RAY
           m == n \div RAY
<1>1. p \in Nat /\ n \in Nat
  BY ProductType, HalfRay, SMT
<1>2. m \in Nat /\ RAY * m <= n /\ n < RAY * m + RAY
  BY <1>1, DivBrackets, HalfRay, Zenon
<1>3. RayMul(a, b) = m
  BY Zenon DEF RayMul
<1> HIDE DEF m
<1>4. RAY * m = m * RAY /\ RAY * m \in Nat
  BY <1>2, ProductType, HalfRay, SMT
<1>5. m * RAY <= p + HALF_RAY /\ p - HALF_RAY < m * RAY
  BY <1>1, <1>2, <1>4, HalfRay, SMT
<1> QED
  BY <1>3, <1>5

\* A half-up quotient, between its bounds.
LEMMA RayDivBrackets ==
    \A a \in Nat, b \in Nat \ {0} :
        /\ RayDiv(a, b) * b <= a * RAY + (b \div 2)
        /\ a * RAY - (b \div 2) <= RayDiv(a, b) * b
<1> SUFFICES ASSUME NEW a \in Nat, NEW b \in Nat \ {0}
             PROVE  /\ RayDiv(a, b) * b <= a * RAY + (b \div 2)
                    /\ a * RAY - (b \div 2) <= RayDiv(a, b) * b
  OBVIOUS
<1> DEFINE p == a * RAY
           h == b \div 2
           n == p + h
           m == n \div b
<1>1. p \in Nat /\ h \in Nat /\ b <= 2 * h + 1
  BY ProductType, HalfRay, SMT
<1>2. n \in Nat
  BY <1>1, SMT
<1>3. m \in Nat /\ b * m <= n /\ n < b * m + b
  BY <1>2, DivBrackets, Zenon
<1>4. RayDiv(a, b) = m
  BY Zenon DEF RayDiv
<1> HIDE DEF m, p, h
<1>5. b * m = m * b /\ b * m \in Nat
  BY <1>3, SMT
<1>6. m * b <= p + h /\ p - h <= m * b
  BY <1>1, <1>3, <1>5, SMT
<1> QED
  BY <1>4, <1>6 DEF p, h

\* The slack is a natural, and leaves room for half an index and a unit.
LEMMA SlackRoom ==
    \A i \in Nat : /\ Slack(i) \in Nat
                   /\ i \div 2 < RAY * Slack(i)
<1> SUFFICES ASSUME NEW i \in Nat
             PROVE  Slack(i) \in Nat /\ i \div 2 < RAY * Slack(i)
  OBVIOUS
<1> DEFINE k == i \div (2 * RAY)
<1>1. 2 * RAY \in Nat \ {0}
  BY HalfRay, SMT
<1>2. k \in Nat /\ i < (2 * RAY) * k + 2 * RAY
  BY <1>1, DivBrackets, Zenon
<1> HIDE DEF k
<1>3. (2 * RAY) * k = 2 * (RAY * k) /\ RAY * (1 + k) = RAY + RAY * k /\ RAY * k \in Nat
  BY <1>2, HalfRay, SMT
<1>4. i \div 2 < RAY * (1 + k)
  BY <1>2, <1>3, HalfRay, SMT
<1> QED
  BY <1>2, <1>4 DEF Slack, k

\* Minting or burning the scaled part of an amount moves the balance by the
\* amount, but for the slack.
LEMMA ScaledMoves ==
    ASSUME NEW s \in Nat, NEW amount \in Nat, NEW index \in Nat \ {0}
    PROVE  LET x == RayDiv(amount, index)
               e == amount - (RayMul(s + x, index) - RayMul(s, index))
           IN e \in -Slack(index) .. Slack(index)
<1> DEFINE x == RayDiv(amount, index)
           a == RayMul(s, index)
           b == RayMul(s + x, index)
           p == s * index
           q == x * index
           m == (s + x) * index
           e == amount - (b - a)
           k == Slack(index)
           h == index \div 2
<1>1. x \in Nat /\ s + x \in Nat /\ k \in Nat /\ h < RAY * k
  <2>1. x \in Nat
    BY RayDivType, Zenon
  <2>2. k \in Nat /\ h < RAY * k
    BY SlackRoom, Zenon
  <2>3. s + x \in Nat
    BY <2>1, SMT
  <2> HIDE DEF x, k, h
  <2> QED BY <2>1, <2>2, <2>3, Zenon
<1>2. a \in Nat /\ b \in Nat /\ p \in Nat /\ q \in Nat /\ h \in Nat
  <2>1. a \in Nat /\ b \in Nat
    BY <1>1, RayMulType, Zenon
  <2>2. h \in Nat
    BY SMT
  <2>3. p \in Nat /\ q \in Nat
    BY <1>1, ProductType, Zenon
  <2> QED BY <2>1, <2>2, <2>3, Zenon
<1>3. q <= amount * RAY + h /\ amount * RAY - h <= q
  BY RayDivBrackets, Zenon
<1>4. m = p + q /\ m \in Nat
  <2>1. x \in Nat
    BY <1>1
  <2> HIDE DEF x
  <2> QED BY <2>1, SMT
<1>5. /\ a * RAY <= p + HALF_RAY /\ p - HALF_RAY < a * RAY
      /\ b * RAY <= m + HALF_RAY /\ m - HALF_RAY < b * RAY
  BY <1>1, RayMulBrackets, Zenon
<1> HIDE DEF m
<1> HIDE DEF x, a, b, p, q, k, h
<1>6. /\ amount * RAY \in Nat /\ a * RAY \in Nat /\ b * RAY \in Nat /\ RAY * k \in Nat
      /\ e * RAY = amount * RAY - (b * RAY - a * RAY)
      /\ e \in Int
  BY <1>1, <1>2, HalfRay, SMT
<1>7. e * RAY < RAY + RAY * k /\ -(RAY + RAY * k) < e * RAY
  BY <1>1, <1>2, <1>3, <1>4, <1>5, <1>6, HalfRay, SMT
<1> HIDE DEF e
<1>8. ASSUME NEW n \in Int, n * RAY < RAY + RAY * k PROVE n <= k
  <2>1. CASE n <= k
    BY <2>1
  <2>2. CASE n > k
    <3>1. n - (k + 1) \in Nat /\ RAY * k \in Nat
      BY <1>1, <1>6, <2>2, SMT
    <3>2. (n - (k + 1)) * RAY \in Nat /\ (n - (k + 1)) * RAY = n * RAY - RAY * k - RAY
      BY <1>1, <3>1, HalfRay, SMT
    <3> QED BY <1>8, <3>1, <3>2, HalfRay, SMT
  <2> QED BY <1>1, <2>1, <2>2, SMT
<1>9. e <= k
  BY <1>6, <1>7, <1>8
<1>10. -e <= k
  <2>1. -e \in Int /\ (-e) * RAY = -(e * RAY) /\ e * RAY \in Int
    BY <1>6, HalfRay, SMT
  <2>2. (-e) * RAY < RAY + RAY * k
    BY <1>6, <1>7, <2>1, HalfRay, SMT
  <2> QED BY <1>8, <2>1, <2>2
<1>11. e \in -k .. k
  BY <1>1, <1>6, <1>9, <1>10, SMT
<1> QED
  BY <1>11 DEF e, k, a, b, x

\* The amounts of a set of events that have u in place k, added up.
Flow(T, k, u) == SumFunctionOnSet([e \in T |-> e[5]], {e \in T : e[k] = u})

\* What is received is the flow in less the flow out.
LEMMA ReceivedIsFlow ==
    ASSUME NEW log, NEW token, NEW u
    PROVE  Received(log, token, u)
             = Flow(Transfers(log, token), 4, u) - Flow(Transfers(log, token), 3, u)
<1> DEFINE T == Transfers(log, token)
<1>1. DOMAIN [e \in T |-> e[5]] = T
  OBVIOUS
<1> HIDE DEF T
<1> QED
  BY <1>1, Zenon DEF Received, Flow, T

\* No event, no flow.
LEMMA FlowNone ==
    ASSUME NEW T, NEW k, NEW u, \A e \in T : e[k] # u
    PROVE  Flow(T, k, u) = 0
<1>1. {e \in T : e[k] = u} = {}
  OBVIOUS
<1> QED
  BY <1>1, SumEmpty DEF Flow

\* One event.
LEMMA FlowOne ==
    ASSUME NEW T, NEW k, NEW u, NEW f \in T, f[5] \in Int, f[k] = u,
           \A e \in T : e[k] = u => e = f
    PROVE  Flow(T, k, u) = f[5]
<1> DEFINE g == [e \in T |-> e[5]]
<1>1. {e \in T : e[k] = u} = {f}
  OBVIOUS
<1>2. g[f] = f[5] /\ \A x \in {f} : g[x] \in Int
  OBVIOUS
<1> HIDE DEF g
<1>3. IsFiniteSet({f}) /\ {f} \ {f} = {}
  BY FS_Singleton
<1>4. SumFunctionOnSet(g, {f}) = g[f] + SumFunctionOnSet(g, {f} \ {f})
  BY <1>2, <1>3, SumElement
<1>5. SumFunctionOnSet(g, {f}) = f[5]
  <2>1. SumFunctionOnSet(g, {}) = 0
    BY SumEmpty
  <2> QED BY <1>2, <1>3, <1>4, <2>1, SMT
<1> QED
  BY <1>1, <1>5 DEF Flow, g

\* Two events.
LEMMA FlowTwo ==
    ASSUME NEW T, NEW k, NEW u, NEW f \in T, NEW h \in T, f # h,
           f[5] \in Int, f[k] = u, h[5] \in Int, h[k] = u,
           \A e \in T : e[k] = u => e = f \/ e = h
    PROVE  Flow(T, k, u) = f[5] + h[5]
<1> DEFINE g == [e \in T |-> e[5]]
<1>1. {e \in T : e[k] = u} = {f, h}
  OBVIOUS
<1>2. g[f] = f[5] /\ g[h] = h[5] /\ \A x \in {f, h} : g[x] \in Int
  OBVIOUS
<1> HIDE DEF g
<1>3. IsFiniteSet({f, h}) /\ {f, h} \ {f} = {h} /\ IsFiniteSet({h}) /\ {h} \ {h} = {}
  <2>1. IsFiniteSet({h}) /\ {f, h} = {h} \cup {f}
    BY FS_Singleton
  <2>2. IsFiniteSet({h} \cup {f})
    BY <2>1, FS_AddElement
  <2> QED BY <2>1, <2>2
<1>4. SumFunctionOnSet(g, {f, h}) = g[f] + SumFunctionOnSet(g, {f, h} \ {f})
  BY <1>2, <1>3, SumElement
<1>5. SumFunctionOnSet(g, {h}) = g[h] + SumFunctionOnSet(g, {h} \ {h})
  BY <1>2, <1>3, SumElement
<1>6. SumFunctionOnSet(g, {f, h}) = f[5] + h[5]
  <2>1. SumFunctionOnSet(g, {}) = 0
    BY SumEmpty
  <2>2. SumFunctionOnSet(g, {f, h}) = f[5] + (h[5] + 0)
    BY <1>2, <1>3, <1>4, <1>5, <2>1, Zenon
  <2>3. f[5] + (h[5] + 0) = f[5] + h[5]
    BY SMT
  <2> QED BY <2>2, <2>3, Zenon
<1> QED
  BY <1>1, <1>6 DEF Flow, g

\* The Transfer events of two logs together.
LEMMA TransfersUnion ==
    ASSUME NEW A, NEW B, NEW token
    PROVE  Transfers(A \cup B, token) = Transfers(A, token) \cup Transfers(B, token)
BY DEF Transfers

\* A payment of the asset is no Transfer event of the tokens.
LEMMA PaymentsApart ==
    ASSUME NEW from, NEW to, NEW amount, NEW token, token # "underlying"
    PROVE  Transfers({Payment(from, to, amount)}, token) = {}
BY DEF Transfers, Payment

\* An empty log has none.
LEMMA NoTransfers ==
    ASSUME NEW token
    PROVE  Transfers({}, token) = {}
BY DEF Transfers

\* The log of one Transfer event, of the token.
Flows(token, from, to, amount) == {<<token, "Transfer", from, to, amount>>}

\* A mint has one, from the zero address, of the amount and the interest.
LEMMA MintTransfers ==
    ASSUME NEW name, NEW t, NEW caller, NEW u, NEW amount, NEW index, NEW token
    PROVE  Transfers(MintEvents(name, t, caller, u, amount, index), token)
             = IF name = token
               THEN Flows(token, "zero", u, amount + BalanceIncrease(t, u, index))
               ELSE {}
<1> DEFINE x == BalanceIncrease(t, u, index)
           y == amount + x
<1>1. MintEvents(name, t, caller, u, amount, index)
        = {<<name, "Transfer", "zero", u, y>>, <<name, "Mint", caller, u, y, x, index>>}
  BY Zenon DEF MintEvents
<1> HIDE DEF x, y
<1>2. Transfers({<<name, "Transfer", "zero", u, y>>, <<name, "Mint", caller, u, y, x, index>>},
                token)
        = IF name = token THEN Flows(token, "zero", u, y) ELSE {}
  BY DEF Transfers, Flows
<1> QED
  BY <1>1, <1>2 DEF x, y

\* A burn has one, which is a mint when the interest exceeds the amount.
LEMMA BurnTransfers ==
    ASSUME NEW name, NEW t, NEW u, NEW target, NEW amount, NEW index, NEW token
    PROVE  LET increase == BalanceIncrease(t, u, index)
           IN Transfers(BurnEvents(name, t, u, target, amount, index), token)
                = IF name # token THEN {}
                  ELSE IF increase > amount
                       THEN Flows(token, "zero", u, increase - amount)
                       ELSE Flows(token, u, "zero", amount - increase)
<1> DEFINE x == BalanceIncrease(t, u, index)
           y == x - amount
           z == amount - x
           M == {<<name, "Transfer", "zero", u, y>>, <<name, "Mint", u, u, y, x, index>>}
           B == {<<name, "Transfer", u, "zero", z>>, <<name, "Burn", u, target, z, x, index>>}
<1>1. BurnEvents(name, t, u, target, amount, index) = IF x > amount THEN M ELSE B
  BY Zenon DEF BurnEvents
<1> HIDE DEF x, y, z
<1>2. Transfers(M, token) = IF name # token THEN {} ELSE Flows(token, "zero", u, y)
  BY DEF Transfers, Flows
<1>3. Transfers(B, token) = IF name # token THEN {} ELSE Flows(token, u, "zero", z)
  BY DEF Transfers, Flows
<1> HIDE DEF M, B
<1> QED
  BY <1>1, <1>2, <1>3, Zenon DEF x, y, z

\* One Transfer event: its amount arrives and leaves.
LEMMA ReceivedOne ==
    ASSUME NEW log, NEW token, NEW from, NEW to, NEW amount \in Int,
           Transfers(log, token) = Flows(token, from, to, amount), NEW u
    PROVE  Received(log, token, u)
             = (IF to = u THEN amount ELSE 0) - (IF from = u THEN amount ELSE 0)
<1> DEFINE f == <<token, "Transfer", from, to, amount>>
           T == {f}
<1>1. Transfers(log, token) = T
  BY Zenon DEF Flows
<1>2. f[3] = from /\ f[4] = to /\ f[5] = amount /\ f \in T /\ \A e \in T : e = f
  OBVIOUS
<1> HIDE DEF f
<1>3. Received(log, token, u) = Flow(T, 4, u) - Flow(T, 3, u)
  BY <1>1, ReceivedIsFlow, Zenon
<1> HIDE DEF T
<1>4. ASSUME to = u PROVE Flow(T, 4, u) = amount
  <2>1. f[4] = u /\ f[5] \in Int /\ \A e \in T : e[4] = u => e = f
    BY <1>2, <1>4
  <2>2. Flow(T, 4, u) = f[5]
    BY <1>2, <2>1, FlowOne
  <2> QED BY <1>2, <2>2, Zenon
<1>5. ASSUME from = u PROVE Flow(T, 3, u) = amount
  <2>1. f[3] = u /\ f[5] \in Int /\ \A e \in T : e[3] = u => e = f
    BY <1>2, <1>5
  <2>2. Flow(T, 3, u) = f[5]
    BY <1>2, <2>1, FlowOne
  <2> QED BY <1>2, <2>2, Zenon
<1>6. ASSUME to # u PROVE Flow(T, 4, u) = 0
  <2>1. \A e \in T : e[4] # u
    BY <1>2, <1>6, Zenon
  <2> QED BY <2>1, FlowNone, Zenon
<1>7. ASSUME from # u PROVE Flow(T, 3, u) = 0
  <2>1. \A e \in T : e[3] # u
    BY <1>2, <1>7, Zenon
  <2> QED BY <2>1, FlowNone, Zenon
<1> QED
  BY <1>3, <1>4, <1>5, <1>6, <1>7, SMT

\* No Transfer event: nothing is received.
LEMMA ReceivedNone ==
    ASSUME NEW log, NEW token, Transfers(log, token) = {}, NEW u
    PROVE  Received(log, token, u) = 0
<1>1. Flow({}, 4, u) = 0 /\ Flow({}, 3, u) = 0
  BY FlowNone
<1> QED
  BY <1>1, ReceivedIsFlow, SMT

-----------------------------------------------------------------------------
(* What the events of one call tell of a scaled token, t before and n after*)

\* A balance at its last operation.
Balance(t, u) == RayMul(t.scaled[u], t.index[u])

\* The log tells every account of A the change of its balance, but for slack.
Tells(log, token, t, n, A, slack) ==
    \A u \in A : Received(log, token, u) - (Balance(n, u) - Balance(t, u))
                    \in -slack .. slack

\* Nothing happens to the token.
LEMMA QuietTells ==
    ASSUME NEW log, NEW token, Transfers(log, token) = {}, NEW A,
           NEW t \in ScaledTokens(A), NEW slack \in Nat
    PROVE  Tells(log, token, t, t, A, slack)
<1> SUFFICES ASSUME NEW u \in A
             PROVE  Received(log, token, u) - (Balance(t, u) - Balance(t, u))
                      \in -slack .. slack
  BY DEF Tells
<1>1. Balance(t, u) \in Nat
  BY RayMulType DEF Balance, ScaledTokens
<1>2. Received(log, token, u) = 0
  BY ReceivedNone
<1> QED
  BY <1>1, <1>2, SMT

\* One account moves to the balance z; what it is told is that but for the slack.
LEMMA AccountTells ==
    ASSUME NEW A, NEW t \in ScaledTokens(A), NEW w \in A, NEW z \in Nat,
           NEW index \in Nat, NEW n, n.scaled = [t.scaled EXCEPT ![w] = z],
           n.index = [t.index EXCEPT ![w] = index],
           NEW log, NEW token, NEW told \in Int, NEW slack \in Nat,
           \A u \in A : Received(log, token, u) = IF u = w THEN told ELSE 0,
           told - (RayMul(z, index) - Balance(t, w)) \in -slack .. slack
    PROVE  Tells(log, token, t, n, A, slack)
<1> SUFFICES ASSUME NEW u \in A
             PROVE  Received(log, token, u) - (Balance(n, u) - Balance(t, u))
                      \in -slack .. slack
  BY DEF Tells
<1>1. t.scaled \in [A -> Nat] /\ t.index \in [A -> Nat]
  BY DEF ScaledTokens
<1>2. /\ n.scaled[w] = z /\ n.index[w] = index
      /\ u # w => n.scaled[u] = t.scaled[u] /\ n.index[u] = t.index[u]
  BY <1>1
<1>3. CASE u = w
  <2>1. Balance(n, u) = RayMul(z, index)
    BY <1>2, <1>3, Zenon DEF Balance
  <2> QED BY <1>3, <2>1, Zenon
<1>4. CASE u # w
  <2>1. Balance(n, u) = Balance(t, u)
    BY <1>2, <1>4, Zenon DEF Balance
  <2>2. Balance(t, u) \in Nat
    BY <1>1, RayMulType DEF Balance
  <2>3. Received(log, token, u) = 0
    BY <1>4, Zenon
  <2> QED BY <2>1, <2>2, <2>3, SMT
<1> QED
  BY <1>3, <1>4

\* The interest of an account is what its balance has grown by.
LEMMA IncreaseType ==
    ASSUME NEW A, NEW t \in ScaledTokens(A), NEW w \in A, NEW index \in Nat
    PROVE  /\ BalanceIncrease(t, w, index) \in Int
           /\ BalanceIncrease(t, w, index) = RayMul(t.scaled[w], index) - Balance(t, w)
           /\ RayMul(t.scaled[w], index) \in Nat /\ Balance(t, w) \in Nat
           /\ t.scaled[w] \in Nat
<1>1. t.scaled[w] \in Nat /\ t.index[w] \in Nat
  BY DEF ScaledTokens
<1>2. RayMul(t.scaled[w], index) \in Nat /\ Balance(t, w) \in Nat
  BY <1>1, RayMulType DEF Balance
<1>3. BalanceIncrease(t, w, index) = RayMul(t.scaled[w], index) - Balance(t, w)
  BY Zenon DEF BalanceIncrease, Balance
<1> QED
  BY <1>1, <1>2, <1>3, SMT

\* A mint: its event carries the interest of the account.
LEMMA MintTells ==
    ASSUME NEW A, "zero" \notin A, NEW t \in ScaledTokens(A), NEW w \in A,
           NEW amount \in Nat, NEW index \in Nat \ {0}, NEW log, NEW token,
           Transfers(log, token)
             = Flows(token, "zero", w, amount + BalanceIncrease(t, w, index))
    PROVE  Tells(log, token, t, MintScaled(t, w, amount, index), A, Slack(index))
<1> DEFINE n == MintScaled(t, w, amount, index)
           x == RayDiv(amount, index)
           z == t.scaled[w] + x
           a == RayMul(t.scaled[w], index)
           b == RayMul(z, index)
           told == amount + BalanceIncrease(t, w, index)
           slack == Slack(index)
<1>1. /\ n.scaled = [t.scaled EXCEPT ![w] = z]
      /\ n.index = [t.index EXCEPT ![w] = index]
  BY Zenon DEF MintScaled
<1>2. t.scaled[w] \in Nat /\ a \in Nat /\ Balance(t, w) \in Nat
      /\ BalanceIncrease(t, w, index) = a - Balance(t, w)
  BY IncreaseType
<1>3. amount - (b - a) \in -slack .. slack
  BY <1>2, ScaledMoves
<1>4. slack \in Nat /\ x \in Nat
  BY SlackRoom, RayDivType, Zenon
<1> HIDE DEF n, x, a, slack
<1>5. z \in Nat
  BY <1>2, <1>4, SMT
<1>6. b \in Nat
  BY <1>5, RayMulType, Zenon
<1> HIDE DEF b
<1>7. told \in Int /\ told - (b - Balance(t, w)) \in -slack .. slack
  BY <1>2, <1>3, <1>4, <1>6, SMT
<1> HIDE DEF z
<1>8. \A u \in A : Received(log, token, u) = IF u = w THEN told ELSE 0
  <2> SUFFICES ASSUME NEW u \in A
               PROVE  Received(log, token, u) = IF u = w THEN told ELSE 0
    OBVIOUS
  <2>1. Transfers(log, token) = Flows(token, "zero", w, told)
    OBVIOUS
  <2> HIDE DEF told
  <2>2. Received(log, token, u)
          = (IF w = u THEN told ELSE 0) - (IF "zero" = u THEN told ELSE 0)
    BY <1>7, <2>1, ReceivedOne
  <2>3. "zero" # u
    OBVIOUS
  <2> QED BY <1>7, <2>2, <2>3, SMT
<1> HIDE DEF told
<1> QED
  BY <1>1, <1>4, <1>5, <1>7, <1>8, AccountTells DEF n, b, slack

\* A burn: when the interest exceeds it, its event is a mint of the rest.
LEMMA BurnTells ==
    ASSUME NEW A, "zero" \notin A, NEW t \in ScaledTokens(A), NEW w \in A,
           NEW amount \in Nat, NEW index \in Nat \ {0}, NEW log, NEW token,
           RayDiv(amount, index) <= t.scaled[w],
           Transfers(log, token)
             = IF BalanceIncrease(t, w, index) > amount
               THEN Flows(token, "zero", w, BalanceIncrease(t, w, index) - amount)
               ELSE Flows(token, w, "zero", amount - BalanceIncrease(t, w, index))
    PROVE  Tells(log, token, t, BurnScaled(t, w, amount, index), A, Slack(index))
<1> DEFINE n == BurnScaled(t, w, amount, index)
           x == RayDiv(amount, index)
           z == t.scaled[w] - x
           a == RayMul(t.scaled[w], index)
           b == RayMul(z, index)
           increase == BalanceIncrease(t, w, index)
           told == increase - amount
           slack == Slack(index)
<1>1. /\ n.scaled = [t.scaled EXCEPT ![w] = z]
      /\ n.index = [t.index EXCEPT ![w] = index]
  BY Zenon DEF BurnScaled
<1>2. t.scaled[w] \in Nat /\ a \in Nat /\ Balance(t, w) \in Nat
      /\ increase = a - Balance(t, w)
  BY IncreaseType
<1>3. slack \in Nat /\ x \in Nat
  BY SlackRoom, RayDivType, Zenon
<1>4. z \in Nat /\ z + x = t.scaled[w]
  BY <1>2, <1>3, SMT
<1>5. b \in Nat
  BY <1>4, RayMulType, Zenon
<1>6. amount - (a - b) \in -slack .. slack
  BY <1>4, ScaledMoves
<1> HIDE DEF n, x, a, b, slack, increase, z
<1>7. told \in Int /\ told - (b - Balance(t, w)) \in -slack .. slack
  BY <1>2, <1>3, <1>5, <1>6, SMT
<1>8. \A u \in A : Received(log, token, u) = IF u = w THEN told ELSE 0
  <2> SUFFICES ASSUME NEW u \in A
               PROVE  Received(log, token, u) = IF u = w THEN told ELSE 0
    OBVIOUS
  <2>1. "zero" # u
    OBVIOUS
  <2>2. CASE increase > amount
    <3>1. Transfers(log, token) = Flows(token, "zero", w, told)
      BY <2>2, Zenon DEF increase
    <3> HIDE DEF told
    <3>2. Received(log, token, u)
            = (IF w = u THEN told ELSE 0) - (IF "zero" = u THEN told ELSE 0)
      BY <1>7, <3>1, ReceivedOne
    <3> QED BY <1>7, <2>1, <3>2, SMT
  <2>3. CASE ~(increase > amount)
    <3> DEFINE sent == amount - increase
    <3>1. Transfers(log, token) = Flows(token, w, "zero", sent)
      BY <2>3, Zenon DEF increase
    <3>2. sent \in Int /\ told = -sent
      BY <1>2, SMT
    <3> HIDE DEF told, sent
    <3>3. Received(log, token, u)
            = (IF "zero" = u THEN sent ELSE 0) - (IF w = u THEN sent ELSE 0)
      BY <3>1, <3>2, ReceivedOne
    <3> QED BY <2>1, <3>2, <3>3, SMT
  <2> QED BY <2>2, <2>3
<1> HIDE DEF told
<1> QED
  BY <1>1, <1>3, <1>4, <1>7, <1>8, AccountTells DEF n, b, slack

\* The Transfer events of a transfer: the interest of both accounts, if any.
Interest(t, w, index) ==
    IF BalanceIncrease(t, w, index) = 0 THEN {}
    ELSE Flows("hToken", "zero", w, BalanceIncrease(t, w, index))

\* A transfer has one of the amount, and one per account with interest.
LEMMA TransferTransfers ==
    ASSUME NEW t, NEW caller, NEW from, NEW to, NEW amount, NEW index
    PROVE  /\ Transfers(TransferEvents(t, caller, from, to, amount, index), "hToken")
                = Interest(t, from, index) \cup Interest(t, to, index)
                    \cup Flows("hToken", from, to, amount)
           /\ \A token : token # "hToken" =>
                Transfers(TransferEvents(t, caller, from, to, amount, index), token) = {}
<1> DEFINE x(w) == BalanceIncrease(t, w, index)
           Events(w) == {<<"hToken", "Transfer", "zero", w, x(w)>>,
                         <<"hToken", "Mint", caller, w, x(w), x(w), index>>}
           Accrued(w) == IF x(w) = 0 THEN {} ELSE Events(w)
           scaled == RayDiv(amount, index)
           Own == {<<"hToken", "Transfer", from, to, amount>>,
                   <<"hToken", "BalanceTransfer", from, to, scaled, index>>}
<1>1. TransferEvents(t, caller, from, to, amount, index)
        = (Accrued(from) \cup Accrued(to)) \cup Own
  BY Zenon DEF TransferEvents
<1> HIDE DEF x, scaled
<1>2. ASSUME NEW w, NEW token
      PROVE  Transfers(Events(w), token)
               = IF token = "hToken" THEN Flows("hToken", "zero", w, x(w)) ELSE {}
  BY DEF Transfers, Flows
<1>3. ASSUME NEW token
      PROVE  Transfers(Own, token)
               = IF token = "hToken" THEN Flows("hToken", from, to, amount) ELSE {}
  BY DEF Transfers, Flows
<1> HIDE DEF Events, Own
<1>4. ASSUME NEW w
      PROVE  /\ Transfers(Accrued(w), "hToken") = Interest(t, w, index)
             /\ \A token : token # "hToken" => Transfers(Accrued(w), token) = {}
  <2>1. CASE x(w) = 0
    BY <2>1, NoTransfers, Zenon DEF Interest, x
  <2>2. CASE x(w) # 0
    BY <1>2, <2>2, Zenon DEF Interest, x
  <2> QED BY <2>1, <2>2
<1> HIDE DEF Accrued
<1>5. ASSUME NEW token
      PROVE  Transfers((Accrued(from) \cup Accrued(to)) \cup Own, token)
               = (Transfers(Accrued(from), token) \cup Transfers(Accrued(to), token))
                    \cup Transfers(Own, token)
  <2>1. Transfers(Accrued(from) \cup Accrued(to), token)
          = Transfers(Accrued(from), token) \cup Transfers(Accrued(to), token)
    BY TransfersUnion
  <2>2. Transfers((Accrued(from) \cup Accrued(to)) \cup Own, token)
          = Transfers(Accrued(from) \cup Accrued(to), token) \cup Transfers(Own, token)
    BY TransfersUnion
  <2> QED BY <2>1, <2>2, Zenon
<1>6. Transfers(TransferEvents(t, caller, from, to, amount, index), "hToken")
        = Interest(t, from, index) \cup Interest(t, to, index)
             \cup Flows("hToken", from, to, amount)
  BY <1>1, <1>3, <1>4, <1>5, Zenon
<1>7. ASSUME NEW token, token # "hToken"
      PROVE  Transfers(TransferEvents(t, caller, from, to, amount, index), token) = {}
  <2>1. Transfers(Accrued(from), token) = {} /\ Transfers(Accrued(to), token) = {}
        /\ Transfers(Own, token) = {}
    BY <1>3, <1>4, <1>7, Zenon
  <2> QED BY <1>1, <1>5, <2>1
<1> QED
  BY <1>6, <1>7

\* What an account of a transfer receives: its interest, and the amount or its loss.
Share(t, from, to, amount, index, u) ==
    (IF u = from \/ u = to THEN BalanceIncrease(t, u, index) ELSE 0)
        + (IF u = to THEN amount ELSE 0) - (IF u = from THEN amount ELSE 0)

LogsTransfer(log, t, from, to, amount, index) ==
    Transfers(log, "hToken") = Interest(t, from, index) \cup Interest(t, to, index)
                                 \cup Flows("hToken", from, to, amount)

\* Its events say so.
LEMMA TransferReceived ==
    ASSUME NEW A, "zero" \notin A, NEW t \in ScaledTokens(A), NEW from \in A, NEW to \in A,
           NEW amount \in Nat, NEW index \in Nat, NEW log,
           LogsTransfer(log, t, from, to, amount, index), NEW u \in A
    PROVE  Received(log, "hToken", u) = Share(t, from, to, amount, index, u)
<1> DEFINE T == Transfers(log, "hToken")
           x == BalanceIncrease(t, u, index)
           accrued == <<"hToken", "Transfer", "zero", u, x>>
           moved == <<"hToken", "Transfer", from, to, amount>>
<1>1. x \in Int
  BY IncreaseType
<1>2. \A w : Interest(t, w, index)
          = IF BalanceIncrease(t, w, index) = 0 THEN {}
            ELSE {<<"hToken", "Transfer", "zero", w, BalanceIncrease(t, w, index)>>}
  BY Zenon DEF Interest, Flows
<1>3. T = Interest(t, from, index) \cup Interest(t, to, index) \cup {moved}
  BY Zenon DEF Flows, LogsTransfer
<1>4. /\ moved \in T
      /\ (u = from \/ u = to) /\ x # 0 => accrued \in T
      /\ \A e \in T : e = moved \/ e \in Interest(t, from, index) \cup Interest(t, to, index)
  BY <1>2, <1>3
<1>5. \A w : \A e \in Interest(t, w, index) :
         /\ e[3] = "zero" /\ e[4] = w
         /\ w = u => e = accrued /\ x # 0
  BY <1>2
<1>6. /\ moved[3] = from /\ moved[4] = to /\ moved[5] = amount
      /\ accrued[3] = "zero" /\ accrued[4] = u /\ accrued[5] = x
      /\ "zero" # u /\ "zero" # from /\ amount \in Int
  OBVIOUS
<1>7. moved # accrued
  BY <1>6, Zenon
<1> HIDE DEF T, accrued, moved, x
<1>8. \A e \in T : \/ e = moved
                   \/ e[3] = "zero" /\ (e[4] = from \/ e[4] = to)
                        /\ (e[4] = u => e = accrued /\ x # 0)
  BY <1>4, <1>5
<1>9. Flow(T, 3, u) = IF u = from THEN amount ELSE 0
  <2>1. CASE u = from
    <3>1. \A e \in T : e[3] = u => e = moved
      BY <1>6, <1>8, Zenon
    <3>2. Flow(T, 3, u) = moved[5]
      BY <1>4, <1>6, <2>1, <3>1, FlowOne
    <3> QED BY <1>6, <2>1, <3>2, Zenon
  <2>2. CASE u # from
    <3>1. \A e \in T : e[3] # u
      BY <1>6, <1>8, <2>2, Zenon
    <3> QED BY <2>2, <3>1, FlowNone, Zenon
  <2> QED BY <2>1, <2>2
<1>10. Flow(T, 4, u) = (IF u = from \/ u = to THEN x ELSE 0) + (IF u = to THEN amount ELSE 0)
  <2>1. CASE u = to /\ x # 0
    <3>1. accrued \in T /\ \A e \in T : e[4] = u => e = accrued \/ e = moved
      BY <1>4, <1>8, <2>1, Zenon
    <3>2. Flow(T, 4, u) = accrued[5] + moved[5]
      BY <1>1, <1>4, <1>6, <1>7, <2>1, <3>1, FlowTwo
    <3> QED BY <1>6, <2>1, <3>2, Zenon
  <2>2. CASE u = to /\ x = 0
    <3>1. \A e \in T : e[4] = u => e = moved
      BY <1>8, <2>2, Zenon
    <3>2. Flow(T, 4, u) = moved[5]
      BY <1>4, <1>6, <2>2, <3>1, FlowOne
    <3> QED BY <1>6, <2>2, <3>2, SMT
  <2>3. CASE u # to /\ u = from /\ x # 0
    <3>1. accrued \in T /\ \A e \in T : e[4] = u => e = accrued
      BY <1>4, <1>6, <1>8, <2>3, Zenon
    <3>2. Flow(T, 4, u) = accrued[5]
      BY <1>1, <1>6, <3>1, FlowOne
    <3> QED BY <1>1, <1>6, <2>3, <3>2, SMT
  <2>4. CASE u # to /\ (u # from \/ x = 0)
    <3>1. \A e \in T : e[4] # u
      BY <1>6, <1>8, <2>4, Zenon
    <3>2. Flow(T, 4, u) = 0
      BY <3>1, FlowNone
    <3> QED BY <2>4, <3>2, SMT
  <2> QED BY <2>1, <2>2, <2>3, <2>4
<1>11. Received(log, "hToken", u) = Flow(T, 4, u) - Flow(T, 3, u)
  BY ReceivedIsFlow DEF T
<1>12. Received(log, "hToken", u)
         = (IF u = from \/ u = to THEN x ELSE 0)
             + (IF u = to THEN amount ELSE 0) - (IF u = from THEN amount ELSE 0)
  BY <1>1, <1>9, <1>10, <1>11, SMT
<1> QED
  BY <1>12, Zenon DEF x, Share

\* A transfer of hTokens: both accounts are told their interest, and the amount.
LEMMA TransferTells ==
    ASSUME NEW A, "zero" \notin A, NEW t \in ScaledTokens(A), NEW from \in A, NEW to \in A,
           NEW amount \in Nat, NEW index \in Nat \ {0}, NEW log,
           RayDiv(amount, index) <= t.scaled[from],
           Transfers(log, "hToken") = Interest(t, from, index) \cup Interest(t, to, index)
                                        \cup Flows("hToken", from, to, amount)
    PROVE  Tells(log, "hToken", t, TransferScaled(t, from, to, amount, index), A, Slack(index))
<1> DEFINE n == TransferScaled(t, from, to, amount, index)
           x == RayDiv(amount, index)
           slack == Slack(index)
<1> SUFFICES ASSUME NEW u \in A
             PROVE  Received(log, "hToken", u) - (Balance(n, u) - Balance(t, u))
                      \in -slack .. slack
  BY DEF Tells
<1> DEFINE s == t.scaled[u]
           a == RayMul(s, index)
           b == RayMul(s + x, index)
           l == RayMul(s - x, index)
           increase == BalanceIncrease(t, u, index)
<1>1. /\ t.scaled \in [A -> Nat] /\ t.index \in [A -> Nat]
      /\ slack \in Nat /\ x \in Nat
  BY SlackRoom, RayDivType DEF ScaledTokens
<1>2. /\ s \in Nat /\ a \in Nat /\ Balance(t, u) \in Nat
      /\ increase = a - Balance(t, u)
  BY IncreaseType
<1>3. Received(log, "hToken", u)
        = (IF u = from \/ u = to THEN increase ELSE 0)
          + (IF u = to THEN amount ELSE 0) - (IF u = from THEN amount ELSE 0)
  <2>1. index \in Nat
    OBVIOUS
  <2>2. LogsTransfer(log, t, from, to, amount, index)
    BY DEF LogsTransfer
  <2>3. Received(log, "hToken", u) = Share(t, from, to, amount, index, u)
    BY <2>1, <2>2, TransferReceived, SMT
  <2> QED BY <2>3, Zenon DEF Share, increase
<1>4. /\ n.scaled = [[t.scaled EXCEPT ![from] = t.scaled[from] - x]
                       EXCEPT ![to] = [t.scaled EXCEPT ![from] = t.scaled[from] - x][to] + x]
      /\ n.index = [t.index EXCEPT ![from] = index, ![to] = index]
  BY Zenon DEF TransferScaled
<1>5. amount - (b - a) \in -slack .. slack
  BY <1>2, ScaledMoves
<1>6. u = from => amount - (a - l) \in -slack .. slack /\ l \in Nat
  <2> SUFFICES ASSUME u = from
               PROVE  amount - (a - l) \in -slack .. slack /\ l \in Nat
    OBVIOUS
  <2> DEFINE z == s - x
  <2>1. x <= s
    OBVIOUS
  <2> HIDE DEF x, s
  <2>2. z \in Nat /\ z + x = s
    BY <1>1, <1>2, <2>1, SMT
  <2> HIDE DEF z
  <2>3. amount - (RayMul(z + x, index) - RayMul(z, index)) \in -slack .. slack
    BY <2>2, ScaledMoves DEF x
  <2>4. RayMul(z, index) \in Nat
    BY <2>2, RayMulType, Zenon
  <2> QED BY <2>2, <2>3, <2>4, Zenon DEF z
<1>7. b \in Nat
  <2> HIDE DEF x, s
  <2>1. s + x \in Nat
    BY <1>1, <1>2, SMT
  <2> QED BY <2>1, RayMulType, Zenon
<1>8. /\ u # from /\ u # to => n.scaled[u] = s /\ n.index[u] = t.index[u]
      /\ u = from \/ u = to => n.index[u] = index
      /\ u = from /\ u # to => n.scaled[u] = s - x
      /\ u # from /\ u = to => n.scaled[u] = s + x
      /\ u = from /\ u = to => n.scaled[u] = (s - x) + x
  <2> HIDE DEF n, x
  <2> QED BY <1>1, <1>4
<1> HIDE DEF n, x, s, slack, increase
<1>9. /\ u # from /\ u # to => Balance(n, u) = Balance(t, u)
      /\ u = from /\ u # to => Balance(n, u) = l
      /\ u # from /\ u = to => Balance(n, u) = b
      /\ u = from /\ u = to => Balance(n, u) = a
  <2>1. (s - x) + x = s
    BY <1>1, <1>2, SMT
  <2> QED BY <1>8, <2>1, Zenon DEF Balance, s
<1> HIDE DEF a, b, l
<1>10. increase \in Int
  BY <1>2, SMT
<1>11. CASE u # from /\ u # to
  BY <1>1, <1>2, <1>3, <1>9, <1>11, SMT
<1>12. CASE u = from /\ u # to
  BY <1>1, <1>2, <1>3, <1>6, <1>9, <1>10, <1>12, SMT
<1>13. CASE u # from /\ u = to
  BY <1>1, <1>2, <1>3, <1>5, <1>7, <1>9, <1>10, <1>13, SMT
<1>14. CASE u = from /\ u = to
  BY <1>1, <1>2, <1>3, <1>9, <1>10, <1>14, SMT
<1> QED
  BY <1>11, <1>12, <1>13, <1>14

-----------------------------------------------------------------------------
(* The events of the stable debt token, which are exact.                   *)

\* The log tells every account the change of its principal.
TellsStable(log, s, n) ==
    \A u \in User : Received(log, "sToken", u) = n.principal[u] - s.principal[u]

\* Nothing happens to the stable debts.
LEMMA QuietTellsStable ==
    ASSUME NEW log, Transfers(log, "sToken") = {}, NEW s \in StableTokens
    PROVE  TellsStable(log, s, s)
<1> SUFFICES ASSUME NEW u \in User
             PROVE  Received(log, "sToken", u) = s.principal[u] - s.principal[u]
  BY DEF TellsStable
<1>1. s.principal[u] \in Nat
  BY DEF StableTokens
<1>2. Received(log, "sToken", u) = 0
  BY ReceivedNone
<1> QED
  BY <1>1, <1>2, SMT

\* One account's principal moves to z, as its only Transfer event says.
LEMMA AccountTellsStable ==
    ASSUME NEW s \in StableTokens, NEW w \in User, NEW z \in Int, NEW n,
           n.principal = [s.principal EXCEPT ![w] = z], NEW log,
           \/ Transfers(log, "sToken") = Flows("sToken", "zero", w, z - s.principal[w])
           \/ Transfers(log, "sToken") = Flows("sToken", w, "zero", s.principal[w] - z)
    PROVE  TellsStable(log, s, n)
<1> SUFFICES ASSUME NEW u \in User
             PROVE  Received(log, "sToken", u) = n.principal[u] - s.principal[u]
  BY DEF TellsStable
<1> DEFINE x == z - s.principal[w]
           y == s.principal[w] - z
<1>1. s.principal \in [User -> Nat] /\ s.principal[w] \in Nat /\ s.principal[u] \in Nat
  BY DEF StableTokens
<1>2. x \in Int /\ y \in Int /\ x = -y
  BY <1>1, SMT
<1>3. n.principal[u] = IF u = w THEN z ELSE s.principal[u]
  BY <1>1
<1>4. "zero" # u
  BY ReserveAssumption DEF Account
<1>5. CASE Transfers(log, "sToken") = Flows("sToken", "zero", w, x)
  <2> HIDE DEF x
  <2>1. Received(log, "sToken", u)
          = (IF w = u THEN x ELSE 0) - (IF "zero" = u THEN x ELSE 0)
    BY <1>2, <1>5, ReceivedOne
  <2>2. Received(log, "sToken", u) = IF u = w THEN x ELSE 0
    BY <1>2, <1>4, <2>1, SMT
  <2> QED BY <1>1, <1>3, <2>2, SMT DEF x
<1>6. CASE Transfers(log, "sToken") = Flows("sToken", w, "zero", y)
  <2> HIDE DEF y
  <2>1. Received(log, "sToken", u)
          = (IF "zero" = u THEN y ELSE 0) - (IF w = u THEN y ELSE 0)
    BY <1>2, <1>6, ReceivedOne
  <2>2. Received(log, "sToken", u) = IF u = w THEN -y ELSE 0
    BY <1>2, <1>4, <2>1, SMT
  <2> QED BY <1>1, <1>3, <2>2, SMT DEF y
<1> QED
  BY <1>5, <1>6

\* The Transfer event of a stable mint.
LEMMA MintStableTransfers ==
    ASSUME NEW c, NEW caller, NEW u, NEW amount, NEW after, NEW token
    PROVE  Transfers(MintStableEvents(c, caller, u, amount, after), token)
             = IF token # "sToken" THEN {}
               ELSE Flows("sToken", "zero", u, amount + (StableBalance(c, u) - c.s.principal[u]))
<1> DEFINE balance == StableBalance(c, u)
           x == balance - c.s.principal[u]
           y == amount + x
           E == {<<"sToken", "Transfer", "zero", u, y>>,
                 <<"sToken", "Mint", caller, u, y, balance, x,
                   after.rate[u], after.avg, after.supply>>}
<1>1. MintStableEvents(c, caller, u, amount, after) = E
  BY Zenon DEF MintStableEvents
<1> HIDE DEF balance, x, y
<1>2. Transfers(E, token) = IF token # "sToken" THEN {} ELSE Flows("sToken", "zero", u, y)
  BY DEF Transfers, Flows
<1> HIDE DEF E
<1> QED
  BY <1>1, <1>2, Zenon DEF balance, x, y

\* And of a stable burn.
LEMMA BurnStableTransfers ==
    ASSUME NEW c, NEW u, NEW amount, NEW token
    PROVE  LET increase == StableBalance(c, u) - c.s.principal[u]
           IN Transfers(BurnStableEvents(c, u, amount), token)
                = IF token # "sToken" THEN {}
                  ELSE IF increase > amount
                       THEN Flows("sToken", "zero", u, increase - amount)
                       ELSE Flows("sToken", u, "zero", amount - increase)
<1> DEFINE balance == StableBalance(c, u)
           x == balance - c.s.principal[u]
           y == x - amount
           z == amount - x
           burnt == BurntStable(c, u, amount)
           M == {<<"sToken", "Transfer", "zero", u, y>>,
                 <<"sToken", "Mint", u, u, y, balance, x,
                   c.s.rate[u], burnt.avg, burnt.next>>}
           B == {<<"sToken", "Transfer", u, "zero", z>>,
                 <<"sToken", "Burn", u, z, balance, x, burnt.avg, burnt.next>>}
<1>1. BurnStableEvents(c, u, amount) = IF x > amount THEN M ELSE B
  BY Zenon DEF BurnStableEvents
<1> HIDE DEF balance, x, y, z, burnt
<1>2. Transfers(M, token) = IF token # "sToken" THEN {} ELSE Flows("sToken", "zero", u, y)
  BY DEF Transfers, Flows
<1>3. Transfers(B, token) = IF token # "sToken" THEN {} ELSE Flows("sToken", u, "zero", z)
  BY DEF Transfers, Flows
<1> HIDE DEF M, B
<1> QED
  BY <1>1, <1>2, <1>3, Zenon DEF balance, x, y, z

\* A payment of the asset adds no Transfer event of the tokens.
LEMMA PaidApart ==
    ASSUME NEW log, NEW from, NEW to, NEW amount, NEW token, token # "underlying"
    PROVE  /\ Transfers(log \cup {Payment(from, to, amount)}, token) = Transfers(log, token)
           /\ Transfers({Payment(from, to, amount)} \cup log, token) = Transfers(log, token)
<1>1. Transfers({Payment(from, to, amount)}, token) = {}
  BY PaymentsApart
<1> HIDE DEF Payment
<1> QED
  BY <1>1, TransfersUnion

\* Debt minted at a stable rate: the event carries the interest of the account.
LEMMA StableMintTells ==
    ASSUME NEW c, IsChain(c), NEW u \in User, NEW amount \in Nat, NEW rate, NEW caller,
           NEW after, NEW log,
           Transfers(log, "sToken")
             = Transfers(MintStableEvents(c, caller, u, amount, after), "sToken")
    PROVE  TellsStable(log, c.s, MintStable(c, u, amount, rate))
<1> DEFINE n == MintStable(c, u, amount, rate)
           balance == StableBalance(c, u)
           p == c.s.principal[u]
           z == balance + amount
           told == amount + (balance - p)
<1>1. c.s \in StableTokens /\ balance \in Nat /\ p \in Nat
  BY StableType DEF IsChain
<1>2. n.principal = [c.s.principal EXCEPT ![u] = z]
  BY Zenon DEF MintStable
<1>3. Transfers(log, "sToken") = Flows("sToken", "zero", u, told)
  BY MintStableTransfers
<1> HIDE DEF n, balance, p
<1>4. z \in Int /\ told = z - p
  BY <1>1, SMT
<1> HIDE DEF told, z
<1>5. Transfers(log, "sToken") = Flows("sToken", "zero", u, z - c.s.principal[u])
  BY <1>3, <1>4 DEF p
<1> QED
  BY <1>1, <1>2, <1>4, <1>5, AccountTellsStable DEF n

\* Debt burnt: when the interest exceeds it, its event is a mint of the rest.
LEMMA StableBurnTells ==
    ASSUME NEW c, IsChain(c), NEW u \in User, NEW amount \in Nat, NEW log,
           Transfers(log, "sToken") = Transfers(BurnStableEvents(c, u, amount), "sToken")
    PROVE  TellsStable(log, c.s, BurnStable(c, u, amount))
<1> DEFINE n == BurnStable(c, u, amount)
           balance == StableBalance(c, u)
           p == c.s.principal[u]
           z == balance - amount
           increase == balance - p
           more == increase - amount
           less == amount - increase
<1>1. c.s \in StableTokens /\ balance \in Nat /\ p \in Nat
  BY StableType DEF IsChain
<1>2. n.principal = [c.s.principal EXCEPT ![u] = z]
  BY Zenon DEF BurnStable
<1>3. \/ Transfers(log, "sToken") = Flows("sToken", "zero", u, more)
      \/ Transfers(log, "sToken") = Flows("sToken", u, "zero", less)
  BY BurnStableTransfers
<1> HIDE DEF n, balance, p
<1>4. z \in Int /\ more = z - p /\ less = p - z
  BY <1>1, SMT
<1> HIDE DEF more, less, z
<1>5. \/ Transfers(log, "sToken") = Flows("sToken", "zero", u, z - c.s.principal[u])
      \/ Transfers(log, "sToken") = Flows("sToken", u, "zero", c.s.principal[u] - z)
  BY <1>3, <1>4 DEF p
<1> QED
  BY <1>1, <1>2, <1>4, <1>5, AccountTellsStable DEF n

\* Debt burnt whole and minted again, which nets to its interest.
LEMMA StableRenewalTells ==
    ASSUME NEW s \in StableTokens, NEW w \in User, NEW debt \in Nat, NEW n,
           n.principal = [s.principal EXCEPT ![w] = debt], NEW log,
           Transfers(log, "sToken")
             = Flows("sToken", w, "zero", s.principal[w]) \cup Flows("sToken", "zero", w, debt)
    PROVE  TellsStable(log, s, n)
<1> SUFFICES ASSUME NEW u \in User
             PROVE  Received(log, "sToken", u) = n.principal[u] - s.principal[u]
  BY DEF TellsStable
<1> DEFINE p == s.principal[w]
           f == <<"sToken", "Transfer", w, "zero", p>>
           h == <<"sToken", "Transfer", "zero", w, debt>>
           T == Transfers(log, "sToken")
<1>1. s.principal \in [User -> Nat] /\ p \in Nat /\ s.principal[u] \in Nat
  BY DEF StableTokens
<1>2. n.principal[u] = IF u = w THEN debt ELSE s.principal[u]
  BY <1>1
<1>3. "zero" # u /\ "zero" # w
  BY ReserveAssumption DEF Account
<1>4. T = {f} \cup {h}
  BY Zenon DEF Flows
<1>5. /\ f[3] = w /\ f[4] = "zero" /\ f[5] = p
      /\ h[3] = "zero" /\ h[4] = w /\ h[5] = debt
  OBVIOUS
<1> HIDE DEF f, h, T, p
<1>6. f \in T /\ h \in T /\ \A e \in T : e = f \/ e = h
  BY <1>4
<1>7. p \in Int /\ debt \in Int
  BY <1>1, SMT
<1>8. Received(log, "sToken", u) = Flow(T, 4, u) - Flow(T, 3, u)
  BY ReceivedIsFlow DEF T
<1>9. CASE u = w
  <2>1. Flow(T, 3, u) = p
    <3>1. \A e \in T : e[3] = u => e = f
      BY <1>3, <1>5, <1>6, Zenon
    <3>2. Flow(T, 3, u) = f[5]
      BY <1>5, <1>6, <1>7, <1>9, <3>1, FlowOne
    <3> QED BY <1>5, <3>2, Zenon
  <2>2. Flow(T, 4, u) = debt
    <3>1. \A e \in T : e[4] = u => e = h
      BY <1>3, <1>5, <1>6, Zenon
    <3>2. Flow(T, 4, u) = h[5]
      BY <1>5, <1>6, <1>7, <1>9, <3>1, FlowOne
    <3> QED BY <1>5, <3>2, Zenon
  <2> QED BY <1>2, <1>8, <1>9, <2>1, <2>2, Zenon DEF p
<1>10. CASE u # w
  <2>1. \A e \in T : e[3] # u /\ e[4] # u
    BY <1>3, <1>5, <1>6, <1>10, Zenon
  <2>2. Flow(T, 3, u) = 0 /\ Flow(T, 4, u) = 0
    BY <2>1, FlowNone
  <2> QED BY <1>1, <1>2, <1>8, <1>10, <2>2, SMT
<1> QED
  BY <1>9, <1>10

-----------------------------------------------------------------------------
(* What the events of a call tell, handler by handler.                     *)

\* The log of a call tells the balances of the three tokens.
Told(c, d) ==
    /\ Tells(d.log, "hToken", c.h, d.h, Account, Slack(NormalizedIncome(d)))
    /\ Tells(d.log, "vToken", c.v, d.v, User, Slack(NormalizedDebt(d)))
    /\ TellsStable(d.log, c.s, d.s)

\* updateState leaves the tokens alone.
LEMMA UpdatedTokens ==
    ASSUME NEW c, Sound(c), NEW u, u = UpdateState(c)
    PROVE  /\ Fresh(u) /\ u.h = c.h /\ u.v = c.v /\ u.s = c.s
<1>1. Fresh(u) /\ SameBut(c, u, {"li", "vi", "accrued", "lastUpdate"})
  BY Updated
<1> QED
  BY <1>1, Zenon DEF SameBut, Stored

\* A chain brought to the present has its stored indexes.
LEMMA Presented ==
    ASSUME NEW d, d.lastUpdate = d.now
    PROVE  NormalizedIncome(d) = d.li /\ NormalizedDebt(d) = d.vi
BY Zenon DEF NormalizedIncome, NormalizedDebt

\* The addresses of tokens and accounts are apart.
LEMMA ZeroApart == "zero" \notin User /\ "zero" \notin Account
BY ReserveAssumption DEF Account

\* The tokens that a call does not touch.
LEMMA QuietTokens ==
    ASSUME NEW c, Sound(c), NEW log, NEW index \in Nat
    PROVE  /\ Transfers(log, "hToken") = {} =>
                Tells(log, "hToken", c.h, c.h, Account, Slack(index))
           /\ Transfers(log, "vToken") = {} =>
                Tells(log, "vToken", c.v, c.v, User, Slack(index))
           /\ Transfers(log, "sToken") = {} => TellsStable(log, c.s, c.s)
<1>1. c.h \in ScaledTokens(Account) /\ c.v \in ScaledTokens(User) /\ c.s \in StableTokens
  BY DEF Sound, IsChain
<1>2. Slack(index) \in Nat
  BY SlackRoom
<1> QED
  BY <1>1, <1>2, QuietTells, QuietTellsStable

\* A call that touches none of them.
LEMMA QuietCall ==
    ASSUME NEW c, Sound(c), NEW d, Sound(d), d.h = c.h, d.v = c.v, d.s = c.s,
           \A token : token # "underlying" => Transfers(d.log, token) = {}
    PROVE  Told(c, d)
<1>1. NormalizedIncome(d) \in Nat /\ NormalizedDebt(d) \in Nat
  BY IndexesGrow DEF Sound
<1>2. /\ Transfers(d.log, "hToken") = {} /\ Transfers(d.log, "vToken") = {}
      /\ Transfers(d.log, "sToken") = {}
  OBVIOUS
<1> QED
  BY <1>1, <1>2, QuietTokens DEF Told

\* A call that mints hTokens at the present index, and touches no debt.
LEMMA HMintTold ==
    ASSUME NEW c, Sound(c), NEW d, Sound(d), NEW w \in Account, NEW amount \in Nat,
           NEW index \in Nat \ {0}, NormalizedIncome(d) = index, NEW caller,
           d.h = MintScaled(c.h, w, amount, index), d.v = c.v, d.s = c.s,
           \A token : token # "underlying" =>
              Transfers(d.log, token)
                = Transfers(MintEvents("hToken", c.h, caller, w, amount, index), token)
    PROVE  Told(c, d)
<1>1. /\ Transfers(d.log, "vToken") = {} /\ Transfers(d.log, "sToken") = {}
      /\ Transfers(d.log, "hToken")
           = Flows("hToken", "zero", w, amount + BalanceIncrease(c.h, w, index))
  BY MintTransfers
<1>2. NormalizedDebt(d) \in Nat
  BY IndexesGrow DEF Sound
<1>3. Tells(d.log, "hToken", c.h, d.h, Account, Slack(index))
  <2>1. c.h \in ScaledTokens(Account)
    BY DEF Sound, IsChain
  <2> QED BY <1>1, <2>1, MintTells, ZeroApart
<1> QED
  BY <1>1, <1>2, <1>3, QuietTokens DEF Told

\* A deposit tells the balance of the account it is for.
LEMMA SupplyTells ==
    ASSUME NEW c, Sound(c), NEW by \in User, NEW for \in User, NEW amount \in Nat,
           NEW d \in Supply(c, by, for, amount)
    PROVE  Told(c, d)
<1> DEFINE u == UpdateState(c)
           r == SetRates(u, StableSupply(u), amount, 0)
           k == Credit(r, for, amount)
           log == MintEvents("hToken", u.h, by, for, amount, u.li)
                    \cup {Payment(by, "hToken", amount)}
<1>1. d = [k EXCEPT !.cash = @ + amount, !.wallet[by] = @ - amount, !.log = log]
  BY Passed DEF Supply
<1>2. Fresh(u) /\ u.h = c.h /\ u.v = c.v /\ u.s = c.s
  BY UpdatedTokens
<1> HIDE DEF u
<1>3. DOMAIN u = Stored /\ u.li \in Nat \ {0} /\ u.lastUpdate = u.now
  BY <1>2, FreshTypes DEF Fresh
<1>4. SameBut(u, r, {"liquidityRate", "stableRate", "variableRate"})
  BY <1>3, RatesFields
<1> HIDE DEF r, log
<1>5. SameBut(r, k, {"h", "coll"}) /\ k.h = MintScaled(r.h, for, amount, r.li)
  BY <1>4, Zenon DEF Credit, SameBut, Stored
<1> HIDE DEF k
<1>6. SameBut(k, d, {"cash", "wallet", "log"}) /\ d.log = log
  BY <1>1, <1>5, Zenon DEF SameBut, Stored
<1>7. /\ d.h = MintScaled(c.h, for, amount, u.li) /\ d.v = c.v /\ d.s = c.s
      /\ d.li = u.li /\ d.lastUpdate = d.now
  <2>1. /\ r.h = c.h /\ r.v = c.v /\ r.s = c.s /\ r.li = u.li /\ r.lastUpdate = r.now
    BY <1>2, <1>3, <1>4, Zenon DEF SameBut, Stored
  <2>2. /\ d.h = k.h /\ d.v = r.v /\ d.s = r.s /\ d.li = r.li
        /\ d.lastUpdate = r.lastUpdate /\ d.now = r.now
    BY <1>5, <1>6, Zenon DEF SameBut, Stored
  <2> QED BY <1>5, <2>1, <2>2, Zenon
<1>8. for \in Account /\ Sound(d) /\ NormalizedIncome(d) = u.li
  BY <1>7, SupplyKeeps, Presented DEF Account, Keeps
<1>9. ASSUME NEW token, token # "underlying"
      PROVE  Transfers(d.log, token)
               = Transfers(MintEvents("hToken", c.h, by, for, amount, u.li), token)
  BY <1>2, <1>6, <1>9, PaidApart DEF log
<1> QED
  BY <1>3, <1>7, <1>8, <1>9, HMintTold

\* A withdrawal tells the balance of its account.
LEMMA WithdrawTells ==
    ASSUME NEW c, Sound(c), NEW by \in User, NEW amount \in Nat,
           NEW d \in Withdraw(c, by, amount)
    PROVE  Told(c, d)
<1> DEFINE u == UpdateState(c)
           balance == RayMul(u.h.scaled[by], u.li)
           taken == IF amount = MAX_UINT_AMOUNT THEN balance ELSE amount
           r == SetRates(u, StableSupply(u), 0, taken)
           burn == BurnEvents("hToken", u.h, by, by, taken, u.li)
           log == burn \cup {Payment("hToken", by, taken)}
<1>1. /\ CanBurn(u.h, by, taken, u.li)
      /\ d = [r EXCEPT !.h = BurnScaled(@, by, taken, u.li),
                       !.coll = IF taken = balance THEN @ \ {by} ELSE @,
                       !.cash = @ - taken, !.wallet[by] = @ + taken, !.log = log]
  BY Passed, ZenonT(40) DEF Withdraw
<1>2. Fresh(u) /\ u.h = c.h /\ u.v = c.v /\ u.s = c.s
  BY UpdatedTokens
<1> HIDE DEF u
<1>3. /\ DOMAIN u = Stored /\ u.li \in Nat \ {0} /\ u.vi \in Nat /\ u.lastUpdate = u.now
      /\ u.h \in ScaledTokens(Account)
  BY <1>2, FreshTypes DEF Fresh
<1>4. by \in Account /\ taken \in Nat
  <2>1. u.h.scaled[by] \in Nat /\ by \in Account
    BY <1>3 DEF ScaledTokens, Account
  <2> QED BY <1>3, <2>1, RayMulType
<1> HIDE DEF taken, balance
<1>5. SameBut(u, r, {"liquidityRate", "stableRate", "variableRate"})
  BY <1>3, RatesFields
<1> HIDE DEF r, log
<1>6. /\ SameBut(r, d, {"h", "coll", "cash", "wallet", "log"})
      /\ d.h = BurnScaled(r.h, by, taken, u.li) /\ d.log = log
  BY <1>1, <1>5, Zenon DEF SameBut, Stored
<1>7. /\ d.h = BurnScaled(c.h, by, taken, u.li) /\ d.v = c.v /\ d.s = c.s
      /\ d.li = u.li /\ d.vi = u.vi /\ d.lastUpdate = d.now
  BY <1>2, <1>3, <1>5, <1>6, Zenon DEF SameBut, Stored
<1>8. NormalizedIncome(d) = u.li /\ NormalizedDebt(d) = u.vi
  BY <1>7, Presented
<1>9. \A token : token # "underlying" => Transfers(d.log, token) = Transfers(burn, token)
  BY <1>6, PaidApart DEF log
<1>10. /\ Transfers(d.log, "vToken") = {} /\ Transfers(d.log, "sToken") = {}
       /\ Transfers(d.log, "hToken")
            = IF BalanceIncrease(c.h, by, u.li) > taken
              THEN Flows("hToken", "zero", by, BalanceIncrease(c.h, by, u.li) - taken)
              ELSE Flows("hToken", by, "zero", taken - BalanceIncrease(c.h, by, u.li))
  BY <1>2, <1>9, BurnTransfers
<1>11. RayDiv(taken, u.li) <= c.h.scaled[by]
  BY <1>1, <1>2, Zenon DEF CanBurn
<1>12. Tells(d.log, "hToken", c.h, d.h, Account, Slack(u.li))
  BY <1>2, <1>3, <1>4, <1>7, <1>10, <1>11, BurnTells, ZeroApart
<1> QED
  BY <1>3, <1>7, <1>8, <1>10, <1>12, QuietTokens DEF Told

\* A transfer tells the balances of both accounts.
LEMMA TransferCallTells ==
    ASSUME NEW c, Sound(c), NEW by \in User, NEW from \in User, NEW to \in User,
           NEW amount \in Nat, NEW d \in Transfer(c, by, from, to, amount)
    PROVE  Told(c, d)
<1> DEFINE index == NormalizedIncome(c)
           leaves == IF HBalance(c, from) = amount THEN {from} ELSE {}
           joins == IF HBalance(c, to) = 0 THEN {to} ELSE {}
           log == TransferEvents(c.h, by, from, to, amount, index)
           outcome == [c EXCEPT !.h = TransferScaled(@, from, to, amount, index),
                                !.coll = IF from = to \/ amount = 0 THEN @
                                         ELSE (@ \ leaves) \cup joins,
                                !.log = log]
<1>1. RayDiv(amount, index) <= c.h.scaled[from] /\ d = outcome
  <2>1. d \in Require(RayDiv(amount, index) <= c.h.scaled[from], outcome)
    BY Zenon DEF Transfer
  <2> HIDE DEF outcome
  <2> QED BY <2>1, Zenon DEF Require
<1>2. index \in Nat \ {0}
  <2>1. index \in Nat /\ index >= c.li /\ c.li \in Nat /\ c.li >= RAY
    BY IndexesGrow DEF Sound, IsChain
  <2> HIDE DEF index
  <2> QED BY <2>1, HalfRay, SMT
<1>3. DOMAIN c = Stored /\ c.h \in ScaledTokens(Account)
  BY DEF Sound, IsChain
<1>4. NormalizedDebt(d) \in Nat
  BY TransferKeeps, IndexesGrow DEF Keeps, Sound
<1> HIDE DEF log, leaves, joins, index
<1>5. /\ SameBut(c, d, {"h", "coll", "log"}) /\ d.log = log
      /\ d.h = TransferScaled(c.h, from, to, amount, index)
  BY <1>1, <1>3, Zenon DEF SameBut, Stored
<1> HIDE DEF outcome
<1>6. d.v = c.v /\ d.s = c.s /\ NormalizedIncome(d) = index
  <2>1. /\ d.v = c.v /\ d.s = c.s /\ d.li = c.li /\ d.now = c.now
        /\ d.lastUpdate = c.lastUpdate /\ d.liquidityRate = c.liquidityRate
    BY <1>5, Zenon DEF SameBut, Stored
  <2> QED BY <2>1, Zenon DEF NormalizedIncome, index
<1>7. /\ Transfers(d.log, "vToken") = {} /\ Transfers(d.log, "sToken") = {}
      /\ Transfers(d.log, "hToken") = Interest(c.h, from, index) \cup Interest(c.h, to, index)
                                        \cup Flows("hToken", from, to, amount)
  BY <1>5, TransferTransfers DEF log
<1>8. Tells(d.log, "hToken", c.h, d.h, Account, Slack(index))
  <2>1. from \in Account /\ to \in Account
    BY DEF Account
  <2> QED BY <1>1, <1>2, <1>3, <1>5, <1>7, <2>1, TransferTells, ZeroApart
<1> QED
  BY <1>4, <1>6, <1>7, <1>8, QuietTokens DEF Told

\* Collateral flags, delegations and time move no token.
LEMMA CollateralTells ==
    ASSUME NEW c, Sound(c), NEW by \in User, NEW use \in BOOLEAN,
           NEW d \in SetUseReserveAsCollateral(c, by, use)
    PROVE  Told(c, d)
<1>1. d = [c EXCEPT !.coll = IF use THEN @ \cup {by} ELSE @ \ {by}, !.log = {}]
  BY Passed DEF SetUseReserveAsCollateral
<1>2. Sound(d) /\ DOMAIN c = Stored
  <2>1. Keeps(c, d)
    BY CollateralKeeps
  <2> QED BY <2>1 DEF Keeps, Sound, IsChain
<1>3. d.h = c.h /\ d.v = c.v /\ d.s = c.s /\ d.log = {}
  BY <1>1, <1>2, Zenon DEF Stored
<1> QED
  BY <1>2, <1>3, NoTransfers, QuietCall

\* A delegation.
LEMMA DelegationTells ==
    ASSUME NEW c, Sound(c), NEW by \in User, NEW to \in User, NEW mode \in RateMode,
           NEW amount \in Nat, NEW d \in ApproveDelegation(c, by, to, mode, amount)
    PROVE  Told(c, d)
<1>1. d = [c EXCEPT !.allowance[mode][by][to] = amount, !.log = {}]
  BY DEF ApproveDelegation
<1>2. Sound(d) /\ DOMAIN c = Stored
  <2>1. Keeps(c, d)
    BY DelegationKeeps
  <2> QED BY <2>1 DEF Keeps, Sound, IsChain
<1>3. d.h = c.h /\ d.v = c.v /\ d.s = c.s /\ d.log = {}
  BY <1>1, <1>2, Zenon DEF Stored
<1> QED
  BY <1>2, <1>3, NoTransfers, QuietCall

\* The passage of time.
LEMMA TickTells ==
    ASSUME NEW c, Sound(c), NEW dt \in Nat, NEW d \in Tick(c, dt)
    PROVE  Told(c, d)
<1>1. d = [c EXCEPT !.now = @ + dt, !.log = {}]
  BY Passed DEF Tick
<1>2. Sound(d) /\ DOMAIN c = Stored
  <2>1. Keeps(c, d)
    BY TickKeeps
  <2> QED BY <2>1 DEF Keeps, Sound, IsChain
<1>3. d.h = c.h /\ d.v = c.v /\ d.s = c.s /\ d.log = {}
  BY <1>1, <1>2, Zenon DEF Stored
<1> QED
  BY <1>2, <1>3, NoTransfers, QuietCall

\* A loan tells the debt of the account it is for.
LEMMA BorrowTells ==
    ASSUME NEW c, Sound(c), NEW by \in User, NEW for \in User, NEW amount \in Nat,
           NEW mode \in RateMode, NEW d \in Borrow(c, by, for, amount, mode)
    PROVE  Told(c, d)
<1> DEFINE u == UpdateState(c)
           lent == [u EXCEPT !.s = IF mode = "stable"
                                   THEN MintStable(u, for, amount, u.stableRate) ELSE @,
                             !.v = IF mode = "variable"
                                   THEN MintScaled(@, for, amount, u.vi) ELSE @]
           total == StableSupply(lent)
           r == SetRates(lent, total, 0, amount)
           mint == IF mode = "stable" THEN MintStableEvents(u, by, for, amount, lent.s)
                   ELSE MintEvents("vToken", u.v, by, for, amount, u.vi)
           log == {Payment("hToken", by, amount)} \cup mint
           outcome == [r EXCEPT !.cash = @ - amount,
                                !.wallet[by] = @ + amount,
                                !.allowance[mode][for][by] = IF by = for THEN @ ELSE @ - amount,
                                !.log = log]
<1>1. d = outcome
  BY Passed, ZenonT(40) DEF Borrow
<1>2. Fresh(u) /\ u.h = c.h /\ u.v = c.v /\ u.s = c.s
  BY UpdatedTokens
<1> HIDE DEF u, log
<1>3. /\ DOMAIN u = Stored /\ u.li \in Nat /\ u.vi \in Nat \ {0} /\ u.lastUpdate = u.now
      /\ IsChain(u) /\ u.v \in ScaledTokens(User)
  BY <1>2, FreshTypes DEF Fresh, Sound
<1>4. /\ SameBut(u, lent, {"s", "v"})
      /\ lent.s = (IF mode = "stable" THEN MintStable(u, for, amount, u.stableRate) ELSE u.s)
      /\ lent.v = (IF mode = "variable" THEN MintScaled(u.v, for, amount, u.vi) ELSE u.v)
  BY <1>3, Zenon DEF SameBut, Stored
<1> HIDE DEF lent
<1>5. SameBut(lent, r, {"liquidityRate", "stableRate", "variableRate"})
  <2>1. DOMAIN lent = Stored
    BY <1>4 DEF SameBut
  <2> QED BY <2>1, RatesFields
<1> HIDE DEF r
<1>6. SameBut(r, d, {"cash", "wallet", "allowance", "log"}) /\ d.log = log
  BY <1>1, <1>5, Zenon DEF SameBut, Stored
<1> HIDE DEF outcome
<1>7. /\ d.h = c.h /\ d.v = lent.v /\ d.s = lent.s
      /\ d.li = u.li /\ d.vi = u.vi /\ d.lastUpdate = d.now
  <2>1. lent.h = c.h /\ lent.li = u.li /\ lent.vi = u.vi /\ lent.lastUpdate = lent.now
    BY <1>2, <1>3, <1>4, Zenon DEF SameBut, Stored
  <2>2. /\ d.h = lent.h /\ d.v = lent.v /\ d.s = lent.s /\ d.li = lent.li
        /\ d.vi = lent.vi /\ d.lastUpdate = lent.lastUpdate /\ d.now = lent.now
    BY <1>5, <1>6, Zenon DEF SameBut, Stored
  <2> QED BY <2>1, <2>2, Zenon
<1>8. NormalizedIncome(d) = u.li /\ NormalizedDebt(d) = u.vi
  BY <1>7, Presented
<1>9. \A token : token # "underlying" => Transfers(d.log, token) = Transfers(mint, token)
  BY <1>6, PaidApart DEF log
<1>10. CASE mode = "stable"
  <2>1. mint = MintStableEvents(u, by, for, amount, lent.s)
    BY <1>10
  <2>2. /\ Transfers(d.log, "hToken") = {} /\ Transfers(d.log, "vToken") = {}
        /\ Transfers(d.log, "sToken")
             = Transfers(MintStableEvents(u, by, for, amount, lent.s), "sToken")
    BY <1>9, <2>1, MintStableTransfers
  <2>3. d.s = MintStable(u, for, amount, u.stableRate) /\ d.v = c.v
    BY <1>2, <1>4, <1>7, <1>10
  <2>4. TellsStable(d.log, c.s, d.s)
    BY <1>2, <1>3, <2>2, <2>3, StableMintTells
  <2> QED BY <1>3, <1>7, <1>8, <2>2, <2>3, <2>4, QuietTokens DEF Told
<1>11. CASE mode = "variable"
  <2>1. mint = MintEvents("vToken", c.v, by, for, amount, u.vi)
    BY <1>2, <1>11
  <2>2. /\ Transfers(d.log, "hToken") = {} /\ Transfers(d.log, "sToken") = {}
        /\ Transfers(d.log, "vToken")
             = Flows("vToken", "zero", for, amount + BalanceIncrease(c.v, for, u.vi))
    BY <1>9, <2>1, MintTransfers
  <2>3. d.s = c.s /\ d.v = MintScaled(c.v, for, amount, u.vi)
    BY <1>2, <1>4, <1>7, <1>11
  <2>4. Tells(d.log, "vToken", c.v, d.v, User, Slack(u.vi))
    BY <1>2, <1>3, <2>2, <2>3, MintTells, ZeroApart
  <2> QED BY <1>3, <1>7, <1>8, <2>2, <2>3, <2>4, QuietTokens DEF Told
<1> QED
  BY <1>10, <1>11 DEF RateMode

\* Debt burnt in either mode, from a present chain.
LEMMA DebtBurntTells ==
    ASSUME NEW u, Fresh(u), NEW for \in User, NEW amount \in Nat, NEW mode \in RateMode,
           mode = "variable" => CanBurn(u.v, for, amount, u.vi),
           NEW d, d = BurnDebt(u, for, amount, mode), NEW log,
           \A token \in {"vToken", "sToken"} :
              Transfers(log, token) = Transfers(BurnDebtEvents(u, for, amount, mode), token)
    PROVE  /\ Tells(log, "vToken", u.v, d.v, User, Slack(u.vi))
           /\ TellsStable(log, u.s, d.s)
<1>1. /\ DOMAIN u = Stored /\ u.vi \in Nat \ {0} /\ u.vi \in Nat
      /\ u.v \in ScaledTokens(User) /\ IsChain(u) /\ Sound(u)
  BY FreshTypes DEF Fresh, Sound
<1>2. /\ d.s = (IF mode = "stable" THEN BurnStable(u, for, amount) ELSE u.s)
      /\ d.v = (IF mode = "variable" THEN BurnScaled(u.v, for, amount, u.vi) ELSE u.v)
  BY <1>1, Zenon DEF BurnDebt, Stored
<1>3. CASE mode = "stable"
  <2>1. BurnDebtEvents(u, for, amount, mode) = BurnStableEvents(u, for, amount)
    BY <1>3 DEF BurnDebtEvents
  <2>2. Transfers(log, "vToken") = {}
        /\ Transfers(log, "sToken") = Transfers(BurnStableEvents(u, for, amount), "sToken")
    BY <2>1, BurnStableTransfers
  <2>3. d.s = BurnStable(u, for, amount) /\ d.v = u.v
    BY <1>2, <1>3
  <2> QED BY <1>1, <2>2, <2>3, QuietTokens, StableBurnTells
<1>4. CASE mode = "variable"
  <2>1. BurnDebtEvents(u, for, amount, mode)
          = BurnEvents("vToken", u.v, for, "zero", amount, u.vi)
    BY <1>4 DEF BurnDebtEvents
  <2>2. /\ Transfers(log, "sToken") = {}
        /\ Transfers(log, "vToken")
             = IF BalanceIncrease(u.v, for, u.vi) > amount
               THEN Flows("vToken", "zero", for, BalanceIncrease(u.v, for, u.vi) - amount)
               ELSE Flows("vToken", for, "zero", amount - BalanceIncrease(u.v, for, u.vi))
    BY <2>1, BurnTransfers
  <2>3. d.s = u.s /\ d.v = BurnScaled(u.v, for, amount, u.vi)
        /\ RayDiv(amount, u.vi) <= u.v.scaled[for]
    BY <1>2, <1>4 DEF CanBurn
  <2> QED BY <1>1, <2>2, <2>3, QuietTokens, BurnTells, ZeroApart
<1> QED
  BY <1>3, <1>4 DEF RateMode

\* A burn of debt moves no hTokens, and a burn of hTokens no debt.
LEMMA BurnsApart ==
    ASSUME NEW u, NEW for, NEW amount, NEW mode
    PROVE  /\ Transfers(BurnDebtEvents(u, for, amount, mode), "hToken") = {}
           /\ \A t, by, target, index :
                /\ Transfers(BurnEvents("hToken", t, by, target, amount, index), "vToken") = {}
                /\ Transfers(BurnEvents("hToken", t, by, target, amount, index), "sToken") = {}
<1>1. Transfers(BurnStableEvents(u, for, amount), "hToken") = {}
  BY BurnStableTransfers
<1>2. Transfers(BurnEvents("vToken", u.v, for, "zero", amount, u.vi), "hToken") = {}
  BY BurnTransfers
<1> QED
  BY <1>1, <1>2, BurnTransfers DEF BurnDebtEvents

\* A repayment tells the debt, and the hTokens it is paid with.
LEMMA RepayTells ==
    ASSUME NEW c, Sound(c), NEW by \in User, NEW for \in User, NEW amount \in Nat,
           NEW mode \in RateMode, NEW useH \in BOOLEAN,
           NEW d \in Repay(c, by, for, amount, mode, useH)
    PROVE  Told(c, d)
<1> DEFINE u == UpdateState(c)
           debt == Debt(u, for, mode)
           sent == IF useH /\ amount = MAX_UINT_AMOUNT THEN HBalance(u, by) ELSE amount
           paid == IF sent < debt THEN sent ELSE debt
           cash == IF useH THEN 0 ELSE paid
           burnt == BurnDebt(u, for, paid, mode)
           total == StableTotalAfter(u, for, paid, mode)
           r == SetRates(burnt, total, cash, 0)
           owed == BurnDebtEvents(u, for, paid, mode)
           burn == BurnEvents("hToken", u.h, by, "hToken", paid, u.li)
           given == IF useH THEN burn ELSE {Payment(by, "hToken", paid)}
           log == owed \cup given
           outcome == [r EXCEPT !.h = IF useH THEN BurnScaled(@, by, paid, u.li) ELSE @,
                                !.cash = @ + cash,
                                !.wallet[by] = @ - cash,
                                !.log = log]
<1>1. /\ mode = "variable" => CanBurn(u.v, for, paid, u.vi)
      /\ useH => CanBurn(u.h, by, paid, u.li)
      /\ d = outcome
  <2>1. d \in Require(/\ amount # 0
                      /\ amount = MAX_UINT_AMOUNT => by = for
                      /\ debt # 0
                      /\ mode = "variable" => CanBurn(u.v, for, paid, u.vi)
                      /\ useH => CanBurn(u.h, by, paid, u.li)
                      /\ cash <= u.wallet[by],
                      outcome)
    BY Zenon DEF Repay
  <2> HIDE DEF outcome, cash, paid, debt, u
  <2> QED BY <2>1, Zenon DEF Require
<1>2. Fresh(u) /\ u.h = c.h /\ u.v = c.v /\ u.s = c.s
  BY UpdatedTokens
<1> HIDE DEF u
<1>3. /\ DOMAIN u = Stored /\ u.li \in Nat \ {0} /\ u.li \in Nat /\ u.vi \in Nat
      /\ u.lastUpdate = u.now /\ u.h \in ScaledTokens(Account) /\ by \in Account
  BY <1>2, FreshTypes DEF Fresh, Account
<1>4. debt \in Nat /\ sent \in Nat
  BY <1>2, BalanceTypes
<1> HIDE DEF debt, sent
<1>5. paid \in Nat
  BY <1>4
<1> HIDE DEF paid, cash
<1>6. SameBut(u, burnt, {"s", "v"}) /\ burnt = BurnDebt(u, for, paid, mode)
  BY <1>3, Zenon DEF BurnDebt, SameBut, Stored
<1> HIDE DEF burnt, total
<1>7. SameBut(burnt, r, {"liquidityRate", "stableRate", "variableRate"})
  <2>1. DOMAIN burnt = Stored
    BY <1>6 DEF SameBut
  <2> QED BY <2>1, RatesFields
<1> HIDE DEF r, log, given, burn, owed
<1>8. /\ SameBut(r, d, {"h", "cash", "wallet", "log"}) /\ d.log = log
      /\ d.h = (IF useH THEN BurnScaled(r.h, by, paid, u.li) ELSE r.h)
  <2>1. DOMAIN r = Stored
    BY <1>7 DEF SameBut
  <2> QED BY <1>1, <2>1, Zenon DEF SameBut, Stored
<1> HIDE DEF outcome
<1>9. /\ d.h = (IF useH THEN BurnScaled(c.h, by, paid, u.li) ELSE c.h)
      /\ d.v = burnt.v /\ d.s = burnt.s
      /\ d.li = u.li /\ d.vi = u.vi /\ d.lastUpdate = d.now
  <2>1. /\ r.h = c.h /\ r.v = burnt.v /\ r.s = burnt.s /\ r.li = u.li /\ r.vi = u.vi
        /\ r.lastUpdate = r.now
    BY <1>2, <1>3, <1>6, <1>7, Zenon DEF SameBut, Stored
  <2>2. /\ d.v = r.v /\ d.s = r.s /\ d.li = r.li /\ d.vi = r.vi
        /\ d.lastUpdate = r.lastUpdate /\ d.now = r.now
    BY <1>8, Zenon DEF SameBut, Stored
  <2> QED BY <1>8, <2>1, <2>2, Zenon
<1>10. NormalizedIncome(d) = u.li /\ NormalizedDebt(d) = u.vi
  BY <1>9, Presented
<1>11. /\ Transfers(d.log, "hToken") = Transfers(given, "hToken")
       /\ \A token \in {"vToken", "sToken"} : Transfers(d.log, token) = Transfers(owed, token)
  <2>1. \A token : Transfers(d.log, token) = Transfers(owed, token) \cup Transfers(given, token)
    BY <1>8, TransfersUnion DEF log
  <2>2. Transfers(owed, "hToken") = {}
    BY BurnsApart DEF owed
  <2>3. Transfers(given, "vToken") = {} /\ Transfers(given, "sToken") = {}
    BY BurnsApart, PaymentsApart, Zenon DEF given, burn
  <2> QED BY <2>1, <2>2, <2>3
<1>12. /\ Tells(d.log, "vToken", c.v, d.v, User, Slack(u.vi))
       /\ TellsStable(d.log, c.s, d.s)
  <2>1. \A token \in {"vToken", "sToken"} :
           Transfers(d.log, token) = Transfers(BurnDebtEvents(u, for, paid, mode), token)
    BY <1>11 DEF owed
  <2>2. /\ Tells(d.log, "vToken", u.v, burnt.v, User, Slack(u.vi))
        /\ TellsStable(d.log, u.s, burnt.s)
    BY <1>1, <1>2, <1>5, <1>6, <2>1, DebtBurntTells
  <2> QED BY <1>2, <1>9, <2>2
<1>13. Tells(d.log, "hToken", c.h, d.h, Account, Slack(u.li))
  <2>1. CASE useH
    <3>1. d.h = BurnScaled(c.h, by, paid, u.li) /\ RayDiv(paid, u.li) <= c.h.scaled[by]
      BY <1>1, <1>2, <1>9, <2>1, Zenon DEF CanBurn
    <3>2. Transfers(d.log, "hToken")
            = IF BalanceIncrease(c.h, by, u.li) > paid
              THEN Flows("hToken", "zero", by, BalanceIncrease(c.h, by, u.li) - paid)
              ELSE Flows("hToken", by, "zero", paid - BalanceIncrease(c.h, by, u.li))
      BY <1>2, <1>11, <2>1, BurnTransfers DEF given, burn
    <3> QED BY <1>2, <1>3, <1>5, <3>1, <3>2, BurnTells, ZeroApart
  <2>2. CASE ~useH
    <3>1. Transfers(d.log, "hToken") = {}
      BY <1>11, <2>2, PaymentsApart, Zenon DEF given
    <3> QED BY <1>3, <1>9, <2>2, <3>1, QuietTokens
  <2> QED BY <2>1, <2>2
<1> QED
  BY <1>10, <1>12, <1>13 DEF Told

\* A debt that changes its mode: both debt tokens are told.
LEMMA SwapTells ==
    ASSUME NEW c, Sound(c), NEW by \in User, NEW mode \in RateMode,
           NEW d \in SwapBorrowRateMode(c, by, mode)
    PROVE  Told(c, d)
<1> DEFINE u == UpdateState(c)
           debt == Debt(u, by, mode)
           burnt == BurnDebt(u, by, debt, mode)
           swapped == IF mode = "stable"
                      THEN [burnt EXCEPT !.v = MintScaled(@, by, debt, u.vi)]
                      ELSE [burnt EXCEPT !.s = MintStable(burnt, by, debt, u.stableRate)]
           after == StableTotalAfter(u, by, debt, mode)
           total == IF mode = "stable" THEN after ELSE StableSupply(swapped)
           left == BurnDebtEvents(u, by, debt, mode)
           taken == IF mode = "stable" THEN MintEvents("vToken", u.v, by, by, debt, u.vi)
                    ELSE MintStableEvents(burnt, by, by, debt, swapped.s)
           log == left \cup taken
           outcome == [SetRates(swapped, total, 0, 0) EXCEPT !.log = log]
<1>1. /\ mode = "variable" => CanBurn(u.v, by, debt, u.vi)
      /\ d = outcome
  BY Passed, Zenon DEF SwapBorrowRateMode
<1>2. Fresh(u) /\ u.h = c.h /\ u.v = c.v /\ u.s = c.s
  BY UpdatedTokens
<1> HIDE DEF u
<1>3. /\ DOMAIN u = Stored /\ u.li \in Nat /\ u.vi \in Nat \ {0} /\ u.lastUpdate = u.now
      /\ IsChain(u) /\ u.v \in ScaledTokens(User) /\ debt \in Nat
      /\ (mode = "stable" => debt <= StableBalance(u, by))
  <2>1. debt \in Nat /\ StableBalance(u, by) \in Nat
    BY <1>2, BalanceTypes
  <2>2. mode = "stable" => debt = StableBalance(u, by)
    BY DEF Debt
  <2> HIDE DEF debt
  <2>3. mode = "stable" => debt <= StableBalance(u, by)
    BY <2>1, <2>2, SMT
  <2> QED BY <1>2, <2>1, <2>3, FreshTypes DEF Fresh, Sound
<1> HIDE DEF debt
<1>4. /\ SameBut(u, burnt, {"s", "v"})
      /\ burnt.s = (IF mode = "stable" THEN BurnStable(u, by, debt) ELSE u.s)
      /\ burnt.v = (IF mode = "variable" THEN BurnScaled(u.v, by, debt, u.vi) ELSE u.v)
  BY <1>3, Zenon DEF BurnDebt, SameBut, Stored
<1>5. Fresh(burnt)
  BY <1>1, <1>2, <1>3, DebtBurnt
<1> HIDE DEF burnt, after
<1>6. /\ SameBut(burnt, swapped, {"s", "v"})
      /\ mode = "stable" => swapped.s = burnt.s /\ swapped.v = MintScaled(burnt.v, by, debt, u.vi)
      /\ mode # "stable" => swapped.v = burnt.v
                            /\ swapped.s = MintStable(burnt, by, debt, u.stableRate)
  <2>1. DOMAIN burnt = Stored
    BY <1>4 DEF SameBut
  <2> QED BY <2>1, Zenon DEF SameBut, Stored
<1> HIDE DEF swapped, total
<1>7. SameBut(swapped, SetRates(swapped, total, 0, 0),
              {"liquidityRate", "stableRate", "variableRate"})
  <2>1. DOMAIN swapped = Stored
    BY <1>6 DEF SameBut
  <2> QED BY <2>1, RatesFields
<1> HIDE DEF log, left, taken
<1>8. SameBut(SetRates(swapped, total, 0, 0), d, {"log"}) /\ d.log = log
  BY <1>1, <1>7, Zenon DEF SameBut, Stored
<1> HIDE DEF outcome
<1>9. /\ d.h = c.h /\ d.v = swapped.v /\ d.s = swapped.s
      /\ d.li = u.li /\ d.vi = u.vi /\ d.lastUpdate = d.now
  <2>1. /\ swapped.h = c.h /\ swapped.li = u.li /\ swapped.vi = u.vi
        /\ swapped.lastUpdate = swapped.now
    BY <1>2, <1>3, <1>4, <1>6, Zenon DEF SameBut, Stored
  <2>2. /\ d.h = swapped.h /\ d.v = swapped.v /\ d.s = swapped.s /\ d.li = swapped.li
        /\ d.vi = swapped.vi /\ d.lastUpdate = swapped.lastUpdate /\ d.now = swapped.now
    BY <1>7, <1>8, Zenon DEF SameBut, Stored
  <2> QED BY <2>1, <2>2, Zenon
<1>10. NormalizedIncome(d) = u.li /\ NormalizedDebt(d) = u.vi
  BY <1>9, Presented
<1>11. \A token : Transfers(d.log, token) = Transfers(left, token) \cup Transfers(taken, token)
  BY <1>8, TransfersUnion DEF log
<1>12. CASE mode = "stable"
  <2>1. left = BurnStableEvents(u, by, debt) /\ taken = MintEvents("vToken", c.v, by, by, debt, u.vi)
    BY <1>2, <1>12 DEF left, taken, BurnDebtEvents
  <2>2. /\ Transfers(left, "hToken") = {} /\ Transfers(left, "vToken") = {}
        /\ Transfers(taken, "hToken") = {} /\ Transfers(taken, "sToken") = {}
        /\ Transfers(taken, "vToken")
             = Flows("vToken", "zero", by, debt + BalanceIncrease(c.v, by, u.vi))
    BY <2>1, BurnStableTransfers, MintTransfers
  <2>3. /\ Transfers(d.log, "hToken") = {}
        /\ Transfers(d.log, "sToken") = Transfers(BurnStableEvents(u, by, debt), "sToken")
        /\ Transfers(d.log, "vToken")
             = Flows("vToken", "zero", by, debt + BalanceIncrease(c.v, by, u.vi))
    BY <1>11, <2>1, <2>2
  <2>4. d.s = BurnStable(u, by, debt) /\ d.v = MintScaled(c.v, by, debt, u.vi)
    BY <1>2, <1>4, <1>6, <1>9, <1>12
  <2>5. Tells(d.log, "vToken", c.v, d.v, User, Slack(u.vi))
    BY <1>2, <1>3, <2>3, <2>4, MintTells, ZeroApart
  <2>6. TellsStable(d.log, c.s, d.s)
    BY <1>2, <1>3, <2>3, <2>4, StableBurnTells
  <2> QED BY <1>3, <1>9, <1>10, <2>3, <2>5, <2>6, QuietTokens DEF Told
<1>13. CASE mode = "variable"
  <2>1. /\ left = BurnEvents("vToken", c.v, by, "zero", debt, u.vi)
        /\ taken = MintStableEvents(burnt, by, by, debt, swapped.s)
    BY <1>2, <1>13 DEF left, taken, BurnDebtEvents
  <2>2. /\ Transfers(left, "hToken") = {} /\ Transfers(left, "sToken") = {}
        /\ Transfers(taken, "hToken") = {} /\ Transfers(taken, "vToken") = {}
        /\ Transfers(left, "vToken")
             = IF BalanceIncrease(c.v, by, u.vi) > debt
               THEN Flows("vToken", "zero", by, BalanceIncrease(c.v, by, u.vi) - debt)
               ELSE Flows("vToken", by, "zero", debt - BalanceIncrease(c.v, by, u.vi))
    BY <2>1, BurnTransfers, MintStableTransfers
  <2>3. /\ Transfers(d.log, "hToken") = {}
        /\ Transfers(d.log, "sToken")
             = Transfers(MintStableEvents(burnt, by, by, debt, swapped.s), "sToken")
        /\ Transfers(d.log, "vToken")
             = IF BalanceIncrease(c.v, by, u.vi) > debt
               THEN Flows("vToken", "zero", by, BalanceIncrease(c.v, by, u.vi) - debt)
               ELSE Flows("vToken", by, "zero", debt - BalanceIncrease(c.v, by, u.vi))
    BY <1>11, <2>1, <2>2
  <2>4. /\ d.s = MintStable(burnt, by, debt, u.stableRate) /\ burnt.s = c.s
        /\ d.v = BurnScaled(c.v, by, debt, u.vi)
        /\ RayDiv(debt, u.vi) <= c.v.scaled[by]
    BY <1>1, <1>2, <1>4, <1>6, <1>9, <1>13 DEF CanBurn
  <2>5. Tells(d.log, "vToken", c.v, d.v, User, Slack(u.vi))
    BY <1>2, <1>3, <2>3, <2>4, BurnTells, ZeroApart
  <2>6. TellsStable(d.log, burnt.s, d.s)
    <3>1. IsChain(burnt)
      BY <1>5 DEF Fresh, Sound
    <3>2. TellsStable(d.log, burnt.s, MintStable(burnt, by, debt, u.stableRate))
      BY <1>3, <2>3, <3>1, StableMintTells
    <3> QED BY <2>4, <3>2, Zenon
  <2> QED BY <1>3, <1>9, <1>10, <2>3, <2>4, <2>5, <2>6, QuietTokens DEF Told
<1> QED
  BY <1>12, <1>13 DEF RateMode

\* A stable debt at a new rate: burnt whole, and minted again.
LEMMA RebalanceTells ==
    ASSUME NEW c, Sound(c), NEW user \in User, NEW d \in RebalanceStableBorrowRate(c, user)
    PROVE  Told(c, d)
<1> DEFINE u == UpdateState(c)
           debt == StableBalance(u, user)
           burnt == [u EXCEPT !.s = BurnStable(u, user, debt)]
           minted == [burnt EXCEPT !.s = MintStable(burnt, user, debt, u.stableRate)]
           total == StableSupply(minted)
           left == BurnStableEvents(u, user, debt)
           taken == MintStableEvents(burnt, user, user, debt, minted.s)
           log == left \cup taken
           outcome == [SetRates(minted, total, 0, 0) EXCEPT !.log = log]
<1>1. d = outcome
  BY Passed, Zenon DEF RebalanceStableBorrowRate
<1>2. Fresh(u) /\ u.h = c.h /\ u.v = c.v /\ u.s = c.s
  BY UpdatedTokens
<1> HIDE DEF u
<1>3. /\ DOMAIN u = Stored /\ u.li \in Nat /\ u.vi \in Nat /\ u.lastUpdate = u.now
      /\ u.s \in StableTokens /\ debt \in Nat /\ debt = StableBalance(u, user)
      /\ u.s.principal[user] \in Nat
  BY <1>2, BalanceTypes, FreshTypes DEF Fresh, Sound, IsChain, StableTokens
<1> HIDE DEF debt
<1>4. SameBut(u, burnt, {"s"}) /\ burnt.s = BurnStable(u, user, debt)
  BY <1>3, Zenon DEF SameBut, Stored
<1> HIDE DEF burnt
<1>5. SameBut(burnt, minted, {"s"}) /\ minted.s = MintStable(burnt, user, debt, u.stableRate)
  <2>1. DOMAIN burnt = Stored
    BY <1>4 DEF SameBut
  <2> QED BY <2>1, Zenon DEF SameBut, Stored
<1> HIDE DEF minted, total
<1>6. SameBut(minted, SetRates(minted, total, 0, 0),
              {"liquidityRate", "stableRate", "variableRate"})
  <2>1. DOMAIN minted = Stored
    BY <1>5 DEF SameBut
  <2> QED BY <2>1, RatesFields
<1> HIDE DEF log, left, taken
<1>7. SameBut(SetRates(minted, total, 0, 0), d, {"log"}) /\ d.log = log
  BY <1>1, <1>6, Zenon DEF SameBut, Stored
<1> HIDE DEF outcome
<1>8. /\ d.h = c.h /\ d.v = c.v /\ d.s = minted.s
      /\ d.li = u.li /\ d.vi = u.vi /\ d.lastUpdate = d.now
  <2>1. /\ minted.h = c.h /\ minted.v = c.v /\ minted.li = u.li /\ minted.vi = u.vi
        /\ minted.lastUpdate = minted.now
    BY <1>2, <1>3, <1>4, <1>5, Zenon DEF SameBut, Stored
  <2>2. /\ d.h = minted.h /\ d.v = minted.v /\ d.s = minted.s /\ d.li = minted.li
        /\ d.vi = minted.vi /\ d.lastUpdate = minted.lastUpdate /\ d.now = minted.now
    BY <1>6, <1>7, Zenon DEF SameBut, Stored
  <2> QED BY <2>1, <2>2, Zenon
<1>9. NormalizedIncome(d) = u.li /\ NormalizedDebt(d) = u.vi
  BY <1>8, Presented
<1>10. \A token : Transfers(d.log, token) = Transfers(left, token) \cup Transfers(taken, token)
  BY <1>7, TransfersUnion DEF log
<1> DEFINE p == u.s.principal[user]
<1>11. burnt.s.principal = [u.s.principal EXCEPT ![user] = 0]
  <2> DEFINE n == BurnStable(u, user, debt)
  <2>1. n.principal = [u.s.principal EXCEPT ![user] = StableBalance(u, user) - debt]
    BY Zenon DEF BurnStable
  <2>2. debt - debt = 0
    BY <1>3, SMT
  <2> HIDE DEF n
  <2>3. n.principal = [u.s.principal EXCEPT ![user] = 0]
    BY <1>3, <2>1, <2>2, Zenon
  <2> QED BY <1>4, <2>3, Zenon DEF n
<1>12. burnt.s.principal[user] = 0 /\ StableBalance(burnt, user) = 0
  <2>1. burnt.s.principal[user] = 0
    BY <1>3, <1>11 DEF StableTokens
  <2> QED BY <2>1 DEF StableBalance
<1>13. d.s.principal = [c.s.principal EXCEPT ![user] = debt]
  <2> DEFINE n == MintStable(burnt, user, debt, u.stableRate)
  <2>1. n.principal = [burnt.s.principal EXCEPT ![user] = StableBalance(burnt, user) + debt]
    BY Zenon DEF MintStable
  <2>2. 0 + debt = debt
    BY <1>3, SMT
  <2>3. [[u.s.principal EXCEPT ![user] = 0] EXCEPT ![user] = debt]
          = [u.s.principal EXCEPT ![user] = debt]
    BY <1>3 DEF StableTokens
  <2> HIDE DEF n
  <2>4. n.principal = [burnt.s.principal EXCEPT ![user] = debt]
    BY <1>12, <2>1, <2>2, Zenon
  <2>5. n.principal = [u.s.principal EXCEPT ![user] = debt]
    BY <1>11, <2>3, <2>4, Zenon
  <2> QED BY <1>2, <1>5, <1>8, <2>5, Zenon DEF n
<1>14. /\ Transfers(left, "hToken") = {} /\ Transfers(left, "vToken") = {}
       /\ Transfers(left, "sToken") = Flows("sToken", user, "zero", p)
  <2> DEFINE increase == debt - p
  <2>1. ~(increase > debt) /\ debt - increase = p
    BY <1>3, SMT
  <2>2. Transfers(left, "sToken")
          = IF increase > debt THEN Flows("sToken", "zero", user, increase - debt)
            ELSE Flows("sToken", user, "zero", debt - increase)
    BY <1>3, BurnStableTransfers DEF left
  <2> HIDE DEF increase
  <2>3. Transfers(left, "sToken") = Flows("sToken", user, "zero", p)
    BY <2>1, <2>2, Zenon
  <2>4. Transfers(left, "hToken") = {} /\ Transfers(left, "vToken") = {}
    BY BurnStableTransfers DEF left
  <2> QED BY <2>3, <2>4
<1>15. /\ Transfers(taken, "hToken") = {} /\ Transfers(taken, "vToken") = {}
       /\ Transfers(taken, "sToken") = Flows("sToken", "zero", user, debt)
  <2>1. Transfers(taken, "sToken") = Flows("sToken", "zero", user, debt + (0 - 0))
    BY <1>12, MintStableTransfers DEF taken
  <2>2. debt + (0 - 0) = debt
    BY <1>3, SMT
  <2>3. Transfers(taken, "hToken") = {} /\ Transfers(taken, "vToken") = {}
    BY MintStableTransfers DEF taken
  <2> QED BY <2>1, <2>2, <2>3
<1>16. /\ Transfers(d.log, "hToken") = {} /\ Transfers(d.log, "vToken") = {}
       /\ Transfers(d.log, "sToken")
            = Flows("sToken", user, "zero", c.s.principal[user])
                \cup Flows("sToken", "zero", user, debt)
  BY <1>2, <1>10, <1>14, <1>15 DEF p
<1>17. TellsStable(d.log, c.s, d.s)
  <2>1. c.s \in StableTokens
    BY <1>2, <1>3
  <2> QED BY <1>3, <1>13, <1>16, <2>1, StableRenewalTells
<1> QED
  BY <1>3, <1>8, <1>9, <1>16, <1>17, QuietTokens DEF Told

\* The treasury's share tells the treasury's balance.
LEMMA TreasuryTells ==
    ASSUME NEW c, Sound(c), NEW d \in MintToTreasury(c)
    PROVE  Told(c, d)
<1> DEFINE index == NormalizedIncome(c)
           amount == RayMul(c.accrued, index)
           vault == PercentMul(amount, FeeToVaultPercent)
           rest == amount - vault
           cleared == [c EXCEPT !.accrued = 0, !.log = {}]
           mint == MintEvents("hToken", c.h, "pool", Treasury, rest, index)
           log == mint \cup {Payment("hToken", "vault", vault)}
           outcome == [cleared EXCEPT
                          !.h = MintScaled(@, Treasury, rest, index),
                          !.cash = @ - vault, !.log = log]
<1>1. d = cleared \/ d = outcome
  <2> DEFINE checks == vault <= c.cash /\ CanMint(rest, index)
  <2>1. MintToTreasury(c) = IF amount = 0 THEN {cleared} ELSE Require(checks, outcome)
    BY Zenon DEF MintToTreasury
  <2> HIDE DEF outcome, vault, amount, index, cleared
  <2> QED BY <2>1, Zenon DEF Require
<1>2. DOMAIN c = Stored /\ c.li \in Nat /\ c.li >= RAY /\ c.accrued \in Nat /\ IsChain(c)
  BY DEF Sound, IsChain
<1>3. index \in Nat \ {0}
  <2>1. index \in Nat /\ index >= c.li
    BY <1>2, IndexesGrow
  <2> HIDE DEF index
  <2> QED BY <1>2, <2>1, HalfRay, SMT
<1>4. Sound(d)
  BY TreasuryKeeps DEF Keeps
<1> HIDE DEF index
<1>5. amount \in Nat
  BY <1>2, <1>3, RayMulType
<1> HIDE DEF amount
<1>6. rest \in Nat
  BY <1>5, ReserveAssumption, Split
<1>7. SameBut(c, cleared, {"accrued", "log"}) /\ cleared.log = {}
  BY <1>2, Zenon DEF SameBut, Stored
<1> HIDE DEF cleared
<1>8. CASE d = cleared
  <2>1. d.h = c.h /\ d.v = c.v /\ d.s = c.s /\ d.log = {}
    BY <1>7, <1>8, Zenon DEF SameBut, Stored
  <2> QED BY <1>4, <2>1, NoTransfers, QuietCall
<1>9. CASE d = outcome
  <2> HIDE DEF log, vault, rest, mint
  <2>1. /\ SameBut(c, d, {"h", "cash", "accrued", "log"}) /\ d.log = log
        /\ d.h = MintScaled(c.h, Treasury, rest, index)
    BY <1>7, <1>9, Zenon DEF SameBut, Stored
  <2> HIDE DEF outcome
  <2>2. /\ d.v = c.v /\ d.s = c.s /\ d.li = c.li /\ d.now = c.now
        /\ d.lastUpdate = c.lastUpdate /\ d.liquidityRate = c.liquidityRate
    BY <2>1, Zenon DEF SameBut, Stored
  <2>3. NormalizedIncome(d) = index
    BY <2>2, Zenon DEF NormalizedIncome, index
  <2>4. \A token : token # "underlying" => Transfers(d.log, token) = Transfers(mint, token)
    BY <2>1, PaidApart DEF log
  <2>5. Treasury \in Account
    BY DEF Account
  <2> QED BY <1>3, <1>4, <1>6, <2>1, <2>2, <2>3, <2>4, <2>5, HMintTold DEF mint
<1> QED
  BY <1>1, <1>8, <1>9

\* What a bridge mints tells the balance of the account it is for.
LEMMA UnbackedTells ==
    ASSUME NEW c, Sound(c), NEW for \in User, NEW amount \in Nat,
           NEW d \in MintUnbacked(c, for, amount)
    PROVE  Told(c, d)
<1> DEFINE u == UpdateState(c)
           owed == [u EXCEPT !.unbacked = @ + amount]
           r == SetRates(owed, StableSupply(u), 0, 0)
           k == Credit(r, for, amount)
           log == MintEvents("hToken", u.h, "bridge", for, amount, u.li)
           outcome == [k EXCEPT !.log = log]
<1>1. d = outcome
  BY Passed, Zenon DEF MintUnbacked
<1>2. Fresh(u) /\ u.h = c.h /\ u.v = c.v /\ u.s = c.s
  BY UpdatedTokens
<1> HIDE DEF u, log
<1>3. DOMAIN u = Stored /\ u.li \in Nat \ {0} /\ u.lastUpdate = u.now
  BY <1>2, FreshTypes DEF Fresh
<1>4. SameBut(u, owed, {"unbacked"})
  BY <1>3, Zenon DEF SameBut, Stored
<1> HIDE DEF owed
<1>5. SameBut(owed, r, {"liquidityRate", "stableRate", "variableRate"})
  <2>1. DOMAIN owed = Stored
    BY <1>4 DEF SameBut
  <2> QED BY <2>1, RatesFields
<1> HIDE DEF r
<1>6. SameBut(r, k, {"h", "coll"}) /\ k.h = MintScaled(r.h, for, amount, r.li)
  BY <1>5, Zenon DEF Credit, SameBut, Stored
<1> HIDE DEF k
<1>7. SameBut(k, d, {"log"}) /\ d.log = log
  BY <1>1, <1>6, Zenon DEF SameBut, Stored
<1> HIDE DEF outcome
<1>8. /\ d.h = MintScaled(c.h, for, amount, u.li) /\ d.v = c.v /\ d.s = c.s
      /\ d.li = u.li /\ d.lastUpdate = d.now
  <2>1. /\ r.h = c.h /\ r.v = c.v /\ r.s = c.s /\ r.li = u.li /\ r.lastUpdate = r.now
    BY <1>2, <1>3, <1>4, <1>5, Zenon DEF SameBut, Stored
  <2>2. /\ d.h = k.h /\ d.v = r.v /\ d.s = r.s /\ d.li = r.li
        /\ d.lastUpdate = r.lastUpdate /\ d.now = r.now
    BY <1>6, <1>7, Zenon DEF SameBut, Stored
  <2> QED BY <1>6, <2>1, <2>2, Zenon
<1>9. for \in Account /\ Sound(d) /\ NormalizedIncome(d) = u.li
  BY <1>8, UnbackedKeeps, Presented DEF Account, Keeps
<1>10. \A token : Transfers(d.log, token)
          = Transfers(MintEvents("hToken", c.h, "bridge", for, amount, u.li), token)
  BY <1>2, <1>7, Zenon DEF log
<1> QED
  BY <1>3, <1>8, <1>9, <1>10, HMintTold

\* Backing moves no token.
LEMMA BackingTells ==
    ASSUME NEW c, Sound(c), NEW amount \in Nat, NEW fee \in Nat,
           NEW d \in BackUnbacked(c, amount, fee)
    PROVE  Told(c, d)
<1> DEFINE u == UpdateState(c)
           backing == IF amount < u.unbacked THEN amount ELSE u.unbacked
           toProtocol == PercentMul(fee, BridgeFee)
           earned == Cumulate(u, fee - toProtocol, toProtocol)
           backed == [earned EXCEPT !.unbacked = @ - backing]
           added == backing + fee
           r == SetRates(backed, StableSupply(u), added, 0)
           log == {Payment("bridge", "hToken", backing + fee)}
           outcome == [r EXCEPT !.cash = @ + backing + fee, !.log = log]
<1>1. d = outcome
  BY Passed, Zenon DEF BackUnbacked
<1>2. Fresh(u) /\ u.h = c.h /\ u.v = c.v /\ u.s = c.s
  BY UpdatedTokens
<1>3. Sound(d)
  BY BackingKeeps DEF Keeps
<1> HIDE DEF u, backing, toProtocol, log
<1>4. DOMAIN u = Stored
  BY <1>2, FreshTypes
<1>5. SameBut(u, earned, {"li", "accrued"})
  BY <1>4, Zenon DEF Cumulate, SameBut, Stored
<1> HIDE DEF earned
<1>6. SameBut(earned, backed, {"unbacked"})
  BY <1>5, Zenon DEF SameBut, Stored
<1> HIDE DEF backed, added
<1>7. SameBut(backed, r, {"liquidityRate", "stableRate", "variableRate"})
  <2>1. DOMAIN backed = Stored
    BY <1>6 DEF SameBut
  <2> QED BY <2>1, RatesFields
<1> HIDE DEF r
<1>8. SameBut(r, d, {"cash", "log"}) /\ d.log = log
  BY <1>1, <1>7, Zenon DEF SameBut, Stored
<1>9. d.h = c.h /\ d.v = c.v /\ d.s = c.s
  BY <1>2, <1>5, <1>6, <1>7, <1>8, Zenon DEF SameBut, Stored
<1>10. \A token : token # "underlying" => Transfers(d.log, token) = {}
  BY <1>8, PaymentsApart, Zenon DEF log
<1> QED
  BY <1>3, <1>9, <1>10, QuietCall

\* Nor do flash loans.
LEMMA FlashOutTells ==
    ASSUME NEW c, Sound(c), NEW amount \in Nat, NEW d \in FlashOut(c, amount)
    PROVE  Told(c, d)
<1> DEFINE log == {Payment("hToken", "receiver", amount)}
           outcome == [c EXCEPT !.flash = @ + amount, !.cash = @ - amount, !.log = log]
<1>1. d = outcome
  BY Passed, Zenon DEF FlashOut
<1>2. Sound(d) /\ DOMAIN c = Stored
  <2>1. Keeps(c, d)
    BY FlashOutKeeps
  <2> QED BY <2>1 DEF Keeps, Sound, IsChain
<1> HIDE DEF log
<1>3. d.h = c.h /\ d.v = c.v /\ d.s = c.s /\ d.log = log
  BY <1>1, <1>2, Zenon DEF Stored
<1>4. \A token : token # "underlying" => Transfers(d.log, token) = {}
  BY <1>3, PaymentsApart, Zenon DEF log
<1> QED
  BY <1>2, <1>3, <1>4, QuietCall

\* Nor their repayment.
LEMMA FlashBackTells ==
    ASSUME NEW c, Sound(c), NEW amount \in Nat, NEW d \in FlashBack(c, amount)
    PROVE  Told(c, d)
<1> DEFINE u == UpdateState(c)
           premium == PercentMul(amount, FlashPremium)
           toProtocol == PercentMul(premium, PremiumToProtocol)
           earned == Cumulate(u, premium - toProtocol, toProtocol)
           returned == amount + premium
           r == SetRates(earned, StableSupply(u), returned, 0)
           log == {Payment("receiver", "hToken", returned)}
           outcome == [r EXCEPT !.flash = @ - amount, !.cash = @ + returned, !.log = log]
<1>1. d = outcome
  BY Passed, Zenon DEF FlashBack
<1>2. Fresh(u) /\ u.h = c.h /\ u.v = c.v /\ u.s = c.s
  BY UpdatedTokens
<1>3. Sound(d)
  BY FlashBackKeeps DEF Keeps
<1> HIDE DEF u, premium, toProtocol, returned, log
<1>4. DOMAIN u = Stored
  BY <1>2, FreshTypes
<1>5. SameBut(u, earned, {"li", "accrued"})
  BY <1>4, Zenon DEF Cumulate, SameBut, Stored
<1> HIDE DEF earned
<1>6. SameBut(earned, r, {"liquidityRate", "stableRate", "variableRate"})
  <2>1. DOMAIN earned = Stored
    BY <1>5 DEF SameBut
  <2> QED BY <2>1, RatesFields
<1> HIDE DEF r
<1>7. SameBut(r, d, {"flash", "cash", "log"}) /\ d.log = log
  BY <1>1, <1>6, Zenon DEF SameBut, Stored
<1>8. d.h = c.h /\ d.v = c.v /\ d.s = c.s
  BY <1>2, <1>5, <1>6, <1>7, Zenon DEF SameBut, Stored
<1>9. \A token : token # "underlying" => Transfers(d.log, token) = {}
  BY <1>7, PaymentsApart, Zenon DEF log
<1> QED
  BY <1>3, <1>8, <1>9, QuietCall

-----------------------------------------------------------------------------
(* The surplus: what a reserve is worth beyond what it owes.               *)

\* The treasury's share that the next update will mint.
Pending(c) ==
    IF c.lastUpdate = c.now THEN 0 ELSE RayDiv(TreasuryShare(c), NormalizedIncome(c))

\* A call moves assets and claims alike, but for the slack.
Balanced(c, d) == Surplus(d) - Surplus(c) \in -CallSlack(d) .. CallSlack(d)

\* The slack of a call leaves room for that of each scaled token.
LEMMA CallSlackRoom ==
    ASSUME NEW d, Sound(d), Claims(d) \in Nat
    PROVE  /\ Slack(NormalizedIncome(d)) \in Nat /\ Slack(NormalizedDebt(d)) \in Nat \ {0}
           /\ CallSlack(d) \in Nat
           /\ (NormalizedIncome(d) + Claims(d)) \div RAY \in Nat
           /\ CallSlack(d) = Slack(NormalizedIncome(d)) + Slack(NormalizedDebt(d))
                               + (NormalizedIncome(d) + Claims(d)) \div RAY
<1>1. NormalizedIncome(d) \in Nat /\ NormalizedDebt(d) \in Nat
  BY IndexesGrow DEF Sound
<1>2. Slack(NormalizedIncome(d)) \in Nat /\ Slack(NormalizedDebt(d)) \in Nat
  BY <1>1, SlackRoom
<1>3. Slack(NormalizedDebt(d)) # 0
  <2>1. NormalizedDebt(d) \div (2 * RAY) \in Nat
    <3>1. 2 * RAY \in Nat \ {0}
      BY HalfRay, SMT
    <3> QED BY <1>1, <3>1, DivType, Zenon
  <2> QED BY <2>1, SMT DEF Slack
<1>4. (NormalizedIncome(d) + Claims(d)) \div RAY \in Nat
  <2>1. NormalizedIncome(d) + Claims(d) \in Nat
    BY <1>1, SMT
  <2> QED BY <2>1, HalfRay, DivType, Zenon
<1>5. CallSlack(d) = Slack(NormalizedIncome(d)) + Slack(NormalizedDebt(d))
                       + (NormalizedIncome(d) + Claims(d)) \div RAY
  BY Zenon DEF CallSlack
<1> QED
  BY <1>2, <1>3, <1>4, <1>5, SMT

\* Claims, and the present value of every debt, are naturals.
LEMMA ClaimsDue ==
    ASSUME NEW c, Sound(c)
    PROVE  /\ Pending(c) \in Nat /\ c.h.total \in Nat /\ c.accrued \in Nat
           /\ NormalizedIncome(c) \in Nat \ {0} /\ NormalizedIncome(c) >= RAY
           /\ Claims(c) \in Nat
           /\ Claims(c) = RayMul(c.h.total + c.accrued + Pending(c), NormalizedIncome(c))
<1> DEFINE u == UpdateState(c)
           i == NormalizedIncome(c)
<1>1. /\ c.h.total \in Nat /\ c.accrued \in Nat /\ DOMAIN c = Stored
      /\ c.li \in Nat /\ c.li >= RAY
  BY DEF Sound, IsChain, ScaledTokens
<1>2. i \in Nat \ {0} /\ i >= RAY
  <2>1. i \in Nat /\ i >= c.li
    BY IndexesGrow DEF Sound
  <2> HIDE DEF i
  <2> QED BY <1>1, <2>1, HalfRay, SMT
<1>3. Pending(c) \in Nat
  <2>1. TreasuryShare(c) \in Nat
    BY ShareType DEF Sound
  <2>2. RayDiv(TreasuryShare(c), i) \in Nat
    BY <1>2, <2>1, RayDivType
  <2> QED BY <2>2, Zenon DEF Pending
<1>4. /\ u.h = c.h /\ u.li = i /\ u.accrued = c.accrued + Pending(c)
  <2>1. CASE c.lastUpdate = c.now
    <3>1. u = c /\ Pending(c) = 0 /\ i = c.li
      BY <2>1, Zenon DEF UpdateState, Pending, NormalizedIncome
    <3>2. c.accrued = c.accrued + 0
      BY <1>1, SMT
    <3> QED BY <3>1, <3>2, Zenon
  <2>2. CASE c.lastUpdate # c.now
    <3>1. Pending(c) = RayDiv(TreasuryShare(c), NormalizedIncome(c))
      BY <2>2, Zenon DEF Pending
    <3>2. u = [c EXCEPT !.li = NormalizedIncome(c), !.vi = NextDebtIndex(c),
                        !.accrued = @ + RayDiv(TreasuryShare(c), NormalizedIncome(c)),
                        !.lastUpdate = c.now]
      BY <2>2, Zenon DEF UpdateState
    <3> HIDE DEF u
    <3> QED BY <1>1, <3>1, <3>2, Zenon DEF Stored
  <2> QED BY <2>1, <2>2
<1>5. Claims(c) = RayMul(u.h.total + u.accrued, u.li)
  BY Zenon DEF Claims
<1> HIDE DEF u, i
<1>6. u.h.total + u.accrued = c.h.total + c.accrued + Pending(c)
      /\ c.h.total + c.accrued + Pending(c) \in Nat
  <2>1. u.h.total = c.h.total
    BY <1>4
  <2> QED BY <1>1, <1>3, <1>4, <2>1, SMT
<1>7. Claims(c) = RayMul(c.h.total + c.accrued + Pending(c), i)
  BY <1>4, <1>5, <1>6
<1>8. Claims(c) \in Nat
  BY <1>2, <1>6, <1>7, RayMulType
<1> QED
  BY <1>1, <1>2, <1>3, <1>7, <1>8 DEF i

\* The debts of all accounts, as functions and sums.
LEMMA DebtsTyped ==
    ASSUME NEW c, Sound(c)
    PROVE  /\ [x \in User |-> StableBalance(c, x)] \in [User -> Nat]
           /\ [x \in User |-> VariableBalance(c, x)] \in [User -> Nat]
           /\ StableDebts(c) \in Nat /\ VariableDebts(c) \in Nat
<1>1. ASSUME NEW x \in User PROVE StableBalance(c, x) \in Nat /\ VariableBalance(c, x) \in Nat
  <2>1. StableBalance(c, x) \in Nat
    BY StableType DEF Sound
  <2>2. c.v.scaled[x] \in Nat
    BY DEF Sound, IsChain, ScaledTokens
  <2>3. NormalizedDebt(c) \in Nat
    BY IndexesGrow DEF Sound
  <2> QED BY <2>1, <2>2, <2>3, RayMulType DEF VariableBalance
<1>2. /\ [x \in User |-> StableBalance(c, x)] \in [User -> Nat]
      /\ [x \in User |-> VariableBalance(c, x)] \in [User -> Nat]
  BY <1>1
<1>3. StableDebts(c) \in Nat
  BY <1>2, AccountsFinite, TotalType DEF StableDebts
<1>4. VariableDebts(c) \in Nat
  BY <1>2, AccountsFinite, TotalType DEF VariableDebts
<1> QED
  BY <1>2, <1>3, <1>4

\* Stable debts depend on their token and the time, variable debts on theirs
\* and its index.
LEMMA SameStable ==
    ASSUME NEW c, NEW d, d.s = c.s, d.now = c.now
    PROVE  StableDebts(d) = StableDebts(c)
<1>1. \A x \in User : StableBalance(d, x) = StableBalance(c, x)
  BY Zenon DEF StableBalance
<1>2. [x \in User |-> StableBalance(d, x)] = [x \in User |-> StableBalance(c, x)]
  BY <1>1, Zenon
<1> QED
  BY <1>2, Zenon DEF StableDebts

\* The variable debts follow the scaled tokens and their index.
LEMMA SameVariable ==
    ASSUME NEW c, NEW d, d.v = c.v, NormalizedDebt(d) = NormalizedDebt(c)
    PROVE  VariableDebts(d) = VariableDebts(c)
<1>1. \A x \in User : VariableBalance(d, x) = VariableBalance(c, x)
  BY Zenon DEF VariableBalance
<1>2. [x \in User |-> VariableBalance(d, x)] = [x \in User |-> VariableBalance(c, x)]
  BY <1>1, Zenon
<1> QED
  BY <1>2, Zenon DEF VariableDebts

\* updateState realises what has accrued: the surplus is the same before and after.
LEMMA UpdateBalances ==
    ASSUME NEW c, Sound(c), NEW u, u = UpdateState(c)
    PROVE  Surplus(u) = Surplus(c)
<1>1. Fresh(u) /\ SameBut(c, u, {"li", "vi", "accrued", "lastUpdate"})
  BY Updated
<1>2. CASE c.lastUpdate = c.now
  BY <1>2, Zenon DEF UpdateState
<1>3. CASE c.lastUpdate # c.now
  <2>1. /\ u.s = c.s /\ u.now = c.now /\ u.v = c.v /\ u.cash = c.cash
        /\ u.flash = c.flash /\ u.unbacked = c.unbacked
    BY <1>1, Zenon DEF SameBut, Stored
  <2>2. UpdateState(u) = u
    BY <1>1, Zenon DEF UpdateState, Fresh
  <2>3. Claims(u) = Claims(c)
    BY <2>2, Zenon DEF Claims
  <2>4. StableDebts(u) = StableDebts(c)
    BY <2>1, SameStable
  <2>5. VariableDebts(u) = VariableDebts(c)
    <3>1. CASE c.v.total = 0
      <4>1. c.v.scaled \in [User -> Nat] /\ SumFunction(c.v.scaled) = 0
        BY <3>1 DEF Sound, IsChain, ScaledTokens, Adds
      <4>2. ASSUME NEW x \in User PROVE c.v.scaled[x] = 0
        <5>1. c.v.scaled[x] <= SumFunction(c.v.scaled)
          BY <4>1, AccountsFinite, TotalBounds
        <5>2. c.v.scaled[x] \in Nat
          BY <4>1
        <5> QED BY <4>1, <5>1, <5>2, SMT
      <4>3. NormalizedDebt(c) \in Nat /\ NormalizedDebt(u) \in Nat
        BY <1>1, IndexesGrow DEF Fresh, Sound
      <4>4. \A x \in User : VariableBalance(u, x) = VariableBalance(c, x)
        BY <2>1, <4>2, <4>3, RayMulZero DEF VariableBalance
      <4>5. [x \in User |-> VariableBalance(u, x)] = [x \in User |-> VariableBalance(c, x)]
        BY <4>4, Zenon
      <4> QED BY <4>5, Zenon DEF VariableDebts
    <3>2. CASE c.v.total # 0
      <4>1. u.vi = NextDebtIndex(c)
        <5>1. u = [c EXCEPT !.li = NormalizedIncome(c), !.vi = NextDebtIndex(c),
                        !.accrued = @ + RayDiv(TreasuryShare(c), NormalizedIncome(c)),
                        !.lastUpdate = c.now]
          BY <1>3, Zenon DEF UpdateState
        <5>2. DOMAIN c = Stored
          BY DEF Sound, IsChain
        <5> QED BY <5>1, <5>2, Zenon DEF Stored
      <4>2. NormalizedDebt(u) = u.vi
        BY <1>1, Presented DEF Fresh
      <4>3. NormalizedDebt(u) = NormalizedDebt(c)
        BY <3>2, <4>1, <4>2, Zenon DEF NextDebtIndex
      <4> QED BY <2>1, <4>3, SameVariable
    <3> QED BY <3>1, <3>2
  <2> QED BY <2>1, <2>3, <2>4, <2>5, Zenon DEF Surplus, Assets
<1> QED
  BY <1>2, <1>3

\* The books of two chains, from how each kind of asset and the claims differ.
LEMMA BooksBalance ==
    ASSUME NEW c, Sound(c), NEW d, Sound(d),
           NEW stable \in Int, NEW variable \in Int, NEW claim \in Int,
           NEW j \in Nat, NEW k \in Nat, j + k <= CallSlack(d),
           StableDebts(d) = StableDebts(c) + stable,
           VariableDebts(d) - VariableDebts(c) - variable \in -j .. j,
           Claims(d) - Claims(c) - claim \in -k .. k,
           d.cash + d.flash + d.unbacked + stable + variable
              = c.cash + c.flash + c.unbacked + claim
    PROVE  Balanced(c, d)
<1>1. /\ c.cash \in Nat /\ c.flash \in Nat /\ c.unbacked \in Nat
      /\ d.cash \in Nat /\ d.flash \in Nat /\ d.unbacked \in Nat
  <2>1. c.unbacked \in 0 .. UnbackedCap /\ d.unbacked \in 0 .. UnbackedCap /\ UnbackedCap \in Nat
    BY ReserveAssumption DEF Sound, IsChain
  <2>2. c.unbacked \in Nat /\ d.unbacked \in Nat
    BY <2>1, SMT
  <2> QED BY <2>2 DEF Sound, IsChain
<1>2. /\ StableDebts(c) \in Nat /\ VariableDebts(c) \in Nat /\ Claims(c) \in Nat
      /\ StableDebts(d) \in Nat /\ VariableDebts(d) \in Nat /\ Claims(d) \in Nat
  BY DebtsTyped, ClaimsDue
<1>3. CallSlack(d) \in Nat
  BY <1>2, CallSlackRoom
<1>4. /\ Surplus(c) = (c.cash + c.flash + c.unbacked + StableDebts(c) + VariableDebts(c)) - Claims(c)
      /\ Surplus(d) = (d.cash + d.flash + d.unbacked + StableDebts(d) + VariableDebts(d)) - Claims(d)
  BY Zenon DEF Surplus, Assets
<1>5. Surplus(d) - Surplus(c) \in -CallSlack(d) .. CallSlack(d)
  BY <1>1, <1>2, <1>3, <1>4, SMT
<1> QED
  BY <1>5 DEF Balanced

\* Two present chains at the same time, with the same indexes.
Alike(u, d) == Fresh(u) /\ Fresh(d) /\ d.li = u.li /\ d.vi = u.vi /\ d.now = u.now

\* What the claims and the slack of a present chain are.
LEMMA PresentClaims ==
    ASSUME NEW d, Fresh(d)
    PROVE  /\ Claims(d) = RayMul(d.h.total + d.accrued, d.li)
           /\ Claims(d) \in Nat /\ d.h.total + d.accrued \in Nat
           /\ CallSlack(d) \in Nat
           /\ Slack(d.li) \in Nat /\ Slack(d.vi) \in Nat
           /\ Slack(d.li) + Slack(d.vi) <= CallSlack(d)
<1>1. Sound(d) /\ NormalizedIncome(d) = d.li /\ NormalizedDebt(d) = d.vi
  BY Presented DEF Fresh
<1>2. UpdateState(d) = d
  BY Zenon DEF UpdateState, Fresh
<1>3. Claims(d) = RayMul(d.h.total + d.accrued, d.li)
  BY <1>2, Zenon DEF Claims
<1>4. Claims(d) \in Nat /\ d.h.total \in Nat /\ d.accrued \in Nat
  BY <1>1, ClaimsDue
<1>5. d.h.total + d.accrued \in Nat
  BY <1>4, SMT
<1>6. /\ Slack(d.li) \in Nat /\ Slack(d.vi) \in Nat /\ CallSlack(d) \in Nat
      /\ (d.li + Claims(d)) \div RAY \in Nat
      /\ CallSlack(d) = Slack(d.li) + Slack(d.vi) + (d.li + Claims(d)) \div RAY
  <2>1. /\ Slack(d.li) \in Nat /\ Slack(d.vi) \in Nat \ {0} /\ CallSlack(d) \in Nat
        /\ (d.li + Claims(d)) \div RAY \in Nat
        /\ CallSlack(d) = Slack(d.li) + Slack(d.vi) + (d.li + Claims(d)) \div RAY
    BY <1>1, <1>4, CallSlackRoom
  <2> QED BY <2>1
<1>7. Slack(d.li) + Slack(d.vi) <= CallSlack(d)
  BY <1>6, SMT
<1> QED
  BY <1>3, <1>4, <1>5, <1>6, <1>7

\* The debts of all accounts move as that of the one account that changes.
LEMMA VariableMoves ==
    ASSUME NEW c, Sound(c), NEW d, Sound(d), NEW w \in User, NEW i \in Nat,
           NormalizedDebt(c) = i, NormalizedDebt(d) = i,
           \A y \in User : y # w => d.v.scaled[y] = c.v.scaled[y]
    PROVE  VariableDebts(d)
             = VariableDebts(c) - RayMul(c.v.scaled[w], i) + RayMul(d.v.scaled[w], i)
<1> DEFINE f == [x \in User |-> VariableBalance(c, x)]
           g == [x \in User |-> VariableBalance(d, x)]
<1>1. f \in [User -> Nat] /\ g \in [User -> Nat]
  BY DebtsTyped
<1>2. ASSUME NEW y \in User, y # w PROVE g[y] = f[y]
  BY <1>2 DEF VariableBalance
<1>3. f[w] = RayMul(c.v.scaled[w], i) /\ g[w] = RayMul(d.v.scaled[w], i)
  BY DEF VariableBalance
<1>4. VariableDebts(c) = SumFunction(f) /\ VariableDebts(d) = SumFunction(g)
  BY Zenon DEF VariableDebts
<1> HIDE DEF f, g
<1>5. SumFunction(g) = SumFunction(f) - f[w] + g[w]
  BY <1>1, <1>2, AccountsFinite, BalanceChange
<1> QED
  BY <1>3, <1>4, <1>5, Zenon

\* The stable debts, as one account's debt changes.
LEMMA StableMoves ==
    ASSUME NEW c, Sound(c), NEW d, Sound(d), NEW w \in User,
           \A y \in User : y # w => StableBalance(d, y) = StableBalance(c, y)
    PROVE  StableDebts(d)
             = StableDebts(c) - StableBalance(c, w) + StableBalance(d, w)
<1> DEFINE f == [x \in User |-> StableBalance(c, x)]
           g == [x \in User |-> StableBalance(d, x)]
<1>1. f \in [User -> Nat] /\ g \in [User -> Nat]
  BY DebtsTyped
<1>2. ASSUME NEW y \in User, y # w PROVE g[y] = f[y]
  BY <1>2
<1>3. f[w] = StableBalance(c, w) /\ g[w] = StableBalance(d, w)
  OBVIOUS
<1>4. StableDebts(c) = SumFunction(f) /\ StableDebts(d) = SumFunction(g)
  BY Zenon DEF StableDebts
<1> HIDE DEF f, g
<1>5. SumFunction(g) = SumFunction(f) - f[w] + g[w]
  BY <1>1, <1>2, AccountsFinite, BalanceChange
<1> QED
  BY <1>3, <1>4, <1>5, Zenon

\* A scaled token minted or burnt within a balance or total: its value moves by
\* the amount, but for the slack.
LEMMA ValueMinted ==
    ASSUME NEW s \in Nat, NEW t, NEW amount \in Nat, NEW index \in Nat \ {0},
           t = s + RayDiv(amount, index)
    PROVE  /\ t \in Nat /\ RayMul(t, index) \in Nat /\ RayMul(s, index) \in Nat
           /\ RayMul(t, index) - RayMul(s, index) - amount \in -Slack(index) .. Slack(index)
<1> DEFINE x == RayDiv(amount, index)
<1>1. x \in Nat
  BY RayDivType, Zenon
<1>2. amount - (RayMul(s + x, index) - RayMul(s, index)) \in -Slack(index) .. Slack(index)
  BY ScaledMoves, Zenon
<1> HIDE DEF x
<1>3. t = s + x /\ t \in Nat
  <2>1. s + x \in Nat
    BY <1>1, SMT
  <2> QED BY <2>1 DEF x
<1>4. RayMul(t, index) \in Nat /\ RayMul(s, index) \in Nat /\ Slack(index) \in Nat
  BY <1>3, RayMulType, SlackRoom
<1>5. RayMul(t, index) - RayMul(s, index) - amount \in -Slack(index) .. Slack(index)
  BY <1>2, <1>3, <1>4, SMT
<1> QED
  BY <1>3, <1>4, <1>5

\* The same for a scaled token burnt.
LEMMA ValueBurnt ==
    ASSUME NEW s \in Nat, NEW t, NEW amount \in Nat, NEW index \in Nat \ {0},
           t = s - RayDiv(amount, index), RayDiv(amount, index) <= s
    PROVE  /\ t \in Nat /\ RayMul(t, index) \in Nat /\ RayMul(s, index) \in Nat
           /\ RayMul(t, index) - RayMul(s, index) - (-amount) \in -Slack(index) .. Slack(index)
<1> DEFINE x == RayDiv(amount, index)
<1>1. x \in Nat
  BY RayDivType, Zenon
<1>2. t \in Nat /\ s = t + x
  <2> HIDE DEF x
  <2>1. t = s - x /\ x <= s
    BY DEF x
  <2> QED BY <1>1, <2>1, SMT
<1>3. /\ RayMul(t, index) \in Nat /\ RayMul(s, index) \in Nat /\ Slack(index) \in Nat
      /\ RayMul(s, index) - RayMul(t, index) - amount \in -Slack(index) .. Slack(index)
  BY <1>2, ValueMinted, SlackRoom
<1>4. RayMul(t, index) - RayMul(s, index) - (-amount) \in -Slack(index) .. Slack(index)
  BY <1>3, SMT
<1> QED
  BY <1>2, <1>3, <1>4

\* One amount moves by another, but for the slack.
MovesBy(x, y, amount, slack) == (y - x) - amount \in -slack .. slack

\* Variable debt minted or burnt.
LEMMA VariableMinted ==
    ASSUME NEW u, NEW d, Alike(u, d), NEW w \in User, NEW amount \in Nat,
           d.v = MintScaled(u.v, w, amount, u.vi)
    PROVE  MovesBy(VariableDebts(u), VariableDebts(d), amount, Slack(u.vi))
<1> DEFINE s == u.v.scaled[w]
           t == d.v.scaled[w]
           i == u.vi
<1>1. /\ u.v.scaled \in [User -> Nat] /\ s \in Nat /\ i \in Nat \ {0}
      /\ Sound(u) /\ Sound(d)
  BY FreshTypes DEF Alike, Fresh, ScaledTokens
<1>2. NormalizedDebt(u) = i /\ NormalizedDebt(d) = i
  BY Presented DEF Alike, Fresh
<1>3. d.v.scaled = [u.v.scaled EXCEPT ![w] = s + RayDiv(amount, i)]
  <2>1. d.v = [scaled |-> [u.v.scaled EXCEPT ![w] = s + RayDiv(amount, i)],
               index |-> [u.v.index EXCEPT ![w] = i], total |-> u.v.total + RayDiv(amount, i)]
    BY Zenon DEF MintScaled
  <2> QED BY <2>1, SMT
<1>4. t = s + RayDiv(amount, i) /\ \A y \in User : y # w => d.v.scaled[y] = u.v.scaled[y]
  BY <1>1, <1>3
<1>5. VariableDebts(d) = VariableDebts(u) - RayMul(s, i) + RayMul(t, i)
  BY <1>1, <1>2, <1>4, VariableMoves
<1> HIDE DEF s, t, i
<1>6. /\ RayMul(t, i) \in Nat /\ RayMul(s, i) \in Nat
      /\ RayMul(t, i) - RayMul(s, i) - amount \in -Slack(i) .. Slack(i)
  BY <1>1, <1>4, ValueMinted
<1>7. VariableDebts(u) \in Nat
  BY <1>1, DebtsTyped
<1>8. VariableDebts(d) - VariableDebts(u) - amount = RayMul(t, i) - RayMul(s, i) - amount
  BY <1>5, <1>6, <1>7, SMT
<1> QED
  BY <1>6, <1>8, Zenon DEF i, MovesBy

\* Variable debt repaid.
LEMMA VariableBurnt ==
    ASSUME NEW u, NEW d, Alike(u, d), NEW w \in User, NEW amount \in Nat,
           CanBurn(u.v, w, amount, u.vi), d.v = BurnScaled(u.v, w, amount, u.vi)
    PROVE  MovesBy(VariableDebts(u), VariableDebts(d), -amount, Slack(u.vi))
<1> DEFINE s == u.v.scaled[w]
           t == d.v.scaled[w]
           i == u.vi
<1>1. /\ u.v.scaled \in [User -> Nat] /\ s \in Nat /\ i \in Nat \ {0}
      /\ Sound(u) /\ Sound(d)
  BY FreshTypes DEF Alike, Fresh, ScaledTokens
<1>2. NormalizedDebt(u) = i /\ NormalizedDebt(d) = i
  BY Presented DEF Alike, Fresh
<1>3. d.v.scaled = [u.v.scaled EXCEPT ![w] = s - RayDiv(amount, i)] /\ RayDiv(amount, i) <= s
  <2>1. d.v = [scaled |-> [u.v.scaled EXCEPT ![w] = s - RayDiv(amount, i)],
               index |-> [u.v.index EXCEPT ![w] = i], total |-> u.v.total - RayDiv(amount, i)]
    BY Zenon DEF BurnScaled
  <2>2. RayDiv(amount, i) <= s
    BY Zenon DEF CanBurn
  <2> QED BY <2>1, <2>2, SMT
<1>4. t = s - RayDiv(amount, i) /\ \A y \in User : y # w => d.v.scaled[y] = u.v.scaled[y]
  BY <1>1, <1>3
<1>5. VariableDebts(d) = VariableDebts(u) - RayMul(s, i) + RayMul(t, i)
  BY <1>1, <1>2, <1>4, VariableMoves
<1> HIDE DEF s, t, i
<1>6. /\ RayMul(t, i) \in Nat /\ RayMul(s, i) \in Nat
      /\ RayMul(t, i) - RayMul(s, i) - (-amount) \in -Slack(i) .. Slack(i)
  BY <1>1, <1>3, <1>4, ValueBurnt
<1>7. VariableDebts(u) \in Nat
  BY <1>1, DebtsTyped
<1>8. VariableDebts(d) - VariableDebts(u) - (-amount) = RayMul(t, i) - RayMul(s, i) - (-amount)
  BY <1>5, <1>6, <1>7, SMT
<1> QED
  BY <1>6, <1>8, Zenon DEF i, MovesBy

\* A stable debt stamped with the present is its principal.
LEMMA StampedNow ==
    ASSUME NEW d, NEW w, d.s.stamp[w] = d.now, d.now \in Nat, d.s.principal[w] \in Nat
    PROVE  StableBalance(d, w) = d.s.principal[w]
<1>1. d.now - d.s.stamp[w] = 0
  BY SMT
<1>2. CompoundedInterest(d.s.rate[w], d.now - d.s.stamp[w]) = RAY
  BY <1>1, Zenon DEF CompoundedInterest
<1>3. RayMul(d.s.principal[w], RAY) = d.s.principal[w]
  BY RayIsOne
<1> QED
  BY <1>2, <1>3, Zenon DEF StableBalance

\* Stable debt minted or burnt, exactly.
LEMMA StableMinted ==
    ASSUME NEW u, NEW d, Alike(u, d), NEW w \in User, NEW amount \in Nat, NEW rate,
           d.s = MintStable(u, w, amount, rate)
    PROVE  MovesBy(StableDebts(u), StableDebts(d), amount, 0)
<1> DEFINE balance == StableBalance(u, w)
<1>1. /\ Sound(u) /\ Sound(d) /\ d.now = u.now /\ u.now \in Nat
      /\ u.s \in StableTokens
  BY FreshTypes DEF Alike, Fresh, Sound, IsChain
<1>2. balance \in Nat /\ balance + amount \in Nat
  <2>1. balance \in Nat
    BY <1>1, StableType DEF Sound
  <2> HIDE DEF balance
  <2> QED BY <2>1, SMT
<1>3. /\ \E own : d.s.rate = [u.s.rate EXCEPT ![w] = own]
      /\ d.s.principal = [u.s.principal EXCEPT ![w] = balance + amount]
      /\ d.s.stamp = [u.s.stamp EXCEPT ![w] = u.now]
  <2> DEFINE own == Weighted(balance, u.s.rate[w], amount, rate)
             total == StableSupply(u) + amount
             avg == Weighted(StableSupply(u), u.s.avg, amount, rate)
  <2>1. d.s = [principal |-> [u.s.principal EXCEPT ![w] = balance + amount],
               rate |-> [u.s.rate EXCEPT ![w] = own],
               stamp |-> [u.s.stamp EXCEPT ![w] = u.now],
               supply |-> total, avg |-> avg, supplyStamp |-> u.now]
    BY Zenon DEF MintStable
  <2> HIDE DEF own, total, avg, balance
  <2>2. /\ d.s.rate = [u.s.rate EXCEPT ![w] = own]
        /\ d.s.principal = [u.s.principal EXCEPT ![w] = balance + amount]
        /\ d.s.stamp = [u.s.stamp EXCEPT ![w] = u.now]
    BY <2>1, SMT
  <2> QED BY <2>2, Zenon
<1>4. /\ u.s.rate \in [User -> Nat] /\ u.s.principal \in [User -> Nat]
      /\ u.s.stamp \in [User -> Nat]
  BY <1>1 DEF StableTokens
<1>5. /\ d.s.principal[w] = balance + amount /\ d.s.stamp[w] = d.now
      /\ \A y \in User : y # w =>
            /\ d.s.rate[y] = u.s.rate[y] /\ d.s.principal[y] = u.s.principal[y]
            /\ d.s.stamp[y] = u.s.stamp[y]
  BY <1>1, <1>3, <1>4
<1>6. StableBalance(d, w) = balance + amount
  BY <1>1, <1>2, <1>5, StampedNow
<1>7. \A y \in User : y # w => StableBalance(d, y) = StableBalance(u, y)
  BY <1>1, <1>5, Zenon DEF StableBalance
<1>8. StableDebts(d) = StableDebts(u) - balance + (balance + amount)
  BY <1>1, <1>6, <1>7, StableMoves
<1>9. StableDebts(u) \in Nat
  BY <1>1, DebtsTyped
<1> HIDE DEF balance
<1> QED
  BY <1>2, <1>8, <1>9, SMT DEF MovesBy

\* Stable debt repaid.
LEMMA StableBurnt ==
    ASSUME NEW u, NEW d, Alike(u, d), NEW w \in User, NEW amount \in Nat,
           amount <= StableBalance(u, w), d.s = BurnStable(u, w, amount)
    PROVE  MovesBy(StableDebts(u), StableDebts(d), -amount, 0)
<1> DEFINE balance == StableBalance(u, w)
<1>1. /\ Sound(u) /\ Sound(d) /\ d.now = u.now /\ u.now \in Nat
      /\ u.s \in StableTokens
  BY FreshTypes DEF Alike, Fresh, Sound, IsChain
<1>2. balance \in Nat /\ balance - amount \in Nat
  <2>1. balance \in Nat /\ amount <= balance
    BY <1>1, StableType DEF Sound
  <2> HIDE DEF balance
  <2> QED BY <2>1, SMT
<1>3. /\ \E own : d.s.rate = [u.s.rate EXCEPT ![w] = own]
      /\ d.s.principal = [u.s.principal EXCEPT ![w] = balance - amount]
      /\ \E stamp : /\ d.s.stamp = [u.s.stamp EXCEPT ![w] = stamp]
                    /\ stamp = IF amount = balance THEN 0 ELSE u.now
  <2> DEFINE own == IF amount = balance THEN 0 ELSE u.s.rate[w]
             stamp == IF amount = balance THEN 0 ELSE u.now
             burnt == BurntStable(u, w, amount)
  <2>1. d.s = [principal |-> [u.s.principal EXCEPT ![w] = balance - amount],
               rate |-> [u.s.rate EXCEPT ![w] = own],
               stamp |-> [u.s.stamp EXCEPT ![w] = stamp],
               supply |-> burnt.kept, avg |-> burnt.avg, supplyStamp |-> u.now]
    BY Zenon DEF BurnStable
  <2> HIDE DEF burnt, balance
  <2>2. stamp = IF amount = balance THEN 0 ELSE u.now
    OBVIOUS
  <2> HIDE DEF own, stamp
  <2>3. /\ d.s.rate = [u.s.rate EXCEPT ![w] = own]
        /\ d.s.principal = [u.s.principal EXCEPT ![w] = balance - amount]
        /\ d.s.stamp = [u.s.stamp EXCEPT ![w] = stamp]
    BY <2>1, SMT
  <2> QED BY <2>2, <2>3, Zenon
<1>4. /\ u.s.rate \in [User -> Nat] /\ u.s.principal \in [User -> Nat]
      /\ u.s.stamp \in [User -> Nat]
  BY <1>1 DEF StableTokens
<1> HIDE DEF balance
<1>5. /\ d.s.principal[w] = balance - amount
      /\ amount # balance => d.s.stamp[w] = d.now
      /\ \A y \in User : y # w =>
            /\ d.s.rate[y] = u.s.rate[y] /\ d.s.principal[y] = u.s.principal[y]
            /\ d.s.stamp[y] = u.s.stamp[y]
  BY <1>1, <1>3, <1>4
<1>6. StableBalance(d, w) = balance - amount
  <2>1. CASE amount = balance
    <3>1. balance - amount = 0
      BY <1>2, <2>1, SMT
    <3> QED BY <1>5, <3>1, Zenon DEF StableBalance
  <2>2. CASE amount # balance
    BY <1>1, <1>2, <1>5, <2>2, StampedNow
  <2> QED BY <2>1, <2>2
<1>7. \A y \in User : y # w => StableBalance(d, y) = StableBalance(u, y)
  BY <1>1, <1>5, Zenon DEF StableBalance
<1>8. StableDebts(d) = StableDebts(u) - balance + (balance - amount)
  BY <1>1, <1>6, <1>7, StableMoves DEF balance
<1>9. StableDebts(u) \in Nat
  BY <1>1, DebtsTyped
<1> QED
  BY <1>2, <1>8, <1>9, SMT DEF MovesBy

\* hTokens minted or burnt.
LEMMA ClaimsMinted ==
    ASSUME NEW u, NEW d, Alike(u, d), d.accrued = u.accrued,
           NEW w \in Account, NEW amount \in Nat, d.h = MintScaled(u.h, w, amount, u.li)
    PROVE  MovesBy(Claims(u), Claims(d), amount, Slack(u.li))
<1> DEFINE s == u.h.total + u.accrued
           t == d.h.total + d.accrued
           x == RayDiv(amount, u.li)
<1>1. u.li \in Nat \ {0} /\ u.accrued \in Nat /\ u.h.total \in Nat /\ d.li = u.li
  BY FreshTypes DEF Alike, ScaledTokens
<1>2. /\ Claims(u) = RayMul(s, u.li) /\ Claims(d) = RayMul(t, u.li) /\ s \in Nat
      /\ Claims(u) \in Nat /\ Claims(d) \in Nat
  BY <1>1, PresentClaims DEF Alike
<1>3. d.h.total = u.h.total + x
  <2>1. d.h = [scaled |-> [u.h.scaled EXCEPT ![w] = u.h.scaled[w] + x],
               index |-> [u.h.index EXCEPT ![w] = u.li], total |-> u.h.total + x]
    BY Zenon DEF MintScaled
  <2> HIDE DEF x
  <2> QED BY <2>1, SMT
<1>4. x \in Nat
  BY <1>1, RayDivType
<1> HIDE DEF x
<1>5. t = s + x
  BY <1>1, <1>3, <1>4, SMT
<1> HIDE DEF s, t
<1> QED
  BY <1>1, <1>2, <1>5, ValueMinted DEF x, MovesBy

\* hTokens burnt.
LEMMA ClaimsBurnt ==
    ASSUME NEW u, NEW d, Alike(u, d), d.accrued = u.accrued,
           NEW w \in Account, NEW amount \in Nat, CanBurn(u.h, w, amount, u.li),
           d.h = BurnScaled(u.h, w, amount, u.li)
    PROVE  MovesBy(Claims(u), Claims(d), -amount, Slack(u.li))
<1> DEFINE s == u.h.total + u.accrued
           t == d.h.total + d.accrued
           x == RayDiv(amount, u.li)
<1>1. u.li \in Nat \ {0} /\ u.accrued \in Nat /\ u.h.total \in Nat /\ d.li = u.li
  BY FreshTypes DEF Alike, ScaledTokens
<1>2. /\ Claims(u) = RayMul(s, u.li) /\ Claims(d) = RayMul(t, u.li) /\ s \in Nat
      /\ Claims(u) \in Nat /\ Claims(d) \in Nat
  BY <1>1, PresentClaims DEF Alike
<1>3. d.h.total = u.h.total - x /\ x <= u.h.total
  <2>1. d.h = [scaled |-> [u.h.scaled EXCEPT ![w] = u.h.scaled[w] - x],
               index |-> [u.h.index EXCEPT ![w] = u.li], total |-> u.h.total - x]
    BY Zenon DEF BurnScaled
  <2>2. x <= u.h.total
    BY Zenon DEF CanBurn
  <2> HIDE DEF x
  <2> QED BY <2>1, <2>2, SMT
<1>4. x \in Nat
  BY <1>1, RayDivType
<1> HIDE DEF x
<1>5. t = s - x /\ x <= s
  BY <1>1, <1>3, <1>4, SMT
<1> HIDE DEF s, t
<1> QED
  BY <1>1, <1>2, <1>5, ValueBurnt DEF x, MovesBy

\* What a call does not touch does not move.
LEMMA Still ==
    ASSUME NEW u, NEW d, Alike(u, d)
    PROVE  /\ d.s = u.s => MovesBy(StableDebts(u), StableDebts(d), 0, 0)
           /\ d.v = u.v => MovesBy(VariableDebts(u), VariableDebts(d), 0, Slack(u.vi))
           /\ d.h = u.h /\ d.accrued = u.accrued => MovesBy(Claims(u), Claims(d), 0, Slack(u.li))
<1>1. /\ StableDebts(u) \in Nat /\ VariableDebts(u) \in Nat /\ Claims(u) \in Nat
      /\ Slack(u.li) \in Nat /\ Slack(u.vi) \in Nat
  BY DebtsTyped, PresentClaims DEF Alike, Fresh
<1>2. \A x, k \in Nat : MovesBy(x, x, 0, k)
  BY SMT DEF MovesBy
<1>3. d.s = u.s => StableDebts(d) = StableDebts(u)
  BY SameStable DEF Alike
<1>4. d.v = u.v => VariableDebts(d) = VariableDebts(u)
  <2>1. NormalizedDebt(u) = u.vi /\ NormalizedDebt(d) = u.vi
    BY Presented DEF Alike, Fresh
  <2> QED BY <2>1, SameVariable
<1>5. d.h = u.h /\ d.accrued = u.accrued => Claims(d) = Claims(u)
  <2>1. /\ Claims(u) = RayMul(u.h.total + u.accrued, u.li) /\ d.li = u.li
        /\ Claims(d) = RayMul(d.h.total + d.accrued, d.li)
    BY PresentClaims DEF Alike
  <2> QED BY <2>1, Zenon
<1> QED
  BY <1>1, <1>2, <1>3, <1>4, <1>5

\* The books of two present chains alike: what is owed by borrowers and bridges,
\* and the funds, against what is owed to suppliers.
Entries(u, d, stable, variable, claim) ==
    /\ MovesBy(StableDebts(u), StableDebts(d), stable, 0)
    /\ MovesBy(VariableDebts(u), VariableDebts(d), variable, Slack(u.vi))
    /\ MovesBy(Claims(u), Claims(d), claim, Slack(u.li))

Funds(c) == c.cash + c.flash + c.unbacked

\* Funds are a natural.
LEMMA FundsType == ASSUME NEW c, Sound(c) PROVE Funds(c) \in Nat
<1>1. c.cash \in Nat /\ c.flash \in Nat /\ c.unbacked \in 0 .. UnbackedCap /\ UnbackedCap \in Nat
  BY ReserveAssumption DEF Sound, IsChain
<1> QED
  BY <1>1, SMT DEF Funds

\* A call balances when its entries and the funds agree.
LEMMA EntriesBalance ==
    ASSUME NEW c, Sound(c), NEW u, u = UpdateState(c), NEW d, Alike(u, d),
           NEW stable \in Int, NEW variable \in Int, NEW claim \in Int,
           Entries(u, d, stable, variable, claim),
           Funds(d) + stable + variable = Funds(u) + claim
    PROVE  Balanced(c, d)
<1> DEFINE j == Slack(u.vi)
           k == Slack(u.li)
<1>1. Sound(u) /\ Sound(d)
  BY DEF Alike, Fresh
<1>2. j \in Nat /\ k \in Nat /\ j + k <= CallSlack(d)
  <2>1. Slack(d.vi) = j /\ Slack(d.li) = k
    BY DEF Alike
  <2>2. Slack(d.vi) \in Nat /\ Slack(d.li) \in Nat /\ Slack(d.li) + Slack(d.vi) <= CallSlack(d)
        /\ CallSlack(d) \in Nat
    BY PresentClaims DEF Alike
  <2> HIDE DEF j, k
  <2> QED BY <2>1, <2>2, SMT
<1>3. /\ StableDebts(u) \in Nat /\ VariableDebts(u) \in Nat /\ Claims(u) \in Nat
      /\ StableDebts(d) \in Nat /\ VariableDebts(d) \in Nat /\ Claims(d) \in Nat
  BY <1>1, DebtsTyped, ClaimsDue
<1>4. /\ (StableDebts(d) - StableDebts(u)) - stable \in -0 .. 0
      /\ (VariableDebts(d) - VariableDebts(u)) - variable \in -j .. j
      /\ (Claims(d) - Claims(u)) - claim \in -k .. k
  BY Zenon DEF Entries, MovesBy
<1> HIDE DEF j, k
<1>5. StableDebts(d) = StableDebts(u) + stable
  BY <1>3, <1>4, SMT
<1>6. d.cash + d.flash + d.unbacked + stable + variable = u.cash + u.flash + u.unbacked + claim
  BY Zenon DEF Funds
<1>7. Balanced(u, d)
  BY <1>1, <1>2, <1>4, <1>5, <1>6, BooksBalance
<1>8. Surplus(u) = Surplus(c)
  BY UpdateBalances
<1> QED
  BY <1>7, <1>8, Zenon DEF Balanced

\* Cash that a call brings or takes.
LEMMA CashMoves ==
    ASSUME NEW u, Fresh(u), NEW d, NEW gain \in Int, d.cash = u.cash + gain,
           d.flash = u.flash, d.unbacked = u.unbacked
    PROVE  Funds(d) = Funds(u) + gain /\ Funds(u) \in Nat
<1>1. u.cash \in Nat /\ u.flash \in Nat /\ u.unbacked \in 0 .. UnbackedCap /\ UnbackedCap \in Nat
  BY ReserveAssumption DEF Fresh, Sound, IsChain
<1>2. Funds(u) \in Nat
  BY FundsType DEF Fresh
<1> QED
  BY <1>1, <1>2, SMT DEF Funds

\* A deposit adds as much to the claims as to the cash.
LEMMA SupplyBalances ==
    ASSUME NEW c, Sound(c), NEW by \in User, NEW for \in User, NEW amount \in Nat,
           NEW d \in Supply(c, by, for, amount)
    PROVE  Balanced(c, d)
<1> DEFINE u == UpdateState(c)
           r == SetRates(u, StableSupply(u), amount, 0)
           k == Credit(r, for, amount)
           log == MintEvents("hToken", u.h, by, for, amount, u.li)
                    \cup {Payment(by, "hToken", amount)}
<1>1. d = [k EXCEPT !.cash = @ + amount, !.wallet[by] = @ - amount, !.log = log]
  BY Passed DEF Supply
<1>2. Fresh(u) /\ Sound(d)
  BY Updated, SupplyKeeps DEF Keeps
<1> HIDE DEF u
<1>3. DOMAIN u = Stored /\ u.lastUpdate = u.now
  BY <1>2, FreshTypes DEF Fresh
<1>4. SameBut(u, r, {"liquidityRate", "stableRate", "variableRate"})
  BY <1>3, RatesFields
<1> HIDE DEF r, log
<1>5. SameBut(r, k, {"h", "coll"}) /\ k.h = MintScaled(r.h, for, amount, r.li)
  BY <1>4, Zenon DEF Credit, SameBut, Stored
<1> HIDE DEF k
<1>6. SameBut(k, d, {"cash", "wallet", "log"}) /\ d.cash = k.cash + amount
  BY <1>1, <1>5, Zenon DEF SameBut, Stored
<1>7. /\ d.h = MintScaled(u.h, for, amount, u.li) /\ d.v = u.v /\ d.s = u.s
      /\ d.li = u.li /\ d.vi = u.vi /\ d.now = u.now /\ d.lastUpdate = d.now
      /\ d.accrued = u.accrued /\ d.cash = u.cash + amount
      /\ d.flash = u.flash /\ d.unbacked = u.unbacked
  <2>1. SameBut(u, k, {"liquidityRate", "stableRate", "variableRate", "h", "coll"})
        /\ k.h = MintScaled(u.h, for, amount, u.li)
    BY <1>4, <1>5, Zenon DEF SameBut, Stored
  <2> QED BY <1>3, <1>6, <2>1, Zenon DEF SameBut, Stored
<1>8. Alike(u, d)
  BY <1>2, <1>7 DEF Alike, Fresh
<1>9. Entries(u, d, 0, 0, amount)
  <2>1. for \in Account
    BY DEF Account
  <2> QED BY <1>7, <1>8, <2>1, Still, ClaimsMinted DEF Entries
<1>10. Funds(d) = Funds(u) + amount /\ Funds(u) \in Nat
  BY <1>2, <1>7, CashMoves
<1>11. Funds(d) + 0 + 0 = Funds(u) + amount
  BY <1>10, SMT
<1>12. 0 \in Int /\ amount \in Int
  BY SMT
<1> QED
  BY <1>8, <1>9, <1>11, <1>12, EntriesBalance, Zenon DEF u

\* A withdrawal takes as much from both.
LEMMA WithdrawBalances ==
    ASSUME NEW c, Sound(c), NEW by \in User, NEW amount \in Nat,
           NEW d \in Withdraw(c, by, amount)
    PROVE  Balanced(c, d)
<1> DEFINE u == UpdateState(c)
           balance == RayMul(u.h.scaled[by], u.li)
           taken == IF amount = MAX_UINT_AMOUNT THEN balance ELSE amount
           r == SetRates(u, StableSupply(u), 0, taken)
           log == BurnEvents("hToken", u.h, by, by, taken, u.li)
                    \cup {Payment("hToken", by, taken)}
<1>1. /\ CanBurn(u.h, by, taken, u.li)
      /\ d = [r EXCEPT !.h = BurnScaled(@, by, taken, u.li),
                       !.coll = IF taken = balance THEN @ \ {by} ELSE @,
                       !.cash = @ - taken, !.wallet[by] = @ + taken, !.log = log]
  BY Passed, ZenonT(40) DEF Withdraw
<1>2. Fresh(u) /\ Sound(d)
  BY Updated, WithdrawKeeps DEF Keeps
<1> HIDE DEF u
<1>3. DOMAIN u = Stored /\ u.lastUpdate = u.now /\ u.li \in Nat /\ u.cash \in Nat
      /\ u.h \in ScaledTokens(Account)
  BY <1>2, FreshTypes DEF Fresh
<1>4. by \in Account /\ taken \in Nat
  <2>1. u.h.scaled[by] \in Nat /\ by \in Account
    BY <1>3 DEF ScaledTokens, Account
  <2> QED BY <1>3, <2>1, RayMulType
<1> HIDE DEF taken, balance
<1>5. SameBut(u, r, {"liquidityRate", "stableRate", "variableRate"})
  BY <1>3, RatesFields
<1> HIDE DEF r, log
<1>6. /\ SameBut(r, d, {"h", "coll", "cash", "wallet", "log"})
      /\ d.h = BurnScaled(r.h, by, taken, u.li) /\ d.cash = r.cash - taken
  BY <1>1, <1>5, Zenon DEF SameBut, Stored
<1>7. /\ d.h = BurnScaled(u.h, by, taken, u.li) /\ d.v = u.v /\ d.s = u.s
      /\ d.li = u.li /\ d.vi = u.vi /\ d.now = u.now /\ d.lastUpdate = d.now
      /\ d.accrued = u.accrued /\ d.cash = u.cash - taken
      /\ d.flash = u.flash /\ d.unbacked = u.unbacked
  BY <1>3, <1>5, <1>6, Zenon DEF SameBut, Stored
<1>8. Alike(u, d)
  BY <1>2, <1>7 DEF Alike, Fresh
<1>9. Entries(u, d, 0, 0, -taken)
  BY <1>1, <1>4, <1>7, <1>8, Still, ClaimsBurnt DEF Entries
<1>10. Funds(d) = Funds(u) + (-taken) /\ Funds(u) \in Nat
  <2>1. d.cash = u.cash + (-taken) /\ -taken \in Int
    BY <1>3, <1>4, <1>7, SMT
  <2> QED BY <1>2, <1>7, <2>1, CashMoves
<1>11. Funds(d) + 0 + 0 = Funds(u) + (-taken) /\ 0 \in Int /\ -taken \in Int
  BY <1>4, <1>10, SMT
<1> QED
  BY <1>8, <1>9, <1>11, EntriesBalance, Zenon DEF u

\* A loan takes from the cash what it adds to the debts.
LEMMA BorrowBalances ==
    ASSUME NEW c, Sound(c), NEW by \in User, NEW for \in User, NEW amount \in Nat,
           NEW mode \in RateMode, NEW d \in Borrow(c, by, for, amount, mode)
    PROVE  Balanced(c, d)
<1> DEFINE u == UpdateState(c)
           lent == [u EXCEPT !.s = IF mode = "stable"
                                   THEN MintStable(u, for, amount, u.stableRate) ELSE @,
                             !.v = IF mode = "variable"
                                   THEN MintScaled(@, for, amount, u.vi) ELSE @]
           total == StableSupply(lent)
           r == SetRates(lent, total, 0, amount)
           log == {Payment("hToken", by, amount)} \cup
                  IF mode = "stable" THEN MintStableEvents(u, by, for, amount, lent.s)
                  ELSE MintEvents("vToken", u.v, by, for, amount, u.vi)
           outcome == [r EXCEPT !.cash = @ - amount,
                                !.wallet[by] = @ + amount,
                                !.allowance[mode][for][by] = IF by = for THEN @ ELSE @ - amount,
                                !.log = log]
<1>1. d = outcome
  BY Passed, ZenonT(40) DEF Borrow
<1>2. Fresh(u) /\ Sound(d)
  BY Updated, BorrowKeeps DEF Keeps
<1> HIDE DEF u, log
<1>3. /\ DOMAIN u = Stored /\ u.lastUpdate = u.now /\ u.cash \in Nat
  BY <1>2, FreshTypes DEF Fresh, Sound
<1>4. /\ SameBut(u, lent, {"s", "v"})
      /\ lent.s = (IF mode = "stable" THEN MintStable(u, for, amount, u.stableRate) ELSE u.s)
      /\ lent.v = (IF mode = "variable" THEN MintScaled(u.v, for, amount, u.vi) ELSE u.v)
  BY <1>3, Zenon DEF SameBut, Stored
<1> HIDE DEF lent
<1>5. SameBut(lent, r, {"liquidityRate", "stableRate", "variableRate"})
  <2>1. DOMAIN lent = Stored
    BY <1>4 DEF SameBut
  <2> QED BY <2>1, RatesFields
<1> HIDE DEF r
<1>6. SameBut(r, d, {"cash", "wallet", "allowance", "log"}) /\ d.cash = r.cash - amount
  BY <1>1, <1>5, Zenon DEF SameBut, Stored
<1> HIDE DEF outcome
<1>7. /\ d.h = u.h /\ d.v = lent.v /\ d.s = lent.s
      /\ d.li = u.li /\ d.vi = u.vi /\ d.now = u.now /\ d.lastUpdate = d.now
      /\ d.accrued = u.accrued /\ d.cash = u.cash - amount
      /\ d.flash = u.flash /\ d.unbacked = u.unbacked
  <2>1. SameBut(u, r, {"s", "v", "liquidityRate", "stableRate", "variableRate"})
        /\ r.v = lent.v /\ r.s = lent.s
    BY <1>4, <1>5, Zenon DEF SameBut, Stored
  <2> QED BY <1>3, <1>6, <2>1, Zenon DEF SameBut, Stored
<1>8. Alike(u, d)
  BY <1>2, <1>7 DEF Alike, Fresh
<1>9. Funds(d) = Funds(u) + (-amount) /\ Funds(u) \in Nat
  <2>1. d.cash = u.cash + (-amount) /\ -amount \in Int
    BY <1>3, <1>7, SMT
  <2> QED BY <1>2, <1>7, <2>1, CashMoves
<1>10. /\ Funds(d) + amount + 0 = Funds(u) + 0 /\ Funds(d) + 0 + amount = Funds(u) + 0
       /\ 0 \in Int /\ amount \in Int
  BY <1>9, SMT
<1>11. CASE mode = "stable"
  <2>1. d.s = MintStable(u, for, amount, u.stableRate) /\ d.v = u.v
    BY <1>4, <1>7, <1>11
  <2>2. Entries(u, d, amount, 0, 0)
    BY <1>7, <1>8, <2>1, Still, StableMinted DEF Entries
  <2> QED BY <1>8, <1>10, <2>2, EntriesBalance, Zenon DEF u
<1>12. CASE mode = "variable"
  <2>1. d.s = u.s /\ d.v = MintScaled(u.v, for, amount, u.vi)
    BY <1>4, <1>7, <1>12
  <2>2. Entries(u, d, 0, amount, 0)
    BY <1>7, <1>8, <2>1, Still, VariableMinted DEF Entries
  <2> QED BY <1>8, <1>10, <2>2, EntriesBalance, Zenon DEF u
<1> QED
  BY <1>11, <1>12 DEF RateMode

\* Debt burnt in either mode, as entries.
LEMMA DebtBurntMoves ==
    ASSUME NEW u, NEW d, Alike(u, d), NEW w \in User, NEW amount \in Nat, NEW mode \in RateMode,
           mode = "stable" => amount <= StableBalance(u, w),
           mode = "variable" => CanBurn(u.v, w, amount, u.vi),
           d.s = BurnDebt(u, w, amount, mode).s, d.v = BurnDebt(u, w, amount, mode).v
    PROVE  \E stable, variable \in Int :
              /\ stable + variable = -amount
              /\ MovesBy(StableDebts(u), StableDebts(d), stable, 0)
              /\ MovesBy(VariableDebts(u), VariableDebts(d), variable, Slack(u.vi))
<1>1. /\ d.s = (IF mode = "stable" THEN BurnStable(u, w, amount) ELSE u.s)
      /\ d.v = (IF mode = "variable" THEN BurnScaled(u.v, w, amount, u.vi) ELSE u.v)
  <2>1. DOMAIN u = Stored
    BY FreshTypes DEF Alike
  <2> QED BY <2>1, Zenon DEF BurnDebt, Stored
<1>2. -amount \in Int /\ 0 \in Int /\ (-amount) + 0 = -amount /\ 0 + (-amount) = -amount
  BY SMT
<1>3. CASE mode = "stable"
  <2>1. MovesBy(StableDebts(u), StableDebts(d), -amount, 0)
    BY <1>1, <1>3, StableBurnt
  <2>2. MovesBy(VariableDebts(u), VariableDebts(d), 0, Slack(u.vi))
    BY <1>1, <1>3, Still
  <2> QED BY <1>2, <2>1, <2>2, Zenon
<1>4. CASE mode = "variable"
  <2>1. MovesBy(StableDebts(u), StableDebts(d), 0, 0)
    BY <1>1, <1>4, Still
  <2>2. MovesBy(VariableDebts(u), VariableDebts(d), -amount, Slack(u.vi))
    BY <1>1, <1>4, VariableBurnt
  <2> QED BY <1>2, <2>1, <2>2, Zenon
<1> QED
  BY <1>3, <1>4 DEF RateMode

\* A repayment turns debt into cash, or debt and hTokens into neither.
LEMMA RepayBalances ==
    ASSUME NEW c, Sound(c), NEW by \in User, NEW for \in User, NEW amount \in Nat,
           NEW mode \in RateMode, NEW useH \in BOOLEAN,
           NEW d \in Repay(c, by, for, amount, mode, useH)
    PROVE  Balanced(c, d)
<1> DEFINE u == UpdateState(c)
           debt == Debt(u, for, mode)
           sent == IF useH /\ amount = MAX_UINT_AMOUNT THEN HBalance(u, by) ELSE amount
           paid == IF sent < debt THEN sent ELSE debt
           cash == IF useH THEN 0 ELSE paid
           burnt == BurnDebt(u, for, paid, mode)
           total == StableTotalAfter(u, for, paid, mode)
           r == SetRates(burnt, total, cash, 0)
           log == BurnDebtEvents(u, for, paid, mode) \cup
                  IF useH THEN BurnEvents("hToken", u.h, by, "hToken", paid, u.li)
                  ELSE {Payment(by, "hToken", paid)}
           outcome == [r EXCEPT !.h = IF useH THEN BurnScaled(@, by, paid, u.li) ELSE @,
                                !.cash = @ + cash,
                                !.wallet[by] = @ - cash,
                                !.log = log]
<1>1. /\ mode = "variable" => CanBurn(u.v, for, paid, u.vi)
      /\ useH => CanBurn(u.h, by, paid, u.li)
      /\ d = outcome
  <2>1. d \in Require(/\ amount # 0
                      /\ amount = MAX_UINT_AMOUNT => by = for
                      /\ debt # 0
                      /\ mode = "variable" => CanBurn(u.v, for, paid, u.vi)
                      /\ useH => CanBurn(u.h, by, paid, u.li)
                      /\ cash <= u.wallet[by],
                      outcome)
    BY Zenon DEF Repay
  <2> HIDE DEF outcome, cash, paid, debt, u
  <2> QED BY <2>1, Zenon DEF Require
<1>2. Fresh(u) /\ Sound(d)
  BY Updated, RepayKeeps DEF Keeps
<1> HIDE DEF u
<1>3. DOMAIN u = Stored /\ u.lastUpdate = u.now /\ by \in Account
  BY <1>2, FreshTypes DEF Fresh, Account
<1>4. debt \in Nat /\ sent \in Nat /\ (mode = "stable" => debt = StableBalance(u, for))
  <2>1. debt \in Nat /\ HBalance(u, by) \in Nat
    BY <1>2, BalanceTypes
  <2> QED BY <2>1 DEF Debt
<1> HIDE DEF debt, sent
<1>5. paid \in Nat /\ paid <= debt
  BY <1>4, SMT
<1> HIDE DEF paid
<1>6. cash \in Nat /\ (useH => cash = 0) /\ (~useH => cash = paid)
  BY <1>5
<1> HIDE DEF cash
<1>7. SameBut(u, burnt, {"s", "v"}) /\ burnt = BurnDebt(u, for, paid, mode)
  BY <1>3, Zenon DEF BurnDebt, SameBut, Stored
<1> HIDE DEF burnt, total
<1>8. SameBut(burnt, r, {"liquidityRate", "stableRate", "variableRate"})
  <2>1. DOMAIN burnt = Stored
    BY <1>7 DEF SameBut
  <2> QED BY <2>1, RatesFields
<1> HIDE DEF r, log
<1>9. /\ SameBut(r, d, {"h", "cash", "wallet", "log"}) /\ d.cash = r.cash + cash
      /\ d.h = (IF useH THEN BurnScaled(r.h, by, paid, u.li) ELSE r.h)
  <2>1. DOMAIN r = Stored
    BY <1>8 DEF SameBut
  <2> QED BY <1>1, <2>1, Zenon DEF SameBut, Stored
<1> HIDE DEF outcome
<1>10. /\ d.h = (IF useH THEN BurnScaled(u.h, by, paid, u.li) ELSE u.h)
       /\ d.v = burnt.v /\ d.s = burnt.s
       /\ d.li = u.li /\ d.vi = u.vi /\ d.now = u.now /\ d.lastUpdate = d.now
       /\ d.accrued = u.accrued /\ d.cash = u.cash + cash
       /\ d.flash = u.flash /\ d.unbacked = u.unbacked
  <2>1. SameBut(u, r, {"s", "v", "liquidityRate", "stableRate", "variableRate"})
        /\ r.v = burnt.v /\ r.s = burnt.s
    BY <1>7, <1>8, Zenon DEF SameBut, Stored
  <2> QED BY <1>3, <1>9, <2>1, Zenon DEF SameBut, Stored
<1>11. Alike(u, d)
  BY <1>2, <1>10 DEF Alike, Fresh
<1>12. PICK stable, variable \in Int :
          /\ stable + variable = -paid
          /\ MovesBy(StableDebts(u), StableDebts(d), stable, 0)
          /\ MovesBy(VariableDebts(u), VariableDebts(d), variable, Slack(u.vi))
  <2>1. mode = "stable" => paid <= StableBalance(u, for)
    BY <1>4, <1>5
  <2>2. d.s = BurnDebt(u, for, paid, mode).s /\ d.v = BurnDebt(u, for, paid, mode).v
    BY <1>7, <1>10, Zenon
  <2> QED BY <1>1, <1>5, <1>11, <2>1, <2>2, DebtBurntMoves
<1>13. Funds(d) = Funds(u) + cash /\ Funds(u) \in Nat
  <2>1. cash \in Int
    BY <1>6, SMT
  <2> QED BY <1>2, <1>10, <2>1, CashMoves
<1>14. CASE useH
  <2>1. d.h = BurnScaled(u.h, by, paid, u.li)
    BY <1>10, <1>14
  <2>2. Entries(u, d, stable, variable, -paid)
    BY <1>1, <1>3, <1>5, <1>10, <1>11, <1>12, <1>14, <2>1, ClaimsBurnt DEF Entries
  <2>3. Funds(d) + stable + variable = Funds(u) + (-paid) /\ -paid \in Int
    BY <1>5, <1>6, <1>12, <1>13, <1>14, SMT
  <2> QED BY <1>11, <2>2, <2>3, EntriesBalance, Zenon DEF u
<1>15. CASE ~useH
  <2>1. d.h = u.h
    BY <1>10, <1>15
  <2>2. Entries(u, d, stable, variable, 0)
    BY <1>10, <1>11, <1>12, <2>1, Still DEF Entries
  <2>3. Funds(d) + stable + variable = Funds(u) + 0 /\ 0 \in Int
    BY <1>5, <1>6, <1>12, <1>13, <1>15, SMT
  <2> QED BY <1>11, <2>2, <2>3, EntriesBalance, Zenon DEF u
<1> QED
  BY <1>14, <1>15

\* A debt that changes its mode is the same debt.
LEMMA SwapBalances ==
    ASSUME NEW c, Sound(c), NEW by \in User, NEW mode \in RateMode,
           NEW d \in SwapBorrowRateMode(c, by, mode)
    PROVE  Balanced(c, d)
<1> DEFINE u == UpdateState(c)
           debt == Debt(u, by, mode)
           burnt == BurnDebt(u, by, debt, mode)
           swapped == IF mode = "stable"
                      THEN [burnt EXCEPT !.v = MintScaled(@, by, debt, u.vi)]
                      ELSE [burnt EXCEPT !.s = MintStable(burnt, by, debt, u.stableRate)]
           total == IF mode = "stable" THEN StableTotalAfter(u, by, debt, mode)
                    ELSE StableSupply(swapped)
           log == BurnDebtEvents(u, by, debt, mode) \cup
                  IF mode = "stable" THEN MintEvents("vToken", u.v, by, by, debt, u.vi)
                  ELSE MintStableEvents(burnt, by, by, debt, swapped.s)
           outcome == [SetRates(swapped, total, 0, 0) EXCEPT !.log = log]
<1>1. /\ mode = "variable" => CanBurn(u.v, by, debt, u.vi)
      /\ d = outcome
  BY Passed, Zenon DEF SwapBorrowRateMode
<1>2. Fresh(u) /\ Sound(d)
  BY Updated, SwapKeeps DEF Keeps
<1> HIDE DEF u
<1>3. /\ DOMAIN u = Stored /\ u.lastUpdate = u.now /\ debt \in Nat /\ u.cash \in Nat
      /\ (mode = "stable" => debt <= StableBalance(u, by))
  <2>1. debt \in Nat /\ StableBalance(u, by) \in Nat
    BY <1>2, BalanceTypes
  <2>2. mode = "stable" => debt = StableBalance(u, by)
    BY DEF Debt
  <2> HIDE DEF debt
  <2>3. mode = "stable" => debt <= StableBalance(u, by)
    BY <2>1, <2>2, SMT
  <2> QED BY <1>2, <2>1, <2>3, FreshTypes DEF Fresh, Sound
<1> HIDE DEF debt
<1>4. /\ SameBut(u, burnt, {"s", "v"})
      /\ burnt.s = (IF mode = "stable" THEN BurnStable(u, by, debt) ELSE u.s)
      /\ burnt.v = (IF mode = "variable" THEN BurnScaled(u.v, by, debt, u.vi) ELSE u.v)
  BY <1>3, Zenon DEF BurnDebt, SameBut, Stored
<1> HIDE DEF burnt
<1>5. /\ SameBut(burnt, swapped, {"s", "v"})
      /\ mode = "stable" => swapped.s = burnt.s /\ swapped.v = MintScaled(burnt.v, by, debt, u.vi)
      /\ mode # "stable" => swapped.v = burnt.v
                            /\ swapped.s = MintStable(burnt, by, debt, u.stableRate)
  <2>1. DOMAIN burnt = Stored
    BY <1>4 DEF SameBut
  <2> QED BY <2>1, Zenon DEF SameBut, Stored
<1> HIDE DEF swapped, total
<1>6. SameBut(swapped, SetRates(swapped, total, 0, 0),
              {"liquidityRate", "stableRate", "variableRate"})
  <2>1. DOMAIN swapped = Stored
    BY <1>5 DEF SameBut
  <2> QED BY <2>1, RatesFields
<1> HIDE DEF log
<1>7. SameBut(SetRates(swapped, total, 0, 0), d, {"log"})
  BY <1>1, <1>6, Zenon DEF SameBut, Stored
<1> HIDE DEF outcome
<1>8. /\ d.h = u.h /\ d.v = swapped.v /\ d.s = swapped.s
      /\ d.li = u.li /\ d.vi = u.vi /\ d.now = u.now /\ d.lastUpdate = d.now
      /\ d.accrued = u.accrued /\ d.cash = u.cash
      /\ d.flash = u.flash /\ d.unbacked = u.unbacked
  <2>1. SameBut(u, swapped, {"s", "v"})
    BY <1>4, <1>5, Zenon DEF SameBut, Stored
  <2>2. SameBut(swapped, d, {"liquidityRate", "stableRate", "variableRate", "log"})
    BY <1>6, <1>7, Zenon DEF SameBut, Stored
  <2> QED BY <1>3, <2>1, <2>2, Zenon DEF SameBut, Stored
<1>9. Alike(u, d)
  BY <1>2, <1>8 DEF Alike, Fresh
<1>10. Funds(d) = Funds(u) /\ Funds(u) \in Nat
  BY <1>2, <1>8, FundsType, Zenon DEF Funds, Fresh
<1>11. /\ Funds(d) + (-debt) + debt = Funds(u) + 0 /\ Funds(d) + debt + (-debt) = Funds(u) + 0
       /\ 0 \in Int /\ debt \in Int /\ -debt \in Int
  BY <1>3, <1>10, SMT
<1>12. CASE mode = "stable"
  <2>1. d.s = BurnStable(u, by, debt) /\ d.v = MintScaled(u.v, by, debt, u.vi)
    BY <1>4, <1>5, <1>8, <1>12
  <2>2. Entries(u, d, -debt, debt, 0)
    BY <1>3, <1>8, <1>9, <1>12, <2>1, Still, StableBurnt, VariableMinted DEF Entries
  <2> QED BY <1>9, <1>11, <2>2, EntriesBalance, Zenon DEF u
<1>13. CASE mode = "variable"
  <2>1. d.s = MintStable(burnt, by, debt, u.stableRate) /\ d.v = BurnScaled(u.v, by, debt, u.vi)
    BY <1>4, <1>5, <1>8, <1>13
  <2>2. burnt.s = u.s /\ burnt.now = u.now
    <3>1. burnt.now = u.now
      BY <1>4, Zenon DEF SameBut, Stored
    <3> QED BY <1>4, <1>13, <3>1
  <2>3. d.s = MintStable(u, by, debt, u.stableRate)
    <3>1. StableBalance(burnt, by) = StableBalance(u, by) /\ StableSupply(burnt) = StableSupply(u)
      BY <2>2, Zenon DEF StableBalance, StableSupply
    <3> QED BY <2>1, <2>2, <3>1, Zenon DEF MintStable
  <2>4. Entries(u, d, debt, -debt, 0)
    BY <1>1, <1>3, <1>8, <1>9, <1>13, <2>1, <2>3, Still, StableMinted, VariableBurnt DEF Entries
  <2> QED BY <1>9, <1>11, <2>4, EntriesBalance, Zenon DEF u
<1> QED
  BY <1>12, <1>13 DEF RateMode

\* A stable debt at a new rate is the same debt.
LEMMA RebalanceBalances ==
    ASSUME NEW c, Sound(c), NEW user \in User, NEW d \in RebalanceStableBorrowRate(c, user)
    PROVE  Balanced(c, d)
<1> DEFINE u == UpdateState(c)
           debt == StableBalance(u, user)
           burnt == [u EXCEPT !.s = BurnStable(u, user, debt)]
           minted == [burnt EXCEPT !.s = MintStable(burnt, user, debt, u.stableRate)]
           total == StableSupply(minted)
           log == BurnStableEvents(u, user, debt) \cup
                  MintStableEvents(burnt, user, user, debt, minted.s)
           outcome == [SetRates(minted, total, 0, 0) EXCEPT !.log = log]
<1>1. d = outcome
  BY Passed, Zenon DEF RebalanceStableBorrowRate
<1>2. Fresh(u) /\ Sound(d)
  BY Updated, RebalanceKeeps DEF Keeps
<1> HIDE DEF u
<1>3. /\ DOMAIN u = Stored /\ u.lastUpdate = u.now
      /\ debt \in Nat /\ debt <= StableBalance(u, user)
  <2>1. debt \in Nat
    BY <1>2, BalanceTypes
  <2>2. debt <= debt
    BY <2>1, SMT
  <2> QED BY <1>2, <2>1, <2>2, FreshTypes DEF Fresh
<1> HIDE DEF debt
<1>4. SameBut(u, burnt, {"s"}) /\ burnt.s = BurnStable(u, user, debt)
  BY <1>3, Zenon DEF SameBut, Stored
<1> HIDE DEF burnt
<1>5. Fresh(burnt)
  BY <1>2, <1>3, <1>4, BurnStableType, StableReplaced DEF Fresh, Sound
<1>6. SameBut(burnt, minted, {"s"}) /\ minted.s = MintStable(burnt, user, debt, u.stableRate)
  <2>1. DOMAIN burnt = Stored
    BY <1>4 DEF SameBut
  <2> QED BY <2>1, Zenon DEF SameBut, Stored
<1> HIDE DEF minted, total
<1>7. SameBut(minted, SetRates(minted, total, 0, 0),
              {"liquidityRate", "stableRate", "variableRate"})
  <2>1. DOMAIN minted = Stored
    BY <1>6 DEF SameBut
  <2> QED BY <2>1, RatesFields
<1> HIDE DEF log
<1>8. SameBut(SetRates(minted, total, 0, 0), d, {"log"})
  BY <1>1, <1>7, Zenon DEF SameBut, Stored
<1> HIDE DEF outcome
<1>9. /\ d.h = u.h /\ d.v = u.v /\ d.s = minted.s
      /\ d.li = u.li /\ d.vi = u.vi /\ d.now = u.now /\ d.lastUpdate = d.now
      /\ d.accrued = u.accrued /\ d.cash = u.cash
      /\ d.flash = u.flash /\ d.unbacked = u.unbacked
  <2>1. SameBut(u, minted, {"s"})
    BY <1>4, <1>6, Zenon DEF SameBut, Stored
  <2>2. SameBut(minted, d, {"liquidityRate", "stableRate", "variableRate", "log"})
    BY <1>7, <1>8, Zenon DEF SameBut, Stored
  <2> QED BY <1>3, <2>1, <2>2, Zenon DEF SameBut, Stored
<1>10. Alike(u, d)
  BY <1>2, <1>9 DEF Alike, Fresh
<1>11. burnt.li = u.li /\ burnt.vi = u.vi /\ burnt.now = u.now
  BY <1>4, Zenon DEF SameBut, Stored
<1>12. Alike(u, burnt) /\ Alike(burnt, d)
  BY <1>2, <1>5, <1>9, <1>10, <1>11 DEF Alike
<1>13. MovesBy(StableDebts(u), StableDebts(burnt), -debt, 0)
  BY <1>3, <1>4, <1>12, StableBurnt
<1>14. MovesBy(StableDebts(burnt), StableDebts(d), debt, 0)
  BY <1>3, <1>6, <1>9, <1>12, StableMinted
<1>15. MovesBy(StableDebts(u), StableDebts(d), 0, 0)
  <2>1. StableDebts(u) \in Nat /\ StableDebts(burnt) \in Nat /\ StableDebts(d) \in Nat
    BY <1>2, <1>5, DebtsTyped DEF Fresh
  <2> QED BY <1>3, <1>13, <1>14, <2>1, SMT DEF MovesBy
<1>16. Entries(u, d, 0, 0, 0)
  BY <1>9, <1>10, <1>15, Still DEF Entries
<1>17. Funds(d) + 0 + 0 = Funds(u) + 0 /\ 0 \in Int
  <2>1. Funds(d) = Funds(u) /\ Funds(u) \in Nat
    BY <1>2, <1>9, FundsType, Zenon DEF Funds, Fresh
  <2> QED BY <2>1, SMT
<1> QED
  BY <1>10, <1>16, <1>17, EntriesBalance, Zenon DEF u

\* hTokens minted ahead of the funds are claims on what a bridge has to bring.
LEMMA UnbackedBalances ==
    ASSUME NEW c, Sound(c), NEW for \in User, NEW amount \in Nat,
           NEW d \in MintUnbacked(c, for, amount)
    PROVE  Balanced(c, d)
<1> DEFINE u == UpdateState(c)
           owed == [u EXCEPT !.unbacked = @ + amount]
           r == SetRates(owed, StableSupply(u), 0, 0)
           k == Credit(r, for, amount)
           log == MintEvents("hToken", u.h, "bridge", for, amount, u.li)
           outcome == [k EXCEPT !.log = log]
<1>1. d = outcome
  BY Passed, Zenon DEF MintUnbacked
<1>2. Fresh(u) /\ Sound(d)
  BY Updated, UnbackedKeeps DEF Keeps
<1> HIDE DEF u, log
<1>3. DOMAIN u = Stored /\ u.lastUpdate = u.now
  BY <1>2, FreshTypes DEF Fresh
<1>4. SameBut(u, owed, {"unbacked"}) /\ owed.unbacked = u.unbacked + amount
  BY <1>3, Zenon DEF SameBut, Stored
<1> HIDE DEF owed
<1>5. SameBut(owed, r, {"liquidityRate", "stableRate", "variableRate"})
  <2>1. DOMAIN owed = Stored
    BY <1>4 DEF SameBut
  <2> QED BY <2>1, RatesFields
<1> HIDE DEF r
<1>6. SameBut(r, k, {"h", "coll"}) /\ k.h = MintScaled(r.h, for, amount, r.li)
  BY <1>5, Zenon DEF Credit, SameBut, Stored
<1> HIDE DEF k
<1>7. SameBut(k, d, {"log"})
  BY <1>1, <1>6, Zenon DEF SameBut, Stored
<1> HIDE DEF outcome
<1>8. /\ d.h = MintScaled(u.h, for, amount, u.li) /\ d.v = u.v /\ d.s = u.s
      /\ d.li = u.li /\ d.vi = u.vi /\ d.now = u.now /\ d.lastUpdate = d.now
      /\ d.accrued = u.accrued /\ d.cash = u.cash
      /\ d.flash = u.flash /\ d.unbacked = u.unbacked + amount
  <2>1. /\ SameBut(u, r, {"liquidityRate", "stableRate", "variableRate", "unbacked"})
        /\ r.unbacked = u.unbacked + amount
    BY <1>4, <1>5, Zenon DEF SameBut, Stored
  <2>2. SameBut(r, d, {"h", "coll", "log"}) /\ d.h = MintScaled(r.h, for, amount, r.li)
    BY <1>6, <1>7, Zenon DEF SameBut, Stored
  <2> QED BY <1>3, <2>1, <2>2, Zenon DEF SameBut, Stored
<1>9. Alike(u, d)
  BY <1>2, <1>8 DEF Alike, Fresh
<1>10. Entries(u, d, 0, 0, amount)
  <2>1. for \in Account
    BY DEF Account
  <2> QED BY <1>8, <1>9, <2>1, Still, ClaimsMinted DEF Entries
<1>11. Funds(d) + 0 + 0 = Funds(u) + amount /\ 0 \in Int /\ amount \in Int
  <2>1. u.cash \in Nat /\ u.flash \in Nat /\ u.unbacked \in 0 .. UnbackedCap
        /\ UnbackedCap \in Nat
    BY <1>2, ReserveAssumption DEF Fresh, Sound, IsChain
  <2> QED BY <1>8, <2>1, SMT DEF Funds
<1> QED
  BY <1>9, <1>10, <1>11, EntriesBalance, Zenon DEF u

\* What the accrual of interest depends on stays as it is.
LEMMA SameAccrual ==
    ASSUME NEW c, NEW d,
           SameBut(c, d, {"h", "coll", "cash", "flash", "wallet", "allowance", "accrued", "log"})
    PROVE  /\ NormalizedIncome(d) = NormalizedIncome(c) /\ NormalizedDebt(d) = NormalizedDebt(c)
           /\ Pending(d) = Pending(c)
           /\ StableDebts(d) = StableDebts(c) /\ VariableDebts(d) = VariableDebts(c)
           /\ d.unbacked = c.unbacked
<1>1. /\ d.now = c.now /\ d.lastUpdate = c.lastUpdate /\ d.li = c.li /\ d.vi = c.vi
      /\ d.liquidityRate = c.liquidityRate /\ d.variableRate = c.variableRate
      /\ d.s = c.s /\ d.v = c.v /\ d.unbacked = c.unbacked
  BY Zenon DEF SameBut, Stored
<1>2. NormalizedIncome(d) = NormalizedIncome(c) /\ NormalizedDebt(d) = NormalizedDebt(c)
  BY <1>1, Zenon DEF NormalizedIncome, NormalizedDebt
<1>3. TreasuryShare(d) = TreasuryShare(c)
  <2>1. NextDebtIndex(d) = NextDebtIndex(c) /\ StableSupply(d) = StableSupply(c)
    BY <1>1, <1>2, Zenon DEF NextDebtIndex, StableSupply
  <2> QED BY <1>1, <2>1, Zenon DEF TreasuryShare
<1>4. Pending(d) = Pending(c)
  BY <1>1, <1>2, <1>3, Zenon DEF Pending
<1> QED
  BY <1>1, <1>2, <1>4, SameStable, SameVariable

\* A call that brings no interest, and moves claims and funds alike.
LEMMA QuietBalances ==
    ASSUME NEW c, Sound(c), NEW d, Sound(d),
           SameBut(c, d, {"h", "coll", "cash", "flash", "wallet", "allowance", "accrued", "log"}),
           NEW gain \in Int, Funds(d) = Funds(c) + gain,
           MovesBy(Claims(c), Claims(d), gain, Slack(NormalizedIncome(d)) + 1)
    PROVE  Balanced(c, d)
<1> DEFINE k == Slack(NormalizedIncome(d)) + 1
<1>1. /\ StableDebts(d) = StableDebts(c) /\ VariableDebts(d) = VariableDebts(c)
      /\ StableDebts(c) \in Nat /\ VariableDebts(c) \in Nat
      /\ Claims(c) \in Nat /\ Claims(d) \in Nat
  BY SameAccrual, DebtsTyped, ClaimsDue
<1>2. k \in Nat /\ 0 + k <= CallSlack(d) /\ 0 \in Nat /\ 0 \in Int
  <2>1. /\ Slack(NormalizedIncome(d)) \in Nat /\ Slack(NormalizedDebt(d)) \in Nat \ {0}
        /\ CallSlack(d) \in Nat
        /\ (NormalizedIncome(d) + Claims(d)) \div RAY \in Nat
        /\ CallSlack(d) = Slack(NormalizedIncome(d)) + Slack(NormalizedDebt(d))
                            + (NormalizedIncome(d) + Claims(d)) \div RAY
    BY <1>1, CallSlackRoom
  <2> QED BY <2>1, SMT
<1>3. StableDebts(d) = StableDebts(c) + 0 /\ (VariableDebts(d) - VariableDebts(c)) - 0 \in -0 .. 0
  BY <1>1, SMT
<1>4. (Claims(d) - Claims(c)) - gain \in -k .. k
  BY Zenon DEF MovesBy
<1> HIDE DEF k
<1>5. Funds(c) \in Nat /\ Funds(d) \in Nat
  BY FundsType
<1>6. Funds(d) + 0 + 0 = Funds(c) + gain
  BY <1>5, SMT
<1>7. d.cash + d.flash + d.unbacked + 0 + 0 = c.cash + c.flash + c.unbacked + gain
  BY <1>6, Zenon DEF Funds
<1> QED
  BY <1>2, <1>3, <1>4, <1>7, BooksBalance

\* A call that leaves the funds and the total of scaled hTokens as they are.
LEMMA UntouchedBalances ==
    ASSUME NEW c, Sound(c), NEW d, Sound(d),
           SameBut(c, d, {"h", "coll", "cash", "flash", "wallet", "allowance", "log"}),
           d.h.total = c.h.total, Funds(d) = Funds(c)
    PROVE  Balanced(c, d)
<1>1. SameBut(c, d, {"h", "coll", "cash", "flash", "wallet", "allowance", "accrued", "log"})
      /\ d.accrued = c.accrued
  BY Zenon DEF SameBut, Stored
<1>2. NormalizedIncome(d) = NormalizedIncome(c) /\ Pending(d) = Pending(c)
  BY <1>1, SameAccrual
<1>3. Claims(d) = Claims(c) /\ Claims(c) \in Nat
  BY <1>1, <1>2, ClaimsDue
<1>4. Slack(NormalizedIncome(d)) \in Nat
  BY SlackRoom, IndexesGrow DEF Sound
<1>5. MovesBy(Claims(c), Claims(d), 0, Slack(NormalizedIncome(d)) + 1)
  BY <1>3, <1>4, SMT DEF MovesBy
<1>6. Funds(d) = Funds(c) + 0 /\ 0 \in Int
  BY FundsType, SMT
<1> QED
  BY <1>1, <1>5, <1>6, QuietBalances

\* Transfers, collateral flags, delegations and flash loans paid out.
LEMMA TransferBalances ==
    ASSUME NEW c, Sound(c), NEW by \in User, NEW from \in User, NEW to \in User,
           NEW amount \in Nat, NEW d \in Transfer(c, by, from, to, amount)
    PROVE  Balanced(c, d)
<1> DEFINE index == NormalizedIncome(c)
           leaves == IF HBalance(c, from) = amount THEN {from} ELSE {}
           joins == IF HBalance(c, to) = 0 THEN {to} ELSE {}
           log == TransferEvents(c.h, by, from, to, amount, index)
           outcome == [c EXCEPT !.h = TransferScaled(@, from, to, amount, index),
                                !.coll = IF from = to \/ amount = 0 THEN @
                                         ELSE (@ \ leaves) \cup joins,
                                !.log = log]
<1>1. d = outcome
  <2>1. d \in Require(RayDiv(amount, index) <= c.h.scaled[from], outcome)
    BY Zenon DEF Transfer
  <2> HIDE DEF outcome
  <2> QED BY <2>1, Zenon DEF Require
<1>2. Sound(d) /\ DOMAIN c = Stored
  <2>1. Keeps(c, d)
    BY TransferKeeps
  <2> QED BY <2>1 DEF Keeps, Sound, IsChain
<1> HIDE DEF index, log, leaves, joins
<1>3. SameBut(c, d, {"h", "coll", "log"}) /\ d.h = TransferScaled(c.h, from, to, amount, index)
  BY <1>1, <1>2, Zenon DEF SameBut, Stored
<1> HIDE DEF outcome
<1>4. SameBut(c, d, {"h", "coll", "cash", "flash", "wallet", "allowance", "log"})
      /\ d.cash = c.cash /\ d.flash = c.flash /\ d.unbacked = c.unbacked
  BY <1>3, Zenon DEF SameBut, Stored
<1>5. d.h.total = c.h.total
  <2> DEFINE x == RayDiv(amount, index)
             less == [c.h.scaled EXCEPT ![from] = c.h.scaled[from] - x]
             moved == [less EXCEPT ![to] = less[to] + x]
  <2>1. d.h = [scaled |-> moved,
               index |-> [c.h.index EXCEPT ![from] = index, ![to] = index],
               total |-> c.h.total]
    BY <1>3, Zenon DEF TransferScaled
  <2> HIDE DEF moved
  <2> QED BY <2>1, SMT
<1>6. Funds(d) = Funds(c)
  BY <1>4, Zenon DEF Funds
<1> QED
  BY <1>2, <1>4, <1>5, <1>6, UntouchedBalances

\* A collateral flag.
LEMMA CollateralBalances ==
    ASSUME NEW c, Sound(c), NEW by \in User, NEW use \in BOOLEAN,
           NEW d \in SetUseReserveAsCollateral(c, by, use)
    PROVE  Balanced(c, d)
<1>1. d = [c EXCEPT !.coll = IF use THEN @ \cup {by} ELSE @ \ {by}, !.log = {}]
  BY Passed DEF SetUseReserveAsCollateral
<1>2. Sound(d) /\ DOMAIN c = Stored
  BY CollateralKeeps DEF Keeps, Sound, IsChain
<1>3. SameBut(c, d, {"coll", "log"})
  BY <1>1, <1>2, Zenon DEF SameBut, Stored
<1>4. SameBut(c, d, {"h", "coll", "cash", "flash", "wallet", "allowance", "log"})
      /\ d.cash = c.cash /\ d.flash = c.flash /\ d.unbacked = c.unbacked /\ d.h = c.h
  BY <1>3, Zenon DEF SameBut, Stored
<1>5. d.h.total = c.h.total /\ Funds(d) = Funds(c)
  BY <1>4, Zenon DEF Funds
<1> QED
  BY <1>2, <1>4, <1>5, UntouchedBalances

\* A delegation.
LEMMA DelegationBalances ==
    ASSUME NEW c, Sound(c), NEW by \in User, NEW to \in User, NEW mode \in RateMode,
           NEW amount \in Nat, NEW d \in ApproveDelegation(c, by, to, mode, amount)
    PROVE  Balanced(c, d)
<1>1. d = [c EXCEPT !.allowance[mode][by][to] = amount, !.log = {}]
  BY DEF ApproveDelegation
<1>2. Sound(d) /\ DOMAIN c = Stored
  <2>1. Keeps(c, d)
    BY DelegationKeeps
  <2> QED BY <2>1 DEF Keeps, Sound, IsChain
<1>3. SameBut(c, d, {"allowance", "log"})
  BY <1>1, <1>2, Zenon DEF SameBut, Stored
<1>4. SameBut(c, d, {"h", "coll", "cash", "flash", "wallet", "allowance", "log"})
      /\ d.cash = c.cash /\ d.flash = c.flash /\ d.unbacked = c.unbacked /\ d.h = c.h
  BY <1>3, Zenon DEF SameBut, Stored
<1>5. d.h.total = c.h.total /\ Funds(d) = Funds(c)
  BY <1>4, Zenon DEF Funds
<1> QED
  BY <1>2, <1>4, <1>5, UntouchedBalances

\* A flash loan paid out.
LEMMA FlashOutBalances ==
    ASSUME NEW c, Sound(c), NEW amount \in Nat, NEW d \in FlashOut(c, amount)
    PROVE  Balanced(c, d)
<1> DEFINE outcome == [c EXCEPT !.flash = @ + amount, !.cash = @ - amount,
                                !.log = {Payment("hToken", "receiver", amount)}]
<1>1. amount <= c.cash /\ d = outcome
  BY Passed, Zenon DEF FlashOut
<1>2. Sound(d) /\ DOMAIN c = Stored /\ c.cash \in Nat /\ c.flash \in Nat
  BY FlashOutKeeps DEF Keeps, Sound, IsChain
<1>3. /\ SameBut(c, d, {"flash", "cash", "log"})
      /\ d.flash = c.flash + amount /\ d.cash = c.cash - amount
  BY <1>1, <1>2, Zenon DEF SameBut, Stored
<1> HIDE DEF outcome
<1>4. SameBut(c, d, {"h", "coll", "cash", "flash", "wallet", "allowance", "log"})
      /\ d.unbacked = c.unbacked /\ d.h = c.h
  BY <1>3, Zenon DEF SameBut, Stored
<1>5. Funds(d) = Funds(c)
  <2>1. d.cash + d.flash = c.cash + c.flash
    BY <1>1, <1>2, <1>3, SMT
  <2> QED BY <1>4, <2>1, Zenon DEF Funds
<1>6. d.h.total = c.h.total
  BY <1>4
<1> QED
  BY <1>2, <1>4, <1>5, <1>6, UntouchedBalances

\* A block without time.
LEMMA TickBalances ==
    ASSUME NEW c, Sound(c), NEW dt \in Nat, NEW d \in Tick(c, dt), d.now = c.now
    PROVE  Balanced(c, d)
<1>1. d = [c EXCEPT !.now = @ + dt, !.log = {}]
  BY Passed DEF Tick
<1>2. Sound(d) /\ DOMAIN c = Stored
  BY TickKeeps DEF Keeps, Sound, IsChain
<1>3. SameBut(c, d, {"now", "log"})
  BY <1>1, <1>2, Zenon DEF SameBut, Stored
<1>4. SameBut(c, d, {"h", "coll", "cash", "flash", "wallet", "allowance", "log"})
      /\ d.cash = c.cash /\ d.flash = c.flash /\ d.unbacked = c.unbacked /\ d.h = c.h
  BY <1>3, Zenon DEF SameBut, Stored
<1>5. d.h.total = c.h.total /\ Funds(d) = Funds(c)
  BY <1>4, Zenon DEF Funds
<1> QED
  BY <1>2, <1>4, <1>5, UntouchedBalances

\* A whole number of rays below another is below it.
LEMMA WholeRays ==
    ASSUME NEW n \in Int, NEW m \in Int, n * RAY < m * RAY + RAY
    PROVE  n <= m
<1>1. CASE n <= m
  BY <1>1
<1>2. CASE n > m
  <2>1. n - (m + 1) \in Nat /\ m * RAY \in Int /\ n * RAY \in Int
    BY <1>2, HalfRay, SMT
  <2>2. (n - (m + 1)) * RAY \in Nat /\ (n - (m + 1)) * RAY = n * RAY - m * RAY - RAY
    BY <2>1, HalfRay, SMT
  <2> QED BY <2>1, <2>2, HalfRay, SMT
<1> QED
  BY <1>1, <1>2, SMT

\* Scaled hTokens given up, and those of what remains of their value minted: the
\* claims move by what is paid out, but for the slack and a unit.
LEMMA ShareMoves ==
    ASSUME NEW s \in Nat, NEW a \in Nat, NEW i \in Nat, i >= RAY,
           NEW vault \in Nat, NEW rest \in Nat, RayMul(a, i) = rest + vault
    PROVE  MovesBy(RayMul(s + a, i), RayMul(s + RayDiv(rest, i), i), -vault, Slack(i) + 1)
<1> DEFINE x == RayDiv(rest, i)
           A == RayMul(s + a, i)
           B == RayMul(s + x, i)
           M == RayMul(a, i)
           p == s * i
           q == a * i
           y == x * i
           h == i \div 2
           k == Slack(i)
           e == B - A + vault
<1>1. i \in Nat \ {0}
  BY HalfRay, SMT
<1>2. x \in Nat /\ k \in Nat /\ h < RAY * k /\ s + a \in Nat
  <2>1. x \in Nat
    BY <1>1, RayDivType, Zenon
  <2>2. k \in Nat /\ h < RAY * k
    BY SlackRoom, Zenon
  <2>3. s + a \in Nat
    BY SMT
  <2> HIDE DEF x, k, h
  <2> QED BY <2>1, <2>2, <2>3, Zenon
<1>3. /\ y <= rest * RAY + h /\ rest * RAY - h <= y
  BY <1>1, RayDivBrackets, Zenon
<1>4. h \in Nat
  BY SMT
<1> HIDE DEF x, k, h
<1>5. s + x \in Nat
  BY <1>2, SMT
<1>6. p \in Nat /\ q \in Nat /\ y \in Nat /\ A \in Nat /\ B \in Nat
  BY <1>2, <1>5, ProductType, RayMulType, Zenon
<1>7. /\ A * RAY <= (s + a) * i + HALF_RAY /\ (s + a) * i - HALF_RAY < A * RAY
      /\ B * RAY <= (s + x) * i + HALF_RAY /\ (s + x) * i - HALF_RAY < B * RAY
      /\ M * RAY <= q + HALF_RAY /\ q - HALF_RAY < M * RAY
  BY <1>2, <1>5, RayMulBrackets, Zenon
<1>8. (s + a) * i = p + q /\ (s + x) * i = p + y
  BY <1>2, SMT
<1> HIDE DEF p, q, y, A, B
<1>9. /\ A * RAY <= p + q + HALF_RAY /\ (p + q) - HALF_RAY < A * RAY
      /\ B * RAY <= p + y + HALF_RAY /\ (p + y) - HALF_RAY < B * RAY
  BY <1>7, <1>8, Zenon
<1>10. M * RAY = rest * RAY + vault * RAY
  BY HalfRay, SMT
<1> HIDE DEF M
<1>11. /\ A * RAY \in Nat /\ B * RAY \in Nat /\ vault * RAY \in Nat /\ rest * RAY \in Nat
       /\ RAY * k \in Nat /\ e \in Int
       /\ e * RAY = B * RAY - A * RAY + vault * RAY
       /\ (k + 1) * RAY = RAY * k + RAY /\ k + 1 \in Int
       /\ (-e) * RAY = A * RAY - B * RAY - vault * RAY
  BY <1>2, <1>6, HalfRay, SMT
<1> HIDE DEF e
<1>12. e * RAY < (k + 1) * RAY + RAY
  BY <1>2, <1>3, <1>4, <1>6, <1>7, <1>9, <1>10, <1>11, HalfRay, SMT
<1>13. (-e) * RAY < (k + 1) * RAY + RAY
  BY <1>2, <1>3, <1>4, <1>6, <1>7, <1>9, <1>10, <1>11, HalfRay, SMT
<1>14. e <= k + 1 /\ -e <= k + 1
  <2>1. -e \in Int
    BY <1>11, SMT
  <2> QED BY <1>11, <1>12, <1>13, <2>1, WholeRays
<1>15. e = (B - A) - (-vault)
  BY <1>6, SMT DEF e
<1>16. e \in -(k + 1) .. (k + 1)
  BY <1>11, <1>14, SMT
<1> QED
  BY <1>15, <1>16, Zenon DEF MovesBy, k, A, B, x

\* What the treasury is minted, and the vault paid, it could have redeemed.
LEMMA TreasuryBalances ==
    ASSUME NEW c, Sound(c), NEW d \in MintToTreasury(c)
    PROVE  Balanced(c, d)
<1> DEFINE index == NormalizedIncome(c)
           amount == RayMul(c.accrued, index)
           vault == PercentMul(amount, FeeToVaultPercent)
           rest == amount - vault
           cleared == [c EXCEPT !.accrued = 0, !.log = {}]
           log == MintEvents("hToken", c.h, "pool", Treasury, rest, index)
                    \cup {Payment("hToken", "vault", vault)}
           outcome == [cleared EXCEPT
                          !.h = MintScaled(@, Treasury, rest, index),
                          !.cash = @ - vault, !.log = log]
<1>1. \/ amount = 0 /\ d = cleared
      \/ amount # 0 /\ d = outcome
  <2> DEFINE checks == vault <= c.cash /\ CanMint(rest, index)
  <2>1. MintToTreasury(c) = IF amount = 0 THEN {cleared} ELSE Require(checks, outcome)
    BY Zenon DEF MintToTreasury
  <2> HIDE DEF outcome, vault, amount, index, cleared
  <2> QED BY <2>1, Zenon DEF Require
<1>2. DOMAIN c = Stored /\ c.cash \in Nat
  BY DEF Sound, IsChain
<1>3. /\ index \in Nat /\ index >= RAY /\ c.accrued \in Nat /\ c.h.total \in Nat
      /\ Pending(c) \in Nat
      /\ Claims(c) = RayMul(c.h.total + c.accrued + Pending(c), index)
  BY ClaimsDue
<1>4. Sound(d)
  BY TreasuryKeeps DEF Keeps
<1>5. amount \in Nat
  BY <1>3, RayMulType
<1> DEFINE s == c.h.total + Pending(c)
<1>6. s \in Nat /\ c.h.total + c.accrued + Pending(c) = s + c.accrued
  BY <1>3, SMT
<1>7. SameBut(c, cleared, {"accrued", "log"}) /\ cleared.accrued = 0
  BY <1>2, Zenon DEF SameBut, Stored
<1> HIDE DEF cleared
<1>8. CASE amount = 0 /\ d = cleared
  <2>1. SameBut(c, d, {"h", "coll", "cash", "flash", "wallet", "allowance", "accrued", "log"})
        /\ d.h = c.h /\ d.cash = c.cash /\ d.flash = c.flash /\ d.unbacked = c.unbacked
        /\ d.accrued = 0
    BY <1>7, <1>8, Zenon DEF SameBut, Stored
  <2>2. c.accrued = 0
    <3>1. amount >= c.accrued
      BY <1>3, RayMulGrows
    <3> HIDE DEF amount
    <3> QED BY <1>3, <1>8, <3>1, SMT
  <2>3. SameBut(c, d, {"h", "coll", "cash", "flash", "wallet", "allowance", "log"})
    BY <2>1, <2>2, Zenon DEF SameBut, Stored
  <2>4. Funds(d) = Funds(c) /\ d.h.total = c.h.total
    BY <2>1, Zenon DEF Funds
  <2> QED BY <1>4, <2>3, <2>4, UntouchedBalances
<1>9. CASE amount # 0 /\ d = outcome
  <2>1. vault \in Nat /\ rest \in Nat
    BY <1>5, ReserveAssumption, Split
  <2> HIDE DEF log
  <2> DEFINE x == RayDiv(rest, index)
  <2>2. amount = rest + vault /\ x \in Nat
    <3>1. x \in Nat
      <4>1. index \in Nat \ {0}
        BY <1>3, HalfRay, SMT
      <4> QED BY <2>1, <4>1, RayDivType
    <3> HIDE DEF x, amount, vault
    <3>2. rest = amount - vault
      BY DEF rest
    <3> HIDE DEF rest
    <3> QED BY <1>5, <2>1, <3>1, <3>2, SMT
  <2> HIDE DEF vault, rest
  <2>3. /\ SameBut(c, d, {"h", "cash", "accrued", "log"}) /\ d.accrued = 0
        /\ d.h = MintScaled(c.h, Treasury, rest, index) /\ d.cash = c.cash - vault
    BY <1>7, <1>9, Zenon DEF SameBut, Stored
  <2> HIDE DEF outcome
  <2>4. SameBut(c, d, {"h", "coll", "cash", "flash", "wallet", "allowance", "accrued", "log"})
        /\ d.flash = c.flash /\ d.unbacked = c.unbacked
    BY <2>3, Zenon DEF SameBut, Stored
  <2>5. NormalizedIncome(d) = index /\ Pending(d) = Pending(c)
    BY <2>4, SameAccrual
  <2>6. Claims(d) = RayMul(d.h.total + 0 + Pending(c), index)
    BY <1>4, <2>3, <2>5, ClaimsDue
  <2>7. d.h.total = c.h.total + x
    <3>1. d.h = [scaled |-> [c.h.scaled EXCEPT ![Treasury] = c.h.scaled[Treasury] + x],
                 index |-> [c.h.index EXCEPT ![Treasury] = index], total |-> c.h.total + x]
      BY <2>3, Zenon DEF MintScaled
    <3> HIDE DEF x, index
    <3> QED BY <3>1, SMT
  <2>8. d.h.total + 0 + Pending(c) = s + x
    BY <1>3, <2>2, <2>7, SMT
  <2>9. Claims(c) = RayMul(s + c.accrued, index) /\ Claims(d) = RayMul(s + x, index)
    BY <1>3, <1>6, <2>6, <2>8, Zenon
  <2> HIDE DEF s
  <2>10. RayMul(c.accrued, index) = rest + vault
    BY <2>2
  <2> HIDE DEF amount, index
  <2>11. MovesBy(Claims(c), Claims(d), -vault, Slack(NormalizedIncome(d)) + 1)
    BY <1>3, <1>6, <2>1, <2>5, <2>9, <2>10, ShareMoves DEF x
  <2>12. Funds(d) = Funds(c) + (-vault) /\ -vault \in Int
    <3>1. c.flash \in Nat /\ c.unbacked \in 0 .. UnbackedCap /\ UnbackedCap \in Nat
      BY ReserveAssumption DEF Sound, IsChain
    <3> QED BY <1>2, <2>1, <2>3, <2>4, <3>1, SMT DEF Funds
  <2> QED BY <1>4, <2>4, <2>11, <2>12, QuietBalances
<1> QED
  BY <1>1, <1>8, <1>9

\* A premium p shared by claims s among n scaled hTokens at index i raises the
\* index to m and the claims by p, but for a rounding of the ratio r per hToken
\* and per claim.
LEMMA SharePremium ==
    ASSUME NEW n \in Nat, NEW t \in Nat, NEW a \in Nat, n = t + a,
           NEW i \in Nat, i >= RAY, NEW s \in Nat \ {0},
           s = RayMul(t, i) + RayMul(a, i),
           NEW p \in Nat, NEW r, r = RayDiv(WadToRay(p), WadToRay(s)),
           NEW m, m = RayMul(r + RAY, i)
    PROVE  /\ m \in Nat /\ m >= i
           /\ MovesBy(RayMul(n, i), RayMul(n, m), p, (m + RayMul(n, m)) \div RAY)
<1> DEFINE C == RayMul(n, i)
           D == RayMul(n, m)
           T == RayMul(t, i)
           A == RayMul(a, i)
           w == WAD_RAY_RATIO
           k == m - i
           e == D - C - p
\* The ratio, in whole units of the claims.
<1>1. r \in Nat /\ 2 * (r * s) <= 2 * (p * RAY) + s /\ 2 * (p * RAY) - s <= 2 * (r * s)
  <2>1. w \in Nat \ {0}
    BY InterestAssumption
  <2>2. WadToRay(p) = p * w /\ WadToRay(s) = s * w
    BY Zenon DEF WadToRay
  <2> DEFINE b == s * w
             h == b \div 2
  <2>3. b \in Nat \ {0} /\ p * w \in Nat
    BY <2>1, SMT
  <2>4. r \in Nat
    BY <2>2, <2>3, RayDivType
  <2>5. /\ r * b <= (p * w) * RAY + h
        /\ (p * w) * RAY - h <= r * b
    BY <2>2, <2>3, RayDivBrackets
  <2>6. h \in Nat /\ 2 * h <= b
    BY <2>3, SMT
  <2> DEFINE X == r * s
             Y == p * RAY
  <2>7. r * b = w * X /\ (p * w) * RAY = w * Y /\ b = w * s
        /\ X \in Nat /\ Y \in Nat
    <3> HIDE DEF w
    <3> QED BY <2>1, <2>4, HalfRay, SMT
  <2> HIDE DEF b, h, w, X, Y
  <2>8. 2 * X \in Nat /\ 2 * Y + s \in Nat /\ 2 * Y \in Nat /\ 2 * X + s \in Nat
    BY <2>7, SMT
  <2>9. /\ w * (2 * X) = 2 * (w * X) /\ w * (2 * Y) = 2 * (w * Y)
        /\ w * (2 * Y + s) = 2 * (w * Y) + w * s /\ w * (2 * X + s) = 2 * (w * X) + w * s
        /\ w * X \in Nat /\ w * Y \in Nat /\ w * s \in Nat
    BY <2>1, <2>7, SMT
  <2>10. w * (2 * X) <= w * (2 * Y + s) /\ w * (2 * Y) <= w * (2 * X + s)
    BY <2>5, <2>6, <2>7, <2>9, SMT
  <2>11. 2 * X <= 2 * Y + s /\ 2 * Y <= 2 * X + s
    <3>1. \A x, y \in Nat : w * x <= w * y => x <= y
      BY <2>1, SMT
    <3> QED BY <2>8, <2>10, <3>1, Zenon
  <2>12. 2 * Y - s <= 2 * X
    BY <2>7, <2>11, SMT
  <2> QED BY <2>4, <2>11, <2>12, Zenon DEF X, Y
\* The index.
<1>2. /\ r + RAY \in Nat /\ m \in Nat /\ m >= i /\ m >= RAY /\ m >= r + RAY
      /\ m * RAY <= (r + RAY) * i + HALF_RAY /\ (r + RAY) * i - HALF_RAY < m * RAY
  <2>1. r \in Nat
    BY <1>1, Zenon
  <2>2. r + RAY \in Nat /\ r + RAY >= RAY
    BY <2>1, HalfRay, SMT
  <2>3. m \in Nat /\ m >= i
    BY <2>2, GrowthGrows, Zenon
  <2>4. m >= r + RAY
    BY <2>2, RayMulGrows, Zenon
  <2>5. m * RAY <= (r + RAY) * i + HALF_RAY /\ (r + RAY) * i - HALF_RAY < m * RAY
    BY <2>2, RayMulBrackets, Zenon
  <2>6. m >= RAY
    BY <2>2, <2>3, <2>4, HalfRay, SMT
  <2> QED BY <2>2, <2>3, <2>4, <2>5, <2>6, Zenon
<1>3. /\ C \in Nat /\ D \in Nat /\ T \in Nat /\ A \in Nat /\ n <= D /\ C <= D
  <2>1. C \in Nat /\ D \in Nat /\ T \in Nat /\ A \in Nat
    BY <1>2, RayMulType, Zenon
  <2>2. n <= D
    <3>1. D >= n
      BY <1>2, RayMulGrows, Zenon
    <3> HIDE DEF D
    <3> QED BY <2>1, <3>1, SMT
  <2>3. n <= n /\ i <= m
    BY <1>2, SMT
  <2>4. C <= D
    BY <1>2, <2>3, RayMulMonotone, Zenon
  <2> QED BY <2>1, <2>2, <2>4, Zenon
\* The roundings.
<1>4. /\ C * RAY <= n * i + HALF_RAY /\ n * i - HALF_RAY < C * RAY
      /\ D * RAY <= n * m + HALF_RAY /\ n * m - HALF_RAY < D * RAY
      /\ T * RAY <= t * i + HALF_RAY /\ t * i - HALF_RAY < T * RAY
      /\ A * RAY <= a * i + HALF_RAY /\ a * i - HALF_RAY < A * RAY
  BY <1>2, RayMulBrackets, Zenon
<1> DEFINE N == n * i
           q == r * i
<1>5. k \in Nat /\ m = i + k /\ (r + RAY) * i = q + i * RAY /\ q \in Nat /\ N \in Nat
      /\ m * RAY = i * RAY + k * RAY /\ i * RAY \in Nat /\ k * RAY \in Nat
  BY <1>1, <1>2, HalfRay, SMT
<1> HIDE DEF C, D, T, A, w, k, e
<1>6. k * RAY <= q + HALF_RAY /\ q <= k * RAY + HALF_RAY
  <2> HIDE DEF q
  <2> QED BY <1>2, <1>5, HalfRay, SMT
<1>7. s * RAY <= N + RAY /\ N <= s * RAY + RAY /\ s * RAY \in Nat
      /\ s * RAY = T * RAY + A * RAY
  <2>1. N = t * i + a * i /\ s * RAY = T * RAY + A * RAY /\ s * RAY \in Nat
        /\ t * i \in Nat /\ a * i \in Nat /\ T * RAY \in Nat /\ A * RAY \in Nat
    <3>1. s = T + A
      BY Zenon DEF T, A
    <3> QED BY <1>3, <3>1, HalfRay, SMT
  <2> HIDE DEF N
  <2> QED BY <1>4, <2>1, HalfRay, SMT
\* The claims, in rays, move by n times the index's move but for a ray.
<1> DEFINE nk == n * k
<1>8. n * m = N + nk /\ nk \in Nat /\ C * RAY \in Nat /\ D * RAY \in Nat
  BY <1>3, <1>5, HalfRay, SMT
<1>9. D * RAY <= C * RAY + nk + RAY /\ C * RAY + nk <= D * RAY + RAY
  <2> HIDE DEF N, nk
  <2> QED BY <1>4, <1>5, <1>8, HalfRay, SMT DEF N
\* That move is the premium, but for the ratio, the claims and the hTokens.
<1> DEFINE X == r * s
           Y == p * RAY
<1>10. 2 * nk <= 2 * Y + (s + 2 * r + n) /\ 2 * Y <= 2 * nk + (s + 2 * r + n)
  <2>1. X \in Nat /\ Y \in Nat /\ r \in Nat
    BY <1>1, HalfRay, SMT
  <2>2. /\ n * (k * RAY) <= n * (q + HALF_RAY) /\ n * q <= n * (k * RAY + HALF_RAY)
        /\ r * (s * RAY) <= r * (N + RAY) /\ r * N <= r * (s * RAY + RAY)
    <3>1. /\ q + HALF_RAY \in Nat /\ k * RAY + HALF_RAY \in Nat
          /\ N + RAY \in Nat /\ s * RAY + RAY \in Nat
      <4> HIDE DEF q, N
      <4> QED BY <1>5, <1>7, HalfRay, SMT
    <3> HIDE DEF q, N
    <3> QED BY <1>5, <1>6, <1>7, <2>1, <3>1, ProductMonotone, Zenon
  <2>3. /\ n * (k * RAY) = nk * RAY /\ r * (s * RAY) = X * RAY
        /\ n * q = r * N /\ r * N \in Nat
    <3>1. n * (k * RAY) = nk * RAY
      BY <1>5, HalfRay, SMT
    <3>2. r * (s * RAY) = X * RAY
      BY <2>1, HalfRay, SMT
    <3>3. n * q = r * N /\ r * N \in Nat
      BY <2>1, SMT
    <3> QED BY <3>1, <3>2, <3>3, Zenon
  <2>4. /\ n * (q + HALF_RAY) = n * q + n * HALF_RAY
        /\ n * (k * RAY + HALF_RAY) = n * (k * RAY) + n * HALF_RAY
        /\ r * (N + RAY) = r * N + r * RAY
        /\ r * (s * RAY + RAY) = r * (s * RAY) + r * RAY
    <3> HIDE DEF q, N
    <3> DEFINE kR == k * RAY
               sR == s * RAY
    <3>1. q \in Nat /\ N \in Nat /\ kR \in Nat /\ sR \in Nat /\ HALF_RAY \in Nat /\ RAY \in Nat
      BY <1>5, <1>7, HalfRay, Zenon
    <3> HIDE DEF kR, sR
    <3>2. n * (q + HALF_RAY) = n * q + n * HALF_RAY
      BY <3>1, SMT
    <3>3. n * (kR + HALF_RAY) = n * kR + n * HALF_RAY
      BY <3>1, SMT
    <3>4. r * (N + RAY) = r * N + r * RAY
      BY <2>1, <3>1, SMT
    <3>5. r * (sR + RAY) = r * sR + r * RAY
      BY <2>1, <3>1, SMT
    <3> QED BY <3>2, <3>3, <3>4, <3>5, Zenon DEF kR, sR
  <2>5. /\ 2 * (n * HALF_RAY) = n * RAY /\ n * HALF_RAY \in Nat /\ n * RAY \in Nat
        /\ r * RAY \in Nat /\ X * RAY \in Nat /\ nk * RAY \in Nat
    <3> HIDE DEF X, nk
    <3> QED BY <1>8, <2>1, HalfRay, SMT
  <2> DEFINE nkR == nk * RAY
             XR == X * RAY
             nR == n * RAY
             rR == r * RAY
             sR == s * RAY
  <2>6. 2 * nkR <= 2 * XR + 2 * rR + nR /\ 2 * XR <= 2 * nkR + 2 * rR + nR
    <3> DEFINE nH == n * HALF_RAY
               rN == r * N
    <3>1. /\ nkR <= rN + nH /\ rN <= nkR + nH /\ XR <= rN + rR /\ rN <= XR + rR
      BY <2>2, <2>3, <2>4, Zenon
    <3>2. 2 * nH = nR /\ nH \in Nat /\ nR \in Nat /\ rR \in Nat /\ XR \in Nat
          /\ nkR \in Nat /\ rN \in Nat
      BY <2>3, <2>5, Zenon
    <3> HIDE DEF nH, rN, nkR, XR, nR, rR
    <3> QED BY <3>1, <3>2, SMT
  <2>7. /\ (2 * nk) * RAY <= (2 * X + 2 * r + n) * RAY
        /\ (2 * X) * RAY <= (2 * nk + 2 * r + n) * RAY
    <3>1. /\ (2 * nk) * RAY = 2 * nkR /\ (2 * X) * RAY = 2 * XR
          /\ (2 * X + 2 * r + n) * RAY = 2 * XR + 2 * rR + nR
          /\ (2 * nk + 2 * r + n) * RAY = 2 * nkR + 2 * rR + nR
      <4> HIDE DEF X, nk
      <4> QED BY <1>8, <2>1, HalfRay, SMT
    <3> QED BY <2>6, <3>1, Zenon
  <2>8. 2 * nk <= 2 * X + 2 * r + n /\ 2 * X <= 2 * nk + 2 * r + n
    <3>1. \A x, y \in Nat : x * RAY <= y * RAY => x <= y
      BY HalfRay, SMT
    <3>2. /\ 2 * nk \in Nat /\ 2 * X \in Nat
          /\ 2 * X + 2 * r + n \in Nat /\ 2 * nk + 2 * r + n \in Nat
      <4> HIDE DEF X, nk
      <4> QED BY <1>8, <2>1, SMT
    <3> QED BY <2>7, <3>1, <3>2, Zenon
  <2>9. 2 * X <= 2 * Y + s /\ 2 * Y - s <= 2 * X
    BY <1>1, Zenon
  <2> HIDE DEF X, Y, nk
  <2> QED BY <1>8, <2>1, <2>8, <2>9, SMT
\* The ratio, the claims and the hTokens are below the index and the claims.
<1>11. s <= D + 1
  <2>1. s * RAY < C * RAY + 2 * RAY
    <3> HIDE DEF N
    <3> QED BY <1>4, <1>5, <1>7, <1>8, HalfRay, SMT DEF N
  <2>2. s * RAY < (C + 1) * RAY + RAY /\ C + 1 \in Int /\ s \in Int
    BY <1>3, <2>1, HalfRay, SMT
  <2>3. s <= C + 1
    BY <2>2, WholeRays
  <2> QED BY <1>3, <2>3, SMT
<1>12. e \in Int /\ e * RAY = D * RAY - C * RAY - p * RAY /\ (-e) * RAY = C * RAY + p * RAY - D * RAY
       /\ e * RAY \in Int
  BY <1>3, HalfRay, SMT DEF e
<1>13. 2 * (e * RAY) <= 2 * (m + D) + 1 /\ 2 * ((-e) * RAY) <= 2 * (m + D) + 1
  <2>1. Y \in Nat /\ r \in Nat
    BY <1>1, HalfRay, SMT
  <2>2. e * RAY = D * RAY - C * RAY - Y /\ (-e) * RAY = C * RAY + Y - D * RAY
    BY <1>12, Zenon
  <2> HIDE DEF X, Y, nk
  <2>3. 2 * (e * RAY) <= s + 2 * r + n + 2 * RAY /\ 2 * ((-e) * RAY) <= s + 2 * r + n + 2 * RAY
    BY <1>8, <1>9, <1>10, <2>1, <2>2, HalfRay, SMT
  <2>4. s + 2 * r + n + 2 * RAY <= 2 * (m + D) + 1
    BY <1>2, <1>3, <1>11, <2>1, HalfRay, SMT
  <2> QED BY <1>2, <1>3, <1>12, <2>1, <2>2, <2>3, <2>4, HalfRay, SMT
<1> DEFINE room == (m + D) \div RAY
<1>14. room \in Nat /\ m + D < room * RAY + RAY
  <2>1. m + D \in Nat
    BY <1>2, <1>3, SMT
  <2>2. room \in Nat /\ m + D < RAY * room + RAY
    BY <2>1, HalfRay, DivBrackets, Zenon
  <2> HIDE DEF room
  <2> QED BY <2>2, HalfRay, SMT
<1> HIDE DEF room
<1>15. e * RAY < room * RAY + RAY /\ (-e) * RAY < room * RAY + RAY /\ -e \in Int
  <2>1. (-e) * RAY = -(e * RAY) /\ room * RAY \in Nat /\ -e \in Int
    BY <1>12, <1>14, HalfRay, SMT
  <2> QED BY <1>2, <1>3, <1>12, <1>13, <1>14, <2>1, HalfRay, SMT
<1>16. e <= room /\ -e <= room
  BY <1>12, <1>14, <1>15, WholeRays
<1>17. e \in -room .. room
  BY <1>12, <1>14, <1>16, SMT
<1>18. e = (D - C) - p
  BY <1>3, SMT DEF e
<1>19. m \in Nat /\ m >= i
  BY <1>2, Zenon
<1> QED
  BY <1>17, <1>18, <1>19, Zenon DEF MovesBy, room, C, D

\* A premium for suppliers, and the treasury's part of it, raise the claims by
\* both, but for what a call may lose.
LEMMA PremiumClaimed ==
    ASSUME NEW u, Fresh(u), NEW income \in Nat, NEW toTreasury \in Nat,
           SuppliersClaim(u) # 0, NEW e, e = Cumulate(u, income, toTreasury)
    PROVE  MovesBy(Claims(u), Claims(e), income + toTreasury,
                   Slack(e.li) + (e.li + Claims(e)) \div RAY)
<1> DEFINE t == u.h.total
           a == u.accrued
           n == t + a
           i == u.li
           s == RayMul(t, i) + RayMul(a, i)
           r == RayDiv(WadToRay(income), WadToRay(s))
           m == RayMul(r + RAY, i)
           x == RayDiv(toTreasury, m)
           C == RayMul(n, i)
           D == RayMul(n, m)
           E == RayMul(n + x, m)
<1>1. DOMAIN u = Stored /\ t \in Nat /\ a \in Nat /\ i \in Nat /\ i >= RAY
  BY FreshTypes DEF ScaledTokens
<1>2. n \in Nat /\ RayMul(t, i) \in Nat /\ RayMul(a, i) \in Nat
  <2>1. n \in Nat
    BY <1>1, SMT
  <2> QED BY <1>1, <2>1, RayMulType, Zenon
<1>3. SuppliersClaim(u) = s /\ s \in Nat \ {0}
  <2>1. NormalizedIncome(u) = u.li
    BY Presented DEF Fresh
  <2>2. SuppliersClaim(u) = s
    BY <2>1, Zenon DEF SuppliersClaim
  <2> HIDE DEF s
  <2>3. s \in Nat
    BY <1>2, SMT DEF s
  <2> QED BY <2>2, <2>3
<1>4. e = [u EXCEPT !.li = m, !.accrued = @ + x]
  <2> HIDE DEF s
  <2> QED BY <1>3, Zenon DEF Cumulate
<1>5. e.h = u.h /\ e.li = m /\ e.accrued = a + x
  <2> HIDE DEF m, x
  <2> QED BY <1>1, <1>4, Zenon DEF Stored
<1>6. Fresh(e)
  BY Cumulated
<1>7. m \in Nat /\ m >= i /\ MovesBy(C, D, income, (m + D) \div RAY)
  <2> HIDE DEF t, a, i
  <2>1. n \in Nat
    BY <1>2
  <2>2. s \in Nat \ {0}
    BY <1>3
  <2> HIDE DEF n, s, r, m
  <2>3. n = t + a /\ s = RayMul(t, i) + RayMul(a, i)
        /\ r = RayDiv(WadToRay(income), WadToRay(s)) /\ m = RayMul(r + RAY, i)
    BY Zenon DEF n, s, r, m
  <2> QED BY <1>1, <2>1, <2>2, <2>3, SharePremium
<1>8. m \in Nat \ {0}
  <2> HIDE DEF m
  <2> QED BY <1>1, <1>7, HalfRay, SMT
<1>9. x \in Nat
  BY <1>8, RayDivType, Zenon
<1> HIDE DEF m, x, n
<1>10. n + x \in Nat /\ E \in Nat /\ D \in Nat /\ E - D - toTreasury \in -Slack(m) .. Slack(m)
  <2>1. n + x = n + RayDiv(toTreasury, m)
    BY Zenon DEF x
  <2> QED BY <1>2, <1>8, <2>1, ValueMinted, Zenon
<1>11. C \in Nat /\ D <= E
  <2>1. n <= n + x /\ m <= m
    BY <1>2, <1>8, <1>9, SMT
  <2> QED BY <1>1, <1>2, <1>8, <1>10, <2>1, RayMulType, RayMulMonotone, Zenon
<1>12. Claims(u) = C /\ Claims(e) = E
  <2>1. Claims(u) = C
    BY PresentClaims, Zenon DEF n
  <2>2. e.h.total + e.accrued = n + x
    <3>1. e.h.total + e.accrued = t + (a + x)
      BY <1>5, Zenon
    <3>2. t + (a + x) = (t + a) + x
      BY <1>1, <1>9, SMT
    <3> QED BY <3>1, <3>2, Zenon DEF n
  <2>3. Claims(e) = E
    BY <1>5, <1>6, <2>2, PresentClaims, Zenon
  <2> QED BY <2>1, <2>3
<1> HIDE DEF C, D, E
<1> DEFINE low == (m + D) \div RAY
           high == (m + E) \div RAY
<1>13. low \in Nat /\ high \in Nat /\ low <= high
  <2>1. m + D \in Nat /\ m + E \in Nat /\ m + D <= m + E
    BY <1>8, <1>10, <1>11, SMT
  <2>2. low \in Nat /\ high \in Nat /\ RAY * low <= m + D
    BY <2>1, HalfRay, DivBrackets, Zenon
  <2>3. RAY * low <= m + E
    <3>1. RAY * low \in Nat
      BY <2>2, HalfRay, ProductType, Zenon
    <3> HIDE DEF low
    <3> QED BY <2>1, <2>2, <3>1, SMT
  <2>4. low <= high
    BY <2>1, <2>2, <2>3, HalfRay, DivAtLeast, Zenon
  <2> QED BY <2>2, <2>4
<1>14. Slack(m) \in Nat
  BY <1>8, SlackRoom
<1>15. (D - C) - income \in -low .. low
  BY <1>7, Zenon DEF MovesBy
<1> HIDE DEF low, high
<1>16. (E - C) - (income + toTreasury) \in -(Slack(m) + high) .. (Slack(m) + high)
  BY <1>10, <1>11, <1>13, <1>14, <1>15, SMT
<1> QED
  BY <1>5, <1>12, <1>16, Zenon DEF MovesBy, high

\* A call that pays suppliers a premium, and leaves debts as they are.
LEMMA PremiumBalances ==
    ASSUME NEW c, Sound(c), NEW u, u = UpdateState(c),
           NEW income \in Nat, NEW toTreasury \in Nat, SuppliersClaim(u) # 0,
           NEW e, e = Cumulate(u, income, toTreasury),
           NEW d, Fresh(d), d.li = e.li, d.accrued = e.accrued, d.h = u.h,
           d.s = u.s, d.v = u.v, d.vi = u.vi, d.now = u.now,
           Funds(d) = Funds(u) + (income + toTreasury)
    PROVE  Balanced(c, d)
<1> DEFINE k == Slack(d.li) + (d.li + Claims(d)) \div RAY
           claim == income + toTreasury
<1>1. Fresh(u) /\ Sound(u) /\ Sound(d)
  BY Updated DEF Fresh
<1>2. Fresh(e) /\ e.h = u.h
  <2>1. Fresh(e) /\ SameBut(u, e, {"li", "accrued"})
    BY <1>1, Cumulated
  <2> QED BY <2>1, Zenon DEF SameBut, Stored
<1>3. Claims(d) = Claims(e)
  BY <1>2, PresentClaims
<1>4. k \in Nat /\ k <= CallSlack(d)
  <2>1. NormalizedIncome(d) = d.li /\ NormalizedDebt(d) = d.vi /\ Claims(d) \in Nat
    BY PresentClaims, Presented DEF Fresh
  <2>2. /\ Slack(d.li) \in Nat /\ Slack(d.vi) \in Nat /\ (d.li + Claims(d)) \div RAY \in Nat
        /\ CallSlack(d) = Slack(d.li) + Slack(d.vi) + (d.li + Claims(d)) \div RAY
    BY <1>1, <2>1, CallSlackRoom
  <2> QED BY <2>2, SMT
<1>5. MovesBy(Claims(u), Claims(d), claim, k)
  <2>1. MovesBy(Claims(u), Claims(e), claim, Slack(e.li) + (e.li + Claims(e)) \div RAY)
    BY <1>1, PremiumClaimed
  <2> QED BY <1>3, <2>1, Zenon
<1> HIDE DEF k
<1>6. claim \in Int /\ Claims(u) \in Nat /\ Claims(d) \in Nat
  <2>1. claim \in Nat
    BY SMT
  <2>2. Claims(u) \in Nat /\ Claims(d) \in Nat
    BY <1>1, PresentClaims
  <2> HIDE DEF claim
  <2> QED BY <2>1, <2>2, SMT
<1> HIDE DEF claim
<1>7. Claims(d) - Claims(u) - claim \in -k .. k
  BY <1>5, <1>6, SMT DEF MovesBy
<1>8. StableDebts(d) = StableDebts(u) /\ VariableDebts(d) = VariableDebts(u)
  <2>1. NormalizedDebt(u) = u.vi /\ NormalizedDebt(d) = d.vi
    BY <1>1, Presented DEF Fresh
  <2>2. NormalizedDebt(d) = NormalizedDebt(u)
    BY <2>1
  <2> QED BY <2>2, SameStable, SameVariable
<1>9. /\ StableDebts(u) \in Nat /\ VariableDebts(u) \in Nat
      /\ StableDebts(d) = StableDebts(u) + 0
      /\ VariableDebts(d) - VariableDebts(u) - 0 \in -0 .. 0
  <2>1. StableDebts(u) \in Nat /\ VariableDebts(u) \in Nat
    BY <1>1, DebtsTyped
  <2> QED BY <1>8, <2>1, SMT
<1>10. d.cash + d.flash + d.unbacked + 0 + 0 = u.cash + u.flash + u.unbacked + claim
  <2>1. Funds(d) = Funds(u) + claim /\ Funds(d) \in Nat
    BY <1>1, FundsType DEF claim
  <2>2. Funds(d) + 0 + 0 = Funds(u) + claim
    BY <2>1, SMT
  <2> QED BY <2>2, Zenon DEF Funds
<1>11. Balanced(u, d)
  <2>1. 0 \in Int /\ 0 \in Nat /\ 0 + k <= CallSlack(d)
    BY <1>4, SMT
  <2> QED BY <1>1, <1>4, <1>6, <1>7, <1>9, <1>10, <2>1, BooksBalance
<1>12. Surplus(u) = Surplus(c)
  BY UpdateBalances
<1> QED
  BY <1>11, <1>12, Zenon DEF Balanced

\* Backing pays back what a bridge owes, and its fee to suppliers.
LEMMA BackingBalances ==
    ASSUME NEW c, Sound(c), NEW amount \in Nat, NEW fee \in Nat,
           NEW d \in BackUnbacked(c, amount, fee)
    PROVE  Balanced(c, d)
<1> DEFINE u == UpdateState(c)
           backing == IF amount < u.unbacked THEN amount ELSE u.unbacked
           toProtocol == PercentMul(fee, BridgeFee)
           income == fee - toProtocol
           earned == Cumulate(u, income, toProtocol)
           backed == [earned EXCEPT !.unbacked = @ - backing]
           added == backing + fee
           r == SetRates(backed, StableSupply(u), added, 0)
           outcome == [r EXCEPT !.cash = @ + backing + fee,
                                !.log = {Payment("bridge", "hToken", backing + fee)}]
<1>1. SuppliersClaim(u) # 0 /\ d = outcome
  BY Passed, Zenon DEF BackUnbacked
<1>2. Fresh(u)
  BY Updated
<1>3. Sound(d)
  <2>1. Keeps(c, d)
    BY BackingKeeps
  <2> QED BY <2>1 DEF Keeps, Sound
<1>4. u.cash \in Nat /\ u.flash \in Nat /\ u.unbacked \in Nat /\ UnbackedCap \in Nat
  <2>1. u.unbacked \in 0 .. UnbackedCap /\ UnbackedCap \in Nat
    BY <1>2, ReserveAssumption DEF Fresh, Sound, IsChain
  <2>2. u.unbacked \in Nat
    BY <2>1, SMT
  <2> QED BY <1>2, <2>1, <2>2, FreshTypes
<1>5. backing \in Nat
  BY <1>4, SMT
<1>6. toProtocol \in Nat /\ income \in Nat /\ income + toProtocol = fee
  <2>1. toProtocol \in Nat /\ income \in Nat
    BY ReserveAssumption, Split
  <2>2. income = fee - toProtocol
    BY Zenon
  <2> HIDE DEF income, toProtocol
  <2>3. income + toProtocol = fee
    BY <2>1, <2>2, SMT
  <2> QED BY <2>1, <2>3, Zenon
<1> HIDE DEF u, backing, toProtocol, income
<1>7. SameBut(u, earned, {"li", "accrued"})
  BY <1>1, <1>2, <1>6, Cumulated
<1>8. earned = Cumulate(u, income, toProtocol)
  BY Zenon
<1> HIDE DEF earned
<1>9. SameBut(earned, backed, {"unbacked"}) /\ backed.unbacked = u.unbacked - backing
  <2>1. DOMAIN earned = Stored /\ earned.unbacked = u.unbacked
    BY <1>7, Zenon DEF SameBut, Stored
  <2> QED BY <2>1, Zenon DEF SameBut, Stored
<1> HIDE DEF backed
<1>10. SameBut(backed, r, {"liquidityRate", "stableRate", "variableRate"})
  <2>1. DOMAIN backed = Stored
    BY <1>9, Zenon DEF SameBut
  <2> QED BY <2>1, RatesFields
<1> HIDE DEF r
<1>11. SameBut(r, d, {"cash", "log"}) /\ d.cash = u.cash + backing + fee
  <2>1. DOMAIN r = Stored /\ r.cash = u.cash
    BY <1>7, <1>9, <1>10, Zenon DEF SameBut, Stored
  <2> QED BY <1>1, <2>1, Zenon DEF SameBut, Stored
<1> HIDE DEF outcome
<1>12. /\ d.li = earned.li /\ d.accrued = earned.accrued
       /\ d.h = u.h /\ d.s = u.s /\ d.v = u.v /\ d.vi = u.vi /\ d.now = u.now
       /\ d.lastUpdate = u.lastUpdate /\ d.flash = u.flash
       /\ d.unbacked = u.unbacked - backing
  BY <1>7, <1>9, <1>10, <1>11, Zenon DEF SameBut, Stored
<1>13. Fresh(d)
  BY <1>2, <1>3, <1>12, Zenon DEF Fresh
<1>14. Funds(d) = Funds(u) + (income + toProtocol)
  <2>1. (d.cash + d.flash + d.unbacked) = (u.cash + u.flash + u.unbacked) + fee
    BY <1>4, <1>5, <1>11, <1>12, SMT
  <2> QED BY <1>6, <2>1, Zenon DEF Funds
<1>15. u = UpdateState(c)
  BY Zenon DEF u
<1> QED
  BY <1>1, <1>6, <1>8, <1>12, <1>13, <1>14, <1>15, PremiumBalances

\* A flash loan returned pays its premium to suppliers.
LEMMA FlashBackBalances ==
    ASSUME NEW c, Sound(c), NEW amount \in Nat, NEW d \in FlashBack(c, amount)
    PROVE  Balanced(c, d)
<1> DEFINE u == UpdateState(c)
           premium == PercentMul(amount, FlashPremium)
           toProtocol == PercentMul(premium, PremiumToProtocol)
           income == premium - toProtocol
           earned == Cumulate(u, income, toProtocol)
           returned == amount + premium
           r == SetRates(earned, StableSupply(u), returned, 0)
           outcome == [r EXCEPT !.flash = @ - amount, !.cash = @ + returned,
                                !.log = {Payment("receiver", "hToken", returned)}]
<1>1. SuppliersClaim(u) # 0 /\ d = outcome
  BY Passed, Zenon DEF FlashBack
<1>2. Fresh(u)
  BY Updated
<1>3. Sound(d)
  <2>1. Keeps(c, d)
    BY FlashBackKeeps
  <2> QED BY <2>1 DEF Keeps, Sound
<1>4. u.cash \in Nat /\ u.flash \in Nat /\ u.unbacked \in Nat
  <2>1. u.unbacked \in 0 .. UnbackedCap /\ UnbackedCap \in Nat
    BY <1>2, ReserveAssumption DEF Fresh, Sound, IsChain
  <2>2. u.unbacked \in Nat
    BY <2>1, SMT
  <2> QED BY <1>2, <2>2, FreshTypes
<1> HIDE DEF u
<1>5. premium \in Nat
  BY <1>4, ReserveAssumption, Split
<1> HIDE DEF premium
<1>6. toProtocol \in Nat /\ income \in Nat /\ income + toProtocol = premium
  <2>1. toProtocol \in Nat /\ income \in Nat
    BY <1>5, ReserveAssumption, Split
  <2>2. income = premium - toProtocol
    BY Zenon
  <2> HIDE DEF income, toProtocol
  <2>3. income + toProtocol = premium
    BY <1>5, <2>1, <2>2, SMT
  <2> QED BY <2>1, <2>3, Zenon
<1> HIDE DEF toProtocol, income
<1>7. SameBut(u, earned, {"li", "accrued"})
  BY <1>1, <1>2, <1>6, Cumulated
<1>8. earned = Cumulate(u, income, toProtocol)
  BY Zenon
<1> HIDE DEF earned
<1>9. SameBut(earned, r, {"liquidityRate", "stableRate", "variableRate"})
  <2>1. DOMAIN earned = Stored
    BY <1>7, Zenon DEF SameBut
  <2> QED BY <2>1, RatesFields
<1> HIDE DEF r
<1>10. /\ SameBut(r, d, {"flash", "cash", "log"}) /\ d.cash = u.cash + returned
       /\ d.flash = u.flash - amount
  <2>1. DOMAIN r = Stored /\ r.cash = u.cash /\ r.flash = u.flash
    BY <1>7, <1>9, Zenon DEF SameBut, Stored
  <2> QED BY <1>1, <2>1, Zenon DEF SameBut, Stored
<1> HIDE DEF outcome
<1>11. /\ d.li = earned.li /\ d.accrued = earned.accrued
       /\ d.h = u.h /\ d.s = u.s /\ d.v = u.v /\ d.vi = u.vi /\ d.now = u.now
       /\ d.lastUpdate = u.lastUpdate /\ d.unbacked = u.unbacked
  BY <1>7, <1>9, <1>10, Zenon DEF SameBut, Stored
<1>12. Fresh(d)
  BY <1>2, <1>3, <1>11, Zenon DEF Fresh
<1>13. Funds(d) = Funds(u) + (income + toProtocol)
  <2>1. (d.cash + d.flash + d.unbacked) = (u.cash + u.flash + u.unbacked) + premium
    BY <1>4, <1>5, <1>10, <1>11, SMT
  <2> QED BY <1>6, <2>1, Zenon DEF Funds
<1>14. u = UpdateState(c)
  BY Zenon DEF u
<1> QED
  BY <1>1, <1>6, <1>8, <1>11, <1>12, <1>13, <1>14, PremiumBalances

-----------------------------------------------------------------------------
(* The theorems.                                                           *)

\* The inductive invariant: the types of what is stored, and scaled totals that
\* are the sums of the balances.
IInv == TypeOK /\ ScaledTotalsAreSums(chain)

\* The invariant holds at the start.
LEMMA InitIInv == Init => IInv
BY AccountingAssumption DEF Init, IInv, TypeOK

\* Every step takes one outcome of a handler.
LEMMA StepKeeps ==
    ASSUME IInv, Next
    PROVE  Keeps(chain, chain') /\ steps' \in 0 .. MaxSteps
<1>1. Sound(chain)
  BY DEF IInv, TypeOK, ScaledTotalsAreSums, Sound, Adds
<1>2. Amount \subseteq Nat /\ Fee \subseteq Nat /\ Gap \subseteq Nat
  BY AccountingAssumption
<1>3. \A outcomes : Take(outcomes) => chain' \in outcomes /\ steps' \in 0 .. MaxSteps
  <2>1. steps \in 0 .. MaxSteps /\ MaxSteps \in Nat
    BY AccountingAssumption DEF IInv, TypeOK
  <2>2. steps < MaxSteps => steps + 1 \in 0 .. MaxSteps
    BY <2>1, SMT
  <2> QED BY <2>2 DEF Take
<1>4. CASE SupplyCall
  BY <1>1, <1>2, <1>3, <1>4, SupplyKeeps DEF SupplyCall
<1>5. CASE WithdrawCall
  BY <1>1, <1>2, <1>3, <1>5, WithdrawKeeps DEF WithdrawCall
<1>6. CASE TransferCall
  BY <1>1, <1>2, <1>3, <1>6, TransferKeeps DEF TransferCall
<1>7. CASE CollateralCall
  BY <1>1, <1>3, <1>7, CollateralKeeps DEF CollateralCall
<1>8. CASE DelegationCall
  BY <1>1, <1>2, <1>3, <1>8, DelegationKeeps DEF DelegationCall
<1>9. CASE BorrowCall
  BY <1>1, <1>2, <1>3, <1>9, BorrowKeeps DEF BorrowCall
<1>10. CASE RepayCall
  BY <1>1, <1>2, <1>3, <1>10, RepayKeeps DEF RepayCall
<1>11. CASE SwapCall
  BY <1>1, <1>3, <1>11, SwapKeeps DEF SwapCall
<1>12. CASE RebalanceCall
  BY <1>1, <1>3, <1>12, RebalanceKeeps DEF RebalanceCall
<1>13. CASE TreasuryCall
  BY <1>1, <1>3, <1>13, TreasuryKeeps DEF TreasuryCall
<1>14. CASE UnbackedCall
  BY <1>1, <1>2, <1>3, <1>14, UnbackedKeeps DEF UnbackedCall
<1>15. CASE BackingCall
  BY <1>1, <1>2, <1>3, <1>15, BackingKeeps DEF BackingCall
<1>16. CASE FlashLoan
  BY <1>1, <1>2, <1>3, <1>16, FlashOutKeeps DEF FlashLoan
<1>17. CASE FlashRepayment
  BY <1>1, <1>2, <1>3, <1>17, FlashBackKeeps DEF FlashRepayment, Sound, IsChain
<1>18. CASE NextBlock
  BY <1>1, <1>2, <1>3, <1>18, TickKeeps DEF NextBlock
<1> QED
  BY <1>4, <1>5, <1>6, <1>7, <1>8, <1>9, <1>10, <1>11, <1>12, <1>13, <1>14, <1>15,
     <1>16, <1>17, <1>18 DEF Next

\* And is kept by every step.
LEMMA NextIInv == IInv /\ [Next]_vars => IInv'
<1> SUFFICES ASSUME IInv, [Next]_vars PROVE IInv'
  OBVIOUS
<1>1. CASE Next
  BY <1>1, StepKeeps DEF IInv, TypeOK, Keeps, Sound, Adds, ScaledTotalsAreSums
<1>2. CASE UNCHANGED vars
  BY <1>2 DEF IInv, TypeOK, ScaledTotalsAreSums, vars
<1> QED
  BY <1>1, <1>2

\* No cash, wallet, scaled balance, treasury share or counter of unbacked hTokens
\* ever goes below zero or past its cap, no rate below zero, and nothing is
\* stamped in the future, whatever the calls, the times and the strategy.
THEOREM AccountingTypeCorrect == Spec => []TypeOK
<1>1. IInv => TypeOK
  BY DEF IInv
<1> QED
  BY <1>1, InitIInv, NextIInv, PTL DEF Spec

\* The scaled totals of hTokens and variable debt, which rates and the
\* treasury's share are computed from, are always the sums of the balances.
THEOREM ScaledTotalsAlwaysSums == Spec => []ScaledTotalsAreSums(chain)
<1>1. IInv => ScaledTotalsAreSums(chain)
  BY DEF IInv
<1> QED
  BY <1>1, InitIInv, NextIInv, PTL DEF Spec

\* No call, premium or passage of time lowers an index: no balance shrinks
\* but by the calls of its holder.
THEOREM IndexesAlwaysGrow == Spec => IndexesNeverFall
<1>1. IInv /\ [Next]_vars
        => [chain'.li >= chain.li /\ chain'.vi >= chain.vi]_vars
  BY StepKeeps, Zenon DEF Keeps
<1> QED
  BY <1>1, InitIInv, NextIInv, PTL DEF Spec, IndexesNeverFall

\* Every call that moves cash, debt or unbacked hTokens leaves the rates that its
\* own outcome implies, but for payments to the vault and erased stable totals.
THEOREM RatesAlwaysCurrent == Spec => RatesAreCurrent
<1>1. IInv /\ [Next]_vars => [LeavesCurrentRates(chain, chain')]_vars
  BY StepKeeps, Zenon DEF Keeps
<1> QED
  BY <1>1, InitIInv, NextIInv, PTL DEF Spec, RatesAreCurrent

\* Every step tells what its handler does.
LEMMA StepTells ==
    ASSUME IInv, Next
    PROVE  Told(chain, chain')
<1>1. Sound(chain)
  BY DEF IInv, TypeOK, ScaledTotalsAreSums, Sound, Adds
<1>2. Amount \subseteq Nat /\ Fee \subseteq Nat /\ Gap \subseteq Nat
  BY AccountingAssumption
<1>3. \A outcomes : Take(outcomes) => chain' \in outcomes
  BY DEF Take
<1>4. CASE SupplyCall
  BY <1>1, <1>2, <1>3, <1>4, SupplyTells DEF SupplyCall
<1>5. CASE WithdrawCall
  BY <1>1, <1>2, <1>3, <1>5, WithdrawTells DEF WithdrawCall
<1>6. CASE TransferCall
  BY <1>1, <1>2, <1>3, <1>6, TransferCallTells DEF TransferCall
<1>7. CASE CollateralCall
  BY <1>1, <1>3, <1>7, CollateralTells DEF CollateralCall
<1>8. CASE DelegationCall
  BY <1>1, <1>2, <1>3, <1>8, DelegationTells DEF DelegationCall
<1>9. CASE BorrowCall
  BY <1>1, <1>2, <1>3, <1>9, BorrowTells DEF BorrowCall
<1>10. CASE RepayCall
  BY <1>1, <1>2, <1>3, <1>10, RepayTells DEF RepayCall
<1>11. CASE SwapCall
  BY <1>1, <1>3, <1>11, SwapTells DEF SwapCall
<1>12. CASE RebalanceCall
  BY <1>1, <1>3, <1>12, RebalanceTells DEF RebalanceCall
<1>13. CASE TreasuryCall
  BY <1>1, <1>3, <1>13, TreasuryTells DEF TreasuryCall
<1>14. CASE UnbackedCall
  BY <1>1, <1>2, <1>3, <1>14, UnbackedTells DEF UnbackedCall
<1>15. CASE BackingCall
  BY <1>1, <1>2, <1>3, <1>15, BackingTells DEF BackingCall
<1>16. CASE FlashLoan
  BY <1>1, <1>2, <1>3, <1>16, FlashOutTells DEF FlashLoan
<1>17. CASE FlashRepayment
  BY <1>1, <1>2, <1>3, <1>17, FlashBackTells DEF FlashRepayment, Sound, IsChain
<1>18. CASE NextBlock
  BY <1>1, <1>2, <1>3, <1>18, TickTells DEF NextBlock
<1> QED
  BY <1>4, <1>5, <1>6, <1>7, <1>8, <1>9, <1>10, <1>11, <1>12, <1>13, <1>14, <1>15,
     <1>16, <1>17, <1>18 DEF Next

\* Every call of the system, and a block without time, balances.
LEMMA StepBalances ==
    ASSUME IInv, Next, chain'.now = chain.now
    PROVE  Balanced(chain, chain')
<1>1. Sound(chain)
  BY DEF IInv, TypeOK, ScaledTotalsAreSums, Sound, Adds
<1>2. Amount \subseteq Nat /\ Fee \subseteq Nat /\ Gap \subseteq Nat
  BY AccountingAssumption
<1>3. \A outcomes : Take(outcomes) => chain' \in outcomes
  BY DEF Take
<1>4. CASE SupplyCall
  BY <1>1, <1>2, <1>3, <1>4, SupplyBalances DEF SupplyCall
<1>5. CASE WithdrawCall
  BY <1>1, <1>2, <1>3, <1>5, WithdrawBalances DEF WithdrawCall
<1>6. CASE TransferCall
  BY <1>1, <1>2, <1>3, <1>6, TransferBalances DEF TransferCall
<1>7. CASE CollateralCall
  BY <1>1, <1>3, <1>7, CollateralBalances DEF CollateralCall
<1>8. CASE DelegationCall
  BY <1>1, <1>2, <1>3, <1>8, DelegationBalances DEF DelegationCall
<1>9. CASE BorrowCall
  BY <1>1, <1>2, <1>3, <1>9, BorrowBalances DEF BorrowCall
<1>10. CASE RepayCall
  BY <1>1, <1>2, <1>3, <1>10, RepayBalances DEF RepayCall
<1>11. CASE SwapCall
  BY <1>1, <1>3, <1>11, SwapBalances DEF SwapCall
<1>12. CASE RebalanceCall
  BY <1>1, <1>3, <1>12, RebalanceBalances DEF RebalanceCall
<1>13. CASE TreasuryCall
  BY <1>1, <1>3, <1>13, TreasuryBalances DEF TreasuryCall
<1>14. CASE UnbackedCall
  BY <1>1, <1>2, <1>3, <1>14, UnbackedBalances DEF UnbackedCall
<1>15. CASE BackingCall
  BY <1>1, <1>2, <1>3, <1>15, BackingBalances DEF BackingCall
<1>16. CASE FlashLoan
  BY <1>1, <1>2, <1>3, <1>16, FlashOutBalances DEF FlashLoan
<1>17. CASE FlashRepayment
  BY <1>1, <1>2, <1>3, <1>17, FlashBackBalances DEF FlashRepayment, Sound, IsChain
<1>18. CASE NextBlock
  BY <1>1, <1>2, <1>3, <1>18, TickBalances DEF NextBlock
<1> QED
  BY <1>4, <1>5, <1>6, <1>7, <1>8, <1>9, <1>10, <1>11, <1>12, <1>13, <1>14, <1>15,
     <1>16, <1>17, <1>18 DEF Next

\* What a call tells of the three tokens is what an indexer needs to know.
LEMMA ToldBalances ==
    ASSUME NEW c, Sound(c), NEW d, Sound(d), Told(c, d),
           NEW token \in {"hToken", "vToken", "sToken"}, NEW u \in Holders(token)
    PROVE  TellsBalance(c, d, token, u)
<1> DEFINE told == Received(d.log, token, u)
<1>1. CASE token = "hToken"
  <2>1. u \in Account
    BY <1>1 DEF Holders
  <2>2. /\ Recorded(d, token, u) = Balance(d.h, u) /\ Recorded(c, token, u) = Balance(c.h, u)
        /\ SlackOf(d, token) = Slack(NormalizedIncome(d))
    BY <1>1 DEF Recorded, Balance, SlackOf
  <2>3. told - (Balance(d.h, u) - Balance(c.h, u))
          \in -Slack(NormalizedIncome(d)) .. Slack(NormalizedIncome(d))
    BY <1>1, <2>1, Zenon DEF Told, Tells
  <2> QED BY <2>2, <2>3, Zenon DEF TellsBalance
<1>2. CASE token = "vToken"
  <2>1. u \in User
    BY <1>2 DEF Holders
  <2>2. /\ Recorded(d, token, u) = Balance(d.v, u) /\ Recorded(c, token, u) = Balance(c.v, u)
        /\ SlackOf(d, token) = Slack(NormalizedDebt(d))
    BY <1>2 DEF Recorded, Balance, SlackOf
  <2>3. told - (Balance(d.v, u) - Balance(c.v, u))
          \in -Slack(NormalizedDebt(d)) .. Slack(NormalizedDebt(d))
    BY <1>2, <2>1, Zenon DEF Told, Tells
  <2> QED BY <2>2, <2>3, Zenon DEF TellsBalance
<1>3. CASE token = "sToken"
  <2>1. u \in User
    BY <1>3 DEF Holders
  <2>2. /\ Recorded(d, token, u) = d.s.principal[u] /\ Recorded(c, token, u) = c.s.principal[u]
        /\ SlackOf(d, token) = 0
    BY <1>3 DEF Recorded, SlackOf
  <2>3. told = d.s.principal[u] - c.s.principal[u]
    BY <1>3, <2>1, Zenon DEF Told, TellsStable
  <2>4. d.s.principal[u] \in Nat /\ c.s.principal[u] \in Nat
    BY <2>1, StableType DEF Sound
  <2> HIDE DEF told
  <2>5. told - (d.s.principal[u] - c.s.principal[u]) \in -0 .. 0
    BY <2>3, <2>4, SMT
  <2> QED BY <2>2, <2>5, Zenon DEF TellsBalance, told
<1> QED
  BY <1>1, <1>2, <1>3

\* Whoever adds up Transfer events knows, after any call by anyone, every balance
\* of hTokens and variable debt but for one rounding of that call, and every
\* stable debt exactly: burns that turn into mints when interest exceeds them,
\* transfers to oneself and debts that change their mode not excepted.
THEOREM EventsAlwaysTell == Spec => EventsTellBalances
<1> DEFINE Tell == \A token \in {"hToken", "vToken", "sToken"} : \A u \in Holders(token) :
                      TellsBalance(chain, chain', token, u)
<1>1. IInv /\ Next => Tell
  <2> SUFFICES ASSUME IInv, Next PROVE Tell
    OBVIOUS
  <2>1. Sound(chain) /\ Sound(chain')
    BY StepKeeps DEF IInv, TypeOK, ScaledTotalsAreSums, Sound, Adds, Keeps
  <2>2. Told(chain, chain')
    BY StepTells
  <2> QED BY <2>1, <2>2, ToldBalances, Zenon
<1>2. IInv /\ [Next]_vars => [Tell]_vars
  BY <1>1
<1> QED
  BY <1>2, InitIInv, NextIInv, PTL DEF Spec, EventsTellBalances

\* A call of supply, borrow, repay or any other handler moves what the reserve is
\* worth and what it owes alike: whatever accrued before it, nothing is created or
\* lost by it but the roundings of its scaled tokens and of a premium's share.
THEOREM SurplusAlwaysKept == Spec => CallsKeepSurplus
<1> DEFINE Keep == chain'.now = chain.now =>
                     Surplus(chain') - Surplus(chain) \in -CallSlack(chain') .. CallSlack(chain')
<1>1. IInv /\ Next => Keep
  BY StepBalances DEF Balanced
<1>2. IInv /\ [Next]_vars => [Keep]_vars
  BY <1>1
<1> QED
  BY <1>2, InitIInv, NextIInv, PTL DEF Spec, CallsKeepSurplus
=============================================================================
