---------------------------- MODULE WadRayProofs ----------------------------
(***************************************************************************)
(* Facts about the fixed-point products, for every value of the scales,    *)
(* and that the arithmetic of the test suites is that of the contracts     *)
(* wherever both are defined: on amounts, indexes and rates, which are     *)
(* never negative.                                                         *)
(***************************************************************************)
EXTENDS WadRayTs, TLAPS

\* Truncated division of naturals gives a natural.
LEMMA DivType == \A n \in Nat, d \in Nat \ {0} : n \div d \in Nat
  BY SMT

\* A quotient is the only number whose multiple brackets the dividend.
LEMMA DivUnique ==
    \A n, q \in Nat, d \in Nat \ {0} : d * q <= n /\ n < d * q + d => n \div d = q
  BY SMT

\* An upper bound of a quotient from one of the dividend.
LEMMA DivAtMost ==
    \A n, q \in Nat, d \in Nat \ {0} : n < d * (q + 1) => n \div d <= q
  BY SMT

\* A lower bound of a quotient from one of the dividend.
LEMMA DivAtLeast ==
    \A n, q \in Nat, d \in Nat \ {0} : d * q <= n => q <= n \div d
  BY SMT

\* Products of naturals are naturals.
LEMMA ProductType == \A m, n \in Nat : m * n \in Nat
  BY SMT

\* Multiplication preserves the order of naturals.
LEMMA ProductMonotone == \A k, m, n \in Nat : m <= n => k * m <= k * n
  BY SMT

\* Half a ray, doubled, is a ray.
LEMMA HalfRay == RAY \in Nat \ {0} /\ HALF_RAY \in Nat /\ 2 * HALF_RAY = RAY
  BY SMT, ScaleAssumption DEF HALF_RAY

\* Half the percentage factor, doubled, is the percentage factor.
LEMMA HalfFactor ==
    /\ PERCENTAGE_FACTOR \in Nat \ {0} /\ HALF_PERCENTAGE_FACTOR \in Nat
    /\ 2 * HALF_PERCENTAGE_FACTOR = PERCENTAGE_FACTOR
  BY SMT, ScaleAssumption DEF HALF_PERCENTAGE_FACTOR

\* rayMul of naturals, as balances are computed, is a natural.
LEMMA RayMulType == \A a, b \in Nat : RayMul(a, b) \in Nat
<1> SUFFICES ASSUME NEW a \in Nat, NEW b \in Nat PROVE RayMul(a, b) \in Nat
  OBVIOUS
<1>1. a * b + HALF_RAY \in Nat
  BY ProductType, HalfRay, SMT
<1> QED
  BY <1>1, DivType, HalfRay, Zenon DEF RayMul

\* rayDiv of naturals, by an index that is not zero, is a natural.
LEMMA RayDivType == \A a \in Nat, b \in Nat \ {0} : RayDiv(a, b) \in Nat
<1> SUFFICES ASSUME NEW a \in Nat, NEW b \in Nat \ {0} PROVE RayDiv(a, b) \in Nat
  OBVIOUS
<1>1. a * RAY \in Nat /\ b \div 2 \in Nat
  BY ProductType, HalfRay, SMT
<1>2. a * RAY + (b \div 2) \in Nat
  BY <1>1, SMT
<1> QED
  BY <1>2, DivType, Zenon DEF RayDiv

\* percentMul of naturals is a natural.
LEMMA PercentMulType == \A v, p \in Nat : PercentMul(v, p) \in Nat
<1> SUFFICES ASSUME NEW v \in Nat, NEW p \in Nat PROVE PercentMul(v, p) \in Nat
  OBVIOUS
<1>1. v * p + HALF_PERCENTAGE_FACTOR \in Nat
  BY ProductType, HalfFactor, SMT
<1> QED
  BY <1>1, DivType, HalfFactor, Zenon DEF PercentMul

\* percentDiv of naturals, by a percentage that is not zero, is a natural.
LEMMA PercentDivType == \A v \in Nat, p \in Nat \ {0} : PercentDiv(v, p) \in Nat
<1> SUFFICES ASSUME NEW v \in Nat, NEW p \in Nat \ {0} PROVE PercentDiv(v, p) \in Nat
  OBVIOUS
<1>1. v * PERCENTAGE_FACTOR \in Nat /\ p \div 2 \in Nat
  BY ProductType, HalfFactor, SMT
<1>2. v * PERCENTAGE_FACTOR + (p \div 2) \in Nat
  BY <1>1, SMT
<1> QED
  BY <1>2, DivType, Zenon DEF PercentDiv

\* The balance of scaled tokens at an index of at least one ray is at least as
\* many units, and zero only without tokens.
LEMMA RayMulGrows ==
    \A s \in Nat, i \in Nat : i >= RAY => RayMul(s, i) >= s
<1> SUFFICES ASSUME NEW s \in Nat, NEW i \in Nat, i >= RAY
             PROVE  RayMul(s, i) >= s
  OBVIOUS
<1>1. RAY * s <= s * i
  BY ProductMonotone, HalfRay, SMT
<1>2. s * i + HALF_RAY \in Nat /\ RAY * s <= s * i + HALF_RAY
  BY <1>1, ProductType, HalfRay, SMT
<1> QED
  BY <1>2, DivAtLeast, HalfRay, SMT DEF RayMul

\* No scaled tokens, no balance.
LEMMA RayMulZero == \A i \in Nat : RayMul(0, i) = 0
<1> SUFFICES ASSUME NEW i \in Nat PROVE RayMul(0, i) = 0
  OBVIOUS
<1>1. 0 * i + HALF_RAY = HALF_RAY
  BY HalfRay, SMT
<1>2. HALF_RAY \div RAY = 0
  BY DivUnique, HalfRay, SMT
<1> QED
  BY <1>1, <1>2 DEF RayMul

\* An index that has reached a ray stays there when it grows by a factor.
LEMMA IndexGrows ==
    \A i, g \in Nat : i >= RAY /\ g >= RAY => RayMul(i, g) >= RAY
<1> SUFFICES ASSUME NEW i \in Nat, NEW g \in Nat, i >= RAY, g >= RAY
             PROVE  RayMul(i, g) >= RAY
  OBVIOUS
<1>1. RayMul(i, g) >= i
  BY RayMulGrows
<1> QED
  BY <1>1, RayMulType, HalfRay, SMT

\* Burning (or moving) the whole balance burns the whole scaled balance: no
\* rounding of the index arithmetic leaves a scaled unit behind.
LEMMA RoundTrip ==
    \A s, i \in Nat : i >= RAY => RayDiv(RayMul(s, i), i) = s
<1> SUFFICES ASSUME NEW s \in Nat, NEW i \in Nat, i >= RAY
             PROVE  RayDiv(RayMul(s, i), i) = s
  OBVIOUS
<1> DEFINE p == s * i
           m == RayMul(s, i)
<1>1. p \in Nat /\ m \in Nat /\ i \in Nat \ {0} /\ i * s = p
  BY ProductType, RayMulType, HalfRay, SMT
<1>2. RAY * m <= p + HALF_RAY /\ p + HALF_RAY < RAY * m + RAY
  BY <1>1, HalfRay, SMT DEF RayMul
<1>3. CASE i = RAY
  <2>1. m = s
    BY <1>1, <1>3, DivUnique, HalfRay, SMT DEF RayMul
  <2>2. RAY * s <= s * RAY + (RAY \div 2) /\ s * RAY + (RAY \div 2) < RAY * s + RAY
    BY HalfRay, SMT
  <2> QED
    BY <1>3, <2>1, <2>2, DivUnique, HalfRay, ProductType, SMT DEF RayDiv
<1>4. CASE i > RAY
  <2> DEFINE n == m * RAY + (i \div 2)
  <2>1. n \in Nat /\ m * RAY = RAY * m
    BY <1>1, HalfRay, ProductType, SMT
  <2>2. p <= n
    BY <1>1, <1>2, <1>4, <2>1, HalfRay, SMT
  <2>3. n < p + i
    BY <1>1, <1>2, <1>4, <2>1, HalfRay, SMT
  <2>4. n \div i = s
    BY <1>1, <2>1, <2>2, <2>3, DivUnique
  <2> QED
    BY <2>4 DEF RayDiv
<1> QED
  BY <1>3, <1>4, HalfRay, SMT

\* A share of at most 100% is at most the whole.
LEMMA PercentMulBound ==
    \A v, p \in Nat : p <= PERCENTAGE_FACTOR => PercentMul(v, p) <= v
<1> SUFFICES ASSUME NEW v \in Nat, NEW p \in Nat, p <= PERCENTAGE_FACTOR
             PROVE  PercentMul(v, p) <= v
  OBVIOUS
<1>1. v * p <= v * PERCENTAGE_FACTOR /\ v * p \in Nat /\ v * PERCENTAGE_FACTOR \in Nat
  BY ProductMonotone, ProductType, HalfFactor, SMT
<1>2. v * p + HALF_PERCENTAGE_FACTOR < PERCENTAGE_FACTOR * (v + 1)
  BY <1>1, HalfFactor, SMT
<1> QED
  BY <1>1, <1>2, DivAtMost, HalfFactor, SMT DEF PercentMul

\* Dividing by at least 100% does not increase.
LEMMA PercentDivBound ==
    \A v, p \in Nat : p >= PERCENTAGE_FACTOR => PercentDiv(v, p) <= v
<1> SUFFICES ASSUME NEW v \in Nat, NEW p \in Nat, p >= PERCENTAGE_FACTOR
             PROVE  PercentDiv(v, p) <= v
  OBVIOUS
<1>1. v * PERCENTAGE_FACTOR <= v * p /\ v * p \in Nat /\ v * PERCENTAGE_FACTOR \in Nat
  BY ProductMonotone, ProductType, HalfFactor, SMT
<1>2. v * PERCENTAGE_FACTOR + (p \div 2) < p * (v + 1)
  BY <1>1, HalfFactor, SMT
<1> QED
  BY <1>1, <1>2, DivAtMost, HalfFactor, SMT DEF PercentDiv

\* At an index of one ray nothing is scaled and nothing is rounded.
LEMMA RayIsOne == \A n \in Nat : RayMul(n, RAY) = n /\ RayDiv(n, RAY) = n
<1> SUFFICES ASSUME NEW n \in Nat PROVE RayMul(n, RAY) = n /\ RayDiv(n, RAY) = n
  OBVIOUS
<1>1. n * RAY + (RAY \div 2) \in Nat
  BY HalfRay, ProductType, SMT
<1>2. /\ RAY * n <= n * RAY + (RAY \div 2)
      /\ n * RAY + (RAY \div 2) < RAY * n + RAY
  BY HalfRay, SMT
<1>3. (n * RAY + (RAY \div 2)) \div RAY = n
  BY <1>1, <1>2, DivUnique, HalfRay
<1> QED
  BY <1>3 DEF RayMul, RayDiv, HALF_RAY

-----------------------------------------------------------------------------
(* What a liquidation seizes is worth what it repays, and the bonus.  pc and *)
(* pd are the prices of the collateral and of the debt, in common units.     *)

\* A quotient brackets the dividend.
LEMMA DivBrackets ==
    \A n \in Nat, d \in Nat \ {0} :
        /\ n \div d \in Nat
        /\ d * (n \div d) <= n
        /\ n < d * (n \div d) + d
  BY SMT

\* A factor preserves the order, on either side, and a positive one reflects it.
LEMMA OrderOfProducts ==
    \A k, m, n \in Nat : /\ m <= n => k * m <= k * n /\ m * k <= n * k
                         /\ m < n /\ k # 0 => k * m < k * n
                         /\ k * m < k * n => m < n
  BY SMT

\* The debt that a capped liquidation repays is at most the debt it was to repay.
LEMMA CapLowersDebt ==
    ASSUME NEW pc \in Nat \ {0}, NEW pd \in Nat \ {0}, NEW bonus \in Nat \ {0},
           NEW owed \in Nat, NEW balance \in Nat,
           PercentMul((pd * owed) \div pc, bonus) > balance
    PROVE  PercentDiv((pc * balance) \div pd, bonus) <= owed
<1> DEFINE base == (pd * owed) \div pc
           back == (pc * balance) \div pd
           wanted == PercentMul(base, bonus)
<1>1. pd * owed \in Nat /\ pc * balance \in Nat
  BY ProductType, SMT
<1>2. base \in Nat /\ pc * base <= pd * owed
  BY <1>1, DivBrackets
<1>3. back \in Nat /\ pd * back <= pc * balance
  BY <1>1, DivBrackets
<1>4. wanted > balance
  OBVIOUS
<1> HIDE DEF base, back
<1>5. wanted \in Nat /\ balance + 1 <= wanted
  <2>1. wanted \in Nat
    BY <1>2, PercentMulType
  <2> HIDE DEF wanted
  <2> QED
    BY <1>4, <2>1
<1>6. base * bonus \in Nat /\ back * PERCENTAGE_FACTOR \in Nat
  BY <1>2, <1>3, HalfFactor, ProductType
<1>7. PERCENTAGE_FACTOR * wanted <= base * bonus + HALF_PERCENTAGE_FACTOR
  BY <1>6, HalfFactor, DivBrackets DEF PercentMul
<1>8. PERCENTAGE_FACTOR * balance <= base * bonus
  <2>1. PERCENTAGE_FACTOR * (balance + 1) <= PERCENTAGE_FACTOR * wanted
    BY <1>5, HalfFactor, OrderOfProducts
  <2>2. /\ PERCENTAGE_FACTOR * (balance + 1) = PERCENTAGE_FACTOR * balance + PERCENTAGE_FACTOR
        /\ PERCENTAGE_FACTOR * balance \in Nat /\ PERCENTAGE_FACTOR * wanted \in Nat
    BY <1>5, HalfFactor, ProductType, SMT
  <2> QED
    BY <1>6, <1>7, <2>1, <2>2, HalfFactor
<1>9. pd * (back * PERCENTAGE_FACTOR) <= pd * (owed * bonus)
  <2>1. (pd * back) * PERCENTAGE_FACTOR <= (pc * balance) * PERCENTAGE_FACTOR
    <3>1. pd * back \in Nat
      BY <1>3, ProductType
    <3> QED
      BY <1>1, <1>3, <3>1, HalfFactor, OrderOfProducts
  <2>2. pc * (PERCENTAGE_FACTOR * balance) <= pc * (base * bonus)
    <3>1. PERCENTAGE_FACTOR * balance \in Nat
      BY HalfFactor, ProductType
    <3> QED
      BY <1>6, <1>8, <3>1, OrderOfProducts
  <2>3. (pc * base) * bonus <= (pd * owed) * bonus
    <3>1. pc * base \in Nat
      BY <1>2, ProductType
    <3> QED
      BY <1>1, <1>2, <3>1, OrderOfProducts
  <2>4. /\ (pd * back) * PERCENTAGE_FACTOR = pd * (back * PERCENTAGE_FACTOR)
        /\ (pc * balance) * PERCENTAGE_FACTOR = pc * (PERCENTAGE_FACTOR * balance)
        /\ pc * (base * bonus) = (pc * base) * bonus
        /\ (pd * owed) * bonus = pd * (owed * bonus)
    BY <1>2, <1>3, HalfFactor, SMT
  <2>5. /\ pd * (back * PERCENTAGE_FACTOR) \in Nat /\ pd * (owed * bonus) \in Nat
        /\ pc * (PERCENTAGE_FACTOR * balance) \in Nat /\ pc * (base * bonus) \in Nat
    BY <1>2, <1>3, HalfFactor, SMT
  <2> QED
    BY <2>1, <2>2, <2>3, <2>4, <2>5
<1>10. back * PERCENTAGE_FACTOR <= owed * bonus /\ owed * bonus \in Nat
  <2>1. owed * bonus \in Nat
    BY ProductType
  <2>2. ~(owed * bonus < back * PERCENTAGE_FACTOR)
    <3>1. pd * (back * PERCENTAGE_FACTOR) \in Nat /\ pd * (owed * bonus) \in Nat
      BY <1>6, <2>1, ProductType
    <3> QED
      BY <1>6, <1>9, <2>1, <3>1, OrderOfProducts
  <2> QED
    BY <1>6, <2>1, <2>2
<1>11. back * PERCENTAGE_FACTOR + (bonus \div 2) < bonus * (owed + 1)
  <2>1. bonus * (owed + 1) = owed * bonus + bonus /\ bonus \div 2 < bonus /\ bonus \div 2 \in Nat
    BY SMT
  <2> QED
    BY <1>6, <1>10, <2>1
<1>12. back * PERCENTAGE_FACTOR + (bonus \div 2) \in Nat
  BY <1>6, SMT
<1> QED
  BY <1>11, <1>12, DivAtMost DEF PercentDiv, back

\* What is seized for a debt is worth it and the bonus, whatever the rounding of
\* the product adds.
LEMMA WantedIsWorth ==
    ASSUME NEW pc \in Nat \ {0}, NEW pd \in Nat \ {0}, NEW bonus \in Nat \ {0},
           NEW owed \in Nat
    PROVE  2 * pc * PercentMul((pd * owed) \div pc, bonus) * PERCENTAGE_FACTOR
              <= pd * (2 * owed + 1) * bonus + (pc + 2 * pd) * PERCENTAGE_FACTOR
<1> DEFINE base == (pd * owed) \div pc
           wanted == PercentMul(base, bonus)
<1>1. pd * owed \in Nat
  BY ProductType, SMT
<1>2. base \in Nat /\ pc * base <= pd * owed
  BY <1>1, DivBrackets
<1> HIDE DEF base
<1>3. wanted \in Nat /\ base * bonus \in Nat
  BY <1>2, PercentMulType, ProductType
<1>4. PERCENTAGE_FACTOR * wanted <= base * bonus + HALF_PERCENTAGE_FACTOR
  BY <1>3, HalfFactor, DivBrackets DEF PercentMul
<1> HIDE DEF wanted
<1>5. 2 * pc * wanted * PERCENTAGE_FACTOR
         <= 2 * ((pc * base) * bonus) + pc * PERCENTAGE_FACTOR
  <2>1. PERCENTAGE_FACTOR * wanted \in Nat /\ base * bonus + HALF_PERCENTAGE_FACTOR \in Nat
    BY <1>3, HalfFactor, ProductType, SMT
  <2>2. pc * (PERCENTAGE_FACTOR * wanted) <= pc * (base * bonus + HALF_PERCENTAGE_FACTOR)
    BY <1>4, <2>1, OrderOfProducts
  <2>3. 2 * (pc * (base * bonus + HALF_PERCENTAGE_FACTOR))
           = 2 * ((pc * base) * bonus) + pc * PERCENTAGE_FACTOR
    <3>1. pc * (base * bonus + HALF_PERCENTAGE_FACTOR)
             = (pc * base) * bonus + pc * HALF_PERCENTAGE_FACTOR
      BY <1>2, <1>3, HalfFactor, SMT
    <3>2. 2 * (pc * HALF_PERCENTAGE_FACTOR) = pc * PERCENTAGE_FACTOR
      BY HalfFactor, SMT
    <3>3. (pc * base) * bonus \in Nat /\ pc * HALF_PERCENTAGE_FACTOR \in Nat
      BY <1>2, HalfFactor, ProductType
    <3> QED
      BY <3>1, <3>2, <3>3
  <2>4. 2 * pc * wanted * PERCENTAGE_FACTOR = 2 * (pc * (PERCENTAGE_FACTOR * wanted))
    BY <1>3, HalfFactor, SMT
  <2>5. /\ pc * (PERCENTAGE_FACTOR * wanted) \in Nat
        /\ pc * (base * bonus + HALF_PERCENTAGE_FACTOR) \in Nat
    BY <2>1, ProductType
  <2> QED
    BY <2>2, <2>3, <2>4, <2>5
<1>6. (pc * base) * bonus <= (pd * owed) * bonus
  BY <1>1, <1>2, ProductType, OrderOfProducts
<1>7. /\ pd * (2 * owed + 1) * bonus = 2 * ((pd * owed) * bonus) + pd * bonus
      /\ (pc + 2 * pd) * PERCENTAGE_FACTOR
            = pc * PERCENTAGE_FACTOR + 2 * (pd * PERCENTAGE_FACTOR)
  BY HalfFactor, SMT
<1>8. /\ (pc * base) * bonus \in Nat /\ (pd * owed) * bonus \in Nat /\ pd * bonus \in Nat
      /\ pc * PERCENTAGE_FACTOR \in Nat /\ pd * PERCENTAGE_FACTOR \in Nat
      /\ 2 * pc * wanted * PERCENTAGE_FACTOR \in Nat
  BY <1>1, <1>2, <1>3, HalfFactor, SMT
<1> QED
  BY <1>5, <1>6, <1>7, <1>8 DEF wanted, base

\* So is a whole balance, of the debt repaid for it.
LEMMA BalanceIsWorth ==
    ASSUME NEW pc \in Nat \ {0}, NEW pd \in Nat \ {0}, NEW bonus \in Nat \ {0},
           NEW balance \in Nat
    PROVE  2 * pc * balance * PERCENTAGE_FACTOR
              <= pd * (2 * PercentDiv((pc * balance) \div pd, bonus) + 1) * bonus
                    + (pc + 2 * pd) * PERCENTAGE_FACTOR
<1> DEFINE back == (pc * balance) \div pd
           debt == PercentDiv(back, bonus)
<1>1. pc * balance \in Nat
  BY ProductType, SMT
<1>2. back \in Nat /\ pc * balance < pd * back + pd
  BY <1>1, DivBrackets
<1> HIDE DEF back
<1>3. debt \in Nat /\ back * PERCENTAGE_FACTOR \in Nat /\ bonus \div 2 \in Nat
  BY <1>2, HalfFactor, PercentDivType, ProductType, DivType
<1>4. back * PERCENTAGE_FACTOR + (bonus \div 2) < bonus * debt + bonus
  <2>1. back * PERCENTAGE_FACTOR + (bonus \div 2) \in Nat
    BY <1>3
  <2> QED
    BY <2>1, DivBrackets DEF PercentDiv
<1> HIDE DEF debt
<1>5. 2 * (back * PERCENTAGE_FACTOR) <= (2 * debt + 1) * bonus
  <2>1. /\ (2 * debt + 1) * bonus = 2 * (bonus * debt) + bonus
        /\ bonus * debt \in Nat /\ 2 * (bonus \div 2) >= bonus - 1
    BY <1>3, SMT
  <2> QED
    BY <1>3, <1>4, <2>1
<1>6. pd * (2 * (back * PERCENTAGE_FACTOR)) <= pd * ((2 * debt + 1) * bonus)
  <2>1. 2 * (back * PERCENTAGE_FACTOR) \in Nat /\ (2 * debt + 1) * bonus \in Nat
    BY <1>3, SMT
  <2> QED
    BY <1>5, <2>1, OrderOfProducts
<1>7. (pc * balance) * PERCENTAGE_FACTOR <= (pd * back + pd) * PERCENTAGE_FACTOR
  <2>1. pd * back + pd \in Nat
    BY <1>2, SMT
  <2> QED
    BY <1>1, <1>2, <2>1, HalfFactor, OrderOfProducts
<1>8. /\ 2 * pc * balance * PERCENTAGE_FACTOR = 2 * ((pc * balance) * PERCENTAGE_FACTOR)
      /\ 2 * ((pd * back + pd) * PERCENTAGE_FACTOR)
            = pd * (2 * (back * PERCENTAGE_FACTOR)) + 2 * (pd * PERCENTAGE_FACTOR)
      /\ (pc + 2 * pd) * PERCENTAGE_FACTOR
            = pc * PERCENTAGE_FACTOR + 2 * (pd * PERCENTAGE_FACTOR)
      /\ pd * (2 * debt + 1) * bonus = pd * ((2 * debt + 1) * bonus)
  BY <1>2, <1>3, HalfFactor, SMT
<1>9. /\ (pc * balance) * PERCENTAGE_FACTOR \in Nat
      /\ (pd * back + pd) * PERCENTAGE_FACTOR \in Nat
      /\ pd * (2 * (back * PERCENTAGE_FACTOR)) \in Nat
      /\ pd * ((2 * debt + 1) * bonus) \in Nat
      /\ pc * PERCENTAGE_FACTOR \in Nat /\ pd * PERCENTAGE_FACTOR \in Nat
  BY <1>1, <1>2, <1>3, HalfFactor, SMT
<1> QED
  BY <1>6, <1>7, <1>8, <1>9 DEF debt, back

-----------------------------------------------------------------------------
(* How the products order, split and round what they are taken of: what    *)
(* the roundings of a call can add up to.                                  *)

\* Truncated quotients follow the order of their dividends.
LEMMA DivOrder ==
    \A m, n \in Nat, d \in Nat \ {0} : m <= n => m \div d <= n \div d
<1> SUFFICES ASSUME NEW m \in Nat, NEW n \in Nat, NEW d \in Nat \ {0}, m <= n
             PROVE  m \div d <= n \div d
  OBVIOUS
<1> DEFINE q == m \div d
<1>1. q \in Nat /\ d * q <= m
  BY DivBrackets
<1>2. d * q \in Nat
  BY <1>1, ProductType
<1> HIDE DEF q
<1>3. q <= n \div d
  <2>1. d * q <= n
    BY <1>1, <1>2, SMT
  <2> QED BY <1>1, <2>1, DivAtLeast
<1> QED BY <1>3 DEF q

\* A larger scaled balance is a larger balance.
LEMMA RayMulOrder ==
    \A m, n, i \in Nat : m <= n => RayMul(m, i) <= RayMul(n, i)
<1> SUFFICES ASSUME NEW m \in Nat, NEW n \in Nat, NEW i \in Nat, m <= n
             PROVE  RayMul(m, i) <= RayMul(n, i)
  OBVIOUS
<1> DEFINE x == m * i + HALF_RAY
           y == n * i + HALF_RAY
<1>1. m * i <= n * i /\ m * i \in Nat /\ n * i \in Nat
  BY OrderOfProducts, ProductType
<1>2. x \in Nat /\ y \in Nat /\ x <= y
  BY <1>1, HalfRay, SMT
<1> HIDE DEF x, y
<1>3. x \div RAY <= y \div RAY
  BY <1>2, HalfRay, DivOrder
<1> QED
  BY <1>3 DEF RayMul, x, y

\* Dividing by an index preserves the order.
LEMMA RayDivMonotone ==
    \A a, b \in Nat, i \in Nat \ {0} : a <= b => RayDiv(a, i) <= RayDiv(b, i)
<1> SUFFICES ASSUME NEW a \in Nat, NEW b \in Nat, NEW i \in Nat \ {0}, a <= b
             PROVE  RayDiv(a, i) <= RayDiv(b, i)
  OBVIOUS
<1> DEFINE m == a * RAY + (i \div 2)
           n == b * RAY + (i \div 2)
           q == m \div i
<1>1. m \in Nat /\ n \in Nat /\ m <= n
  <2>1. a * RAY \in Nat /\ b * RAY \in Nat /\ a * RAY <= b * RAY
    BY HalfRay, OrderOfProducts, ProductType, Zenon
  <2> QED BY <2>1, SMT
<1> HIDE DEF m, n
<1>2. q \in Nat /\ i * q <= m
  BY <1>1, DivBrackets
<1>3. i * q \in Nat
  BY <1>2, ProductType
<1> HIDE DEF q
<1>4. i * q <= n
  BY <1>1, <1>2, <1>3, SMT
<1>5. q <= n \div i
  BY <1>1, <1>2, <1>4, DivAtLeast
<1> QED
  BY <1>5 DEF RayDiv, q, m, n

\* Nothing is no scaled units.
LEMMA NothingScaled == \A i \in Nat \ {0} : RayDiv(0, i) = 0
<1> SUFFICES ASSUME NEW i \in Nat \ {0} PROVE RayDiv(0, i) = 0
  OBVIOUS
<1>1. 0 * RAY = 0
  BY HalfRay, SMT
<1>2. 0 + (i \div 2) \in Nat /\ i * 0 <= 0 + (i \div 2) /\ 0 + (i \div 2) < i * 0 + i
  BY SMT
<1>3. (0 + (i \div 2)) \div i = 0
  BY <1>2, DivUnique
<1> QED BY <1>1, <1>3 DEF RayDiv

\* A part of a balance is, scaled, a part of the scaled balance.
LEMMA ScaledPart ==
    \A s, i, n \in Nat : i >= RAY /\ n <= RayMul(s, i) => RayDiv(n, i) <= s
<1> SUFFICES ASSUME NEW s \in Nat, NEW i \in Nat, NEW n \in Nat, i >= RAY,
                    n <= RayMul(s, i)
             PROVE  RayDiv(n, i) <= s
  OBVIOUS
<1>1. i \in Nat \ {0} /\ RayMul(s, i) \in Nat
  BY HalfRay, RayMulType, SMT
<1> QED
  BY <1>1, RayDivMonotone, RoundTrip

\* Up to an index of two, no amount is too small for a scaled unit.
LEMMA SmallestAmount ==
    \A n \in Nat \ {0}, i \in Nat \ {0} : i <= 2 * RAY => RayDiv(n, i) # 0
<1> SUFFICES ASSUME NEW n \in Nat \ {0}, NEW i \in Nat \ {0}, i <= 2 * RAY
             PROVE  RayDiv(n, i) # 0
  OBVIOUS
<1> DEFINE m == n * RAY + (i \div 2)
<1>1. n * RAY \in Nat /\ RAY <= n * RAY
  BY HalfRay, SMT
<1>2. m \in Nat /\ i * 1 <= m
  BY <1>1, HalfRay, SMT
<1> HIDE DEF m
<1>3. 1 <= m \div i /\ m \div i \in Nat
  BY <1>2, DivAtLeast, DivType
<1>4. m \div i # 0
  BY <1>3, SMT
<1> QED
  BY <1>4 DEF RayDiv, m

\* PercentMul follows the order of the products.
LEMMA PercentMulOrder ==
    \A a, b, c, d \in Nat : a * b <= c * d => PercentMul(a, b) <= PercentMul(c, d)
<1> SUFFICES ASSUME NEW a \in Nat, NEW b \in Nat, NEW c \in Nat, NEW d \in Nat,
                    a * b <= c * d
             PROVE  PercentMul(a, b) <= PercentMul(c, d)
  OBVIOUS
<1> DEFINE m == a * b + HALF_PERCENTAGE_FACTOR
           n == c * d + HALF_PERCENTAGE_FACTOR
           q == m \div PERCENTAGE_FACTOR
<1>1. m \in Nat /\ n \in Nat /\ m <= n
  <2>1. a * b \in Nat /\ c * d \in Nat
    BY ProductType
  <2> QED BY <2>1, HalfFactor, SMT
<1> HIDE DEF m, n
<1>2. q \in Nat /\ PERCENTAGE_FACTOR * q <= m
  BY <1>1, HalfFactor, DivBrackets
<1>3. PERCENTAGE_FACTOR * q \in Nat
  BY <1>2, HalfFactor, ProductType
<1> HIDE DEF q
<1>4. PERCENTAGE_FACTOR * q <= n
  BY <1>1, <1>2, <1>3, SMT
<1>5. q <= n \div PERCENTAGE_FACTOR
  BY <1>1, <1>2, <1>4, HalfFactor, DivAtLeast
<1> QED
  BY <1>5 DEF PercentMul, q, m, n

\* A product that is larger by whole units is a share that is larger by as many.
LEMMA PercentMulShift ==
    \A a, b, c, d, k \in Nat :
        a * b <= c * d + k * PERCENTAGE_FACTOR => PercentMul(a, b) <= PercentMul(c, d) + k
<1> SUFFICES ASSUME NEW a \in Nat, NEW b \in Nat, NEW c \in Nat, NEW d \in Nat,
                    NEW k \in Nat, a * b <= c * d + k * PERCENTAGE_FACTOR
             PROVE  PercentMul(a, b) <= PercentMul(c, d) + k
  OBVIOUS
<1> DEFINE F == PERCENTAGE_FACTOR
           m == a * b + HALF_PERCENTAGE_FACTOR
           n == c * d + HALF_PERCENTAGE_FACTOR
           q == m \div F
           r == n \div F
<1>1. F \in Nat \ {0} /\ m \in Nat /\ n \in Nat /\ k * F \in Nat /\ m <= n + k * F
  <2>1. a * b \in Nat /\ c * d \in Nat /\ k * F \in Nat
    BY HalfFactor, ProductType
  <2> QED BY <2>1, HalfFactor, SMT
<1>2. PercentMul(a, b) = q /\ PercentMul(c, d) = r
  BY DEF PercentMul
<1> HIDE DEF m, n, F
<1>3. q \in Nat /\ F * q <= m /\ r \in Nat /\ n < F * r + F
  BY <1>1, DivBrackets
<1> HIDE DEF q, r
<1>4. F * (r + k + 1) = F * r + k * F + F /\ F * r \in Nat /\ F * q \in Nat
  BY <1>1, <1>3, SMT
<1>5. F * q < F * (r + k + 1)
  BY <1>1, <1>3, <1>4, SMT
<1>6. r + k + 1 \in Nat
  BY <1>3
<1>7. q < r + k + 1
  BY <1>1, <1>3, <1>5, <1>6, OrderOfProducts
<1> QED BY <1>2, <1>3, <1>7, SMT

\* A share, of at most 100%, that lends a value backs it.
LEMMA LentIsBacked ==
    ASSUME NEW x \in Nat, NEW l \in Nat \ {0}, NEW c \in Nat, NEW t \in Nat,
           l <= t, l <= PERCENTAGE_FACTOR, PercentDiv(x, l) <= c
    PROVE  x <= PercentMul(c, t)
<1> DEFINE F == PERCENTAGE_FACTOR
           H == HALF_PERCENTAGE_FACTOR
           m == x * F + (l \div 2)
           q == m \div l
           n == c * t + H
<1>1. F \in Nat \ {0} /\ H \in Nat /\ 2 * H = F
  BY HalfFactor
<1>2. x * F \in Nat /\ F * x = x * F /\ l \div 2 \in Nat /\ l - (l \div 2) <= H + 1
      /\ m \in Nat
  <2>1. x * F \in Nat /\ F * x = x * F
    BY <1>1, ProductType, SMT
  <2>2. l \div 2 \in Nat /\ l - (l \div 2) <= H + 1
    BY <1>1, SMT
  <2> QED BY <2>1, <2>2, SMT
<1>3. q <= c /\ q = PercentDiv(x, l)
  BY DEF PercentDiv
<1>4. q \in Nat /\ m < l * q + l
  BY <1>2, DivBrackets
<1>5. l * q <= c * t /\ l * q \in Nat /\ c * t \in Nat
  <2>1. l * q <= l * c /\ c * l <= c * t /\ l * c = c * l /\ l * c \in Nat
    BY <1>3, <1>4, ProductMonotone, ProductType, SMT
  <2>2. l * q \in Nat /\ c * t \in Nat
    BY <1>4, ProductType
  <2> HIDE DEF q
  <2> QED BY <2>1, <2>2, SMT
<1> HIDE DEF q, F, H
<1>6. F * x <= n /\ n \in Nat
  BY <1>1, <1>2, <1>4, <1>5, SMT
<1> HIDE DEF n, m
<1>7. x <= n \div F
  BY <1>1, <1>6, DivAtLeast
<1> QED BY <1>7 DEF PercentMul, n, F, H

\* What an amount of a reserve is worth, and weighs, follows the amount.
LEMMA WorthOrder ==
    ASSUME NEW m \in Nat, NEW n \in Nat, NEW p \in Nat, NEW d \in Nat \ {0}, NEW w \in Nat,
           m <= n
    PROVE  /\ (m * p) \div d \in Nat /\ (n * p) \div d \in Nat
           /\ (m * p) \div d <= (n * p) \div d
           /\ ((m * p) \div d) * w <= ((n * p) \div d) * w
<1>1. m * p <= n * p /\ m * p \in Nat /\ n * p \in Nat
  BY OrderOfProducts, ProductType
<1>2. (m * p) \div d \in Nat /\ (n * p) \div d \in Nat /\ (m * p) \div d <= (n * p) \div d
  BY <1>1, DivOrder, DivType
<1> QED
  BY <1>2, OrderOfProducts

\* What amounts are worth together, at price p in units of d.
LEMMA WorthOfSum ==
    ASSUME NEW m \in Nat, NEW n \in Nat, NEW p \in Nat, NEW d \in Nat \ {0}
    PROVE  /\ ((m + n) * p) \div d <= (m * p) \div d + ((n * p) \div d) + 1
           /\ (m * p) \div d + ((n * p) \div d) <= ((m + n) * p) \div d
           /\ ((m + n) * p) \div d <= (m * p) \div d + ((n * p + d - 1) \div d)
           /\ (m * p) \div d \in Nat /\ (n * p) \div d \in Nat
           /\ (n * p + d - 1) \div d \in Nat /\ ((m + n) * p) \div d \in Nat
<1> DEFINE x == m * p
           y == n * p
           z == n * p + d - 1
<1>1. x \in Nat /\ y \in Nat /\ (m + n) * p = x + y /\ x + y \in Nat
  <2>1. x \in Nat /\ y \in Nat
    BY ProductType
  <2>2. (m + n) * p = m * p + n * p
    BY SMT
  <2> QED BY <2>1, <2>2
<1>2. z \in Nat /\ z = y + d - 1
  BY <1>1, SMT
<1> HIDE DEF x, y, z
<1> DEFINE a == x \div d
           b == y \div d
           c == z \div d
           e == (x + y) \div d
<1>3. /\ a \in Nat /\ b \in Nat /\ c \in Nat /\ e \in Nat
      /\ d * a <= x /\ x < d * a + d
      /\ d * b <= y /\ y < d * b + d
      /\ d * c <= z /\ z < d * c + d
      /\ d * e <= x + y /\ x + y < d * e + d
  BY <1>1, <1>2, DivBrackets
<1> HIDE DEF a, b, c, e
<1>4. /\ d * (a + b) = d * a + d * b /\ d * (a + b + 2) = d * a + d * b + 2 * d
      /\ d * (a + c + 1) = d * a + d * c + d /\ d * (e + 1) = d * e + d
      /\ d * a \in Nat /\ d * b \in Nat /\ d * c \in Nat /\ d * e \in Nat
  BY <1>3, SMT
<1>5. d * e < d * (a + b + 2) /\ d * (a + b) < d * (e + 1) /\ d * e < d * (a + c + 1)
  BY <1>1, <1>2, <1>3, <1>4, SMT
<1>6. a + b + 2 \in Nat /\ a + b \in Nat /\ e + 1 \in Nat /\ a + c + 1 \in Nat
  BY <1>3
<1>7. e < a + b + 2 /\ a + b < e + 1 /\ e < a + c + 1
  BY <1>3, <1>5, <1>6, OrderOfProducts
<1>8. e <= a + b + 1 /\ a + b <= e /\ e <= a + c
  BY <1>3, <1>7, SMT
<1> QED BY <1>1, <1>3, <1>8 DEF a, b, c, e, x, y, z

\* Amounts that moved between debts and balances, but for two drifts, are worth the
\* same but for what the drifts are worth and one truncation.
LEMMA RoundingsAreWorth ==
    ASSUME NEW p \in Nat, NEW d \in Nat \ {0}, NEW n \in Nat, NEW h \in Nat,
           NEW m \in Nat, NEW g \in Nat, NEW x \in Nat, NEW y \in Nat,
           n + h <= m + g + x + y
    PROVE  (n * p) \div d + ((h * p) \div d)
              <= (m * p) \div d + ((g * p) \div d)
                    + (1 + ((y * p + d - 1) \div d) + ((x * p + d - 1) \div d))
<1> DEFINE val(k) == (k * p) \div d
           up(k) == (k * p + d - 1) \div d
<1>1. ASSUME NEW j \in Nat, NEW k \in Nat
      PROVE  /\ val(j + k) <= val(j) + val(k) + 1 /\ val(j) + val(k) <= val(j + k)
             /\ val(j + k) <= val(j) + up(k)
             /\ val(j) \in Nat /\ val(k) \in Nat /\ up(k) \in Nat /\ val(j + k) \in Nat
  BY WorthOfSum
<1>2. /\ n + h \in Nat /\ m + g \in Nat /\ (m + g) + x \in Nat
      /\ ((m + g) + x) + y \in Nat /\ n + h <= ((m + g) + x) + y
  OBVIOUS
<1>3. val(n + h) <= val(((m + g) + x) + y)
  BY <1>2, WorthOrder, 0 \in Nat
<1> HIDE DEF val, up
<1>4. val(((m + g) + x) + y) <= val((m + g) + x) + up(y) /\ up(y) \in Nat
      /\ val(((m + g) + x) + y) \in Nat /\ val((m + g) + x) \in Nat
  BY <1>1, <1>2
<1>5. val((m + g) + x) <= val(m + g) + up(x) /\ up(x) \in Nat /\ val(m + g) \in Nat
  BY <1>1, <1>2
<1>6. val(m + g) <= val(m) + val(g) + 1 /\ val(m) \in Nat /\ val(g) \in Nat
  BY <1>1
<1>7. val(n) + val(h) <= val(n + h) /\ val(n) \in Nat /\ val(h) \in Nat /\ val(n + h) \in Nat
  BY <1>1
<1>8. val(n) + val(h) <= val(m) + val(g) + (1 + up(y) + up(x))
  BY <1>3, <1>4, <1>5, <1>6, <1>7, SMT
<1> QED BY <1>8 DEF val, up

-----------------------------------------------------------------------------
(* The arithmetic of the test suites.                                      *)


\* On naturals BigNumber's division is the truncated one.
LEMMA DivIsTruncated == \A n \in Nat, d \in Nat \ {0} : div(n, d) = n \div d
  BY SMT DEF div

\* A sum of two products' parts, in either order, is the same natural.
LEMMA SumCommutes == \A m, n \in Nat : m + n \in Nat /\ m + n = n + m
  BY SMT

\* Products round alike in both implementations.
LEMMA ProductsAgree ==
    \A a, b \in Nat : /\ rayMul(a, b) = RayMul(a, b)
                      /\ percentMul(a, b) = PercentMul(a, b)
<1> SUFFICES ASSUME NEW a \in Nat, NEW b \in Nat
             PROVE  /\ rayMul(a, b) = RayMul(a, b)
                    /\ percentMul(a, b) = PercentMul(a, b)
  OBVIOUS
<1>1. a * b \in Nat
  BY ProductType
<1>2. /\ halfRay = HALF_RAY
      /\ halfPercentage = HALF_PERCENTAGE_FACTOR
  BY DEF halfRay, HALF_RAY, halfPercentage, HALF_PERCENTAGE_FACTOR
<1>3. rayMul(a, b) = RayMul(a, b)
  <2>1. /\ HALF_RAY + a * b = a * b + HALF_RAY
        /\ a * b + HALF_RAY \in Nat
    BY <1>1, HalfRay, SumCommutes, Zenon
  <2> QED
    BY <1>2, <2>1, HalfRay, DivIsTruncated, Zenon DEF rayMul, RayMul
<1>4. percentMul(a, b) = PercentMul(a, b)
  <2>1. /\ HALF_PERCENTAGE_FACTOR + a * b = a * b + HALF_PERCENTAGE_FACTOR
        /\ a * b + HALF_PERCENTAGE_FACTOR \in Nat
    BY <1>1, HalfFactor, SumCommutes, Zenon
  <2> QED
    BY <1>2, <2>1, HalfFactor, DivIsTruncated, Zenon DEF percentMul, PercentMul
<1> QED
  BY <1>3, <1>4

\* A quotient of a natural scaled by s, rounded half up, both ways to write it.
LEMMA QuotientAgrees ==
    ASSUME NEW s \in Nat, NEW a \in Nat, NEW b \in Nat \ {0}
    PROVE  div(div(b, 2) + a * s, b) = (a * s + (b \div 2)) \div b
<1>1. a * s \in Nat
  BY ProductType
<1>2. b \div 2 \in Nat /\ div(b, 2) = b \div 2
  BY DivType, DivIsTruncated, SMT
<1>3. /\ (b \div 2) + a * s = a * s + (b \div 2)
      /\ a * s + (b \div 2) \in Nat
  BY <1>1, <1>2, SumCommutes, Zenon
<1> QED
  BY <1>2, <1>3, DivIsTruncated, Zenon

\* The suites compute the products and quotients the contracts compute, so a
\* difference between the two can only come from what they are computed of.
THEOREM SuiteArithmeticAgrees ==
    /\ \A a, b \in Nat : /\ rayMul(a, b) = RayMul(a, b)
                         /\ percentMul(a, b) = PercentMul(a, b)
    /\ \A a \in Nat, b \in Nat \ {0} :
          /\ rayDiv(a, b) = RayDiv(a, b)
          /\ wadDiv(a, b) = WadDiv(a, b)
          /\ percentDiv(a, b) = PercentDiv(a, b)
<1>1. ASSUME NEW a \in Nat, NEW b \in Nat \ {0}
      PROVE  /\ rayDiv(a, b) = RayDiv(a, b)
             /\ wadDiv(a, b) = WadDiv(a, b)
             /\ percentDiv(a, b) = PercentDiv(a, b)
  <2>1. RAY \in Nat /\ WAD \in Nat /\ PERCENTAGE_FACTOR \in Nat
    BY ScaleAssumption
  <2>2. rayDiv(a, b) = RayDiv(a, b)
    BY <2>1, QuotientAgrees DEF rayDiv, RayDiv
  <2>3. wadDiv(a, b) = WadDiv(a, b)
    BY <2>1, QuotientAgrees DEF wadDiv, WadDiv
  <2>4. percentDiv(a, b) = PercentDiv(a, b)
    BY <2>1, QuotientAgrees DEF percentDiv, PercentDiv
  <2> QED
    BY <2>2, <2>3, <2>4
<1> QED
  BY <1>1, ProductsAgree

=============================================================================
