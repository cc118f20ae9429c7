------------------------- MODULE LendingGaugeProofs -------------------------
(***************************************************************************)
(* The reward books of a gauge, for any users, weights, rates, phases,     *)
(* amounts and length of time: the sum of shares, rewards within the       *)
(* emission, shares within tokens and an allocation that is never stale.   *)
(***************************************************************************)
EXTENDS LendingGauge, Sums

Books ==
    [workingBalances : [User -> Nat], workingSupply : Nat,
     integrateInvSupply : Nat, integrateInvSupplyOf : [User -> Nat],
     integrateCheckpointOf : [User -> Nat], integrateFraction : [User -> Nat]]

\* A book whose supply is the sum of the shares, and whose integral no user's has
\* overtaken.
SoundBook(b) ==
    /\ b \in Books
    /\ b.workingSupply = SumFunction(b.workingBalances)
    /\ \A u \in User : b.integrateInvSupplyOf[u] <= b.integrateInvSupply

SoundBooks(books) == DOMAIN books = Token /\ \A t \in Token : SoundBook(books[t])

Gauges ==
    [periodTime : Nat, inflationRate : Nat, futureEpochTime : Nat, isKilled : BOOLEAN,
     borrowAllocation : Nat, phases : Seq(Phase)]

Balances == [Token -> [User -> Nat]]

\* hTokens are claims on the cash and the debts: nothing bears interest here.
HeldBack == TotalSupply(bal, "hToken") = cash + TotalDebt(bal, stable)

\* The inductive invariant.
GaugeInv ==
    /\ now \in 0 .. MaxTime /\ cash \in Nat /\ emitted \in Nat /\ orderly \in BOOLEAN
    /\ calls \in 0 .. MaxCalls
    /\ stable \in [User -> Nat] /\ bal \in Balances
    /\ votes \in [User -> [power : 0 .. 1, time : Nat]]
    /\ gauge \in Gauges /\ gauge.periodTime <= now
    /\ SoundBooks(book) /\ HeldBack

-----------------------------------------------------------------------------
(* Numbers.                                                                *)

\* The lesser of two numbers is one of them.
LEMMA MinOfTwo ==
    ASSUME NEW x \in Int, NEW y \in Int
    PROVE  Min({x, y}) \in {x, y} /\ Min({x, y}) <= x /\ Min({x, y}) <= y
<1>1. \E z \in {x, y} : \A w \in {x, y} : z <= w
  BY SMT
<1> QED
  BY <1>1 DEF Min

\* The greater of two numbers is one of them.
LEMMA MaxOfTwo ==
    ASSUME NEW x \in Int, NEW y \in Int
    PROVE  Max({x, y}) \in {x, y} /\ Max({x, y}) >= x /\ Max({x, y}) >= y
<1>1. \E z \in {x, y} : \A w \in {x, y} : z >= w
  BY SMT
<1> QED
  BY <1>1 DEF Max

\* Naturals have a least among them.
LEMMA MinOfMany ==
    ASSUME NEW S, S \subseteq Nat, S # {}
    PROVE  Min(S) \in S
<1>1. \E x \in S : \A y \in S : x <= y
  <2>1. PICK x \in S : \A y \in S : ~(<<y, x>> \in OpToRel(<, Nat))
    BY NatLessThanWellFounded, WFMin
  <2>2. \A y \in S : ~(y < x)
    BY <2>1 DEF OpToRel
  <2> QED
    BY <2>2, SMT
<1> QED
  BY <1>1 DEF Min

\* Products and quotients of naturals.
LEMMA Product == \A m, n \in Nat : m * n \in Nat
  BY SMT

\* A quotient, and what it leaves.
LEMMA Quotient == \A n \in Nat, d \in Nat \ {0} : n \div d \in Nat /\ d * (n \div d) <= n
  BY SMT

\* A quotient is the greatest.
LEMMA QuotientNext == \A n \in Nat, d \in Nat \ {0} : n < d * (n \div d + 1)
  BY SMT

\* Whatever fits is at most the quotient.
LEMMA QuotientAtLeast == \A n, q \in Nat, d \in Nat \ {0} : d * q <= n => q <= n \div d
  BY SMT

\* Quotients keep the order of what is divided.
LEMMA QuotientOrder == \A m, n \in Nat, d \in Nat \ {0} : m <= n => m \div d <= n \div d
<1> SUFFICES ASSUME NEW m \in Nat, NEW n \in Nat, NEW d \in Nat \ {0}, m <= n
             PROVE  m \div d <= n \div d
  OBVIOUS
<1>1. d * (m \div d) <= n /\ m \div d \in Nat
  BY Quotient, SMT
<1> QED
  BY <1>1, QuotientAtLeast, SMT

\* A factor does not lose its place in an order of products.
LEMMA ProductOrder == \A m, n, k \in Nat : m <= n => k * m <= k * n
  BY SMT

-----------------------------------------------------------------------------
(* What a book grows by in a period.                                       *)

Periods == [periodTime : Nat, rate : Nat, newRate : Nat, prevFutureEpoch : Nat]

\* The rates of a period are naturals, the epoch's is looked up where it is known.
LEMMA PeriodType ==
    ASSUME GaugeInv
    PROVE  Period \in Periods /\ NewRate \in Nat /\ Closed \in Gauges
           /\ Closed.periodTime = now /\ Closed.phases = gauge.phases
<1>1. now \in Nat /\ now <= MaxTime /\ EPOCH \in Nat \ {0} /\ MaxTime \in Nat
      /\ gauge \in Gauges
  BY GaugeAssumption DEF GaugeInv
<1>2. now \div EPOCH \in Nat /\ now \div EPOCH <= MaxTime \div EPOCH
      /\ MaxTime \div EPOCH \in Nat
  BY <1>1, Quotient, QuotientOrder
<1>3. now \div EPOCH \in 0 .. MaxTime \div EPOCH
  BY <1>2
<1>4. Rate[now \div EPOCH] \in Nat
  BY <1>3, GaugeAssumption
<1>5. NewRate \in Nat
  BY <1>1, <1>4 DEF NewRate, Gauges
<1>6. Period \in Periods
  BY <1>1, <1>5 DEF Period, Periods, Gauges
<1> DEFINE over == (now \div EPOCH + 1) * EPOCH
<1>7. over \in Nat
  BY <1>1, <1>2, Product
<1> HIDE DEF over
<1>8. Closed = [gauge EXCEPT !.periodTime = now, !.inflationRate = NewRate,
                             !.futureEpochTime = IF Expired THEN over ELSE @]
  BY DEF Closed, over
<1>9. Closed \in Gauges /\ Closed.periodTime = now /\ Closed.phases = gauge.phases
  BY <1>1, <1>5, <1>7, <1>8 DEF Gauges
<1> QED
  BY <1>5, <1>6, <1>9

\* The stretch of each of its weeks is a length of time, and the week is one whose
\* weight is known.
LEMMA WeekType ==
    ASSUME GaugeInv, NEW st \in Periods
    PROVE  /\ IsFiniteSet(Weeks(st))
           /\ \A w \in Weeks(st) :
                 /\ Weight[w] \in Nat
                 /\ From(st, w) \in Nat /\ To(w) \in Nat /\ From(st, w) <= To(w)
<1> DEFINE first == st.periodTime \div WEEK
           last == (now - 1) \div WEEK
<1>1. now \in Nat /\ now <= MaxTime /\ MaxTime \in Nat /\ WEEK \in Nat \ {0}
      /\ st.periodTime \in Nat /\ Weight \in [0 .. MaxTime \div WEEK -> Nat]
  BY GaugeAssumption DEF GaugeInv, Periods
<1>2. first \in Nat
  BY <1>1, Quotient
<1>3. CASE ~(now > st.periodTime)
  BY <1>3, FS_EmptySet DEF Weeks
<1>4. CASE now > st.periodTime
  <2>1. now - 1 \in Nat /\ now - 1 <= MaxTime
    BY <1>1, <1>4
  <2>2. last \in Nat /\ last <= MaxTime \div WEEK /\ MaxTime \div WEEK \in Nat
    BY <1>1, <2>1, Quotient, QuotientOrder
  <2>3. Weeks(st) = first .. last
    BY <1>4 DEF Weeks
  <2>4. IsFiniteSet(first .. last)
    BY <1>2, <2>2, FS_Interval
  <2>5. ASSUME NEW w \in first .. last
        PROVE  /\ Weight[w] \in Nat
               /\ From(st, w) \in Nat /\ To(w) \in Nat /\ From(st, w) <= To(w)
    <3>1. w \in Nat /\ first <= w /\ w <= last /\ w <= MaxTime \div WEEK
      BY <1>2, <2>2
    <3>2. w \in 0 .. MaxTime \div WEEK
      BY <2>2, <3>1
    <3> DEFINE start == w * WEEK
               end == (w + 1) * WEEK
    <3>3. start \in Nat /\ end \in Nat /\ start <= end
      BY <1>1, <3>1, SMT
    <3>4. start < now
      <4>1. WEEK * last <= now - 1
        BY <1>1, <2>1, Quotient
      <4>2. WEEK * w <= WEEK * last
        BY <1>1, <2>2, <3>1, ProductOrder
      <4>3. start = WEEK * w
        BY <1>1, <3>1, SMT
      <4>4. WEEK * last \in Int
        BY <1>1, <2>2, SMT
      <4> HIDE DEF start, last
      <4> QED
        BY <1>1, <3>1, <3>3, <4>1, <4>2, <4>3, <4>4
    <3>5. st.periodTime < end
      <4>1. st.periodTime < WEEK * (first + 1)
        BY <1>1, QuotientNext
      <4>2. WEEK * (first + 1) <= WEEK * (w + 1)
        BY <1>1, <1>2, <3>1, ProductOrder
      <4>3. end = WEEK * (w + 1)
        BY <1>1, <3>1, SMT
      <4>4. WEEK * (first + 1) \in Int
        BY <1>1, <1>2, SMT
      <4> HIDE DEF end, first
      <4> QED
        BY <1>1, <3>1, <3>3, <4>1, <4>2, <4>3, <4>4
    <3> HIDE DEF start, end
    <3>6. From(st, w) \in {st.periodTime, start} /\ To(w) \in {now, end}
      <4>1. From(st, w) = Max({st.periodTime, start}) /\ To(w) = Min({now, end})
        BY DEF From, To, start, end
      <4>2. st.periodTime \in Int /\ start \in Int /\ now \in Int /\ end \in Int
        BY <1>1, <3>3
      <4> QED
        BY <4>1, <4>2, MinOfTwo, MaxOfTwo
    <3> QED
      BY <1>1, <1>4, <3>2, <3>3, <3>4, <3>5, <3>6
  <2> HIDE DEF first, last
  <2> QED
    BY <2>3, <2>4, <2>5
<1> QED
  BY <1>3, <1>4

\* What a stretch is worth to both books, and to one with this allocation.
Worth(rate, week, time) == rate * Weight[week] * time
Part(allocation, rate, week, time) == (rate * Weight[week] * allocation * time) \div RAY

\* A part of the emission is a natural.
LEMMA PartType ==
    ASSUME NEW allocation \in Nat, NEW rate \in Nat, NEW w, Weight[w] \in Nat, NEW time \in Nat
    PROVE  Part(allocation, rate, w, time) \in Nat
<1>1. RAY \in Nat \ {0} /\ rate * Weight[w] \in Nat
  BY Product, GaugeAssumption
<1>2. rate * Weight[w] * allocation \in Nat
  BY <1>1, Product
<1>3. rate * Weight[w] * allocation * time \in Nat
  BY <1>2, Product
<1> QED
  BY <1>1, <1>3, Quotient DEF Part

\* A book gives out no more than its part.
LEMMA StretchWithin ==
    ASSUME GaugeInv, NEW b \in Books, b.workingSupply # 0, NEW allocation \in Nat,
           NEW rate \in Nat, NEW w, Weight[w] \in Nat, NEW time \in Nat
    PROVE  /\ Stretch(b, allocation, rate, w, time) \in Nat
           /\ Part(allocation, rate, w, time) \in Nat
           /\ b.workingSupply * Stretch(b, allocation, rate, w, time)
                 <= Part(allocation, rate, w, time)
<1> DEFINE all == rate * Weight[w] * allocation * time
           s == b.workingSupply
           q == all \div s
           x == q \div RAY
<1>1. s \in Nat \ {0} /\ RAY \in Nat \ {0}
  BY GaugeAssumption DEF Books
<1>2. all \in Nat
  <2>1. rate * Weight[w] \in Nat
    BY Product
  <2> HIDE DEF all
  <2>2. rate * Weight[w] * allocation \in Nat
    BY <2>1, Product
  <2> QED
    BY <2>2, Product DEF all
<1> HIDE DEF all, s
<1>3. q \in Nat /\ s * q <= all
  BY <1>1, <1>2, Quotient
<1> HIDE DEF q
<1>4. x \in Nat /\ RAY * x <= q
  BY <1>1, <1>3, Quotient
<1> HIDE DEF x
<1>5. RAY * (s * x) <= all
  <2>1. s * (RAY * x) <= s * q
    BY <1>1, <1>3, <1>4, ProductOrder, Product
  <2>2. s * (RAY * x) = RAY * (s * x)
    BY <1>1, <1>4, SMT
  <2>3. s * q \in Int /\ RAY * (s * x) \in Int
    BY <1>1, <1>3, <1>4, Product, SMT
  <2> QED
    BY <1>2, <1>3, <2>1, <2>2, <2>3
<1>6. s * x <= all \div RAY /\ all \div RAY \in Nat
  BY <1>1, <1>2, <1>4, <1>5, Product, Quotient, QuotientAtLeast
<1>7. Stretch(b, allocation, rate, w, time) = x /\ Part(allocation, rate, w, time) = all \div RAY
  BY DEF Stretch, Part, all, s, q, x
<1> QED
  BY <1>4, <1>6, <1>7 DEF s

\* The parts of two books that share the allocation are no more than the whole.
LEMMA PartsWithin ==
    ASSUME GaugeInv, NEW allocation \in Nat, allocation <= RAY,
           NEW rate \in Nat, NEW w, Weight[w] \in Nat, NEW time \in Nat
    PROVE  /\ Worth(rate, w, time) \in Nat
           /\ Part(allocation, rate, w, time) + Part(RAY - allocation, rate, w, time)
                 <= Worth(rate, w, time)
<1> DEFINE all == rate * Weight[w] * time
           rest == RAY - allocation
<1>1. RAY \in Nat \ {0} /\ rest \in Nat /\ allocation + rest = RAY
  BY GaugeAssumption
<1>2. all \in Nat
  BY Product
<1>3. /\ rate * Weight[w] * allocation * time = all * allocation
      /\ rate * Weight[w] * rest * time = all * rest
  <2>1. ASSUME NEW p \in Nat, NEW a \in Nat PROVE p * a * time = p * time * a
    BY SMT
  <2>2. rate * Weight[w] \in Nat
    BY Product
  <2> HIDE DEF rest
  <2> QED
    BY <1>1, <2>1, <2>2
<1> HIDE DEF all, rest
<1>4. ASSUME NEW p \in Nat, NEW r \in Nat, p + r = RAY * all
      PROVE  p \div RAY + r \div RAY <= all
  <2> DEFINE m == p \div RAY
             n == r \div RAY
  <2>1. m \in Nat /\ n \in Nat /\ RAY * m <= p /\ RAY * n <= r
    BY <1>1, Quotient
  <2> HIDE DEF m, n
  <2>2. RAY * (m + n) <= RAY * all
    <3>1. RAY * (m + n) = RAY * m + RAY * n
      BY <1>1, <2>1, SMT
    <3>2. RAY * m \in Int /\ RAY * n \in Int
      BY <1>1, <2>1, Product
    <3> QED
      BY <1>4, <2>1, <3>1, <3>2
  <2>3. m + n <= all
    <3>1. ASSUME NEW i \in Nat, NEW j \in Nat, RAY * i <= RAY * j PROVE i <= j
      BY <1>1, <3>1, SMT
    <3> QED
      BY <1>2, <2>1, <2>2, <3>1
  <2> QED
    BY <2>3 DEF m, n
<1>5. /\ all * allocation \in Nat /\ all * rest \in Nat
      /\ all * allocation + all * rest = RAY * all
  BY <1>1, <1>2, Product, SMT
<1>6. Part(allocation, rate, w, time) + Part(RAY - allocation, rate, w, time) <= all
  BY <1>3, <1>4, <1>5 DEF Part, rest
<1> QED
  BY <1>2, <1>6 DEF Worth, all

\* The part of a week, and of a period.
PartIn(allocation, st, w) ==
    IF Turns(st, w)
    THEN Part(allocation, st.rate, w, st.prevFutureEpoch - From(st, w))
           + Part(allocation, st.newRate, w, To(w) - st.prevFutureEpoch)
    ELSE Part(allocation, RateAt(st, w), w, To(w) - From(st, w))

Parts(allocation, st) == SumFunction([w \in Weeks(st) |-> PartIn(allocation, st, w)])

\* The lengths of the stretches of a week.
LEMMA StretchType ==
    ASSUME GaugeInv, NEW st \in Periods, NEW w \in Weeks(st)
    PROVE  /\ Weight[w] \in Nat
           /\ st.rate \in Nat /\ st.newRate \in Nat /\ RateAt(st, w) \in Nat
           /\ To(w) - From(st, w) \in Nat
           /\ Turns(st, w) => /\ st.prevFutureEpoch - From(st, w) \in Nat
                              /\ To(w) - st.prevFutureEpoch \in Nat
<1>1. /\ Weight[w] \in Nat
      /\ From(st, w) \in Nat /\ To(w) \in Nat /\ From(st, w) <= To(w)
  BY WeekType
<1>2. st.rate \in Nat /\ st.newRate \in Nat /\ st.prevFutureEpoch \in Nat
  BY DEF Periods
<1> QED
  BY <1>1, <1>2 DEF RateAt, Turns

\* A book grows by a natural, and what that is worth to all its shares is no more
\* than its part of the period.
LEMMA GrowthWithin ==
    ASSUME GaugeInv, NEW b \in Books, NEW st \in Periods, NEW allocation \in Nat
    PROVE  /\ Growth(b, allocation, st) \in Nat
           /\ Parts(allocation, st) \in Nat
           /\ b.workingSupply * Growth(b, allocation, st) <= Parts(allocation, st)
<1> DEFINE s == b.workingSupply
           W == Weeks(st)
           G(w) == IF Turns(st, w)
                   THEN Stretch(b, allocation, st.rate, w, st.prevFutureEpoch - From(st, w))
                          + Stretch(b, allocation, st.newRate, w, To(w) - st.prevFutureEpoch)
                   ELSE Stretch(b, allocation, RateAt(st, w), w, To(w) - From(st, w))
           g == [w \in W |-> G(w)]
           p == [w \in W |-> PartIn(allocation, st, w)]
           zero == [w \in W |-> 0]
           h == [w \in W |-> s * G(w)]
<1>1. IsFiniteSet(W) /\ s \in Nat
  BY WeekType DEF Books
<1>2. ASSUME NEW w \in W
      PROVE  /\ PartIn(allocation, st, w) \in Nat
             /\ s # 0 => G(w) \in Nat /\ s * G(w) <= PartIn(allocation, st, w)
  <2>1. /\ Weight[w] \in Nat
        /\ st.rate \in Nat /\ st.newRate \in Nat /\ RateAt(st, w) \in Nat
        /\ To(w) - From(st, w) \in Nat
        /\ Turns(st, w) => /\ st.prevFutureEpoch - From(st, w) \in Nat
                           /\ To(w) - st.prevFutureEpoch \in Nat
    BY StretchType
  <2>2. ASSUME NEW rate \in Nat, NEW time \in Nat
        PROVE  /\ Part(allocation, rate, w, time) \in Nat
               /\ s # 0 => /\ Stretch(b, allocation, rate, w, time) \in Nat
                           /\ s * Stretch(b, allocation, rate, w, time)
                                 <= Part(allocation, rate, w, time)
    <3>1. Part(allocation, rate, w, time) \in Nat
      BY <2>1, PartType
    <3> QED
      BY <2>1, <3>1, StretchWithin
  <2>3. CASE Turns(st, w)
    <3> DEFINE t1 == st.prevFutureEpoch - From(st, w)
               t2 == To(w) - st.prevFutureEpoch
               x == Stretch(b, allocation, st.rate, w, t1)
               y == Stretch(b, allocation, st.newRate, w, t2)
               q == Part(allocation, st.rate, w, t1)
               r == Part(allocation, st.newRate, w, t2)
    <3>1. t1 \in Nat /\ t2 \in Nat
      BY <2>1, <2>3
    <3>2. G(w) = x + y /\ PartIn(allocation, st, w) = q + r
      BY <2>3 DEF PartIn
    <3> HIDE DEF t1, t2, G, s
    <3>3. q \in Nat /\ r \in Nat
      BY <2>1, <2>2, <3>1
    <3>4. s # 0 => x \in Nat /\ y \in Nat /\ s * x <= q /\ s * y <= r
      BY <2>1, <2>2, <3>1
    <3> HIDE DEF x, y, q, r
    <3>5. s # 0 => s * (x + y) <= q + r
      <4> SUFFICES ASSUME s # 0 PROVE s * (x + y) <= q + r
        OBVIOUS
      <4>1. s * (x + y) = s * x + s * y
        BY <1>1, <3>4, SMT
      <4>2. s * x \in Int /\ s * y \in Int
        BY <1>1, <3>4, Product
      <4> QED
        BY <3>3, <3>4, <4>1, <4>2
    <3> QED
      BY <3>2, <3>3, <3>4, <3>5
  <2>4. CASE ~Turns(st, w)
    <3> DEFINE t == To(w) - From(st, w)
    <3>1. t \in Nat /\ RateAt(st, w) \in Nat
      BY <2>1
    <3>2. /\ G(w) = Stretch(b, allocation, RateAt(st, w), w, t)
          /\ PartIn(allocation, st, w) = Part(allocation, RateAt(st, w), w, t)
      BY <2>4 DEF PartIn
    <3> HIDE DEF t, G, s
    <3> QED
      BY <2>2, <3>1, <3>2
  <2> QED
    BY <2>3, <2>4
<1>3. p \in [W -> Int] /\ p \in [W -> Nat]
  BY <1>2
<1>4. Parts(allocation, st) = SumFunction(p)
  BY DEF Parts
<1>5. Parts(allocation, st) \in Nat
  <2> HIDE DEF p, W
  <2> QED
    BY <1>1, <1>3, <1>4, TotalType
<1>6. CASE s = 0
  <2>1. Growth(b, allocation, st) = 0
    BY <1>6 DEF Growth
  <2> QED
    BY <1>5, <1>6, <2>1, SMT
<1>7. CASE s # 0
  <2>1. Growth(b, allocation, st) = SumFunction(g)
    BY <1>7 DEF Growth
  <2> HIDE DEF G, s
  <2>2. \A w \in W : G(w) \in Nat /\ s * G(w) \in Int /\ s * G(w) <= PartIn(allocation, st, w)
    BY <1>1, <1>2, <1>7, Product
  <2>3. /\ g \in [W -> Nat] /\ g \in [W -> Int] /\ h \in [W -> Int] /\ zero \in [W -> Int]
        /\ \A w \in W : h[w] = zero[w] + s * g[w]
        /\ \A w \in W : h[w] <= p[w]
    BY <2>2
  <2>4. s \in Int
    BY <1>1
  <2>5. SumFunction(zero) = 0
    BY <1>1, TotalZero
  <2> HIDE DEF g, h, p, zero, W
  <2>6. SumFunction(g) \in Nat
    BY <1>1, <2>3, TotalType
  <2>7. SumFunction(h) = SumFunction(zero) + s * SumFunction(g)
    BY <1>1, <2>3, <2>4, TotalLinear
  <2>8. SumFunction(h) <= SumFunction(p)
    BY <1>1, <1>3, <2>3, TotalMonotone
  <2>9. s * SumFunction(g) \in Int
    BY <1>1, <2>6, Product
  <2> QED
    BY <1>4, <1>5, <2>1, <2>5, <2>6, <2>7, <2>8, <2>9 DEF s
<1> QED
  BY <1>6, <1>7

\* The emission of the period is no less than what two books are given of it.
LEMMA EmissionWithin ==
    ASSUME GaugeInv, NEW allocation \in Nat, allocation <= RAY
    PROVE  /\ Emission \in Nat
           /\ Parts(allocation, Period) + Parts(RAY - allocation, Period) <= Emission
<1> DEFINE st == Period
           rest == RAY - allocation
           W == Weeks(st)
           E(w) == Weight[w] * IF Turns(st, w)
                        THEN st.rate * (st.prevFutureEpoch - From(st, w))
                               + st.newRate * (To(w) - st.prevFutureEpoch)
                        ELSE RateAt(st, w) * (To(w) - From(st, w))
           e == [w \in W |-> E(w)]
           p == [w \in W |-> PartIn(allocation, st, w)]
           q == [w \in W |-> PartIn(rest, st, w)]
           both == [w \in W |-> PartIn(allocation, st, w) + PartIn(rest, st, w)]
<1>1. IsFiniteSet(W) /\ st \in Periods /\ rest \in Nat
  BY WeekType, PeriodType, GaugeAssumption
<1>2. ASSUME NEW w \in W
      PROVE  /\ PartIn(allocation, st, w) \in Nat /\ PartIn(rest, st, w) \in Nat
             /\ E(w) \in Nat
             /\ PartIn(allocation, st, w) + PartIn(rest, st, w) <= E(w)
  <2>1. /\ Weight[w] \in Nat
        /\ st.rate \in Nat /\ st.newRate \in Nat /\ RateAt(st, w) \in Nat
        /\ To(w) - From(st, w) \in Nat
        /\ Turns(st, w) => /\ st.prevFutureEpoch - From(st, w) \in Nat
                           /\ To(w) - st.prevFutureEpoch \in Nat
    BY <1>1, StretchType
  <2>2. ASSUME NEW rate \in Nat, NEW time \in Nat
        PROVE  /\ Part(allocation, rate, w, time) \in Nat /\ Part(rest, rate, w, time) \in Nat
               /\ Weight[w] * (rate * time) \in Nat
               /\ Part(allocation, rate, w, time) + Part(rest, rate, w, time)
                     <= Weight[w] * (rate * time)
    <3>1. Part(allocation, rate, w, time) \in Nat /\ Part(rest, rate, w, time) \in Nat
      BY <1>1, <2>1, PartType
    <3>2. Worth(rate, w, time) = Weight[w] * (rate * time)
      BY <2>1, SMT DEF Worth
    <3> QED
      BY <2>1, <3>1, <3>2, PartsWithin
  <2> HIDE DEF rest, st
  <2>3. CASE Turns(st, w)
    <3> DEFINE t1 == st.prevFutureEpoch - From(st, w)
               t2 == To(w) - st.prevFutureEpoch
               x == Weight[w] * (st.rate * t1)
               y == Weight[w] * (st.newRate * t2)
    <3>1. t1 \in Nat /\ t2 \in Nat
      BY <2>1, <2>3
    <3>2. PartIn(allocation, st, w) = Part(allocation, st.rate, w, t1)
                                        + Part(allocation, st.newRate, w, t2)
      BY <2>3 DEF PartIn
    <3>3. PartIn(rest, st, w) = Part(rest, st.rate, w, t1) + Part(rest, st.newRate, w, t2)
      BY <2>3 DEF PartIn
    <3>4. E(w) = Weight[w] * (st.rate * t1 + st.newRate * t2)
      BY <2>3
    <3> HIDE DEF t1, t2, E
    <3>5. E(w) = x + y
      <4>1. ASSUME NEW k \in Nat, NEW m \in Nat, NEW n \in Nat PROVE k * (m + n) = k * m + k * n
        BY SMT
      <4>2. st.rate * t1 \in Nat /\ st.newRate * t2 \in Nat
        BY <2>1, <3>1, Product
      <4> QED
        BY <2>1, <3>4, <4>1, <4>2
    <3>6. /\ Part(allocation, st.rate, w, t1) \in Nat /\ Part(rest, st.rate, w, t1) \in Nat
          /\ x \in Nat /\ Part(allocation, st.rate, w, t1) + Part(rest, st.rate, w, t1) <= x
      BY <2>1, <2>2, <3>1
    <3>7. /\ Part(allocation, st.newRate, w, t2) \in Nat /\ Part(rest, st.newRate, w, t2) \in Nat
          /\ y \in Nat /\ Part(allocation, st.newRate, w, t2) + Part(rest, st.newRate, w, t2) <= y
      BY <2>1, <2>2, <3>1
    <3> HIDE DEF x, y
    <3> QED
      BY <3>2, <3>3, <3>5, <3>6, <3>7
  <2>4. CASE ~Turns(st, w)
    <3> DEFINE t == To(w) - From(st, w)
    <3>1. t \in Nat /\ RateAt(st, w) \in Nat
      BY <2>1
    <3>2. /\ PartIn(allocation, st, w) = Part(allocation, RateAt(st, w), w, t)
          /\ PartIn(rest, st, w) = Part(rest, RateAt(st, w), w, t)
          /\ E(w) = Weight[w] * (RateAt(st, w) * t)
      BY <2>4 DEF PartIn
    <3> HIDE DEF t, E
    <3> QED
      BY <2>2, <3>1, <3>2
  <2> QED
    BY <2>3, <2>4
<1>3. /\ Emission = SumFunction(e)
      /\ Parts(allocation, Period) = SumFunction(p) /\ Parts(rest, Period) = SumFunction(q)
  BY DEF Emission, Parts
<1> HIDE DEF rest, st, E
<1>4. /\ p \in [W -> Int] /\ q \in [W -> Int] /\ both \in [W -> Int]
      /\ e \in [W -> Int] /\ e \in [W -> Nat]
      /\ \A w \in W : both[w] = p[w] + 1 * q[w] /\ both[w] <= e[w]
  BY <1>2
<1> HIDE DEF p, q, both, e, W
<1>5. SumFunction(both) = SumFunction(p) + 1 * SumFunction(q)
  BY <1>1, <1>4, TotalLinear
<1>6. SumFunction(both) <= SumFunction(e)
  BY <1>1, <1>4, TotalMonotone
<1>7. SumFunction(e) \in Nat /\ SumFunction(p) \in Int /\ SumFunction(q) \in Int
  BY <1>1, <1>4, TotalType
<1> QED
  BY <1>3, <1>5, <1>6, <1>7 DEF rest

-----------------------------------------------------------------------------
(* One book.                                                               *)

\* What a book has credited or owes.
Owes(b) == SumFunction([u \in User |-> Owed(b, u)])

\* What a sound book owes a user is a natural.
LEMMA OwedType ==
    ASSUME NEW b, SoundBook(b), NEW u \in User
    PROVE  /\ ONE * b.integrateFraction[u] \in Nat
           /\ b.workingBalances[u] * (b.integrateInvSupply - b.integrateInvSupplyOf[u]) \in Nat
           /\ Owed(b, u) \in Nat
<1>1. /\ ONE \in Nat /\ b.integrateFraction[u] \in Nat /\ b.workingBalances[u] \in Nat
      /\ b.integrateInvSupply - b.integrateInvSupplyOf[u] \in Nat
  BY GaugeAssumption, SMT DEF SoundBook, Books
<1>2. /\ ONE * b.integrateFraction[u] \in Nat
      /\ b.workingBalances[u] * (b.integrateInvSupply - b.integrateInvSupplyOf[u]) \in Nat
  BY <1>1, Product
<1> QED
  BY <1>2 DEF Owed

\* So is what it owes everyone.
LEMMA OwesType == ASSUME NEW b, SoundBook(b) PROVE Owes(b) \in Nat
<1> DEFINE f == [v \in User |-> Owed(b, v)]
<1>1. f \in [User -> Nat] /\ IsFiniteSet(User)
  BY OwedType, GaugeAssumption
<1> HIDE DEF f
<1>2. SumFunction(f) \in Nat
  BY <1>1, TotalType
<1> QED
  BY <1>2 DEF Owes, f

\* A share is a natural of at most the tokens it is of.
LEMMA LimitType ==
    ASSUME GaugeInv, NEW u \in User, NEW l \in Nat, NEW total \in Nat
    PROVE  Limit(u, l, total) \in Nat /\ Limit(u, l, total) <= l
<1> DEFINE tokenless == (l * TOKENLESS_PRODUCTION) \div 100
           weight == total * votes[u].power * (100 - TOKENLESS_PRODUCTION)
           boost == IF VotingTotal = 0 THEN 0 ELSE (weight \div VotingTotal) \div 100
           power == [v \in User |-> votes[v].power]
<1>1. tokenless \in Nat /\ 100 \in Nat \ {0}
  BY Product, Quotient DEF TOKENLESS_PRODUCTION
<1>2. /\ power \in [User -> Nat] /\ votes[u].power \in Nat /\ IsFiniteSet(User)
  BY GaugeAssumption DEF GaugeInv
<1>3. weight \in Nat
  <2>1. total * votes[u].power \in Nat
    BY <1>2, Product
  <2> QED
    BY <2>1, Product DEF TOKENLESS_PRODUCTION
<1>4. VotingTotal = SumFunction(power)
  BY DEF VotingTotal
<1> HIDE DEF weight, power, tokenless
<1>5. VotingTotal \in Nat
  BY <1>2, <1>4, TotalType
<1>6. boost \in Nat
  <2>1. CASE VotingTotal # 0
    <3>1. weight \div VotingTotal \in Nat
      BY <1>3, <1>5, <2>1, Quotient
    <3>2. (weight \div VotingTotal) \div 100 \in Nat
      BY <1>1, <3>1, Quotient
    <3> QED
      BY <2>1, <3>2
  <2>2. CASE VotingTotal = 0
    BY <2>2
  <2> QED
    BY <2>1, <2>2
<1>7. Limit(u, l, total) = Min({l, tokenless + boost})
  BY DEF Limit, tokenless, weight
<1> HIDE DEF boost
<1>8. tokenless + boost \in Nat
  BY <1>1, <1>6
<1>9. Min({l, tokenless + boost}) \in {l, tokenless + boost} /\ Min({l, tokenless + boost}) <= l
  BY <1>8, MinOfTwo
<1> QED
  BY <1>7, <1>8, <1>9

\* A refresh keeps the book sound and gives u a share of at most his tokens; where
\* his integral is that of the book it owes everyone what it did.
LEMMA UpdateLimitSound ==
    ASSUME GaugeInv, NEW b, SoundBook(b), NEW u \in User, NEW l \in Nat, NEW total \in Nat
    PROVE  LET next == UpdateLimit(b, u, l, total) IN
           /\ SoundBook(next)
           /\ next.workingBalances[u] <= l
           /\ \A v \in User \ {u} : next.workingBalances[v] = b.workingBalances[v]
           /\ next.integrateInvSupply = b.integrateInvSupply
           /\ next.integrateInvSupplyOf = b.integrateInvSupplyOf
           /\ b.integrateInvSupplyOf[u] = b.integrateInvSupply => Owes(next) = Owes(b)
<1> DEFINE share == Limit(u, l, total)
           next == UpdateLimit(b, u, l, total)
           shares == [b.workingBalances EXCEPT ![u] = share]
<1>1. share \in Nat /\ share <= l /\ IsFiniteSet(User)
  BY LimitType, GaugeAssumption
<1>2. next = [b EXCEPT !.workingBalances = shares,
                       !.workingSupply = @ + share - b.workingBalances[u]]
  BY DEF UpdateLimit
<1> HIDE DEF share, next
<1>3. b \in Books /\ b.workingBalances \in [User -> Nat] /\ b.workingBalances \in [User -> Int]
      /\ b.workingBalances[u] \in Nat
      /\ b.workingSupply = SumFunction(b.workingBalances)
  BY SMT DEF SoundBook, Books
<1>4. /\ shares \in [User -> Nat] /\ shares[u] = share
      /\ \A v \in User \ {u} : shares[v] = b.workingBalances[v]
  BY <1>1, <1>3
<1>5. SumFunction(shares) = b.workingSupply + share - b.workingBalances[u]
  <2>1. SumFunction(shares) = SumFunction(b.workingBalances) - b.workingBalances[u] + share
    BY <1>1, <1>3, TotalUpdate
  <2>2. b.workingSupply \in Nat
    BY <1>3 DEF Books
  <2> QED
    BY <1>1, <1>3, <2>1, <2>2
<1> HIDE DEF shares
<1>6. SumFunction(shares) \in Nat
  BY <1>1, <1>4, TotalType
<1>7. /\ next.workingBalances = shares /\ next.workingSupply = SumFunction(shares)
      /\ next.integrateInvSupply = b.integrateInvSupply
      /\ next.integrateInvSupplyOf = b.integrateInvSupplyOf
      /\ next.integrateFraction = b.integrateFraction
      /\ next \in Books
  BY <1>2, <1>3, <1>4, <1>5, <1>6 DEF Books
<1>8. SoundBook(next)
  BY <1>7 DEF SoundBook
<1>9. ASSUME b.integrateInvSupplyOf[u] = b.integrateInvSupply
      PROVE  Owes(next) = Owes(b)
  <2>1. ASSUME NEW v \in User PROVE Owed(next, v) = Owed(b, v)
    <3>1. CASE v = u
      <4>1. b.integrateInvSupply \in Nat
        BY <1>3 DEF Books
      <4>2. ASSUME NEW n \in Nat PROVE n * (b.integrateInvSupply - b.integrateInvSupply) = 0
        BY <4>1
      <4> QED
        BY <1>1, <1>3, <1>4, <1>7, <1>9, <3>1, <4>2 DEF Owed
    <3>2. CASE v # u
      BY <1>4, <1>7, <3>2 DEF Owed
    <3> QED
      BY <3>1, <3>2
  <2> QED
    BY <2>1 DEF Owes
<1> QED
  BY <1>1, <1>4, <1>7, <1>8, <1>9 DEF next

\* A checkpoint credits u no more than the book owed him.
LEMMA CreditSound ==
    ASSUME GaugeInv, NEW b, SoundBook(b), NEW u \in User
    PROVE  LET next == Credit(b, u) IN
           /\ SoundBook(next)
           /\ next.integrateInvSupply = b.integrateInvSupply
           /\ next.integrateInvSupplyOf[u] = b.integrateInvSupply
           /\ \A v \in User \ {u} : next.integrateInvSupplyOf[v] = b.integrateInvSupplyOf[v]
           /\ Owes(next) <= Owes(b)
<1> DEFINE due == b.workingBalances[u] * (b.integrateInvSupply - b.integrateInvSupplyOf[u])
           paid == due \div ONE
           next == Credit(b, u)
<1>1. /\ b \in Books /\ ONE \in Nat \ {0} /\ now \in Nat
      /\ b.integrateFraction[u] \in Nat /\ b.integrateInvSupply \in Nat
      /\ \A v \in User : b.workingBalances[v] \in Nat
  BY GaugeAssumption DEF SoundBook, Books, GaugeInv
<1>2. due \in Nat
  BY OwedType
<1> DEFINE fractions == [b.integrateFraction EXCEPT ![u] = @ + paid]
           integrals == [b.integrateInvSupplyOf EXCEPT ![u] = b.integrateInvSupply]
           checkpoints == [b.integrateCheckpointOf EXCEPT ![u] = now]
<1>3. next = [b EXCEPT !.integrateFraction = fractions, !.integrateInvSupplyOf = integrals,
                       !.integrateCheckpointOf = checkpoints]
  BY DEF Credit
<1>4. Owed(b, u) = ONE * b.integrateFraction[u] + due
  BY DEF Owed
<1> HIDE DEF due, next
<1>5. paid \in Nat /\ ONE * paid <= due
  BY <1>1, <1>2, Quotient
<1> HIDE DEF paid
<1>6. /\ next \in Books
      /\ next.workingBalances = b.workingBalances /\ next.workingSupply = b.workingSupply
      /\ next.integrateInvSupply = b.integrateInvSupply
      /\ next.integrateFraction[u] = b.integrateFraction[u] + paid
      /\ next.integrateInvSupplyOf[u] = b.integrateInvSupply
      /\ \A v \in User \ {u} :
            /\ next.integrateFraction[v] = b.integrateFraction[v]
            /\ next.integrateInvSupplyOf[v] = b.integrateInvSupplyOf[v]
  <2>1. /\ b.integrateFraction \in [User -> Nat] /\ b.integrateInvSupplyOf \in [User -> Nat]
        /\ b.integrateCheckpointOf \in [User -> Nat]
    BY <1>1 DEF Books
  <2>2. /\ fractions \in [User -> Nat] /\ integrals \in [User -> Nat]
        /\ checkpoints \in [User -> Nat]
        /\ fractions[u] = b.integrateFraction[u] + paid
        /\ integrals[u] = b.integrateInvSupply
        /\ \A v \in User \ {u} : /\ fractions[v] = b.integrateFraction[v]
                                 /\ integrals[v] = b.integrateInvSupplyOf[v]
    BY <1>1, <1>5, <2>1
  <2> HIDE DEF fractions, integrals, checkpoints
  <2> QED
    BY <1>1, <1>3, <2>2 DEF Books
<1>7. SoundBook(next)
  BY <1>1, <1>6 DEF SoundBook
<1>8. ASSUME NEW v \in User PROVE Owed(next, v) <= Owed(b, v)
  <2>1. CASE v = u
    <3>1. Owed(next, u) = ONE * (b.integrateFraction[u] + paid)
                            + b.workingBalances[u] * (b.integrateInvSupply - b.integrateInvSupply)
      BY <1>6 DEF Owed
    <3>2. ASSUME NEW n \in Nat, NEW m \in Nat
          PROVE  n * (m - m) = 0
      OBVIOUS
    <3>3. ONE * (b.integrateFraction[u] + paid) = ONE * b.integrateFraction[u] + ONE * paid
      BY <1>1, <1>5, SMT
    <3>4. ONE * b.integrateFraction[u] \in Nat /\ ONE * paid \in Nat
      BY <1>1, <1>5, Product
    <3>5. Owed(next, u) = ONE * b.integrateFraction[u] + ONE * paid
      BY <1>1, <3>1, <3>2, <3>3, <3>4
    <3> QED
      BY <1>2, <1>4, <1>5, <2>1, <3>4, <3>5
  <2>2. CASE v # u
    <3>1. Owed(next, v) = Owed(b, v)
      BY <1>6, <2>2 DEF Owed
    <3> QED
      BY <3>1, OwedType
  <2> QED
    BY <2>1, <2>2
<1>9. Owes(next) <= Owes(b)
  <2> DEFINE f == [v \in User |-> Owed(next, v)]
             g == [v \in User |-> Owed(b, v)]
  <2>1. /\ f \in [User -> Int] /\ g \in [User -> Int] /\ \A v \in User : f[v] <= g[v]
        /\ IsFiniteSet(User)
    BY <1>7, <1>8, OwedType, GaugeAssumption
  <2> HIDE DEF f, g
  <2>2. SumFunction(f) <= SumFunction(g)
    BY <2>1, TotalMonotone
  <2> QED
    BY <2>2 DEF Owes, f, g
<1> QED
  BY <1>6, <1>7, <1>9 DEF next

\* A higher integral is owed to every share.
Raised(b, x) == [b EXCEPT !.integrateInvSupply = @ + x]

\* Growth raises what a book owes by its worth to all shares.
LEMMA RaisedSound ==
    ASSUME GaugeInv, NEW b, SoundBook(b), NEW x \in Nat
    PROVE  /\ SoundBook(Raised(b, x))
           /\ Owes(Raised(b, x)) = Owes(b) + b.workingSupply * x
<1> DEFINE next == Raised(b, x)
           shares == b.workingBalances
<1>1. /\ b \in Books /\ b.integrateInvSupply \in Nat /\ IsFiniteSet(User)
      /\ shares \in [User -> Nat] /\ shares \in [User -> Int]
      /\ b.workingSupply = SumFunction(shares) /\ b.workingSupply \in Nat
      /\ \A v \in User : /\ shares[v] \in Nat /\ b.integrateInvSupplyOf[v] \in Nat
                         /\ b.integrateInvSupplyOf[v] <= b.integrateInvSupply
  BY GaugeAssumption, SMT DEF SoundBook, Books
<1>2. /\ next \in Books
      /\ next.workingBalances = shares /\ next.workingSupply = b.workingSupply
      /\ next.integrateInvSupply = b.integrateInvSupply + x
      /\ next.integrateInvSupplyOf = b.integrateInvSupplyOf
      /\ next.integrateFraction = b.integrateFraction
  BY <1>1 DEF Books, Raised
<1> HIDE DEF next, shares
<1>3. SoundBook(next)
  BY <1>1, <1>2 DEF SoundBook, shares
<1>4. ASSUME NEW v \in User PROVE Owed(next, v) = Owed(b, v) + x * shares[v]
  <2> DEFINE i == b.integrateInvSupply
             j == b.integrateInvSupplyOf[v]
             s == shares[v]
             f == ONE * b.integrateFraction[v]
  <2>1. i \in Nat /\ j \in Nat /\ s \in Nat /\ f \in Nat
    BY <1>1, OwedType
  <2>2. Owed(next, v) = f + s * ((i + x) - j) /\ Owed(b, v) = f + s * (i - j)
    BY <1>2 DEF Owed, shares
  <2> HIDE DEF i, j, s, f
  <2>3. s * ((i + x) - j) = s * (i - j) + x * s
    BY <2>1, SMT
  <2>4. s * (i - j) \in Int /\ x * s \in Int
    BY <2>1, SMT
  <2> QED
    BY <2>1, <2>2, <2>3, <2>4 DEF s
<1>5. Owes(next) = Owes(b) + x * SumFunction(shares)
  <2> DEFINE f == [v \in User |-> Owed(next, v)]
             g == [v \in User |-> Owed(b, v)]
  <2>1. /\ f \in [User -> Int] /\ g \in [User -> Int] /\ x \in Int
        /\ \A v \in User : f[v] = g[v] + x * shares[v]
    BY <1>3, <1>4, OwedType
  <2> HIDE DEF f, g
  <2>2. SumFunction(f) = SumFunction(g) + x * SumFunction(shares)
    BY <1>1, <2>1, TotalLinear
  <2> QED
    BY <2>2 DEF Owes, f, g
<1>6. x * b.workingSupply = b.workingSupply * x
  BY <1>1, SMT
<1> QED
  BY <1>1, <1>3, <1>5, <1>6 DEF next

\* So a checkpoint makes the book owe no more than its part of the period more.
LEMMA CheckpointSound ==
    ASSUME GaugeInv, NEW b, SoundBook(b), NEW u \in User, NEW allocation \in Nat
    PROVE  LET next == Checkpoint(b, u, allocation, Period) IN
           /\ SoundBook(next)
           /\ next.integrateInvSupplyOf[u] = next.integrateInvSupply
           /\ Owes(next) <= Owes(b) + Parts(allocation, Period)
<1> DEFINE x == Growth(b, allocation, Period)
           next == Checkpoint(b, u, allocation, Period)
           raised == Raised(b, x)
<1>1. /\ Period \in Periods /\ b \in Books /\ b.integrateInvSupply \in Nat
      /\ b.workingSupply \in Nat
  BY PeriodType DEF SoundBook, Books
<1>2. /\ x \in Nat /\ Parts(allocation, Period) \in Nat
      /\ b.workingSupply * x <= Parts(allocation, Period)
  BY <1>1, GrowthWithin
<1> HIDE DEF x
<1>3. SoundBook(raised) /\ Owes(raised) = Owes(b) + b.workingSupply * x
  BY <1>2, RaisedSound
<1>4. next = Credit(raised, u)
  <2>1. /\ raised.integrateInvSupply = b.integrateInvSupply + x
        /\ raised.workingBalances = b.workingBalances
        /\ raised.integrateInvSupplyOf = b.integrateInvSupplyOf
        /\ raised = [b EXCEPT !.integrateInvSupply = b.integrateInvSupply + x]
    BY <1>1 DEF Raised, Books
  <2> DEFINE inv == b.integrateInvSupply + x
             paid == (b.workingBalances[u] * (inv - b.integrateInvSupplyOf[u])) \div ONE
  <2>2. next = [b EXCEPT !.integrateInvSupply = inv,
                         !.integrateFraction[u] = @ + paid,
                         !.integrateInvSupplyOf[u] = inv,
                         !.integrateCheckpointOf[u] = now]
    BY DEF Checkpoint, x
  <2>3. Credit(raised, u) = [raised EXCEPT !.integrateFraction[u] = @ + paid,
                                           !.integrateInvSupplyOf[u] = inv,
                                           !.integrateCheckpointOf[u] = now]
    BY <2>1 DEF Credit
  <2> HIDE DEF inv, paid, next
  <2>4. raised = [b EXCEPT !.integrateInvSupply = inv]
    BY <2>1 DEF inv
  <2> QED
    BY <1>1, <2>2, <2>3, <2>4 DEF Books
<1> HIDE DEF next, raised
<1>5. /\ SoundBook(next) /\ next.integrateInvSupplyOf[u] = next.integrateInvSupply
      /\ Owes(next) <= Owes(raised)
  BY <1>3, <1>4, CreditSound
<1>6. Owes(next) \in Nat /\ Owes(raised) \in Nat /\ Owes(b) \in Nat
      /\ b.workingSupply * x \in Nat
  BY <1>1, <1>2, <1>3, <1>5, OwesType, Product
<1> QED
  BY <1>2, <1>3, <1>5, <1>6 DEF next

-----------------------------------------------------------------------------
(* Both books.                                                             *)

\* What both books have credited or owe.
Due(books) == Owes(books["hToken"]) + Owes(books["variableDebtToken"])

\* The sum that RewardsWithinEmission speaks of is what the two books owe.
LEMMA DueIsSum ==
    ASSUME NEW books, SoundBooks(books)
    PROVE  /\ Due(books) \in Nat
           /\ SumFunction([t \in Token |-> SumFunction([u \in User |-> Owed(books[t], u)])])
                 = Due(books)
<1> DEFINE f == [t \in Token |-> Owes(books[t])]
           one == "hToken"
           other == "variableDebtToken"
<1>2. \A t \in Token : Owes(books[t]) \in Nat
  <2>1. ASSUME NEW t \in Token PROVE Owes(books[t]) \in Nat
    BY OwesType DEF SoundBooks
  <2> QED
    BY <2>1
<1>3. /\ one \in Token /\ other \in Token /\ one # other /\ Token = {one, other}
      /\ IsFiniteSet(Token)
  <2>1. IsFiniteSet({one} \cup {other})
    BY FS_Singleton, FS_AddElement
  <2>2. Token = {one} \cup {other} /\ one # other
    BY DEF Token
  <2> QED
    BY <2>1, <2>2
<1>4. /\ DOMAIN f = Token /\ f[one] = Owes(books[one]) /\ f[other] = Owes(books[other])
      /\ \A t \in Token : f[t] \in Int
  BY <1>2, <1>3
<1>5. Due(books) = f[one] + f[other] /\ Due(books) \in Nat
  BY <1>2, <1>3, <1>4 DEF Due
<1> HIDE DEF f, one, other
<1>6. SumFunctionOnSet(f, Token) = f[one] + SumFunctionOnSet(f, Token \ {one})
  BY <1>3, <1>4, SumElement
<1>7. SumFunctionOnSet(f, Token \ {one}) = f[other] + SumFunctionOnSet(f, {})
  <2>1. Token \ {one} = {other} /\ {other} \ {other} = {} /\ IsFiniteSet({other})
    BY <1>3, FS_Singleton
  <2>2. \A t \in {other} : f[t] \in Int
    BY <1>3, <1>4
  <2>3. SumFunctionOnSet(f, {other}) = f[other] + SumFunctionOnSet(f, {other} \ {other})
    BY <2>1, <2>2, SumElement
  <2> QED
    BY <2>1, <2>3
<1>8. SumFunctionOnSet(f, {}) = 0
  BY SumEmpty
<1>9. SumFunction(f) = f[one] + f[other]
  BY <1>3, <1>4, <1>6, <1>7, <1>8 DEF SumFunction
<1> QED
  BY <1>5, <1>9 DEF f, Owes

\* Supplies are naturals, and no less than any balance.
LEMMA SupplyType ==
    ASSUME NEW balances \in Balances, NEW t \in Token
    PROVE  /\ TotalSupply(balances, t) \in Nat
           /\ \A u \in User : /\ balances[t][u] \in Nat
                              /\ balances[t][u] <= TotalSupply(balances, t)
<1>1. balances[t] \in [User -> Nat] /\ IsFiniteSet(User)
  BY GaugeAssumption DEF Balances
<1>2. SumFunction(balances[t]) \in Nat
  BY <1>1, TotalType
<1>3. \A u \in User : balances[t][u] <= SumFunction(balances[t])
  BY <1>1, TotalBounds
<1> QED
  BY <1>1, <1>2, <1>3 DEF TotalSupply

\* A checkpoint of both books adds to what they owe at most the emission.
LEMMA HvCheckpointSound ==
    ASSUME GaugeInv, MayCheckpoint, NEW u \in User
    PROVE  /\ SoundBooks(HvCheckpoint(u))
           /\ \A t \in Token :
                 TotalSupply(bal, t) # 0 =>
                    HvCheckpoint(u)[t].integrateInvSupplyOf[u]
                       = HvCheckpoint(u)[t].integrateInvSupply
           /\ \A t \in Token : TotalSupply(bal, t) = 0 => HvCheckpoint(u)[t] = book[t]
           /\ Emission \in Nat
           /\ Due(HvCheckpoint(u)) <= Due(book) + Emission
<1> DEFINE next == HvCheckpoint(u)
           a == gauge.borrowAllocation
<1>1. /\ RAY \in Nat /\ a \in Nat /\ Period \in Periods /\ bal \in Balances
      /\ SoundBooks(book)
  BY GaugeAssumption, PeriodType DEF GaugeInv, Gauges
<1>2. Emission \in Nat
  <2>1. 0 \in Nat /\ 0 <= RAY
    BY <1>1
  <2> QED
    BY <2>1, EmissionWithin
<1>3. ASSUME NEW t \in Token, TotalSupply(bal, t) = 0
      PROVE  next[t] = book[t]
  BY <1>3 DEF HvCheckpoint
<1>4. ASSUME NEW t \in Token, TotalSupply(bal, t) # 0
      PROVE  /\ RelativeWeight(t) \in Nat
             /\ SoundBook(next[t])
             /\ next[t].integrateInvSupplyOf[u] = next[t].integrateInvSupply
             /\ Owes(next[t]) <= Owes(book[t]) + Parts(RelativeWeight(t), Period)
  <2>1. RelativeWeight(t) \in Nat
    BY <1>1, <1>4 DEF RelativeWeight, MayCheckpoint, Token
  <2>2. next[t] = Checkpoint(book[t], u, RelativeWeight(t), Period)
    BY <1>4 DEF HvCheckpoint
  <2>3. SoundBook(book[t])
    BY <1>1 DEF SoundBooks
  <2> HIDE DEF next
  <2> QED
    BY <2>1, <2>2, <2>3, CheckpointSound
<1>5. SoundBooks(next)
  <2>1. DOMAIN next = Token
    BY DEF HvCheckpoint
  <2> HIDE DEF next
  <2> QED
    BY <1>1, <1>3, <1>4, <2>1 DEF SoundBooks
<1> HIDE DEF next
<1> DEFINE one == "hToken"
           other == "variableDebtToken"
<1>6. /\ one \in Token /\ other \in Token /\ SoundBook(book[one]) /\ SoundBook(book[other])
      /\ SoundBook(next[one]) /\ SoundBook(next[other])
  BY <1>1, <1>5 DEF Token, SoundBooks
<1>7. /\ Owes(book[one]) \in Nat /\ Owes(book[other]) \in Nat
      /\ Owes(next[one]) \in Nat /\ Owes(next[other]) \in Nat
  BY <1>6, OwesType
<1>8. Owes(next[one]) + Owes(next[other]) <= Owes(book[one]) + Owes(book[other]) + Emission
  <2>1. CASE TotalSupply(bal, one) # 0
    <3>1. a <= RAY
      BY <2>1 DEF MayCheckpoint
    <3>2. RelativeWeight(one) = RAY - a /\ RelativeWeight(other) = a
      BY DEF RelativeWeight
    <3> DEFINE p == Parts(a, Period)
               q == Parts(RAY - a, Period)
    <3>3. p + q <= Emission
      BY <1>1, <3>1, EmissionWithin
    <3>4. p \in Nat /\ q \in Nat
      <4>1. RAY - a \in Nat
        BY <1>1, <3>1
      <4>2. book[one] \in Books
        BY <1>6 DEF SoundBook
      <4> QED
        BY <1>1, <4>1, <4>2, GrowthWithin
    <3>5. Owes(next[one]) <= Owes(book[one]) + q
      BY <1>4, <1>6, <2>1, <3>2
    <3>6. Owes(next[other]) <= Owes(book[other]) + p
      <4>1. CASE TotalSupply(bal, other) # 0
        BY <1>4, <1>6, <3>2, <4>1
      <4>2. CASE TotalSupply(bal, other) = 0
        BY <1>3, <1>6, <1>7, <3>4, <4>2
      <4> QED
        BY <4>1, <4>2
    <3> HIDE DEF p, q
    <3> QED
      BY <1>2, <1>7, <3>3, <3>4, <3>5, <3>6
  <2>2. CASE TotalSupply(bal, one) = 0
    <3>1. TotalSupply(bal, other) = 0
      <4> DEFINE owed == SumFunction(stable)
                 lent == TotalSupply(bal, other)
      <4>1. cash \in Nat /\ owed \in Nat /\ lent \in Nat
        <5>1. stable \in [User -> Nat] /\ IsFiniteSet(User) /\ cash \in Nat
          BY GaugeAssumption DEF GaugeInv
        <5> QED
          BY <1>1, <1>6, <5>1, SupplyType, TotalType
      <4>2. cash + (owed + lent) = 0
        BY <2>2 DEF GaugeInv, HeldBack, TotalDebt
      <4> HIDE DEF owed, lent
      <4>3. lent = 0
        BY <4>1, <4>2
      <4> QED
        BY <4>3 DEF lent
    <3> QED
      BY <1>2, <1>3, <1>6, <1>7, <2>2, <3>1
  <2> QED
    BY <2>1, <2>2
<1> QED
  BY <1>2, <1>3, <1>4, <1>5, <1>8 DEF next, Due

\* A second checkpoint in the same call adds nothing, and leaves the first as it is.
LEMMA HvCheckpointBothSound ==
    ASSUME GaugeInv, MayCheckpoint, NEW u \in User, NEW v \in User
    PROVE  /\ SoundBooks(HvCheckpointBoth(u, v))
           /\ \A t \in Token, w \in {u, v} :
                 TotalSupply(bal, t) # 0 =>
                    HvCheckpointBoth(u, v)[t].integrateInvSupplyOf[w]
                       = HvCheckpointBoth(u, v)[t].integrateInvSupply
           /\ Due(HvCheckpointBoth(u, v)) <= Due(book) + Emission
<1> DEFINE first == HvCheckpoint(u)
           next == HvCheckpointBoth(u, v)
<1>1. /\ SoundBooks(first) /\ SoundBooks(book)
      /\ \A t \in Token : TotalSupply(bal, t) # 0 =>
            first[t].integrateInvSupplyOf[u] = first[t].integrateInvSupply
      /\ \A t \in Token : TotalSupply(bal, t) = 0 => first[t] = book[t]
      /\ Emission \in Nat /\ Due(first) <= Due(book) + Emission
  BY HvCheckpointSound DEF GaugeInv
<1>2. ASSUME NEW t \in Token
      PROVE  next[t] = IF TotalSupply(bal, t) = 0 THEN first[t] ELSE Credit(first[t], v)
  BY <1>1 DEF HvCheckpointBoth
<1>3. DOMAIN next = Token
  BY DEF HvCheckpointBoth
<1> HIDE DEF first, next
<1>4. ASSUME NEW t \in Token
      PROVE  /\ SoundBook(next[t])
             /\ TotalSupply(bal, t) # 0 =>
                   /\ next[t].integrateInvSupplyOf[u] = next[t].integrateInvSupply
                   /\ next[t].integrateInvSupplyOf[v] = next[t].integrateInvSupply
             /\ Owes(next[t]) <= Owes(first[t])
             /\ Owes(next[t]) \in Nat /\ Owes(first[t]) \in Nat
  <2>1. SoundBook(first[t])
    BY <1>1 DEF SoundBooks
  <2>2. CASE TotalSupply(bal, t) = 0
    BY <1>2, <2>1, <2>2, OwesType
  <2>3. CASE TotalSupply(bal, t) # 0
    <3>1. next[t] = Credit(first[t], v)
      BY <1>2, <2>3
    <3>2. /\ SoundBook(next[t])
          /\ next[t].integrateInvSupply = first[t].integrateInvSupply
          /\ next[t].integrateInvSupplyOf[v] = first[t].integrateInvSupply
          /\ \A w \in User \ {v} :
                next[t].integrateInvSupplyOf[w] = first[t].integrateInvSupplyOf[w]
          /\ Owes(next[t]) <= Owes(first[t])
      BY <2>1, <3>1, CreditSound
    <3> QED
      BY <1>1, <2>1, <2>3, <3>2, OwesType
  <2> QED
    BY <2>2, <2>3
<1>5. SoundBooks(next)
  BY <1>3, <1>4 DEF SoundBooks
<1>6. Due(next) <= Due(first)
  BY <1>4 DEF Due, Token
<1>7. Due(next) \in Nat /\ Due(first) \in Nat /\ Due(book) \in Nat
  BY <1>1, <1>5, DueIsSum
<1>8. Due(next) <= Due(book) + Emission
  BY <1>1, <1>6, <1>7
<1> QED
  BY <1>4, <1>5, <1>8 DEF next

\* A refresh keeps both books sound, bounds u's shares where a token has supply, and
\* owes what it did if u is up to date wherever it refreshes.
LEMMA LimitsSound ==
    ASSUME GaugeInv, NEW books, SoundBooks(books), NEW balances \in Balances, NEW u \in User
    PROVE  LET next == HvUpdateLiquidityLimit(books, balances, u) IN
           /\ SoundBooks(next)
           /\ \A t \in Token :
                 /\ TotalSupply(balances, t) # 0 =>
                       next[t].workingBalances[u] <= balances[t][u]
                 /\ \A v \in User \ {u} :
                       next[t].workingBalances[v] = books[t].workingBalances[v]
                 /\ next[t].integrateInvSupply = books[t].integrateInvSupply
                 /\ next[t].integrateInvSupplyOf = books[t].integrateInvSupplyOf
           /\ (\A t \in Token : TotalSupply(balances, t) # 0 =>
                  books[t].integrateInvSupplyOf[u] = books[t].integrateInvSupply)
                 => Due(next) = Due(books)
<1> DEFINE next == HvUpdateLiquidityLimit(books, balances, u)
<1>1. ASSUME NEW t \in Token
      PROVE  next[t] = IF TotalSupply(balances, t) = 0 THEN books[t]
                       ELSE UpdateLimit(books[t], u, balances[t][u], TotalSupply(balances, t))
  BY DEF HvUpdateLiquidityLimit
<1>2. DOMAIN next = Token
  BY DEF HvUpdateLiquidityLimit
<1> HIDE DEF next
<1>3. ASSUME NEW t \in Token
      PROVE  /\ SoundBook(next[t])
             /\ TotalSupply(balances, t) # 0 =>
                   next[t].workingBalances[u] <= balances[t][u]
             /\ \A v \in User \ {u} :
                   next[t].workingBalances[v] = books[t].workingBalances[v]
             /\ next[t].integrateInvSupply = books[t].integrateInvSupply
             /\ next[t].integrateInvSupplyOf = books[t].integrateInvSupplyOf
             /\ (TotalSupply(balances, t) # 0 =>
                    books[t].integrateInvSupplyOf[u] = books[t].integrateInvSupply)
                   => Owes(next[t]) = Owes(books[t])
  <2>1. SoundBook(books[t]) /\ TotalSupply(balances, t) \in Nat /\ balances[t][u] \in Nat
    BY SupplyType DEF SoundBooks
  <2>2. CASE TotalSupply(balances, t) = 0
    BY <1>1, <2>1, <2>2
  <2>3. CASE TotalSupply(balances, t) # 0
    <3> DEFINE l == balances[t][u]
               total == TotalSupply(balances, t)
               b == books[t]
    <3>1. next[t] = UpdateLimit(b, u, l, total)
      BY <1>1, <2>3
    <3>2. SoundBook(b) /\ l \in Nat /\ total \in Nat
      BY <2>1
    <3> HIDE DEF l, total, b
    <3>3. /\ SoundBook(next[t])
          /\ next[t].workingBalances[u] <= l
          /\ \A v \in User \ {u} : next[t].workingBalances[v] = b.workingBalances[v]
          /\ next[t].integrateInvSupply = b.integrateInvSupply
          /\ next[t].integrateInvSupplyOf = b.integrateInvSupplyOf
          /\ b.integrateInvSupplyOf[u] = b.integrateInvSupply => Owes(next[t]) = Owes(b)
      BY <3>1, <3>2, UpdateLimitSound
    <3> QED
      BY <2>3, <3>3 DEF l, b
  <2> QED
    BY <2>2, <2>3
<1>4. SoundBooks(next)
  BY <1>2, <1>3 DEF SoundBooks
<1>5. ASSUME \A t \in Token : TotalSupply(balances, t) # 0 =>
                  books[t].integrateInvSupplyOf[u] = books[t].integrateInvSupply
      PROVE  Due(next) = Due(books)
  BY <1>3, <1>5 DEF Due, Token
<1> QED
  BY <1>3, <1>4, <1>5 DEF next

-----------------------------------------------------------------------------
(* Calls that move tokens.                                                 *)

\* Such a call leaves sound books, that owe no more than the call has emitted; and
\* whoever's balance it changes has a share of at most his tokens, if there are any.
TokenStep ==
    /\ bal' \in Balances /\ SoundBooks(book') /\ calls' \in 0 .. MaxCalls
    /\ emitted' \in Nat /\ orderly' \in BOOLEAN
    /\ orderly' => orderly /\ Due(book') + emitted <= Due(book) + emitted'
    /\ \A t \in Token, u \in User :
          bal'[t][u] # bal[t][u] /\ TotalSupply(bal', t) # 0 =>
              book'[t].workingBalances[u] <= bal'[t][u]

\* Calls are counted up to the bound.
LEMMA CallCounted ==
    ASSUME GaugeInv, Called PROVE calls' \in 0 .. MaxCalls
  BY GaugeAssumption DEF GaugeInv, Called

\* Closing a period adds its emission.
LEMMA PeriodClosed ==
    ASSUME GaugeInv, MayCheckpoint, NEW u \in User, ClosePeriod
    PROVE  emitted' \in Nat /\ emitted' = emitted + Emission /\ Emission \in Nat
<1>1. Emission \in Nat /\ emitted \in Nat
  BY HvCheckpointSound DEF GaugeInv
<1> QED
  BY <1>1 DEF ClosePeriod

\* One balance becomes n.
With(balances, t, u, n) == [balances EXCEPT ![t][u] = n]

\* A changed balance changes its own supply by as much, and nothing else.
LEMMA BalanceMoves ==
    ASSUME NEW balances \in Balances, NEW t \in Token, NEW u \in User, NEW n \in Nat
    PROVE  /\ With(balances, t, u, n) \in Balances
           /\ With(balances, t, u, n)[t][u] = n
           /\ \A s \in Token, w \in User :
                 s # t \/ w # u => With(balances, t, u, n)[s][w] = balances[s][w]
           /\ TotalSupply(With(balances, t, u, n), t)
                 = TotalSupply(balances, t) - balances[t][u] + n
           /\ \A s \in Token :
                 s # t => TotalSupply(With(balances, t, u, n), s) = TotalSupply(balances, s)
<1> DEFINE next == With(balances, t, u, n)
           f == balances[t]
           g == [f EXCEPT ![u] = n]
<1>1. /\ f \in [User -> Nat] /\ f \in [User -> Int] /\ IsFiniteSet(User)
      /\ balances \in [Token -> [User -> Nat]]
  BY GaugeAssumption DEF Balances
<1>2. next = [balances EXCEPT ![t] = g]
  BY DEF With
<1>3. /\ g \in [User -> Nat] /\ g \in [User -> Int] /\ g[u] = n
      /\ \A w \in User : w # u => g[w] = f[w]
  BY <1>1
<1> HIDE DEF g
<1>4. SumFunction(g) = SumFunction(f) - f[u] + n
  <2> HIDE DEF f
  <2> QED
    BY <1>1, <1>3, TotalChange
<1> HIDE DEF next
<1>5. next \in Balances /\ next[t] = g /\ \A s \in Token : s # t => next[s] = balances[s]
  BY <1>1, <1>2, <1>3 DEF Balances
<1>6. /\ next[t][u] = n
      /\ \A s \in Token, w \in User : s # t \/ w # u => next[s][w] = balances[s][w]
      /\ TotalSupply(next, t) = TotalSupply(balances, t) - balances[t][u] + n
      /\ \A s \in Token : s # t => TotalSupply(next, s) = TotalSupply(balances, s)
  BY <1>3, <1>4, <1>5 DEF TotalSupply
<1> QED
  BY <1>5, <1>6 DEF next

\* What such a move changes, and what it leaves.
Moved(balances, next, t, u, n) ==
    /\ next \in Balances
    /\ next[t][u] = n
    /\ \A s \in Token, w \in User : s # t \/ w # u => next[s][w] = balances[s][w]
    /\ TotalSupply(next, t) = TotalSupply(balances, t) - balances[t][u] + n
    /\ \A s \in Token : s # t => TotalSupply(next, s) = TotalSupply(balances, s)

LEMMA BalanceMoved ==
    ASSUME NEW balances \in Balances, NEW t \in Token, NEW u \in User, NEW n \in Nat,
           NEW next, next = With(balances, t, u, n)
    PROVE  Moved(balances, next, t, u, n)
BY BalanceMoves DEF Moved

\* A mint checkpoints before and refreshes after.
LEMMA MintStep ==
    ASSUME GaugeInv, NEW t \in Token, NEW u \in User, NEW x \in Nat, MintToken(t, u, x)
    PROVE  /\ TokenStep
           /\ TotalSupply(bal', t) = TotalSupply(bal, t) + x
           /\ \A s \in Token : s # t => TotalSupply(bal', s) = TotalSupply(bal, s)
<1> DEFINE n == bal[t][u] + x
           books == HvCheckpoint(u)
<1>1. /\ bal \in Balances /\ SoundBooks(book) /\ emitted \in Nat /\ orderly \in BOOLEAN
      /\ MayCheckpoint /\ ClosePeriod /\ Called
      /\ bal[t][u] \in Nat /\ n \in Nat /\ TotalSupply(bal, t) \in Nat
  BY SupplyType DEF GaugeInv, MintToken
<1>2. /\ bal' = With(bal, t, u, n)
      /\ book' = HvUpdateLiquidityLimit(books, bal', u)
      /\ orderly' = (orderly /\ UpToDate(t, u))
  BY DEF MintToken, With
<1> HIDE DEF n, books
<1>3. /\ bal' \in Balances /\ bal'[t][u] = n
      /\ \A s \in Token, w \in User : s # t \/ w # u => bal'[s][w] = bal[s][w]
      /\ TotalSupply(bal', t) = TotalSupply(bal, t) - bal[t][u] + n
      /\ \A s \in Token : s # t => TotalSupply(bal', s) = TotalSupply(bal, s)
  <2>1. bal \in Balances /\ n \in Nat /\ bal' = With(bal, t, u, n)
    BY <1>1, <1>2
  <2> QED
    <3>1. Moved(bal, bal', t, u, n)
      BY <2>1, BalanceMoved
    <3> QED
      BY <3>1 DEF Moved
<1>4. /\ SoundBooks(books)
      /\ \A s \in Token : TotalSupply(bal, s) # 0 =>
            books[s].integrateInvSupplyOf[u] = books[s].integrateInvSupply
      /\ \A s \in Token : TotalSupply(bal, s) = 0 => books[s] = book[s]
      /\ Due(books) <= Due(book) + Emission
  BY <1>1, HvCheckpointSound DEF books
<1>5. /\ SoundBooks(book')
      /\ \A s \in Token : TotalSupply(bal', s) # 0 =>
            book'[s].workingBalances[u] <= bal'[s][u]
      /\ (\A s \in Token : TotalSupply(bal', s) # 0 =>
             books[s].integrateInvSupplyOf[u] = books[s].integrateInvSupply)
            => Due(book') = Due(books)
  BY <1>2, <1>3, <1>4, LimitsSound
<1>6. emitted' \in Nat /\ emitted' = emitted + Emission /\ Emission \in Nat
  BY <1>1, PeriodClosed
<1>7. Due(book') \in Nat /\ Due(book) \in Nat /\ Due(books) \in Nat
  BY <1>1, <1>4, <1>5, DueIsSum
<1>8. orderly' \in BOOLEAN /\ calls' \in 0 .. MaxCalls
  BY <1>1, <1>2, CallCounted
<1>9. ASSUME orderly' PROVE orderly /\ Due(book') + emitted <= Due(book) + emitted'
  <2>1. orderly /\ UpToDate(t, u)
    BY <1>2, <1>9
  <2>2. \A s \in Token : TotalSupply(bal', s) # 0 =>
           books[s].integrateInvSupplyOf[u] = books[s].integrateInvSupply
    BY <1>3, <1>4, <2>1 DEF UpToDate
  <2> QED
    BY <1>1, <1>4, <1>5, <1>6, <1>7, <2>1, <2>2
<1>10. \A s \in Token, w \in User :
          bal'[s][w] # bal[s][w] /\ TotalSupply(bal', s) # 0 =>
              book'[s].workingBalances[w] <= bal'[s][w]
  BY <1>3, <1>5
<1>11. TotalSupply(bal', t) = TotalSupply(bal, t) + x
  BY <1>1, <1>3 DEF n
<1> QED
  BY <1>3, <1>5, <1>6, <1>8, <1>9, <1>10, <1>11 DEF TokenStep

\* So does a burn; it cannot fill an empty token.
LEMMA BurnStep ==
    ASSUME GaugeInv, NEW t \in Token, NEW u \in User, NEW x \in Nat, BurnToken(t, u, x)
    PROVE  /\ TokenStep
           /\ TotalSupply(bal', t) = TotalSupply(bal, t) - x
           /\ \A s \in Token : s # t => TotalSupply(bal', s) = TotalSupply(bal, s)
<1> DEFINE n == bal[t][u] - x
           books == HvCheckpoint(u)
<1>1. /\ bal \in Balances /\ SoundBooks(book) /\ emitted \in Nat /\ orderly \in BOOLEAN
      /\ MayCheckpoint /\ ClosePeriod /\ Called
      /\ bal[t][u] \in Nat /\ n \in Nat /\ TotalSupply(bal, t) \in Nat
  BY SupplyType DEF GaugeInv, BurnToken
<1>2. /\ bal' = With(bal, t, u, n)
      /\ book' = HvUpdateLiquidityLimit(books, bal', u)
      /\ orderly' = orderly
  BY DEF BurnToken, With
<1>3. n = bal[t][u] - x
  OBVIOUS
<1> HIDE DEF n, books
<1>4. /\ bal' \in Balances /\ bal'[t][u] = n
      /\ \A s \in Token, w \in User : s # t \/ w # u => bal'[s][w] = bal[s][w]
      /\ TotalSupply(bal', t) = TotalSupply(bal, t) - bal[t][u] + n
      /\ \A s \in Token : s # t => TotalSupply(bal', s) = TotalSupply(bal, s)
  <2>1. bal \in Balances /\ n \in Nat /\ bal' = With(bal, t, u, n)
    BY <1>1, <1>2
  <2> QED
    <3>1. Moved(bal, bal', t, u, n)
      BY <2>1, BalanceMoved
    <3> QED
      BY <3>1 DEF Moved
<1>5. /\ TotalSupply(bal', t) = TotalSupply(bal, t) - x
      /\ \A s \in Token : TotalSupply(bal', s) # 0 => TotalSupply(bal, s) # 0
  <2>1. TotalSupply(bal', t) = TotalSupply(bal, t) - x
    BY <1>1, <1>3, <1>4
  <2>2. TotalSupply(bal', t) \in Nat
    BY <1>4, SupplyType
  <2> QED
    BY <1>1, <1>4, <2>1, <2>2
<1>6. /\ SoundBooks(books)
      /\ \A s \in Token : TotalSupply(bal, s) # 0 =>
            books[s].integrateInvSupplyOf[u] = books[s].integrateInvSupply
      /\ Due(books) <= Due(book) + Emission
  BY <1>1, HvCheckpointSound DEF books
<1>7. /\ SoundBooks(book')
      /\ \A s \in Token : TotalSupply(bal', s) # 0 =>
            book'[s].workingBalances[u] <= bal'[s][u]
      /\ (\A s \in Token : TotalSupply(bal', s) # 0 =>
             books[s].integrateInvSupplyOf[u] = books[s].integrateInvSupply)
            => Due(book') = Due(books)
  BY <1>2, <1>4, <1>6, LimitsSound
<1>8. emitted' \in Nat /\ emitted' = emitted + Emission /\ Emission \in Nat
  BY <1>1, PeriodClosed
<1>9. Due(book') \in Nat /\ Due(book) \in Nat /\ Due(books) \in Nat
  BY <1>1, <1>6, <1>7, DueIsSum
<1>10. Due(book') + emitted <= Due(book) + emitted'
  BY <1>1, <1>5, <1>6, <1>7, <1>8, <1>9
<1>11. calls' \in 0 .. MaxCalls
  BY <1>1, CallCounted
<1>12. \A s \in Token, w \in User :
          bal'[s][w] # bal[s][w] /\ TotalSupply(bal', s) # 0 =>
              book'[s].workingBalances[w] <= bal'[s][w]
  BY <1>4, <1>7
<1> QED
  BY <1>1, <1>2, <1>4, <1>5, <1>7, <1>8, <1>10, <1>11, <1>12 DEF TokenStep

\* A transfer moves x between two users' hTokens.
LEMMA TransferStep ==
    ASSUME GaugeInv, NEW u \in User, NEW v \in User \ {u}, NEW x \in Nat \ {0},
           Transfer(u, v, x)
    PROVE  /\ TokenStep
           /\ \A s \in Token : TotalSupply(bal', s) = TotalSupply(bal, s)
<1> DEFINE h == "hToken"
           paid == With(bal, h, u, bal[h][u] - x)
           books == HvCheckpointBoth(u, v)
           between == HvUpdateLiquidityLimit(books, bal', u)
<1>1. /\ bal \in Balances /\ SoundBooks(book) /\ emitted \in Nat /\ orderly \in BOOLEAN
      /\ MayCheckpoint /\ ClosePeriod /\ Called /\ h \in Token
      /\ bal[h][u] \in Nat /\ bal[h][v] \in Nat /\ TotalSupply(bal, h) \in Nat
      /\ x <= bal[h][u] /\ bal[h][u] <= TotalSupply(bal, h)
  BY SupplyType DEF GaugeInv, Transfer, Token
<1>2. /\ bal' = With(paid, h, v, bal[h][v] + x)
      /\ book' = HvUpdateLiquidityLimit(between, bal', v)
      /\ orderly' = orderly
  <2>1. u # v /\ h \in Token /\ bal \in [Token -> [User -> Nat]]
    BY <1>1 DEF Balances
  <2>2. bal' = [bal EXCEPT ![h][u] = bal[h][u] - x, ![h][v] = bal[h][v] + x]
    BY DEF Transfer
  <2>3. With(With(bal, h, u, bal[h][u] - x), h, v, bal[h][v] + x)
           = [bal EXCEPT ![h][u] = bal[h][u] - x, ![h][v] = bal[h][v] + x]
    BY <2>1 DEF With
  <2> QED
    BY <2>2, <2>3 DEF Transfer
<1> HIDE DEF h, books, between
<1>3. /\ paid \in Balances /\ paid[h][u] = bal[h][u] - x
      /\ \A s \in Token, w \in User : s # h \/ w # u => paid[s][w] = bal[s][w]
      /\ TotalSupply(paid, h) = TotalSupply(bal, h) - x
      /\ \A s \in Token : s # h => TotalSupply(paid, s) = TotalSupply(bal, s)
  <2> DEFINE n == bal[h][u] - x
  <2>1. n \in Nat /\ n = bal[h][u] - x /\ paid = With(bal, h, u, n)
        /\ bal \in Balances /\ h \in Token
    BY <1>1
  <2> HIDE DEF n, paid
  <2>2. /\ paid \in Balances /\ paid[h][u] = n
        /\ \A s \in Token, w \in User : s # h \/ w # u => paid[s][w] = bal[s][w]
        /\ TotalSupply(paid, h) = TotalSupply(bal, h) - bal[h][u] + n
        /\ \A s \in Token : s # h => TotalSupply(paid, s) = TotalSupply(bal, s)
    <3>1. Moved(bal, paid, h, u, n)
      BY <2>1, BalanceMoved
    <3> QED
      BY <3>1 DEF Moved
  <2> QED
    BY <1>1, <2>1, <2>2
<1> HIDE DEF paid
<1>4. /\ bal' \in Balances
      /\ \A s \in Token, w \in User : s # h \/ w # v => bal'[s][w] = paid[s][w]
      /\ TotalSupply(bal', h) = TotalSupply(paid, h) + x
      /\ \A s \in Token : s # h => TotalSupply(bal', s) = TotalSupply(paid, s)
  <2> DEFINE n == bal[h][v] + x
  <2>1. n \in Nat /\ n = bal[h][v] + x /\ bal' = With(paid, h, v, n)
        /\ paid[h][v] = bal[h][v] /\ paid \in Balances /\ h \in Token
    BY <1>1, <1>2, <1>3
  <2> HIDE DEF n
  <2>2. /\ bal' \in Balances
        /\ \A s \in Token, w \in User : s # h \/ w # v => bal'[s][w] = paid[s][w]
        /\ TotalSupply(bal', h) = TotalSupply(paid, h) - paid[h][v] + n
        /\ \A s \in Token : s # h => TotalSupply(bal', s) = TotalSupply(paid, s)
    <3>1. Moved(paid, bal', h, v, n)
      BY <2>1, BalanceMoved
    <3> QED
      BY <3>1 DEF Moved
  <2> QED
    BY <1>1, <1>3, <2>1, <2>2
<1>5. \A s \in Token : TotalSupply(bal', s) = TotalSupply(bal, s)
  BY <1>1, <1>3, <1>4
<1>6. /\ SoundBooks(books)
      /\ \A s \in Token, w \in {u, v} : TotalSupply(bal, s) # 0 =>
            books[s].integrateInvSupplyOf[w] = books[s].integrateInvSupply
      /\ Due(books) <= Due(book) + Emission
  BY <1>1, HvCheckpointBothSound DEF books
<1>7. /\ SoundBooks(between)
      /\ \A s \in Token :
            /\ TotalSupply(bal', s) # 0 => between[s].workingBalances[u] <= bal'[s][u]
            /\ between[s].integrateInvSupply = books[s].integrateInvSupply
            /\ between[s].integrateInvSupplyOf = books[s].integrateInvSupplyOf
      /\ Due(between) = Due(books)
  BY <1>4, <1>5, <1>6, LimitsSound DEF between
<1>8. /\ SoundBooks(book')
      /\ \A s \in Token :
            /\ TotalSupply(bal', s) # 0 => book'[s].workingBalances[v] <= bal'[s][v]
            /\ book'[s].workingBalances[u] = between[s].workingBalances[u]
      /\ Due(book') = Due(between)
  <2>1. \A s \in Token : TotalSupply(bal', s) # 0 =>
           between[s].integrateInvSupplyOf[v] = between[s].integrateInvSupply
    BY <1>5, <1>6, <1>7
  <2> QED
    BY <1>2, <1>4, <1>7, <2>1, LimitsSound
<1>9. emitted' \in Nat /\ emitted' = emitted + Emission /\ Emission \in Nat
  BY <1>1, PeriodClosed
<1>10. Due(book') \in Nat /\ Due(book) \in Nat
  BY <1>1, <1>8, DueIsSum
<1>11. Due(book') + emitted <= Due(book) + emitted'
  BY <1>1, <1>6, <1>7, <1>8, <1>9, <1>10
<1>12. calls' \in 0 .. MaxCalls
  BY <1>1, CallCounted
<1>13. \A s \in Token, w \in User :
          bal'[s][w] # bal[s][w] /\ TotalSupply(bal', s) # 0 =>
              book'[s].workingBalances[w] <= bal'[s][w]
  BY <1>3, <1>4, <1>7, <1>8
<1> QED
  BY <1>1, <1>2, <1>4, <1>5, <1>8, <1>9, <1>11, <1>12, <1>13 DEF TokenStep

\* A debt repaid with hTokens burns as much of both tokens.
LEMMA RepayWithHTokensStep ==
    ASSUME GaugeInv, NEW u \in User, NEW x \in Nat, RepayWithHTokens(u, x)
    PROVE  /\ TokenStep
           /\ TotalSupply(bal', "hToken") = TotalSupply(bal, "hToken") - x
           /\ TotalSupply(bal', "variableDebtToken") = TotalSupply(bal, "variableDebtToken") - x
<1> DEFINE h == "hToken"
           d == "variableDebtToken"
           paid == With(bal, d, u, bal[d][u] - x)
           books == HvCheckpoint(u)
           between == HvUpdateLiquidityLimit(books, paid, u)
<1>1. /\ bal \in Balances /\ SoundBooks(book) /\ emitted \in Nat /\ orderly \in BOOLEAN
      /\ MayCheckpoint /\ ClosePeriod /\ Called /\ h \in Token /\ d \in Token /\ h # d
      /\ bal[h][u] \in Nat /\ bal[d][u] \in Nat
      /\ TotalSupply(bal, h) \in Nat /\ TotalSupply(bal, d) \in Nat
      /\ x <= bal[h][u] /\ x <= bal[d][u]
      /\ Token = {h, d}
  BY SupplyType DEF GaugeInv, RepayWithHTokens, Token
<1>2. /\ bal' = With(paid, h, u, paid[h][u] - x)
      /\ book' = HvUpdateLiquidityLimit(between, bal', u)
      /\ orderly' = orderly
  BY DEF RepayWithHTokens, With
<1> HIDE DEF h, d, books, between
<1>3. /\ paid \in Balances /\ paid[d][u] = bal[d][u] - x
      /\ \A s \in Token, w \in User : s # d \/ w # u => paid[s][w] = bal[s][w]
      /\ TotalSupply(paid, d) = TotalSupply(bal, d) - x
      /\ TotalSupply(paid, h) = TotalSupply(bal, h)
  <2> DEFINE n == bal[d][u] - x
  <2>1. n \in Nat /\ n = bal[d][u] - x /\ paid = With(bal, d, u, n)
        /\ bal \in Balances /\ d \in Token
    BY <1>1
  <2> HIDE DEF n, paid
  <2>2. /\ paid \in Balances /\ paid[d][u] = n
        /\ \A s \in Token, w \in User : s # d \/ w # u => paid[s][w] = bal[s][w]
        /\ TotalSupply(paid, d) = TotalSupply(bal, d) - bal[d][u] + n
        /\ \A s \in Token : s # d => TotalSupply(paid, s) = TotalSupply(bal, s)
    <3>1. Moved(bal, paid, d, u, n)
      BY <2>1, BalanceMoved
    <3> QED
      BY <3>1 DEF Moved
  <2> QED
    BY <1>1, <2>1, <2>2
<1> HIDE DEF paid
<1>4. /\ bal' \in Balances /\ bal'[h][u] = bal[h][u] - x
      /\ \A s \in Token, w \in User : s # h \/ w # u => bal'[s][w] = paid[s][w]
      /\ TotalSupply(bal', h) = TotalSupply(bal, h) - x
      /\ TotalSupply(bal', d) = TotalSupply(bal, d) - x
  <2> DEFINE n == bal[h][u] - x
  <2>1. n \in Nat /\ n = bal[h][u] - x /\ bal' = With(paid, h, u, n)
        /\ paid[h][u] = bal[h][u] /\ paid \in Balances /\ h \in Token
    BY <1>1, <1>2, <1>3
  <2> HIDE DEF n
  <2>2. /\ bal' \in Balances /\ bal'[h][u] = n
        /\ \A s \in Token, w \in User : s # h \/ w # u => bal'[s][w] = paid[s][w]
        /\ TotalSupply(bal', h) = TotalSupply(paid, h) - paid[h][u] + n
        /\ \A s \in Token : s # h => TotalSupply(bal', s) = TotalSupply(paid, s)
    <3>1. Moved(paid, bal', h, u, n)
      BY <2>1, BalanceMoved
    <3> QED
      BY <3>1 DEF Moved
  <2> QED
    BY <1>1, <1>3, <2>1, <2>2
<1>5. \A s \in Token :
         /\ TotalSupply(paid, s) # 0 => TotalSupply(bal, s) # 0
         /\ TotalSupply(bal', s) # 0 => TotalSupply(bal, s) # 0
  <2>1. /\ TotalSupply(bal', h) \in Nat /\ TotalSupply(bal', d) \in Nat
        /\ TotalSupply(paid, d) \in Nat
    BY <1>1, <1>3, <1>4, SupplyType
  <2> QED
    BY <1>1, <1>3, <1>4, <2>1
<1>6. /\ SoundBooks(books)
      /\ \A s \in Token : TotalSupply(bal, s) # 0 =>
            books[s].integrateInvSupplyOf[u] = books[s].integrateInvSupply
      /\ Due(books) <= Due(book) + Emission
  BY <1>1, HvCheckpointSound DEF books
<1>7. /\ SoundBooks(between)
      /\ \A s \in Token :
            /\ between[s].integrateInvSupply = books[s].integrateInvSupply
            /\ between[s].integrateInvSupplyOf = books[s].integrateInvSupplyOf
      /\ Due(between) = Due(books)
  BY <1>3, <1>5, <1>6, LimitsSound DEF between
<1>8. /\ SoundBooks(book')
      /\ \A s \in Token :
            TotalSupply(bal', s) # 0 => book'[s].workingBalances[u] <= bal'[s][u]
      /\ Due(book') = Due(between)
  <2>1. \A s \in Token : TotalSupply(bal', s) # 0 =>
           between[s].integrateInvSupplyOf[u] = between[s].integrateInvSupply
    BY <1>5, <1>6, <1>7
  <2> QED
    BY <1>2, <1>4, <1>7, <2>1, LimitsSound
<1>9. emitted' \in Nat /\ emitted' = emitted + Emission /\ Emission \in Nat
  BY <1>1, PeriodClosed
<1>10. Due(book') \in Nat /\ Due(book) \in Nat
  BY <1>1, <1>8, DueIsSum
<1>11. Due(book') + emitted <= Due(book) + emitted'
  BY <1>1, <1>6, <1>7, <1>8, <1>9, <1>10
<1>12. calls' \in 0 .. MaxCalls
  BY <1>1, CallCounted
<1>13. \A s \in Token, w \in User :
          bal'[s][w] # bal[s][w] /\ TotalSupply(bal', s) # 0 =>
              book'[s].workingBalances[w] <= bal'[s][w]
  BY <1>3, <1>4, <1>8
<1>14. TokenStep
  BY <1>1, <1>2, <1>4, <1>8, <1>9, <1>11, <1>12, <1>13 DEF TokenStep
<1> QED
  BY <1>4, <1>14 DEF h, d

-----------------------------------------------------------------------------
(* The allocation.                                                         *)

\* Division that truncates towards zero gives a number.
LEMMA SignedQuotient == \A n \in Int, d \in Nat \ {0} : SignedDiv(n, d) \in Int
<1> SUFFICES ASSUME NEW n \in Int, NEW d \in Nat \ {0} PROVE SignedDiv(n, d) \in Int
  OBVIOUS
<1>1. CASE n >= 0
  BY <1>1, Quotient DEF SignedDiv
<1>2. CASE ~(n >= 0)
  <2>1. -n \in Nat
    BY <1>2
  <2>2. (-n) \div d \in Nat
    BY <2>1, Quotient
  <2> QED
    BY <1>2, <2>2 DEF SignedDiv
<1> QED
  BY <1>1, <1>2

\* Whatever the phases, the allocation they give is a number.
LEMMA AllocationType ==
    ASSUME NEW list \in Seq(Phase), NEW money \in Nat, NEW debt \in Nat
    PROVE  Allocation(money, debt, list) \in Int
<1> DEFINE rate == (debt * RAY + (money + debt) \div 2) \div (money + debt)
<1>1. RAY \in Nat \ {0}
  BY GaugeAssumption
<1>2. ASSUME NEW r \in Nat PROVE AllocationByUtilizationRate(r, list) \in Int
  <2>1. CASE PhaseOf(r, list) = {}
    BY <2>1 DEF AllocationByUtilizationRate
  <2>2. CASE PhaseOf(r, list) # {}
    <3> DEFINE i == Min(PhaseOf(r, list))
    <3>1. PhaseOf(r, list) \subseteq Nat /\ PhaseOf(r, list) \subseteq DOMAIN list
      BY DEF PhaseOf
    <3>2. i \in DOMAIN list
      BY <2>2, <3>1, MinOfMany
    <3>3. list[i] \in Phase
      BY <3>2
    <3>4. AllocationByUtilizationRate(r, list) = SignedDiv(list[i].k * r, RAY) + list[i].b
      BY <2>2 DEF AllocationByUtilizationRate
    <3> HIDE DEF i
    <3>5. list[i].k \in Int /\ list[i].b \in Int
      BY <3>3 DEF Phase
    <3>6. list[i].k * r \in Int
      BY <3>5, SMT
    <3>7. SignedDiv(list[i].k * r, RAY) \in Int
      BY <1>1, <3>6, SignedQuotient
    <3> QED
      BY <3>4, <3>5, <3>7
  <2> QED
    BY <2>1, <2>2
<1>3. debt # 0 => rate \in Nat
  <2>1. ASSUME debt # 0 PROVE money + debt \in Nat \ {0}
    BY <2>1
  <2>2. debt * RAY \in Nat /\ (money + debt) \div 2 \in Nat
    BY <1>1, Product, Quotient
  <2>3. debt * RAY + (money + debt) \div 2 \in Nat
    BY <2>2
  <2> QED
    BY <2>1, <2>3, Quotient
<1>4. Allocation(money, debt, list)
         = IF debt = 0 THEN 0 ELSE AllocationByUtilizationRate(rate, list)
  BY DEF Allocation
<1> HIDE DEF rate
<1> QED
  BY <1>2, <1>3, <1>4

\* updateAllocation leaves the allocation of what it finds.
LEMMA AllocationUpdated ==
    ASSUME NEW g \in Gauges, NEW money \in Nat, NEW debt \in Nat,
           UpdateAllocation(g, money, debt)
    PROVE  /\ gauge' \in Gauges /\ gauge'.periodTime = g.periodTime
           /\ gauge'.borrowAllocation = Allocation(money, debt, gauge'.phases)
<1> DEFINE allocation == Allocation(money, debt, g.phases)
<1>1. g.phases \in Seq(Phase)
  BY DEF Gauges
<1>2. allocation \in Nat
  <2>1. allocation \in Int /\ allocation >= 0
    BY <1>1, AllocationType DEF UpdateAllocation
  <2> QED
    BY <2>1
<1>3. gauge' = [g EXCEPT !.borrowAllocation = allocation]
  BY DEF UpdateAllocation
<1>4. allocation = Allocation(money, debt, g.phases)
  OBVIOUS
<1> HIDE DEF allocation
<1>5. /\ gauge' \in Gauges /\ gauge'.periodTime = g.periodTime /\ gauge'.phases = g.phases
      /\ gauge'.borrowAllocation = allocation
  BY <1>2, <1>3 DEF Gauges
<1> QED
  BY <1>4, <1>5

-----------------------------------------------------------------------------
(* Every step.                                                             *)

\* No more is owed than has been emitted for.
RewardsStep ==
    orderly' => orderly /\ Due(book') + emitted <= Due(book) + emitted'

SharesStep ==
    \A t \in Token, u \in User :
        bal'[t][u] # bal[t][u] /\ TotalSupply(bal', t) # 0 =>
            book'[t].workingBalances[u] <= bal'[t][u]

AllocationStep ==
    cash' # cash \/ TotalDebt(bal', stable') # TotalDebt(bal, stable) =>
        gauge'.borrowAllocation = Allocation(cash', TotalDebt(bal', stable'), gauge'.phases)

GoodStep == GaugeInv' /\ RewardsStep /\ SharesStep /\ AllocationStep

\* Cash, debts and supplies are naturals.
LEMMA DebtType ==
    ASSUME GaugeInv
    PROVE  /\ TotalDebt(bal, stable) \in Nat /\ cash \in Nat
           /\ SumFunction(stable) \in Nat
           /\ TotalSupply(bal, "variableDebtToken") \in Nat
           /\ TotalSupply(bal, "hToken") \in Nat
<1>1. /\ stable \in [User -> Nat] /\ IsFiniteSet(User) /\ bal \in Balances
      /\ "hToken" \in Token /\ "variableDebtToken" \in Token /\ cash \in Nat
  BY GaugeAssumption DEF GaugeInv, Token
<1>2. SumFunction(stable) \in Nat
  BY <1>1, TotalType
<1>3. TotalSupply(bal, "variableDebtToken") \in Nat /\ TotalSupply(bal, "hToken") \in Nat
  BY <1>1, SupplyType
<1> QED
  BY <1>1, <1>2, <1>3 DEF TotalDebt

\* A user's stable debt becomes n.
LEMMA StableMoves ==
    ASSUME GaugeInv, NEW u \in User, NEW n \in Nat, stable' = [stable EXCEPT ![u] = n]
    PROVE  /\ stable' \in [User -> Nat] /\ stable[u] \in Nat
           /\ SumFunction(stable') = SumFunction(stable) - stable[u] + n
<1>1. stable \in [User -> Nat] /\ stable \in [User -> Int] /\ IsFiniteSet(User)
  BY GaugeAssumption DEF GaugeInv
<1> DEFINE next == [stable EXCEPT ![u] = n]
<1>2. /\ next \in [User -> Nat] /\ next \in [User -> Int] /\ next[u] = n
      /\ \A v \in User : v # u => next[v] = stable[v]
  BY <1>1
<1>3. stable' = next
  OBVIOUS
<1> HIDE DEF next
<1>4. SumFunction(next) = SumFunction(stable) - stable[u] + next[u]
  BY <1>1, <1>2, TotalChange
<1> QED
  BY <1>1, <1>2, <1>3, <1>4

\* A call that moves tokens is good when the hTokens still stand for the cash and the
\* debts, and the gauge has closed the period and has the allocation of the
\* utilisation, or the utilisation has not changed.
LEMMA TokenStepGood ==
    ASSUME GaugeInv, TokenStep, UNCHANGED external,
           cash' \in Nat, stable' \in [User -> Nat], HeldBack',
           gauge' \in Gauges, gauge'.periodTime = now,
           AllocationStep
    PROVE  GoodStep
<1>1. now' = now /\ votes' = votes
  BY DEF external
<1>2. GaugeInv'
  BY <1>1 DEF GaugeInv, TokenStep
<1> QED
  BY <1>2 DEF GoodStep, TokenStep, RewardsStep, SharesStep

\* Supplying, withdrawing, borrowing and repaying at the variable rate.
LEMMA VariableCallGood ==
    ASSUME GaugeInv, TokenStep, UNCHANGED <<stable, external>>,
           cash' \in Nat, HeldBack',
           UpdateAllocation(Closed, cash', TotalDebt(bal', stable'))
    PROVE  GoodStep
<1>1. stable' \in [User -> Nat] /\ now' = now
  BY DEF GaugeInv, external
<1>2. TotalDebt(bal', stable') \in Nat
  <2>1. bal' \in Balances /\ "variableDebtToken" \in Token
    BY DEF TokenStep, Token
  <2>2. TotalSupply(bal', "variableDebtToken") \in Nat
    BY <2>1, SupplyType
  <2>3. SumFunction(stable') \in Nat
    BY <1>1, TotalType, GaugeAssumption
  <2> QED
    BY <2>2, <2>3 DEF TotalDebt
<1>3. Closed \in Gauges /\ Closed.periodTime = now
  BY PeriodType
<1>4. /\ gauge' \in Gauges /\ gauge'.periodTime = now
      /\ gauge'.borrowAllocation = Allocation(cash', TotalDebt(bal', stable'), gauge'.phases)
  BY <1>2, <1>3, AllocationUpdated
<1>5. AllocationStep
  BY <1>4 DEF AllocationStep
<1> QED
  BY <1>1, <1>4, <1>5, TokenStepGood

-----------------------------------------------------------------------------
(* The pool's calls.                                                       *)

\* Supplying: cash and hTokens grow alike.
LEMMA SupplyGood ==
    ASSUME GaugeInv, NEW u \in User, NEW x \in Nat, Supply(u, x) PROVE GoodStep
<1>1. /\ TokenStep /\ TotalSupply(bal', "hToken") = TotalSupply(bal, "hToken") + x
      /\ TotalSupply(bal', "variableDebtToken") = TotalSupply(bal, "variableDebtToken")
  <2>1. MintToken("hToken", u, x) /\ "hToken" \in Token
        /\ "variableDebtToken" \in Token /\ "variableDebtToken" # "hToken"
    BY DEF Supply, Token
  <2> QED
    BY <2>1, MintStep
<1>2. cash' \in Nat /\ cash' = cash + x
  BY DebtType DEF Supply, PayIn
<1>3. HeldBack'
  BY <1>1, <1>2, DebtType DEF GaugeInv, HeldBack, TotalDebt, Supply
<1> QED
  BY <1>1, <1>2, <1>3, VariableCallGood DEF Supply

\* Withdrawing: cash and hTokens shrink alike.
LEMMA WithdrawGood ==
    ASSUME GaugeInv, NEW u \in User, NEW x \in Nat, Withdraw(u, x) PROVE GoodStep
<1>1. /\ TokenStep /\ TotalSupply(bal', "hToken") = TotalSupply(bal, "hToken") - x
      /\ TotalSupply(bal', "variableDebtToken") = TotalSupply(bal, "variableDebtToken")
  <2>1. BurnToken("hToken", u, x) /\ "hToken" \in Token
        /\ "variableDebtToken" \in Token /\ "variableDebtToken" # "hToken"
    BY DEF Withdraw, Token
  <2> QED
    BY <2>1, BurnStep
<1>2. cash' \in Nat /\ cash' = cash - x
  BY DebtType DEF Withdraw, PayOut
<1>3. HeldBack'
  BY <1>1, <1>2, DebtType DEF GaugeInv, HeldBack, TotalDebt, Withdraw
<1> QED
  BY <1>1, <1>2, <1>3, VariableCallGood DEF Withdraw

\* Borrowing at the variable rate: cash becomes debt.
LEMMA BorrowVariableGood ==
    ASSUME GaugeInv, NEW u \in User, NEW x \in Nat, BorrowVariable(u, x) PROVE GoodStep
<1>1. /\ TokenStep /\ TotalSupply(bal', "hToken") = TotalSupply(bal, "hToken")
      /\ TotalSupply(bal', "variableDebtToken") = TotalSupply(bal, "variableDebtToken") + x
  <2>1. MintToken("variableDebtToken", u, x) /\ "hToken" \in Token
        /\ "variableDebtToken" \in Token /\ "variableDebtToken" # "hToken"
    BY DEF BorrowVariable, Token
  <2> QED
    BY <2>1, MintStep
<1>2. cash' \in Nat /\ cash' = cash - x
  BY DebtType DEF BorrowVariable, PayOut
<1>3. HeldBack'
  BY <1>1, <1>2, DebtType DEF GaugeInv, HeldBack, TotalDebt, BorrowVariable
<1> QED
  BY <1>1, <1>2, <1>3, VariableCallGood DEF BorrowVariable

\* Repaying at the variable rate: debt becomes cash.
LEMMA RepayVariableGood ==
    ASSUME GaugeInv, NEW u \in User, NEW x \in Nat, RepayVariable(u, x) PROVE GoodStep
<1>1. /\ TokenStep /\ TotalSupply(bal', "hToken") = TotalSupply(bal, "hToken")
      /\ TotalSupply(bal', "variableDebtToken") = TotalSupply(bal, "variableDebtToken") - x
  <2>1. BurnToken("variableDebtToken", u, x) /\ "hToken" \in Token
        /\ "variableDebtToken" \in Token /\ "variableDebtToken" # "hToken"
    BY DEF RepayVariable, Token
  <2> QED
    BY <2>1, BurnStep
<1>2. cash' \in Nat /\ cash' = cash + x
  BY DebtType DEF RepayVariable, PayIn
<1>3. HeldBack'
  BY <1>1, <1>2, DebtType DEF GaugeInv, HeldBack, TotalDebt, RepayVariable
<1> QED
  BY <1>1, <1>2, <1>3, VariableCallGood DEF RepayVariable

\* Repaying with hTokens: debt and hTokens shrink alike.
LEMMA RepayWithHTokensGood ==
    ASSUME GaugeInv, NEW u \in User, NEW x \in Nat, RepayWithHTokens(u, x) PROVE GoodStep
<1>1. /\ TokenStep /\ TotalSupply(bal', "hToken") = TotalSupply(bal, "hToken") - x
      /\ TotalSupply(bal', "variableDebtToken") = TotalSupply(bal, "variableDebtToken") - x
  BY RepayWithHTokensStep
<1>2. /\ UNCHANGED <<cash, stable, external>>
      /\ UpdateAllocation(Closed, cash, TotalDebt(bal', stable))
  BY DEF RepayWithHTokens
<1>3. cash' \in Nat
  BY <1>2, DebtType
<1>4. HeldBack'
  BY <1>1, <1>2, DebtType DEF GaugeInv, HeldBack, TotalDebt
<1>5. UpdateAllocation(Closed, cash', TotalDebt(bal', stable'))
  BY <1>2
<1>6. UNCHANGED <<stable, external>>
  BY <1>2
<1> QED
  BY <1>1, <1>3, <1>4, <1>5, <1>6, VariableCallGood

\* Transferring hTokens changes no supply.
LEMMA TransferGood ==
    ASSUME GaugeInv, NEW u \in User, NEW v \in User \ {u}, NEW x \in Nat \ {0},
           Transfer(u, v, x)
    PROVE  GoodStep
<1>1. TokenStep /\ \A s \in Token : TotalSupply(bal', s) = TotalSupply(bal, s)
  BY TransferStep
<1>2. cash' = cash /\ stable' = stable /\ UNCHANGED external /\ gauge' = Closed
  BY DEF Transfer
<1>3. TotalDebt(bal', stable') = TotalDebt(bal, stable)
      /\ TotalSupply(bal', "hToken") = TotalSupply(bal, "hToken")
  BY <1>1, <1>2 DEF TotalDebt, Token
<1>4. HeldBack' /\ AllocationStep
  BY <1>2, <1>3 DEF GaugeInv, HeldBack, AllocationStep
<1>5. cash' \in Nat /\ stable' \in [User -> Nat]
  BY <1>2 DEF GaugeInv
<1>6. gauge' \in Gauges /\ gauge'.periodTime = now
  BY <1>2, PeriodType
<1> QED
  BY <1>1, <1>2, <1>4, <1>5, <1>6, TokenStepGood

\* A swap of the rate mode: what one debt loses the other gains.
LEMMA SwapGood ==
    ASSUME GaugeInv, TokenStep, NEW u \in User, NEW n \in Nat,
           stable' = [stable EXCEPT ![u] = n],
           TotalSupply(bal', "hToken") = TotalSupply(bal, "hToken"),
           TotalSupply(bal', "variableDebtToken") + n
              = TotalSupply(bal, "variableDebtToken") + stable[u],
           gauge' = Closed, UNCHANGED <<cash, external>>
    PROVE  GoodStep
<1>1. /\ stable' \in [User -> Nat] /\ stable[u] \in Nat
      /\ SumFunction(stable') = SumFunction(stable) - stable[u] + n
  BY StableMoves
<1>2. TotalSupply(bal', "variableDebtToken") \in Nat
  <2>1. bal' \in Balances /\ "variableDebtToken" \in Token
    BY DEF TokenStep, Token
  <2> QED
    BY <2>1, SupplyType
<1>3. TotalDebt(bal', stable') = TotalDebt(bal, stable)
  BY <1>1, <1>2, DebtType DEF TotalDebt
<1>4. HeldBack' /\ AllocationStep
  BY <1>3 DEF GaugeInv, HeldBack, AllocationStep
<1>5. cash' \in Nat
  BY DebtType
<1>6. gauge' \in Gauges /\ gauge'.periodTime = now
  BY PeriodType
<1> QED
  BY <1>1, <1>4, <1>5, <1>6, TokenStepGood

\* To the stable rate: the variable debt is burnt.
LEMMA SwapToStableGood ==
    ASSUME GaugeInv, NEW u \in User, SwapToStable(u) PROVE GoodStep
<1> DEFINE x == bal["variableDebtToken"][u]
           n == stable[u] + x
<1>1. x \in Nat /\ stable[u] \in Nat /\ n \in Nat
      /\ "hToken" \in Token /\ "variableDebtToken" \in Token
      /\ "hToken" # "variableDebtToken"
  BY DEF GaugeInv, Balances, Token
<1>2. /\ BurnToken("variableDebtToken", u, x) /\ stable' = [stable EXCEPT ![u] = n]
      /\ gauge' = Closed /\ UNCHANGED <<cash, external>>
  BY DEF SwapToStable
<1>3. n = stable[u] + x
  OBVIOUS
<1> HIDE DEF x, n
<1>4. /\ TokenStep /\ TotalSupply(bal', "hToken") = TotalSupply(bal, "hToken")
      /\ TotalSupply(bal', "variableDebtToken") = TotalSupply(bal, "variableDebtToken") - x
  BY <1>1, <1>2, BurnStep
<1>5. TotalSupply(bal', "variableDebtToken") + n
         = TotalSupply(bal, "variableDebtToken") + stable[u]
  BY <1>1, <1>3, <1>4, DebtType
<1> QED
  BY <1>1, <1>2, <1>4, <1>5, SwapGood

\* To the variable rate: the variable debt is minted.
LEMMA SwapToVariableGood ==
    ASSUME GaugeInv, NEW u \in User, SwapToVariable(u) PROVE GoodStep
<1> DEFINE x == stable[u]
<1>1. x \in Nat /\ "hToken" \in Token /\ "variableDebtToken" \in Token
      /\ "hToken" # "variableDebtToken"
  BY DEF GaugeInv, Token
<1>2. /\ MintToken("variableDebtToken", u, x) /\ stable' = [stable EXCEPT ![u] = 0]
      /\ gauge' = Closed /\ UNCHANGED <<cash, external>>
  BY DEF SwapToVariable
<1>3. x = stable[u]
  OBVIOUS
<1> HIDE DEF x
<1>4. /\ TokenStep /\ TotalSupply(bal', "hToken") = TotalSupply(bal, "hToken")
      /\ TotalSupply(bal', "variableDebtToken") = TotalSupply(bal, "variableDebtToken") + x
  BY <1>1, <1>2, MintStep
<1>5. TotalSupply(bal', "variableDebtToken") + 0
         = TotalSupply(bal, "variableDebtToken") + stable[u]
  BY <1>1, <1>3, <1>4, DebtType
<1> QED
  BY <1>1, <1>2, <1>4, <1>5, SwapGood

\* Borrowing and repaying at the stable rate moves no token and closes no period.
LEMMA StableCallGood ==
    ASSUME GaugeInv, Called, NEW u \in User, NEW n \in Nat,
           stable' = [stable EXCEPT ![u] = n],
           cash' \in Nat,
           cash' - cash = stable[u] - n,
           UpdateAllocation(gauge, cash', TotalDebt(bal, stable')),
           UNCHANGED <<bal, book, emitted, orderly, external>>
    PROVE  GoodStep
<1>1. /\ stable' \in [User -> Nat] /\ stable[u] \in Nat
      /\ SumFunction(stable') = SumFunction(stable) - stable[u] + n
  BY StableMoves
<1>2. now' = now /\ votes' = votes /\ bal' = bal /\ book' = book
      /\ emitted' = emitted /\ orderly' = orderly
  BY DEF external
<1>3. SumFunction(stable') \in Nat
  BY <1>1, TotalType, GaugeAssumption
<1>4. TotalDebt(bal, stable') \in Nat
  BY <1>3, DebtType DEF TotalDebt
<1>5. /\ gauge' \in Gauges /\ gauge'.periodTime = gauge.periodTime
      /\ gauge'.borrowAllocation = Allocation(cash', TotalDebt(bal, stable'), gauge'.phases)
  BY <1>4, AllocationUpdated DEF GaugeInv
<1>6. HeldBack'
  BY <1>1, <1>2, <1>3, DebtType DEF GaugeInv, HeldBack, TotalDebt
<1>7. calls' \in 0 .. MaxCalls
  BY CallCounted
<1>8. GaugeInv'
  BY <1>1, <1>2, <1>5, <1>6, <1>7 DEF GaugeInv
<1>9. AllocationStep
  BY <1>2, <1>5 DEF AllocationStep
<1>10. RewardsStep
  <2>1. Due(book) \in Nat /\ emitted \in Nat
    BY DueIsSum DEF GaugeInv
  <2> QED
    BY <1>2, <2>1 DEF RewardsStep
<1>11. SharesStep
  BY <1>2 DEF SharesStep
<1> QED
  BY <1>8, <1>9, <1>10, <1>11 DEF GoodStep

\* Borrowing at the stable rate: cash becomes debt.
LEMMA BorrowStableGood ==
    ASSUME GaugeInv, NEW u \in User, NEW x \in Nat, BorrowStable(u, x) PROVE GoodStep
<1> DEFINE n == stable[u] + x
<1>1. stable[u] \in Nat /\ n \in Nat /\ cash \in Nat
  BY DEF GaugeInv
<1>2. /\ Called /\ stable' = [stable EXCEPT ![u] = n]
      /\ UpdateAllocation(gauge, cash', TotalDebt(bal, stable'))
      /\ UNCHANGED <<bal, book, emitted, orderly, external>>
  BY DEF BorrowStable
<1>3. cash' \in Nat /\ cash' - cash = stable[u] - n
  BY <1>1 DEF BorrowStable, PayOut
<1> HIDE DEF n
<1> QED
  BY <1>1, <1>2, <1>3, StableCallGood

\* Repaying at the stable rate: debt becomes cash.
LEMMA RepayStableGood ==
    ASSUME GaugeInv, NEW u \in User, NEW x \in Nat, RepayStable(u, x) PROVE GoodStep
<1> DEFINE n == stable[u] - x
<1>1. stable[u] \in Nat /\ n \in Nat /\ cash \in Nat
  BY DEF GaugeInv, RepayStable
<1>2. /\ Called /\ stable' = [stable EXCEPT ![u] = n]
      /\ UpdateAllocation(gauge, cash', TotalDebt(bal, stable'))
      /\ UNCHANGED <<bal, book, emitted, orderly, external>>
  BY DEF RepayStable
<1>3. cash' \in Nat /\ cash' - cash = stable[u] - n
  BY <1>1 DEF RepayStable, PayIn
<1> HIDE DEF n
<1> QED
  BY <1>1, <1>2, <1>3, StableCallGood

-----------------------------------------------------------------------------
(* The gauge's calls, votes and time.                                      *)

\* A call that moves nothing is good when the books stay sound and owe no more than it
\* has emitted.
LEMMA QuietCallGood ==
    ASSUME GaugeInv, Called, UNCHANGED <<cash, stable, bal, external>>,
           SoundBooks(book'), gauge' \in Gauges, gauge'.periodTime <= now,
           emitted' \in Nat, orderly' \in BOOLEAN, RewardsStep
    PROVE  GoodStep
<1>1. now' = now /\ votes' = votes /\ cash' = cash /\ stable' = stable /\ bal' = bal
  BY DEF external
<1>2. calls' \in 0 .. MaxCalls
  BY CallCounted
<1>3. GaugeInv'
  BY <1>1, <1>2 DEF GaugeInv, HeldBack
<1>4. SharesStep /\ AllocationStep
  BY <1>1 DEF SharesStep, AllocationStep
<1> QED
  BY <1>3, <1>4 DEF GoodStep

\* Anyone may have the period closed.
LEMMA HvCheckpointCallGood ==
    ASSUME GaugeInv, NEW u \in User, HvCheckpointCall(u) PROVE GoodStep
<1>1. /\ Called /\ MayCheckpoint /\ ClosePeriod /\ book' = HvCheckpoint(u)
      /\ gauge' = Closed /\ UNCHANGED <<cash, stable, bal, external>> /\ orderly' = orderly
  BY DEF HvCheckpointCall
<1>2. SoundBooks(book') /\ Due(book') <= Due(book) + Emission
  BY <1>1, HvCheckpointSound
<1>3. emitted' \in Nat /\ emitted' = emitted + Emission /\ Emission \in Nat
  BY <1>1, PeriodClosed
<1>4. /\ Due(book') \in Nat /\ Due(book) \in Nat /\ emitted \in Nat
      /\ orderly' \in BOOLEAN
  BY <1>1, <1>2, DueIsSum DEF GaugeInv
<1>5. RewardsStep
  BY <1>1, <1>2, <1>3, <1>4 DEF RewardsStep
<1>6. gauge' \in Gauges /\ gauge'.periodTime <= now
  <2>1. now \in 0 .. MaxTime /\ MaxTime \in Nat
    BY GaugeAssumption DEF GaugeInv
  <2> QED
    BY <1>1, <2>1, PeriodType
<1> QED
  BY <1>1, <1>2, <1>3, <1>4, <1>5, <1>6, QuietCallGood

\* A checkpoint of a user, and then a refresh of his shares.
LEMMA UserCheckpointGood ==
    ASSUME GaugeInv, NEW u \in User, UserCheckpoint(u) PROVE GoodStep
<1> DEFINE books == HvCheckpoint(u)
<1>1. /\ Called /\ MayCheckpoint /\ ClosePeriod
      /\ book' = HvUpdateLiquidityLimit(books, bal, u)
      /\ gauge' = Closed /\ UNCHANGED <<cash, stable, bal, external>> /\ orderly' = orderly
  BY DEF UserCheckpoint
<1>2. /\ SoundBooks(books) /\ Due(books) <= Due(book) + Emission
      /\ \A t \in Token : TotalSupply(bal, t) # 0 =>
            books[t].integrateInvSupplyOf[u] = books[t].integrateInvSupply
  BY <1>1, HvCheckpointSound
<1> HIDE DEF books
<1>3. SoundBooks(book') /\ Due(book') = Due(books)
  <2>1. bal \in Balances
    BY DEF GaugeInv
  <2> QED
    BY <1>1, <1>2, <2>1, LimitsSound
<1>4. emitted' \in Nat /\ emitted' = emitted + Emission /\ Emission \in Nat
  BY <1>1, PeriodClosed
<1>5. /\ Due(book') \in Nat /\ Due(book) \in Nat /\ emitted \in Nat
      /\ orderly' \in BOOLEAN
  BY <1>1, <1>3, DueIsSum DEF GaugeInv
<1>6. RewardsStep
  BY <1>1, <1>2, <1>3, <1>4, <1>5 DEF RewardsStep
<1>7. gauge' \in Gauges /\ gauge'.periodTime <= now
  <2>1. now \in 0 .. MaxTime /\ MaxTime \in Nat
    BY GaugeAssumption DEF GaugeInv
  <2> QED
    BY <1>1, <2>1, PeriodType
<1> QED
  BY <1>1, <1>3, <1>4, <1>5, <1>6, <1>7, QuietCallGood

\* A refresh without a checkpoint owes nothing new to whoever is up to date.
LEMMA HvUpdateLiquidityLimitCallGood ==
    ASSUME GaugeInv, NEW u \in User, HvUpdateLiquidityLimitCall(u) PROVE GoodStep
<1>1. /\ Called /\ book' = HvUpdateLiquidityLimit(book, bal, u)
      /\ UNCHANGED <<cash, stable, bal, external>> /\ gauge' = gauge /\ emitted' = emitted
      /\ orderly' = (orderly /\ \A t \in Token :
            book[t].integrateInvSupplyOf[u] = book[t].integrateInvSupply)
  BY DEF HvUpdateLiquidityLimitCall
<1>2. /\ bal \in Balances /\ SoundBooks(book) /\ emitted \in Nat /\ orderly \in BOOLEAN
      /\ gauge \in Gauges /\ gauge.periodTime <= now
  BY DEF GaugeInv
<1>3. /\ SoundBooks(book')
      /\ (\A t \in Token : TotalSupply(bal, t) # 0 =>
             book[t].integrateInvSupplyOf[u] = book[t].integrateInvSupply)
            => Due(book') = Due(book)
  BY <1>1, <1>2, LimitsSound
<1>4. Due(book) \in Nat
  BY <1>2, DueIsSum
<1>5. RewardsStep
  <2> SUFFICES ASSUME orderly' PROVE orderly /\ Due(book') + emitted <= Due(book) + emitted'
    BY DEF RewardsStep
  <2>1. orderly /\ \A t \in Token :
           book[t].integrateInvSupplyOf[u] = book[t].integrateInvSupply
    BY <1>1
  <2>2. Due(book') = Due(book)
    BY <1>3, <2>1
  <2> QED
    BY <1>1, <1>2, <1>4, <2>1, <2>2
<1>6. orderly' \in BOOLEAN
  BY <1>1, <1>2
<1> QED
  BY <1>1, <1>2, <1>3, <1>5, <1>6, QuietCallGood

\* The administrators change neither books nor period.
LEMMA AdministrationGood ==
    ASSUME GaugeInv, Called, gauge' \in Gauges, gauge'.periodTime = gauge.periodTime,
           UNCHANGED <<cash, stable, bal, book, emitted, orderly, external>>
    PROVE  GoodStep
<1>1. /\ SoundBooks(book) /\ emitted \in Nat /\ orderly \in BOOLEAN /\ Due(book) \in Nat
      /\ gauge.periodTime <= now
  BY DueIsSum DEF GaugeInv
<1>2. RewardsStep
  BY <1>1 DEF RewardsStep
<1>3. /\ SoundBooks(book') /\ emitted' \in Nat /\ orderly' \in BOOLEAN
      /\ gauge'.periodTime <= now
  BY <1>1
<1> QED
  BY <1>2, <1>3, QuietCallGood

\* Killing the gauge, or reviving it.
LEMMA SetKilledGood ==
    ASSUME GaugeInv, SetKilled(~gauge.isKilled) PROVE GoodStep
<1>1. gauge \in Gauges
  BY DEF GaugeInv
<1>2. gauge' \in Gauges /\ gauge'.periodTime = gauge.periodTime
  BY <1>1 DEF SetKilled, Gauges
<1> QED
  BY <1>2, AdministrationGood DEF SetKilled

\* New phases.
LEMMA AddPhasesGood ==
    ASSUME GaugeInv, NEW list \in PhaseLists, AddPhases(list) PROVE GoodStep
<1>1. gauge \in Gauges /\ list \in Seq(Phase)
  BY GaugeAssumption DEF GaugeInv
<1>2. gauge' \in Gauges /\ gauge'.periodTime = gauge.periodTime
  BY <1>1 DEF AddPhases, Gauges
<1> QED
  BY <1>2, AdministrationGood DEF AddPhases

\* Votes, time and steps of others.
LEMMA OutsideGood ==
    ASSUME GaugeInv, VoteCalls \/ Tick \/ UNCHANGED vars PROVE GoodStep
<1>1. /\ cash' = cash /\ stable' = stable /\ bal' = bal /\ book' = book
      /\ gauge' = gauge /\ emitted' = emitted /\ orderly' = orderly
  BY DEF VoteCalls, Vote, Tick, vars
<1>2. /\ SoundBooks(book) /\ emitted \in Nat /\ Due(book) \in Nat
      /\ now \in 0 .. MaxTime /\ MaxTime \in Nat /\ gauge \in Gauges
  BY DueIsSum, GaugeAssumption DEF GaugeInv
<1>3. RewardsStep /\ SharesStep /\ AllocationStep
  BY <1>1, <1>2 DEF RewardsStep, SharesStep, AllocationStep
<1>4. now' \in 0 .. MaxTime /\ now <= now'
  BY <1>2 DEF VoteCalls, Vote, Tick, vars
<1>5. calls' \in 0 .. MaxCalls
  BY CallCounted DEF GaugeInv, VoteCalls, Vote, Tick, vars
<1>6. votes' \in [User -> [power : 0 .. 1, time : Nat]]
  <2>1. votes \in [User -> [power : 0 .. 1, time : Nat]]
    BY DEF GaugeInv
  <2>2. ASSUME NEW u \in User, Vote(u, 1 - votes[u].power)
        PROVE  votes' \in [User -> [power : 0 .. 1, time : Nat]]
    <3>1. votes[u].power \in 0 .. 1
      BY <2>1
    <3>2. 1 - votes[u].power \in 0 .. 1
      BY <3>1
    <3> QED
      BY <1>2, <2>1, <2>2, <3>2 DEF Vote
  <2> QED
    BY <2>1, <2>2 DEF VoteCalls, Tick, vars
<1>7. HeldBack'
  BY <1>1 DEF GaugeInv, HeldBack
<1>8. gauge'.periodTime <= now'
  <2>1. gauge.periodTime \in Nat /\ gauge.periodTime <= now
    BY DEF GaugeInv, Gauges
  <2> QED
    BY <1>1, <1>2, <1>4, <2>1
<1>9. GaugeInv'
  BY <1>1, <1>4, <1>5, <1>6, <1>7, <1>8 DEF GaugeInv
<1> QED
  BY <1>3, <1>9 DEF GoodStep

-----------------------------------------------------------------------------
(* Every step, and the first state.                                        *)

\* Hence every step is good.
LEMMA EveryStepGood == ASSUME GaugeInv, [Next]_vars PROVE GoodStep
<1>1. \A x \in Amounts : x \in Nat /\ x \in Nat \ {0}
  BY GaugeAssumption
<1>2. ASSUME NEW u \in User, NEW x \in Amounts,
             \/ Supply(u, x) \/ Withdraw(u, x)
             \/ BorrowVariable(u, x) \/ RepayVariable(u, x)
      PROVE  GoodStep
  BY <1>1, <1>2, SupplyGood, WithdrawGood, BorrowVariableGood, RepayVariableGood
<1>3. ASSUME NEW u \in User, NEW x \in Amounts,
             RepayWithHTokens(u, x) \/ BorrowStable(u, x) \/ RepayStable(u, x)
      PROVE  GoodStep
  BY <1>1, <1>3, RepayWithHTokensGood, BorrowStableGood, RepayStableGood
<1>4. ASSUME NEW u \in User, NEW x \in Amounts, NEW v \in User \ {u}, Transfer(u, v, x)
      PROVE  GoodStep
  BY <1>1, <1>4, TransferGood
<1>5. ASSUME NEW u \in User, SwapToStable(u) \/ SwapToVariable(u)
      PROVE  GoodStep
  BY <1>5, SwapToStableGood, SwapToVariableGood
<1>6. PoolCalls => GoodStep
  BY <1>2, <1>3, <1>4, <1>5 DEF PoolCalls
<1>7. ASSUME NEW u \in User,
             \/ HvCheckpointCall(u) \/ HvUpdateLiquidityLimitCall(u)
             \/ Kick(u) \/ UserCheckpoint(u)
      PROVE  GoodStep
  BY <1>7, HvCheckpointCallGood, HvUpdateLiquidityLimitCallGood, UserCheckpointGood DEF Kick
<1>8. GaugeCalls => GoodStep
  BY <1>7, SetKilledGood, AddPhasesGood DEF GaugeCalls
<1> QED
  BY <1>6, <1>8, OutsideGood DEF Next

\* Of nothing, the total is nothing.
LEMMA ZeroTotal ==
    /\ SumFunction([u \in User |-> 0]) = 0
    /\ [u \in User |-> 0] \in [User -> Nat]
<1> DEFINE f == [u \in User |-> 0]
<1>1. IsFiniteSet(User) /\ DOMAIN f = User /\ \A u \in User : f[u] = 0
  BY GaugeAssumption
<1>2. f \in [User -> Nat]
  OBVIOUS
<1> HIDE DEF f
<1>3. SumFunction(f) = 0
  BY <1>1, SumZero DEF SumFunction
<1> QED
  BY <1>2, <1>3 DEF f

\* The gauge of an empty reserve.
LEMMA InitGood == Init => GaugeInv /\ RewardsWithinEmission
<1> SUFFICES ASSUME Init PROVE GaugeInv /\ RewardsWithinEmission
  OBVIOUS
<1> DEFINE zero == [u \in User |-> 0]
<1>1. zero \in [User -> Nat] /\ SumFunction(zero) = 0 /\ \A u \in User : zero[u] = 0
  BY ZeroTotal
<1>2. /\ now = 0 /\ cash = 0 /\ emitted = 0 /\ orderly = TRUE /\ calls = 0
      /\ stable = zero /\ bal = [t \in Token |-> zero] /\ book = [t \in Token |-> NewBook]
  BY DEF Init
<1>3. NewBook = [workingBalances |-> zero, workingSupply |-> 0,
                 integrateInvSupply |-> 0, integrateInvSupplyOf |-> zero,
                 integrateCheckpointOf |-> zero, integrateFraction |-> zero]
  BY DEF NewBook
<1>4. votes \in [User -> [power : 0 .. 1, time : Nat]]
  BY DEF Init
<1> HIDE DEF zero
<1>5. SoundBook(NewBook)
  BY <1>1, <1>3 DEF SoundBook, Books
<1>6. SoundBooks(book)
  BY <1>2, <1>5 DEF SoundBooks
<1>7. bal \in Balances /\ stable \in [User -> Nat]
  BY <1>1, <1>2 DEF Balances
<1>8. HeldBack
  BY <1>1, <1>2 DEF HeldBack, TotalDebt, TotalSupply, Token
<1>9. gauge \in Gauges /\ gauge.periodTime = 0
  <2>1. MaxTime \in Nat /\ EPOCH \in Nat \ {0}
    BY GaugeAssumption
  <2>2. MaxTime \div EPOCH \in Nat
    BY <2>1, Quotient
  <2>3. Rate[0] \in Nat /\ EPOCH \in Nat /\ PhaseLists \subseteq Seq(Phase)
    BY <2>1, <2>2, GaugeAssumption
  <2>4. <<>> \in Seq(Phase)
    OBVIOUS
  <2>5. gauge \in [periodTime : {0}, inflationRate : {Rate[0]}, futureEpochTime : {EPOCH},
                    isKilled : {FALSE}, borrowAllocation : {0},
                    phases : {<<>>} \cup {list \in PhaseLists : ArePhases(list)}]
    BY DEF Init
  <2>6. {<<>>} \cup {list \in PhaseLists : ArePhases(list)} \subseteq Seq(Phase)
    BY <2>3, <2>4
  <2> DEFINE lists == {<<>>} \cup {list \in PhaseLists : ArePhases(list)}
  <2> HIDE DEF lists
  <2>7. gauge \in [periodTime : {0}, inflationRate : {Rate[0]}, futureEpochTime : {EPOCH},
                    isKilled : {FALSE}, borrowAllocation : {0}, phases : lists]
    BY <2>5 DEF lists
  <2>8. lists \subseteq Seq(Phase)
    BY <2>6 DEF lists
  <2> DEFINE r == Rate[0]
             e == EPOCH
  <2>9. r \in Nat /\ e \in Nat
    BY <2>3
  <2>10. gauge \in [periodTime : {0}, inflationRate : {r}, futureEpochTime : {e},
                    isKilled : {FALSE}, borrowAllocation : {0}, phases : lists]
    BY <2>7
  <2> HIDE DEF r, e
  <2>11. PICK list \in lists :
            gauge = [periodTime |-> 0, inflationRate |-> r, futureEpochTime |-> e,
                     isKilled |-> FALSE, borrowAllocation |-> 0, phases |-> list]
    BY <2>10
  <2>12. list \in Seq(Phase)
    BY <2>8
  <2> HIDE DEF lists
  <2> QED
    BY <2>9, <2>11, <2>12 DEF Gauges
<1>10. GaugeInv
  BY <1>2, <1>4, <1>6, <1>7, <1>8, <1>9, GaugeAssumption DEF GaugeInv
<1>11. RewardsWithinEmission
  <2>1. Owes(NewBook) = 0
    <3> DEFINE f == [u \in User |-> Owed(NewBook, u)]
    <3>1. \A u \in User : Owed(NewBook, u) = 0
      BY <1>1, <1>3, GaugeAssumption DEF Owed
    <3>2. f = zero
      BY <3>1 DEF zero
    <3> QED
      BY <1>1, <3>2 DEF Owes
  <2>2. Due(book) = 0
    BY <1>2, <2>1 DEF Due, Token
  <2>3. SumFunction([t \in Token |-> SumFunction([u \in User |-> Owed(book[t], u)])]) = 0
    BY <1>6, <2>2, DueIsSum
  <2> QED
    BY <1>2, <2>3 DEF RewardsWithinEmission
<1> QED
  BY <1>10, <1>11

-----------------------------------------------------------------------------
(* The theorems.                                                           *)

\* The inductive invariant holds of every state.
LEMMA GaugeCorrect == Spec => []GaugeInv
<1>1. GaugeInv /\ [Next]_vars => GaugeInv'
  BY EveryStepGood DEF GoodStep
<1> QED
  BY <1>1, InitGood, PTL DEF Spec

\* It implies the type invariant and the sums of shares.
LEMMA GaugeInvType == GaugeInv => TypeOK /\ WorkingSupplyIsSum
<1> SUFFICES ASSUME GaugeInv PROVE TypeOK /\ WorkingSupplyIsSum
  OBVIOUS
<1>1. \A t \in Token : SoundBook(book[t])
  BY DEF GaugeInv, SoundBooks
<1>2. WorkingSupplyIsSum
  BY <1>1 DEF WorkingSupplyIsSum, SoundBook
<1>3. gauge.periodTime \in 0 .. now /\ gauge.borrowAllocation \in Nat
  BY GaugeAssumption DEF GaugeInv, Gauges
<1>4. ASSUME NEW t \in Token
      PROVE  /\ book[t].workingBalances \in [User -> Nat]
             /\ book[t].workingSupply \in Nat
             /\ book[t].integrateFraction \in [User -> Nat]
             /\ \A u \in User :
                   book[t].integrateInvSupplyOf[u] \in 0 .. book[t].integrateInvSupply
  BY <1>1 DEF SoundBook, Books
<1>5. TypeOK
  BY <1>3, <1>4 DEF GaugeInv, TypeOK, Balances
<1> QED
  BY <1>2, <1>5

\* Balances and shares are never negative and no user's integral overtakes his
\* book's: the checkpoint's subtractions never underflow.
THEOREM GaugeTypeCorrect == Spec => []TypeOK
BY GaugeCorrect, GaugeInvType, PTL

\* The supply a book divides rewards by is the sum of the shares it gives them to,
\* through all calls that skip or refresh books.
THEOREM WorkingSupplyAlwaysSum == Spec => []WorkingSupplyIsSum
BY GaugeCorrect, GaugeInvType, PTL

\* What the two books have credited or owe is never more than the reward token
\* emitted, as long as calls are orderly.
THEOREM RewardsAlwaysWithinEmission == Spec => []RewardsWithinEmission
<1>1. GaugeInv /\ RewardsWithinEmission /\ [Next]_vars => RewardsWithinEmission'
  <2> SUFFICES ASSUME GaugeInv, RewardsWithinEmission, [Next]_vars, orderly'
               PROVE  Due(book') <= emitted'
    <3>1. SoundBooks(book') => RewardsWithinEmission' = (orderly' => Due(book') <= emitted')
      BY DueIsSum DEF RewardsWithinEmission
    <3> QED
      BY <3>1, EveryStepGood DEF GoodStep, GaugeInv
  <2>1. GaugeInv' /\ orderly /\ Due(book') + emitted <= Due(book) + emitted'
    BY EveryStepGood DEF GoodStep, RewardsStep
  <2>2. /\ Due(book') \in Nat /\ Due(book) \in Nat /\ emitted \in Nat /\ emitted' \in Nat
    BY <2>1, DueIsSum DEF GaugeInv
  <2>3. Due(book) <= emitted
    BY <2>1, DueIsSum DEF GaugeInv, RewardsWithinEmission
  <2> QED
    BY <2>1, <2>2, <2>3
<1> QED
  BY <1>1, InitGood, GaugeCorrect, PTL DEF Spec

\* Whoever's tokens change is left with a share of at most his tokens.
THEOREM SharesAlwaysFollowTokens == Spec => SharesFollowTokens
<1>1. GaugeInv /\ [Next]_vars =>
         \A t \in Token, u \in User :
             bal'[t][u] # bal[t][u] /\ TotalSupply(bal', t) # 0 =>
                 book'[t].workingBalances[u] <= bal'[t][u]
  BY EveryStepGood DEF GoodStep, SharesStep
<1> QED
  BY <1>1, GaugeCorrect, PTL DEF Spec, SharesFollowTokens

\* Every call that moves cash or debt leaves the allocation of what it left.
THEOREM AllocationAlwaysCurrent == Spec => AllocationIsCurrent
<1>1. GaugeInv /\ [Next]_vars =>
         (cash' # cash \/ TotalDebt(bal', stable') # TotalDebt(bal, stable) =>
             gauge'.borrowAllocation
                 = Allocation(cash', TotalDebt(bal', stable'), gauge'.phases))
  BY EveryStepGood DEF GoodStep, AllocationStep
<1> QED
  BY <1>1, GaugeCorrect, PTL DEF Spec, AllocationIsCurrent
=============================================================================
