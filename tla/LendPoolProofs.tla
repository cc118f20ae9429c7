--------------------------- MODULE LendPoolProofs ---------------------------
(***************************************************************************)
(* Type correctness of the pool, and that no debt is ever left unflagged,  *)
(* for any users, reserves, configurations, prices, amounts and growth.    *)
(***************************************************************************)
EXTENDS LendPool, WadRayProofs

\* The configurations stay sound, and a category a user has entered is set.
SoundInv ==
    /\ \A a \in Asset : SoundConfig(config[a])
    /\ \A c \in Category : SoundConfig(eModes[c])
    /\ \A u \in User : emode[u] # NoCategory => eModes[emode[u]].lt # 0

\* The inductive invariant.
IInv == TypeOK /\ SoundInv /\ DebtIsFlagged

-----------------------------------------------------------------------------
(* The views have types.                                                   *)

\* An index is a positive natural of at least one ray.
LEMMA IndexType ==
    ASSUME TypeOK, NEW a \in Asset
    PROVE  /\ li[a] \in Nat \ {0} /\ li[a] >= RAY
           /\ vi[a] \in Nat \ {0} /\ vi[a] >= RAY
  BY HalfRay, SMT DEF TypeOK

\* Balances and debts are naturals.
LEMMA BalanceType ==
    ASSUME TypeOK, NEW a \in Asset
    PROVE  /\ \A u \in Account : hBal[u][a] \in Nat /\ HBalance(u, a) \in Nat
           /\ \A u \in User : /\ u \in Account
                              /\ vBal[u][a] \in Nat /\ VariableDebt(u, a) \in Nat
                              /\ sBal[u][a] \in Nat /\ Debt(u, a) \in Nat
<1>1. li[a] \in Nat /\ vi[a] \in Nat
  BY IndexType
<1>2. ASSUME NEW u \in Account PROVE hBal[u][a] \in Nat /\ HBalance(u, a) \in Nat
  <2>1. hBal[u][a] \in Nat
    BY <1>2, SMT DEF TypeOK
  <2> QED
    BY <1>1, <2>1, RayMulType DEF HBalance
<1>3. ASSUME NEW u \in User
      PROVE  /\ u \in Account
             /\ vBal[u][a] \in Nat /\ VariableDebt(u, a) \in Nat
             /\ sBal[u][a] \in Nat /\ Debt(u, a) \in Nat
  <2>1. u \in Account /\ vBal[u][a] \in Nat /\ sBal[u][a] \in Nat
    BY <1>3, SMT DEF TypeOK, Account
  <2>2. VariableDebt(u, a) \in Nat
    BY <1>1, <2>1, RayMulType DEF VariableDebt
  <2> QED
    BY <2>1, <2>2, SMT DEF Debt
<1> QED
  BY <1>2, <1>3

\* Changing one balance of a table of balances keeps its type.
LEMMA TableUpdate ==
    ASSUME NEW S, NEW T, NEW f \in [S -> [T -> Nat]],
           NEW u \in S, NEW a \in T, NEW n \in Nat
    PROVE  [f EXCEPT ![u][a] = n] \in [S -> [T -> Nat]]
  BY SMT

\* Setting or clearing a bit keeps the flags' type.
LEMMA FlagType ==
    ASSUME NEW f \in [User -> SUBSET Asset], NEW u \in User, NEW a \in Asset,
           NEW cond
    PROVE  /\ AddIf(f, u, a, cond) \in [User -> SUBSET Asset]
           /\ RemoveIf(f, u, a, cond) \in [User -> SUBSET Asset]
  BY SMT DEF AddIf, RemoveIf

\* A ceiling amount is a natural.
LEMMA CeilingType ==
    ASSUME TypeOK, NEW a \in Asset, NEW n \in Nat
    PROVE  CeilingAmount(a, n) \in Nat
<1>1. CeilingUnit \in Nat /\ config[a].unit \in Nat \ {0}
  BY AccountAssumption, SMT DEF TypeOK, AssetConfig
<1> QED
  BY <1>1, ProductType, DivType DEF CeilingAmount

\* A repayment keeps the isolated debts' type.
LEMMA RepaidType ==
    ASSUME TypeOK, NEW u \in User, NEW a \in Asset, NEW n \in Nat, NEW flags
    PROVE  RepaidIsolatedDebt(u, a, n, flags) \in [Asset -> Nat]
<1>1. CeilingAmount(a, n) \in Nat
  BY CeilingType
<1>2. isoDebt \in [Asset -> Nat]
  BY DEF TypeOK
<1> QED
  BY <1>1, <1>2, SMT DEF RepaidIsolatedDebt

-----------------------------------------------------------------------------
(* Every action keeps the types.                                           *)

\* A supply adds a scaled amount to one balance and units to the cash.
LEMMA SupplyType ==
    ASSUME TypeOK, NEW u \in User, NEW a \in Asset, NEW amount \in Nat,
           Supply(u, a, amount)
    PROVE  TypeOK'
<1>1. RayDiv(amount, li[a]) \in Nat
  BY IndexType, RayDivType
<1>2. hBal[u][a] \in Nat /\ cash[a] \in Nat /\ u \in Account
  BY BalanceType, SMT DEF TypeOK
<1>3. hBal' \in [Account -> [Asset -> Nat]]
  <2>1. hBal' = [hBal EXCEPT ![u][a] = hBal[u][a] + RayDiv(amount, li[a])]
    BY DEF Supply
  <2>2. hBal[u][a] + RayDiv(amount, li[a]) \in Nat
    BY <1>1, <1>2, SMT
  <2> QED
    BY <1>2, <2>1, <2>2, TableUpdate DEF TypeOK
<1>4. cash' \in [Asset -> Nat]
  BY <1>2, SMT DEF TypeOK, Supply
<1>5. coll' \in [User -> SUBSET Asset]
  BY FlagType DEF TypeOK, Supply
<1> QED
  BY <1>3, <1>4, <1>5 DEF TypeOK, Supply

\* A withdrawal takes no more scaled units, and no more cash, than there are.
LEMMA WithdrawType ==
    ASSUME TypeOK, NEW u \in User, NEW a \in Asset, NEW amount \in Nat,
           Withdraw(u, a, amount)
    PROVE  TypeOK'
<1>1. RayDiv(amount, li[a]) \in Nat
  BY IndexType, RayDivType
<1>2. hBal[u][a] \in Nat /\ cash[a] \in Nat /\ u \in Account
  BY BalanceType, SMT DEF TypeOK
<1>3. hBal' \in [Account -> [Asset -> Nat]]
  <2>1. hBal' = [hBal EXCEPT ![u][a] = hBal[u][a] - RayDiv(amount, li[a])]
    BY DEF Withdraw
  <2>2. hBal[u][a] - RayDiv(amount, li[a]) \in Nat
    BY <1>1, <1>2, SMT DEF Withdraw
  <2> QED
    BY <1>2, <2>1, <2>2, TableUpdate DEF TypeOK
<1>4. cash' \in [Asset -> Nat]
  BY <1>2, SMT DEF TypeOK, Withdraw
<1>5. coll' \in [User -> SUBSET Asset]
  BY FlagType DEF TypeOK, Withdraw
<1> QED
  BY <1>3, <1>4, <1>5 DEF TypeOK, Withdraw

\* A transfer moves a scaled amount the sender has.
LEMMA TransferType ==
    ASSUME TypeOK, NEW u \in User, NEW to \in User, NEW a \in Asset,
           NEW amount \in Nat, Transfer(u, to, a, amount)
    PROVE  TypeOK'
<1> DEFINE scaled == RayDiv(amount, li[a])
           sent == [hBal EXCEPT ![u][a] = hBal[u][a] - scaled]
<1>1. scaled \in Nat
  BY IndexType, RayDivType
<1>2. hBal[u][a] \in Nat /\ hBal[to][a] \in Nat /\ u \in Account /\ to \in Account
  BY BalanceType
<1>3. hBal[u][a] - scaled \in Nat /\ hBal[to][a] + scaled \in Nat
  BY <1>1, <1>2, SMT DEF Transfer
<1>4. sent \in [Account -> [Asset -> Nat]]
  <2> HIDE DEF scaled
  <2> QED
    BY <1>2, <1>3, TableUpdate DEF TypeOK
<1>5. hBal' = [sent EXCEPT ![to][a] = hBal[to][a] + scaled]
  <2>1. u # to
    BY DEF Transfer
  <2>2. hBal' = [sent EXCEPT ![to][a] = sent[to][a] + scaled]
    BY DEF Transfer
  <2>3. sent[to][a] = hBal[to][a]
    BY <2>1, <1>2, SMT DEF TypeOK
  <2> QED
    BY <2>2, <2>3
<1>6. hBal' \in [Account -> [Asset -> Nat]]
  <2> HIDE DEF sent, scaled
  <2> QED
    BY <1>2, <1>3, <1>4, <1>5, TableUpdate
<1>7. coll' \in [User -> SUBSET Asset]
  <2>1. RemoveIf(coll, u, a, amount # 0 /\ amount = HBalance(u, a))
          \in [User -> SUBSET Asset]
    BY FlagType DEF TypeOK
  <2> QED
    BY <2>1, FlagType DEF Transfer
<1> QED
  BY <1>6, <1>7 DEF TypeOK, Transfer

\* A new debt adds to one debt balance and sets at most one bit.
LEMMA MintDebtType ==
    ASSUME TypeOK, NEW u \in User, NEW a \in Asset, NEW amount \in Nat,
           NEW mode, MintDebt(u, a, amount, mode)
    PROVE  /\ vBal' \in [User -> [Asset -> Nat]]
           /\ sBal' \in [User -> [Asset -> Nat]]
           /\ bor' \in [User -> SUBSET Asset]
<1>1. /\ vBal[u][a] \in Nat /\ sBal[u][a] \in Nat
      /\ RayDiv(amount, vi[a]) \in Nat
  BY BalanceType, IndexType, RayDivType
<1>2. bor' \in [User -> SUBSET Asset]
  <2>1. \/ bor' = AddIf(bor, u, a, vBal[u][a] = 0)
        \/ bor' = AddIf(bor, u, a, sBal[u][a] = 0)
    BY DEF MintDebt
  <2>2. bor \in [User -> SUBSET Asset]
    BY DEF TypeOK
  <2> QED
    BY <2>1, <2>2, FlagType
<1>3. CASE mode = "variable"
  <2>1. vBal' = [vBal EXCEPT ![u][a] = vBal[u][a] + RayDiv(amount, vi[a])] /\ UNCHANGED sBal
    BY <1>3 DEF MintDebt
  <2>2. vBal[u][a] + RayDiv(amount, vi[a]) \in Nat
    BY <1>1, SMT
  <2> QED
    BY <1>2, <2>1, <2>2, TableUpdate DEF TypeOK
<1>4. CASE mode = "stable"
  <2>1. sBal' = [sBal EXCEPT ![u][a] = sBal[u][a] + amount] /\ UNCHANGED vBal
    BY <1>4 DEF MintDebt
  <2>2. sBal[u][a] + amount \in Nat
    BY <1>1, SMT
  <2> QED
    BY <1>2, <2>1, <2>2, TableUpdate DEF TypeOK
<1> QED
  BY <1>3, <1>4 DEF MintDebt

\* Borrowing pays out cash there is.
LEMMA BorrowType ==
    ASSUME TypeOK, NEW u \in User, NEW a \in Asset, NEW amount \in Nat,
           NEW mode, Borrow(u, a, amount, mode)
    PROVE  TypeOK'
<1>1. /\ vBal' \in [User -> [Asset -> Nat]]
      /\ sBal' \in [User -> [Asset -> Nat]]
      /\ bor' \in [User -> SUBSET Asset]
  BY MintDebtType DEF Borrow
<1>2. isoDebt' \in [Asset -> Nat]
  <2>1. CeilingAmount(a, amount) \in Nat
    BY CeilingType
  <2> QED
    BY <2>1, SMT DEF TypeOK, Borrow
<1>3. cash' \in [Asset -> Nat]
  BY SMT DEF TypeOK, Borrow
<1> QED
  BY <1>1, <1>2, <1>3 DEF TypeOK, Borrow

\* Burning a debt leaves a natural balance.
LEMMA BurnType ==
    ASSUME TypeOK, NEW u \in User, NEW a \in Asset, NEW n \in Nat
    PROVE  /\ BurnVariable(u, a, n) => vBal' \in [User -> [Asset -> Nat]]
           /\ BurnStable(u, a, n) => sBal' \in [User -> [Asset -> Nat]]
<1>1. /\ vBal[u][a] \in Nat /\ sBal[u][a] \in Nat
      /\ RayDiv(n, vi[a]) \in Nat
  BY BalanceType, IndexType, RayDivType
<1>2. ASSUME BurnVariable(u, a, n) PROVE vBal' \in [User -> [Asset -> Nat]]
  <2>1. vBal' = [vBal EXCEPT ![u][a] = vBal[u][a] - RayDiv(n, vi[a])]
    BY <1>2 DEF BurnVariable
  <2>2. vBal[u][a] - RayDiv(n, vi[a]) \in Nat
    BY <1>1, <1>2, SMT DEF BurnVariable
  <2> QED
    BY <2>1, <2>2, TableUpdate DEF TypeOK
<1>3. ASSUME BurnStable(u, a, n) PROVE sBal' \in [User -> [Asset -> Nat]]
  <2>1. sBal' = [sBal EXCEPT ![u][a] = sBal[u][a] - n]
    BY <1>3 DEF BurnStable
  <2>2. sBal[u][a] - n \in Nat
    BY <1>1, <1>3, SMT DEF BurnStable
  <2> QED
    BY <2>1, <2>2, TableUpdate DEF TypeOK
<1> QED
  BY <1>2, <1>3

\* What is owed in a mode, and what a repayment pays of it, are naturals.
LEMMA OwedType ==
    ASSUME TypeOK, NEW u \in User, NEW a \in Asset, NEW offered \in Nat, NEW mode
    PROVE  LET owed == IF mode = "stable" THEN sBal[u][a] ELSE VariableDebt(u, a)
           IN  owed \in Nat /\ Lesser(offered, owed) \in Nat
  BY BalanceType DEF Lesser

\* A repayment burns debt and takes underlying, or burns the payer's hTokens.
LEMMA RepayType ==
    ASSUME TypeOK, NEW u \in User, NEW a \in Asset, NEW offered \in Nat,
           NEW mode \in RateMode, NEW useHTokens \in BOOLEAN,
           Repay(u, a, offered, mode, useHTokens)
    PROVE  TypeOK'
<1> DEFINE owed == IF mode = "stable" THEN sBal[u][a] ELSE VariableDebt(u, a)
           amount == Lesser(offered, owed)
<1>1. amount \in Nat
  BY OwedType
<1> HIDE DEF amount
<1>3. /\ vBal' \in [User -> [Asset -> Nat]]
      /\ sBal' \in [User -> [Asset -> Nat]]
  <2>1. \/ BurnVariable(u, a, amount) /\ UNCHANGED sBal
        \/ BurnStable(u, a, amount) /\ UNCHANGED vBal
    BY DEF Repay, amount
  <2> QED
    BY <1>1, <2>1, BurnType DEF TypeOK
<1>4. bor' \in [User -> SUBSET Asset]
  BY FlagType DEF TypeOK, Repay
<1>5. isoDebt' \in [Asset -> Nat]
  BY <1>1, RepaidType DEF Repay, amount
<1>6. /\ hBal' \in [Account -> [Asset -> Nat]]
      /\ cash' \in [Asset -> Nat]
  <2>1. Payment(u, a, amount, useHTokens)
    BY DEF Repay, amount
  <2>2. /\ hBal[u][a] \in Nat /\ cash[a] \in Nat /\ u \in Account
        /\ RayDiv(amount, li[a]) \in Nat
    BY <1>1, BalanceType, IndexType, RayDivType DEF TypeOK
  <2>3. CASE useHTokens
    <3>1. hBal' = [hBal EXCEPT ![u][a] = hBal[u][a] - RayDiv(amount, li[a])] /\ UNCHANGED cash
      BY <2>1, <2>3 DEF Payment
    <3>2. hBal[u][a] - RayDiv(amount, li[a]) \in Nat
      BY <2>1, <2>2, <2>3, SMT DEF Payment
    <3> QED
      BY <2>2, <3>1, <3>2, TableUpdate DEF TypeOK
  <2>4. CASE ~useHTokens
    BY <1>1, <2>1, <2>2, <2>4, SMT DEF Payment, TypeOK
  <2> QED
    BY <2>3, <2>4
<1> QED
  BY <1>3, <1>4, <1>5, <1>6 DEF TypeOK, Repay

\* A swap of the rate mode moves a debt from one balance to the other.
LEMMA SwapType ==
    ASSUME TypeOK, NEW u \in User, NEW a \in Asset
    PROVE  /\ SwapToVariable(u, a) => TypeOK'
           /\ SwapToStable(u, a) => TypeOK'
<1>1. /\ vBal[u][a] \in Nat /\ sBal[u][a] \in Nat /\ VariableDebt(u, a) \in Nat
      /\ RayDiv(sBal[u][a], vi[a]) \in Nat
  BY BalanceType, IndexType, RayDivType
<1>2. ASSUME SwapToVariable(u, a) PROVE TypeOK'
  <2>1. sBal' = [sBal EXCEPT ![u][a] = 0]
    BY <1>2 DEF SwapToVariable
  <2>2. vBal' = [vBal EXCEPT ![u][a] = vBal[u][a] + RayDiv(sBal[u][a], vi[a])]
    BY <1>2 DEF SwapToVariable
  <2>3. vBal[u][a] + RayDiv(sBal[u][a], vi[a]) \in Nat
    BY <1>1, SMT
  <2>4. sBal' \in [User -> [Asset -> Nat]] /\ vBal' \in [User -> [Asset -> Nat]]
    BY <2>1, <2>2, <2>3, TableUpdate DEF TypeOK
  <2> QED
    BY <1>2, <2>4 DEF TypeOK, SwapToVariable
<1>3. ASSUME SwapToStable(u, a) PROVE TypeOK'
  <2>1. sBal' = [sBal EXCEPT ![u][a] = sBal[u][a] + VariableDebt(u, a)]
    BY <1>3 DEF SwapToStable
  <2>2. sBal[u][a] + VariableDebt(u, a) \in Nat
    BY <1>1, SMT
  <2>3. BurnVariable(u, a, VariableDebt(u, a))
    BY <1>3 DEF SwapToStable
  <2>4. sBal' \in [User -> [Asset -> Nat]] /\ vBal' \in [User -> [Asset -> Nat]]
    BY <1>1, <2>1, <2>2, <2>3, BurnType, TableUpdate DEF TypeOK
  <2> QED
    BY <1>3, <2>4 DEF TypeOK, SwapToStable
<1> QED
  BY <1>2, <1>3

\* Indexes and stable debts only grow, and stay naturals.
LEMMA AccrueType ==
    ASSUME TypeOK, NEW a \in Asset, NEW income \in Growth, NEW variable \in Growth,
           NEW stable \in Growth, Accrue(a, income, variable, stable)
    PROVE  TypeOK'
<1>1. \A g \in Growth : g \in Nat /\ g >= RAY
  BY PoolAssumption, SMT
<1>2. /\ RayMul(li[a], income) \in Nat /\ RayMul(li[a], income) >= RAY
      /\ RayMul(vi[a], variable) \in Nat /\ RayMul(vi[a], variable) >= RAY
  <2>1. li[a] \in Nat /\ vi[a] \in Nat /\ li[a] >= RAY /\ vi[a] >= RAY
    BY IndexType
  <2> QED
    BY <1>1, <2>1, RayMulType, IndexGrows
<1>3. /\ li' \in [Asset -> {i \in Nat : i >= RAY}]
      /\ vi' \in [Asset -> {i \in Nat : i >= RAY}]
  BY <1>2, SMT DEF TypeOK, Accrue
<1>4. sBal' \in [User -> [Asset -> Nat]]
  <2>1. \A u \in User : RayMul(sBal[u][a], stable) \in Nat
    BY <1>1, BalanceType, RayMulType
  <2>2. sBal' = [u \in User |-> [sBal[u] EXCEPT ![a] = RayMul(sBal[u][a], stable)]]
    BY SMT DEF Accrue, TypeOK
  <2>3. \A u \in User : [sBal[u] EXCEPT ![a] = RayMul(sBal[u][a], stable)]
                            \in [Asset -> Nat]
    BY <2>1, SMT DEF TypeOK
  <2> QED
    BY <2>2, <2>3, SMT
<1> QED
  BY <1>3, <1>4 DEF TypeOK, Accrue

\* The bonus of a collateral that backs a position is above 100%.
LEMMA BonusBound ==
    ASSUME TypeOK, SoundInv, NEW u \in User, NEW c \in Backing(u)
    PROVE  /\ LiquidationBonus(u, c) \in Nat
           /\ LiquidationBonus(u, c) > PERCENTAGE_FACTOR
<1>1. c \in Asset /\ config[c].lt # 0
  BY SMT DEF Backing, TypeOK
<1>2. CASE InEMode(u, c)
  <2>1. emode[u] \in Category /\ eModes[emode[u]].lt # 0
    BY <1>2, SMT DEF InEMode, SoundInv, TypeOK
  <2>2. eModes[emode[u]].bonus \in Nat /\ eModes[emode[u]].bonus > PERCENTAGE_FACTOR
    BY <2>1, SMT DEF SoundInv, SoundConfig, TypeOK, EModeConfig
  <2> QED
    BY <1>2, <2>2 DEF LiquidationBonus
<1>3. CASE ~InEMode(u, c)
  <2>1. config[c].bonus \in Nat /\ config[c].bonus > PERCENTAGE_FACTOR
    BY <1>1, SMT DEF SoundInv, SoundConfig, TypeOK, AssetConfig
  <2> QED
    BY <1>3, <2>1 DEF LiquidationBonus
<1> QED
  BY <1>2, <1>3

\* Prices are positive, whatever they are taken from.
LEMMA PriceType ==
    ASSUME TypeOK, NEW u \in User, NEW a \in Asset
    PROVE  /\ CollateralPrice(u, a) \in Nat \ {0}
           /\ DebtPrice(u, a) \in Nat \ {0}
<1>1. price[a] \in Nat \ {0}
  BY SMT DEF TypeOK
<1>2. emode[u] # NoCategory => price[emode[u]] \in Nat \ {0}
  BY SMT DEF TypeOK
<1> QED
  BY <1>1, <1>2 DEF CollateralPrice, AssetPrice, DebtPrice, CategoryPriced

\* The product of positive naturals is positive.
LEMMA PositiveProduct == \A m, n \in Nat \ {0} : m * n \in Nat \ {0}
  BY SMT

\* A quote asks for natural amounts, and collateral and fee make up what is
\* seized, which the balance covers.
LEMMA QuoteType ==
    ASSUME TypeOK, SoundInv, NEW u \in User, NEW c \in Backing(u), NEW d \in Asset,
           NEW n \in Nat
    PROVE  /\ Quote(u, c, d, n).collateral \in Nat
           /\ Quote(u, c, d, n).debt \in Nat
           /\ Quote(u, c, d, n).fee \in Nat
           /\ Quote(u, c, d, n).collateral + Quote(u, c, d, n).fee <= HBalance(u, c)
<1> DEFINE pc == CollateralPrice(u, c) * config[d].unit
           pd == DebtPrice(u, d) * config[c].unit
           bonus == LiquidationBonus(u, c)
           wanted == PercentMul((pd * n) \div pc, bonus)
           capped == wanted > HBalance(u, c)
           seized == IF capped THEN HBalance(u, c) ELSE wanted
           fee == IF config[c].fee = 0 THEN 0
                  ELSE PercentMul(seized - PercentDiv(seized, bonus), config[c].fee)
           debt == IF capped THEN PercentDiv((pc * seized) \div pd, bonus) ELSE n
<1>1. c \in Asset
  BY SMT DEF Backing, TypeOK
<1>2. bonus \in Nat /\ bonus > PERCENTAGE_FACTOR /\ bonus \in Nat \ {0}
  <2>1. bonus \in Nat /\ bonus > PERCENTAGE_FACTOR
    BY BonusBound
  <2> QED
    BY <2>1, HalfFactor, SMT
<1>3. pc \in Nat \ {0} /\ pd \in Nat \ {0}
  <2>1. config[c].unit \in Nat \ {0} /\ config[d].unit \in Nat \ {0}
    BY <1>1, SMT DEF TypeOK, AssetConfig
  <2> QED
    BY <1>1, <2>1, PriceType, PositiveProduct
<1>4. config[c].fee \in Nat /\ config[c].fee <= PERCENTAGE_FACTOR
  BY <1>1, HalfFactor, SMT DEF TypeOK, AssetConfig
<1>5. HBalance(u, c) \in Nat
  BY <1>1, BalanceType
<1> HIDE DEF pc, pd, bonus
<1>6. wanted \in Nat
  <2>1. pd * n \in Nat
    BY <1>3, ProductType, SMT
  <2>2. (pd * n) \div pc \in Nat
    BY <1>3, <2>1, DivType
  <2> QED
    BY <1>2, <2>2, PercentMulType
<1> HIDE DEF wanted
<1>7. seized \in Nat /\ seized <= HBalance(u, c)
  BY <1>5, <1>6, SMT
<1>8. debt \in Nat
  <2>1. pc * seized \in Nat
    BY <1>3, <1>7, ProductType, SMT
  <2>2. (pc * seized) \div pd \in Nat
    BY <1>3, <2>1, DivType
  <2> QED
    BY <1>2, <2>2, PercentDivType
<1> HIDE DEF seized
<1>9. fee \in Nat /\ fee <= seized
  <2>1. PercentDiv(seized, bonus) \in Nat /\ PercentDiv(seized, bonus) <= seized
    BY <1>2, <1>7, PercentDivType, PercentDivBound, HalfFactor, SMT
  <2>2. /\ seized - PercentDiv(seized, bonus) \in Nat
        /\ seized - PercentDiv(seized, bonus) <= seized
    BY <1>7, <2>1, SMT
  <2> DEFINE part == seized - PercentDiv(seized, bonus)
             share == PercentMul(part, config[c].fee)
  <2>3. share \in Nat /\ share <= part
    BY <1>4, <2>2, PercentMulType, PercentMulBound
  <2>4. part \in Nat /\ part <= seized
    BY <2>2
  <2> HIDE DEF part
  <2>5. share \in Nat /\ share <= seized
    BY <1>7, <2>3, <2>4, SMT
  <2> QED
    BY <1>7, <2>5, SMT DEF part
<1>10. Quote(u, c, d, n) = [collateral |-> seized - fee, debt |-> debt, fee |-> fee]
  BY DEF Quote, seized, wanted, pc, pd, bonus
<1> HIDE DEF fee, debt
<1> QED
  BY <1>5, <1>7, <1>8, <1>9, <1>10, SMT

\* A liquidation seizes hTokens the user has.
LEMMA SeizeType ==
    ASSUME TypeOK, NEW u \in User, NEW liquidator \in User, NEW c \in Asset,
           NEW quote, quote.collateral \in Nat, quote.fee \in Nat,
           NEW receiveHToken \in BOOLEAN,
           SeizeHTokens(liquidator, u, c, quote, receiveHToken)
    PROVE  hBal' \in [Account -> [Asset -> Nat]]
<1> DEFINE seized == RayDiv(quote.collateral, li[c])
           left == IF receiveHToken /\ liquidator = u THEN hBal[u][c]
                   ELSE hBal[u][c] - seized
           fee == Lesser(RayDiv(quote.fee, li[c]), left)
           paid == [hBal EXCEPT ![u][c] = left]
           received == IF receiveHToken /\ liquidator # u
                       THEN [paid EXCEPT ![liquidator][c] = @ + seized] ELSE paid
           charged == [received EXCEPT ![u][c] = @ - fee]
<1>1. /\ seized \in Nat /\ RayDiv(quote.fee, li[c]) \in Nat
      /\ hBal[u][c] \in Nat /\ hBal[liquidator][c] \in Nat /\ hBal[Treasury][c] \in Nat
      /\ u \in Account /\ liquidator \in Account /\ Treasury \in Account
      /\ u # Treasury
  <2>1. u \in Account /\ liquidator \in Account /\ Treasury \in Account /\ u # Treasury
    BY AccountAssumption, SMT DEF Account
  <2> QED
    BY <2>1, BalanceType, IndexType, RayDivType
<1>2. /\ seized <= hBal[u][c]
      /\ hBal' = [charged EXCEPT ![Treasury][c] = @ + fee]
  BY DEF SeizeHTokens
<1> HIDE DEF seized
<1>3. left \in Nat
  BY <1>1, <1>2, SMT
<1> HIDE DEF left
<1>4. fee \in Nat /\ fee <= left
  BY <1>1, <1>3, SMT DEF Lesser
<1> HIDE DEF fee
<1>5. paid \in [Account -> [Asset -> Nat]] /\ paid[u][c] = left
  BY <1>1, <1>3, TableUpdate, SMT DEF TypeOK
<1> HIDE DEF paid
<1>6. received \in [Account -> [Asset -> Nat]] /\ received[u][c] = left
  <2>1. CASE receiveHToken /\ liquidator # u
    <3>1. paid[liquidator][c] + seized \in Nat
      BY <1>1, <1>5, SMT
    <3>2. received = [paid EXCEPT ![liquidator][c] = paid[liquidator][c] + seized]
      BY <2>1
    <3>3. received[u][c] = left
      BY <1>1, <1>5, <2>1, <3>2, SMT
    <3> QED
      BY <1>1, <1>5, <3>1, <3>2, <3>3, TableUpdate
  <2>2. CASE ~(receiveHToken /\ liquidator # u)
    BY <1>5, <2>2
  <2> QED
    BY <2>1, <2>2
<1> HIDE DEF received
<1>7. charged \in [Account -> [Asset -> Nat]]
  <2>1. charged = [received EXCEPT ![u][c] = received[u][c] - fee]
    OBVIOUS
  <2>2. received[u][c] - fee \in Nat
    BY <1>3, <1>4, <1>6, SMT
  <2> QED
    BY <1>1, <1>6, <2>1, <2>2, TableUpdate
<1> HIDE DEF charged
<1>8. charged[Treasury][c] + fee \in Nat
  BY <1>1, <1>4, <1>7, SMT
<1>9. hBal' = [charged EXCEPT ![Treasury][c] = charged[Treasury][c] + fee]
  BY <1>2
<1> QED
  BY <1>1, <1>7, <1>8, <1>9, TableUpdate

\* What a liquidation may repay of a debt is a natural.
LEMMA RepaidDebtType ==
    ASSUME TypeOK, NEW u \in User, NEW d \in Asset, NEW debtToCover \in Nat
    PROVE  DebtToLiquidate(u, d, debtToCover) \in Nat
<1>1. PERCENTAGE_FACTOR \in Nat /\ CloseFactor \in Nat
  BY HalfFactor, SMT DEF CloseFactor
<1>2. /\ PercentMul(Debt(u, d), CloseFactor) \in Nat
      /\ PercentMul(Debt(u, d), PERCENTAGE_FACTOR) \in Nat
  BY <1>1, BalanceType, PercentMulType
<1> QED
  BY <1>2 DEF DebtToLiquidate, Lesser

\* A liquidation repays debt there is from whoever has the cash, and seizes
\* collateral there is.
LEMMA LiquidateType ==
    ASSUME TypeOK, SoundInv, NEW u \in User, NEW liquidator \in User,
           NEW c \in Asset, NEW d \in Asset, NEW debtToCover \in Nat,
           NEW receiveHToken \in BOOLEAN,
           Liquidate(liquidator, u, c, d, debtToCover, receiveHToken)
    PROVE  TypeOK'
<1> DEFINE repaid == DebtToLiquidate(u, d, debtToCover)
           quote == Quote(u, c, d, repaid)
           left == RemoveIf(coll, u, c, quote.collateral + quote.fee = HBalance(u, c))
<1>1. repaid \in Nat
  BY RepaidDebtType
<1> HIDE DEF repaid
<1>2. /\ quote.collateral \in Nat /\ quote.debt \in Nat /\ quote.fee \in Nat
  BY <1>1, QuoteType DEF Liquidate, LiquidationAllowed
<1>3. /\ LiquidationAllowed(u, c, d)
      /\ bor' = RemoveIf(bor, u, d, Debt(u, d) = quote.debt)
      /\ BurnDebt(u, d, quote.debt)
      /\ isoDebt' = RepaidIsolatedDebt(u, d, quote.debt, left)
      /\ SeizeHTokens(liquidator, u, c, quote, receiveHToken)
      /\ \E fresh : coll' = AddIf(left, liquidator, c, fresh)
      /\ IF receiveHToken
         THEN cash' = [cash EXCEPT ![d] = @ + quote.debt]
         ELSE /\ quote.collateral <= cash[c]
              /\ cash' = [a \in Asset |->
                            cash[a] - (IF a = c THEN quote.collateral ELSE 0)
                                    + (IF a = d THEN quote.debt ELSE 0)]
      /\ UNCHANGED <<config, eModes, price, li, vi, emode>>
  BY DEF Liquidate, repaid
<1> HIDE DEF quote
<1>4. vBal' \in [User -> [Asset -> Nat]] /\ sBal' \in [User -> [Asset -> Nat]]
  <2>1. VariableDebt(u, d) \in Nat
    BY BalanceType
  <2>2. CASE VariableDebt(u, d) >= quote.debt /\ BurnVariable(u, d, quote.debt) /\ UNCHANGED sBal
    BY <1>2, <2>2, BurnType DEF TypeOK
  <2>3. CASE /\ VariableDebt(u, d) < quote.debt
             /\ IF VariableDebt(u, d) # 0 THEN BurnVariable(u, d, VariableDebt(u, d))
                ELSE UNCHANGED vBal
             /\ BurnStable(u, d, quote.debt - VariableDebt(u, d))
    <3>1. quote.debt - VariableDebt(u, d) \in Nat
      BY <1>2, <2>1, <2>3, SMT
    <3>2. sBal' \in [User -> [Asset -> Nat]]
      BY <2>3, <3>1, BurnType
    <3>3. vBal' \in [User -> [Asset -> Nat]]
      BY <2>1, <2>3, BurnType DEF TypeOK
    <3> QED
      BY <3>2, <3>3
  <2> QED
    BY <1>3, <2>2, <2>3 DEF BurnDebt
<1>5. bor' \in [User -> SUBSET Asset]
  BY <1>3, FlagType DEF TypeOK
<1>6. isoDebt' \in [Asset -> Nat]
  BY <1>2, <1>3, RepaidType
<1>7. hBal' \in [Account -> [Asset -> Nat]]
  BY <1>2, <1>3, SeizeType
<1>8. coll' \in [User -> SUBSET Asset]
  <2>1. left \in [User -> SUBSET Asset]
    BY FlagType DEF TypeOK
  <2> QED
    BY <1>3, <2>1, FlagType
<1>9. cash' \in [Asset -> Nat]
  <2>1. \A a \in Asset : cash[a] \in Nat
    BY SMT DEF TypeOK
  <2>2. CASE receiveHToken
    BY <1>2, <1>3, <2>1, <2>2, SMT DEF TypeOK
  <2>3. CASE ~receiveHToken
    <3>1. \A a \in Asset : cash[a] - (IF a = c THEN quote.collateral ELSE 0)
                                   + (IF a = d THEN quote.debt ELSE 0) \in Nat
      BY <1>2, <1>3, <2>1, <2>3, SMT
    <3> QED
      BY <1>3, <2>3, <3>1, SMT
  <2> QED
    BY <2>2, <2>3
<1> QED
  BY <1>3, <1>4, <1>5, <1>6, <1>7, <1>8, <1>9 DEF TypeOK

\* Using a reserve as collateral, or no longer, changes one bit.
LEMMA CollateralBitType ==
    ASSUME TypeOK, NEW u \in User, NEW a \in Asset
    PROVE  /\ EnableCollateral(u, a) => TypeOK'
           /\ DisableCollateral(u, a) => TypeOK'
<1>1. EnableCollateral(u, a) => TypeOK'
  BY SMT DEF EnableCollateral, TypeOK
<1>2. ASSUME DisableCollateral(u, a) PROVE TypeOK'
  <2>1. coll' = [coll EXCEPT ![u] = coll[u] \ {a}]
    BY <1>2 DEF DisableCollateral
  <2>2. coll' \in [User -> SUBSET Asset]
    BY <2>1, SMT DEF TypeOK
  <2> QED
    BY <1>2, <2>2 DEF TypeOK, DisableCollateral
<1> QED
  BY <1>1, <1>2

\* Setting the eMode changes one category.
LEMMA EModeType ==
    ASSUME TypeOK, NEW u \in User, NEW category \in Category \cup {NoCategory},
           SetUserEMode(u, category)
    PROVE  TypeOK'
<1>1. emode' = [emode EXCEPT ![u] = category]
  BY DEF SetUserEMode
<1>2. emode' \in [User -> Category \cup {NoCategory}]
  BY <1>1, SMT DEF TypeOK
<1> QED
  BY <1>2 DEF TypeOK, SetUserEMode

\* The oracle answers with positive prices.
LEMMA SetPriceType ==
    ASSUME TypeOK, NEW source \in Asset \cup Category, NEW p \in Prices[source],
           SetPrice(source, p)
    PROVE  TypeOK'
<1>1. p \in Nat \ {0}
  BY PoolAssumption, SMT
<1> QED
  BY <1>1, SMT DEF SetPrice, TypeOK

-----------------------------------------------------------------------------
(* Every action keeps the bits of debts.                                   *)

\* When one debt changes and no other bit is cleared, only the bit of that debt
\* is at stake.
LEMMA OneDebtFlagged ==
    ASSUME TypeOK, DebtIsFlagged, NEW u \in User, NEW a \in Asset,
           NEW v \in Nat, NEW s \in Nat,
           vBal' = [vBal EXCEPT ![u][a] = v], sBal' = [sBal EXCEPT ![u][a] = s],
           \A w \in User, b \in Asset :
              (w # u \/ b # a) /\ b \in bor[w] => b \in bor'[w],
           v # 0 \/ s # 0 => a \in bor'[u]
    PROVE  DebtIsFlagged'
<1> SUFFICES ASSUME NEW w \in User, NEW b \in Asset,
                    vBal'[w][b] # 0 \/ sBal'[w][b] # 0
             PROVE  b \in bor'[w]
  BY DEF DebtIsFlagged
<1>1. CASE w = u /\ b = a
  <2>1. vBal'[u][a] = v /\ sBal'[u][a] = s
    BY SMT DEF TypeOK
  <2> QED
    BY <1>1, <2>1
<1>2. CASE w # u \/ b # a
  <2>1. vBal'[w][b] = vBal[w][b] /\ sBal'[w][b] = sBal[w][b]
    BY <1>2, SMT DEF TypeOK
  <2> QED
    BY <1>2, <2>1 DEF DebtIsFlagged
<1> QED
  BY <1>1, <1>2

\* A variable debt is zero only without scaled tokens, and burning all of it
\* burns them all.
LEMMA WholeVariableDebt ==
    ASSUME TypeOK, NEW u \in User, NEW a \in Asset
    PROVE  /\ VariableDebt(u, a) = 0 <=> vBal[u][a] = 0
           /\ RayDiv(VariableDebt(u, a), vi[a]) = vBal[u][a]
<1>1. vBal[u][a] \in Nat /\ vi[a] \in Nat /\ vi[a] >= RAY
  BY BalanceType, IndexType
<1>2. RayMul(vBal[u][a], vi[a]) >= vBal[u][a] /\ RayMul(0, vi[a]) = 0
  BY <1>1, RayMulGrows, RayMulZero
<1>3. RayDiv(RayMul(vBal[u][a], vi[a]), vi[a]) = vBal[u][a]
  BY <1>1, RoundTrip
<1> QED
  BY <1>1, <1>2, <1>3, SMT DEF VariableDebt

\* Borrowing flags the reserve, unless a debt in that mode has it flagged.
LEMMA BorrowFlagged ==
    ASSUME TypeOK, DebtIsFlagged, NEW u \in User, NEW a \in Asset,
           NEW amount \in Nat, NEW mode, Borrow(u, a, amount, mode)
    PROVE  DebtIsFlagged'
<1>1. /\ vBal[u][a] \in Nat /\ sBal[u][a] \in Nat
      /\ RayDiv(amount, vi[a]) \in Nat
  BY BalanceType, IndexType, RayDivType
<1>2. bor \in [User -> SUBSET Asset] /\ vBal \in [User -> [Asset -> Nat]]
      /\ sBal \in [User -> [Asset -> Nat]]
  BY DEF TypeOK
<1>3. vBal[u][a] # 0 \/ sBal[u][a] # 0 => a \in bor[u]
  BY DEF DebtIsFlagged
<1>4. MintDebt(u, a, amount, mode)
  BY DEF Borrow
<1>5. ASSUME NEW cond, bor' = AddIf(bor, u, a, cond), ~cond => a \in bor[u]
      PROVE  a \in bor'[u] /\ \A w \in User, b \in Asset : b \in bor[w] => b \in bor'[w]
  BY <1>2, <1>5, SMT DEF AddIf
<1>6. CASE mode = "variable"
  <2> DEFINE v == vBal[u][a] + RayDiv(amount, vi[a])
  <2>1. /\ vBal' = [vBal EXCEPT ![u][a] = v]
        /\ bor' = AddIf(bor, u, a, vBal[u][a] = 0)
        /\ sBal' = sBal
    BY <1>4, <1>6 DEF MintDebt
  <2>2. sBal' = [sBal EXCEPT ![u][a] = sBal[u][a]]
    BY <1>2, <2>1, SMT
  <2>3. a \in bor'[u] /\ \A w \in User, b \in Asset : b \in bor[w] => b \in bor'[w]
    BY <1>3, <1>5, <2>1
  <2>4. v \in Nat
    BY <1>1, SMT
  <2> HIDE DEF v
  <2> QED
    BY <1>1, <2>1, <2>2, <2>3, <2>4, OneDebtFlagged
<1>7. CASE mode = "stable"
  <2>1. /\ sBal' = [sBal EXCEPT ![u][a] = sBal[u][a] + amount]
        /\ bor' = AddIf(bor, u, a, sBal[u][a] = 0)
        /\ vBal' = vBal
    BY <1>4, <1>7 DEF MintDebt
  <2>2. vBal' = [vBal EXCEPT ![u][a] = vBal[u][a]]
    BY <1>2, <2>1, SMT
  <2>3. a \in bor'[u] /\ \A w \in User, b \in Asset : b \in bor[w] => b \in bor'[w]
    BY <1>3, <1>5, <2>1
  <2>4. sBal[u][a] + amount \in Nat
    BY <1>1, SMT
  <2> QED
    BY <1>1, <2>1, <2>2, <2>3, <2>4, OneDebtFlagged
<1> QED
  BY <1>4, <1>6, <1>7 DEF MintDebt

\* A bit that is cleared when nothing is left, and only then, covers the debts.
LEMMA RepaidFlagged ==
    ASSUME TypeOK, DebtIsFlagged, NEW u \in User, NEW a \in Asset,
           NEW v \in Nat, NEW s \in Nat, v <= vBal[u][a], s <= sBal[u][a],
           vBal' = [vBal EXCEPT ![u][a] = v], sBal' = [sBal EXCEPT ![u][a] = s],
           NEW cond, bor' = RemoveIf(bor, u, a, cond), cond => v = 0 /\ s = 0
    PROVE  DebtIsFlagged'
<1>1. bor \in [User -> SUBSET Asset]
  BY DEF TypeOK
<1>2. \A w \in User, b \in Asset :
         (w # u \/ b # a) /\ b \in bor[w] => b \in bor'[w]
  BY <1>1, SMT DEF RemoveIf
<1>3. ASSUME v # 0 \/ s # 0 PROVE a \in bor'[u]
  <2>1. vBal[u][a] # 0 \/ sBal[u][a] # 0
    BY <1>3, BalanceType, SMT
  <2>2. a \in bor[u]
    BY <2>1 DEF DebtIsFlagged
  <2> QED
    BY <1>3, <2>2 DEF RemoveIf
<1> QED
  BY <1>2, <1>3, OneDebtFlagged

\* A repayment clears the bit only when it pays all debt in both modes.
LEMMA RepayFlagged ==
    ASSUME TypeOK, DebtIsFlagged, NEW u \in User, NEW a \in Asset,
           NEW offered \in Nat, NEW mode \in RateMode, NEW useHTokens,
           Repay(u, a, offered, mode, useHTokens)
    PROVE  DebtIsFlagged'
<1> DEFINE owed == IF mode = "stable" THEN sBal[u][a] ELSE VariableDebt(u, a)
           amount == Lesser(offered, owed)
           burnt == RayDiv(amount, vi[a])
<1>1. /\ vBal[u][a] \in Nat /\ sBal[u][a] \in Nat /\ VariableDebt(u, a) \in Nat
      /\ Debt(u, a) = VariableDebt(u, a) + sBal[u][a]
      /\ amount \in Nat /\ amount <= owed
  BY BalanceType, OwedType, SMT DEF Debt, Lesser
<1>2. /\ bor' = RemoveIf(bor, u, a, Debt(u, a) = amount)
      /\ \/ mode = "variable" /\ BurnVariable(u, a, amount) /\ sBal' = sBal
         \/ mode = "stable" /\ BurnStable(u, a, amount) /\ vBal' = vBal
  BY DEF Repay
<1>3. owed = IF mode = "stable" THEN sBal[u][a] ELSE VariableDebt(u, a)
  OBVIOUS
<1> HIDE DEF amount, owed
<1>4. burnt \in Nat
  BY <1>1, IndexType, RayDivType
<1>5. /\ VariableDebt(u, a) = 0 <=> vBal[u][a] = 0
      /\ RayDiv(VariableDebt(u, a), vi[a]) = vBal[u][a]
  BY WholeVariableDebt
<1>6. vBal = [vBal EXCEPT ![u][a] = vBal[u][a]] /\ sBal = [sBal EXCEPT ![u][a] = sBal[u][a]]
  BY SMT DEF TypeOK
<1>7. CASE mode = "variable"
  <2> DEFINE v == vBal[u][a] - burnt
  <2>1. /\ burnt <= vBal[u][a]
        /\ vBal' = [vBal EXCEPT ![u][a] = v]
        /\ sBal' = [sBal EXCEPT ![u][a] = sBal[u][a]]
    BY <1>2, <1>6, <1>7 DEF BurnVariable
  <2>2. Debt(u, a) = amount => amount = VariableDebt(u, a) /\ sBal[u][a] = 0
    BY <1>1, <1>3, <1>7, SMT
  <2>3. Debt(u, a) = amount => v = 0 /\ sBal[u][a] = 0
    BY <1>1, <1>5, <2>2, SMT
  <2>4. v \in Nat /\ v <= vBal[u][a] /\ sBal[u][a] <= sBal[u][a]
    BY <1>1, <1>4, <2>1, SMT
  <2> HIDE DEF v
  <2> QED
    BY <1>1, <1>2, <2>1, <2>3, <2>4, RepaidFlagged
<1>8. CASE mode = "stable"
  <2> DEFINE s == sBal[u][a] - amount
  <2>1. /\ amount <= sBal[u][a]
        /\ sBal' = [sBal EXCEPT ![u][a] = s]
        /\ vBal' = [vBal EXCEPT ![u][a] = vBal[u][a]]
    BY <1>2, <1>6, <1>8 DEF BurnStable
  <2>2. Debt(u, a) = amount => amount = sBal[u][a] /\ VariableDebt(u, a) = 0
    BY <1>1, <1>3, <1>8, SMT
  <2>3. Debt(u, a) = amount => s = 0 /\ vBal[u][a] = 0
    BY <1>1, <1>5, <2>2, SMT
  <2>4. s \in Nat /\ s <= sBal[u][a] /\ vBal[u][a] <= vBal[u][a]
    BY <1>1, <2>1, SMT
  <2> HIDE DEF s
  <2> QED
    BY <1>1, <1>2, <2>1, <2>3, <2>4, RepaidFlagged
<1> QED
  BY <1>7, <1>8 DEF RateMode

\* A liquidation burns variable debt first, and clears the bit only when it
\* burns everything.
LEMMA LiquidateFlagged ==
    ASSUME TypeOK, SoundInv, DebtIsFlagged, NEW u \in User, NEW liquidator \in User,
           NEW c \in Asset, NEW d \in Asset, NEW debtToCover \in Nat,
           NEW receiveHToken,
           Liquidate(liquidator, u, c, d, debtToCover, receiveHToken),
           NEW n \in Nat,
           n = Quote(u, c, d, DebtToLiquidate(u, d, debtToCover)).debt
    PROVE  DebtIsFlagged'
<1> DEFINE owed == VariableDebt(u, d)
           burnt == RayDiv(n, vi[d])
<1>1. /\ vBal[u][d] \in Nat /\ sBal[u][d] \in Nat /\ owed \in Nat
      /\ Debt(u, d) = owed + sBal[u][d]
  BY BalanceType DEF Debt
<1>2. bor' = RemoveIf(bor, u, d, Debt(u, d) = n) /\ BurnDebt(u, d, n)
  BY DEF Liquidate
<1>3. burnt \in Nat
  BY IndexType, RayDivType
<1>4. /\ owed = 0 <=> vBal[u][d] = 0
      /\ RayDiv(owed, vi[d]) = vBal[u][d]
  BY WholeVariableDebt
<1>5. vBal = [vBal EXCEPT ![u][d] = vBal[u][d]] /\ sBal = [sBal EXCEPT ![u][d] = sBal[u][d]]
  BY SMT DEF TypeOK
<1>6. CASE owed >= n /\ BurnVariable(u, d, n) /\ sBal' = sBal
  <2> DEFINE v == vBal[u][d] - burnt
  <2>1. /\ burnt <= vBal[u][d]
        /\ vBal' = [vBal EXCEPT ![u][d] = v]
        /\ sBal' = [sBal EXCEPT ![u][d] = sBal[u][d]]
    BY <1>5, <1>6 DEF BurnVariable
  <2>2. Debt(u, d) = n => n = owed /\ sBal[u][d] = 0
    BY <1>1, <1>6, SMT
  <2>3. Debt(u, d) = n => v = 0 /\ sBal[u][d] = 0
    BY <1>1, <1>4, <2>2, SMT
  <2>4. v \in Nat /\ v <= vBal[u][d] /\ sBal[u][d] <= sBal[u][d]
    BY <1>1, <1>3, <2>1, SMT
  <2> HIDE DEF v
  <2> QED
    BY <1>1, <1>2, <2>1, <2>3, <2>4, RepaidFlagged
<1>7. CASE /\ owed < n
           /\ IF owed # 0 THEN BurnVariable(u, d, owed) ELSE vBal' = vBal
           /\ BurnStable(u, d, n - owed)
  <2>1. vBal' = [vBal EXCEPT ![u][d] = 0]
    <3>1. CASE owed # 0
      <4>1. vBal' = [vBal EXCEPT ![u][d] = vBal[u][d] - vBal[u][d]]
        BY <1>4, <1>7, <3>1 DEF BurnVariable
      <4>2. vBal[u][d] - vBal[u][d] = 0
        BY <1>1, SMT
      <4> QED
        BY <4>1, <4>2
    <3>2. CASE owed = 0
      BY <1>4, <1>5, <1>7, <3>2
    <3> QED
      BY <3>1, <3>2
  <2> DEFINE s == sBal[u][d] - (n - owed)
  <2>2. n - owed <= sBal[u][d] /\ sBal' = [sBal EXCEPT ![u][d] = s]
    BY <1>7 DEF BurnStable
  <2>3. s \in Nat /\ s <= sBal[u][d] /\ (Debt(u, d) = n => s = 0)
    BY <1>1, <1>7, <2>2, SMT
  <2> HIDE DEF s
  <2>4. 0 \in Nat /\ 0 <= vBal[u][d]
    BY <1>1, SMT
  <2> QED
    BY <1>2, <2>1, <2>2, <2>3, <2>4, RepaidFlagged
<1> QED
  BY <1>2, <1>6, <1>7 DEF BurnDebt

\* A swap of the rate mode needs a debt, whose bit is set already.
LEMMA SwapFlagged ==
    ASSUME TypeOK, DebtIsFlagged, NEW u \in User, NEW a \in Asset
    PROVE  /\ SwapToVariable(u, a) => DebtIsFlagged'
           /\ SwapToStable(u, a) => DebtIsFlagged'
<1>1. /\ vBal[u][a] \in Nat /\ sBal[u][a] \in Nat /\ VariableDebt(u, a) \in Nat
      /\ RayDiv(sBal[u][a], vi[a]) \in Nat
      /\ RayDiv(VariableDebt(u, a), vi[a]) = vBal[u][a]
      /\ VariableDebt(u, a) = 0 <=> vBal[u][a] = 0
  BY BalanceType, IndexType, RayDivType, WholeVariableDebt
<1>2. ASSUME SwapToVariable(u, a) PROVE DebtIsFlagged'
  <2> DEFINE v == vBal[u][a] + RayDiv(sBal[u][a], vi[a])
  <2>1. /\ sBal' = [sBal EXCEPT ![u][a] = 0] /\ vBal' = [vBal EXCEPT ![u][a] = v]
        /\ bor' = bor /\ sBal[u][a] # 0
    BY <1>2 DEF SwapToVariable
  <2>2. v \in Nat /\ 0 \in Nat
    BY <1>1, SMT
  <2>3. a \in bor[u]
    BY <2>1 DEF DebtIsFlagged
  <2> HIDE DEF v
  <2> QED
    BY <2>1, <2>2, <2>3, OneDebtFlagged
<1>3. ASSUME SwapToStable(u, a) PROVE DebtIsFlagged'
  <2> DEFINE s == sBal[u][a] + VariableDebt(u, a)
             v == vBal[u][a] - RayDiv(VariableDebt(u, a), vi[a])
  <2>1. /\ sBal' = [sBal EXCEPT ![u][a] = s]
        /\ BurnVariable(u, a, VariableDebt(u, a))
        /\ bor' = bor /\ VariableDebt(u, a) # 0
    BY <1>3 DEF SwapToStable
  <2>2. vBal' = [vBal EXCEPT ![u][a] = v]
    BY <2>1 DEF BurnVariable
  <2>3. a \in bor[u]
    BY <1>1, <2>1 DEF DebtIsFlagged
  <2>4. v \in Nat /\ s \in Nat
    BY <1>1, SMT
  <2> HIDE DEF v, s
  <2> QED
    BY <2>1, <2>2, <2>3, <2>4, OneDebtFlagged
<1> QED
  BY <1>2, <1>3

\* Interest makes no debt of nothing.
LEMMA AccrueFlagged ==
    ASSUME TypeOK, DebtIsFlagged, NEW a \in Asset, NEW income \in Growth,
           NEW variable \in Growth, NEW stable \in Growth,
           Accrue(a, income, variable, stable)
    PROVE  DebtIsFlagged'
<1> SUFFICES ASSUME NEW w \in User, NEW b \in Asset,
                    vBal'[w][b] # 0 \/ sBal'[w][b] # 0
             PROVE  b \in bor'[w]
  BY DEF DebtIsFlagged
<1>1. stable \in Nat /\ RayMul(0, stable) = 0
  <2>1. stable \in Nat
    BY PoolAssumption, SMT
  <2> QED
    BY <2>1, RayMulZero
<1>2. /\ vBal' = vBal /\ bor' = bor
      /\ sBal' = [v \in User |-> [sBal[v] EXCEPT ![a] = RayMul(@, stable)]]
  BY DEF Accrue
<1>3. sBal[w][b] = 0 => sBal'[w][b] = 0
  <2>1. sBal'[w] = [sBal[w] EXCEPT ![a] = RayMul(sBal[w][a], stable)]
    BY <1>2
  <2>2. sBal[w] \in [Asset -> Nat]
    BY SMT DEF TypeOK
  <2>3. sBal'[w][b] = IF b = a THEN RayMul(sBal[w][a], stable) ELSE sBal[w][b]
    BY <2>1, <2>2, SMT
  <2> QED
    BY <1>1, <2>3
<1> QED
  BY <1>2, <1>3 DEF DebtIsFlagged

-----------------------------------------------------------------------------
(* The invariant.                                                          *)

\* A step is a call made with a natural amount, an accrual or a repricing.
LEMMA StepCases ==
    ASSUME TypeOK, Next
    PROVE  \/ \E u \in User, a \in Asset, n \in Nat : Supply(u, a, n)
           \/ \E u \in User, a \in Asset, n \in Nat : Withdraw(u, a, n)
           \/ \E u, to \in User, a \in Asset, n \in Nat : Transfer(u, to, a, n)
           \/ \E u \in User, a \in Asset : EnableCollateral(u, a)
           \/ \E u \in User, a \in Asset : DisableCollateral(u, a)
           \/ \E u \in User, a \in Asset, n \in Nat, mode \in RateMode :
                 Borrow(u, a, n, mode)
           \/ \E u \in User, a \in Asset, n \in Nat, mode \in RateMode,
                 useHTokens \in BOOLEAN : Repay(u, a, n, mode, useHTokens)
           \/ \E u \in User, a \in Asset : SwapToVariable(u, a)
           \/ \E u \in User, a \in Asset : SwapToStable(u, a)
           \/ \E liquidator, u \in User, c, d \in Asset, n \in Nat,
                 receiveHToken \in BOOLEAN :
                    Liquidate(liquidator, u, c, d, n, receiveHToken)
           \/ \E u \in User, category \in Category \cup {NoCategory} :
                 SetUserEMode(u, category)
           \/ \E a \in Asset, income, variable, stable \in Growth :
                 Accrue(a, income, variable, stable)
           \/ \E source \in Asset \cup Category : \E p \in Prices[source] :
                 SetPrice(source, p)
<1>1. \A u \in User, a \in Asset :
         /\ Amounts \cup {HBalance(u, a)} \subseteq Nat
         /\ Amounts \cup {Debt(u, a)} \subseteq Nat
         /\ Amounts \cup {Debt(u, a), HBalance(u, a)} \subseteq Nat
  BY BalanceType, PoolAssumption
<1>2. Amounts \subseteq Nat
  BY PoolAssumption
<1>3. CASE CollateralCalls
  <2>1. PICK u \in User, a \in Asset :
           \/ \E amount \in Amounts : Supply(u, a, amount)
           \/ \E amount \in Amounts \cup {HBalance(u, a)} :
                 \/ Withdraw(u, a, amount)
                 \/ \E to \in User : Transfer(u, to, a, amount)
           \/ EnableCollateral(u, a)
           \/ DisableCollateral(u, a)
    BY <1>3 DEF CollateralCalls
  <2> QED
    BY <1>1, <1>2, <2>1
<1>4. CASE DebtCalls
  <2>1. PICK u \in User, a \in Asset :
           \/ \E offered \in Amounts \cup {Debt(u, a), HBalance(u, a)},
                 mode \in RateMode, useHTokens \in BOOLEAN :
                   Repay(u, a, offered, mode, useHTokens)
           \/ SwapToVariable(u, a)
           \/ SwapToStable(u, a)
    BY <1>4 DEF DebtCalls
  <2> QED
    BY <1>1, <1>2, <2>1
<1>5. CASE LiquidationCalls
  <2>1. PICK u \in User, c \in Asset, d \in Asset :
           \E liquidator \in User, receiveHToken \in BOOLEAN,
              debtToCover \in Amounts \cup {Debt(u, d)} :
                 Liquidate(liquidator, u, c, d, debtToCover, receiveHToken)
    BY <1>5 DEF LiquidationCalls, LiquidationOf
  <2> QED
    BY <1>1, <2>1
<1>6. CASE EModeCalls
  BY <1>6 DEF EModeCalls
<1>7. CASE Environment
  BY <1>7 DEF Environment
<1>8. CASE BorrowCalls
  BY <1>2, <1>8 DEF BorrowCalls
<1> QED
  BY <1>3, <1>4, <1>5, <1>6, <1>7, <1>8 DEF Next, Calls

\* The state after a call that changes no debt and no borrowing bit keeps
\* every debt flagged.
LEMMA SameDebtsFlagged ==
    ASSUME DebtIsFlagged, UNCHANGED <<vBal, sBal, bor>>
    PROVE  DebtIsFlagged'
  BY DEF DebtIsFlagged

\* The configurations never change, and a category is entered when it is set.
LEMMA SoundStep ==
    ASSUME SoundInv, TypeOK, UNCHANGED <<config, eModes>>,
           \/ UNCHANGED emode
           \/ \E u \in User, category \in Category \cup {NoCategory} :
                 SetUserEMode(u, category)
    PROVE  SoundInv'
<1>1. CASE UNCHANGED emode
  BY <1>1 DEF SoundInv, SoundConfig
<1>2. CASE \E u \in User, category \in Category \cup {NoCategory} :
              SetUserEMode(u, category)
  <2>1. PICK u \in User, category \in Category \cup {NoCategory} :
           SetUserEMode(u, category)
    BY <1>2
  <2>2. /\ category # NoCategory => eModes[category].lt # 0
        /\ emode' = [emode EXCEPT ![u] = category]
    BY <2>1 DEF SetUserEMode
  <2>3. \A w \in User : emode'[w] # NoCategory => eModes[emode'[w]].lt # 0
    BY <2>2, SMT DEF SoundInv, TypeOK
  <2> QED
    BY <2>3 DEF SoundInv, SoundConfig
<1> QED
  BY <1>1, <1>2

\* The inductive invariant holds at first.
THEOREM InitIInv == Init => IInv
<1> SUFFICES ASSUME Init PROVE IInv
  OBVIOUS
<1>1. RAY \in Nat /\ 0 \in Nat
  BY HalfRay, SMT
<1>2. config \in [Asset -> AssetConfig] /\ \A a \in Asset : SoundConfig(config[a])
  BY PoolAssumption DEF Init
<1>3. TypeOK
  BY <1>1, <1>2, PoolAssumption, SMT DEF Init, TypeOK
<1>4. SoundInv
  BY <1>2, PoolAssumption DEF SoundInv, Init
<1>5. DebtIsFlagged
  BY DEF DebtIsFlagged, Init
<1> QED
  BY <1>3, <1>4, <1>5 DEF IInv

\* Every step keeps the inductive invariant.
THEOREM StepIInv == IInv /\ [Next]_vars => IInv'
<1> SUFFICES ASSUME IInv, [Next]_vars PROVE IInv'
  OBVIOUS
<1> USE DEF IInv
<1>1. ASSUME NEW u \in User, NEW a \in Asset, NEW n \in Nat, Supply(u, a, n)
      PROVE  IInv'
  BY <1>1, SupplyType, SoundStep, SameDebtsFlagged DEF Supply
<1>2. ASSUME NEW u \in User, NEW a \in Asset, NEW n \in Nat, Withdraw(u, a, n)
      PROVE  IInv'
  BY <1>2, WithdrawType, SoundStep, SameDebtsFlagged DEF Withdraw
<1>3. ASSUME NEW u \in User, NEW to \in User, NEW a \in Asset, NEW n \in Nat,
             Transfer(u, to, a, n)
      PROVE  IInv'
  BY <1>3, TransferType, SoundStep, SameDebtsFlagged DEF Transfer
<1>4. ASSUME NEW u \in User, NEW a \in Asset,
             EnableCollateral(u, a) \/ DisableCollateral(u, a)
      PROVE  IInv'
  <2>1. TypeOK'
    BY <1>4, CollateralBitType
  <2>2. UNCHANGED <<config, eModes, emode, vBal, sBal, bor>>
    BY <1>4 DEF EnableCollateral, DisableCollateral
  <2> QED
    BY <2>1, <2>2, SoundStep, SameDebtsFlagged
<1>5. ASSUME NEW u \in User, NEW a \in Asset, NEW n \in Nat, NEW mode \in RateMode,
             Borrow(u, a, n, mode)
      PROVE  IInv'
  BY <1>5, BorrowType, BorrowFlagged, SoundStep DEF Borrow
<1>6. ASSUME NEW u \in User, NEW a \in Asset, NEW n \in Nat, NEW mode \in RateMode,
             NEW useHTokens \in BOOLEAN, Repay(u, a, n, mode, useHTokens)
      PROVE  IInv'
  BY <1>6, RepayType, RepayFlagged, SoundStep DEF Repay
<1>7. ASSUME NEW u \in User, NEW a \in Asset,
             SwapToVariable(u, a) \/ SwapToStable(u, a)
      PROVE  IInv'
  <2>1. TypeOK' /\ DebtIsFlagged'
    BY <1>7, SwapType, SwapFlagged
  <2>2. UNCHANGED <<config, eModes, emode>>
    BY <1>7 DEF SwapToVariable, SwapToStable
  <2> QED
    BY <2>1, <2>2, SoundStep
<1>8. ASSUME NEW liquidator \in User, NEW u \in User, NEW c \in Asset, NEW d \in Asset,
             NEW n \in Nat, NEW receiveHToken \in BOOLEAN,
             Liquidate(liquidator, u, c, d, n, receiveHToken)
      PROVE  IInv'
  <2>1. TypeOK'
    BY <1>8, LiquidateType
  <2>2. Quote(u, c, d, DebtToLiquidate(u, d, n)).debt \in Nat
    <3>1. c \in Backing(u)
      BY <1>8 DEF Liquidate, LiquidationAllowed
    <3> QED
      BY <3>1, QuoteType, RepaidDebtType
  <2>3. DebtIsFlagged'
    BY <1>8, <2>2, LiquidateFlagged
  <2>4. UNCHANGED <<config, eModes, emode>>
    BY <1>8 DEF Liquidate
  <2> QED
    BY <2>1, <2>3, <2>4, SoundStep
<1>9. ASSUME NEW u \in User, NEW category \in Category \cup {NoCategory},
             SetUserEMode(u, category)
      PROVE  IInv'
  <2>1. UNCHANGED <<config, eModes, vBal, sBal, bor>>
    BY <1>9 DEF SetUserEMode
  <2> QED
    BY <1>9, <2>1, EModeType, SoundStep, SameDebtsFlagged
<1>10. ASSUME NEW a \in Asset, NEW income \in Growth, NEW variable \in Growth,
              NEW stable \in Growth, Accrue(a, income, variable, stable)
       PROVE  IInv'
  BY <1>10, AccrueType, AccrueFlagged, SoundStep DEF Accrue
<1>11. ASSUME NEW source \in Asset \cup Category, NEW p \in Prices[source],
              SetPrice(source, p)
       PROVE  IInv'
  BY <1>11, SetPriceType, SoundStep, SameDebtsFlagged DEF SetPrice
<1>12. CASE UNCHANGED vars
  BY <1>12 DEF vars, TypeOK, SoundInv, SoundConfig, DebtIsFlagged
<1>13. CASE Next
  BY <1>1, <1>2, <1>3, <1>4, <1>5, <1>6, <1>7, <1>8, <1>9, <1>10, <1>11, <1>13,
     StepCases
<1> QED
  BY <1>12, <1>13

\* Type correctness: the checked subtractions never take a balance, an index, an
\* isolated debt or the cash below zero, whatever is called in whatever order.
THEOREM TypeCorrect == Spec => []TypeOK
<1>1. Spec => []IInv
  BY InitIInv, StepIInv, PTL DEF Spec
<1>2. IInv => TypeOK
  BY DEF IInv
<1> QED
  BY <1>1, <1>2, PTL

\* Every debt is flagged, through any rounding of any index of at least a ray:
\* the account data of GenericLogic leaves no debt out.
THEOREM DebtAlwaysFlagged == Spec => []DebtIsFlagged
<1>1. Spec => []IInv
  BY InitIInv, StepIInv, PTL DEF Spec
<1>2. IInv => DebtIsFlagged
  BY DEF IInv
<1> QED
  BY <1>1, <1>2, PTL

=============================================================================
