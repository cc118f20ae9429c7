-------------------------- MODULE PoolSafetyProofs --------------------------
(***************************************************************************)
(* What calls of users keep, for any users, reserves, configurations,      *)
(* prices and amounts: the exclusivity rules of UserConfiguration's bits   *)
(* (isolated collateral, siloed debt, the debts of a user in eMode), the   *)
(* conservation of every reserve's underlying while no interest accrues,   *)
(* the fairness of every liquidation that can be quoted, the health of     *)
(* accounts through every call, and the ways out that stay open: an        *)
(* unhealthy position can be liquidated, a debt repaid, a deposit          *)
(* withdrawn.                                                              *)
(***************************************************************************)
EXTENDS LendPoolProofs, Sums

\* IsolatedIsAlone, of collateral bits f.
AloneIn(f) == \A u \in User : \A a \in f[u] : config[a].ceiling # 0 => f[u] = {a}

\* A user in eMode has borrowing bits of his category only.
BitsInCategory ==
    \A u \in User :
        emode[u] # NoCategory => \A a \in bor[u] : config[a].category = emode[u]

\* The inductive invariant.
FlagInv == TypeOK /\ IsolatedIsAlone /\ SiloedIsAlone /\ BitsInCategory

-----------------------------------------------------------------------------
(* Collateral bits.                                                        *)

\* Clearing a bit keeps isolated collateral alone.
LEMMA RemoveAlone ==
    ASSUME NEW f \in [User -> SUBSET Asset], AloneIn(f), NEW u \in User,
           NEW a \in Asset, NEW cond
    PROVE  AloneIn(RemoveIf(f, u, a, cond))
<1> SUFFICES ASSUME cond PROVE AloneIn([f EXCEPT ![u] = @ \ {a}])
  BY DEF RemoveIf
<1> QED
  BY SMT DEF AloneIn

\* So does setting a bit that validateUseAsCollateral admits.
LEMMA AddAlone ==
    ASSUME NEW f \in [User -> SUBSET Asset], AloneIn(f), NEW u \in User,
           NEW a \in Asset, NEW cond, cond => CanUseAsCollateral(u, a, f)
    PROVE  AloneIn(AddIf(f, u, a, cond))
<1> SUFFICES ASSUME cond PROVE AloneIn([f EXCEPT ![u] = f[u] \cup {a}])
  BY DEF AddIf
<1>1. CASE f[u] = {}
  BY <1>1, SMT DEF AloneIn
<1>2. CASE IsolatedIn(u, f) = {} /\ config[a].ceiling = 0
  <2>1. \A b \in f[u] : config[b].ceiling = 0
    BY <1>2 DEF AloneIn, IsolatedIn
  <2> QED
    BY <1>2, <2>1, SMT DEF AloneIn
<1> QED
  BY <1>1, <1>2 DEF CanUseAsCollateral

\* Isolated collateral stays alone in every step.
LEMMA IsolatedStep ==
    ASSUME TypeOK, IsolatedIsAlone, Next
    PROVE  IsolatedIsAlone'
<1>1. coll \in [User -> SUBSET Asset] /\ AloneIn(coll)
  BY DEF TypeOK, IsolatedIsAlone, AloneIn
<1>2. ASSUME config' = config, AloneIn(coll') PROVE IsolatedIsAlone'
  BY <1>2 DEF AloneIn, IsolatedIsAlone
<1>3. ASSUME NEW u \in User, NEW a \in Asset, NEW n \in Nat, Supply(u, a, n)
      PROVE  IsolatedIsAlone'
  BY <1>1, <1>2, <1>3, AddAlone DEF Supply
<1>4. ASSUME NEW u \in User, NEW a \in Asset, NEW n \in Nat, Withdraw(u, a, n)
      PROVE  IsolatedIsAlone'
  BY <1>1, <1>2, <1>4, RemoveAlone DEF Withdraw
<1>5. ASSUME NEW u \in User, NEW to \in User, NEW a \in Asset, NEW n \in Nat,
             Transfer(u, to, a, n)
      PROVE  IsolatedIsAlone'
  <2> DEFINE left == RemoveIf(coll, u, a, n # 0 /\ n = HBalance(u, a))
             cond == n # 0 /\ HBalance(to, a) = 0 /\ CanUseAsCollateral(to, a, coll)
  <2>1. u # to /\ coll' = AddIf(left, to, a, cond) /\ config' = config
    BY <1>5 DEF Transfer
  <2>2. left \in [User -> SUBSET Asset] /\ AloneIn(left)
    BY <1>1, FlagType, RemoveAlone
  <2>3. left[to] = coll[to]
    BY <1>1, <2>1, SMT DEF RemoveIf
  <2>4. cond => CanUseAsCollateral(to, a, left)
    BY <2>3 DEF CanUseAsCollateral, IsolatedIn
  <2> HIDE DEF left, cond
  <2> QED
    BY <1>2, <2>1, <2>2, <2>4, AddAlone
<1>6. ASSUME NEW u \in User, NEW a \in Asset,
             EnableCollateral(u, a) \/ DisableCollateral(u, a)
      PROVE  IsolatedIsAlone'
  <2>1. CASE EnableCollateral(u, a)
    <3>1. coll' = AddIf(coll, u, a, TRUE) /\ CanUseAsCollateral(u, a, coll)
      BY <2>1 DEF EnableCollateral, AddIf
    <3>2. config' = config
      BY <2>1 DEF EnableCollateral
    <3> QED
      BY <1>1, <1>2, <3>1, <3>2, AddAlone
  <2>2. CASE DisableCollateral(u, a)
    <3>1. coll' = RemoveIf(coll, u, a, TRUE)
      BY <2>2 DEF DisableCollateral, RemoveIf
    <3>2. config' = config
      BY <2>2 DEF DisableCollateral
    <3> QED
      BY <1>1, <1>2, <3>1, <3>2, RemoveAlone
  <2> QED
    BY <1>6, <2>1, <2>2
<1>7. ASSUME NEW liquidator \in User, NEW u \in User, NEW c \in Asset, NEW d \in Asset,
             NEW n \in Nat, NEW receiveHToken \in BOOLEAN,
             Liquidate(liquidator, u, c, d, n, receiveHToken)
      PROVE  IsolatedIsAlone'
  <2> DEFINE quote == Quote(u, c, d, DebtToLiquidate(u, d, n))
             left == RemoveIf(coll, u, c, quote.collateral + quote.fee = HBalance(u, c))
             cond == /\ receiveHToken /\ HBalance(liquidator, c) = 0
                     /\ CanUseAsCollateral(liquidator, c, left)
  <2>1. coll' = AddIf(left, liquidator, c, cond) /\ config' = config
    BY <1>7 DEF Liquidate
  <2>2. left \in [User -> SUBSET Asset] /\ AloneIn(left)
    BY <1>1, FlagType, RemoveAlone
  <2>3. cond => CanUseAsCollateral(liquidator, c, left)
    OBVIOUS
  <2> HIDE DEF left, cond
  <2> QED
    BY <1>2, <2>1, <2>2, <2>3, AddAlone
<1>8. ASSUME UNCHANGED <<coll, config>> PROVE IsolatedIsAlone'
  BY <1>8 DEF IsolatedIsAlone
<1> QED
  BY <1>3, <1>4, <1>5, <1>6, <1>7, <1>8, StepCases
     DEF Borrow, Repay, SwapToVariable, SwapToStable, SetUserEMode, Accrue, SetPrice

-----------------------------------------------------------------------------
(* Borrowing bits.                                                         *)

\* Only borrowing sets borrowing bits, repaying and liquidating may clear one,
\* and only setting an eMode changes a category; configurations never change.
LEMMA BitFrame ==
    ASSUME TypeOK, Next
    PROVE  \/ UNCHANGED <<config, bor, emode>>
           \/ /\ UNCHANGED <<config, emode>>
              /\ \/ \A w \in User : bor'[w] \subseteq bor[w]
                 \/ \E u \in User, a \in Asset, n \in Nat, mode \in RateMode :
                       Borrow(u, a, n, mode)
           \/ /\ UNCHANGED <<config, bor>>
              /\ \E u \in User, category \in Category \cup {NoCategory} :
                    SetUserEMode(u, category)
<1>1. ASSUME NEW u \in User, NEW a \in Asset, NEW n \in Nat,
             Supply(u, a, n) \/ Withdraw(u, a, n)
      PROVE  UNCHANGED <<config, bor, emode>>
  BY <1>1 DEF Supply, Withdraw
<1>2. ASSUME NEW u \in User, NEW to \in User, NEW a \in Asset, NEW n \in Nat,
             Transfer(u, to, a, n)
      PROVE  UNCHANGED <<config, bor, emode>>
  BY <1>2 DEF Transfer
<1>3. ASSUME NEW u \in User, NEW a \in Asset,
             EnableCollateral(u, a) \/ DisableCollateral(u, a)
      PROVE  UNCHANGED <<config, bor, emode>>
  BY <1>3 DEF EnableCollateral, DisableCollateral
<1>4. ASSUME NEW u \in User, NEW a \in Asset,
             SwapToVariable(u, a) \/ SwapToStable(u, a)
      PROVE  UNCHANGED <<config, bor, emode>>
  BY <1>4 DEF SwapToVariable, SwapToStable
<1>5. ASSUME NEW u \in User, NEW a \in Asset, NEW n \in Nat, NEW mode \in RateMode,
             Borrow(u, a, n, mode)
      PROVE  UNCHANGED <<config, emode>>
  BY <1>5 DEF Borrow
<1>6. ASSUME NEW u \in User, NEW a \in Asset, NEW n \in Nat, NEW mode \in RateMode,
             NEW useHTokens \in BOOLEAN, Repay(u, a, n, mode, useHTokens)
      PROVE  UNCHANGED <<config, emode>> /\ \A w \in User : bor'[w] \subseteq bor[w]
  <2>1. \E cond : bor' = RemoveIf(bor, u, a, cond)
    BY <1>6 DEF Repay
  <2> QED
    BY <1>6, <2>1, SMT DEF Repay, RemoveIf, TypeOK
<1>7. ASSUME NEW liquidator \in User, NEW u \in User, NEW c \in Asset, NEW d \in Asset,
             NEW n \in Nat, NEW receiveHToken \in BOOLEAN,
             Liquidate(liquidator, u, c, d, n, receiveHToken)
      PROVE  UNCHANGED <<config, emode>> /\ \A w \in User : bor'[w] \subseteq bor[w]
  <2>1. \E cond : bor' = RemoveIf(bor, u, d, cond)
    BY <1>7 DEF Liquidate
  <2>2. \A w \in User : bor'[w] \subseteq bor[w]
    BY <2>1, SMT DEF RemoveIf, TypeOK
  <2> QED
    BY <1>7, <2>2 DEF Liquidate
<1>8. ASSUME NEW u \in User, NEW category \in Category \cup {NoCategory},
             SetUserEMode(u, category)
      PROVE  UNCHANGED <<config, bor>>
  BY <1>8 DEF SetUserEMode
<1>9. ASSUME NEW a \in Asset, NEW income \in Growth, NEW variable \in Growth,
             NEW stable \in Growth, Accrue(a, income, variable, stable)
      PROVE  UNCHANGED <<config, bor, emode>>
  BY <1>9 DEF Accrue
<1>10. ASSUME NEW source \in Asset \cup Category, NEW p \in Prices[source],
              SetPrice(source, p)
       PROVE  UNCHANGED <<config, bor, emode>>
  BY <1>10 DEF SetPrice
<1> QED
  BY <1>1, <1>2, <1>3, <1>4, <1>5, <1>6, <1>7, <1>8, <1>9, <1>10, StepCases

\* A step sets no borrowing bit, or that of a reserve it lets a user borrow.
LEMMA BorrowingBits ==
    ASSUME TypeOK, Next
    PROVE  \/ \A w \in User : bor'[w] \subseteq bor[w]
           \/ \E u \in User, a \in Asset :
                 /\ bor' = [bor EXCEPT ![u] = @ \cup {a}]
                 /\ emode[u] # NoCategory => InEMode(u, a)
                 /\ bor[u] # {} => IF SiloedIn(u) # {} THEN SiloedIn(u) = {a}
                                   ELSE ~config[a].siloed
<1>1. ASSUME NEW u \in User, NEW a \in Asset, NEW n \in Nat, NEW mode \in RateMode,
             Borrow(u, a, n, mode), bor' # bor
      PROVE  /\ bor' = [bor EXCEPT ![u] = @ \cup {a}]
             /\ emode[u] # NoCategory => InEMode(u, a)
             /\ bor[u] # {} => IF SiloedIn(u) # {} THEN SiloedIn(u) = {a}
                               ELSE ~config[a].siloed
  <2>1. bor' = bor \/ bor' = [bor EXCEPT ![u] = @ \cup {a}]
    BY <1>1 DEF Borrow, MintDebt, AddIf
  <2> QED
    BY <1>1, <2>1 DEF Borrow, BorrowAllowed
<1>2. CASE bor' = bor
  BY <1>2
<1> QED
  BY <1>1, <1>2, BitFrame

\* Siloed debt stays alone in every step.
LEMMA SiloedStep ==
    ASSUME TypeOK, SiloedIsAlone, Next, config' = config
    PROVE  SiloedIsAlone'
<1>1. bor \in [User -> SUBSET Asset]
  BY DEF TypeOK
<1> SUFFICES ASSUME NEW w \in User, NEW b \in bor'[w], config[b].siloed
             PROVE  bor'[w] = {b}
  BY DEF SiloedIsAlone
<1>2. CASE \A v \in User : bor'[v] \subseteq bor[v]
  BY <1>2 DEF SiloedIsAlone
<1>3. ASSUME NEW u \in User, NEW a \in Asset,
             bor' = [bor EXCEPT ![u] = @ \cup {a}],
             bor[u] # {} => IF SiloedIn(u) # {} THEN SiloedIn(u) = {a}
                            ELSE ~config[a].siloed
      PROVE  bor'[w] = {b}
  <2>1. bor'[u] = bor[u] \cup {a} /\ (w # u => bor'[w] = bor[w])
    BY <1>1, <1>3, SMT
  <2>2. CASE w # u
    BY <2>1, <2>2 DEF SiloedIsAlone
  <2>3. CASE w = u /\ bor[u] = {}
    BY <2>1, <2>3
  <2>4. CASE w = u /\ SiloedIn(u) = {a}
    BY <2>1, <2>4 DEF SiloedIn
  <2>5. CASE w = u /\ SiloedIn(u) = {} /\ ~config[a].siloed
    <3>1. b \in bor[u]
      BY <2>1, <2>5
    <3>2. bor[u] = {b}
      BY <2>5, <3>1 DEF SiloedIsAlone
    <3> QED
      BY <2>5, <3>1, <3>2 DEF SiloedIn
  <2> QED
    BY <1>3, <2>2, <2>3, <2>4, <2>5
<1> QED
  BY <1>2, <1>3, BorrowingBits

\* A user in eMode borrows in his category, and enters a category when all he
\* borrows is in it.
LEMMA CategoryStep ==
    ASSUME TypeOK, BitsInCategory, Next, config' = config
    PROVE  BitsInCategory'
<1>1. bor \in [User -> SUBSET Asset] /\ emode \in [User -> Category \cup {NoCategory}]
  BY DEF TypeOK
<1> SUFFICES ASSUME NEW w \in User, emode'[w] # NoCategory, NEW b \in bor'[w]
             PROVE  config[b].category = emode'[w]
  BY DEF BitsInCategory
<1>2. CASE emode' = emode
  <2>1. CASE \A v \in User : bor'[v] \subseteq bor[v]
    BY <1>2, <2>1 DEF BitsInCategory
  <2>2. ASSUME NEW u \in User, NEW a \in Asset,
               bor' = [bor EXCEPT ![u] = @ \cup {a}],
               emode[u] # NoCategory => InEMode(u, a)
        PROVE  config[b].category = emode'[w]
    <3>1. b \in bor[w] \/ (w = u /\ b = a)
      BY <1>1, <2>2, SMT
    <3> QED
      BY <1>2, <2>2, <3>1 DEF BitsInCategory, InEMode
  <2> QED
    BY <2>1, <2>2, BorrowingBits
<1>3. CASE emode' # emode
  <2>1. PICK u \in User, category \in Category \cup {NoCategory} :
           SetUserEMode(u, category)
    BY <1>3, BitFrame
  <2>2. /\ category # NoCategory => \A a \in bor[u] : config[a].category = category
        /\ emode' = [emode EXCEPT ![u] = category]
        /\ bor' = bor
    BY <2>1 DEF SetUserEMode
  <2>3. emode'[w] = IF w = u THEN category ELSE emode[w]
    BY <1>1, <2>2
  <2> QED
    BY <2>2, <2>3 DEF BitsInCategory
<1> QED
  BY <1>2, <1>3

-----------------------------------------------------------------------------
(* What the calls do to the totals of a token.                             *)

\* The accounts of each token are finitely many.
LEMMA AccountsFinite == IsFiniteSet(User) /\ IsFiniteSet(Account)
<1>1. IsFiniteSet(User) /\ IsFiniteSet({Treasury})
  BY AccountAssumption, FS_Singleton
<1> QED
  BY <1>1, FS_Union DEF Account

\* A total is a natural, and none of the balances is more than it.
LEMMA TotalOfTable ==
    ASSUME NEW S, IsFiniteSet(S), NEW t \in [S -> [Asset -> Nat]], NEW b \in Asset
    PROVE  /\ Total(t, b) \in Nat
           /\ \A u \in S : t[u][b] <= Total(t, b)
<1> DEFINE column == [u \in S |-> t[u][b]]
<1>1. column \in [S -> Nat] /\ DOMAIN t = S
  OBVIOUS
<1>2. Total(t, b) = SumFunction(column)
  BY <1>1 DEF Total
<1>3. \A u \in S : column[u] = t[u][b]
  OBVIOUS
<1> HIDE DEF column
<1> QED
  BY <1>1, <1>2, <1>3, TotalType, TotalBounds

\* Table t after the balance of u in reserve a has become n.
Put(t, u, a, n) == [t EXCEPT ![u][a] = n]

\* Changing one balance changes the total of its reserve by as much.
LEMMA TotalOfPut ==
    ASSUME NEW S, IsFiniteSet(S), NEW t \in [S -> [Asset -> Nat]],
           NEW u \in S, NEW a \in Asset, NEW n \in Nat
    PROVE  /\ Put(t, u, a, n) \in [S -> [Asset -> Nat]]
           /\ \A w \in S, b \in Asset :
                 Put(t, u, a, n)[w][b] = IF w = u /\ b = a THEN n ELSE t[w][b]
           /\ \A b \in Asset : b # a => Total(Put(t, u, a, n), b) = Total(t, b)
           /\ Total(Put(t, u, a, n), a) = Total(t, a) - t[u][a] + n
<1> DEFINE s == Put(t, u, a, n)
<1>1. /\ s \in [S -> [Asset -> Nat]] /\ DOMAIN s = S /\ DOMAIN t = S
      /\ \A w \in S, b \in Asset : s[w][b] = IF w = u /\ b = a THEN n ELSE t[w][b]
  BY TableUpdate DEF Put
<1> HIDE DEF s
<1>2. ASSUME NEW b \in Asset, b # a PROVE Total(s, b) = Total(t, b)
  <2>1. [w \in S |-> s[w][b]] = [w \in S |-> t[w][b]]
    BY <1>1, <1>2
  <2> QED
    BY <1>1, <2>1 DEF Total
<1>3. Total(s, a) = Total(t, a) - t[u][a] + n
  <2> DEFINE column == [w \in S |-> t[w][a]]
  <2>1. column \in [S -> Int] /\ column[u] = t[u][a] /\ n \in Int
    OBVIOUS
  <2>2. [w \in S |-> s[w][a]] = [column EXCEPT ![u] = n]
    BY <1>1
  <2>3. Total(t, a) = SumFunction(column)
    BY <1>1 DEF Total
  <2>4. Total(s, a) = SumFunction([column EXCEPT ![u] = n])
    BY <1>1, <2>2 DEF Total
  <2> HIDE DEF column
  <2>5. SumFunction([column EXCEPT ![u] = n]) = SumFunction(column) - column[u] + n
    BY <2>1, TotalUpdate
  <2> QED
    BY <2>1, <2>3, <2>4, <2>5
<1> QED
  BY <1>1, <1>2, <1>3 DEF s

\* Table t with n more, or n less, for u in reserve a.
More(t, u, a, n) == Put(t, u, a, t[u][a] + n)
Less(t, u, a, n) == Put(t, u, a, t[u][a] - n)

\* More of one balance is as much more of the total, less as much less.
LEMMA TotalMoves ==
    ASSUME NEW S, IsFiniteSet(S), NEW t \in [S -> [Asset -> Nat]],
           NEW u \in S, NEW a \in Asset, NEW n \in Nat, NEW b \in Asset
    PROVE  /\ More(t, u, a, n) \in [S -> [Asset -> Nat]]
           /\ Total(More(t, u, a, n), b) = Total(t, b) + (IF b = a THEN n ELSE 0)
           /\ \A w \in S, c \in Asset :
                 w # u => More(t, u, a, n)[w][c] = t[w][c]
           /\ n <= t[u][a] =>
                 /\ Less(t, u, a, n) \in [S -> [Asset -> Nat]]
                 /\ Total(Less(t, u, a, n), b) = Total(t, b) - (IF b = a THEN n ELSE 0)
                 /\ Less(t, u, a, n)[u][a] = t[u][a] - n
<1>1. t[u][a] \in Nat /\ Total(t, a) \in Nat /\ Total(t, b) \in Nat
  BY TotalOfTable
<1>2. ASSUME NEW m \in Nat
      PROVE  /\ Put(t, u, a, m) \in [S -> [Asset -> Nat]]
             /\ Put(t, u, a, m)[u][a] = m
             /\ \A w \in S, c \in Asset : w # u => Put(t, u, a, m)[w][c] = t[w][c]
             /\ Total(Put(t, u, a, m), b)
                   = IF b = a THEN Total(t, a) - t[u][a] + m ELSE Total(t, b)
  BY TotalOfPut
<1>3. /\ More(t, u, a, n) \in [S -> [Asset -> Nat]]
      /\ Total(More(t, u, a, n), b) = Total(t, b) + (IF b = a THEN n ELSE 0)
      /\ \A w \in S, c \in Asset : w # u => More(t, u, a, n)[w][c] = t[w][c]
  <2> DEFINE m == t[u][a] + n
  <2>1. m \in Nat /\ Total(t, a) - t[u][a] + m = Total(t, a) + n
    BY <1>1
  <2>2. More(t, u, a, n) = Put(t, u, a, m)
    BY DEF More
  <2> HIDE DEF m
  <2> QED
    BY <1>1, <1>2, <2>1, <2>2
<1>4. ASSUME n <= t[u][a]
      PROVE  /\ Less(t, u, a, n) \in [S -> [Asset -> Nat]]
             /\ Total(Less(t, u, a, n), b) = Total(t, b) - (IF b = a THEN n ELSE 0)
             /\ Less(t, u, a, n)[u][a] = t[u][a] - n
  <2> DEFINE m == t[u][a] - n
  <2>1. m \in Nat /\ Total(t, a) - t[u][a] + m = Total(t, a) - n
    BY <1>1, <1>4
  <2>2. Less(t, u, a, n) = Put(t, u, a, m)
    BY DEF Less
  <2>3. m = t[u][a] - n
    OBVIOUS
  <2> HIDE DEF m
  <2> QED
    BY <1>1, <1>2, <2>1, <2>2, <2>3
<1> QED
  BY <1>3, <1>4

\* Supplying and withdrawing move the supply of their reserve only.
LEMMA SupplyTotal ==
    ASSUME TypeOK, NEW u \in User, NEW a \in Asset, NEW n \in Nat, NEW b \in Asset
    PROVE  /\ Supply(u, a, n) =>
                 ScaledSupply(b)' = ScaledSupply(b) + (IF b = a THEN RayDiv(n, li[a]) ELSE 0)
           /\ Withdraw(u, a, n) =>
                 ScaledSupply(b)' = ScaledSupply(b) - (IF b = a THEN RayDiv(n, li[a]) ELSE 0)
<1> DEFINE scaled == RayDiv(n, li[a])
<1>1. /\ scaled \in Nat /\ u \in Account /\ hBal \in [Account -> [Asset -> Nat]]
  BY IndexType, RayDivType, BalanceType DEF TypeOK
<1>2. Supply(u, a, n) => hBal' = More(hBal, u, a, scaled)
  BY DEF Supply, More, Put
<1>3. Withdraw(u, a, n) => hBal' = Less(hBal, u, a, scaled) /\ scaled <= hBal[u][a]
  BY DEF Withdraw, Less, Put
<1> HIDE DEF scaled
<1>4. Supply(u, a, n) => Total(hBal', b) = Total(hBal, b) + (IF b = a THEN scaled ELSE 0)
  BY <1>1, <1>2, AccountsFinite, TotalMoves
<1>5. Withdraw(u, a, n) => Total(hBal', b) = Total(hBal, b) - (IF b = a THEN scaled ELSE 0)
  BY <1>1, <1>3, AccountsFinite, TotalMoves
<1> QED
  BY <1>4, <1>5 DEF ScaledSupply, scaled

\* A transfer leaves the supply as it is.
LEMMA TransferTotal ==
    ASSUME TypeOK, NEW u \in User, NEW to \in User, NEW a \in Asset, NEW n \in Nat,
           Transfer(u, to, a, n), NEW b \in Asset
    PROVE  ScaledSupply(b)' = ScaledSupply(b)
<1> DEFINE scaled == RayDiv(n, li[a])
           paid == Less(hBal, u, a, scaled)
<1>1. /\ scaled \in Nat /\ u \in Account /\ to \in Account
      /\ hBal \in [Account -> [Asset -> Nat]]
  BY IndexType, RayDivType, BalanceType DEF TypeOK
<1>2. scaled <= hBal[u][a] /\ hBal' = More(paid, to, a, scaled)
  BY DEF Transfer, More, Less, Put
<1> HIDE DEF scaled
<1>3. /\ paid \in [Account -> [Asset -> Nat]]
      /\ Total(paid, b) = Total(hBal, b) - (IF b = a THEN scaled ELSE 0)
  BY <1>1, <1>2, AccountsFinite, TotalMoves
<1> HIDE DEF paid
<1>4. Total(hBal', b) = Total(paid, b) + (IF b = a THEN scaled ELSE 0)
  BY <1>1, <1>2, <1>3, AccountsFinite, TotalMoves
<1>5. Total(hBal, b) \in Nat
  BY <1>1, AccountsFinite, TotalOfTable
<1>6. Total(hBal', b) = Total(hBal, b)
  BY <1>1, <1>3, <1>4, <1>5
<1> QED
  BY <1>6 DEF ScaledSupply

\* A liquidation burns what it seizes, unless the liquidator takes hTokens; the
\* fee changes hands.
LEMMA SeizedTotal ==
    ASSUME TypeOK, NEW u \in User, NEW liquidator \in User, NEW c \in Asset,
           NEW quote, quote.collateral \in Nat, quote.fee \in Nat,
           NEW receiveHToken \in BOOLEAN,
           SeizeHTokens(liquidator, u, c, quote, receiveHToken), NEW b \in Asset
    PROVE  ScaledSupply(b)'
              = ScaledSupply(b) - (IF b = c /\ ~receiveHToken
                                   THEN RayDiv(quote.collateral, li[c]) ELSE 0)
<1> DEFINE seized == RayDiv(quote.collateral, li[c])
           kept == receiveHToken /\ liquidator = u
           moved == receiveHToken /\ liquidator # u
           left == IF kept THEN hBal[u][c] ELSE hBal[u][c] - seized
           fee == Lesser(RayDiv(quote.fee, li[c]), left)
           taken == IF kept THEN 0 ELSE seized
           paid == Less(hBal, u, c, taken)
           given == IF moved THEN seized ELSE 0
           received == More(paid, liquidator, c, given)
           charged == Less(received, u, c, fee)
<1>1. /\ seized \in Nat /\ RayDiv(quote.fee, li[c]) \in Nat
      /\ hBal[u][c] \in Nat /\ hBal \in [Account -> [Asset -> Nat]]
      /\ u \in Account /\ liquidator \in Account /\ Treasury \in Account
  <2>1. u \in Account /\ liquidator \in Account /\ Treasury \in Account
    BY SMT DEF Account
  <2> QED BY <2>1, BalanceType, IndexType, RayDivType DEF TypeOK
<1>2. seized <= hBal[u][c]
  BY DEF SeizeHTokens
<1>3. hBal' = More(charged, Treasury, c, fee)
  <2> DEFINE paid2 == [hBal EXCEPT ![u][c] = left]
             received2 == IF moved THEN [paid2 EXCEPT ![liquidator][c] = @ + seized]
                          ELSE paid2
  <2>1. hBal' = [[received2 EXCEPT ![u][c] = @ - fee] EXCEPT ![Treasury][c] = @ + fee]
    BY DEF SeizeHTokens
  <2> HIDE DEF fee, seized
  <2>2. paid = paid2
    <3>1. hBal[u][c] - taken = left
      BY <1>1
    <3> QED
      BY <3>1 DEF Less, Put
  <2>3. received = received2
    <3>1. paid \in [Account -> [Asset -> Nat]]
      <4>1. taken \in Nat /\ taken <= hBal[u][c]
        BY <1>1, <1>2
      <4> HIDE DEF taken
      <4> QED
        BY <1>1, <4>1, AccountsFinite, TotalMoves
    <3> HIDE DEF paid, paid2
    <3>2. CASE moved
      BY <2>2, <3>2 DEF More, Put
    <3>3. CASE ~moved
      <4>1. paid[liquidator][c] \in Nat
        BY <1>1, <3>1
      <4>2. given = 0 /\ paid[liquidator][c] + 0 = paid[liquidator][c]
        BY <3>3, <4>1
      <4>3. Put(paid, liquidator, c, paid[liquidator][c]) = paid
        BY <1>1, <3>1 DEF Put
      <4> QED
        BY <2>2, <3>3, <4>2, <4>3 DEF More
    <3> QED
      BY <3>2, <3>3
  <2> HIDE DEF received, received2
  <2> QED
    BY <2>1, <2>3 DEF More, Less, Put
<1> HIDE DEF seized
<1>4. /\ taken \in Nat /\ taken <= hBal[u][c] /\ given \in Nat
      /\ left = hBal[u][c] - taken /\ left \in Nat
  BY <1>1, <1>2
<1>5. fee \in Nat /\ fee <= left
  BY <1>1, <1>4, SMT DEF Lesser
<1>6. taken - given = IF receiveHToken THEN 0 ELSE seized
  BY <1>1
<1> HIDE DEF taken, given, left, fee, kept, moved
<1>7. /\ paid \in [Account -> [Asset -> Nat]]
      /\ paid[u][c] = left
      /\ Total(paid, b) = Total(hBal, b) - (IF b = c THEN taken ELSE 0)
  <2>1. /\ IsFiniteSet(Account) /\ hBal \in [Account -> [Asset -> Nat]]
        /\ u \in Account /\ taken \in Nat /\ taken <= hBal[u][c]
    BY <1>1, <1>4, AccountsFinite
  <2>2. /\ paid \in [Account -> [Asset -> Nat]]
        /\ Total(paid, b) = Total(hBal, b) - (IF b = c THEN taken ELSE 0)
    BY <2>1, TotalMoves
  <2>3. paid[u][c] = hBal[u][c] - taken
    BY <2>1, TotalMoves
  <2> QED
    BY <1>4, <2>2, <2>3
<1> HIDE DEF paid
<1>8. /\ received \in [Account -> [Asset -> Nat]]
      /\ Total(received, b) = Total(paid, b) + (IF b = c THEN given ELSE 0)
  <2>1. /\ IsFiniteSet(Account) /\ paid \in [Account -> [Asset -> Nat]]
        /\ liquidator \in Account /\ given \in Nat
    BY <1>1, <1>4, <1>7, AccountsFinite
  <2> QED
    BY <2>1, TotalMoves
<1>9. fee <= received[u][c]
  <2>1. received[liquidator][c] = paid[liquidator][c] + given
    BY <1>1, <1>7 DEF More, Put
  <2>2. liquidator # u => received[u][c] = paid[u][c]
    BY <1>1, <1>7 DEF More, Put
  <2>3. received[u][c] >= paid[u][c]
    BY <1>1, <1>4, <1>7, <2>1, <2>2
  <2>4. received[u][c] \in Nat
    BY <1>1, <1>8
  <2> QED
    BY <1>4, <1>5, <1>7, <2>3, <2>4
<1> HIDE DEF received
<1>10. /\ charged \in [Account -> [Asset -> Nat]]
       /\ Total(charged, b) = Total(received, b) - (IF b = c THEN fee ELSE 0)
  <2>1. /\ IsFiniteSet(Account) /\ received \in [Account -> [Asset -> Nat]]
        /\ u \in Account /\ fee \in Nat /\ fee <= received[u][c]
    BY <1>1, <1>5, <1>8, <1>9, AccountsFinite
  <2> QED
    BY <2>1, TotalMoves DEF charged
<1> HIDE DEF charged
<1>11. Total(hBal', b) = Total(charged, b) + (IF b = c THEN fee ELSE 0)
  <2>1. /\ IsFiniteSet(Account) /\ charged \in [Account -> [Asset -> Nat]]
        /\ Treasury \in Account /\ fee \in Nat
    BY <1>1, <1>5, <1>10, AccountsFinite
  <2> QED
    BY <1>3, <2>1, TotalMoves
<1>12. Total(hBal, b) \in Nat
  BY <1>1, AccountsFinite, TotalOfTable
<1>13. Total(hBal', b) = Total(hBal, b) - (IF b = c THEN taken - given ELSE 0)
  BY <1>4, <1>5, <1>7, <1>8, <1>10, <1>11, <1>12
<1>14. Total(hBal', b)
         = Total(hBal, b) - (IF b = c /\ ~receiveHToken THEN seized ELSE 0)
  BY <1>6, <1>12, <1>13
<1> QED
  BY <1>14 DEF ScaledSupply, seized

-----------------------------------------------------------------------------
(* While no interest accrues, nothing is lost.                             *)

\* A new debt is as much more of the total of its mode.
LEMMA MintTotal ==
    ASSUME TypeOK, NEW u \in User, NEW a \in Asset, NEW n \in Nat, NEW mode,
           MintDebt(u, a, n, mode), NEW b \in Asset
    PROVE  \/ /\ Total(vBal, b)' = Total(vBal, b) + (IF b = a THEN RayDiv(n, vi[a]) ELSE 0)
              /\ Total(sBal, b)' = Total(sBal, b)
           \/ /\ Total(sBal, b)' = Total(sBal, b) + (IF b = a THEN n ELSE 0)
              /\ Total(vBal, b)' = Total(vBal, b)
<1> DEFINE scaled == RayDiv(n, vi[a])
<1>1. /\ IsFiniteSet(User) /\ scaled \in Nat
      /\ vBal \in [User -> [Asset -> Nat]] /\ sBal \in [User -> [Asset -> Nat]]
  BY AccountsFinite, IndexType, RayDivType DEF TypeOK
<1>2. \/ vBal' = More(vBal, u, a, scaled) /\ sBal' = sBal
      \/ sBal' = More(sBal, u, a, n) /\ vBal' = vBal
  BY DEF MintDebt, More, Put
<1> HIDE DEF scaled
<1>3. Total(More(vBal, u, a, scaled), b) = Total(vBal, b) + (IF b = a THEN scaled ELSE 0)
  <2>1. IsFiniteSet(User) /\ vBal \in [User -> [Asset -> Nat]] /\ scaled \in Nat
    BY <1>1
  <2> QED
    BY <2>1, TotalMoves, SMTT(20)
<1>4. Total(More(sBal, u, a, n), b) = Total(sBal, b) + (IF b = a THEN n ELSE 0)
  <2>1. IsFiniteSet(User) /\ sBal \in [User -> [Asset -> Nat]]
    BY <1>1
  <2> QED
    BY <2>1, TotalMoves, SMTT(20)
<1> QED
  BY <1>2, <1>3, <1>4 DEF scaled

\* Burning a debt is as much less of the total of its mode.
LEMMA BurnTotal ==
    ASSUME TypeOK, NEW u \in User, NEW a \in Asset, NEW n \in Nat, NEW b \in Asset
    PROVE  /\ BurnVariable(u, a, n) =>
                 Total(vBal, b)' = Total(vBal, b) - (IF b = a THEN RayDiv(n, vi[a]) ELSE 0)
           /\ BurnStable(u, a, n) =>
                 Total(sBal, b)' = Total(sBal, b) - (IF b = a THEN n ELSE 0)
<1> DEFINE scaled == RayDiv(n, vi[a])
<1>1. /\ IsFiniteSet(User) /\ scaled \in Nat
      /\ vBal \in [User -> [Asset -> Nat]] /\ sBal \in [User -> [Asset -> Nat]]
  BY AccountsFinite, IndexType, RayDivType DEF TypeOK
<1>2. BurnVariable(u, a, n) => vBal' = Less(vBal, u, a, scaled) /\ scaled <= vBal[u][a]
  BY DEF BurnVariable, Less, Put
<1>3. BurnStable(u, a, n) => sBal' = Less(sBal, u, a, n) /\ n <= sBal[u][a]
  BY DEF BurnStable, Less, Put
<1> HIDE DEF scaled
<1>4. ASSUME scaled <= vBal[u][a]
      PROVE  Total(Less(vBal, u, a, scaled), b) = Total(vBal, b) - (IF b = a THEN scaled ELSE 0)
  <2>1. vBal \in [User -> [Asset -> Nat]] /\ scaled \in Nat /\ IsFiniteSet(User)
    BY <1>1
  <2> QED
    BY <1>4, <2>1, TotalMoves
<1>5. n <= sBal[u][a] =>
         Total(Less(sBal, u, a, n), b) = Total(sBal, b) - (IF b = a THEN n ELSE 0)
  BY <1>1, TotalMoves
<1> QED
  BY <1>2, <1>3, <1>4, <1>5 DEF scaled

\* A payment adds to the cash, or burns hTokens.
LEMMA PaymentTotal ==
    ASSUME TypeOK, NEW u \in User, NEW a \in Asset, NEW n \in Nat,
           NEW useHTokens \in BOOLEAN, Payment(u, a, n, useHTokens), NEW b \in Asset
    PROVE  IF useHTokens
           THEN /\ ScaledSupply(b)'
                      = ScaledSupply(b) - (IF b = a THEN RayDiv(n, li[a]) ELSE 0)
                /\ cash'[b] = cash[b]
           ELSE /\ ScaledSupply(b)' = ScaledSupply(b)
                /\ cash'[b] = cash[b] + (IF b = a THEN n ELSE 0)
<1> DEFINE scaled == RayDiv(n, li[a])
<1>1. /\ scaled \in Nat /\ u \in Account /\ hBal \in [Account -> [Asset -> Nat]]
      /\ cash \in [Asset -> Nat]
  BY IndexType, RayDivType, BalanceType DEF TypeOK
<1>2. CASE useHTokens
  <2>1. /\ hBal' = Less(hBal, u, a, scaled) /\ scaled <= hBal[u][a]
        /\ cash' = cash
    BY <1>2 DEF Payment, Less, Put
  <2> HIDE DEF scaled
  <2>2. Total(hBal', b) = Total(hBal, b) - (IF b = a THEN scaled ELSE 0)
    BY <1>1, <2>1, AccountsFinite, TotalMoves
  <2> QED
    BY <1>2, <2>1, <2>2 DEF ScaledSupply, scaled
<1>3. CASE ~useHTokens
  <2>1. cash' = [cash EXCEPT ![a] = cash[a] + n] /\ hBal' = hBal
    BY <1>3 DEF Payment
  <2>2. cash'[b] = cash[b] + (IF b = a THEN n ELSE 0)
    BY <1>1, <2>1
  <2> QED
    BY <1>3, <2>1, <2>2 DEF ScaledSupply
<1> QED
  BY <1>2, <1>3

\* No interest has accrued.
AtPar == \A a \in Asset : li[a] = RAY /\ vi[a] = RAY

\* What users owe in reserve a, at par.
Lent(a) == Total(vBal, a) + Total(sBal, a)

\* The cash and the debts are what hToken holders claim.
Balanced == \A a \in Asset : cash[a] + Lent(a) = ScaledSupply(a)

\* The totals are naturals.
LEMMA TotalsType ==
    ASSUME TypeOK, NEW a \in Asset
    PROVE  /\ Total(hBal, a) \in Nat /\ Total(vBal, a) \in Nat /\ Total(sBal, a) \in Nat
           /\ ScaledSupply(a) \in Nat /\ Lent(a) \in Nat /\ cash[a] \in Nat
<1>1. /\ hBal \in [Account -> [Asset -> Nat]] /\ vBal \in [User -> [Asset -> Nat]]
      /\ sBal \in [User -> [Asset -> Nat]] /\ cash[a] \in Nat
  BY DEF TypeOK
<1>2. Total(hBal, a) \in Nat /\ Total(vBal, a) \in Nat /\ Total(sBal, a) \in Nat
  BY <1>1, AccountsFinite, TotalOfTable
<1> QED
  BY <1>1, <1>2 DEF ScaledSupply, Lent

\* At par and in balance, Conservation.
LEMMA BalancedConserves == TypeOK /\ AtPar /\ Balanced => Conservation
<1> SUFFICES ASSUME TypeOK, AtPar, Balanced, NEW a \in Asset
             PROVE  cash[a] + TotalDebt(a) = RayMul(ScaledSupply(a), li[a])
  BY DEF Conservation
<1>1. /\ RayMul(Total(vBal, a), RAY) = Total(vBal, a)
      /\ RayMul(ScaledSupply(a), RAY) = ScaledSupply(a)
  BY TotalsType, RayIsOne
<1>2. TotalDebt(a) = Lent(a)
  BY <1>1 DEF TotalDebt, VariableSupply, Lent, AtPar
<1> QED
  BY <1>1, <1>2 DEF Balanced, AtPar

\* Burning debt in a liquidation lowers what is lent by as much, at par.
LEMMA BurnDebtLent ==
    ASSUME TypeOK, AtPar, NEW u \in User, NEW d \in Asset, NEW n \in Nat,
           BurnDebt(u, d, n), NEW b \in Asset
    PROVE  Lent(b)' = Lent(b) - (IF b = d THEN n ELSE 0)
<1>1. /\ Total(vBal, b) \in Nat /\ Total(sBal, b) \in Nat
      /\ VariableDebt(u, d) \in Nat /\ vBal[u][d] \in Nat
  BY TotalsType, BalanceType
<1>2. vi[d] = RAY /\ \A m \in Nat : RayDiv(m, vi[d]) = m
  BY RayIsOne DEF AtPar
<1>3. CASE /\ VariableDebt(u, d) >= n /\ BurnVariable(u, d, n) /\ UNCHANGED sBal
  <2>1. Total(vBal, b)' = Total(vBal, b) - (IF b = d THEN n ELSE 0)
    BY <1>2, <1>3, BurnTotal
  <2> QED
    BY <1>1, <1>3, <2>1 DEF Lent
<1>4. CASE /\ VariableDebt(u, d) < n
           /\ IF VariableDebt(u, d) # 0 THEN BurnVariable(u, d, VariableDebt(u, d))
              ELSE UNCHANGED vBal
           /\ BurnStable(u, d, n - VariableDebt(u, d))
  <2> DEFINE owed == VariableDebt(u, d)
             rest == n - owed
  <2>1. owed \in Nat /\ rest \in Nat /\ owed + rest = n
    BY <1>1, <1>4
  <2> HIDE DEF owed
  <2>2. Total(vBal, b)' = Total(vBal, b) - (IF b = d THEN owed ELSE 0)
    <3>1. CASE owed # 0
      BY <1>2, <1>4, <2>1, <3>1, BurnTotal DEF owed
    <3>2. CASE owed = 0
      BY <1>1, <1>4, <3>2 DEF owed
    <3> QED
      BY <3>1, <3>2
  <2>3. BurnStable(u, d, rest)
    BY <1>4 DEF owed
  <2> HIDE DEF rest
  <2>4. Total(sBal, b)' = Total(sBal, b) - (IF b = d THEN rest ELSE 0)
    BY <2>1, <2>3, BurnTotal
  <2> QED
    BY <1>1, <2>1, <2>2, <2>4 DEF Lent
<1> QED
  BY <1>3, <1>4 DEF BurnDebt

\* At first nobody claims or owes anything.
LEMMA InitBooks ==
    ASSUME Init
    PROVE  AtPar /\ Balanced /\ \A a \in Asset : ScaledSupply(a) = 0
<1>1. ASSUME NEW S, IsFiniteSet(S), NEW a \in Asset
      PROVE  Total([u \in S |-> [b \in Asset |-> 0]], a) = 0
  <2>1. [u \in S |-> [w \in S |-> [b \in Asset |-> 0]][u][a]] = [u \in S |-> 0]
    OBVIOUS
  <2> QED
    BY <1>1, <2>1, TotalZero DEF Total
<1>2. ASSUME NEW a \in Asset
      PROVE  /\ Total(hBal, a) = 0 /\ Total(vBal, a) = 0 /\ Total(sBal, a) = 0
             /\ cash[a] = 0
  BY <1>1, AccountsFinite DEF Init
<1>3. AtPar
  BY DEF Init, AtPar
<1> QED
  BY <1>2, <1>3 DEF Balanced, Lent, ScaledSupply

\* At par every step keeps the balance of the pool's books.
LEMMA BalancedStep ==
    ASSUME TypeOK, SoundInv, AtPar, Balanced, Growth \subseteq {RAY}, Next
    PROVE  AtPar' /\ Balanced'
<1>1. \A n \in Nat, a \in Asset : RayDiv(n, li[a]) = n /\ RayDiv(n, vi[a]) = n
  BY RayIsOne DEF AtPar
<1>2. \A b \in Asset : /\ cash[b] \in Nat /\ ScaledSupply(b) \in Nat /\ Lent(b) \in Nat
                       /\ Total(vBal, b) \in Nat /\ Total(sBal, b) \in Nat
  BY TotalsType
<1>3. ASSUME UNCHANGED <<li, vi>> PROVE AtPar'
  BY <1>3 DEF AtPar
<1>4. ASSUME UNCHANGED <<vBal, sBal>>, NEW b \in Asset PROVE Lent(b)' = Lent(b)
  BY <1>4 DEF Lent
<1>5. ASSUME NEW u \in User, NEW a \in Asset, NEW n \in Nat, Supply(u, a, n)
      PROVE  AtPar' /\ Balanced'
  <2>1. ASSUME NEW b \in Asset PROVE (cash[b] + Lent(b) = ScaledSupply(b))'
    <3>1. ScaledSupply(b)' = ScaledSupply(b) + (IF b = a THEN n ELSE 0)
      BY <1>1, <1>5, SupplyTotal
    <3>2. cash'[b] = cash[b] + (IF b = a THEN n ELSE 0)
      BY <1>2, <1>5 DEF Supply, TypeOK
    <3>3. Lent(b)' = Lent(b)
      BY <1>4, <1>5 DEF Supply
    <3> QED
      BY <1>2, <3>1, <3>2, <3>3 DEF Balanced
  <2> QED
    BY <1>3, <1>5, <2>1 DEF Supply, Balanced
<1>6. ASSUME NEW u \in User, NEW a \in Asset, NEW n \in Nat, Withdraw(u, a, n)
      PROVE  AtPar' /\ Balanced'
  <2>1. ASSUME NEW b \in Asset PROVE (cash[b] + Lent(b) = ScaledSupply(b))'
    <3>1. ScaledSupply(b)' = ScaledSupply(b) - (IF b = a THEN n ELSE 0)
      <4>1. RayDiv(n, li[a]) = n
        BY <1>1
      <4> QED
        BY <1>6, <4>1, SupplyTotal
    <3>2. cash'[b] = cash[b] - (IF b = a THEN n ELSE 0)
      BY <1>2, <1>6 DEF Withdraw, TypeOK
    <3>3. Lent(b)' = Lent(b)
      BY <1>4, <1>6 DEF Withdraw
    <3> QED
      BY <1>2, <3>1, <3>2, <3>3 DEF Balanced
  <2> QED
    BY <1>3, <1>6, <2>1 DEF Withdraw, Balanced
<1>7. ASSUME NEW u \in User, NEW to \in User, NEW a \in Asset, NEW n \in Nat,
             Transfer(u, to, a, n)
      PROVE  AtPar' /\ Balanced'
  <2>1. ASSUME NEW b \in Asset PROVE (cash[b] + Lent(b) = ScaledSupply(b))'
    <3>1. ScaledSupply(b)' = ScaledSupply(b)
      BY <1>7, TransferTotal
    <3>2. cash' = cash /\ Lent(b)' = Lent(b)
      BY <1>4, <1>7 DEF Transfer
    <3> QED
      BY <3>1, <3>2 DEF Balanced
  <2> QED
    BY <1>3, <1>7, <2>1 DEF Transfer, Balanced
<1>8. ASSUME NEW u \in User, NEW a \in Asset, NEW n \in Nat, NEW mode \in RateMode,
             Borrow(u, a, n, mode)
      PROVE  AtPar' /\ Balanced'
  <2>1. ASSUME NEW b \in Asset PROVE (cash[b] + Lent(b) = ScaledSupply(b))'
    <3>1. Lent(b)' = Lent(b) + (IF b = a THEN n ELSE 0)
      <4>1. MintDebt(u, a, n, mode) /\ RayDiv(n, vi[a]) = n
        BY <1>1, <1>8 DEF Borrow
      <4>2. \/ /\ Total(vBal, b)' = Total(vBal, b) + (IF b = a THEN n ELSE 0)
               /\ Total(sBal, b)' = Total(sBal, b)
            \/ /\ Total(sBal, b)' = Total(sBal, b) + (IF b = a THEN n ELSE 0)
               /\ Total(vBal, b)' = Total(vBal, b)
        BY <4>1, MintTotal
      <4> QED
        BY <1>2, <4>2 DEF Lent
    <3>2. cash'[b] = cash[b] - (IF b = a THEN n ELSE 0)
      BY <1>2, <1>8 DEF Borrow, TypeOK
    <3>3. ScaledSupply(b)' = ScaledSupply(b)
      BY <1>8 DEF Borrow, ScaledSupply
    <3> QED
      BY <1>2, <3>1, <3>2, <3>3 DEF Balanced
  <2> QED
    BY <1>3, <1>8, <2>1 DEF Borrow, Balanced
<1>9. ASSUME NEW u \in User, NEW a \in Asset, NEW n \in Nat, NEW mode \in RateMode,
             NEW useHTokens \in BOOLEAN, Repay(u, a, n, mode, useHTokens)
      PROVE  AtPar' /\ Balanced'
  <2> DEFINE amount == Lesser(n, IF mode = "stable" THEN sBal[u][a] ELSE VariableDebt(u, a))
  <2>1. /\ \/ BurnVariable(u, a, amount) /\ UNCHANGED sBal
           \/ BurnStable(u, a, amount) /\ UNCHANGED vBal
        /\ Payment(u, a, amount, useHTokens)
    BY <1>9 DEF Repay
  <2>2. amount \in Nat
    BY OwedType
  <2> HIDE DEF amount
  <2>3. ASSUME NEW b \in Asset PROVE (cash[b] + Lent(b) = ScaledSupply(b))'
    <3>1. Lent(b)' = Lent(b) - (IF b = a THEN amount ELSE 0)
      BY <1>1, <1>2, <2>1, <2>2, BurnTotal DEF Lent
    <3>2. IF useHTokens
          THEN /\ ScaledSupply(b)' = ScaledSupply(b) - (IF b = a THEN amount ELSE 0)
               /\ cash'[b] = cash[b]
          ELSE /\ ScaledSupply(b)' = ScaledSupply(b)
               /\ cash'[b] = cash[b] + (IF b = a THEN amount ELSE 0)
      BY <1>1, <2>1, <2>2, PaymentTotal
    <3> QED
      BY <1>2, <2>2, <3>1, <3>2 DEF Balanced
  <2> QED
    BY <1>3, <1>9, <2>3 DEF Repay, Balanced
<1>10. ASSUME NEW u \in User, NEW a \in Asset, SwapToVariable(u, a)
       PROVE  AtPar' /\ Balanced'
  <2> DEFINE n == sBal[u][a]
  <2>1. n \in Nat /\ RayDiv(n, vi[a]) = n
    BY <1>1, BalanceType
  <2>2. BurnStable(u, a, n) /\ vBal' = More(vBal, u, a, n)
    <3>1. n <= n /\ n - n = 0
      BY <2>1
    <3>2. sBal' = [sBal EXCEPT ![u][a] = n - n]
      BY <1>10, <3>1 DEF SwapToVariable
    <3> QED
      BY <1>10, <2>1, <3>1, <3>2 DEF SwapToVariable, BurnStable, More, Put
  <2> HIDE DEF n
  <2>3. ASSUME NEW b \in Asset PROVE Lent(b)' = Lent(b)
    <3>1. Total(sBal, b)' = Total(sBal, b) - (IF b = a THEN n ELSE 0)
      BY <2>1, <2>2, BurnTotal
    <3>2. Total(vBal', b) = Total(vBal, b) + (IF b = a THEN n ELSE 0)
      <4>1. vBal \in [User -> [Asset -> Nat]] /\ IsFiniteSet(User)
        BY AccountsFinite DEF TypeOK
      <4> QED
        BY <2>1, <2>2, <4>1, TotalMoves
    <3> QED
      BY <1>2, <2>1, <3>1, <3>2 DEF Lent
  <2>4. UNCHANGED <<li, vi, cash, hBal>>
    BY <1>10 DEF SwapToVariable
  <2> QED
    BY <1>3, <2>3, <2>4 DEF Balanced, ScaledSupply
<1>11. ASSUME NEW u \in User, NEW a \in Asset, SwapToStable(u, a)
       PROVE  AtPar' /\ Balanced'
  <2> DEFINE n == VariableDebt(u, a)
  <2>1. n \in Nat /\ RayDiv(n, vi[a]) = n
    BY <1>1, BalanceType
  <2>2. BurnVariable(u, a, n) /\ sBal' = More(sBal, u, a, n)
    BY <1>11 DEF SwapToStable, More, Put
  <2> HIDE DEF n
  <2>3. ASSUME NEW b \in Asset PROVE Lent(b)' = Lent(b)
    <3>1. Total(vBal, b)' = Total(vBal, b) - (IF b = a THEN n ELSE 0)
      BY <2>1, <2>2, BurnTotal
    <3>2. Total(sBal', b) = Total(sBal, b) + (IF b = a THEN n ELSE 0)
      <4>1. sBal \in [User -> [Asset -> Nat]] /\ IsFiniteSet(User)
        BY AccountsFinite DEF TypeOK
      <4> QED
        BY <2>1, <2>2, <4>1, TotalMoves
    <3> QED
      BY <1>2, <2>1, <3>1, <3>2 DEF Lent
  <2>4. UNCHANGED <<li, vi, cash, hBal>>
    BY <1>11 DEF SwapToStable
  <2> QED
    BY <1>3, <2>3, <2>4 DEF Balanced, ScaledSupply
<1>12. ASSUME NEW liquidator \in User, NEW u \in User, NEW c \in Asset, NEW d \in Asset,
              NEW n \in Nat, NEW receiveHToken \in BOOLEAN,
              Liquidate(liquidator, u, c, d, n, receiveHToken)
       PROVE  AtPar' /\ Balanced'
  <2> DEFINE quote == Quote(u, c, d, DebtToLiquidate(u, d, n))
  <2>1. quote.collateral \in Nat /\ quote.debt \in Nat /\ quote.fee \in Nat
    BY <1>12, QuoteType, RepaidDebtType DEF Liquidate, LiquidationAllowed
  <2>2. /\ BurnDebt(u, d, quote.debt)
        /\ SeizeHTokens(liquidator, u, c, quote, receiveHToken)
        /\ IF receiveHToken
           THEN cash' = [cash EXCEPT ![d] = @ + quote.debt]
           ELSE /\ quote.collateral <= cash[c]
                /\ cash' = [a \in Asset |->
                              cash[a] - (IF a = c THEN quote.collateral ELSE 0)
                                      + (IF a = d THEN quote.debt ELSE 0)]
        /\ UNCHANGED <<li, vi>>
    BY <1>12 DEF Liquidate
  <2> HIDE DEF quote
  <2>3. ASSUME NEW b \in Asset PROVE (cash[b] + Lent(b) = ScaledSupply(b))'
    <3>1. Lent(b)' = Lent(b) - (IF b = d THEN quote.debt ELSE 0)
      BY <2>1, <2>2, BurnDebtLent
    <3>2. ScaledSupply(b)'
             = ScaledSupply(b) - (IF b = c /\ ~receiveHToken
                                  THEN RayDiv(quote.collateral, li[c]) ELSE 0)
      BY <2>1, <2>2, SeizedTotal
    <3>3. cash'[b] = cash[b] - (IF b = c /\ ~receiveHToken THEN quote.collateral ELSE 0)
                             + (IF b = d THEN quote.debt ELSE 0)
      <4>1. cash \in [Asset -> Nat]
        BY DEF TypeOK
      <4> QED
        BY <2>1, <2>2, <4>1
    <3>4. RayDiv(quote.collateral, li[c]) = quote.collateral
      BY <1>1, <2>1
    <3> QED
      BY <1>2, <2>1, <3>1, <3>2, <3>3, <3>4 DEF Balanced
  <2> QED
    BY <1>3, <2>2, <2>3 DEF Balanced
<1>13. ASSUME UNCHANGED <<hBal, vBal, sBal, li, vi, cash>>
       PROVE  AtPar' /\ Balanced'
  BY <1>13 DEF AtPar, Balanced, Lent, ScaledSupply
<1>14. ASSUME NEW a \in Asset, NEW income \in Growth, NEW variable \in Growth,
              NEW stable \in Growth, Accrue(a, income, variable, stable)
       PROVE  AtPar' /\ Balanced'
  <2>1. income = RAY /\ variable = RAY /\ stable = RAY
    OBVIOUS
  <2>2. \A n \in Nat : RayMul(n, RAY) = n
    BY RayIsOne
  <2>3. /\ li' = [li EXCEPT ![a] = RayMul(li[a], RAY)]
        /\ vi' = [vi EXCEPT ![a] = RayMul(vi[a], RAY)]
        /\ sBal' = [u \in User |-> [sBal[u] EXCEPT ![a] = RayMul(sBal[u][a], RAY)]]
        /\ UNCHANGED <<hBal, vBal, cash>>
    BY <1>14, <2>1 DEF Accrue
  <2>4. /\ li \in [Asset -> {i \in Nat : i >= RAY}]
        /\ vi \in [Asset -> {i \in Nat : i >= RAY}]
        /\ sBal \in [User -> [Asset -> Nat]]
    BY DEF TypeOK
  <2>5. RayMul(li[a], RAY) = li[a] /\ RayMul(vi[a], RAY) = vi[a]
    BY <2>2, <2>4
  <2>6. \A u \in User : [sBal[u] EXCEPT ![a] = RayMul(sBal[u][a], RAY)] = sBal[u]
    <3>1. \A u \in User : RayMul(sBal[u][a], RAY) = sBal[u][a]
      BY <2>2, <2>4
    <3> QED
      BY <2>4, <3>1
  <2>7. li' = li /\ vi' = vi /\ sBal' = sBal
    BY <2>3, <2>4, <2>5, <2>6
  <2> QED
    BY <1>13, <2>3, <2>7
<1> QED
  BY <1>5, <1>6, <1>7, <1>8, <1>9, <1>10, <1>11, <1>12, <1>13, <1>14, StepCases
     DEF EnableCollateral, DisableCollateral, SetUserEMode, SetPrice

-----------------------------------------------------------------------------
(* What a liquidation seizes is worth what it repays, and the bonus.       *)

\* The quotes are fair in every state of the right type.
LEMMA FairQuotes == TypeOK /\ SoundInv => QuoteIsFair
<1> SUFFICES ASSUME TypeOK, SoundInv, NEW u \in User, NEW c \in Asset, NEW d \in Asset,
                    LiquidationAllowed(u, c, d),
                    NEW debtToCover \in Amounts \cup {Debt(u, d)}
             PROVE  LET repaid == DebtToLiquidate(u, d, debtToCover)
                        quote == Quote(u, c, d, repaid)
                        seized == quote.collateral + quote.fee
                        pc == CollateralPrice(u, c) * config[d].unit
                        pd == DebtPrice(u, d) * config[c].unit
                    IN /\ quote.debt <= repaid
                       /\ seized <= HBalance(u, c)
                       /\ 2 * pc * seized * PERCENTAGE_FACTOR
                             <= pd * (2 * quote.debt + 1) * LiquidationBonus(u, c)
                                   + (pc + 2 * pd) * PERCENTAGE_FACTOR
  BY DEF QuoteIsFair
<1> DEFINE repaid == DebtToLiquidate(u, d, debtToCover)
           quote == Quote(u, c, d, repaid)
           pc == CollateralPrice(u, c) * config[d].unit
           pd == DebtPrice(u, d) * config[c].unit
           bonus == LiquidationBonus(u, c)
           wanted == PercentMul((pd * repaid) \div pc, bonus)
           capped == wanted > HBalance(u, c)
           seized == IF capped THEN HBalance(u, c) ELSE wanted
           fee == IF config[c].fee = 0 THEN 0
                  ELSE PercentMul(seized - PercentDiv(seized, bonus), config[c].fee)
           debt == IF capped THEN PercentDiv((pc * seized) \div pd, bonus) ELSE repaid
<1>1. repaid \in Nat /\ c \in Backing(u)
  <2>1. debtToCover \in Nat
    BY BalanceType, PoolAssumption
  <2> QED
    BY <2>1, RepaidDebtType DEF LiquidationAllowed
<1>2. /\ quote.collateral \in Nat /\ quote.fee \in Nat
      /\ quote.collateral + quote.fee <= HBalance(u, c)
  BY <1>1, QuoteType
<1>3. HBalance(u, c) \in Nat
  BY BalanceType
<1>4. bonus \in Nat \ {0}
  BY <1>1, BonusBound, HalfFactor
<1>5. pc \in Nat \ {0} /\ pd \in Nat \ {0}
  <2>1. config[c].unit \in Nat \ {0} /\ config[d].unit \in Nat \ {0}
    BY SMT DEF TypeOK, AssetConfig
  <2> QED
    BY <2>1, PriceType, PositiveProduct
<1>6. quote = [collateral |-> seized - fee, debt |-> debt, fee |-> fee]
  BY DEF Quote
<1> HIDE DEF repaid, pc, pd, bonus, quote
<1>7. wanted \in Nat
  BY <1>1, <1>4, <1>5, PercentMulType, ProductType, DivType
<1>8. quote.collateral + quote.fee = seized /\ quote.debt = debt
  <2>1. quote.collateral = seized - fee /\ quote.fee = fee /\ quote.debt = debt
    BY <1>6
  <2>2. seized \in Nat
    BY <1>3, <1>7
  <2> HIDE DEF seized, fee, debt
  <2> QED
    BY <1>2, <2>1, <2>2
<1> HIDE DEF fee
<1>9. debt <= repaid
  BY <1>1, <1>3, <1>4, <1>5, CapLowersDebt
<1>10. 2 * pc * seized * PERCENTAGE_FACTOR
          <= pd * (2 * debt + 1) * bonus + (pc + 2 * pd) * PERCENTAGE_FACTOR
  <2>1. CASE capped
    <3>1. seized = HBalance(u, c) /\ debt = PercentDiv((pc * HBalance(u, c)) \div pd, bonus)
      BY <2>1
    <3> HIDE DEF seized, debt
    <3> QED
      BY <1>3, <1>4, <1>5, <3>1, BalanceIsWorth
  <2>2. CASE ~capped
    <3>1. seized = PercentMul((pd * repaid) \div pc, bonus) /\ debt = repaid
      BY <2>2
    <3> HIDE DEF seized, debt
    <3> QED
      BY <1>1, <1>4, <1>5, <3>1, WantedIsWorth
  <2> QED
    BY <2>1, <2>2
<1> HIDE DEF seized, debt
<1> QED
  BY <1>2, <1>8, <1>9, <1>10 DEF repaid, quote, pc, pd, bonus

-----------------------------------------------------------------------------
(* No call that must succeed is stuck.  ENABLED says that some next state  *)
(* exists; what is stated here names it: assignments of state functions to *)
(* the primed variables, with no condition on them, under which the call   *)
(* is a step.                                                              *)

\* What a liquidation quotes is some debt, once the collateral is worth a unit of
\* the debt and the bonus: W is what it is worth, in units of the debt at price p.
LEMMA QuotedDebt ==
    ASSUME NEW balance \in Nat, NEW price0 \in Nat \ {0}, NEW uc \in Nat \ {0},
           NEW ud \in Nat \ {0}, NEW p \in Nat \ {0}, NEW bonus \in Nat \ {0},
           bonus > PERCENTAGE_FACTOR,
           ((balance * price0) \div uc) * ud * PERCENTAGE_FACTOR >= p * bonus
    PROVE  PercentDiv(((price0 * ud) * balance) \div (p * uc), bonus) # 0
<1> DEFINE V == (balance * price0) \div uc
           W == V * ud
           n == (price0 * ud) * balance
           q == n \div (p * uc)
           w == W \div p
           F == PERCENTAGE_FACTOR
<1>1. balance * price0 \in Nat /\ F \in Nat \ {0}
  BY ProductType, HalfFactor
<1>2. V \in Nat /\ uc * V <= balance * price0
  BY <1>1, DivBrackets
<1>3. W \in Nat /\ W * F >= p * bonus
  <2>1. W * F >= p * bonus
    OBVIOUS
  <2>2. W \in Nat
    BY <1>2, ProductType
  <2> HIDE DEF W
  <2> QED BY <2>1, <2>2
<1> HIDE DEF V
<1>4. (p * uc) * w <= n /\ n \in Nat /\ p * uc \in Nat \ {0} /\ w \in Nat
  <2>1. w \in Nat /\ p * w <= W
    BY <1>3, DivBrackets
  <2> HIDE DEF w, W
  <2>2. n \in Nat /\ p * uc \in Nat \ {0} /\ p * w \in Nat
    BY <2>1, SMT
  <2>3. uc * (p * w) <= uc * W
    BY <1>3, <2>1, <2>2, ProductMonotone
  <2>4. uc * W = (uc * V) * ud
    BY <1>2, SMT DEF W
  <2>5. (uc * V) * ud <= (balance * price0) * ud
    <3>1. uc * V \in Nat
      BY <1>2, ProductType
    <3> QED BY <1>1, <1>2, <3>1, OrderOfProducts
  <2>6. (balance * price0) * ud = n
    BY SMT
  <2>7. uc * (p * w) = (p * uc) * w
    BY <2>1, SMT
  <2>8. uc * (p * w) \in Nat /\ uc * W \in Nat
    BY <1>3, <2>2, ProductType
  <2> HIDE DEF n
  <2> QED BY <2>1, <2>2, <2>3, <2>4, <2>5, <2>6, <2>7, <2>8, SMT
<1>5. q \in Nat /\ w <= q
  <2> HIDE DEF n, w
  <2> QED BY <1>4, DivAtLeast, DivType
\* The truncated worth is one unit at least, and above the bonus less one.
<1>6. w # 0 /\ w * F > bonus - F
  <2>1. w \in Nat /\ W < p * w + p
    BY <1>3, DivBrackets
  <2> HIDE DEF w, W
  <2>2. p * w + p = p * (w + 1) /\ w + 1 \in Nat
    BY <2>1, SMT
  <2>3. p * bonus < (p * (w + 1)) * F
    <3>1. p * (w + 1) \in Nat
      BY <2>2, ProductType
    <3>2. W * F < (p * (w + 1)) * F
      BY <1>1, <1>3, <2>1, <2>2, <3>1, SMT
    <3>3. W * F \in Nat /\ p * bonus \in Nat /\ (p * (w + 1)) * F \in Nat
      BY <1>1, <1>3, <3>1, ProductType
    <3> QED BY <1>3, <3>2, <3>3, SMT
  <2>4. (p * (w + 1)) * F = p * ((w + 1) * F) /\ (w + 1) * F \in Nat
    BY <1>1, <2>2, SMT
  <2>5. bonus < (w + 1) * F
    BY <2>3, <2>4, OrderOfProducts
  <2>6. (w + 1) * F = w * F + F /\ w * F \in Nat /\ (w = 0 => w * F = 0)
    BY <1>1, <2>1, SMT
  <2> QED BY <1>1, <2>1, <2>5, <2>6, SMT
<1> HIDE DEF q, w
<1> DEFINE m == q * F + (bonus \div 2)
<1>7. m \in Nat /\ bonus * 1 <= m
  <2>1. q * F \in Nat /\ w * F \in Nat /\ w * F <= q * F /\ F <= w * F
    BY <1>1, <1>4, <1>5, <1>6, SMT
  <2> QED BY <1>1, <1>6, <2>1, SMT
<1> HIDE DEF m
<1>8. 1 <= m \div bonus /\ m \div bonus \in Nat
  BY <1>7, DivAtLeast, DivType
<1>9. m \div bonus # 0
  BY <1>8, SMT
<1> QED
  BY <1>9 DEF PercentDiv, q, n, m

\* The debt tokens after a debt of amount is burnt, and the hTokens after the
\* quoted ones went to by and the fee to the treasury.
BurntVariable(u, d, amount) ==
    LET burnt == IF amount <= VariableDebt(u, d) THEN RayDiv(amount, vi[d])
                 ELSE vBal[u][d]
    IN [vBal EXCEPT ![u][d] = @ - burnt]

BurntStable(u, d, amount) ==
    IF amount <= VariableDebt(u, d) THEN sBal
    ELSE [sBal EXCEPT ![u][d] = @ - (amount - VariableDebt(u, d))]

Seized(by, u, c, quote) ==
    LET seized == RayDiv(quote.collateral, li[c])
        left == IF by = u THEN hBal[u][c] ELSE hBal[u][c] - seized
        fee == Lesser(RayDiv(quote.fee, li[c]), left)
        paid == [hBal EXCEPT ![u][c] = left]
        received == IF by # u THEN [paid EXCEPT ![by][c] = @ + seized] ELSE paid
        charged == [received EXCEPT ![u][c] = @ - fee]
    IN [charged EXCEPT ![Treasury][c] = @ + fee]

\* The state a liquidation of u by by leaves, paid in hTokens of c, that may cover
\* all of the debt in d.
Liquidated(by, u, c, d) ==
    LET quote == Quote(u, c, d, DebtToLiquidate(u, d, Debt(u, d)))
        emptied == quote.collateral + quote.fee = HBalance(u, c)
        left == RemoveIf(coll, u, c, emptied)
        fresh == HBalance(by, c) = 0
    IN /\ vBal' = BurntVariable(u, d, quote.debt)
       /\ sBal' = BurntStable(u, d, quote.debt)
       /\ hBal' = Seized(by, u, c, quote)
       /\ cash' = [cash EXCEPT ![d] = @ + quote.debt]
       /\ bor' = RemoveIf(bor, u, d, Debt(u, d) = quote.debt)
       /\ coll' = AddIf(left, by, c, fresh /\ CanUseAsCollateral(by, c, left))
       /\ isoDebt' = RepaidIsolatedDebt(u, d, quote.debt, left)
       /\ UNCHANGED <<config, eModes, price, li, vi, emode>>

\* A debt of which each scaled unit can be named is burnt.
LEMMA DebtCanBurn ==
    ASSUME TypeOK, NEW u \in User, NEW d \in Asset, NEW amount \in Nat,
           amount <= Debt(u, d), RayDiv(amount, vi[d]) # 0,
           vBal' = BurntVariable(u, d, amount), sBal' = BurntStable(u, d, amount)
    PROVE  BurnDebt(u, d, amount)
<1>1. /\ vBal[u][d] \in Nat /\ sBal[u][d] \in Nat /\ VariableDebt(u, d) \in Nat
      /\ vi[d] \in Nat /\ vi[d] >= RAY
      /\ vBal \in [User -> [Asset -> Nat]]
  BY BalanceType, IndexType DEF TypeOK
<1>2. CASE amount <= VariableDebt(u, d)
  <2>1. RayDiv(amount, vi[d]) <= vBal[u][d]
    BY <1>1, <1>2, ScaledPart DEF VariableDebt
  <2>2. vBal' = [vBal EXCEPT ![u][d] = @ - RayDiv(amount, vi[d])] /\ UNCHANGED sBal
    BY <1>2, Zenon DEF BurntVariable, BurntStable
  <2>3. VariableDebt(u, d) >= amount
    BY <1>1, <1>2, SMT
  <2> QED
    BY <2>1, <2>2, <2>3, Zenon DEF BurnDebt, BurnVariable
<1>3. CASE ~(amount <= VariableDebt(u, d))
  <2> DEFINE owed == VariableDebt(u, d)
             rest == amount - owed
  <2>1. owed < amount /\ rest \in Nat /\ rest <= sBal[u][d]
    BY <1>1, <1>3, SMT DEF Debt
  <2>2. /\ vBal' = [vBal EXCEPT ![u][d] = @ - vBal[u][d]]
        /\ sBal' = [sBal EXCEPT ![u][d] = @ - rest]
    BY <1>3, Zenon DEF BurntVariable, BurntStable
  <2>3. BurnStable(u, d, rest)
    BY <2>1, <2>2, Zenon DEF BurnStable
  <2>4. IF owed # 0 THEN BurnVariable(u, d, owed) ELSE UNCHANGED vBal
    <3>1. RayDiv(owed, vi[d]) = vBal[u][d] /\ (owed = 0 <=> vBal[u][d] = 0)
      BY WholeVariableDebt
    <3>2. CASE owed # 0
      <4>1. vBal[u][d] <= vBal[u][d] /\ vBal[u][d] # 0
        BY <1>1, <3>1, <3>2, SMT
      <4>2. BurnVariable(u, d, owed)
        BY <2>2, <3>1, <4>1, Zenon DEF BurnVariable
      <4> QED BY <3>2, <4>2
    <3>3. CASE owed = 0
      <4>1. vBal' = vBal
        <5>1. vBal[u][d] - vBal[u][d] = vBal[u][d]
          BY <3>1, <3>3, SMT
        <5> QED BY <1>1, <2>2, <5>1, SMT
      <4> QED BY <3>3, <4>1
    <3> QED BY <3>2, <3>3
  <2> QED
    BY <2>1, <2>3, <2>4, Zenon DEF BurnDebt
<1> QED
  BY <1>2, <1>3

\* What is quoted of a balance can be taken from it.
LEMMA HTokensCanBeSeized ==
    ASSUME TypeOK, NEW by \in User, NEW u \in User, NEW c \in Asset, NEW quote,
           quote.collateral \in Nat, quote.fee \in Nat,
           quote.collateral + quote.fee <= HBalance(u, c), hBal' = Seized(by, u, c, quote)
    PROVE  SeizeHTokens(by, u, c, quote, TRUE)
<1>1. hBal[u][c] \in Nat /\ li[c] \in Nat /\ li[c] >= RAY /\ HBalance(u, c) \in Nat
  BY BalanceType, IndexType DEF Account
<1>2. quote.collateral <= HBalance(u, c)
  BY <1>1, SMT
<1>3. RayDiv(quote.collateral, li[c]) <= hBal[u][c]
  BY <1>1, <1>2, ScaledPart DEF HBalance
<1> QED
  BY <1>3, Zenon DEF SeizeHTokens, Seized

\* An allowed liquidation whose quoted debt is a scaled unit at least goes through.
LEMMA LiquidationGoesThrough ==
    ASSUME TypeOK, SoundInv, NEW by \in User, NEW u \in User, NEW c \in Asset, NEW d \in Asset,
           LiquidationAllowed(u, c, d), cash[d] + Debt(u, d) <= MaxCash,
           RayDiv(Quote(u, c, d, DebtToLiquidate(u, d, Debt(u, d))).debt, vi[d]) # 0,
           Liquidated(by, u, c, d)
    PROVE  Liquidate(by, u, c, d, Debt(u, d), TRUE)
<1> DEFINE repaid == DebtToLiquidate(u, d, Debt(u, d))
           quote == Quote(u, c, d, repaid)
<1>1. c \in Backing(u) /\ Debt(u, d) \in Nat /\ repaid \in Nat
  <2>1. Debt(u, d) \in Nat
    BY BalanceType
  <2> QED BY <2>1, RepaidDebtType DEF LiquidationAllowed
<1>2. /\ quote.collateral \in Nat /\ quote.debt \in Nat /\ quote.fee \in Nat
      /\ quote.collateral + quote.fee <= HBalance(u, c)
  <2> HIDE DEF repaid
  <2> QED BY <1>1, QuoteType
<1>3. quote.debt <= Debt(u, d)
  <2>1. quote.debt <= repaid
    BY FairQuotes DEF QuoteIsFair
  <2>2. repaid <= Debt(u, d)
    <3> DEFINE part == IF ~HealthBelow(u, CloseFactorHealth + 1) THEN CloseFactor
                       ELSE PERCENTAGE_FACTOR
    <3>1. repaid = Lesser(Debt(u, d), PercentMul(Debt(u, d), part))
      BY Zenon DEF DebtToLiquidate
    <3>2. part \in Nat
      BY HalfFactor, SMT DEF CloseFactor
    <3>3. PercentMul(Debt(u, d), part) \in Nat
      BY <1>1, <3>2, PercentMulType
    <3> HIDE DEF part, repaid
    <3> QED BY <1>1, <3>1, <3>3, SMT DEF Lesser
  <2> HIDE DEF quote, repaid
  <2> QED BY <1>1, <1>2, <2>1, <2>2, SMT
<1> HIDE DEF quote, repaid
<1>4. RayDiv(quote.debt, vi[d]) # 0
  BY DEF quote, repaid
<1>5. /\ vBal' = BurntVariable(u, d, quote.debt) /\ sBal' = BurntStable(u, d, quote.debt)
      /\ hBal' = Seized(by, u, c, quote)
      /\ cash' = [cash EXCEPT ![d] = @ + quote.debt]
  BY Zenon DEF Liquidated, quote, repaid
<1>6. BurnDebt(u, d, quote.debt) /\ SeizeHTokens(by, u, c, quote, TRUE)
  BY <1>2, <1>3, <1>4, <1>5, DebtCanBurn, HTokensCanBeSeized
<1>7. cash'[d] <= MaxCash
  <2>1. cash \in [Asset -> Nat] /\ MaxCash \in Nat
    BY PoolAssumption DEF TypeOK
  <2>2. cash'[d] = cash[d] + quote.debt /\ cash[d] \in Nat
    BY <1>5, <2>1, SMT
  <2> QED BY <1>1, <1>2, <1>3, <2>1, <2>2, SMT
<1> DEFINE left == RemoveIf(coll, u, c, quote.collateral + quote.fee = HBalance(u, c))
<1>8. /\ bor' = RemoveIf(bor, u, d, Debt(u, d) = quote.debt)
      /\ isoDebt' = RepaidIsolatedDebt(u, d, quote.debt, left)
      /\ coll' = AddIf(left, by, c, HBalance(by, c) = 0 /\ CanUseAsCollateral(by, c, left))
      /\ UNCHANGED <<config, eModes, price, li, vi, emode>>
  BY Zenon DEF Liquidated, quote, repaid
<1> HIDE DEF left
<1>9. /\ coll' = AddIf(left, by, c, (TRUE /\ HBalance(by, c) = 0) /\ CanUseAsCollateral(by, c, left))
  BY <1>8, Zenon
<1> QED
  BY <1>5, <1>6, <1>7, <1>8, <1>9, Zenon DEF Liquidate, quote, repaid, left

\* The state after u repaid all his debt in d, in a mode.
Repaid(u, a, mode) ==
    LET owed == IF mode = "stable" THEN sBal[u][a] ELSE VariableDebt(u, a)
    IN /\ vBal' = IF mode = "stable" THEN vBal ELSE [vBal EXCEPT ![u][a] = 0]
       /\ sBal' = IF mode = "stable" THEN [sBal EXCEPT ![u][a] = 0] ELSE sBal
       /\ bor' = RemoveIf(bor, u, a, Debt(u, a) = owed)
       /\ isoDebt' = RepaidIsolatedDebt(u, a, owed, coll)
       /\ cash' = [cash EXCEPT ![a] = @ + owed]
       /\ UNCHANGED <<hBal, config, eModes, price, li, vi, coll, emode>>

\* The state after u withdrew all he has in a.
Withdrawn(u, a) ==
    /\ hBal' = [hBal EXCEPT ![u][a] = 0]
    /\ cash' = [cash EXCEPT ![a] = @ - HBalance(u, a)]
    /\ coll' = [coll EXCEPT ![u] = @ \ {a}]
    /\ UNCHANGED <<config, eModes, price, vBal, sBal, li, vi, bor, emode, isoDebt>>

\* Taking all of a number away leaves none.
LEMMA NoneLeft == \A n \in Nat : n - n = 0 /\ n <= n
OBVIOUS

-----------------------------------------------------------------------------
(* Who makes a reserve grow.                                               *)

\* A burn lowers the debt of u in a, and changes no other.
LEMMA BurnVariableLowers ==
    ASSUME TypeOK, NEW u \in User, NEW a \in Asset, NEW n \in Nat, BurnVariable(u, a, n),
           NEW v \in User, NEW b \in Asset
    PROVE  /\ vBal'[v][b] \in Nat /\ vBal'[v][b] <= vBal[v][b]
           /\ v = u /\ b = a => vBal'[v][b] < vBal[v][b]
           /\ v # u \/ b # a => vBal'[v][b] = vBal[v][b]
<1> DEFINE scaled == RayDiv(n, vi[a])
<1>1. scaled \in Nat /\ vBal[v][b] \in Nat
  BY BalanceType, IndexType, RayDivType
<1>2. /\ scaled # 0 /\ scaled <= vBal[u][a]
      /\ vBal' = [vBal EXCEPT ![u][a] = @ - scaled]
  BY DEF BurnVariable
<1> HIDE DEF scaled
<1>3. vBal'[v][b] = IF v = u /\ b = a THEN vBal[v][b] - scaled ELSE vBal[v][b]
  BY <1>2 DEF TypeOK
<1> QED
  BY <1>1, <1>2, <1>3, SMT

\* So does a burn of stable debt.
LEMMA BurnStableLowers ==
    ASSUME TypeOK, NEW u \in User, NEW a \in Asset, NEW n \in Nat, BurnStable(u, a, n),
           NEW v \in User, NEW b \in Asset
    PROVE  /\ sBal'[v][b] \in Nat /\ sBal'[v][b] <= sBal[v][b]
           /\ v # u \/ b # a => sBal'[v][b] = sBal[v][b]
<1>1. sBal[v][b] \in Nat
  BY BalanceType
<1>2. n <= sBal[u][a] /\ sBal' = [sBal EXCEPT ![u][a] = @ - n]
  BY DEF BurnStable
<1>3. sBal'[v][b] = IF v = u /\ b = a THEN sBal[v][b] - n ELSE sBal[v][b]
  BY <1>2 DEF TypeOK
<1> QED
  BY <1>1, <1>2, <1>3, SMT

\* The debts of nobody but the liquidated account change, and his fall.
LEMMA LiquidationBurns ==
    ASSUME IInv, NEW liquidator \in User, NEW u \in User, NEW c \in Asset, NEW d \in Asset,
           NEW n \in Nat, NEW receiveHToken \in BOOLEAN,
           Liquidate(liquidator, u, c, d, n, receiveHToken), NEW v \in User, NEW b \in Asset
    PROVE  /\ vBal'[v][b] \in Nat /\ sBal'[v][b] \in Nat
           /\ vBal'[v][b] <= vBal[v][b] /\ sBal'[v][b] <= sBal[v][b]
           /\ v # u => vBal'[v][b] = vBal[v][b] /\ sBal'[v][b] = sBal[v][b]
<1> DEFINE quote == Quote(u, c, d, DebtToLiquidate(u, d, n))
<1>1. TypeOK /\ quote.debt \in Nat
  BY RepaidDebtType, QuoteType DEF IInv, Liquidate, LiquidationAllowed, Backing
<1>2. BurnDebt(u, d, quote.debt)
  BY DEF Liquidate
<1> HIDE DEF quote
<1>3. /\ vBal[v][b] \in Nat /\ sBal[v][b] \in Nat /\ VariableDebt(u, d) \in Nat
  BY <1>1, BalanceType
<1>4. CASE BurnVariable(u, d, quote.debt) /\ UNCHANGED sBal
  BY <1>1, <1>3, <1>4, BurnVariableLowers, SMT
<1>5. CASE /\ VariableDebt(u, d) < quote.debt
           /\ BurnVariable(u, d, VariableDebt(u, d)) \/ UNCHANGED vBal
           /\ BurnStable(u, d, quote.debt - VariableDebt(u, d))
  <2>1. quote.debt - VariableDebt(u, d) \in Nat
    BY <1>1, <1>3, <1>5, SMT
  <2>2. /\ sBal'[v][b] \in Nat /\ sBal'[v][b] <= sBal[v][b]
        /\ v # u => sBal'[v][b] = sBal[v][b]
    BY <1>1, <1>5, <2>1, BurnStableLowers
  <2>3. /\ vBal'[v][b] \in Nat /\ vBal'[v][b] <= vBal[v][b]
        /\ v # u => vBal'[v][b] = vBal[v][b]
    <3>1. CASE BurnVariable(u, d, VariableDebt(u, d))
      BY <1>1, <1>3, <3>1, BurnVariableLowers
    <3>2. CASE UNCHANGED vBal
      BY <1>3, <3>2, SMT
    <3> QED
      BY <1>5, <3>1, <3>2
  <2> QED
    BY <2>2, <2>3
<1> QED
  BY <1>2, <1>4, <1>5 DEF BurnDebt

\* Only a supply makes the claims on a reserve grow, and it needs the reserve
\* usable and not frozen.
LEMMA ClaimsGrow ==
    ASSUME IInv, Next, NEW b \in Asset
    PROVE  \/ ScaledSupply(b)' <= ScaledSupply(b)
           \/ Usable(b) /\ ~config[b].frozen
<1>1. TypeOK /\ SoundInv /\ ScaledSupply(b) \in Nat
  BY TotalsType DEF IInv
<1>2. \A n \in Nat : RayDiv(n, li[b]) \in Nat
  BY <1>1, IndexType, RayDivType
<1>3. ASSUME hBal' = hBal PROVE ScaledSupply(b)' <= ScaledSupply(b)
  BY <1>1, <1>3 DEF ScaledSupply
<1>4. ASSUME NEW n \in Nat, NEW cond,
             ScaledSupply(b)' = ScaledSupply(b) - (IF cond THEN RayDiv(n, li[b]) ELSE 0)
      PROVE  ScaledSupply(b)' <= ScaledSupply(b)
  <2> DEFINE scaled == RayDiv(n, li[b])
  <2>1. scaled \in Nat
    BY <1>2
  <2> HIDE DEF scaled
  <2>2. ScaledSupply(b)' = ScaledSupply(b) - (IF cond THEN scaled ELSE 0)
    BY <1>4 DEF scaled
  <2> QED
    BY <1>1, <2>1, <2>2
<1>5. ASSUME NEW u \in User, NEW a \in Asset, NEW n \in Nat, Supply(u, a, n)
      PROVE  \/ ScaledSupply(b)' <= ScaledSupply(b)
             \/ Usable(b) /\ ~config[b].frozen
  <2>1. CASE a = b
    BY <1>5, <2>1 DEF Supply
  <2>2. CASE a # b
    <3>1. ScaledSupply(b)' = ScaledSupply(b) + 0
      BY <1>1, <1>5, <2>2, SupplyTotal
    <3> QED
      BY <1>1, <3>1
  <2> QED
    BY <2>1, <2>2
<1>6. ASSUME NEW u \in User, NEW a \in Asset, NEW n \in Nat, Withdraw(u, a, n)
      PROVE  ScaledSupply(b)' <= ScaledSupply(b)
  <2>1. ScaledSupply(b)' = ScaledSupply(b) - (IF b = a THEN RayDiv(n, li[a]) ELSE 0)
    BY <1>1, <1>6, SupplyTotal
  <2>2. ScaledSupply(b)' = ScaledSupply(b) - (IF b = a THEN RayDiv(n, li[b]) ELSE 0)
    BY <2>1
  <2> QED
    BY <1>4, <2>2
<1>7. ASSUME NEW u \in User, NEW to \in User, NEW a \in Asset, NEW n \in Nat,
             Transfer(u, to, a, n)
      PROVE  ScaledSupply(b)' <= ScaledSupply(b)
  <2>1. ScaledSupply(b)' = ScaledSupply(b)
    BY <1>1, <1>7, TransferTotal
  <2> QED
    BY <1>1, <2>1
<1>8. ASSUME NEW u \in User, NEW a \in Asset, NEW n \in Nat, NEW mode \in RateMode,
             NEW useHTokens \in BOOLEAN, Repay(u, a, n, mode, useHTokens)
      PROVE  ScaledSupply(b)' <= ScaledSupply(b)
  <2> DEFINE amount == Lesser(n, IF mode = "stable" THEN sBal[u][a] ELSE VariableDebt(u, a))
  <2>1. Payment(u, a, amount, useHTokens) /\ amount \in Nat
    BY <1>1, <1>8, OwedType DEF Repay
  <2> HIDE DEF amount
  <2>2. \/ ScaledSupply(b)' = ScaledSupply(b) - (IF b = a THEN RayDiv(amount, li[a]) ELSE 0)
        \/ ScaledSupply(b)' = ScaledSupply(b)
    BY <1>1, <2>1, PaymentTotal
  <2>3. \/ ScaledSupply(b)' = ScaledSupply(b) - (IF b = a THEN RayDiv(amount, li[b]) ELSE 0)
        \/ ScaledSupply(b)' = ScaledSupply(b)
    BY <2>2
  <2> QED
    BY <1>1, <1>4, <2>1, <2>3
<1>9. ASSUME NEW liquidator \in User, NEW u \in User, NEW c \in Asset, NEW d \in Asset,
             NEW n \in Nat, NEW receiveHToken \in BOOLEAN,
             Liquidate(liquidator, u, c, d, n, receiveHToken)
      PROVE  ScaledSupply(b)' <= ScaledSupply(b)
  <2> DEFINE quote == Quote(u, c, d, DebtToLiquidate(u, d, n))
  <2>1. /\ quote.collateral \in Nat /\ quote.fee \in Nat
        /\ SeizeHTokens(liquidator, u, c, quote, receiveHToken)
    BY <1>1, <1>9, QuoteType, RepaidDebtType DEF Liquidate, LiquidationAllowed
  <2> HIDE DEF quote
  <2>2. ScaledSupply(b)'
           = ScaledSupply(b) - (IF b = c /\ ~receiveHToken
                                THEN RayDiv(quote.collateral, li[c]) ELSE 0)
    BY <1>1, <2>1, SeizedTotal
  <2>3. ScaledSupply(b)'
           = ScaledSupply(b) - (IF b = c /\ ~receiveHToken
                                THEN RayDiv(quote.collateral, li[b]) ELSE 0)
    BY <2>2
  <2> QED
    BY <1>4, <2>1, <2>3
<1> QED
  BY <1>1, <1>3, <1>5, <1>6, <1>7, <1>8, <1>9, StepCases
     DEF EnableCollateral, DisableCollateral, Borrow, SwapToVariable, SwapToStable,
         SetUserEMode, Accrue, SetPrice

\* What makes a debt of w in b grow: a loan or a swap of his in a reserve that is
\* not frozen, or interest on a stable debt there is.
LEMMA DebtsGrow ==
    ASSUME IInv, Next, NEW w \in User, NEW b \in Asset
    PROVE  \/ vBal'[w][b] <= vBal[w][b] /\ sBal'[w][b] <= sBal[w][b]
           \/ /\ ~config[b].frozen
              /\ \/ SwapToVariable(w, b) \/ SwapToStable(w, b)
                 \/ \E n \in Nat, mode \in RateMode : Borrow(w, b, n, mode)
           \/ /\ Environment
              /\ vBal'[w][b] = vBal[w][b] /\ (sBal[w][b] = 0 => sBal'[w][b] = 0)
<1> DEFINE Less2 == vBal'[w][b] <= vBal[w][b] /\ sBal'[w][b] <= sBal[w][b]
           Outcome ==
              \/ Less2
              \/ /\ ~config[b].frozen
                 /\ \/ SwapToVariable(w, b) \/ SwapToStable(w, b)
                    \/ \E n \in Nat, mode \in RateMode : Borrow(w, b, n, mode)
              \/ /\ Environment
                 /\ vBal'[w][b] = vBal[w][b] /\ (sBal[w][b] = 0 => sBal'[w][b] = 0)
<1>1. /\ TypeOK /\ DebtIsFlagged /\ vBal[w][b] \in Nat /\ sBal[w][b] \in Nat
      /\ vBal \in [User -> [Asset -> Nat]] /\ sBal \in [User -> [Asset -> Nat]]
  BY BalanceType DEF IInv, TypeOK
<1>2. ASSUME UNCHANGED <<vBal, sBal>> PROVE Less2
  BY <1>1, <1>2
<1>3. ASSUME NEW u \in User, NEW a \in Asset, NEW n \in Nat, NEW mode \in RateMode,
             Borrow(u, a, n, mode)
      PROVE  Less2 \/ (~config[b].frozen /\ Borrow(w, b, n, mode))
  <2>1. CASE u = w /\ a = b
    BY <1>3, <2>1 DEF Borrow, BorrowAllowed
  <2>2. CASE u # w \/ a # b
    <3>1. vBal'[w][b] = vBal[w][b] /\ sBal'[w][b] = sBal[w][b]
      BY <1>1, <1>3, <2>2 DEF Borrow, MintDebt
    <3> QED
      BY <1>1, <3>1
  <2> QED
    BY <2>1, <2>2
<1>4. ASSUME NEW u \in User, NEW a \in Asset, NEW n \in Nat, NEW mode \in RateMode,
             NEW useHTokens \in BOOLEAN, Repay(u, a, n, mode, useHTokens)
      PROVE  Less2
  <2> DEFINE amount == Lesser(n, IF mode = "stable" THEN sBal[u][a] ELSE VariableDebt(u, a))
  <2>1. amount \in Nat /\ \/ BurnVariable(u, a, amount) /\ UNCHANGED sBal
                          \/ BurnStable(u, a, amount) /\ UNCHANGED vBal
    BY <1>1, <1>4, OwedType DEF Repay
  <2> HIDE DEF amount
  <2>2. ASSUME BurnVariable(u, a, amount) PROVE vBal'[w][b] <= vBal[w][b]
    BY <1>1, <2>1, <2>2, BurnVariableLowers
  <2>3. ASSUME BurnStable(u, a, amount) PROVE sBal'[w][b] <= sBal[w][b]
    BY <1>1, <2>1, <2>3, BurnStableLowers
  <2> QED
    BY <1>1, <2>1, <2>2, <2>3
<1>5. ASSUME NEW u \in User, NEW a \in Asset, SwapToVariable(u, a)
      PROVE  Less2 \/ (~config[b].frozen /\ SwapToVariable(w, b))
  <2>1. CASE u = w /\ a = b
    BY <1>5, <2>1 DEF SwapToVariable
  <2>2. CASE u # w \/ a # b
    <3>1. vBal'[w][b] = vBal[w][b] /\ sBal'[w][b] = sBal[w][b]
      BY <1>1, <1>5, <2>2 DEF SwapToVariable
    <3> QED
      BY <1>1, <3>1
  <2> QED
    BY <2>1, <2>2
<1>6. ASSUME NEW u \in User, NEW a \in Asset, SwapToStable(u, a)
      PROVE  Less2 \/ (~config[b].frozen /\ SwapToStable(w, b))
  <2>1. CASE u = w /\ a = b
    BY <1>6, <2>1 DEF SwapToStable
  <2>2. CASE u # w \/ a # b
    <3>1. vBal'[w][b] = vBal[w][b] /\ sBal'[w][b] = sBal[w][b]
      BY <1>1, <1>6, <2>2 DEF SwapToStable, BurnVariable
    <3> QED
      BY <1>1, <3>1
  <2> QED
    BY <2>1, <2>2
<1>7. ASSUME NEW liquidator \in User, NEW u \in User, NEW c \in Asset, NEW d \in Asset,
             NEW n \in Nat, NEW receiveHToken \in BOOLEAN,
             Liquidate(liquidator, u, c, d, n, receiveHToken)
      PROVE  Less2
  BY <1>7, LiquidationBurns
<1>8. ASSUME NEW a \in Asset, NEW income \in Growth, NEW variable \in Growth,
             NEW stable \in Growth, Accrue(a, income, variable, stable)
      PROVE  /\ Environment
             /\ vBal'[w][b] = vBal[w][b] /\ (sBal[w][b] = 0 => sBal'[w][b] = 0)
  <2>1. Environment
    BY <1>8 DEF Environment
  <2>2. stable \in Nat /\ RayMul(0, stable) = 0
    BY PoolAssumption, RayMulZero
  <2>3. /\ vBal' = vBal
        /\ sBal' = [v \in User |-> [sBal[v] EXCEPT ![a] = RayMul(@, stable)]]
    BY <1>8 DEF Accrue
  <2>4. sBal'[w][b] = IF b = a THEN RayMul(sBal[w][b], stable) ELSE sBal[w][b]
    BY <1>1, <2>3
  <2> QED
    BY <2>1, <2>2, <2>3, <2>4
<1>9. /\ \A u \in User, a \in Asset, n \in Nat :
            Supply(u, a, n) \/ Withdraw(u, a, n) => Less2
      /\ \A u, to \in User, a \in Asset, n \in Nat : Transfer(u, to, a, n) => Less2
      /\ \A u \in User, a \in Asset :
            EnableCollateral(u, a) \/ DisableCollateral(u, a) => Less2
  <2> HIDE DEF Less2
  <2>1. ASSUME NEW u, NEW a, NEW n, Supply(u, a, n) \/ Withdraw(u, a, n) PROVE Less2
    BY <1>2, <2>1 DEF Supply, Withdraw
  <2>2. ASSUME NEW u, NEW to, NEW a, NEW n, Transfer(u, to, a, n) PROVE Less2
    BY <1>2, <2>2 DEF Transfer
  <2>3. ASSUME NEW u, NEW a, EnableCollateral(u, a) \/ DisableCollateral(u, a) PROVE Less2
    BY <1>2, <2>3 DEF EnableCollateral, DisableCollateral
  <2> QED
    BY <2>1, <2>2, <2>3
<1>10. ASSUME NEW u, NEW category, SetUserEMode(u, category) PROVE Less2
  BY <1>2, <1>10 DEF SetUserEMode
<1>11. ASSUME NEW source, NEW p, SetPrice(source, p) PROVE Less2
  BY <1>2, <1>11 DEF SetPrice
<1>12. /\ \A u \in User, a \in Asset, n \in Nat, mode \in RateMode :
             Borrow(u, a, n, mode) => Outcome
       /\ \A u \in User, a \in Asset, n \in Nat, mode \in RateMode, useHTokens \in BOOLEAN :
             Repay(u, a, n, mode, useHTokens) => Outcome
       /\ \A u \in User, a \in Asset : SwapToVariable(u, a) \/ SwapToStable(u, a) => Outcome
       /\ \A a \in Asset, income, variable, stable \in Growth :
             Accrue(a, income, variable, stable) => Outcome
  <2> HIDE DEF Less2
  <2> QED
    BY <1>3, <1>4, <1>5, <1>6, <1>8
<1>13. /\ \A u \in User, a \in Asset, n \in Nat :
             Supply(u, a, n) \/ Withdraw(u, a, n) => Outcome
       /\ \A u, to \in User, a \in Asset, n \in Nat : Transfer(u, to, a, n) => Outcome
       /\ \A u \in User, a \in Asset :
             EnableCollateral(u, a) \/ DisableCollateral(u, a) => Outcome
  <2> HIDE DEF Less2
  <2>1. Less2 => Outcome
    BY DEF Outcome
  <2> QED
    BY <1>9, <2>1
<1>14. ASSUME NEW liquidator \in User, NEW u \in User, NEW c \in Asset, NEW d \in Asset,
              NEW n \in Nat, NEW receiveHToken \in BOOLEAN,
              Liquidate(liquidator, u, c, d, n, receiveHToken)
       PROVE  Outcome
  BY <1>7, <1>14
<1>15. ASSUME NEW u, NEW category, SetUserEMode(u, category) PROVE Outcome
  BY <1>10, <1>15
<1>16. ASSUME NEW source, NEW p, SetPrice(source, p) PROVE Outcome
  BY <1>11, <1>16
<1>17. TypeOK
  BY <1>1
<1> HIDE DEF Less2, Outcome
<1>18. Outcome
  BY <1>12, <1>13, <1>14, <1>15, <1>16, <1>17, StepCases
<1> QED
  BY <1>18 DEF Outcome, Less2

-----------------------------------------------------------------------------
(* The account data: totals over the reserves, an average that brackets    *)
(* what the collateral weighs, and a health factor that says the debts are *)
(* covered.                                                                *)

\* Account data as totals over all reserves: what each is worth as collateral, what
\* that weighs in the average threshold, and what its debt is worth.
Backs(u) == [a \in Asset |-> IF a \in Backing(u) THEN CollateralValue(u, a) ELSE 0]
Weighs(u) ==
    [a \in Asset |->
        IF a \in Backing(u) THEN CollateralValue(u, a) * Threshold(u, a) ELSE 0]
Owes(u) == [a \in Asset |-> IF a \in bor[u] THEN DebtValue(u, a) ELSE 0]

\* What backs the debts, as the health factor counts it.
Backed(u) == PercentMul(TotalCollateral(u), Average(u, Threshold))

\* The health factor is at least one, but for its rounding.
Covers(cover, debt) == WAD * debt <= WAD * cover + (debt \div 2)

\* A quotient by WadDiv is at least one exactly where the dividend covers the divisor.
LEMMA WadDivCovers ==
    \A n \in Nat, d \in Nat \ {0} :
        WadDiv(n, d) \in Nat /\ (WadDiv(n, d) >= WAD <=> Covers(n, d))
<1> SUFFICES ASSUME NEW n \in Nat, NEW d \in Nat \ {0}
             PROVE  WadDiv(n, d) \in Nat /\ (WadDiv(n, d) >= WAD <=> Covers(n, d))
  OBVIOUS
<1> DEFINE m == n * WAD + (d \div 2)
           q == m \div d
<1>1. WAD \in Nat /\ m \in Nat /\ d \div 2 \in Nat
  BY ScaleAssumption, ProductType, SMT
<1>2. /\ m = WAD * n + (d \div 2) /\ WAD * n \in Nat
      /\ WAD * d = d * WAD /\ d * WAD \in Nat /\ d * WAD + d = d * (WAD + 1)
  BY <1>1, SMT
<1>3. Covers(n, d) <=> d * WAD <= m
  BY <1>2 DEF Covers
<1> HIDE DEF m
<1>4. q \in Nat
  BY <1>1, DivType
<1>5. d * WAD <= m => WAD <= q
  BY <1>1, DivAtLeast
<1>6. d * q <= m
  BY <1>1, DivBrackets
<1> HIDE DEF q
<1>7. WAD <= q => d * WAD <= d * q
  BY <1>1, <1>4, ProductMonotone
<1>8. d * q \in Nat
  BY <1>4, ProductType
<1>9. WAD <= q => d * WAD <= m
  BY <1>1, <1>2, <1>6, <1>7, <1>8, SMT
<1>10. q = WadDiv(n, d)
  BY DEF q, m, WadDiv
<1> QED
  BY <1>1, <1>3, <1>4, <1>5, <1>9, <1>10, SMT

\* The account data of a user: numbers, the totals above, and an average that
\* brackets what the collateral weighs.
DataSound(u) ==
    /\ \A a \in Asset : /\ CollateralValue(u, a) \in Nat /\ Threshold(u, a) \in Nat
                       /\ DebtValue(u, a) \in Nat /\ AssetPrice(u, a) \in Nat \ {0}
    /\ Backs(u) \in [Asset -> Nat] /\ Weighs(u) \in [Asset -> Nat]
    /\ Owes(u) \in [Asset -> Nat]
    /\ TotalCollateral(u) = SumFunction(Backs(u))
    /\ TotalDebtValue(u) = SumFunction(Owes(u))
    /\ TotalCollateral(u) \in Nat /\ TotalDebtValue(u) \in Nat
    /\ SumFunction(Weighs(u)) \in Nat /\ Average(u, Threshold) \in Nat
    /\ Average(u, Threshold)
          = IF TotalCollateral(u) = 0 THEN 0 ELSE SumFunction(Weighs(u)) \div TotalCollateral(u)
    /\ TotalCollateral(u) * Average(u, Threshold) <= SumFunction(Weighs(u))
    /\ SumFunction(Weighs(u)) <= TotalCollateral(u) * (Average(u, Threshold) + 1)

\* The account data is sound in every state of the right type.
LEMMA AccountData ==
    ASSUME NEW u \in User PROVE TypeOK => DataSound(u)
<1> SUFFICES ASSUME TypeOK PROVE DataSound(u)
  OBVIOUS
<1> DEFINE value == [a \in Asset |-> CollateralValue(u, a)]
           weighed == [a \in Asset |-> CollateralValue(u, a) * Threshold(u, a)]
           owed == [a \in Asset |-> DebtValue(u, a)]
           W == SumFunction(Weighs(u))
<1>1. ASSUME NEW a \in Asset
      PROVE  /\ CollateralValue(u, a) \in Nat /\ Threshold(u, a) \in Nat
             /\ DebtValue(u, a) \in Nat /\ AssetPrice(u, a) \in Nat \ {0}
  <2>1. HBalance(u, a) \in Nat /\ Debt(u, a) \in Nat
    BY <1>1, BalanceType
  <2>2. config[a].unit \in Nat \ {0} /\ config[a].lt \in Nat
    BY <1>1, SMT DEF TypeOK, AssetConfig
  <2>3. AssetPrice(u, a) \in Nat \ {0}
    BY <1>1, PriceType DEF CollateralPrice
  <2>4. Threshold(u, a) \in Nat
    <3>1. emode[u] # NoCategory => eModes[emode[u]].lt \in Nat
      BY SMT DEF TypeOK, EModeConfig
    <3> QED BY <2>2, <3>1 DEF Threshold, InEMode
  <2>5. HBalance(u, a) * AssetPrice(u, a) \in Nat /\ Debt(u, a) * AssetPrice(u, a) \in Nat
    BY <2>1, <2>3, ProductType
  <2> QED
    BY <2>2, <2>3, <2>4, <2>5, DivType DEF CollateralValue, DebtValue
<1>2. \A a \in Asset : /\ value[a] \in Nat /\ weighed[a] \in Nat /\ owed[a] \in Nat
  BY <1>1, ProductType
<1>3. Backing(u) \subseteq Asset /\ bor[u] \subseteq Asset /\ IsFiniteSet(Asset)
  BY AccountAssumption DEF TypeOK, Backing
<1>4. /\ Backs(u) = [a \in Asset |-> IF a \in Backing(u) THEN value[a] ELSE 0]
      /\ Weighs(u) = [a \in Asset |-> IF a \in Backing(u) THEN weighed[a] ELSE 0]
      /\ Owes(u) = [a \in Asset |-> IF a \in bor[u] THEN owed[a] ELSE 0]
  BY DEF Backs, Weighs, Owes
<1>5. /\ Backs(u) \in [Asset -> Nat] /\ Weighs(u) \in [Asset -> Nat]
      /\ Owes(u) \in [Asset -> Nat]
  <2> HIDE DEF value, weighed, owed
  <2> QED BY <1>2, <1>4
<1>6. /\ TotalCollateral(u) = SumFunction(Backs(u))
      /\ TotalDebtValue(u) = SumFunction(Owes(u))
      /\ SumFunctionOnSet(weighed, Backing(u)) = W
  <2>1. TotalCollateral(u) = SumFunctionOnSet(value, Backing(u))
    BY DEF TotalCollateral
  <2>2. TotalDebtValue(u) = SumFunctionOnSet(owed, bor[u])
    BY DEF TotalDebtValue
  <2>3. \A a \in Asset : value[a] \in Int /\ weighed[a] \in Int /\ owed[a] \in Int
    BY <1>2
  <2> HIDE DEF value, weighed, owed
  <2>4. SumFunctionOnSet(value, Backing(u)) = SumFunction(Backs(u))
    BY <1>3, <1>4, <2>3, SumOfPart
  <2>5. SumFunctionOnSet(weighed, Backing(u)) = SumFunction(Weighs(u))
    BY <1>3, <1>4, <2>3, SumOfPart
  <2>6. SumFunctionOnSet(owed, bor[u]) = SumFunction(Owes(u))
    BY <1>3, <1>4, <2>3, SumOfPart
  <2> QED BY <2>1, <2>2, <2>4, <2>5, <2>6
<1>7. /\ SumFunction(Backs(u)) \in Nat /\ W \in Nat /\ SumFunction(Owes(u)) \in Nat
  BY <1>3, <1>5, TotalType
<1> DEFINE C == TotalCollateral(u)
           A == Average(u, Threshold)
<1>8. A = IF C = 0 THEN 0 ELSE W \div C
  <2>1. A = IF C = 0 THEN 0 ELSE SumFunctionOnSet(weighed, Backing(u)) \div C
    BY DEF Average
  <2> QED BY <1>6, <2>1
<1>9. C = 0 => W = 0
  <2> SUFFICES ASSUME C = 0 PROVE W = 0
    OBVIOUS
  <2>1. ASSUME NEW a \in Asset PROVE Weighs(u)[a] = 0
    <3>1. Backs(u)[a] <= SumFunction(Backs(u))
      BY <1>3, <1>5, TotalBounds
    <3>2. Backs(u)[a] \in Nat
      BY <1>5
    <3>3. Backs(u)[a] = 0
      BY <1>6, <3>1, <3>2, SMT
    <3>4. CASE a \in Backing(u)
      <4>1. CollateralValue(u, a) = 0
        BY <3>3, <3>4 DEF Backs
      <4>2. 0 * Threshold(u, a) = 0
        BY <1>1, SMT
      <4> QED BY <3>4, <4>1, <4>2 DEF Weighs
    <3>5. CASE a \notin Backing(u)
      BY <3>5 DEF Weighs
    <3> QED BY <3>4, <3>5
  <2>2. DOMAIN Weighs(u) = Asset
    BY DEF Weighs
  <2> QED BY <1>3, <2>1, <2>2, SumZero DEF SumFunction
<1> HIDE DEF W, C, A
<1>10. C \in Nat
  BY <1>6, <1>7 DEF C
<1>11. A \in Nat /\ C * A <= W /\ W <= C * (A + 1)
  <2>1. CASE C = 0
    BY <1>7, <1>8, <1>9, <2>1, SMT
  <2>2. CASE C # 0
    <3>1. A \in Nat /\ C * A <= W /\ W < C * A + C
      BY <1>7, <1>8, <1>10, <2>2, DivBrackets
    <3>2. C * (A + 1) = C * A + C /\ C * A \in Nat
      BY <1>10, <3>1, SMT
    <3> QED BY <1>7, <1>10, <3>1, <3>2, SMT
  <2> QED BY <2>1, <2>2
<1> QED
  BY <1>1, <1>5, <1>6, <1>7, <1>8, <1>11 DEF W, C, A, DataSound

\* What backs the debts, and what it is to be healthy.
HealthSound(u) ==
    /\ Backed(u) \in Nat /\ Cover(u) \in Nat /\ Backed(u) <= Cover(u)
    /\ Healthy(u) <=> (TotalDebtValue(u) # 0 => Covers(Backed(u), TotalDebtValue(u)))
    /\ NearlyHealthy(u)
         <=> (TotalDebtValue(u) # 0 => Covers(Cover(u), TotalDebtValue(u)))

\* The health factor says so in every state of the right type.
LEMMA HealthIsCover ==
    ASSUME NEW u \in User PROVE TypeOK => HealthSound(u)
<1> SUFFICES ASSUME TypeOK PROVE HealthSound(u)
  OBVIOUS
<1> DEFINE C == TotalCollateral(u)
           A == Average(u, Threshold)
           D == TotalDebtValue(u)
<1>1. C \in Nat /\ A \in Nat /\ D \in Nat
  BY AccountData DEF DataSound
<1>2. Backed(u) = PercentMul(C, A) /\ Cover(u) = PercentMul(C, A + 1)
  BY DEF Backed, Cover
<1> HIDE DEF C, A
<1>3. Backed(u) \in Nat /\ Cover(u) \in Nat
  BY <1>1, <1>2, PercentMulType
<1>4. Backed(u) <= Cover(u)
  <2>1. C * A <= C * (A + 1) /\ C * A \in Nat /\ C * (A + 1) \in Nat
    BY <1>1, SMT
  <2>2. A + 1 \in Nat
    BY <1>1
  <2> QED BY <1>1, <1>2, <2>1, <2>2, PercentMulOrder
<1>5. D # 0 => /\ WadDiv(Backed(u), D) \in Nat /\ WadDiv(Cover(u), D) \in Nat
               /\ WadDiv(Backed(u), D) >= WAD <=> Covers(Backed(u), D)
               /\ WadDiv(Cover(u), D) >= WAD <=> Covers(Cover(u), D)
  BY <1>1, <1>3, WadDivCovers
<1>6. Healthy(u) <=> (D # 0 => ~(WadDiv(Backed(u), D) < WAD))
  BY DEF Healthy, HealthBelow, Backed
<1>7. NearlyHealthy(u) <=> (D # 0 => WadDiv(Cover(u), D) >= WAD)
  BY DEF NearlyHealthy
<1> HIDE DEF D
<1>8. WAD \in Nat
  BY ScaleAssumption
<1>9. D # 0 => (~(WadDiv(Backed(u), D) < WAD) <=> WadDiv(Backed(u), D) >= WAD)
  BY <1>5, <1>8, SMT
<1> QED
  BY <1>3, <1>4, <1>5, <1>6, <1>7, <1>9 DEF D, HealthSound
\* Both before and after a step.
LEMMA DataBothWays ==
    ASSUME NEW u \in User
    PROVE  /\ TypeOK => DataSound(u) /\ HealthSound(u)
           /\ TypeOK' => DataSound(u)' /\ HealthSound(u)'
<1>1. TypeOK => DataSound(u) /\ HealthSound(u)
  BY AccountData, HealthIsCover
<1>2. (TypeOK => DataSound(u) /\ HealthSound(u))'
  BY <1>1, PTL
<1> QED BY <1>1, <1>2

-----------------------------------------------------------------------------
(* Accounts in which nothing is lost stay nearly healthy.                  *)

\* More to cover less debt with is no worse.
LEMMA CoversMore ==
    \A c, e, m, n \in Nat : n <= m /\ c <= e /\ Covers(c, m) => Covers(e, n)
<1> SUFFICES ASSUME NEW c \in Nat, NEW e \in Nat, NEW m \in Nat, NEW n \in Nat,
                    n <= m, c <= e, Covers(c, m)
             PROVE  Covers(e, n)
  OBVIOUS
<1> DEFINE k == m - n
<1>1. WAD \in Nat /\ WAD >= 1 /\ k \in Nat /\ m = n + k
  BY ScaleAssumption, SMT
<1>2. WAD * m = WAD * n + WAD * k /\ WAD * n \in Nat /\ WAD * k \in Nat /\ WAD * k >= k
  BY <1>1, SMT
<1>3. WAD * c <= WAD * e /\ WAD * c \in Nat /\ WAD * e \in Nat
  BY <1>1, SMT
<1>4. m \div 2 <= (n \div 2) + k
  BY <1>1, SMT
<1> HIDE DEF k
<1> QED
  BY <1>1, <1>2, <1>3, <1>4, SMT DEF Covers

\* An account whose debts have not grown, in worth, and whose collateral has not
\* shrunk is nearly healthy if it was healthy, and healthy if its collateral is the
\* same.
LEMMA HealthFollows ==
    ASSUME TypeOK, TypeOK', NEW u \in User, Healthy(u),
           \A a \in Asset : Owes(u)'[a] <= Owes(u)[a],
           \A a \in Asset : Backs(u)'[a] >= Backs(u)[a] /\ Weighs(u)'[a] >= Weighs(u)[a]
    PROVE  /\ NearlyHealthy(u)'
           /\ (\A a \in Asset : Backs(u)'[a] = Backs(u)[a] /\ Weighs(u)'[a] = Weighs(u)[a])
              => Healthy(u)'
<1> DEFINE D == TotalDebtValue(u)
           C == TotalCollateral(u)
           A == Average(u, Threshold)
           W == SumFunction(Weighs(u))
           DN == TotalDebtValue(u)'
           CN == TotalCollateral(u)'
           AN == Average(u, Threshold)'
           WN == SumFunction(Weighs(u))'
<1>1. /\ Backs(u) \in [Asset -> Nat] /\ Weighs(u) \in [Asset -> Nat]
      /\ Owes(u) \in [Asset -> Nat]
      /\ C = SumFunction(Backs(u)) /\ D = SumFunction(Owes(u))
      /\ C \in Nat /\ D \in Nat /\ A \in Nat /\ W \in Nat
      /\ C * A <= W /\ W <= C * (A + 1)
  BY DataBothWays DEF DataSound
<1>2. /\ Backs(u)' \in [Asset -> Nat] /\ Weighs(u)' \in [Asset -> Nat]
      /\ Owes(u)' \in [Asset -> Nat]
      /\ CN = SumFunction(Backs(u)') /\ DN = SumFunction(Owes(u)')
      /\ CN \in Nat /\ DN \in Nat /\ AN \in Nat /\ WN \in Nat
      /\ CN * AN <= WN /\ WN <= CN * (AN + 1)
  <2>1. DataSound(u)'
    BY DataBothWays
  <2> QED BY <2>1 DEF DataSound
<1>3. /\ Backed(u) = PercentMul(C, A) /\ Cover(u)' = PercentMul(CN, AN + 1)
      /\ Backed(u)' = PercentMul(CN, AN)
  BY DEF Backed, Cover
<1>4. /\ Backed(u) \in Nat /\ Cover(u)' \in Nat /\ Backed(u)' \in Nat
      /\ D # 0 => Covers(Backed(u), D)
      /\ Healthy(u)' <=> (DN # 0 => Covers(Backed(u)', DN))
      /\ NearlyHealthy(u)' <=> (DN # 0 => Covers(Cover(u)', DN))
  <2>1. HealthSound(u) /\ HealthSound(u)'
    BY DataBothWays
  <2> QED BY <2>1 DEF HealthSound
<1>5. DN <= D
  <2>1. DOMAIN Owes(u) = Asset /\ DOMAIN Owes(u)' = Asset /\ IsFiniteSet(Asset)
    BY AccountAssumption DEF Owes
  <2>2. Owes(u) \in [Asset -> Int] /\ Owes(u)' \in [Asset -> Int]
    BY <1>1, <1>2
  <2> QED BY <1>1, <1>2, <2>1, <2>2, TotalMonotone
<1>6. W <= WN
  <2>1. IsFiniteSet(Asset) /\ WN = SumFunction(Weighs(u)')
    BY AccountAssumption
  <2>2. /\ Weighs(u) \in [Asset -> Int] /\ Weighs(u)' \in [Asset -> Int]
        /\ \A a \in Asset : Weighs(u)[a] <= Weighs(u)'[a]
    BY <1>1, <1>2
  <2>3. SumFunction(Weighs(u)) <= SumFunction(Weighs(u)')
    BY <2>1, <2>2, TotalMonotone
  <2> QED BY <2>1, <2>3
<1>7. Backed(u) <= Cover(u)'
  <2>1. C * A <= CN * (AN + 1)
    <3>1. C * A \in Nat /\ CN * (AN + 1) \in Nat
      BY <1>1, <1>2, SMT
    <3> HIDE DEF C, A, W, CN, AN, WN
    <3> QED BY <1>1, <1>2, <1>6, <3>1, SMT
  <2>2. AN + 1 \in Nat
    BY <1>2
  <2> QED BY <1>1, <1>2, <1>3, <2>1, <2>2, PercentMulOrder
<1>8. ASSUME NEW x \in Nat, Backed(u) <= x
      PROVE  DN # 0 => Covers(x, DN)
  <2>1. DN # 0 => D # 0
    BY <1>1, <1>2, <1>5, SMT
  <2> QED BY <1>1, <1>2, <1>4, <1>5, <1>8, <2>1, CoversMore
<1>9. ASSUME \A a \in Asset : Backs(u)'[a] = Backs(u)[a] /\ Weighs(u)'[a] = Weighs(u)[a]
      PROVE  Backed(u)' = Backed(u)
  <2>1. Backs(u)' = Backs(u) /\ Weighs(u)' = Weighs(u)
    BY <1>1, <1>2, <1>9
  <2>2. CN = C
    BY <1>1, <1>2, <2>1
  <2>3. AN = A
    <3>1. A = IF C = 0 THEN 0 ELSE W \div C
      BY DataBothWays DEF DataSound
    <3>2. AN = IF CN = 0 THEN 0 ELSE WN \div CN
      <4>1. DataSound(u)'
        BY DataBothWays
      <4> QED BY <4>1 DEF DataSound
    <3>3. WN = W
      BY <2>1
    <3> QED BY <2>2, <3>1, <3>2, <3>3
  <2> QED BY <1>3, <2>2, <2>3
<1> QED
  BY <1>4, <1>7, <1>8, <1>9

\* An account in which nothing is lost: collateral only grows, debts only shrink,
\* and neither the configuration nor prices nor its category change.
Gains(u) ==
    /\ UNCHANGED <<config, eModes, price, li>>
    /\ emode'[u] = emode[u]
    /\ coll[u] \subseteq coll'[u] /\ \A a \in coll[u] : hBal'[u][a] >= hBal[u][a]
    /\ bor'[u] \subseteq bor[u] /\ \A a \in Asset : Debt(u, a)' <= Debt(u, a)

\* Balances are naturals after a step as well.
LEMMA NextBalances ==
    ASSUME NEW u \in User, NEW a \in Asset
    PROVE  TypeOK' => /\ hBal'[u][a] \in Nat /\ Debt(u, a)' \in Nat
                      /\ HBalance(u, a)' \in Nat
<1>1. TypeOK => hBal[u][a] \in Nat /\ Debt(u, a) \in Nat /\ HBalance(u, a) \in Nat
  BY BalanceType DEF Account
<1>2. (TypeOK => hBal[u][a] \in Nat /\ Debt(u, a) \in Nat /\ HBalance(u, a) \in Nat)'
  BY <1>1, PTL
<1> QED BY <1>2

\* Such an account stays healthy, or nearly if it was given collateral.
LEMMA GainKeepsHealth ==
    ASSUME TypeOK, TypeOK', NEW u \in User, Gains(u)
    PROVE  StaysHealthy(u)
<1> SUFFICES ASSUME Healthy(u)
             PROVE  \/ Healthy(u)'
                    \/ /\ \E a \in coll'[u] : a \notin coll[u] \/ hBal'[u][a] > hBal[u][a]
                       /\ NearlyHealthy(u)'
  BY DEF StaysHealthy
<1>1. \A a \in Asset :
         /\ config'[a] = config[a] /\ li'[a] = li[a]
         /\ AssetPrice(u, a)' = AssetPrice(u, a) /\ Threshold(u, a)' = Threshold(u, a)
         /\ InEMode(u, a)' = InEMode(u, a)
  BY DEF Gains, AssetPrice, Threshold, InEMode, CategoryPriced
<1>2. ASSUME NEW a \in Asset
      PROVE  /\ hBal[u][a] \in Nat /\ hBal'[u][a] \in Nat /\ Debt(u, a) \in Nat
             /\ Debt(u, a)' \in Nat /\ li[a] \in Nat /\ config[a].unit \in Nat \ {0}
             /\ AssetPrice(u, a) \in Nat /\ Threshold(u, a) \in Nat
             /\ HBalance(u, a) \in Nat
  <2>1. hBal'[u][a] \in Nat /\ Debt(u, a)' \in Nat
    BY NextBalances
  <2>2. AssetPrice(u, a) \in Nat /\ Threshold(u, a) \in Nat
    BY DataBothWays DEF DataSound
  <2>3. config[a].unit \in Nat \ {0}
    BY SMT DEF TypeOK, AssetConfig
  <2> QED BY <2>1, <2>2, <2>3, BalanceType, IndexType DEF Account
<1>3. ASSUME NEW a \in Asset PROVE Owes(u)'[a] <= Owes(u)[a]
  <2>1. DebtValue(u, a)' <= DebtValue(u, a) /\ DebtValue(u, a) \in Nat
    <3>1. Debt(u, a)' <= Debt(u, a)
      BY DEF Gains
    <3>2. DebtValue(u, a)' = (Debt(u, a)' * AssetPrice(u, a)) \div config[a].unit
      BY <1>1 DEF DebtValue
    <3> QED BY <1>2, <3>1, <3>2, WorthOrder DEF DebtValue
  <2>2. Owes(u)[a] = IF a \in bor[u] THEN DebtValue(u, a) ELSE 0
    BY DEF Owes
  <2>3. Owes(u)'[a] = IF a \in bor'[u] THEN DebtValue(u, a)' ELSE 0
    BY DEF Owes
  <2>4. a \in bor'[u] => a \in bor[u]
    BY DEF Gains
  <2>5. DebtValue(u, a)' \in Nat
    <3>1. DataSound(u)'
      BY DataBothWays
    <3> QED BY <3>1 DEF DataSound
  <2> QED BY <2>1, <2>2, <2>3, <2>4, <2>5, SMT
<1>4. \A a \in Asset : a \in Backing(u)' <=> a \in coll'[u] /\ config[a].lt # 0
  BY <1>1 DEF Backing
<1>5. ASSUME NEW a \in Asset
      PROVE  /\ CollateralValue(u, a)'
                  = (RayMul(hBal'[u][a], li[a]) * AssetPrice(u, a)) \div config[a].unit
             /\ CollateralValue(u, a)
                  = (RayMul(hBal[u][a], li[a]) * AssetPrice(u, a)) \div config[a].unit
             /\ CollateralValue(u, a) \in Nat /\ CollateralValue(u, a)' \in Nat
             /\ Threshold(u, a)' = Threshold(u, a)
  <2>1. CollateralValue(u, a) \in Nat /\ CollateralValue(u, a)' \in Nat
    <3>1. DataSound(u) /\ DataSound(u)'
      BY DataBothWays
    <3> QED BY <3>1 DEF DataSound
  <2> QED BY <1>1, <2>1 DEF CollateralValue, HBalance
<1>6. ASSUME NEW a \in Asset
      PROVE  Backs(u)'[a] >= Backs(u)[a] /\ Weighs(u)'[a] >= Weighs(u)[a]
  <2> DEFINE v == CollateralValue(u, a)
             vn == CollateralValue(u, a)'
             t == Threshold(u, a)
  <2>1. /\ Backs(u)[a] = (IF a \in Backing(u) THEN v ELSE 0)
        /\ Weighs(u)[a] = (IF a \in Backing(u) THEN v * t ELSE 0)
        /\ Backs(u)'[a] = (IF a \in Backing(u)' THEN vn ELSE 0)
        /\ Weighs(u)'[a] = (IF a \in Backing(u)' THEN vn * t ELSE 0)
    BY <1>5 DEF Backs, Weighs
  <2>2. v \in Nat /\ vn \in Nat /\ t \in Nat /\ v * t \in Nat /\ vn * t \in Nat
    BY <1>2, <1>5, ProductType
  <2>3. a \in Backing(u) => a \in Backing(u)' /\ v <= vn /\ v * t <= vn * t
    <3> SUFFICES ASSUME a \in Backing(u) PROVE a \in Backing(u)' /\ v <= vn /\ v * t <= vn * t
      OBVIOUS
    <3>1. a \in coll[u] /\ config[a].lt # 0
      BY DEF Backing
    <3>2. a \in Backing(u)'
      BY <1>4, <3>1 DEF Gains
    <3>3. hBal[u][a] <= hBal'[u][a]
      BY <1>2, <3>1 DEF Gains
    <3>4. RayMul(hBal[u][a], li[a]) <= RayMul(hBal'[u][a], li[a])
      BY <1>2, <3>3, RayMulOrder
    <3>5. RayMul(hBal[u][a], li[a]) \in Nat /\ RayMul(hBal'[u][a], li[a]) \in Nat
      BY <1>2, RayMulType
    <3> DEFINE m == RayMul(hBal[u][a], li[a])
               n == RayMul(hBal'[u][a], li[a])
               p == AssetPrice(u, a)
               d == config[a].unit
    <3>6. /\ m \in Nat /\ n \in Nat /\ p \in Nat /\ d \in Nat \ {0} /\ t \in Nat
          /\ m <= n /\ v = (m * p) \div d /\ vn = (n * p) \div d
      BY <1>2, <1>5, <2>2, <3>4, <3>5
    <3> HIDE DEF m, n, p, d, v, vn, t
    <3>7. v <= vn /\ v * t <= vn * t
      BY <3>6, WorthOrder
    <3> QED BY <3>2, <3>7
  <2> HIDE DEF v, vn, t
  <2> QED BY <2>1, <2>2, <2>3, SMT
<1>7. NearlyHealthy(u)'
  BY <1>3, <1>6, HealthFollows
<1>8. CASE \E a \in coll'[u] : a \notin coll[u] \/ hBal'[u][a] > hBal[u][a]
  BY <1>7, <1>8
<1>9. CASE ~\E a \in coll'[u] : a \notin coll[u] \/ hBal'[u][a] > hBal[u][a]
  <2>1. coll'[u] = coll[u]
    BY <1>9 DEF Gains
  <2>2. coll[u] \subseteq Asset
    BY DEF TypeOK
  <2>3. \A a \in coll[u] : hBal'[u][a] = hBal[u][a]
    <3> SUFFICES ASSUME NEW a \in coll[u] PROVE hBal'[u][a] = hBal[u][a]
      OBVIOUS
    <3>1. hBal'[u][a] >= hBal[u][a] /\ ~(hBal'[u][a] > hBal[u][a])
      BY <1>9, <2>1 DEF Gains
    <3>2. hBal[u][a] \in Nat /\ hBal'[u][a] \in Nat
      BY <1>2, <2>2
    <3> QED BY <3>1, <3>2, SMT
  <2>4. ASSUME NEW a \in Asset
        PROVE  Backs(u)'[a] = Backs(u)[a] /\ Weighs(u)'[a] = Weighs(u)[a]
    <3>1. a \in Backing(u)' <=> a \in Backing(u)
      BY <1>4, <2>1 DEF Backing
    <3>2. a \in Backing(u) => CollateralValue(u, a)' = CollateralValue(u, a)
      BY <1>5, <2>3 DEF Backing
    <3>3. /\ Backs(u)[a] = (IF a \in Backing(u) THEN CollateralValue(u, a) ELSE 0)
          /\ Weighs(u)[a] = (IF a \in Backing(u) THEN CollateralValue(u, a) * Threshold(u, a) ELSE 0)
          /\ Backs(u)'[a] = (IF a \in Backing(u)' THEN CollateralValue(u, a)' ELSE 0)
          /\ Weighs(u)'[a] = (IF a \in Backing(u)' THEN CollateralValue(u, a)' * Threshold(u, a)' ELSE 0)
      BY DEF Backs, Weighs
    <3> QED BY <1>5, <3>1, <3>2, <3>3
  <2>5. Healthy(u)'
    BY <1>3, <1>6, <2>4, HealthFollows
  <2> QED BY <2>5
<1> QED BY <1>8, <1>9

-----------------------------------------------------------------------------
(* What roundings add up to, in balances and in what they are worth.       *)

\* What a rounding can add up to: less than two rays and half an index.
LEMMA DriftBound ==
    ASSUME NEW i \in Nat, i > RAY, NEW m \in Nat, NEW n \in Nat,
           RAY * m < RAY * n + RAY + (i \div 2)
    PROVE  m <= n + Drift(i)
<1> DEFINE q == i \div (2 * RAY)
<1>1. 2 * RAY \in Nat \ {0} /\ RAY \in Nat \ {0}
  BY HalfRay, SMT
<1>2. q \in Nat /\ i < (2 * RAY) * q + 2 * RAY
  BY <1>1, DivBrackets
<1>3. Drift(i) = 1 + q
  BY HalfRay, SMT DEF Drift
<1> HIDE DEF q
<1>4. RAY * q \in Nat /\ (2 * RAY) * q = 2 * (RAY * q)
  BY <1>1, <1>2, SMT
<1>5. i \div 2 < RAY * q + RAY
  BY <1>1, <1>2, <1>4, SMT
<1>6. RAY * (n + q + 2) = RAY * n + RAY * q + 2 * RAY /\ RAY * n \in Nat /\ RAY * m \in Nat
  BY <1>1, <1>2, SMT
<1>7. RAY * m < RAY * (n + q + 2)
  BY <1>1, <1>4, <1>5, <1>6, SMT
<1>8. n + q + 2 \in Nat
  BY <1>2
<1>9. m < n + q + 2
  BY <1>1, <1>7, <1>8, OrderOfProducts
<1> QED BY <1>2, <1>3, <1>9, SMT

\* An amount that is added to a balance, or taken from it, in scaled units moves it
\* by that amount but for the drift of the index.
LEMMA BalanceMoves ==
    ASSUME NEW m \in Nat, NEW x \in Nat, NEW i \in Nat \ {0}, i >= RAY
    PROVE  /\ Drift(i) \in Nat
           /\ RayMul(m + RayDiv(x, i), i) <= RayMul(m, i) + x + Drift(i)
           /\ RayDiv(x, i) <= m
                 => RayMul(m - RayDiv(x, i), i) + x <= RayMul(m, i) + Drift(i)
<1> DEFINE s == RayDiv(x, i)
<1>1. RAY \in Nat \ {0} /\ HALF_RAY \in Nat
  BY HalfRay
<1>2. Drift(i) \in Nat
  <2>1. i \div (2 * RAY) \in Nat
    BY <1>1, DivType, SMT
  <2> QED BY <2>1 DEF Drift
<1>3. s \in Nat
  BY RayDivType
<1>4. CASE i = RAY
  <2>1. s = x /\ RayMul(m, i) = m
    BY <1>4, RayIsOne
  <2>2. RayMul(m + x, i) = m + x
    <3>1. m + x \in Nat
      OBVIOUS
    <3> QED BY <1>4, <3>1, RayIsOne
  <2>3. x <= m => RayMul(m - x, i) = m - x
    <3> SUFFICES ASSUME x <= m PROVE RayMul(m - x, i) = m - x
      OBVIOUS
    <3>1. m - x \in Nat
      BY SMT
    <3> QED BY <1>4, <3>1, RayIsOne
  <2> HIDE DEF s
  <2>4. RayMul(m + s, i) <= RayMul(m, i) + x + Drift(i)
    BY <1>2, <2>1, <2>2, SMT
  <2>5. s <= m => RayMul(m - s, i) + x <= RayMul(m, i) + Drift(i)
    BY <1>2, <2>1, <2>3, SMT
  <2> QED BY <1>2, <2>4, <2>5 DEF s
<1>5. CASE i > RAY
  <2> DEFINE h == i \div 2
  <2>1. h \in Nat /\ i - h <= h + 1
    BY SMT
  <2>2. /\ i * s <= x * RAY + h /\ x * RAY + h < i * s + i /\ x * RAY \in Nat /\ i * s \in Nat
    <3>1. x * RAY \in Nat /\ x * RAY + h \in Nat
      BY <1>1, <2>1, ProductType
    <3>2. s = (x * RAY + h) \div i
      BY DEF RayDiv
    <3>3. i * s \in Nat
      BY <1>3, ProductType
    <3> HIDE DEF s, h
    <3> QED BY <3>1, <3>2, <3>3, DivBrackets
  <2> HIDE DEF s, h
  <2>3. ASSUME NEW n \in Nat
        PROVE  /\ RayMul(n, i) \in Nat
               /\ RAY * RayMul(n, i) <= i * n + HALF_RAY
               /\ i * n + HALF_RAY < RAY * RayMul(n, i) + RAY
               /\ i * n \in Nat /\ RAY * RayMul(n, i) \in Nat
    <3>1. n * i + HALF_RAY \in Nat /\ n * i = i * n /\ i * n \in Nat
      BY <1>1, ProductType, SMT
    <3> QED BY <1>1, <3>1, DivBrackets, RayMulType, ProductType DEF RayMul
  <2>4. RayMul(m + s, i) <= RayMul(m, i) + x + Drift(i)
    <3>1. m + s \in Nat /\ i * (m + s) = i * m + i * s
      BY <1>3, SMT
    <3> DEFINE a == RayMul(m, i)
               b == RayMul(m + s, i)
    <3>2. /\ a \in Nat /\ b \in Nat /\ RAY * a \in Nat /\ RAY * b \in Nat
          /\ RAY * b <= i * (m + s) + HALF_RAY /\ i * m + HALF_RAY < RAY * a + RAY
          /\ i * m \in Nat
      BY <2>3, <3>1
    <3> HIDE DEF a, b
    <3>3. RAY * b < RAY * a + RAY + x * RAY + h
      BY <1>1, <2>1, <2>2, <3>1, <3>2, SMT
    <3>4. RAY * (a + x) = RAY * a + x * RAY /\ a + x \in Nat
      BY <1>1, <3>2, SMT
    <3>5. RAY * b < RAY * (a + x) + RAY + h
      BY <1>1, <2>1, <2>2, <3>2, <3>3, <3>4, SMT
    <3>6. b <= (a + x) + Drift(i)
      BY <1>5, <3>2, <3>4, <3>5, DriftBound DEF h
    <3> QED BY <3>6 DEF a, b
  <2>5. s <= m => RayMul(m - s, i) + x <= RayMul(m, i) + Drift(i)
    <3> SUFFICES ASSUME s <= m
                 PROVE  RayMul(m - s, i) + x <= RayMul(m, i) + Drift(i)
      OBVIOUS
    <3>1. m - s \in Nat /\ i * (m - s) + i * s = i * m
      BY <1>3, SMT
    <3> DEFINE a == RayMul(m, i)
               b == RayMul(m - s, i)
    <3>2. /\ a \in Nat /\ b \in Nat /\ RAY * a \in Nat /\ RAY * b \in Nat
          /\ RAY * b <= i * (m - s) + HALF_RAY /\ i * m + HALF_RAY < RAY * a + RAY
          /\ i * m \in Nat /\ i * (m - s) \in Nat
      BY <2>3, <3>1
    <3> HIDE DEF a, b
    <3>3. RAY * b + x * RAY < RAY * a + RAY + h
      BY <1>1, <2>1, <2>2, <3>1, <3>2, SMT
    <3>4. RAY * (b + x) = RAY * b + x * RAY /\ b + x \in Nat
      BY <1>1, <3>2, SMT
    <3>5. RAY * (b + x) < RAY * a + RAY + h
      BY <3>3, <3>4
    <3>6. b + x <= a + Drift(i)
      BY <1>5, <3>2, <3>4, <3>5, DriftBound DEF h
    <3> QED BY <3>6 DEF a, b
  <2> QED BY <1>2, <2>4, <2>5 DEF s
<1> QED BY <1>1, <1>4, <1>5, SMT

-----------------------------------------------------------------------------
(* An account's own debt: it grows with the cover, but for the roundings.  *)

\* An account's debts less what they have grown by beyond its cover are backed.
LEMMA OwnDebt ==
    ASSUME TypeOK, TypeOK', NEW u \in User, Healthy(u), NEW slack \in Nat,
           TotalDebtValue(u)' + Backed(u) <= TotalDebtValue(u) + Cover(u)' + slack
    PROVE  BackedButFor(u, slack)
<1> DEFINE D == TotalDebtValue(u)
           DN == TotalDebtValue(u)'
           B == Backed(u)
           E == Cover(u)' + slack
<1>1. /\ D \in Nat /\ DN \in Nat /\ B \in Nat /\ Cover(u)' \in Nat
      /\ D # 0 => Covers(B, D)
  <2>1. DataSound(u) /\ HealthSound(u) /\ DataSound(u)' /\ HealthSound(u)'
    BY DataBothWays
  <2> QED BY <2>1 DEF DataSound, HealthSound
<1>2. E \in Nat /\ DN + B <= D + E
  BY <1>1, SMT
<1>3. BackedButFor(u, slack) <=> WAD * DN <= WAD * E + (D \div 2)
  BY DEF BackedButFor
<1> HIDE DEF D, DN, B, E
<1>4. WAD \in Nat
  BY ScaleAssumption
<1>5. WAD * D <= WAD * B + (D \div 2)
  BY <1>1, <1>4, SMT DEF Covers
<1>6. /\ WAD * (DN + B) = WAD * DN + WAD * B /\ WAD * (D + E) = WAD * D + WAD * E
      /\ WAD * (DN + B) <= WAD * (D + E)
      /\ WAD * DN \in Nat /\ WAD * B \in Nat /\ WAD * D \in Nat /\ WAD * E \in Nat
      /\ D \div 2 \in Nat
  <2>1. DN + B \in Nat /\ D + E \in Nat
    BY <1>1, <1>2
  <2>2. WAD * (DN + B) <= WAD * (D + E)
    BY <1>2, <1>4, <2>1, ProductMonotone
  <2> QED BY <1>1, <1>2, <1>4, <2>2, SMT
<1>7. WAD * DN <= WAD * E + (D \div 2)
  BY <1>5, <1>6, SMT
<1> QED BY <1>3, <1>7

\* Every debt is counted, since every debt is flagged.
LEMMA DebtCounted ==
    ASSUME NEW u \in User, NEW a \in Asset
    PROVE  IInv => Owes(u)[a] = DebtValue(u, a)
<1> SUFFICES ASSUME IInv PROVE Owes(u)[a] = DebtValue(u, a)
  OBVIOUS
<1>1. TypeOK
  BY DEF IInv
<1>2. CASE a \in bor[u]
  BY <1>2 DEF Owes
<1>3. CASE a \notin bor[u]
  <2>1. vBal[u][a] = 0 /\ sBal[u][a] = 0
    BY <1>3 DEF IInv, DebtIsFlagged
  <2>2. VariableDebt(u, a) = 0
    BY <1>1, <2>1, WholeVariableDebt
  <2>3. Debt(u, a) = 0
    BY <2>1, <2>2 DEF Debt
  <2>4. AssetPrice(u, a) \in Nat /\ config[a].unit \in Nat \ {0}
    <3>1. config[a].unit \in Nat \ {0}
      BY <1>1, SMT DEF TypeOK, AssetConfig
    <3> QED BY <1>1, <3>1, DataBothWays DEF DataSound
  <2>5. DebtValue(u, a) = (0 * AssetPrice(u, a)) \div config[a].unit
    BY <2>3 DEF DebtValue
  <2>6. DebtValue(u, a) = 0
    BY <2>4, <2>5, SMT
  <2> QED BY <1>3, <2>6 DEF Owes
<1> QED BY <1>2, <1>3

\* So is every debt after the step.
LEMMA DebtCountedAfter ==
    ASSUME NEW u \in User, NEW a \in Asset
    PROVE  IInv' => Owes(u)'[a] = DebtValue(u, a)'
<1>1. IInv => Owes(u)[a] = DebtValue(u, a)
  BY DebtCounted
<1>2. (IInv => Owes(u)[a] = DebtValue(u, a))'
  BY <1>1, PTL
<1> QED BY <1>2

\* What a user owes moves by what he owes in the one reserve whose debt moves.
LEMMA DebtMoves ==
    ASSUME IInv, IInv', NEW u \in User, NEW a \in Asset,
           \A b \in Asset : b # a => DebtValue(u, b)' = DebtValue(u, b)
    PROVE  /\ DebtValue(u, a) \in Nat /\ DebtValue(u, a)' \in Nat
           /\ TotalDebtValue(u)' + DebtValue(u, a) = TotalDebtValue(u) + DebtValue(u, a)'
<1> DEFINE f == Owes(u)
           g == Owes(u)'
<1>1. TypeOK /\ TypeOK' /\ IsFiniteSet(Asset)
  BY AccountAssumption DEF IInv
<1>2. /\ DataSound(u) /\ DataSound(u)'
  BY <1>1, DataBothWays
<1>3. /\ f \in [Asset -> Nat] /\ TotalDebtValue(u) = SumFunction(f)
      /\ TotalDebtValue(u) \in Nat /\ DebtValue(u, a) \in Nat
  BY <1>2 DEF DataSound
<1>4. /\ g \in [Asset -> Nat] /\ TotalDebtValue(u)' = SumFunction(g)
      /\ TotalDebtValue(u)' \in Nat /\ DebtValue(u, a)' \in Nat
  BY <1>2 DEF DataSound
<1>5. /\ \A b \in Asset : b # a => g[b] = f[b]
      /\ f[a] = DebtValue(u, a) /\ g[a] = DebtValue(u, a)'
  <2>1. ASSUME NEW b \in Asset PROVE f[b] = DebtValue(u, b) /\ g[b] = DebtValue(u, b)'
    BY DebtCounted, DebtCountedAfter
  <2> QED BY <2>1
<1>6. f \in [Asset -> Int] /\ g \in [Asset -> Int]
  BY <1>3, <1>4
<1> HIDE DEF f, g
<1>7. SumFunction(g) = SumFunction(f) - f[a] + g[a]
  BY <1>1, <1>5, <1>6, TotalChange
<1>8. TotalDebtValue(u)' = TotalDebtValue(u) - DebtValue(u, a) + DebtValue(u, a)'
  BY <1>3, <1>4, <1>5, <1>7
<1> QED BY <1>3, <1>4, <1>8, SMT

\* No threshold is above 100%.
LEMMA ThresholdBound ==
    ASSUME TypeOK, SoundInv, NEW u \in User, NEW a \in Asset
    PROVE  /\ Threshold(u, a) \in Nat /\ Threshold(u, a) <= PERCENTAGE_FACTOR
           /\ Ltv(u, a) \in Nat /\ Ltv(u, a) <= Threshold(u, a)
<1> DEFINE ok(c) == /\ c.ltv \in Nat /\ c.lt \in Nat /\ c.bonus \in Nat
                    /\ c.ltv <= c.lt /\ c.lt <= PERCENTAGE_FACTOR
<1>1. ASSUME NEW c, c.ltv \in Nat, c.lt \in Nat, c.bonus \in Nat, SoundConfig(c)
      PROVE  ok(c)
  <2>1. CASE c.lt = 0
    BY <1>1, <2>1, HalfFactor, SMT DEF SoundConfig
  <2>2. CASE c.lt # 0
    <3>1. c.ltv <= c.lt /\ c.bonus > PERCENTAGE_FACTOR
          /\ PercentMul(c.lt, c.bonus) <= PERCENTAGE_FACTOR
      BY <1>1, <2>2 DEF SoundConfig
    <3> DEFINE t == c.lt
               k == c.bonus
               m == t * k + HALF_PERCENTAGE_FACTOR
    <3>2. t \in Nat /\ k \in Nat /\ k > PERCENTAGE_FACTOR
      BY <1>1, <3>1
    <3> HIDE DEF t, k
    <3>3. PERCENTAGE_FACTOR * t <= m /\ m \in Nat
      <4>1. t * PERCENTAGE_FACTOR <= t * k /\ t * k \in Nat
            /\ t * PERCENTAGE_FACTOR = PERCENTAGE_FACTOR * t
            /\ t * PERCENTAGE_FACTOR \in Nat
        BY <3>2, HalfFactor, ProductMonotone, ProductType, SMT
      <4> QED BY <4>1, HalfFactor, SMT
    <3> HIDE DEF m
    <3>4. t <= m \div PERCENTAGE_FACTOR /\ m \div PERCENTAGE_FACTOR \in Nat
      BY <3>2, <3>3, HalfFactor, DivAtLeast, DivType
    <3>5. PercentMul(c.lt, c.bonus) = m \div PERCENTAGE_FACTOR
      BY DEF PercentMul, m, t, k
    <3>6. t <= PERCENTAGE_FACTOR
      BY <3>1, <3>2, <3>4, <3>5, HalfFactor, SMT
    <3> QED BY <1>1, <3>1, <3>6 DEF t
  <2> QED BY <2>1, <2>2
<1> HIDE DEF ok
<1>2. ok(config[a])
  <2>1. config[a].ltv \in Nat /\ config[a].lt \in Nat /\ config[a].bonus \in Nat
    BY SMT DEF TypeOK, AssetConfig
  <2> QED BY <1>1, <2>1 DEF SoundInv
<1>3. ASSUME emode[u] # NoCategory PROVE ok(eModes[emode[u]])
  <2>1. emode[u] \in Category
    BY <1>3 DEF TypeOK
  <2>2. eModes[emode[u]].ltv \in Nat /\ eModes[emode[u]].lt \in Nat
        /\ eModes[emode[u]].bonus \in Nat
    BY <2>1, SMT DEF TypeOK, EModeConfig
  <2> QED BY <1>1, <2>1, <2>2 DEF SoundInv
<1>4. CASE InEMode(u, a)
  <2>1. ok(eModes[emode[u]])
    BY <1>3, <1>4 DEF InEMode
  <2>2. config[a].ltv # 0 => Ltv(u, a) = eModes[emode[u]].ltv
    BY <1>4 DEF Ltv
  <2>3. config[a].ltv = 0 => Ltv(u, a) = 0
    BY DEF Ltv
  <2>4. Threshold(u, a) = eModes[emode[u]].lt
    BY <1>4 DEF Threshold
  <2> QED BY <2>1, <2>2, <2>3, <2>4, SMT DEF ok
<1>5. CASE ~InEMode(u, a)
  <2>1. Ltv(u, a) = config[a].ltv /\ Threshold(u, a) = config[a].lt
    BY <1>5 DEF Ltv, Threshold
  <2> QED BY <1>2, <2>1 DEF ok
<1> QED BY <1>4, <1>5

\* A user's collateral in one reserve: the cover lessens by at most its worth.
LEMMA CollateralShrinks ==
    ASSUME TypeOK, TypeOK', SoundInv, NEW u \in User, NEW a \in Asset,
           UNCHANGED <<config, eModes, price, li>>, emode'[u] = emode[u],
           coll'[u] = coll[u], \A b \in Asset : b # a => hBal'[u][b] = hBal[u][b],
           CollateralValue(u, a)' <= CollateralValue(u, a)
    PROVE  Backed(u) <= Cover(u)' + (IF a \in Backing(u)
                                     THEN CollateralValue(u, a) - CollateralValue(u, a)'
                                     ELSE 0)
<1> DEFINE k == IF a \in Backing(u) THEN CollateralValue(u, a) - CollateralValue(u, a)'
                ELSE 0
           C == TotalCollateral(u)
           A == Average(u, Threshold)
           W == SumFunction(Weighs(u))
           CN == TotalCollateral(u)'
           AN == Average(u, Threshold)'
           WN == SumFunction(Weighs(u))'
           t == Threshold(u, a)
           F == PERCENTAGE_FACTOR
<1>1. /\ Weighs(u) \in [Asset -> Nat] /\ C \in Nat /\ A \in Nat /\ W \in Nat
      /\ C * A <= W
  BY DataBothWays DEF DataSound
<1>2. /\ Weighs(u)' \in [Asset -> Nat] /\ CN \in Nat /\ AN \in Nat /\ WN \in Nat
      /\ WN <= CN * (AN + 1)
  <2>1. DataSound(u)'
    BY DataBothWays
  <2> QED BY <2>1 DEF DataSound
<1>3. /\ CollateralValue(u, a) \in Nat /\ CollateralValue(u, a)' \in Nat
      /\ t \in Nat /\ t <= F
  <2>1. DataSound(u) /\ DataSound(u)'
    BY DataBothWays
  <2> QED BY <2>1, ThresholdBound DEF DataSound
<1>4. k \in Nat
  BY <1>3, SMT
<1>5. \A b \in Asset :
         /\ AssetPrice(u, b)' = AssetPrice(u, b) /\ Threshold(u, b)' = Threshold(u, b)
         /\ b \in Backing(u)' <=> b \in Backing(u)
         /\ b # a => CollateralValue(u, b)' = CollateralValue(u, b)
  BY DEF AssetPrice, Threshold, InEMode, CategoryPriced, Backing, CollateralValue, HBalance
<1>6. \A b \in Asset : b # a => Weighs(u)'[b] = Weighs(u)[b]
  <2> SUFFICES ASSUME NEW b \in Asset, b # a PROVE Weighs(u)'[b] = Weighs(u)[b]
    OBVIOUS
  <2>1. Weighs(u)[b] = IF b \in Backing(u) THEN CollateralValue(u, b) * Threshold(u, b) ELSE 0
    BY DEF Weighs
  <2>2. Weighs(u)'[b]
          = IF b \in Backing(u)' THEN CollateralValue(u, b)' * Threshold(u, b)' ELSE 0
    BY DEF Weighs
  <2> QED BY <1>5, <2>1, <2>2
<1>7. Weighs(u)[a] = Weighs(u)'[a] + k * t
  <2>1. Weighs(u)[a] = IF a \in Backing(u) THEN CollateralValue(u, a) * t ELSE 0
    BY DEF Weighs
  <2>2. Weighs(u)'[a] = IF a \in Backing(u) THEN CollateralValue(u, a)' * t ELSE 0
    BY <1>5 DEF Weighs
  <2>3. CASE a \in Backing(u)
    <3> DEFINE v == CollateralValue(u, a)
               vn == CollateralValue(u, a)'
    <3>1. k = v - vn /\ Weighs(u)[a] = v * t /\ Weighs(u)'[a] = vn * t
      BY <2>1, <2>2, <2>3
    <3>2. v \in Nat /\ vn \in Nat /\ vn <= v
      BY <1>3
    <3> HIDE DEF v, vn, k, t
    <3>3. v * t = vn * t + (v - vn) * t
      BY <1>3, <3>2, SMT
    <3> QED BY <3>1, <3>3
  <2>4. CASE a \notin Backing(u)
    <3>1. k = 0 /\ Weighs(u)[a] = 0 /\ Weighs(u)'[a] = 0
      BY <2>1, <2>2, <2>4
    <3> HIDE DEF k, t
    <3> QED BY <1>3, <3>1, SMT
  <2> QED BY <2>3, <2>4
<1> HIDE DEF k
<1>8. W = WN + k * t
  <2>1. WN = SumFunction(Weighs(u)') /\ IsFiniteSet(Asset)
    BY AccountAssumption
  <2>2. Weighs(u) \in [Asset -> Int] /\ Weighs(u)' \in [Asset -> Int]
    BY <1>1, <1>2
  <2> DEFINE f == Weighs(u)
             g == Weighs(u)'
  <2>3. \A b \in Asset : b # a => g[b] = f[b]
    BY <1>6
  <2>4. f[a] = g[a] + k * t /\ f[a] \in Nat /\ g[a] \in Nat
    BY <1>1, <1>2, <1>7
  <2>5. f \in [Asset -> Int] /\ g \in [Asset -> Int] /\ W = SumFunction(f) /\ WN = SumFunction(g)
    BY <2>1, <2>2
  <2> HIDE DEF f, g, W, WN, t
  <2>6. SumFunction(g) = SumFunction(f) - f[a] + g[a]
    BY <2>1, <2>3, <2>5, TotalChange
  <2>7. k * t \in Nat
    BY <1>3, <1>4, ProductType
  <2> QED BY <1>1, <1>2, <2>4, <2>5, <2>6, <2>7, SMT
<1>9. Backed(u) = PercentMul(C, A) /\ Cover(u)' = PercentMul(CN, AN + 1)
  BY DEF Backed, Cover
<1>10. C * A <= CN * (AN + 1) + k * F
  <2>1. k * t <= k * F /\ k * t \in Nat /\ k * F \in Nat
    BY <1>3, <1>4, HalfFactor, ProductMonotone, ProductType
  <2>2. C * A \in Nat /\ CN * (AN + 1) \in Nat
    BY <1>1, <1>2, ProductType
  <2> HIDE DEF C, A, W, CN, AN, WN, t, F
  <2> QED BY <1>1, <1>2, <1>8, <2>1, <2>2, SMT
<1>11. AN + 1 \in Nat
  BY <1>2
<1>12. PercentMul(C, A) <= PercentMul(CN, AN + 1) + k
  BY <1>1, <1>2, <1>4, <1>10, <1>11, PercentMulShift
<1> QED BY <1>9, <1>12 DEF k

\* What the roundings are worth is a number, of drifts that are numbers.
LEMMA RoundingWorthType ==
    ASSUME TypeOK, NEW u \in User, NEW a \in Asset
    PROVE  /\ RoundingWorth(u, a) \in Nat /\ Drift(li[a]) \in Nat /\ Drift(vi[a]) \in Nat
           /\ AssetPrice(u, a) \in Nat /\ config[a].unit \in Nat \ {0}
<1>1. AssetPrice(u, a) \in Nat
  BY DataBothWays DEF DataSound
<1>2. config[a].unit \in Nat \ {0}
  BY SMT DEF TypeOK, AssetConfig
<1>3. Drift(li[a]) \in Nat /\ Drift(vi[a]) \in Nat
  BY IndexType, BalanceMoves, 0 \in Nat
<1> DEFINE up(k) == (k * AssetPrice(u, a) + config[a].unit - 1) \div config[a].unit
<1>4. up(Drift(li[a])) \in Nat /\ up(Drift(vi[a])) \in Nat
  BY <1>1, <1>2, <1>3, WorthOfSum, 0 \in Nat
<1>5. RoundingWorth(u, a) = 1 + up(Drift(li[a])) + up(Drift(vi[a]))
  BY DEF RoundingWorth
<1> HIDE DEF up
<1> QED BY <1>1, <1>2, <1>3, <1>4, <1>5

\* The account of u where nothing but its debt and its hTokens in reserve a move.
MovesIn(u, a) ==
    /\ UNCHANGED <<config, eModes, price, li, vi>>
    /\ emode'[u] = emode[u] /\ coll'[u] = coll[u]
    /\ \A b \in Asset : b # a => /\ hBal'[u][b] = hBal[u][b]
                                 /\ vBal'[u][b] = vBal[u][b] /\ sBal'[u][b] = sBal[u][b]
    /\ hBal'[u][a] <= hBal[u][a]

\* What moves in the account data then.
LEMMA AccountMoves ==
    ASSUME IInv, IInv', NEW u \in User, NEW a \in Asset, MovesIn(u, a)
    PROVE  /\ \A b \in Asset : b # a => DebtValue(u, b)' = DebtValue(u, b)
           /\ DebtValue(u, a) = (Debt(u, a) * AssetPrice(u, a)) \div config[a].unit
           /\ DebtValue(u, a)' = (Debt(u, a)' * AssetPrice(u, a)) \div config[a].unit
           /\ CollateralValue(u, a) = (HBalance(u, a) * AssetPrice(u, a)) \div config[a].unit
           /\ CollateralValue(u, a)'
                 = (HBalance(u, a)' * AssetPrice(u, a)) \div config[a].unit
           /\ Debt(u, a) \in Nat /\ Debt(u, a)' \in Nat
           /\ HBalance(u, a) \in Nat /\ HBalance(u, a)' \in Nat
           /\ CollateralValue(u, a)' <= CollateralValue(u, a)
<1>1. TypeOK /\ TypeOK'
  BY DEF IInv
<1>2. \A b \in Asset : AssetPrice(u, b)' = AssetPrice(u, b)
  BY DEF MovesIn, AssetPrice, InEMode, CategoryPriced
<1>3. \A b \in Asset : b # a => Debt(u, b)' = Debt(u, b)
  BY DEF MovesIn, Debt, VariableDebt
<1>4. \A b \in Asset : b # a => DebtValue(u, b)' = DebtValue(u, b)
  BY <1>2, <1>3 DEF MovesIn, DebtValue
<1>5. /\ DebtValue(u, a) = (Debt(u, a) * AssetPrice(u, a)) \div config[a].unit
      /\ DebtValue(u, a)' = (Debt(u, a)' * AssetPrice(u, a)) \div config[a].unit
      /\ CollateralValue(u, a) = (HBalance(u, a) * AssetPrice(u, a)) \div config[a].unit
      /\ CollateralValue(u, a)' = (HBalance(u, a)' * AssetPrice(u, a)) \div config[a].unit
  BY <1>2 DEF MovesIn, DebtValue, CollateralValue
<1>6. /\ Debt(u, a) \in Nat /\ Debt(u, a)' \in Nat
      /\ HBalance(u, a) \in Nat /\ HBalance(u, a)' \in Nat
      /\ hBal[u][a] \in Nat /\ hBal'[u][a] \in Nat
  BY <1>1, BalanceType, NextBalances DEF Account
<1>7. HBalance(u, a)' <= HBalance(u, a)
  <2>1. HBalance(u, a)' = RayMul(hBal'[u][a], li[a]) /\ li[a] \in Nat
    BY <1>1, IndexType DEF HBalance, MovesIn
  <2>2. hBal'[u][a] <= hBal[u][a]
    BY DEF MovesIn
  <2>3. HBalance(u, a) = RayMul(hBal[u][a], li[a])
    BY DEF HBalance
  <2> QED BY <1>6, <2>1, <2>2, <2>3, RayMulOrder
<1>8. CollateralValue(u, a)' <= CollateralValue(u, a)
  <2>1. AssetPrice(u, a) \in Nat /\ config[a].unit \in Nat \ {0}
    BY <1>1, RoundingWorthType
  <2> DEFINE g == HBalance(u, a)'
             h == HBalance(u, a)
             p == AssetPrice(u, a)
             d == config[a].unit
  <2>2. /\ g \in Nat /\ h \in Nat /\ p \in Nat /\ d \in Nat \ {0} /\ g <= h
        /\ CollateralValue(u, a) = (h * p) \div d /\ CollateralValue(u, a)' = (g * p) \div d
    BY <1>5, <1>6, <1>7, <2>1
  <2> HIDE DEF g, h, p, d
  <2>3. (g * p) \div d <= (h * p) \div d
    BY <2>2, WorthOrder, 0 \in Nat
  <2> QED BY <2>2, <2>3
<1> QED BY <1>4, <1>5, <1>6, <1>8

\* Repaying, also in hTokens, and swapping the rate mode: what the debt grows by
\* beyond the collateral is the roundings.
LEMMA OwnCallBacked ==
    ASSUME IInv, IInv', NEW u \in User, NEW a \in Asset, Healthy(u), MovesIn(u, a),
           Debt(u, a)' <= Debt(u, a) + Drift(vi[a]),
           Debt(u, a)' + HBalance(u, a)
              <= Debt(u, a) + HBalance(u, a)' + Drift(vi[a]) + Drift(li[a])
    PROVE  BackedButFor(u, RoundingWorth(u, a))
<1> DEFINE p == AssetPrice(u, a)
           d == config[a].unit
           m == Debt(u, a)
           n == Debt(u, a)'
           h == HBalance(u, a)
           g == HBalance(u, a)'
           x == Drift(vi[a])
           y == Drift(li[a])
           slack == RoundingWorth(u, a)
           k == IF a \in Backing(u) THEN CollateralValue(u, a) - CollateralValue(u, a)'
                ELSE 0
<1>1. TypeOK /\ TypeOK' /\ SoundInv
  BY DEF IInv
<1>2. /\ p \in Nat /\ d \in Nat \ {0} /\ m \in Nat /\ n \in Nat /\ h \in Nat /\ g \in Nat
      /\ x \in Nat /\ y \in Nat /\ slack \in Nat
      /\ slack = 1 + ((y * p + d - 1) \div d) + ((x * p + d - 1) \div d)
  <2>1. slack = 1 + ((y * p + d - 1) \div d) + ((x * p + d - 1) \div d)
    BY DEF RoundingWorth
  <2> QED BY <1>1, <2>1, AccountMoves, RoundingWorthType
<1>3. /\ DebtValue(u, a) = (m * p) \div d /\ DebtValue(u, a)' = (n * p) \div d
      /\ CollateralValue(u, a) = (h * p) \div d /\ CollateralValue(u, a)' = (g * p) \div d
      /\ CollateralValue(u, a)' <= CollateralValue(u, a)
  BY AccountMoves
<1>4. n <= m + x /\ n + h <= m + g + x + y
  OBVIOUS
<1>5. Backed(u) <= Cover(u)' + k
  <2>1. /\ UNCHANGED <<config, eModes, price, li>> /\ emode'[u] = emode[u]
        /\ coll'[u] = coll[u] /\ \A b \in Asset : b # a => hBal'[u][b] = hBal[u][b]
    BY DEF MovesIn
  <2> QED BY <1>1, <1>3, <2>1, CollateralShrinks
<1>6. /\ TotalDebtValue(u)' + DebtValue(u, a) = TotalDebtValue(u) + DebtValue(u, a)'
      /\ TotalDebtValue(u) \in Nat /\ TotalDebtValue(u)' \in Nat
      /\ Backed(u) \in Nat /\ Cover(u)' \in Nat
      /\ DebtValue(u, a) \in Nat /\ DebtValue(u, a)' \in Nat
  <2>1. \A b \in Asset : b # a => DebtValue(u, b)' = DebtValue(u, b)
    BY AccountMoves
  <2>2. DataSound(u) /\ HealthSound(u) /\ DataSound(u)' /\ HealthSound(u)'
    BY <1>1, DataBothWays
  <2> QED BY <2>1, <2>2, DebtMoves DEF DataSound, HealthSound
<1> HIDE DEF p, d, m, n, h, g, x, y, slack
<1>7. DebtValue(u, a)' + k <= DebtValue(u, a) + slack /\ k \in Nat
  <2> DEFINE val(j) == (j * p) \div d
             up(j) == (j * p + d - 1) \div d
  <2>1. /\ val(m) \in Nat /\ val(n) \in Nat /\ val(h) \in Nat /\ val(g) \in Nat
        /\ up(x) \in Nat /\ up(y) \in Nat /\ slack = 1 + up(y) + up(x)
    BY <1>2, WorthOfSum
  <2>2. val(n) + val(h) <= val(m) + val(g) + (1 + up(y) + up(x))
    BY <1>2, <1>4, RoundingsAreWorth
  <2>3. val(n) <= val(m) + up(x)
    <3>1. val(n) <= val(m + x) /\ val(m + x) <= val(m) + up(x) /\ val(m + x) \in Nat
      <4>1. m + x \in Nat
        BY <1>2
      <4> QED BY <1>2, <1>4, <4>1, WorthOrder, WorthOfSum, 0 \in Nat
    <3> HIDE DEF val, up
    <3> QED BY <2>1, <3>1, SMT
  <2>4. /\ DebtValue(u, a) = val(m) /\ DebtValue(u, a)' = val(n)
        /\ CollateralValue(u, a) = val(h) /\ CollateralValue(u, a)' = val(g)
        /\ val(g) <= val(h)
    BY <1>3
  <2> HIDE DEF val, up
  <2> QED BY <2>1, <2>2, <2>3, <2>4, SMT
<1> HIDE DEF k
<1>8. TotalDebtValue(u)' + Backed(u) <= TotalDebtValue(u) + Cover(u)' + slack
  BY <1>2, <1>5, <1>6, <1>7, SMT
<1>9. BackedButFor(u, slack)
  BY <1>1, <1>2, <1>8, OwnDebt
<1> QED BY <1>9 DEF slack

-----------------------------------------------------------------------------
(* Borrowing is backed: the loan to value is below the threshold.          *)

\* The average loan to value is no more than the average threshold, and neither is
\* more than 100%.
LEMMA AverageOrder ==
    ASSUME TypeOK, SoundInv, NEW u \in User
    PROVE  /\ AverageLtv(u) \in Nat /\ AverageLtv(u) <= Average(u, Threshold)
           /\ AverageLtv(u) <= PERCENTAGE_FACTOR
<1> DEFINE C == TotalCollateral(u)
           A == Average(u, Threshold)
           f == [a \in Asset |-> CollateralValue(u, a) * Ltv(u, a)]
           L == SumFunctionOnSet(f, Backing(u))
           h == [a \in Asset |-> CollateralValue(u, a) * Threshold(u, a)]
           W == SumFunctionOnSet(h, Backing(u))
           F == PERCENTAGE_FACTOR
<1>1. /\ C \in Nat /\ A \in Nat /\ F \in Nat \ {0}
      /\ \A a \in Asset : CollateralValue(u, a) \in Nat
  BY DataBothWays, HalfFactor DEF DataSound
<1>2. Backing(u) \subseteq Asset /\ IsFiniteSet(Backing(u))
  <2>1. Backing(u) \subseteq Asset
    BY DEF TypeOK, Backing
  <2> QED BY <2>1, AccountAssumption, FS_Subset
<1>3. A = IF C = 0 THEN 0 ELSE W \div C
  BY DEF Average
<1>4. AverageLtv(u) = IF C = 0 THEN 0 ELSE L \div C
  BY DEF Average, AverageLtv
<1>5. \A a \in Asset : f[a] \in Nat /\ h[a] \in Nat /\ f[a] <= h[a]
  <2> SUFFICES ASSUME NEW a \in Asset
               PROVE  f[a] \in Nat /\ h[a] \in Nat /\ f[a] <= h[a]
    OBVIOUS
  <2> DEFINE v == CollateralValue(u, a)
             l == Ltv(u, a)
             t == Threshold(u, a)
  <2>1. v \in Nat /\ l \in Nat /\ t \in Nat /\ l <= t
    BY <1>1, ThresholdBound
  <2>2. f[a] = v * l /\ h[a] = v * t
    OBVIOUS
  <2> HIDE DEF v, l, t, f, h
  <2> QED BY <2>1, <2>2, ProductMonotone, ProductType
<1>6. L \in Nat /\ W \in Nat /\ L <= W
  <2>1. \A a \in Backing(u) : f[a] \in Nat /\ h[a] \in Nat
    BY <1>2, <1>5
  <2>2. \A a \in Backing(u) : f[a] \in Int /\ h[a] \in Int /\ f[a] <= h[a]
    BY <1>2, <1>5
  <2> HIDE DEF f, h
  <2> QED BY <1>2, <2>1, <2>2, SumType, SumMonotone
<1>7. L <= C * F
  <2> DEFINE g == [a \in Asset |-> CollateralValue(u, a)]
             e == [a \in Asset |-> CollateralValue(u, a) * F]
             z == [a \in Asset |-> 0]
  <2>1. \A a \in Asset : /\ f[a] \in Int /\ e[a] \in Int /\ g[a] \in Int /\ z[a] \in Int
                         /\ f[a] <= e[a] /\ e[a] = z[a] + F * g[a]
    <3> SUFFICES ASSUME NEW a \in Asset
                 PROVE  /\ f[a] \in Int /\ e[a] \in Int /\ g[a] \in Int /\ z[a] \in Int
                        /\ f[a] <= e[a] /\ e[a] = z[a] + F * g[a]
      OBVIOUS
    <3> DEFINE v == CollateralValue(u, a)
               l == Ltv(u, a)
    <3>1. v \in Nat /\ l \in Nat /\ l <= F
      <4>1. Ltv(u, a) <= Threshold(u, a) /\ Threshold(u, a) <= F /\ Ltv(u, a) \in Nat
            /\ Threshold(u, a) \in Nat
        BY ThresholdBound
      <4> QED BY <1>1, <4>1, SMT
    <3>2. f[a] = v * l /\ e[a] = v * F /\ g[a] = v /\ z[a] = 0
      OBVIOUS
    <3> HIDE DEF v, l, f, e, g, z, F
    <3>3. v * l <= v * F /\ v * l \in Nat /\ v * F \in Nat /\ v * F = F * v
      BY <1>1, <3>1, ProductMonotone, ProductType, SMT
    <3> QED BY <1>1, <3>1, <3>2, <3>3, SMT
  <2>2. C = SumFunctionOnSet(g, Backing(u))
    BY DEF TotalCollateral
  <2>3. F \in Int
    BY <1>1
  <2>4. \A a \in Backing(u) :
           /\ f[a] \in Int /\ e[a] \in Int /\ g[a] \in Int /\ z[a] \in Int
           /\ f[a] <= e[a] /\ e[a] = z[a] + F * g[a]
    BY <1>2, <2>1
  <2>5. \A a \in Backing(u) : z[a] = 0
    BY <1>2
  <2> HIDE DEF f, e, g, z, F, C, L
  <2>6. SumFunctionOnSet(f, Backing(u)) <= SumFunctionOnSet(e, Backing(u))
    BY <1>2, <2>4, SumMonotone
  <2>7. SumFunctionOnSet(e, Backing(u))
          = SumFunctionOnSet(z, Backing(u)) + F * SumFunctionOnSet(g, Backing(u))
    BY <1>2, <2>3, <2>4, SumLinear
  <2>8. SumFunctionOnSet(z, Backing(u)) = 0
    BY <1>2, <2>5, SumZero
  <2>9. L = SumFunctionOnSet(f, Backing(u))
    BY DEF L
  <2>10. F * C = C * F /\ C * F \in Nat
    BY <1>1, SMT
  <2> QED BY <1>6, <2>2, <2>6, <2>7, <2>8, <2>9, <2>10, SMT
<1> HIDE DEF C, A, L, W, F, f, h
<1>8. CASE C = 0
  BY <1>1, <1>3, <1>4, <1>8, SMT DEF A, F
<1>9. CASE C # 0
  <2>1. L \div C \in Nat /\ L \div C <= W \div C
    BY <1>1, <1>6, <1>9, DivOrder, DivType
  <2>2. L \div C <= F
    <3>1. L < C * (F + 1)
      <4>1. C * (F + 1) = C * F + C /\ C * F \in Nat
        BY <1>1, SMT
      <4> QED BY <1>1, <1>6, <1>7, <1>9, <4>1, SMT
    <3> QED BY <1>1, <1>6, <1>9, <3>1, DivAtMost
  <2> QED BY <1>3, <1>4, <1>9, <2>1, <2>2 DEF A, F
<1> QED BY <1>8, <1>9

\* What borrowing does to the debt: it grows by the loan, but for the drift.
LEMMA LoanMoves ==
    ASSUME TypeOK, TypeOK', NEW u \in User, NEW a \in Asset, NEW n \in Nat, NEW mode,
           Borrow(u, a, n, mode)
    PROVE  /\ MovesIn(u, a) /\ Debt(u, a)' <= Debt(u, a) + n + Drift(vi[a])
           /\ vBal'[u][a] # vBal[u][a] \/ sBal'[u][a] # sBal[u][a]
<1>1. /\ vBal[u][a] \in Nat /\ sBal[u][a] \in Nat /\ hBal[u][a] \in Nat
      /\ VariableDebt(u, a) \in Nat /\ vi[a] \in Nat \ {0} /\ vi[a] >= RAY
      /\ RayDiv(n, vi[a]) \in Nat /\ n # 0
      /\ vBal \in [User -> [Asset -> Nat]] /\ sBal \in [User -> [Asset -> Nat]]
  BY BalanceType, IndexType, RayDivType DEF TypeOK, Borrow, BorrowAllowed
<1>2. /\ UNCHANGED <<config, eModes, price, hBal, li, vi, coll, emode>>
      /\ MintDebt(u, a, n, mode)
  BY DEF Borrow
<1>3. Drift(vi[a]) \in Nat
      /\ RayMul(vBal[u][a] + RayDiv(n, vi[a]), vi[a])
            <= VariableDebt(u, a) + n + Drift(vi[a])
  BY <1>1, BalanceMoves DEF VariableDebt
<1>4. hBal'[u][a] <= hBal[u][a]
  BY <1>1, <1>2, SMT
<1>5. Debt(u, a)' = RayMul(vBal'[u][a], vi[a]) + sBal'[u][a]
  BY <1>2 DEF Debt, VariableDebt
<1>6. CASE mode = "variable"
  <2> DEFINE s == vBal[u][a] + RayDiv(n, vi[a])
  <2>1. vBal' = [vBal EXCEPT ![u][a] = s] /\ sBal' = sBal /\ RayDiv(n, vi[a]) # 0
    BY <1>2, <1>6 DEF MintDebt
  <2>2. s \in Nat /\ s # vBal[u][a]
    <3> DEFINE r == RayDiv(n, vi[a])
               k == vBal[u][a]
    <3>1. r \in Nat /\ r # 0 /\ k \in Nat /\ s = k + r
      BY <1>1, <2>1
    <3> HIDE DEF r, k, s
    <3>2. s \in Nat /\ s # k
      BY <3>1, SMT
    <3> QED BY <3>2 DEF k
  <2>3. RayMul(s, vi[a]) \in Nat /\ RayMul(s, vi[a]) <= VariableDebt(u, a) + n + Drift(vi[a])
    BY <1>1, <1>3, <2>2, RayMulType
  <2> HIDE DEF s
  <2>4. vBal'[u][a] = s /\ \A b \in Asset : b # a => vBal'[u][b] = vBal[u][b]
    BY <1>1, <2>1
  <2>5. MovesIn(u, a)
    BY <1>2, <1>4, <2>1, <2>4 DEF MovesIn
  <2>6. Debt(u, a)' <= Debt(u, a) + n + Drift(vi[a])
    <3>1. Debt(u, a)' = RayMul(s, vi[a]) + sBal[u][a] /\ Debt(u, a) = VariableDebt(u, a) + sBal[u][a]
      BY <1>5, <2>1, <2>4 DEF Debt
    <3> QED BY <1>1, <1>3, <2>3, <3>1, SMT
  <2> QED BY <2>2, <2>4, <2>5, <2>6
<1>7. CASE mode = "stable"
  <2> DEFINE s == sBal[u][a] + n
  <2>1. sBal' = [sBal EXCEPT ![u][a] = s] /\ vBal' = vBal
    BY <1>2, <1>7 DEF MintDebt
  <2>2. s \in Nat /\ s # sBal[u][a]
    <3>1. sBal[u][a] \in Nat /\ n # 0
      BY <1>1
    <3> QED BY <3>1, SMT
  <2>3. sBal'[u][a] = s /\ \A b \in Asset : b # a => sBal'[u][b] = sBal[u][b]
    BY <1>1, <2>1
  <2>4. MovesIn(u, a)
    BY <1>2, <1>4, <2>1, <2>3 DEF MovesIn
  <2>5. Debt(u, a)' <= Debt(u, a) + n + Drift(vi[a])
    <3>1. Debt(u, a)' = VariableDebt(u, a) + s /\ Debt(u, a) = VariableDebt(u, a) + sBal[u][a]
      BY <1>5, <2>1, <2>3 DEF Debt, VariableDebt
    <3> QED BY <1>1, <1>3, <3>1, SMT
  <2> QED BY <2>2, <2>3, <2>4, <2>5
<1> QED BY <1>2, <1>6, <1>7 DEF MintDebt

\* Borrowing is backed, whatever the account was: the loan to value is below the
\* threshold.
LEMMA BorrowBacked ==
    ASSUME IInv, IInv', NEW u \in User, NEW a \in Asset, NEW n \in Nat, NEW mode,
           Borrow(u, a, n, mode)
    PROVE  BackedButFor(u, RoundingWorth(u, a))
<1> DEFINE p == AssetPrice(u, a)
           d == config[a].unit
           x == Drift(vi[a])
           y == Drift(li[a])
           slack == RoundingWorth(u, a)
           D == TotalDebtValue(u)
           DN == TotalDebtValue(u)'
           L == AverageLtv(u)
           B == Backed(u)
           E == Cover(u)'
<1>1. TypeOK /\ TypeOK' /\ SoundInv
  BY DEF IInv
<1>2. /\ MovesIn(u, a) /\ Debt(u, a)' <= Debt(u, a) + n + x
      /\ Debt(u, a) \in Nat /\ Debt(u, a)' \in Nat
      /\ DebtValue(u, a) = (Debt(u, a) * p) \div d
      /\ DebtValue(u, a)' = (Debt(u, a)' * p) \div d
      /\ CollateralValue(u, a)' <= CollateralValue(u, a)
  BY <1>1, LoanMoves, AccountMoves
<1>3. /\ p \in Nat /\ d \in Nat \ {0} /\ x \in Nat /\ y \in Nat /\ slack \in Nat
      /\ slack = 1 + ((y * p + d - 1) \div d) + ((x * p + d - 1) \div d)
  <2>1. slack = 1 + ((y * p + d - 1) \div d) + ((x * p + d - 1) \div d)
    BY DEF RoundingWorth
  <2> QED BY <1>1, <2>1, RoundingWorthType
<1>4. /\ DN + DebtValue(u, a) = D + DebtValue(u, a)'
      /\ D \in Nat /\ DN \in Nat /\ B \in Nat /\ E \in Nat
      /\ DebtValue(u, a) \in Nat /\ DebtValue(u, a)' \in Nat
      /\ TotalCollateral(u) \in Nat /\ Average(u, Threshold) \in Nat
  <2>1. \A b \in Asset : b # a => DebtValue(u, b)' = DebtValue(u, b)
    BY <1>2, AccountMoves
  <2>2. DataSound(u) /\ HealthSound(u) /\ DataSound(u)' /\ HealthSound(u)'
    BY <1>1, DataBothWays
  <2> QED BY <2>1, <2>2, DebtMoves DEF DataSound, HealthSound
<1> DEFINE loan == (n * p) \div d
<1>5. loan \in Nat /\ PercentDiv(D + loan, L) <= TotalCollateral(u) /\ L # 0
  <2>1. /\ PercentDiv(D + (p * n) \div d, L) <= TotalCollateral(u) /\ L # 0
    BY DEF Borrow, BorrowAllowed
  <2>2. p * n = n * p /\ n * p \in Nat
    BY <1>3, SMT
  <2>3. loan \in Nat
    BY <1>3, <2>2, DivType
  <2> QED BY <2>1, <2>2, <2>3
<1>6. D + loan <= B
  <2>1. L \in Nat /\ L <= Average(u, Threshold) /\ L <= PERCENTAGE_FACTOR
    BY <1>1, AverageOrder
  <2>2. L \in Nat \ {0} /\ D + loan \in Nat
    BY <1>4, <1>5, <2>1, SMT
  <2> QED BY <1>4, <1>5, <2>1, <2>2, LentIsBacked DEF Backed
<1>7. DebtValue(u, a)' <= DebtValue(u, a) + loan + slack
  <2> DEFINE m == Debt(u, a)
             k == Debt(u, a)'
  <2>1. k + 0 <= m + n + x + y /\ m \in Nat /\ k \in Nat
    BY <1>2, <1>3, SMT
  <2>2. /\ DebtValue(u, a) = (m * p) \div d /\ DebtValue(u, a)' = (k * p) \div d
    BY <1>2
  <2> HIDE DEF m, k, p, d, x, y, slack
  <2>3. (k * p) \div d + ((0 * p) \div d)
            <= (m * p) \div d + ((n * p) \div d)
                  + (1 + ((y * p + d - 1) \div d) + ((x * p + d - 1) \div d))
    BY <1>3, <2>1, 0 \in Nat, RoundingsAreWorth
  <2>4. (0 * p) \div d = 0
    BY <1>3, SMT
  <2>5. DebtValue(u, a)' + 0 <= DebtValue(u, a) + loan + slack
    BY <1>3, <2>2, <2>3, <2>4
  <2> QED BY <1>4, <2>5, SMT
<1>8. B <= E
  <2>1. B <= E + (IF a \in Backing(u) THEN CollateralValue(u, a) - CollateralValue(u, a)'
                  ELSE 0)
    <3>1. /\ UNCHANGED <<config, eModes, price, li>> /\ emode'[u] = emode[u]
          /\ coll'[u] = coll[u] /\ \A b \in Asset : b # a => hBal'[u][b] = hBal[u][b]
      BY <1>2 DEF MovesIn
    <3> QED BY <1>1, <1>2, <3>1, CollateralShrinks
  <2>2. CollateralValue(u, a)' = CollateralValue(u, a) /\ CollateralValue(u, a) \in Nat
    <3>1. UNCHANGED <<config, eModes, price, hBal, li, emode>>
      BY DEF Borrow
    <3>2. CollateralValue(u, a) \in Nat
      BY <1>1, DataBothWays DEF DataSound
    <3> QED
      BY <3>1, <3>2 DEF CollateralValue, HBalance, AssetPrice, InEMode, CategoryPriced
  <2> QED BY <1>4, <2>1, <2>2, SMT
<1>9. BackedButFor(u, slack) <=> WAD * DN <= WAD * (E + slack) + (D \div 2)
  BY DEF BackedButFor
<1> HIDE DEF B, E, D, DN, loan, slack, p, d, x, y
<1>10. DN <= E + slack /\ E + slack \in Nat
  BY <1>3, <1>4, <1>5, <1>6, <1>7, <1>8, SMT
<1>11. WAD * DN <= WAD * (E + slack) + (D \div 2)
  <2>1. WAD * DN <= WAD * (E + slack) /\ WAD * DN \in Nat /\ WAD * (E + slack) \in Nat
    BY <1>4, <1>10, ScaleAssumption, ProductMonotone, ProductType
  <2>2. D \div 2 \in Nat
    BY <1>4, SMT
  <2> QED BY <2>1, <2>2, SMT
<1> QED BY <1>9, <1>11 DEF slack

-----------------------------------------------------------------------------
(* Repaying, in underlying or in hTokens, and swapping the rate mode.      *)

\* What a repayment burns, in whichever mode, lowers the debt by the amount but for
\* the drift.
LEMMA RepaymentMoves ==
    ASSUME TypeOK, NEW u \in User, NEW a \in Asset, NEW x \in Nat, x # 0, vi' = vi,
           \/ BurnVariable(u, a, x) /\ UNCHANGED sBal
           \/ BurnStable(u, a, x) /\ UNCHANGED vBal
    PROVE  /\ \A b \in Asset : b # a => vBal'[u][b] = vBal[u][b] /\ sBal'[u][b] = sBal[u][b]
           /\ vBal'[u][a] # vBal[u][a] \/ sBal'[u][a] # sBal[u][a]
           /\ Debt(u, a)' \in Nat /\ Debt(u, a)' + x <= Debt(u, a) + Drift(vi[a])
<1> DEFINE m == vBal[u][a]
           k == sBal[u][a]
           i == vi[a]
<1>1. /\ m \in Nat /\ k \in Nat /\ i \in Nat \ {0} /\ i >= RAY
      /\ VariableDebt(u, a) = RayMul(m, i) /\ VariableDebt(u, a) \in Nat
      /\ Debt(u, a) = VariableDebt(u, a) + k
      /\ vBal \in [User -> [Asset -> Nat]] /\ sBal \in [User -> [Asset -> Nat]]
  BY BalanceType, IndexType DEF TypeOK, VariableDebt, Debt
<1>2. Debt(u, a)' = RayMul(vBal'[u][a], i) + sBal'[u][a]
  BY DEF Debt, VariableDebt
<1>3. Drift(i) \in Nat
  BY <1>1, BalanceMoves, 0 \in Nat
<1>4. CASE BurnVariable(u, a, x) /\ UNCHANGED sBal
  <2> DEFINE s == RayDiv(x, i)
             n == m - s
  <2>1. s # 0 /\ s <= m /\ vBal' = [vBal EXCEPT ![u][a] = n] /\ sBal' = sBal
    BY <1>4 DEF BurnVariable
  <2>2. s \in Nat
    BY <1>1, RayDivType
  <2>3. RayMul(n, i) + x <= RayMul(m, i) + Drift(i)
    <3> HIDE DEF m, i
    <3> QED BY <1>1, <2>1, BalanceMoves
  <2>4. n \in Nat /\ n # m
    <3> HIDE DEF m, s, i
    <3> QED BY <1>1, <2>1, <2>2, SMT
  <2> HIDE DEF n
  <2>5. vBal'[u][a] = n /\ \A b \in Asset : b # a => vBal'[u][b] = vBal[u][b]
    BY <1>1, <2>1
  <2>6. RayMul(n, i) \in Nat
    BY <1>1, <2>4, RayMulType
  <2>7. Debt(u, a)' = RayMul(n, i) + k
    BY <1>2, <2>1, <2>5
  <2>8. Debt(u, a)' \in Nat /\ Debt(u, a)' + x <= Debt(u, a) + Drift(i)
    <3> HIDE DEF m, i, k
    <3> QED BY <1>1, <1>3, <2>3, <2>6, <2>7, SMT
  <2> QED BY <2>1, <2>4, <2>5, <2>8
<1>5. CASE BurnStable(u, a, x) /\ UNCHANGED vBal
  <2> DEFINE n == k - x
  <2>1. x <= k /\ sBal' = [sBal EXCEPT ![u][a] = n] /\ vBal' = vBal
    BY <1>5 DEF BurnStable
  <2>2. n \in Nat /\ n # k /\ n + x = k
    <3> HIDE DEF k
    <3> QED BY <1>1, <2>1, SMT
  <2> HIDE DEF n
  <2>3. sBal'[u][a] = n /\ \A b \in Asset : b # a => sBal'[u][b] = sBal[u][b]
    BY <1>1, <2>1
  <2>4. Debt(u, a)' = VariableDebt(u, a) + n
    BY <1>1, <1>2, <2>1, <2>3
  <2>5. Debt(u, a)' \in Nat /\ Debt(u, a)' + x <= Debt(u, a) + Drift(i)
    <3> HIDE DEF m, i, k
    <3> QED BY <1>1, <1>3, <2>2, <2>4, SMT
  <2> QED BY <2>1, <2>2, <2>3, <2>5
<1> QED BY <1>4, <1>5

\* What a repayment takes of the payer's hTokens is the amount but for the drift.
LEMMA PaymentMoves ==
    ASSUME TypeOK, NEW u \in User, NEW a \in Asset, NEW x \in Nat, li' = li,
           NEW useHTokens \in BOOLEAN, Payment(u, a, x, useHTokens)
    PROVE  /\ \A b \in Asset : b # a => hBal'[u][b] = hBal[u][b]
           /\ hBal'[u][a] <= hBal[u][a]
           /\ HBalance(u, a)' \in Nat /\ HBalance(u, a) <= HBalance(u, a)' + x + Drift(li[a])
<1> DEFINE m == hBal[u][a]
           i == li[a]
           s == RayDiv(x, i)
<1>1. /\ u \in Account /\ m \in Nat /\ i \in Nat \ {0} /\ i >= RAY /\ s \in Nat
      /\ HBalance(u, a) = RayMul(m, i) /\ HBalance(u, a) \in Nat
      /\ hBal \in [Account -> [Asset -> Nat]]
  BY BalanceType, IndexType, RayDivType DEF TypeOK, HBalance
<1>2. HBalance(u, a)' = RayMul(hBal'[u][a], i)
  BY DEF HBalance
<1>3. Drift(i) \in Nat
  BY <1>1, BalanceMoves, 0 \in Nat
<1>4. CASE useHTokens
  <2> DEFINE n == m - s
  <2>1. s <= m /\ hBal' = [hBal EXCEPT ![u][a] = n]
    BY <1>4 DEF Payment
  <2>2. n \in Nat /\ n <= m /\ n + s = m
    <3> HIDE DEF m, s
    <3> QED BY <1>1, <2>1, SMT
  <2> HIDE DEF n
  <2>3. hBal'[u][a] = n /\ \A b \in Asset : b # a => hBal'[u][b] = hBal[u][b]
    BY <1>1, <2>1
  <2>4. RayMul(n, i) \in Nat /\ RayMul(m, i) <= RayMul(n, i) + x + Drift(i)
    <3>1. RayMul(n + s, i) <= RayMul(n, i) + x + Drift(i)
      <4> HIDE DEF i, m
      <4> QED BY <1>1, <2>2, BalanceMoves
    <3> QED BY <1>1, <2>2, <3>1, RayMulType
  <2> QED BY <1>1, <1>2, <2>2, <2>3, <2>4
<1>5. CASE ~useHTokens
  <2>1. hBal' = hBal
    BY <1>5 DEF Payment
  <2>2. HBalance(u, a)' = HBalance(u, a)
    BY <1>1, <1>2, <2>1
  <2>3. HBalance(u, a) <= HBalance(u, a)' + x + Drift(i)
    <3> HIDE DEF i
    <3> QED BY <1>1, <1>3, <2>2, SMT
  <2> HIDE DEF i, s
  <2>4. m <= m
    <3> HIDE DEF m
    <3> QED BY <1>1, SMT
  <2> QED BY <1>1, <2>1, <2>2, <2>3, <2>4 DEF i
<1> QED BY <1>4, <1>5

\* The account of who repays, in underlying or in hTokens.
LEMMA RepayMoves ==
    ASSUME TypeOK, NEW u \in User, NEW a \in Asset, NEW n \in Nat, NEW mode,
           NEW useHTokens \in BOOLEAN, Repay(u, a, n, mode, useHTokens)
    PROVE  /\ MovesIn(u, a)
           /\ vBal'[u][a] # vBal[u][a] \/ sBal'[u][a] # sBal[u][a]
           /\ Debt(u, a)' <= Debt(u, a) + Drift(vi[a])
           /\ Debt(u, a)' + HBalance(u, a)
                 <= Debt(u, a) + HBalance(u, a)' + Drift(vi[a]) + Drift(li[a])
<1> DEFINE owed == IF mode = "stable" THEN sBal[u][a] ELSE VariableDebt(u, a)
           x == Lesser(n, owed)
<1>1. owed \in Nat
  BY BalanceType
<1>2. /\ n # 0 /\ owed # 0
      /\ \/ BurnVariable(u, a, x) /\ UNCHANGED sBal
         \/ BurnStable(u, a, x) /\ UNCHANGED vBal
      /\ Payment(u, a, x, useHTokens)
      /\ UNCHANGED <<config, eModes, price, li, vi, coll, emode>>
  BY DEF Repay
<1>3. x \in Nat /\ x # 0
  <2> HIDE DEF owed
  <2> QED BY <1>1, <1>2 DEF Lesser
<1> HIDE DEF x
<1>4. /\ \A b \in Asset : b # a => vBal'[u][b] = vBal[u][b] /\ sBal'[u][b] = sBal[u][b]
      /\ vBal'[u][a] # vBal[u][a] \/ sBal'[u][a] # sBal[u][a]
      /\ Debt(u, a)' \in Nat /\ Debt(u, a)' + x <= Debt(u, a) + Drift(vi[a])
  BY <1>2, <1>3, RepaymentMoves
<1>5. /\ \A b \in Asset : b # a => hBal'[u][b] = hBal[u][b]
      /\ hBal'[u][a] <= hBal[u][a]
      /\ HBalance(u, a)' \in Nat /\ HBalance(u, a) <= HBalance(u, a)' + x + Drift(li[a])
  BY <1>2, <1>3, PaymentMoves
<1>6. MovesIn(u, a)
  BY <1>2, <1>4, <1>5 DEF MovesIn
<1>7. Debt(u, a) \in Nat /\ HBalance(u, a) \in Nat /\ Drift(vi[a]) \in Nat /\ Drift(li[a]) \in Nat
  BY BalanceType, RoundingWorthType DEF Account
<1>8. /\ Debt(u, a)' <= Debt(u, a) + Drift(vi[a])
      /\ Debt(u, a)' + HBalance(u, a)
            <= Debt(u, a) + HBalance(u, a)' + Drift(vi[a]) + Drift(li[a])
  <2> DEFINE d == Debt(u, a)
             e == Debt(u, a)'
             h == HBalance(u, a)
             g == HBalance(u, a)'
             y == Drift(vi[a])
             z == Drift(li[a])
  <2>1. /\ d \in Nat /\ e \in Nat /\ h \in Nat /\ g \in Nat /\ y \in Nat /\ z \in Nat
        /\ e + x <= d + y /\ h <= g + x + z
    BY <1>4, <1>5, <1>7
  <2> HIDE DEF d, e, h, g, y, z
  <2>2. e <= d + y /\ e + h <= d + g + y + z
    BY <1>3, <2>1, SMT
  <2> QED BY <2>2 DEF d, e, h, g, y, z
<1> QED BY <1>4, <1>6, <1>8

\* The account of who swaps the mode of a debt.
LEMMA SwapMoves ==
    ASSUME TypeOK, NEW u \in User, NEW a \in Asset,
           SwapToVariable(u, a) \/ SwapToStable(u, a)
    PROVE  /\ MovesIn(u, a)
           /\ vBal'[u][a] # vBal[u][a] \/ sBal'[u][a] # sBal[u][a]
           /\ Debt(u, a)' <= Debt(u, a) + Drift(vi[a])
           /\ Debt(u, a)' + HBalance(u, a)
                 <= Debt(u, a) + HBalance(u, a)' + Drift(vi[a]) + Drift(li[a])
<1> DEFINE m == vBal[u][a]
           k == sBal[u][a]
           i == vi[a]
           v == RayMul(m, i)
<1>1. /\ m \in Nat /\ k \in Nat /\ i \in Nat \ {0} /\ i >= RAY
      /\ VariableDebt(u, a) = v /\ v \in Nat /\ Debt(u, a) = v + k
      /\ vBal \in [User -> [Asset -> Nat]] /\ sBal \in [User -> [Asset -> Nat]]
      /\ hBal[u][a] \in Nat /\ HBalance(u, a) \in Nat
  BY BalanceType, IndexType, RayMulType DEF TypeOK, VariableDebt, Debt, Account
<1>2. UNCHANGED <<config, eModes, price, hBal, li, vi, coll, emode>>
  BY DEF SwapToVariable, SwapToStable
<1>3. Drift(i) \in Nat /\ Drift(li[a]) \in Nat
  BY RoundingWorthType
<1>4. Debt(u, a)' = RayMul(vBal'[u][a], i) + sBal'[u][a] /\ HBalance(u, a)' = HBalance(u, a)
  BY <1>2 DEF Debt, VariableDebt, HBalance
<1>5. hBal'[u][a] <= hBal[u][a]
  BY <1>1, <1>2, SMT
<1>6. /\ \A b \in Asset : b # a => vBal'[u][b] = vBal[u][b] /\ sBal'[u][b] = sBal[u][b]
      /\ sBal'[u][a] # sBal[u][a]
      /\ Debt(u, a)' \in Nat /\ Debt(u, a)' <= Debt(u, a) + Drift(i)
  <2>1. CASE SwapToVariable(u, a)
    <3> DEFINE s == RayDiv(k, i)
               n == m + s
    <3>1. k # 0 /\ sBal' = [sBal EXCEPT ![u][a] = 0] /\ vBal' = [vBal EXCEPT ![u][a] = n]
      BY <2>1 DEF SwapToVariable
    <3>2. s \in Nat /\ RayMul(n, i) <= v + k + Drift(i)
      <4> HIDE DEF m, k, i
      <4> QED BY <1>1, RayDivType, BalanceMoves
    <3>3. n \in Nat
      <4> HIDE DEF m, s
      <4> QED BY <1>1, <3>2
    <3> HIDE DEF n
    <3>4. /\ vBal'[u][a] = n /\ sBal'[u][a] = 0
          /\ \A b \in Asset : b # a => vBal'[u][b] = vBal[u][b] /\ sBal'[u][b] = sBal[u][b]
      BY <1>1, <3>1
    <3>5. RayMul(n, i) \in Nat
      BY <1>1, <3>3, RayMulType
    <3>6. Debt(u, a)' \in Nat /\ Debt(u, a)' <= Debt(u, a) + Drift(i)
      <4>1. Debt(u, a)' = RayMul(n, i) + 0
        BY <1>4, <3>4
      <4> HIDE DEF v, k, i
      <4> QED BY <1>1, <1>3, <3>2, <3>5, <4>1, SMT
    <3> QED BY <3>1, <3>4, <3>6
  <2>2. CASE SwapToStable(u, a)
    <3> DEFINE s == RayDiv(v, i)
               n == m - s
    <3>1. /\ v # 0 /\ s <= m
          /\ sBal' = [sBal EXCEPT ![u][a] = k + v] /\ vBal' = [vBal EXCEPT ![u][a] = n]
      BY <1>1, <2>2 DEF SwapToStable, BurnVariable
    <3>2. s \in Nat /\ RayMul(n, i) + v <= v + Drift(i)
      <4>1. s \in Nat
        BY <1>1, RayDivType
      <4>2. RayMul(n, i) + v <= RayMul(m, i) + Drift(i)
        <5> HIDE DEF m, k, i, v
        <5> QED BY <1>1, <3>1, BalanceMoves
      <4> QED BY <4>1, <4>2
    <3>3. n \in Nat
      <4> HIDE DEF m, s
      <4> QED BY <1>1, <3>1, <3>2
    <3> HIDE DEF n
    <3>4. /\ vBal'[u][a] = n /\ sBal'[u][a] = k + v
          /\ \A b \in Asset : b # a => vBal'[u][b] = vBal[u][b] /\ sBal'[u][b] = sBal[u][b]
      BY <1>1, <3>1
    <3>5. RayMul(n, i) \in Nat
      BY <1>1, <3>3, RayMulType
    <3>6. Debt(u, a)' \in Nat /\ Debt(u, a)' <= Debt(u, a) + Drift(i) /\ k + v # k
      <4> DEFINE w == RayMul(n, i)
      <4>1. Debt(u, a)' = w + (k + v)
        BY <1>4, <3>4
      <4>2. w \in Nat /\ w + v <= v + Drift(i) /\ v # 0
        BY <3>1, <3>2, <3>5
      <4> HIDE DEF v, k, i, m, w
      <4>3. k + v # k
        BY <1>1, <4>2, SMT
      <4>4. w + (k + v) \in Nat /\ w + (k + v) <= v + k + Drift(i)
        BY <1>1, <1>3, <4>2, SMT
      <4> QED BY <1>1, <4>1, <4>3, <4>4
    <3> QED BY <3>4, <3>6
  <2> QED BY <2>1, <2>2
<1>7. MovesIn(u, a)
  BY <1>2, <1>5, <1>6 DEF MovesIn
<1>8. Debt(u, a)' + HBalance(u, a)
         <= Debt(u, a) + HBalance(u, a)' + Drift(i) + Drift(li[a])
  <2>1. Debt(u, a) \in Nat
    BY BalanceType
  <2> HIDE DEF i, m, k, v
  <2> QED BY <1>1, <1>3, <1>4, <1>6, <2>1, SMT
<1> QED BY <1>6, <1>7, <1>8

-----------------------------------------------------------------------------
(* No call makes a healthy account unhealthy, call by call.                *)

\* An account that owes what it owed and only gains collateral.
LEMMA UntouchedStaysHealthy ==
    ASSUME TypeOK, TypeOK', NEW u \in User,
           UNCHANGED <<config, eModes, price, li, vi>>, emode'[u] = emode[u],
           coll[u] \subseteq coll'[u], \A b \in coll[u] : hBal'[u][b] >= hBal[u][b],
           bor'[u] \subseteq bor[u], vBal'[u] = vBal[u], sBal'[u] = sBal[u]
    PROVE  StaysHealthy(u)
<1>1. \A a \in Asset : Debt(u, a)' = Debt(u, a) /\ Debt(u, a) \in Nat
  BY BalanceType DEF Debt, VariableDebt
<1>2. \A a \in Asset : Debt(u, a)' <= Debt(u, a)
  <2> SUFFICES ASSUME NEW a \in Asset PROVE Debt(u, a)' <= Debt(u, a)
    OBVIOUS
  <2> DEFINE m == Debt(u, a)
             n == Debt(u, a)'
  <2>1. n = m /\ m \in Nat
    BY <1>1
  <2> HIDE DEF m, n
  <2>2. n <= m
    BY <2>1
  <2> QED BY <2>2 DEF m, n
<1>3. Gains(u)
  BY <1>2 DEF Gains
<1> QED BY <1>3, GainKeepsHealth

\* An account whose every entry is as it was.
Stands(u) ==
    /\ UNCHANGED <<config, eModes, price, li, vi>>
    /\ emode'[u] = emode[u] /\ coll'[u] = coll[u] /\ bor'[u] = bor[u]
    /\ hBal'[u] = hBal[u] /\ vBal'[u] = vBal[u] /\ sBal'[u] = sBal[u]

\* Such an account stays as healthy as it was.
LEMMA StandingStaysHealthy ==
    ASSUME TypeOK, TypeOK', NEW u \in User, Stands(u) PROVE StaysHealthy(u)
<1>1. \A b \in coll[u] : hBal'[u][b] >= hBal[u][b]
  <2>1. \A b \in coll[u] : hBal'[u][b] = hBal[u][b] /\ hBal[u][b] \in Nat
    BY BalanceType DEF TypeOK, Stands, Account
  <2> QED BY <2>1, SMT
<1> QED BY <1>1, UntouchedStaysHealthy DEF Stands

\* Who owes nothing is healthy.
LEMMA DebtlessIsHealthy ==
    ASSUME NEW u \in User, bor'[u] = {} PROVE Healthy(u)'
<1>1. TotalDebtValue(u)' = SumFunctionOnSet([a \in Asset |-> DebtValue(u, a)'], {})
  BY DEF TotalDebtValue
<1>2. TotalDebtValue(u)' = 0
  BY <1>1, SumEmpty
<1> QED BY <1>2 DEF Healthy, HealthBelow

\* A supply only gives collateral.
LEMMA SupplyKeepsHealth ==
    ASSUME TypeOK, TypeOK', NEW u \in User, NEW a \in Asset, NEW n \in Nat,
           Supply(u, a, n)
    PROVE  KeepsHealth
<1> SUFFICES ASSUME NEW v \in User PROVE StaysHealthy(v)
  BY DEF KeepsHealth
<1> DEFINE s == RayDiv(n, li[a])
<1>1. s \in Nat /\ \A b \in Asset : hBal[v][b] \in Nat
  BY BalanceType, IndexType, RayDivType DEF Account
<1>2. /\ hBal' = [hBal EXCEPT ![u][a] = hBal[u][a] + s]
      /\ \E cond : coll' = AddIf(coll, u, a, cond)
      /\ UNCHANGED <<config, eModes, price, vBal, sBal, li, vi, bor, emode>>
  BY DEF Supply
<1> HIDE DEF s
<1>3. coll[v] \subseteq coll'[v]
  BY <1>2 DEF AddIf, TypeOK
<1>4. \A b \in coll[v] : hBal'[v][b] >= hBal[v][b]
  <2> SUFFICES ASSUME NEW b \in coll[v] PROVE hBal'[v][b] >= hBal[v][b]
    OBVIOUS
  <2>1. b \in Asset /\ hBal \in [Account -> [Asset -> Nat]] /\ u \in Account /\ v \in Account
    BY DEF TypeOK, Account
  <2>2. hBal'[v][b] = IF v = u /\ b = a THEN hBal[v][b] + s ELSE hBal[v][b]
    BY <1>2, <2>1
  <2>3. hBal[v][b] \in Nat
    BY <1>1, <2>1
  <2> QED BY <1>1, <2>2, <2>3, SMT
<1> QED BY <1>2, <1>3, <1>4, UntouchedStaysHealthy

\* Who takes hTokens away is checked, unless they back nothing he owes.
LEMMA WithdrawKeepsHealth ==
    ASSUME TypeOK, TypeOK', NEW u \in User, NEW a \in Asset, NEW n \in Nat,
           Withdraw(u, a, n)
    PROVE  KeepsHealth
<1> SUFFICES ASSUME NEW v \in User PROVE StaysHealthy(v)
  BY DEF KeepsHealth
<1> DEFINE k == hBal[u][a] - RayDiv(n, li[a])
<1>1. /\ hBal' = [hBal EXCEPT ![u][a] = k]
      /\ \E cond : coll' = RemoveIf(coll, u, a, cond)
      /\ UNCHANGED <<config, eModes, price, vBal, sBal, li, vi, bor, emode>>
      /\ a \in coll[u] /\ bor[u] # {} => HealthyAndLtvOK(u, a)'
  BY DEF Withdraw
<1> HIDE DEF k
<1>2. /\ hBal \in [Account -> [Asset -> Nat]] /\ coll \in [User -> SUBSET Asset]
      /\ u \in Account /\ v \in Account
  BY DEF TypeOK, Account
<1>3. CASE v # u
  <2>1. hBal'[v] = hBal[v] /\ coll'[v] = coll[v]
    BY <1>1, <1>2, <1>3 DEF RemoveIf
  <2> QED BY <1>1, <2>1, StandingStaysHealthy DEF Stands
<1>4. CASE v = u /\ a \in coll[u] /\ bor[u] # {}
  BY <1>1, <1>4 DEF HealthyAndLtvOK, StaysHealthy
<1>5. CASE v = u /\ bor[u] = {}
  <2>1. Healthy(v)'
    BY <1>1, <1>5, DebtlessIsHealthy
  <2> QED BY <2>1 DEF StaysHealthy
<1>6. CASE v = u /\ a \notin coll[u]
  <2>1. coll'[v] = coll[v]
    BY <1>1, <1>2, <1>6 DEF RemoveIf
  <2>2. \A b \in coll[v] : hBal'[v][b] = hBal[v][b] /\ hBal[v][b] \in Nat
    BY <1>1, <1>2, <1>6
  <2>3. \A b \in coll[v] : hBal'[v][b] >= hBal[v][b]
    BY <2>2, SMT
  <2> QED BY <1>1, <2>1, <2>3, UntouchedStaysHealthy
<1> QED BY <1>3, <1>4, <1>5, <1>6

\* The same of a transfer, which gives the recipient collateral.
LEMMA TransferKeepsHealth ==
    ASSUME TypeOK, TypeOK', NEW u \in User, NEW to \in User, NEW a \in Asset,
           NEW n \in Nat, Transfer(u, to, a, n)
    PROVE  KeepsHealth
<1> SUFFICES ASSUME NEW v \in User PROVE StaysHealthy(v)
  BY DEF KeepsHealth
<1> DEFINE s == RayDiv(n, li[a])
<1>1. s \in Nat /\ li[a] \in Nat \ {0}
  BY IndexType, RayDivType
<1>2. /\ u # to /\ hBal' = [hBal EXCEPT ![u][a] = @ - s, ![to][a] = @ + s]
      /\ \E less, more : coll' = AddIf(RemoveIf(coll, u, a, n # 0 /\ less), to, a, more)
      /\ UNCHANGED <<config, eModes, price, vBal, sBal, li, vi, bor, emode>>
      /\ n # 0 /\ a \in coll[u] /\ bor[u] # {} => HealthyAndLtvOK(u, a)'
  BY DEF Transfer
<1>3. n = 0 => s = 0
  BY <1>1, NothingScaled
<1> HIDE DEF s
<1>4. /\ hBal \in [Account -> [Asset -> Nat]] /\ coll \in [User -> SUBSET Asset]
      /\ u \in Account /\ v \in Account /\ to \in Account
  BY DEF TypeOK, Account
<1>5. \A b \in Asset : /\ hBal[v][b] \in Nat
                       /\ hBal'[v][b] = IF b = a /\ v = u THEN hBal[v][b] - s
                                        ELSE IF b = a /\ v = to THEN hBal[v][b] + s
                                        ELSE hBal[v][b]
  BY <1>2, <1>4
<1>6. CASE v # u
  <2>1. coll[v] \subseteq coll'[v] /\ coll[v] \subseteq Asset
    BY <1>2, <1>4, <1>6 DEF AddIf, RemoveIf
  <2>2. \A b \in coll[v] : hBal'[v][b] >= hBal[v][b]
    BY <1>1, <1>5, <1>6, <2>1, SMT
  <2> QED BY <1>2, <2>1, <2>2, UntouchedStaysHealthy
<1>7. CASE v = u /\ n # 0 /\ a \in coll[u] /\ bor[u] # {}
  BY <1>2, <1>7 DEF HealthyAndLtvOK, StaysHealthy
<1>8. CASE v = u /\ bor[u] = {}
  <2>1. Healthy(v)'
    BY <1>2, <1>8, DebtlessIsHealthy
  <2> QED BY <2>1 DEF StaysHealthy
<1>9. CASE v = u /\ (n = 0 \/ a \notin coll[u])
  <2>1. coll'[v] = coll[v] /\ coll[v] \subseteq Asset
    <3>1. PICK less, more :
             coll' = AddIf(RemoveIf(coll, u, a, n # 0 /\ less), to, a, more)
      BY <1>2
    <3> DEFINE f == RemoveIf(coll, u, a, n # 0 /\ less)
    <3>2. f \in [User -> SUBSET Asset]
      BY <1>4, FlagType
    <3>3. f[v] = coll[v]
      BY <1>4, <1>9 DEF RemoveIf
    <3> HIDE DEF f
    <3>4. AddIf(f, to, a, more)[v] = f[v]
      BY <1>2, <1>9, <3>2 DEF AddIf
    <3> QED BY <1>4, <3>1, <3>3, <3>4 DEF f
  <2>2. \A b \in coll[v] : hBal'[v][b] >= hBal[v][b]
    BY <1>1, <1>3, <1>5, <1>9, <2>1, SMT
  <2> QED BY <1>2, <2>1, <2>2, UntouchedStaysHealthy
<1> QED BY <1>6, <1>7, <1>8, <1>9

\* Setting a collateral bit gives collateral, and clearing one is checked.
LEMMA CollateralBitKeepsHealth ==
    ASSUME TypeOK, TypeOK', NEW u \in User, NEW a \in Asset,
           EnableCollateral(u, a) \/ DisableCollateral(u, a)
    PROVE  KeepsHealth
<1> SUFFICES ASSUME NEW v \in User PROVE StaysHealthy(v)
  BY DEF KeepsHealth
<1>1. UNCHANGED <<config, eModes, price, hBal, vBal, sBal, li, vi, bor, emode>>
  BY DEF EnableCollateral, DisableCollateral
<1>2. coll \in [User -> SUBSET Asset]
  BY DEF TypeOK
<1>3. CASE EnableCollateral(u, a)
  <2>1. coll[v] \subseteq coll'[v]
    BY <1>2, <1>3 DEF EnableCollateral
  <2>2. \A b \in coll[v] : hBal'[v][b] = hBal[v][b] /\ hBal[v][b] \in Nat
    BY <1>1, <1>2, BalanceType DEF Account
  <2>3. \A b \in coll[v] : hBal'[v][b] >= hBal[v][b]
    BY <2>2, SMT
  <2> QED BY <1>1, <2>1, <2>3, UntouchedStaysHealthy
<1>4. CASE DisableCollateral(u, a) /\ v = u
  BY <1>4 DEF DisableCollateral, HealthyAndLtvOK, StaysHealthy
<1>5. CASE DisableCollateral(u, a) /\ v # u
  <2>1. coll'[v] = coll[v]
    BY <1>2, <1>5 DEF DisableCollateral
  <2> QED BY <1>1, <2>1, StandingStaysHealthy DEF Stands
<1> QED BY <1>3, <1>4, <1>5

\* Leaving a category is checked, and entering one is excepted.
LEMMA EModeKeepsHealth ==
    ASSUME TypeOK, TypeOK', NEW u \in User, NEW category \in Category \cup {NoCategory},
           SetUserEMode(u, category)
    PROVE  KeepsHealth
<1> SUFFICES ASSUME NEW v \in User PROVE StaysHealthy(v)
  BY DEF KeepsHealth
<1>1. /\ UNCHANGED <<config, eModes, price, hBal, vBal, sBal, li, vi, coll, bor>>
      /\ emode' = [emode EXCEPT ![u] = category]
      /\ emode[u] # NoCategory => Healthy(u)'
  BY DEF SetUserEMode
<1>2. emode'[v] = IF v = u THEN category ELSE emode[v]
  BY <1>1 DEF TypeOK
<1>3. CASE emode'[v] = emode[v]
  BY <1>1, <1>3, StandingStaysHealthy DEF Stands
<1>4. CASE emode'[v] # emode[v]
  BY <1>1, <1>2, <1>4 DEF StaysHealthy
<1> QED BY <1>3, <1>4

\* Seizing hTokens takes none from others than the liquidated.
LEMMA SeizedGives ==
    ASSUME TypeOK, NEW u \in User, NEW liquidator \in User, NEW c \in Asset,
           NEW quote, quote.collateral \in Nat, NEW receiveHToken \in BOOLEAN,
           SeizeHTokens(liquidator, u, c, quote, receiveHToken),
           NEW v \in User, v # u, NEW b \in Asset
    PROVE  hBal'[v][b] >= hBal[v][b]
<1> DEFINE seized == RayDiv(quote.collateral, li[c])
           left == IF receiveHToken /\ liquidator = u THEN hBal[u][c]
                   ELSE hBal[u][c] - seized
           fee == Lesser(RayDiv(quote.fee, li[c]), left)
           paid == [hBal EXCEPT ![u][c] = left]
           received == IF receiveHToken /\ liquidator # u
                       THEN [paid EXCEPT ![liquidator][c] = @ + seized] ELSE paid
           charged == [received EXCEPT ![u][c] = @ - fee]
<1>1. /\ hBal \in [Account -> [Asset -> Nat]] /\ hBal[v][b] \in Nat /\ seized \in Nat
      /\ v \in Account /\ v # Treasury /\ v # u
  BY BalanceType, IndexType, RayDivType, AccountAssumption DEF TypeOK, Account
<1>2. hBal' = [charged EXCEPT ![Treasury][c] = charged[Treasury][c] + fee]
  BY DEF SeizeHTokens
<1> HIDE DEF seized, left, fee
<1>3. DOMAIN paid = Account /\ paid[v] = hBal[v]
  BY <1>1
<1> HIDE DEF paid
<1>4. /\ DOMAIN received = Account
      /\ received[v] = IF receiveHToken /\ liquidator # u /\ v = liquidator
                       THEN [hBal[v] EXCEPT ![c] = hBal[v][c] + seized] ELSE hBal[v]
  BY <1>1, <1>3
<1> HIDE DEF received
<1>5. DOMAIN charged = Account /\ charged[v] = received[v]
  BY <1>1, <1>4
<1> HIDE DEF charged
<1>6. hBal'[v] = received[v]
  BY <1>1, <1>2, <1>5
<1>7. hBal'[v][b] = hBal[v][b] \/ hBal'[v][b] = hBal[v][b] + seized
  BY <1>1, <1>4, <1>6
<1> QED BY <1>1, <1>7, SMT

\* A liquidation is of an unhealthy account, and gives others collateral.
LEMMA LiquidateKeepsHealth ==
    ASSUME IInv, TypeOK', NEW liquidator \in User, NEW u \in User, NEW c \in Asset,
           NEW d \in Asset, NEW n \in Nat, NEW receiveHToken \in BOOLEAN,
           Liquidate(liquidator, u, c, d, n, receiveHToken)
    PROVE  KeepsHealth
<1> SUFFICES ASSUME NEW v \in User PROVE StaysHealthy(v)
  BY DEF KeepsHealth
<1> DEFINE quote == Quote(u, c, d, DebtToLiquidate(u, d, n))
<1>1. TypeOK /\ SoundInv
  BY DEF IInv
<1>2. /\ LiquidationAllowed(u, c, d) /\ BurnDebt(u, d, quote.debt)
      /\ SeizeHTokens(liquidator, u, c, quote, receiveHToken)
      /\ UNCHANGED <<config, eModes, price, li, vi, emode>>
      /\ \E cond : bor' = RemoveIf(bor, u, d, cond)
      /\ \E less, more : coll' = AddIf(RemoveIf(coll, u, c, less), liquidator, c, more)
  BY DEF Liquidate
<1>3. quote.collateral \in Nat
  <2>1. c \in Backing(u)
    BY <1>2 DEF LiquidationAllowed
  <2> QED BY <1>1, <2>1, QuoteType, RepaidDebtType
<1> HIDE DEF quote
<1>4. CASE v = u
  BY <1>2, <1>4 DEF LiquidationAllowed, StaysHealthy, Healthy
<1>5. CASE v # u
  <2>1. /\ coll \in [User -> SUBSET Asset] /\ bor \in [User -> SUBSET Asset]
        /\ vBal \in [User -> [Asset -> Nat]] /\ sBal \in [User -> [Asset -> Nat]]
    BY <1>1 DEF TypeOK
  <2>2. bor'[v] \subseteq bor[v]
    BY <1>2, <1>5, <2>1 DEF RemoveIf
  <2>3. coll[v] \subseteq coll'[v]
    <3>1. PICK less, more : coll' = AddIf(RemoveIf(coll, u, c, less), liquidator, c, more)
      BY <1>2
    <3> DEFINE f == RemoveIf(coll, u, c, less)
    <3>2. f \in [User -> SUBSET Asset]
      BY <2>1, FlagType
    <3>3. f[v] = coll[v]
      BY <1>5, <2>1 DEF RemoveIf
    <3> HIDE DEF f
    <3>4. f[v] \subseteq AddIf(f, liquidator, c, more)[v]
      BY <3>2 DEF AddIf
    <3> QED BY <3>1, <3>3, <3>4 DEF f
  <2>4. vBal'[v] = vBal[v] /\ sBal'[v] = sBal[v]
    BY <1>2, <1>5, <2>1 DEF BurnDebt, BurnVariable, BurnStable
  <2>5. \A b \in coll[v] : hBal'[v][b] >= hBal[v][b]
    BY <1>1, <1>2, <1>3, <1>5, <2>1, SeizedGives
  <2> QED BY <1>1, <1>2, <2>2, <2>3, <2>4, <2>5, UntouchedStaysHealthy
<1> QED BY <1>4, <1>5

\* Borrowing, repaying and swapping: the account's own, but for the roundings.
LEMMA DebtCallKeepsHealth ==
    ASSUME IInv, IInv', NEW u \in User, NEW a \in Asset,
           \/ \E n \in Nat, mode \in RateMode : Borrow(u, a, n, mode)
           \/ \E n \in Nat, mode \in RateMode, useHTokens \in BOOLEAN :
                 Repay(u, a, n, mode, useHTokens)
           \/ SwapToVariable(u, a) \/ SwapToStable(u, a)
    PROVE  KeepsHealth
<1> SUFFICES ASSUME NEW v \in User PROVE StaysHealthy(v)
  BY DEF KeepsHealth
<1>1. TypeOK /\ TypeOK'
  BY DEF IInv
<1>2. /\ hBal \in [Account -> [Asset -> Nat]] /\ bor \in [User -> SUBSET Asset]
      /\ vBal \in [User -> [Asset -> Nat]] /\ sBal \in [User -> [Asset -> Nat]]
      /\ u \in Account /\ v \in Account
  BY <1>1 DEF TypeOK, Account
<1>3. ASSUME NEW n \in Nat, NEW mode \in RateMode, Borrow(u, a, n, mode)
      PROVE  StaysHealthy(v)
  <2>1. CASE v = u
    <3>1. vBal'[u][a] # vBal[u][a] \/ sBal'[u][a] # sBal[u][a]
      BY <1>1, <1>3, LoanMoves
    <3>2. BackedButFor(u, RoundingWorth(u, a))
      BY <1>3, BorrowBacked
    <3> QED BY <2>1, <3>1, <3>2 DEF StaysHealthy
  <2>2. CASE v # u
    <3>1. UNCHANGED <<config, eModes, price, hBal, li, vi, coll, emode>>
      BY <1>3 DEF Borrow
    <3>2. vBal'[v] = vBal[v] /\ sBal'[v] = sBal[v] /\ bor'[v] = bor[v]
      <4>1. MintDebt(u, a, n, mode)
        BY <1>3 DEF Borrow
      <4> QED BY <1>2, <2>2, <4>1 DEF MintDebt, AddIf
    <3> QED BY <1>1, <3>1, <3>2, StandingStaysHealthy DEF Stands
  <2> QED BY <2>1, <2>2
<1>4. ASSUME NEW n \in Nat, NEW mode \in RateMode, NEW useHTokens \in BOOLEAN,
             Repay(u, a, n, mode, useHTokens)
      PROVE  StaysHealthy(v)
  <2>1. CASE v = u /\ Healthy(u)
    <3>1. /\ MovesIn(u, a)
          /\ vBal'[u][a] # vBal[u][a] \/ sBal'[u][a] # sBal[u][a]
          /\ Debt(u, a)' <= Debt(u, a) + Drift(vi[a])
          /\ Debt(u, a)' + HBalance(u, a)
                <= Debt(u, a) + HBalance(u, a)' + Drift(vi[a]) + Drift(li[a])
      BY <1>1, <1>4, RepayMoves
    <3>2. BackedButFor(u, RoundingWorth(u, a))
      BY <2>1, <3>1, OwnCallBacked
    <3> QED BY <2>1, <3>1, <3>2 DEF StaysHealthy
  <2>2. CASE v = u /\ ~Healthy(u)
    BY <2>2 DEF StaysHealthy
  <2>3. CASE v # u
    <3>1. /\ UNCHANGED <<config, eModes, price, li, vi, coll, emode>>
          /\ \E cond : bor' = RemoveIf(bor, u, a, cond)
          /\ \E x : \/ BurnVariable(u, a, x) /\ UNCHANGED sBal
                    \/ BurnStable(u, a, x) /\ UNCHANGED vBal
          /\ \E x : Payment(u, a, x, useHTokens)
      BY <1>4 DEF Repay
    <3>2. vBal'[v] = vBal[v] /\ sBal'[v] = sBal[v]
      BY <1>2, <2>3, <3>1 DEF BurnVariable, BurnStable
    <3>3. bor'[v] = bor[v]
      BY <1>2, <2>3, <3>1 DEF RemoveIf
    <3>4. hBal'[v] = hBal[v]
      BY <1>2, <2>3, <3>1 DEF Payment
    <3> QED BY <1>1, <3>1, <3>2, <3>3, <3>4, StandingStaysHealthy DEF Stands
  <2> QED BY <2>1, <2>2, <2>3
<1>5. ASSUME SwapToVariable(u, a) \/ SwapToStable(u, a)
      PROVE  StaysHealthy(v)
  <2>1. CASE v = u /\ Healthy(u)
    <3>1. /\ MovesIn(u, a)
          /\ vBal'[u][a] # vBal[u][a] \/ sBal'[u][a] # sBal[u][a]
          /\ Debt(u, a)' <= Debt(u, a) + Drift(vi[a])
          /\ Debt(u, a)' + HBalance(u, a)
                <= Debt(u, a) + HBalance(u, a)' + Drift(vi[a]) + Drift(li[a])
      BY <1>1, <1>5, SwapMoves
    <3>2. BackedButFor(u, RoundingWorth(u, a))
      BY <2>1, <3>1, OwnCallBacked
    <3> QED BY <2>1, <3>1, <3>2 DEF StaysHealthy
  <2>2. CASE v = u /\ ~Healthy(u)
    BY <2>2 DEF StaysHealthy
  <2>3. CASE v # u
    <3>1. UNCHANGED <<config, eModes, price, hBal, li, vi, coll, bor, emode>>
      BY <1>5 DEF SwapToVariable, SwapToStable
    <3>2. vBal'[v] = vBal[v] /\ sBal'[v] = sBal[v]
      BY <1>2, <1>5, <2>3 DEF SwapToVariable, SwapToStable, BurnVariable
    <3> QED BY <1>1, <3>1, <3>2, StandingStaysHealthy DEF Stands
  <2> QED BY <2>1, <2>2, <2>3
<1> QED BY <1>3, <1>4, <1>5

\* Every step but time, and a price, keeps every account's health.
LEMMA StepKeepsHealth ==
    ASSUME IInv, Next, ~Environment PROVE KeepsHealth
<1>1. IInv' /\ TypeOK /\ TypeOK'
  <2>1. IInv'
    BY StepIInv
  <2> QED BY <2>1 DEF IInv
<1>2. /\ ~(\E a \in Asset, income, variable, stable \in Growth :
              Accrue(a, income, variable, stable))
      /\ ~(\E source \in Asset \cup Category : \E p \in Prices[source] :
              SetPrice(source, p))
  BY DEF Environment
<1> QED
  BY <1>1, <1>2, StepCases, SupplyKeepsHealth, WithdrawKeepsHealth, TransferKeepsHealth,
     CollateralBitKeepsHealth, DebtCallKeepsHealth, LiquidateKeepsHealth, EModeKeepsHealth

-----------------------------------------------------------------------------
(* The theorems.                                                           *)

\* The exclusivity rules hold at first, and every step keeps them.
LEMMA FlagsCorrect == Spec => [](IInv /\ FlagInv)
<1>1. Init => FlagInv
  <2>1. Init => TypeOK
    BY InitIInv DEF IInv
  <2> QED
    BY <2>1 DEF Init, FlagInv, IsolatedIsAlone, SiloedIsAlone, BitsInCategory
<1>2. IInv /\ FlagInv /\ [Next]_vars => FlagInv'
  <2> SUFFICES ASSUME IInv, FlagInv, [Next]_vars PROVE FlagInv'
    OBVIOUS
  <2>1. TypeOK'
    BY StepIInv DEF IInv
  <2>2. CASE Next
    <3>1. IsolatedIsAlone'
      BY <2>2, IsolatedStep DEF FlagInv
    <3>2. SiloedIsAlone'
      BY <2>2, BitFrame, SiloedStep DEF FlagInv
    <3>3. BitsInCategory'
      BY <2>2, BitFrame, CategoryStep DEF FlagInv
    <3> QED
      BY <2>1, <3>1, <3>2, <3>3 DEF FlagInv
  <2>3. CASE UNCHANGED vars
    BY <2>1, <2>3 DEF vars, FlagInv, IsolatedIsAlone, SiloedIsAlone, BitsInCategory
  <2> QED
    BY <2>2, <2>3
<1> QED
  BY <1>1, <1>2, InitIInv, StepIInv, PTL DEF Spec

\* A reserve with a debt ceiling is the only collateral of whom it backs.
THEOREM IsolatedAlwaysAlone == Spec => []IsolatedIsAlone
<1>1. IInv /\ FlagInv => IsolatedIsAlone
  BY DEF FlagInv
<1> QED
  BY <1>1, FlagsCorrect, PTL

\* A siloed reserve is the only one its borrowers borrow.
THEOREM SiloedAlwaysAlone == Spec => []SiloedIsAlone
<1>1. IInv /\ FlagInv => SiloedIsAlone
  BY DEF FlagInv
<1> QED
  BY <1>1, FlagsCorrect, PTL

\* In eMode a user only owes reserves of his category: what the bits say of it
\* holds of the debts, because every debt is flagged.
THEOREM EModeDebtAlwaysInCategory == Spec => []EModeDebtInCategory
<1>1. IInv /\ FlagInv => EModeDebtInCategory
  <2> SUFFICES ASSUME IInv, FlagInv, NEW u \in User, emode[u] # NoCategory,
                      NEW a \in Asset, Debt(u, a) # 0
               PROVE  config[a].category = emode[u]
    BY DEF EModeDebtInCategory
  <2>1. TypeOK
    BY DEF IInv
  <2>2. vBal[u][a] # 0 \/ sBal[u][a] # 0
    BY <2>1, BalanceType, WholeVariableDebt, SMT DEF Debt
  <2>3. a \in bor[u]
    BY <2>2 DEF IInv, DebtIsFlagged
  <2> QED
    BY <2>3 DEF FlagInv, BitsInCategory
<1> QED
  BY <1>1, FlagsCorrect, PTL

\* While no interest accrues, no sequence of supplies, borrows, repayments in
\* underlying or in hTokens, swaps, transfers and liquidations takes underlying
\* that nobody claims out of a reserve, or leaves a claim that nothing covers.
THEOREM NothingIsLost ==
    ASSUME Growth \subseteq {RAY} PROVE Spec => []Conservation
<1>1. Init => AtPar /\ Balanced
  BY InitBooks
<1>2. IInv /\ AtPar /\ Balanced /\ [Next]_vars => AtPar' /\ Balanced'
  <2>1. UNCHANGED vars /\ AtPar /\ Balanced => AtPar' /\ Balanced'
    BY DEF vars, AtPar, Balanced, Lent, ScaledSupply
  <2> QED
    BY <2>1, BalancedStep DEF IInv
<1>3. IInv /\ AtPar /\ Balanced => Conservation
  BY BalancedConserves DEF IInv
<1> QED
  BY <1>1, <1>2, <1>3, InitIInv, StepIInv, PTL DEF Spec

\* Whatever the prices, units and bonuses, a liquidation repays no more than it
\* may, seizes no more than there is, and seizes no more than the repaid debt and
\* the bonus are worth, but for the rounding.
THEOREM QuotesAlwaysFair == Spec => []QuoteIsFair
<1>1. IInv => QuoteIsFair
  BY FairQuotes DEF IInv
<1> QED
  BY <1>1, InitIInv, StepIInv, PTL DEF Spec

\* No call makes a healthy account unhealthy.
THEOREM CallsAlwaysKeepHealth == Spec => CallsKeepHealth
<1> DEFINE Box == KeepsHealth \/ Environment
<1>1. IInv /\ [Next]_vars => [Box]_vars
  BY StepKeepsHealth
<1>2. Spec => [][Box]_vars
  <2> HIDE DEF Box
  <2> QED BY <1>1, InitIInv, StepIInv, PTL DEF Spec
<1> QED BY <1>2 DEF CallsKeepHealth

\* An unhealthy account can be liquidated at once by anyone who takes hTokens, as
\* soon as a collateral is worth one unit of a debt and the bonus: no close factor,
\* cap by the balance, rounding of scaled units, isolated debt, or collateral flag
\* of the liquidator makes the call revert.  This is UnhealthyIsLiquidatable with
\* the next state that ENABLED says there is, for any prices and configuration and
\* indexes up to two.
THEOREM UnhealthyHasLiquidation ==
    ASSUME IInv, NEW by \in User, NEW u \in User, NEW c \in Asset, NEW d \in Asset,
           ~Healthy(u), c \in Backing(u), Debt(u, d) # 0, Usable(c), Usable(d),
           CollateralValue(u, c) * config[d].unit * PERCENTAGE_FACTOR
              >= DebtPrice(u, d) * LiquidationBonus(u, c),
           vi[d] <= 2 * RAY, cash[d] + Debt(u, d) <= MaxCash,
           Liquidated(by, u, c, d)
    PROVE  LiquidationOf(u)
<1> DEFINE repaid == DebtToLiquidate(u, d, Debt(u, d))
           quote == Quote(u, c, d, repaid)
           pc == CollateralPrice(u, c) * config[d].unit
           pd == DebtPrice(u, d) * config[c].unit
           bonus == LiquidationBonus(u, c)
           wanted == PercentMul((pd * repaid) \div pc, bonus)
           capped == wanted > HBalance(u, c)
           seized == IF capped THEN HBalance(u, c) ELSE wanted
           fee == IF config[c].fee = 0 THEN 0
                  ELSE PercentMul(seized - PercentDiv(seized, bonus), config[c].fee)
           debt == IF capped THEN PercentDiv((pc * seized) \div pd, bonus) ELSE repaid
<1>1. TypeOK /\ SoundInv
  BY DEF IInv
<1>2. LiquidationAllowed(u, c, d)
  BY DEF LiquidationAllowed, Healthy
<1>3. Debt(u, d) \in Nat \ {0} /\ HBalance(u, c) \in Nat /\ repaid \in Nat
  <2>1. Debt(u, d) \in Nat /\ HBalance(u, c) \in Nat
    BY <1>1, BalanceType DEF Account
  <2> QED BY <1>1, <2>1, RepaidDebtType
\* The close factor leaves a unit to repay.
<1>4. repaid # 0
  <2> DEFINE part == IF ~HealthBelow(u, CloseFactorHealth + 1) THEN CloseFactor
                     ELSE PERCENTAGE_FACTOR
             share == PercentMul(Debt(u, d), part)
  <2>1. repaid = Lesser(Debt(u, d), share)
    BY Zenon DEF DebtToLiquidate
  <2>2. part \in Nat /\ part >= HALF_PERCENTAGE_FACTOR
    BY HalfFactor, SMT DEF CloseFactor, HALF_PERCENTAGE_FACTOR
  <2> HIDE DEF part
  <2>3. share \in Nat /\ 1 <= share
    <3> DEFINE m == Debt(u, d) * part + HALF_PERCENTAGE_FACTOR
    <3>1. Debt(u, d) * part \in Nat /\ part <= Debt(u, d) * part
      BY <1>3, <2>2, SMT
    <3>2. m \in Nat /\ PERCENTAGE_FACTOR * 1 <= m
      BY <2>2, <3>1, HalfFactor, SMT
    <3> HIDE DEF m
    <3>3. 1 <= m \div PERCENTAGE_FACTOR /\ m \div PERCENTAGE_FACTOR \in Nat
      BY <3>2, HalfFactor, DivAtLeast, DivType
    <3> QED BY <3>3 DEF PercentMul, m
  <2> HIDE DEF share, repaid
  <2> QED BY <1>3, <2>1, <2>3, SMT DEF Lesser
<1>5. bonus \in Nat \ {0} /\ bonus > PERCENTAGE_FACTOR
  BY <1>1, BonusBound, HalfFactor, SMT
<1>6. /\ CollateralPrice(u, c) \in Nat \ {0} /\ DebtPrice(u, d) \in Nat \ {0}
      /\ config[c].unit \in Nat \ {0} /\ config[d].unit \in Nat \ {0}
  <2>1. config[c].unit \in Nat \ {0} /\ config[d].unit \in Nat \ {0}
    BY <1>1, SMT DEF TypeOK, AssetConfig
  <2> QED BY <1>1, <2>1, PriceType
<1>7. PercentDiv((pc * HBalance(u, c)) \div pd, bonus) # 0
  <2>1. ((HBalance(u, c) * CollateralPrice(u, c)) \div config[c].unit) * config[d].unit
            * PERCENTAGE_FACTOR >= DebtPrice(u, d) * bonus
    BY Zenon DEF CollateralValue, CollateralPrice
  <2> HIDE DEF bonus
  <2> QED BY <1>3, <1>5, <1>6, <2>1, QuotedDebt
<1>8. quote = [collateral |-> seized - fee, debt |-> debt, fee |-> fee]
  BY DEF Quote
<1>9. quote.debt = debt
  <2> HIDE DEF seized, fee, debt
  <2> QED BY <1>8
<1>10. debt # 0
  <2> HIDE DEF repaid, pc, pd, bonus, wanted
  <2> QED BY <1>4, <1>7
<1>11. quote.debt \in Nat
  <2> HIDE DEF repaid
  <2> QED BY <1>1, <1>3, QuoteType
<1> HIDE DEF quote, debt
<1>12. RayDiv(quote.debt, vi[d]) # 0
  <2>1. quote.debt \in Nat \ {0}
    BY <1>9, <1>10, <1>11
  <2> QED BY <1>1, <2>1, IndexType, SmallestAmount
<1>13. Liquidate(by, u, c, d, Debt(u, d), TRUE)
  BY <1>1, <1>2, <1>12, LiquidationGoesThrough DEF quote
<1> QED
  BY <1>2, <1>13, Zenon DEF LiquidationOf

\* A user can repay all he owes of a usable reserve, in either mode: the debt he
\* reads, rounded, burns all his scaled units and no more (repay with type(uint).max).
THEOREM DebtCanBeRepaid ==
    ASSUME IInv, NEW u \in User, NEW a \in Asset, NEW mode \in RateMode, Usable(a),
           NEW owed, owed = (IF mode = "stable" THEN sBal[u][a] ELSE VariableDebt(u, a)),
           owed # 0, cash[a] + owed <= MaxCash, Repaid(u, a, mode)
    PROVE  Repay(u, a, owed, mode, FALSE)
<1>1. TypeOK
  BY DEF IInv
<1>2. /\ vBal[u][a] \in Nat /\ sBal[u][a] \in Nat /\ VariableDebt(u, a) \in Nat
  BY <1>1, BalanceType
<1>3. owed \in Nat /\ owed <= owed /\ Lesser(owed, owed) = owed
  <2>1. owed \in Nat
    BY <1>2
  <2> QED BY <2>1, SMT DEF Lesser
<1>4. /\ bor' = RemoveIf(bor, u, a, Debt(u, a) = owed)
      /\ isoDebt' = RepaidIsolatedDebt(u, a, owed, coll)
      /\ cash' = [cash EXCEPT ![a] = @ + owed]
      /\ UNCHANGED <<hBal, config, eModes, price, li, vi, coll, emode>>
  BY Zenon DEF Repaid
<1>5. Payment(u, a, owed, FALSE)
  BY <1>4, Zenon DEF Payment
<1>6. CASE mode = "stable"
  <2>1. owed = sBal[u][a]
    BY <1>6, Zenon
  <2>2. vBal' = vBal /\ sBal' = [sBal EXCEPT ![u][a] = 0]
    BY <1>6, Zenon DEF Repaid
  <2>3. sBal[u][a] - sBal[u][a] = 0 /\ sBal[u][a] <= sBal[u][a]
    BY <1>2, NoneLeft
  <2>4. sBal' = [sBal EXCEPT ![u][a] = @ - owed]
    BY <2>1, <2>2, <2>3, Zenon
  <2>5. BurnStable(u, a, owed)
    BY <2>1, <2>3, <2>4, Zenon DEF BurnStable
  <2> QED
    BY <1>3, <1>4, <1>5, <1>6, <2>1, <2>2, <2>5, Zenon DEF Repay
<1>7. CASE mode = "variable"
  <2>1. owed = VariableDebt(u, a)
    BY <1>7, SMT
  <2>2. sBal' = sBal /\ vBal' = [vBal EXCEPT ![u][a] = 0]
    BY <1>7, SMT DEF Repaid
  <2>3. RayDiv(owed, vi[a]) = vBal[u][a] /\ vBal[u][a] # 0
    BY <1>1, <2>1, WholeVariableDebt
  <2>4. vBal[u][a] - vBal[u][a] = 0 /\ vBal[u][a] <= vBal[u][a]
    BY <1>2, NoneLeft
  <2>5. vBal' = [vBal EXCEPT ![u][a] = @ - RayDiv(owed, vi[a])]
    BY <2>2, <2>3, <2>4, Zenon
  <2>6. BurnVariable(u, a, owed)
    BY <2>3, <2>4, <2>5, Zenon DEF BurnVariable
  <2>7. mode # "stable"
    BY <1>7, SMT
  <2> QED
    BY <1>3, <1>4, <1>5, <1>7, <2>1, <2>2, <2>6, <2>7, Zenon DEF Repay
<1> QED
  BY <1>6, <1>7 DEF RateMode

\* A user with no borrowing bit left can withdraw all he has in a usable reserve as
\* soon as it holds that much: the balance he reads, rounded, is all his scaled
\* units and no more (withdraw with type(uint).max).
THEOREM DepositCanBeWithdrawn ==
    ASSUME IInv, NEW u \in User, NEW a \in Asset, Usable(a), bor[u] = {},
           HBalance(u, a) # 0, HBalance(u, a) <= cash[a], Withdrawn(u, a)
    PROVE  Withdraw(u, a, HBalance(u, a))
<1>1. TypeOK
  BY DEF IInv
<1>2. hBal[u][a] \in Nat /\ li[a] \in Nat /\ li[a] >= RAY /\ HBalance(u, a) \in Nat
  BY <1>1, BalanceType, IndexType DEF Account
<1>3. RayDiv(HBalance(u, a), li[a]) = hBal[u][a] /\ hBal[u][a] # 0
  BY <1>2, RoundTrip, RayMulZero DEF HBalance
<1>4. hBal[u][a] - hBal[u][a] = 0 /\ hBal[u][a] <= hBal[u][a] /\ HBalance(u, a) <= HBalance(u, a)
  BY <1>2, NoneLeft
<1>5. hBal' = [hBal EXCEPT ![u][a] = @ - RayDiv(HBalance(u, a), li[a])]
  BY <1>3, <1>4, Zenon DEF Withdrawn
<1>6. coll' = RemoveIf(coll, u, a, HBalance(u, a) = HBalance(u, a))
  BY Zenon DEF Withdrawn, RemoveIf
<1> QED
  BY <1>3, <1>4, <1>5, <1>6, Zenon DEF Withdrawn, Withdraw

=============================================================================
