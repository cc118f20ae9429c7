------------------------ MODULE ReserveRegistryProofs ------------------------
(***************************************************************************)
(* What the list of reserves guarantees for any number of assets, users    *)
(* and slots.                                                              *)
(***************************************************************************)
EXTENDS ReserveRegistry, WadRayProofs

\* The list and the reserves' ids are inverse to each other.
ListIsInverse ==
    /\ \A a \in Asset : reserves[a].initialized <=> IsListed(a)
    /\ \A a \in Asset : IsListed(a) => reservesList[reserves[a].id] = a
    /\ \A i \in Id : reservesList[i] # Zero => reserves[reservesList[i]].id = i
    /\ \A i \in Id : i >= reservesCount => reservesList[i] = Zero

\* u owes some unit of a, if only one that reads as nothing less than it is.
Owes(u, a) == variable[a][u] # 0 \/ stable[a][u] # 0

\* Nobody owes anything in an asset that is not listed.
UnlistedIsUnowed ==
    \A a \in Asset, u \in User : ~IsListed(a) => ~Owes(u, a)

IInv == TypeOK /\ ListIsInverse /\ UnlistedIsUnowed /\ DebtsHaveBits /\ BitsAreWalked

-----------------------------------------------------------------------------
\* The reserve in a slot is listed, under the number of the slot.
LEMMA SlotIsListed ==
    ASSUME TypeOK, ListIsInverse, NEW i \in Id, reservesList[i] # Zero
    PROVE  /\ reservesList[i] \in Asset
           /\ IsListed(reservesList[i])
           /\ reserves[reservesList[i]].id = i
  BY RegistryAssumption DEF TypeOK, ListIsInverse, IsListed

\* Listed assets have ids below the count, and different ones.
LEMMA IdsAreDistinct ==
    ASSUME TypeOK, ListIsInverse, NEW a \in Asset, IsListed(a)
    PROVE  /\ reserves[a].id \in Id
           /\ reserves[a].id < reservesCount
           /\ \A b \in Asset : IsListed(b) /\ reserves[b].id = reserves[a].id => b = a
<1>1. reserves[a].id \in Id
  BY DEF TypeOK
<1>2. reservesList[reserves[a].id] = a /\ a # Zero
  BY RegistryAssumption DEF ListIsInverse
<1>3. reserves[a].id < reservesCount
  BY <1>1, <1>2, RegistryAssumption DEF ListIsInverse, TypeOK, Id
<1> QED
  BY <1>1, <1>2, <1>3 DEF ListIsInverse

-----------------------------------------------------------------------------
\* The invariant holds at deployment.
LEMMA RegistryInit == Init => IInv
<1> SUFFICES ASSUME Init PROVE IInv
  OBVIOUS
<1> USE RegistryAssumption
<1>0. 0 \in Id
  BY DEF Id
<1>1. \A a \in Asset : ~IsListed(a) /\ ~reserves[a].initialized
  BY <1>0 DEF Init, IsListed, NoReserve
<1>2. TypeOK
  BY <1>0, HalfRay DEF Init, TypeOK, NoReserve
<1>3. ListIsInverse
  BY <1>1 DEF Init, ListIsInverse
<1>4. UnlistedIsUnowed
  BY DEF Init, UnlistedIsUnowed, Owes
<1>5. DebtsHaveBits
  BY <1>1 DEF Init, DebtsHaveBits, Listed
<1>6. BitsAreWalked
  BY DEF Init, BitsAreWalked
<1> QED
  BY <1>2, <1>3, <1>4, <1>5, <1>6 DEF IInv

\* What a call of a user leaves alone.
LEMMA RegistryStill ==
    ASSUME UNCHANGED registry, ListIsInverse
    PROVE  ListIsInverse' /\ \A a \in Asset : IsListed(a)' <=> IsListed(a)
  BY DEF registry, ListIsInverse, IsListed

\* Debts and their bits that stand still go on agreeing.
LEMMA DebtsStill ==
    ASSUME IInv, UNCHANGED <<registry, variable, stable, borrowingBits>>
    PROVE  DebtsHaveBits'
<1>1. Listed' = Listed /\ reserves' = reserves
  BY DEF registry, Listed, IsListed
<1> QED
  BY <1>1 DEF IInv, DebtsHaveBits

\* The bits of one listed asset move and the others stay: nobody else's debt loses
\* its bit, because no other listed asset has the id.
LEMMA OneIdMoves ==
    ASSUME IInv, NEW a \in Asset, IsListed(a), UNCHANGED registry,
           \A b \in Asset : b # a => variable'[b] = variable[b] /\ stable'[b] = stable[b],
           \A v \in User : Owes(v, a)' => reserves[a].id \in borrowingBits'[v],
           \A v \in User : \A i \in borrowingBits[v] : i # reserves[a].id => i \in borrowingBits'[v]
    PROVE  DebtsHaveBits'
<1>1. Listed' = Listed /\ reserves' = reserves
  BY DEF registry, Listed, IsListed
<1> SUFFICES ASSUME NEW v \in User, NEW b \in Listed, Owes(v, b)'
             PROVE  reserves[b].id \in borrowingBits'[v]
  BY <1>1 DEF DebtsHaveBits, Owes
<1>2. CASE b = a
  BY <1>2
<1>3. CASE b # a
  <2>1. Owes(v, b)
    BY <1>3 DEF Owes, Listed
  <2>2. reserves[b].id \in borrowingBits[v]
    BY <2>1 DEF IInv, DebtsHaveBits, Owes
  <2>3. reserves[b].id # reserves[a].id
    BY <1>3, IdsAreDistinct DEF IInv, Listed
  <2> QED
    BY <2>2, <2>3
<1> QED
  BY <1>2, <1>3

\* A call that concerns one listed asset only keeps the invariant.
LEMMA CallOutcome ==
    ASSUME IInv, NEW a \in Asset, IsListed(a), UNCHANGED registry, TypeOK', DebtsHaveBits',
           \A b \in Asset : b # a => variable'[b] = variable[b] /\ stable'[b] = stable[b],
           \A v \in User : collateralBits'[v] \cup borrowingBits'[v]
                \subseteq collateralBits[v] \cup borrowingBits[v] \cup {reserves[a].id}
    PROVE  IInv'
<1> USE DEF IInv
<1>1. ListIsInverse' /\ \A b \in Asset : IsListed(b)' <=> IsListed(b)
  BY RegistryStill
<1>2. UnlistedIsUnowed'
  BY <1>1 DEF UnlistedIsUnowed, Owes
<1>3. reserves[a].id < reservesCount /\ reservesCount' = reservesCount
  BY IdsAreDistinct DEF registry
<1>4. BitsAreWalked'
  BY <1>3 DEF BitsAreWalked
<1> QED
  BY <1>1, <1>2, <1>4

\* Every call that moves hTokens or sets a collateral bit keeps the invariant.
LEMMA CollateralStep ==
    ASSUME IInv, NEW a \in Asset, NEW u \in User, CollateralCall(u, a)
    PROVE  IInv'
<1> USE RegistryAssumption
<1>0. IsListed(a) => reserves[a].id \in Id
  BY DEF IInv, TypeOK
<1>1. ASSUME IsListed(a), UNCHANGED <<registry, borrowingBits, debts>>, TypeOK',
             \A v \in User : collateralBits'[v] \subseteq collateralBits[v] \cup {reserves[a].id}
      PROVE IInv'
  <2>1. UNCHANGED <<registry, variable, stable, borrowingBits>>
    BY <1>1 DEF debts
  <2> QED
    BY <1>1, <2>1, DebtsStill, CallOutcome
<1>2. ASSUME NEW used \in BOOLEAN, Supply(u, a, used) PROVE IInv'
  <2>1. IsListed(a) /\ UNCHANGED <<registry, borrowingBits, debts>>
    BY <1>2 DEF Supply
  <2>2. TypeOK'
    BY <1>0, <1>2 DEF Supply, Used, IInv, TypeOK, registry, debts
  <2>3. \A v \in User : collateralBits'[v] \subseteq collateralBits[v] \cup {reserves[a].id}
    BY <1>2 DEF Supply, Used, IInv, TypeOK
  <2> QED
    BY <2>1, <2>2, <2>3, <1>1
<1>3. ASSUME NEW n \in 1 .. MaxBalance, NEW whole \in BOOLEAN, Withdraw(u, a, n, whole) PROVE IInv'
  <2>1. IsListed(a) /\ UNCHANGED <<registry, borrowingBits, debts>>
    BY <1>3 DEF Withdraw
  <2>2. TypeOK'
    BY <1>3 DEF Withdraw, GivenUp, IInv, TypeOK, registry, debts
  <2>3. \A v \in User : collateralBits'[v] \subseteq collateralBits[v] \cup {reserves[a].id}
    BY <1>3 DEF Withdraw, IInv, TypeOK
  <2> QED
    BY <2>1, <2>2, <2>3, <1>1
<1>4. ASSUME NEW v \in User, NEW n \in 0 .. MaxBalance, NEW whole \in BOOLEAN, NEW used \in BOOLEAN,
             Transfer(u, v, a, n, whole, used)
      PROVE IInv'
  <2>1. IsListed(a) /\ UNCHANGED <<registry, borrowingBits, debts>>
    BY <1>4 DEF Transfer
  <2>2. TypeOK'
    <3>1. hTokens[a][u] \in Nat /\ hTokens[a][v] \in Nat /\ n \in Nat /\ n <= hTokens[a][u]
      BY <1>4 DEF Transfer, IInv, TypeOK
    <3>2. hTokens[a][u] - n \in Nat /\ hTokens[a][v] + n \in Nat
      BY <3>1
    <3>3. hTokens' \in [Asset -> [User -> Nat]]
      BY <1>4, <3>2 DEF Transfer, IInv, TypeOK
    <3>4. collateralBits' \in [User -> SUBSET Id]
      BY <1>0, <1>4 DEF Transfer, GivenUp, Used, IInv, TypeOK
    <3> QED
      BY <2>1, <3>3, <3>4 DEF IInv, TypeOK, registry, debts
  <2>3. \A w \in User : collateralBits'[w] \subseteq collateralBits[w] \cup {reserves[a].id}
    BY <1>4 DEF Transfer, Used, IInv, TypeOK
  <2> QED
    BY <2>1, <2>2, <2>3, <1>1
<1>5. ASSUME NEW use \in BOOLEAN, SetUseReserveAsCollateral(u, a, use) PROVE IInv'
  <2>1. IsListed(a) /\ UNCHANGED <<registry, borrowingBits, debts>> /\ UNCHANGED hTokens
    BY <1>5 DEF SetUseReserveAsCollateral
  <2>2. TypeOK'
    BY <1>0, <1>5, <2>1 DEF SetUseReserveAsCollateral, IInv, TypeOK, registry, debts
  <2>3. \A v \in User : collateralBits'[v] \subseteq collateralBits[v] \cup {reserves[a].id}
    BY <1>5 DEF SetUseReserveAsCollateral, IInv, TypeOK
  <2> QED
    BY <2>1, <2>2, <2>3, <1>1
<1> QED
  BY <1>2, <1>3, <1>4, <1>5 DEF CollateralCall

-----------------------------------------------------------------------------
\* The balance of a variable debt is a natural, and 0 only without a scaled unit.
LEMMA BalanceOfDebt ==
    ASSUME TypeOK, NEW a \in Asset, NEW u \in User
    PROVE  /\ variable[a][u] \in Nat /\ stable[a][u] \in Nat
           /\ index[a] \in Nat \ {0} /\ index[a] >= RAY
           /\ VariableDebt(u, a) \in Nat
           /\ VariableDebt(u, a) = 0 <=> variable[a][u] = 0
<1>1. variable[a][u] \in Nat /\ stable[a][u] \in Nat /\ index[a] \in Nat /\ index[a] >= RAY
  BY DEF TypeOK
<1>2. index[a] # 0
  BY <1>1, HalfRay
<1>3. VariableDebt(u, a) \in Nat
  BY <1>1, RayMulType DEF VariableDebt
<1>4. VariableDebt(u, a) >= variable[a][u]
  BY <1>1, RayMulGrows DEF VariableDebt
<1>5. variable[a][u] = 0 => VariableDebt(u, a) = 0
  BY <1>1, RayMulZero DEF VariableDebt
<1> QED
  BY <1>1, <1>2, <1>3, <1>4, <1>5

\* What a burn of scaled units leaves.
LEMMA BurnVariableOutcome ==
    ASSUME TypeOK, NEW a \in Asset, NEW u \in User, NEW n \in Nat, BurnVariable(u, a, n)
    PROVE  /\ variable' \in [Asset -> [User -> Nat]]
           /\ variable' = [variable EXCEPT ![a][u] = @ - RayDiv(n, index[a])]
           /\ n = VariableDebt(u, a) => variable'[a][u] = 0
<1> DEFINE d == RayDiv(n, index[a])
<1>1. d \in Nat
  BY BalanceOfDebt, RayDivType
<1>2. variable' = [variable EXCEPT ![a][u] = @ - d] /\ d <= variable[a][u]
  BY DEF BurnVariable
<1>3. n = VariableDebt(u, a) => d = variable[a][u]
  BY BalanceOfDebt, RoundTrip DEF VariableDebt
<1> HIDE DEF d
<1>4. variable[a][u] \in Nat /\ variable[a][u] - d \in Nat
  BY <1>1, <1>2, BalanceOfDebt
<1>5. variable' \in [Asset -> [User -> Nat]]
  BY <1>2, <1>4 DEF TypeOK
<1>6. variable'[a][u] = variable[a][u] - d
  BY <1>2 DEF TypeOK
<1> QED
  BY <1>2, <1>3, <1>4, <1>5, <1>6 DEF d

\* What a mint of scaled units leaves.
LEMMA MintVariableOutcome ==
    ASSUME TypeOK, NEW a \in Asset, NEW u \in User, NEW n \in Nat, MintVariable(u, a, n)
    PROVE  /\ variable' \in [Asset -> [User -> Nat]]
           /\ variable' = [variable EXCEPT ![a][u] = @ + RayDiv(n, index[a])]
<1> DEFINE d == RayDiv(n, index[a])
<1>1. d \in Nat
  BY BalanceOfDebt, RayDivType
<1>2. variable' = [variable EXCEPT ![a][u] = @ + d]
  BY DEF MintVariable
<1> HIDE DEF d
<1>3. variable[a][u] + d \in Nat
  BY <1>1, BalanceOfDebt
<1>4. variable' \in [Asset -> [User -> Nat]]
  BY <1>2, <1>3 DEF TypeOK
<1> QED
  BY <1>2, <1>4 DEF d

\* What mints and burns of stable debt leave.
LEMMA MintStableOutcome ==
    ASSUME TypeOK, NEW a \in Asset, NEW u \in User, NEW n \in Nat, MintStable(u, a, n)
    PROVE  /\ stable' \in [Asset -> [User -> Nat]]
           /\ stable' = [stable EXCEPT ![a][u] = @ + n]
<1>1. stable[a][u] + n \in Nat
  BY BalanceOfDebt
<1> QED
  BY <1>1 DEF MintStable, TypeOK

LEMMA BurnStableOutcome ==
    ASSUME TypeOK, NEW a \in Asset, NEW u \in User, NEW n \in Nat, BurnStable(u, a, n),
           n <= stable[a][u]
    PROVE  /\ stable' \in [Asset -> [User -> Nat]]
           /\ stable' = [stable EXCEPT ![a][u] = @ - n]
           /\ n = stable[a][u] => stable'[a][u] = 0
<1>1. stable[a][u] \in Nat /\ stable[a][u] - n \in Nat
  BY BalanceOfDebt
<1>2. stable' = [stable EXCEPT ![a][u] = @ - n]
  BY DEF BurnStable
<1>3. stable'[a][u] = stable[a][u] - n
  BY <1>2 DEF TypeOK
<1>4. stable' \in [Asset -> [User -> Nat]]
  BY <1>1, <1>2 DEF TypeOK
<1> QED
  BY <1>1, <1>2, <1>3, <1>4

\* A table in which only the entry of u in a changes is the old one elsewhere.
LEMMA OneEntry ==
    ASSUME NEW f \in [Asset -> [User -> Nat]], NEW a \in Asset, NEW u \in User, NEW d,
           NEW g, g = [f EXCEPT ![a][u] = d]
    PROVE  /\ \A b \in Asset : b # a => g[b] = f[b]
           /\ \A v \in User : v # u => g[a][v] = f[a][v]
           /\ g[a][u] = d
  OBVIOUS

\* A call that moves the debts of u in a, which is listed, and only his bit of it.
LEMMA DebtOutcome ==
    ASSUME IInv, NEW a \in Asset, NEW u \in User, IsListed(a),
           UNCHANGED <<registry, collateralBits>>, TypeOK',
           variable' = [variable EXCEPT ![a][u] = variable'[a][u]],
           stable' = [stable EXCEPT ![a][u] = stable'[a][u]],
           Owes(u, a)' => reserves[a].id \in borrowingBits'[u],
           \A v \in User : borrowingBits'[v] \cup {reserves[a].id} = borrowingBits[v] \cup {reserves[a].id},
           \A v \in User : v # u => borrowingBits'[v] = borrowingBits[v]
    PROVE  IInv'
<1> USE DEF IInv
<1> DEFINE id == reserves[a].id
<1>1. variable \in [Asset -> [User -> Nat]] /\ stable \in [Asset -> [User -> Nat]]
  BY DEF TypeOK
<1>2. /\ \A b \in Asset : b # a => variable'[b] = variable[b]
      /\ \A v \in User : v # u => variable'[a][v] = variable[a][v]
  BY <1>1, OneEntry
<1>3. /\ \A b \in Asset : b # a => stable'[b] = stable[b]
      /\ \A v \in User : v # u => stable'[a][v] = stable[a][v]
  BY <1>1, OneEntry
<1>4. ASSUME NEW v \in User, Owes(v, a)' PROVE id \in borrowingBits'[v]
  <2>1. CASE v = u
    BY <1>4, <2>1
  <2>2. CASE v # u
    <3>1. Owes(v, a)
      BY <1>2, <1>3, <1>4, <2>2 DEF Owes
    <3>2. id \in borrowingBits[v]
      BY <3>1 DEF DebtsHaveBits, Owes, Listed
    <3> QED
      BY <2>2, <3>2
  <2> QED
    BY <2>1, <2>2
<1>5. \A v \in User : \A i \in borrowingBits[v] : i # id => i \in borrowingBits'[v]
  OBVIOUS
<1>6. DebtsHaveBits'
  BY <1>2, <1>3, <1>4, <1>5, OneIdMoves
<1>7. \A v \in User : collateralBits'[v] \cup borrowingBits'[v]
          \subseteq collateralBits[v] \cup borrowingBits[v] \cup {id}
  OBVIOUS
<1> QED
  BY <1>2, <1>3, <1>6, <1>7, CallOutcome

\* Borrowing keeps the invariant: a debt token that has something of u already has
\* had his bit set.
LEMMA BorrowStep ==
    ASSUME IInv, NEW a \in Asset, NEW u \in User, NEW n \in Nat, NEW mode \in RateMode,
           Borrow(u, a, n, mode)
    PROVE  IInv'
<1> USE RegistryAssumption
<1> DEFINE id == reserves[a].id
<1>1. IsListed(a) /\ UNCHANGED <<registry, collateralBits, hTokens, index>> /\ id \in Id /\ TypeOK
  BY DEF Borrow, IInv, TypeOK
<1>2. borrowingBits' = [borrowingBits EXCEPT ![u] = IF FirstOf(u, a, mode) THEN @ \cup {id} ELSE @]
  BY DEF Borrow
<1>3. borrowingBits' \in [User -> SUBSET Id]
  BY <1>1, <1>2 DEF TypeOK
<1>4. id \in borrowingBits'[u]
  <2>1. CASE FirstOf(u, a, mode)
    BY <1>1, <1>2, <2>1 DEF TypeOK
  <2>2. CASE ~FirstOf(u, a, mode)
    <3>1. variable[a][u] # 0 \/ stable[a][u] # 0
      BY <2>2 DEF FirstOf
    <3>2. id \in borrowingBits[u]
      BY <1>1, <3>1 DEF IInv, DebtsHaveBits, Listed
    <3> QED
      BY <1>1, <1>2, <3>2 DEF TypeOK
  <2> QED
    BY <2>1, <2>2
<1>5. /\ \A v \in User : borrowingBits'[v] \cup {id} = borrowingBits[v] \cup {id}
      /\ \A v \in User : v # u => borrowingBits'[v] = borrowingBits[v]
  BY <1>1, <1>2 DEF TypeOK
<1>6. /\ variable' \in [Asset -> [User -> Nat]] /\ stable' \in [Asset -> [User -> Nat]]
      /\ variable' = [variable EXCEPT ![a][u] = variable'[a][u]]
      /\ stable' = [stable EXCEPT ![a][u] = stable'[a][u]]
  <2>1. CASE mode = "stable"
    <3>1. UNCHANGED variable /\ MintStable(u, a, n)
      BY <2>1 DEF Borrow
    <3> QED
      BY <1>1, <3>1, MintStableOutcome DEF TypeOK
  <2>2. CASE mode # "stable"
    <3>1. UNCHANGED stable /\ MintVariable(u, a, n)
      BY <2>2 DEF Borrow
    <3> QED
      BY <1>1, <3>1, MintVariableOutcome DEF TypeOK
  <2> QED
    BY <2>1, <2>2
<1>7. TypeOK'
  BY <1>1, <1>3, <1>6 DEF TypeOK, registry
<1> QED
  BY <1>1, <1>4, <1>5, <1>6, <1>7, DebtOutcome

\* Repaying keeps the invariant: the bit goes only if what is burnt is all of the
\* scaled units of one mode and nothing is owed in the other.
LEMMA RepayStep ==
    ASSUME IInv, NEW a \in Asset, NEW u \in User, NEW n \in Nat, NEW mode \in RateMode,
           NEW useHTokens \in BOOLEAN, Repay(u, a, n, mode, useHTokens)
    PROVE  IInv'
<1> USE RegistryAssumption
<1> DEFINE id == reserves[a].id
           owed == Owed(u, a, mode)
           payback == IF n < owed THEN n ELSE owed
<1>1. IsListed(a) /\ UNCHANGED <<registry, collateralBits, index>> /\ id \in Id /\ TypeOK
  BY DEF Repay, IInv, TypeOK
<1>2. /\ owed # 0
      /\ IF mode = "stable" THEN BurnStable(u, a, payback) /\ UNCHANGED variable
         ELSE BurnVariable(u, a, payback) /\ UNCHANGED stable
      /\ borrowingBits' = [borrowingBits EXCEPT ![u] = @ \ RepaidBit(u, a, payback, mode)]
  BY DEF Repay
<1>3. owed \in Nat /\ payback \in Nat /\ payback <= owed
  BY <1>1, BalanceOfDebt DEF Owed
<1>4. hTokens' \in [Asset -> [User -> Nat]]
  <2>1. CASE useHTokens
    <3>1. PICK m \in 1 .. hTokens[a][u] : hTokens' = [hTokens EXCEPT ![a][u] = @ - m]
      BY <2>1 DEF Repay
    <3>2. hTokens[a][u] - m \in Nat
      BY <1>1 DEF TypeOK
    <3> QED
      BY <1>1, <3>1, <3>2 DEF TypeOK
  <2>2. CASE ~useHTokens
    BY <1>1, <2>2 DEF Repay, TypeOK
  <2> QED
    BY <2>1, <2>2
<1>5. id \in borrowingBits[u]
  <2>1. variable[a][u] # 0 \/ stable[a][u] # 0
    BY <1>1, <1>2, BalanceOfDebt DEF Owed
  <2> QED
    BY <1>1, <2>1 DEF IInv, DebtsHaveBits, Listed
<1> HIDE DEF payback
<1>6. RepaidBit(u, a, payback, mode) = IF Debt(u, a) = payback THEN {id} ELSE {}
  BY DEF RepaidBit
<1>7. borrowingBits' \in [User -> SUBSET Id]
  BY <1>1, <1>2 DEF TypeOK
<1>8. /\ \A v \in User : borrowingBits'[v] \cup {id} = borrowingBits[v] \cup {id}
      /\ \A v \in User : v # u => borrowingBits'[v] = borrowingBits[v]
      /\ Debt(u, a) # payback => id \in borrowingBits'[u]
  BY <1>1, <1>2, <1>5, <1>6 DEF TypeOK
<1>9. /\ variable' \in [Asset -> [User -> Nat]] /\ stable' \in [Asset -> [User -> Nat]]
      /\ variable' = [variable EXCEPT ![a][u] = variable'[a][u]]
      /\ stable' = [stable EXCEPT ![a][u] = stable'[a][u]]
      /\ Debt(u, a) = payback => variable'[a][u] = 0 /\ stable'[a][u] = 0
  <2>0. VariableDebt(u, a) \in Nat /\ stable[a][u] \in Nat
    BY <1>1, BalanceOfDebt
  <2>1. CASE mode = "stable"
    <3>1. UNCHANGED variable /\ BurnStable(u, a, payback) /\ payback <= stable[a][u]
      BY <1>2, <1>3, <2>1 DEF Owed
    <3>2. Debt(u, a) = payback => payback = stable[a][u] /\ VariableDebt(u, a) = 0
      BY <1>3, <2>0, <3>1 DEF Debt
    <3> QED
      BY <1>1, <1>3, <3>1, <3>2, BurnStableOutcome, BalanceOfDebt DEF TypeOK
  <2>2. CASE mode # "stable"
    <3>1. UNCHANGED stable /\ BurnVariable(u, a, payback) /\ payback <= VariableDebt(u, a)
      BY <1>2, <1>3, <2>2 DEF Owed
    <3>2. Debt(u, a) = payback => payback = VariableDebt(u, a) /\ stable[a][u] = 0
      BY <1>3, <2>0, <3>1 DEF Debt
    <3> QED
      BY <1>1, <1>3, <3>1, <3>2, BurnVariableOutcome DEF TypeOK
  <2> QED
    BY <2>1, <2>2
<1>10. TypeOK'
  BY <1>1, <1>4, <1>7, <1>9 DEF TypeOK, registry
<1>11. Owes(u, a)' => id \in borrowingBits'[u]
  BY <1>8, <1>9 DEF Owes
<1> QED
  BY <1>1, <1>8, <1>9, <1>10, <1>11, DebtOutcome

\* A swap of the rate mode keeps the invariant: whoever may swap has the bit.
LEMMA SwapStep ==
    ASSUME IInv, NEW a \in Asset, NEW u \in User, SwapToVariable(u, a) \/ SwapToStable(u, a)
    PROVE  IInv'
<1> DEFINE id == reserves[a].id
<1>1. IsListed(a) /\ UNCHANGED <<registry, collateralBits, borrowingBits, hTokens, index>> /\ TypeOK
  BY DEF SwapToVariable, SwapToStable, bits, IInv
<1>2. VariableDebt(u, a) \in Nat /\ stable[a][u] \in Nat
  BY <1>1, BalanceOfDebt
<1>3. /\ variable' \in [Asset -> [User -> Nat]] /\ stable' \in [Asset -> [User -> Nat]]
      /\ variable' = [variable EXCEPT ![a][u] = variable'[a][u]]
      /\ stable' = [stable EXCEPT ![a][u] = stable'[a][u]]
      /\ Owes(u, a)
  <2>1. CASE SwapToVariable(u, a)
    <3>1. BurnStable(u, a, stable[a][u]) /\ MintVariable(u, a, stable[a][u]) /\ stable[a][u] # 0
      BY <2>1 DEF SwapToVariable
    <3> QED
      BY <1>1, <1>2, <3>1, BurnStableOutcome, MintVariableOutcome DEF TypeOK, Owes
  <2>2. CASE SwapToStable(u, a)
    <3>1. /\ BurnVariable(u, a, VariableDebt(u, a)) /\ MintStable(u, a, VariableDebt(u, a))
          /\ VariableDebt(u, a) # 0
      BY <2>2 DEF SwapToStable
    <3>2. variable[a][u] # 0
      BY <1>1, <3>1, BalanceOfDebt
    <3> QED
      BY <1>1, <1>2, <3>1, <3>2, BurnVariableOutcome, MintStableOutcome DEF TypeOK, Owes
  <2> QED
    BY <2>1, <2>2
<1>4. TypeOK'
  BY <1>1, <1>3 DEF TypeOK, registry
<1>5. id \in borrowingBits'[u]
  BY <1>1, <1>3 DEF IInv, DebtsHaveBits, Listed, Owes
<1> QED
  BY <1>1, <1>3, <1>4, <1>5, DebtOutcome

\* Every call that moves debts keeps the invariant.
LEMMA DebtStep ==
    ASSUME IInv, NEW a \in Asset, NEW u \in User, DebtCall(u, a)
    PROVE  IInv'
<1>1. Debt(u, a) \in Nat /\ Amounts \subseteq Nat
  BY BalanceOfDebt, RegistryAssumption DEF Debt, IInv
<1>2. ASSUME NEW amount \in Amounts, NEW mode \in RateMode, Borrow(u, a, amount, mode) PROVE IInv'
  BY <1>1, <1>2, BorrowStep
<1>3. ASSUME NEW amount \in Amounts \cup {Debt(u, a)}, NEW mode \in RateMode,
             NEW useHTokens \in BOOLEAN, Repay(u, a, amount, mode, useHTokens)
      PROVE IInv'
  BY <1>1, <1>3, RepayStep
<1> QED
  BY <1>2, <1>3, SwapStep DEF DebtCall

\* Interest gives nobody a debt who had none.
LEMMA AccrueStep ==
    ASSUME IInv, NEW a \in Asset, NEW i \in RAY .. MaxIndex, Accrue(a, i)
    PROVE  IInv'
<1> USE RegistryAssumption
<1>1. /\ IsListed(a) /\ UNCHANGED <<registry, collateralBits, borrowingBits, hTokens, variable>>
      /\ TypeOK
  BY DEF Accrue, bits, IInv
<1>2. PICK earned \in SUBSET {u \in User : stable[a][u] \in 1 .. MaxBalance - 1} :
          stable' = [stable EXCEPT ![a] =
                        [u \in User |-> IF u \in earned THEN @[u] + 1 ELSE @[u]]]
  BY DEF Accrue
<1>3. /\ \A b \in Asset : b # a => stable'[b] = stable[b]
      /\ \A v \in User : stable'[a][v] = IF v \in earned THEN stable[a][v] + 1 ELSE stable[a][v]
      /\ stable' \in [Asset -> [User -> Nat]]
  BY <1>1, <1>2 DEF TypeOK
<1>4. index' \in [Asset -> {j \in Nat : j >= RAY}]
  BY <1>1, HalfRay DEF Accrue, TypeOK
<1>5. TypeOK'
  BY <1>1, <1>3, <1>4 DEF TypeOK, registry
<1>6. ASSUME NEW v \in User, Owes(v, a)' PROVE reserves[a].id \in borrowingBits'[v]
  <2>1. Owes(v, a)
    BY <1>1, <1>3, <1>6 DEF Owes
  <2> QED
    BY <1>1, <2>1 DEF IInv, DebtsHaveBits, Listed, Owes
<1>7. DebtsHaveBits'
  BY <1>1, <1>3, <1>6, OneIdMoves
<1> QED
  BY <1>1, <1>3, <1>5, <1>7, CallOutcome

-----------------------------------------------------------------------------
\* A slot that is taken: the ids, the list and who is listed.
LEMMA Placed ==
    ASSUME IInv, NEW a \in Asset, ~IsListed(a), NEW i \in Id, reservesList[i] = Zero, PutAt(a, i)
    PROVE  /\ IsListed(a)' /\ reserves'[a].id = i /\ reserves'[a].initialized
           /\ reservesList'[i] = a
           /\ \A b \in Asset : b # a => reserves'[b] = reserves[b] /\ (IsListed(b)' <=> IsListed(b))
           /\ \A j \in Id : j # i => reservesList'[j] = reservesList[j]
<1> USE RegistryAssumption DEF IInv, TypeOK
<1>1. reserves'[a].id = i /\ reserves'[a].initialized /\ reservesList'[i] = a
  BY DEF PutAt
<1>2. \A b \in Asset : b # a => reserves'[b] = reserves[b]
  BY DEF PutAt
<1>3. \A j \in Id : j # i => reservesList'[j] = reservesList[j]
  BY DEF PutAt
<1>4. 0 \in Id
  BY DEF Id
<1>5. IsListed(a)'
  BY <1>1 DEF IsListed
<1>6. \A b \in Asset : b # a => (IsListed(b)' <=> IsListed(b))
  BY <1>1, <1>2, <1>3, <1>4 DEF IsListed
<1> QED
  BY <1>1, <1>2, <1>3, <1>5, <1>6

\* Listing an asset keeps the invariant.
LEMMA InitStep ==
    ASSUME IInv, NEW a \in Asset, InitReserve(a)
    PROVE  IInv' /\ ~IsListed(a) /\ \E i \in Id : reservesList[i] = Zero /\ PutAt(a, i)
<1> USE RegistryAssumption
<1>1. PICK i \in Id : /\ reservesList[i] = Zero /\ PutAt(a, i)
                      /\ reservesCount' \in 0 .. MaxNumberReserves
                      /\ reservesCount <= reservesCount' /\ i < reservesCount'
  <2>1. CASE Holes # {}
    <3>1. PICK j \in Holes : PutAt(a, j) /\ reservesCount' = reservesCount
      BY <2>1 DEF InitReserve
    <3>2. j \in Id /\ j < reservesCount /\ reservesList[j] = Zero
      BY DEF Holes
    <3>3. reservesCount \in 0 .. MaxNumberReserves
      BY DEF IInv, TypeOK
    <3> QED
      BY <3>1, <3>2, <3>3
  <2>2. CASE Holes = {}
    <3>1. reservesCount \in Id /\ reservesCount < MaxNumberReserves /\ reservesCount \in Nat
      BY <2>2 DEF InitReserve, HasRoom, IInv, TypeOK, Id
    <3>2. reservesList[reservesCount] = Zero
      BY <3>1 DEF IInv, ListIsInverse
    <3>3. PutAt(a, reservesCount) /\ reservesCount' = reservesCount + 1
      BY <2>2 DEF InitReserve
    <3> QED
      BY <3>1, <3>2, <3>3
  <2> QED
    BY <2>1, <2>2
<1>2. ~IsListed(a) /\ UNCHANGED <<collateralBits, borrowingBits, hTokens, variable, stable, index>>
  BY DEF InitReserve, MayInit, bits, debts
<1>3. /\ IsListed(a)' /\ reserves'[a].id = i /\ reserves'[a].initialized
      /\ reservesList'[i] = a
      /\ \A b \in Asset : b # a => reserves'[b] = reserves[b] /\ (IsListed(b)' <=> IsListed(b))
      /\ \A j \in Id : j # i => reservesList'[j] = reservesList[j]
  BY <1>1, <1>2, Placed, Zenon
<1>4. TypeOK'
  BY <1>1, <1>2 DEF PutAt, IInv, TypeOK
<1>5. ListIsInverse'
  <2>1. \A b \in Asset : reserves'[b].initialized <=> IsListed(b)'
    BY <1>3 DEF IInv, ListIsInverse
  <2>2. \A b \in Asset : IsListed(b)' => reservesList'[reserves'[b].id] = b
    <3> SUFFICES ASSUME NEW b \in Asset, IsListed(b)', b # a
                 PROVE  reservesList'[reserves[b].id] = b
      BY <1>3
    <3>1. IsListed(b) /\ reservesList[reserves[b].id] = b /\ b # Zero
      BY <1>3 DEF IInv, ListIsInverse
    <3>2. reserves[b].id \in Id
      BY DEF IInv, TypeOK
    <3> QED
      BY <1>1, <1>3, <3>1, <3>2
  <2>3. \A j \in Id : reservesList'[j] # Zero => reserves'[reservesList'[j]].id = j
    <3> SUFFICES ASSUME NEW j \in Id, j # i, reservesList[j] # Zero
                 PROVE  reserves'[reservesList[j]].id = j
      BY <1>3
    <3>1. reservesList[j] \in Asset /\ IsListed(reservesList[j])
          /\ reserves[reservesList[j]].id = j
      BY SlotIsListed DEF IInv
    <3> QED
      BY <1>2, <1>3, <3>1
  <2>4. \A j \in Id : j >= reservesCount' => reservesList'[j] = Zero
    BY <1>1, <1>3 DEF IInv, ListIsInverse, TypeOK, Id
  <2> QED
    BY <2>1, <2>2, <2>3, <2>4 DEF ListIsInverse
<1>6. UnlistedIsUnowed'
  BY <1>2, <1>3 DEF IInv, UnlistedIsUnowed, Owes
<1>7. DebtsHaveBits'
  <2> SUFFICES ASSUME NEW b \in Asset, IsListed(b)', NEW u \in User, Owes(u, b)'
               PROVE  reserves'[b].id \in borrowingBits'[u]
    BY DEF DebtsHaveBits, Listed, Owes
  <2>1. b # a
    BY <1>2 DEF IInv, UnlistedIsUnowed, Owes
  <2> QED
    BY <1>2, <1>3, <2>1 DEF IInv, DebtsHaveBits, Listed, Owes
<1>8. BitsAreWalked'
  <2>1. \A u \in User : collateralBits[u] \subseteq Nat /\ borrowingBits[u] \subseteq Nat
    BY DEF IInv, TypeOK, Id
  <2> QED
    BY <1>1, <1>2, <2>1 DEF IInv, BitsAreWalked, TypeOK
<1> QED
  BY <1>1, <1>2, <1>4, <1>5, <1>6, <1>7, <1>8 DEF IInv

\* Dropping a reserve keeps the invariant.
LEMMA DropStep ==
    ASSUME IInv, NEW a \in Asset, DropReserve(a)
    PROVE  /\ IInv' /\ IsListed(a) /\ ~IsListed(a)'
           /\ \A b \in Asset : b # a => reserves'[b] = reserves[b] /\ (IsListed(b)' <=> IsListed(b))
<1> USE RegistryAssumption
<1>1. /\ IsListed(a) /\ Unclaimed(a)
      /\ UNCHANGED <<reservesCount, collateralBits, borrowingBits, hTokens, variable>>
  BY DEF DropReserve, bits
<1>0. /\ \A u \in User : variable[a][u] = 0 /\ stable'[a][u] = 0
      /\ \A b \in Asset : b # a => stable'[b] = stable[b]
      /\ stable' \in [Asset -> [User -> Nat]]
      /\ index' \in [Asset -> {j \in Nat : j >= RAY}]
  BY HalfRay DEF DropReserve, Unclaimed, IInv, TypeOK
<1> DEFINE i == reserves[a].id
<1>2. i \in Id /\ 0 \in Id /\ reservesList[i] = a /\ a # Zero
  BY <1>1, IdsAreDistinct DEF IInv, ListIsInverse, Id
<1>3. reservesList'[i] = Zero /\ \A j \in Id : j # i => reservesList'[j] = reservesList[j]
  BY <1>2 DEF DropReserve, IInv, TypeOK
<1>4. reserves'[a] = NoReserve /\ \A b \in Asset : b # a => reserves'[b] = reserves[b]
  BY DEF DropReserve, IInv, TypeOK
<1>5. TypeOK'
  BY <1>0, <1>1, <1>2 DEF DropReserve, NoReserve, IInv, TypeOK
<1> HIDE DEF i
<1>6. ~IsListed(a)'
  <2>1. reservesList'[0] # a
    <3>1. CASE i = 0
      BY <1>2, <1>3, <3>1
    <3>2. CASE i # 0
      <4>1. reservesList[0] # a
        BY <1>2, <3>2 DEF IInv, ListIsInverse, i
      <4> QED
        BY <1>2, <1>3, <3>2, <4>1
    <3> QED
      BY <3>1, <3>2
  <2> QED
    BY <1>4, <2>1 DEF IsListed, NoReserve
<1>7. \A b \in Asset : b # a => (IsListed(b)' <=> IsListed(b))
  <2> SUFFICES ASSUME NEW b \in Asset, b # a PROVE reservesList'[0] = b <=> reservesList[0] = b
    BY <1>4 DEF IsListed
  <2> QED
    BY <1>2, <1>3
<1>8. ListIsInverse'
  <2>1. \A b \in Asset : reserves'[b].initialized <=> IsListed(b)'
    BY <1>4, <1>6, <1>7 DEF IInv, ListIsInverse, NoReserve
  <2>2. \A b \in Asset : IsListed(b)' => reservesList'[reserves'[b].id] = b
    <3> SUFFICES ASSUME NEW b \in Asset, IsListed(b), b # a
                 PROVE  reservesList'[reserves[b].id] = b
      BY <1>4, <1>6, <1>7
    <3>1. reservesList[reserves[b].id] = b /\ reserves[b].id \in Id
      BY DEF IInv, ListIsInverse, TypeOK
    <3> QED
      BY <1>2, <1>3, <3>1
  <2>3. \A j \in Id : reservesList'[j] # Zero => reserves'[reservesList'[j]].id = j
    <3> SUFFICES ASSUME NEW j \in Id, j # i, reservesList[j] # Zero
                 PROVE  reserves'[reservesList[j]].id = j
      BY <1>3
    <3>1. reservesList[j] \in Asset /\ reserves[reservesList[j]].id = j
      BY SlotIsListed DEF IInv
    <3>2. reservesList[j] # a
      BY <3>1 DEF i
    <3> QED
      BY <1>4, <3>1, <3>2
  <2>4. \A j \in Id : j >= reservesCount' => reservesList'[j] = Zero
    BY <1>1, <1>3 DEF IInv, ListIsInverse
  <2> QED
    BY <2>1, <2>2, <2>3, <2>4 DEF ListIsInverse
<1>9. UnlistedIsUnowed'
  BY <1>0, <1>1, <1>7 DEF IInv, UnlistedIsUnowed, Owes
<1>10. DebtsHaveBits'
  <2> SUFFICES ASSUME NEW b \in Asset, IsListed(b)', NEW u \in User, Owes(u, b)'
               PROVE  reserves'[b].id \in borrowingBits'[u]
    BY DEF DebtsHaveBits, Listed, Owes
  <2>1. b # a
    BY <1>6
  <2> QED
    BY <1>0, <1>1, <1>4, <1>7, <2>1 DEF IInv, DebtsHaveBits, Listed, Owes
<1>11. BitsAreWalked'
  BY <1>1 DEF IInv, BitsAreWalked
<1> QED
  BY <1>1, <1>4, <1>5, <1>6, <1>7, <1>8, <1>9, <1>10, <1>11 DEF IInv

-----------------------------------------------------------------------------
\* Every step keeps the invariant.
LEMMA RegistryStep == IInv /\ [Next]_vars => IInv'
<1> SUFFICES ASSUME IInv, [Next]_vars PROVE IInv'
  OBVIOUS
<1>1. ASSUME NEW a \in Asset, InitReserve(a) PROVE IInv'
  BY <1>1, InitStep
<1>2. ASSUME NEW a \in Asset, DropReserve(a) PROVE IInv'
  BY <1>2, DropStep
<1>3. ASSUME NEW a \in Asset, NEW u \in User, CollateralCall(u, a) \/ DebtCall(u, a) PROVE IInv'
  BY <1>3, CollateralStep, DebtStep
<1>4. ASSUME NEW a \in Asset, NEW i \in RAY .. MaxIndex, Accrue(a, i) PROVE IInv'
  BY <1>4, AccrueStep
<1>5. ASSUME UNCHANGED vars PROVE IInv'
  BY <1>5 DEF vars, registry, bits, debts, IInv, TypeOK, ListIsInverse, UnlistedIsUnowed,
              Owes, DebtsHaveBits, BitsAreWalked, Listed, IsListed
<1> QED
  BY <1>1, <1>2, <1>3, <1>4, <1>5 DEF Next

\* The invariant holds in every reachable state.
LEMMA RegistryInvariant == Spec => []IInv
<1> QED
  BY RegistryInit, RegistryStep, PTL DEF Spec

\* Ids fit the bits of a user and no balance goes below zero, whatever the
\* number of assets, users and slots.
THEOREM RegistryTypeCorrect == Spec => []TypeOK
<1>1. IInv => TypeOK
  BY DEF IInv
<1> QED
  BY <1>1, RegistryInvariant, PTL

\* Whoever owes anything of a listed asset has the bit of its id, whatever the index,
\* the amounts and the assets that had the id before.
THEOREM DebtsAlwaysHaveBits == Spec => []DebtsHaveBits
<1>1. IInv => DebtsHaveBits
  BY DEF IInv
<1> QED
  BY <1>1, RegistryInvariant, PTL

\* No bit is beyond the ids that account data are computed from.
THEOREM BitsAlwaysWalked == Spec => []BitsAreWalked
<1>1. IInv => BitsAreWalked
  BY DEF IInv
<1> QED
  BY <1>1, RegistryInvariant, PTL

\* An id that no listed asset has is a slot executeInitReserve finds.
THEOREM RoomIsFound == Spec => []AlwaysRoom
<1>1. ASSUME IInv PROVE AlwaysRoom
  <2> SUFFICES ASSUME NEW i \in Id, \A a \in Listed : reserves[a].id # i
               PROVE  HasRoom /\ \A a \in Asset \ Listed : MayInit(a)
    BY DEF AlwaysRoom
  <2>1. HasRoom
    <3>1. CASE i < reservesCount
      <4>1. reservesList[i] = Zero
        BY <1>1, SlotIsListed DEF IInv, Listed
      <4> QED
        BY <3>1, <4>1 DEF HasRoom, Holes
    <3>2. CASE ~(i < reservesCount)
      BY <1>1, <3>2, RegistryAssumption DEF HasRoom, Id, IInv, TypeOK
    <3> QED
      BY <3>1, <3>2
  <2>2. \A a \in Asset \ Listed : MayInit(a)
    BY <1>1 DEF IInv, ListIsInverse, MayInit, Listed
  <2> QED
    BY <2>1, <2>2
<1> QED
  BY <1>1, RegistryInvariant, PTL

-----------------------------------------------------------------------------
\* The ids of the listed assets, as Listing sees them.
ListedIds == [a \in Listed |-> reserves[a].id]

\* At first nothing is listed.
LEMMA ListingInit == Init => L!Init
<1> SUFFICES ASSUME Init PROVE Listed = {}
  BY DEF L!Init
<1>1. 0 \in Id
  BY RegistryAssumption DEF Id
<1> QED
  BY <1>1, RegistryAssumption DEF Init, Listed, IsListed, NoReserve

\* Every step lists one asset, drops one, or changes no id.
LEMMA ListingStep == IInv /\ [Next]_vars => [L!Next]_ListedIds
<1> SUFFICES ASSUME IInv, [Next]_vars PROVE L!Next \/ UNCHANGED ListedIds
  OBVIOUS
<1>1. ASSUME NEW a \in Asset, InitReserve(a) PROVE L!Next
  <2>1. ~IsListed(a) /\ \E i \in Id : reservesList[i] = Zero /\ PutAt(a, i)
    BY <1>1, InitStep
  <2>2. PICK i \in Id : reservesList[i] = Zero /\ PutAt(a, i)
    BY <2>1
  <2>3. /\ IsListed(a)' /\ reserves'[a].id = i
        /\ \A b \in Asset : b # a => reserves'[b] = reserves[b] /\ (IsListed(b)' <=> IsListed(b))
    BY <2>1, <2>2, Placed, Zenon
  <2>4. Listed' = Listed \cup {a} /\ a \notin Listed
    BY <2>1, <2>3 DEF Listed
  <2>5. \A b \in Listed : reserves[b].id # i
    <3> SUFFICES ASSUME NEW b \in Listed, reserves[b].id = i PROVE FALSE
      OBVIOUS
    <3>1. reservesList[i] = b /\ b # Zero
      BY RegistryAssumption DEF IInv, ListIsInverse, Listed
    <3> QED
      BY <2>2, <3>1
  <2>6. ListedIds' = [b \in Listed \cup {a} |-> IF b = a THEN i ELSE ListedIds[b]]
    BY <2>3, <2>4 DEF ListedIds, Listed
  <2>7. i \in L!Id
    BY DEF L!Id, Id
  <2>8. L!List(a)
    BY <2>4, <2>5, <2>6, <2>7 DEF L!List, ListedIds
  <2> QED
    BY <2>8 DEF L!Next
<1>2. ASSUME NEW a \in Asset, DropReserve(a) PROVE L!Next
  <2>1. /\ IsListed(a) /\ ~IsListed(a)'
        /\ \A b \in Asset : b # a => reserves'[b] = reserves[b] /\ (IsListed(b)' <=> IsListed(b))
    BY <1>2, DropStep, Zenon
  <2>2. Listed' = Listed \ {a} /\ a \in Listed
    <3>1. \A b \in Asset : IsListed(b)' <=> (IsListed(b) /\ b # a)
      BY <2>1
    <3> QED
      BY <2>1, <3>1 DEF Listed
  <2>3. ListedIds' = [b \in Listed \ {a} |-> ListedIds[b]]
    BY <2>1, <2>2 DEF ListedIds, Listed
  <2>4. L!Drop(a)
    BY <2>2, <2>3 DEF L!Drop, ListedIds
  <2> QED
    BY <2>4 DEF L!Next
<1>3. ASSUME UNCHANGED registry PROVE UNCHANGED ListedIds
  BY <1>3 DEF registry, ListedIds, Listed, IsListed
<1>4. ASSUME NEW a \in Asset, NEW u \in User, CollateralCall(u, a) PROVE UNCHANGED registry
  BY <1>4 DEF CollateralCall, Supply, Withdraw, Transfer, SetUseReserveAsCollateral
<1>5. ASSUME NEW a \in Asset, NEW u \in User, DebtCall(u, a) PROVE UNCHANGED registry
  BY <1>5 DEF DebtCall, Borrow, Repay, SwapToVariable, SwapToStable
<1>6. ASSUME NEW a \in Asset, NEW i \in RAY .. MaxIndex, Accrue(a, i) PROVE UNCHANGED registry
  BY <1>6 DEF Accrue
<1>7. ASSUME UNCHANGED vars PROVE UNCHANGED registry
  BY <1>7 DEF vars
<1> QED
  BY <1>1, <1>2, <1>3, <1>4, <1>5, <1>6, <1>7 DEF Next

\* The list of reserves implements Listing: ids are unique, bounded and stable.
THEOREM RegistryKeepsListing == Spec => KeepsListing
<1>1. Spec => [][L!Next]_ListedIds
  BY RegistryInvariant, ListingStep, PTL DEF Spec
<1> QED
  BY <1>1, ListingInit, PTL DEF Spec, KeepsListing, L!Spec, ListedIds

=============================================================================
