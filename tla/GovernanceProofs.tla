-------------------------- MODULE GovernanceProofs --------------------------
(***************************************************************************)
(* What holds of the pool while administrators decide as they like, for    *)
(* any accounts, reserves, prices and decisions: the invariants of the     *)
(* pool again, sound configurations, siloed debts alone, pauses, freezes   *)
(* and closed reserves.  The pool behind the sentinel is the governed pool *)
(* with fewer calls, so that all of this holds of it; and the sentinel     *)
(* gives users the whole grace period, for any outages and reports.        *)
(***************************************************************************)
EXTENDS Sentinel, PoolSafetyProofs

-----------------------------------------------------------------------------
(* The setters.                                                            *)

\* A setter of a reserve changes one asset's configuration to a sound one, or a
\* setter of a category sets it soundly; the isolated debt is kept or reset.
ReserveSet ==
    /\ config' \in [Asset -> AssetConfig]
    /\ \A a \in Asset : SoundConfig(config'[a])
    /\ UNCHANGED <<positions, eModes>>

CategorySet ==
    /\ eModes' \in [Category -> EModeConfig]
    /\ \A c \in Category : SoundConfig(eModes'[c])
    /\ \A c \in Category : eModes[c].lt # 0 => eModes'[c].lt # 0
    /\ UNCHANGED <<positions, config, isoDebt>>

\* Replacing one reserve's configuration by a sound one is such a change.
LEMMA OneReserveSet ==
    ASSUME IInv, NEW a \in Asset, NEW c \in AssetConfig, SoundConfig(c),
           config' = [config EXCEPT ![a] = c], UNCHANGED <<positions, eModes>>
    PROVE  ReserveSet
<1>1. config \in [Asset -> AssetConfig] /\ \A b \in Asset : SoundConfig(config[b])
  BY DEF IInv, TypeOK, SoundInv
<1>2. config' \in [Asset -> AssetConfig]
  BY <1>1
<1>3. ASSUME NEW b \in Asset PROVE SoundConfig(config'[b])
  BY <1>1, <1>3
<1> QED
  BY <1>2, <1>3 DEF ReserveSet

\* Changing no ltv, threshold or bonus keeps a configuration sound.
LEMMA SoundElsewhere ==
    ASSUME NEW c, NEW d, SoundConfig(c), d.ltv = c.ltv, d.lt = c.lt, d.bonus = c.bonus
    PROVE  SoundConfig(d)
  BY DEF SoundConfig

\* Every setter of a bit keeps the type and the soundness of the configuration.
LEMMA SwitchSets ==
    ASSUME IInv, SwitchCalls
    PROVE  /\ ReserveSet /\ isoDebt' = isoDebt
           /\ \A b \in Asset : config'[b].ceiling = config[b].ceiling
<1>1. config \in [Asset -> AssetConfig] /\ \A b \in Asset : SoundConfig(config[b])
  BY DEF IInv, TypeOK, SoundInv
<1>2. PICK s \in NewSwitch :
        \/ SetReserveBorrowing(s[2], s[3])
        \/ SetReserveStableRateBorrowing(s[2], s[3])
        \/ SetReserveActive(s[2], s[3])
        \/ SetReserveFreeze(s[2], s[3])
        \/ SetBorrowableInIsolation(s[2], s[3])
        \/ SetReservePause(s[2], s[3])
        \/ SetPoolPause(s[3])
        \/ SetSiloedBorrowing(s[2], s[3])
  BY DEF SwitchCalls
<1>3. PICK a \in Asset, on \in BOOLEAN : a = s[2] /\ on = s[3]
  BY <1>2, ConfiguratorAssumption
<1>4. UNCHANGED <<positions, eModes>> /\ isoDebt' = isoDebt
  BY <1>2 DEF SetReserveBorrowing, SetReserveStableRateBorrowing, SetReserveActive,
              SetReserveFreeze, SetBorrowableInIsolation, SetReservePause,
              SetPoolPause, SetSiloedBorrowing
<1> DEFINE Done == /\ ReserveSet /\ isoDebt' = isoDebt
                   /\ \A b \in Asset : config'[b].ceiling = config[b].ceiling
<1>5. ASSUME NEW c \in AssetConfig, c.ceiling = config[a].ceiling, c.ltv = config[a].ltv,
             c.lt = config[a].lt, c.bonus = config[a].bonus,
             config' = [config EXCEPT ![a] = c]
      PROVE  Done
  BY <1>1, <1>4, <1>5, OneReserveSet, SoundElsewhere
<1>6. config[a] \in AssetConfig
  BY <1>1
<1> HIDE DEF Done
<1>7. CASE SetReserveBorrowing(a, on)
  <2> DEFINE c == [config[a] EXCEPT !.borrowing = on]
  <2>1. /\ c \in AssetConfig /\ c.ceiling = config[a].ceiling /\ c.ltv = config[a].ltv
        /\ c.lt = config[a].lt /\ c.bonus = config[a].bonus
    BY <1>6, SMT DEF AssetConfig
  <2>2. config' = [config EXCEPT ![a] = c]
    BY <1>1, <1>7 DEF SetReserveBorrowing
  <2> HIDE DEF c
  <2> QED
    BY <1>5, <2>1, <2>2 DEF Done
<1>8. CASE SetReserveStableRateBorrowing(a, on)
  <2> DEFINE c == [config[a] EXCEPT !.stable = on]
  <2>1. /\ c \in AssetConfig /\ c.ceiling = config[a].ceiling /\ c.ltv = config[a].ltv
        /\ c.lt = config[a].lt /\ c.bonus = config[a].bonus
    BY <1>6, SMT DEF AssetConfig
  <2>2. config' = [config EXCEPT ![a] = c]
    BY <1>1, <1>8 DEF SetReserveStableRateBorrowing
  <2> HIDE DEF c
  <2> QED
    BY <1>5, <2>1, <2>2 DEF Done
<1>9. CASE SetReserveActive(a, on)
  <2> DEFINE c == [config[a] EXCEPT !.active = on]
  <2>1. /\ c \in AssetConfig /\ c.ceiling = config[a].ceiling /\ c.ltv = config[a].ltv
        /\ c.lt = config[a].lt /\ c.bonus = config[a].bonus
    BY <1>6, SMT DEF AssetConfig
  <2>2. config' = [config EXCEPT ![a] = c]
    BY <1>1, <1>9 DEF SetReserveActive
  <2> HIDE DEF c
  <2> QED
    BY <1>5, <2>1, <2>2 DEF Done
<1>10. CASE SetReserveFreeze(a, on)
  <2> DEFINE c == [config[a] EXCEPT !.frozen = on]
  <2>1. /\ c \in AssetConfig /\ c.ceiling = config[a].ceiling /\ c.ltv = config[a].ltv
        /\ c.lt = config[a].lt /\ c.bonus = config[a].bonus
    BY <1>6, SMT DEF AssetConfig
  <2>2. config' = [config EXCEPT ![a] = c]
    BY <1>1, <1>10 DEF SetReserveFreeze
  <2> HIDE DEF c
  <2> QED
    BY <1>5, <2>1, <2>2 DEF Done
<1>11. CASE SetBorrowableInIsolation(a, on)
  <2> DEFINE c == [config[a] EXCEPT !.isoBorrowable = on]
  <2>1. /\ c \in AssetConfig /\ c.ceiling = config[a].ceiling /\ c.ltv = config[a].ltv
        /\ c.lt = config[a].lt /\ c.bonus = config[a].bonus
    BY <1>6, SMT DEF AssetConfig
  <2>2. config' = [config EXCEPT ![a] = c]
    BY <1>1, <1>11 DEF SetBorrowableInIsolation
  <2> HIDE DEF c
  <2> QED
    BY <1>5, <2>1, <2>2 DEF Done
<1>12. CASE SetReservePause(a, on)
  <2> DEFINE c == [config[a] EXCEPT !.paused = on]
  <2>1. /\ c \in AssetConfig /\ c.ceiling = config[a].ceiling /\ c.ltv = config[a].ltv
        /\ c.lt = config[a].lt /\ c.bonus = config[a].bonus
    BY <1>6, SMT DEF AssetConfig
  <2>2. config' = [config EXCEPT ![a] = c]
    BY <1>1, <1>12 DEF SetReservePause
  <2> HIDE DEF c
  <2> QED
    BY <1>5, <2>1, <2>2 DEF Done
<1>13. CASE SetSiloedBorrowing(a, on)
  <2> DEFINE c == [config[a] EXCEPT !.siloed = on]
  <2>1. /\ c \in AssetConfig /\ c.ceiling = config[a].ceiling /\ c.ltv = config[a].ltv
        /\ c.lt = config[a].lt /\ c.bonus = config[a].bonus
    BY <1>6, SMT DEF AssetConfig
  <2>2. config' = [config EXCEPT ![a] = c]
    BY <1>1, <1>13 DEF SetSiloedBorrowing
  <2> HIDE DEF c
  <2> QED
    BY <1>5, <2>1, <2>2 DEF Done
<1>14. CASE SetPoolPause(on)
  <2>1. config' = [b \in Asset |-> [config[b] EXCEPT !.paused = on]]
    BY <1>14 DEF SetPoolPause
  <2>2. ASSUME NEW b \in Asset
        PROVE  /\ config'[b] \in AssetConfig /\ SoundConfig(config'[b])
               /\ config'[b].ceiling = config[b].ceiling
    <3> DEFINE c == [config[b] EXCEPT !.paused = on]
    <3>1. config[b] \in AssetConfig /\ SoundConfig(config[b]) /\ config'[b] = c
      BY <1>1, <2>1, <2>2
    <3>2. /\ c \in AssetConfig /\ c.ceiling = config[b].ceiling /\ c.ltv = config[b].ltv
          /\ c.lt = config[b].lt /\ c.bonus = config[b].bonus
      BY <3>1, SMT DEF AssetConfig
    <3> HIDE DEF c
    <3> QED
      BY <3>1, <3>2, SoundElsewhere
  <2>3. config' \in [Asset -> AssetConfig]
    BY <2>1, <2>2
  <2> QED
    BY <1>4, <2>2, <2>3 DEF Done, ReserveSet
<1> QED
  BY <1>2, <1>3, <1>7, <1>8, <1>9, <1>10, <1>11, <1>12, <1>13, <1>14 DEF Done

\* So does every setter of a number; only setDebtCeiling changes a ceiling, and it
\* resets the isolated debt when the ceiling is removed.
LEMMA NumberSets ==
    ASSUME IInv, CeilingStartsAtZero, NumberCalls
    PROVE  ReserveSet /\ isoDebt' \in [Asset -> Nat] /\ CeilingStartsAtZero'
<1>1. /\ config \in [Asset -> AssetConfig] /\ \A b \in Asset : SoundConfig(config[b])
      /\ isoDebt \in [Asset -> Nat]
  BY DEF IInv, TypeOK, SoundInv
<1>2. PICK s \in NewNumber :
        \/ SetDebtCeiling(s[2], s[3])
        \/ SetSupplyCap(s[2], s[3])
        \/ SetBorrowCap(s[2], s[3])
        \/ SetLiquidationProtocolFee(s[2], s[3])
  BY DEF NumberCalls
<1>3. PICK a \in Asset, n \in Nat : a = s[2] /\ n = s[3]
  BY <1>2, ConfiguratorAssumption
<1>4. config[a] \in AssetConfig /\ SoundConfig(config[a])
  BY <1>1
<1>5. ASSUME NEW c \in AssetConfig, c.ltv = config[a].ltv, c.lt = config[a].lt,
             c.bonus = config[a].bonus, config' = [config EXCEPT ![a] = c],
             UNCHANGED <<positions, eModes>>
      PROVE  ReserveSet
  BY <1>4, <1>5, OneReserveSet, SoundElsewhere
<1>6. CASE SetDebtCeiling(a, n)
  <2> DEFINE c == [config[a] EXCEPT !.ceiling = n]
  <2>1. /\ c \in AssetConfig /\ c.ceiling = n /\ c.ltv = config[a].ltv
        /\ c.lt = config[a].lt /\ c.bonus = config[a].bonus
    BY <1>4, SMT DEF AssetConfig
  <2>2. config' = [config EXCEPT ![a] = c] /\ UNCHANGED <<positions, eModes>>
    BY <1>1, <1>6 DEF SetDebtCeiling
  <2>3. isoDebt' = IF n = 0 THEN [isoDebt EXCEPT ![a] = 0] ELSE isoDebt
    BY <1>6 DEF SetDebtCeiling
  <2> HIDE DEF c
  <2>4. ReserveSet
    BY <1>5, <2>1, <2>2
  <2>5. isoDebt' \in [Asset -> Nat]
    BY <1>1, <2>3
  <2>6. ASSUME NEW b \in Asset, config'[b].ceiling = 0 PROVE isoDebt'[b] = 0
    BY <1>1, <2>1, <2>2, <2>3, <2>6 DEF CeilingStartsAtZero
  <2> QED
    BY <2>4, <2>5, <2>6 DEF CeilingStartsAtZero
<1>7. CASE SetSupplyCap(a, n)
  <2> DEFINE c == [config[a] EXCEPT !.supplyCap = n]
  <2>1. /\ c \in AssetConfig /\ c.ceiling = config[a].ceiling /\ c.ltv = config[a].ltv
        /\ c.lt = config[a].lt /\ c.bonus = config[a].bonus
    BY <1>4, SMT DEF AssetConfig
  <2>2. config' = [config EXCEPT ![a] = c] /\ UNCHANGED <<positions, eModes, isoDebt>>
    BY <1>1, <1>7 DEF SetSupplyCap
  <2> HIDE DEF c
  <2>3. ReserveSet
    BY <1>5, <2>1, <2>2
  <2>4. \A b \in Asset : config'[b].ceiling = config[b].ceiling
    BY <1>1, <2>1, <2>2
  <2> QED
    BY <1>1, <2>2, <2>3, <2>4 DEF CeilingStartsAtZero
<1>8. CASE SetBorrowCap(a, n)
  <2> DEFINE c == [config[a] EXCEPT !.borrowCap = n]
  <2>1. /\ c \in AssetConfig /\ c.ceiling = config[a].ceiling /\ c.ltv = config[a].ltv
        /\ c.lt = config[a].lt /\ c.bonus = config[a].bonus
    BY <1>4, SMT DEF AssetConfig
  <2>2. config' = [config EXCEPT ![a] = c] /\ UNCHANGED <<positions, eModes, isoDebt>>
    BY <1>1, <1>8 DEF SetBorrowCap
  <2> HIDE DEF c
  <2>3. ReserveSet
    BY <1>5, <2>1, <2>2
  <2>4. \A b \in Asset : config'[b].ceiling = config[b].ceiling
    BY <1>1, <2>1, <2>2
  <2> QED
    BY <1>1, <2>2, <2>3, <2>4 DEF CeilingStartsAtZero
<1>9. CASE SetLiquidationProtocolFee(a, n)
  <2> DEFINE c == [config[a] EXCEPT !.fee = n]
  <2>1. /\ c \in AssetConfig /\ c.ceiling = config[a].ceiling /\ c.ltv = config[a].ltv
        /\ c.lt = config[a].lt /\ c.bonus = config[a].bonus
    BY <1>4, <1>9, ScaleAssumption, SMT DEF AssetConfig, SetLiquidationProtocolFee
  <2>2. config' = [config EXCEPT ![a] = c] /\ UNCHANGED <<positions, eModes, isoDebt>>
    BY <1>1, <1>9 DEF SetLiquidationProtocolFee
  <2> HIDE DEF c
  <2>3. ReserveSet
    BY <1>5, <2>1, <2>2
  <2>4. \A b \in Asset : config'[b].ceiling = config[b].ceiling
    BY <1>1, <2>1, <2>2
  <2> QED
    BY <1>1, <2>2, <2>3, <2>4 DEF CeilingStartsAtZero
<1> QED
  BY <1>2, <1>3, <1>6, <1>7, <1>8, <1>9

\* Collateral settings are checked to be sound.
LEMMA CollateralSets ==
    ASSUME IInv, NEW p \in NewCollateral,
           ConfigureReserveAsCollateral(p[1], p[2], p[3], p[4])
    PROVE  /\ ReserveSet /\ isoDebt' = isoDebt
           /\ \A b \in Asset : config'[b].ceiling = config[b].ceiling
<1>1. PICK a \in Asset, ltv \in Nat, lt \in Nat, bonus \in Nat :
         a = p[1] /\ ltv = p[2] /\ lt = p[3] /\ bonus = p[4]
  BY ConfiguratorAssumption
<1>2. config \in [Asset -> AssetConfig] /\ config[a] \in AssetConfig
  BY DEF IInv, TypeOK
<1> DEFINE c == [config[a] EXCEPT !.ltv = ltv, !.lt = lt, !.bonus = bonus]
<1>3. c \in AssetConfig /\ c.ceiling = config[a].ceiling /\ c.ltv = ltv /\ c.lt = lt
      /\ c.bonus = bonus
  <2> DEFINE c1 == [config[a] EXCEPT !.ltv = ltv]
             c2 == [c1 EXCEPT !.lt = lt]
  <2>1. c1 \in AssetConfig /\ c1.ceiling = config[a].ceiling /\ c1.ltv = ltv
    BY <1>2, SMT DEF AssetConfig
  <2> HIDE DEF c1
  <2>2. c2 \in AssetConfig /\ c2.ceiling = c1.ceiling /\ c2.ltv = c1.ltv /\ c2.lt = lt
    BY <2>1, SMT DEF AssetConfig
  <2>3. c = [c2 EXCEPT !.bonus = bonus]
    BY DEF c1
  <2> HIDE DEF c, c2
  <2> QED
    BY <2>1, <2>2, <2>3, SMT DEF AssetConfig
<1>4. config' = [config EXCEPT ![a] = c] /\ UNCHANGED <<positions, eModes, isoDebt>>
  BY <1>1, <1>2 DEF ConfigureReserveAsCollateral
<1>5. ltv <= lt /\ (lt # 0 => /\ bonus > PERCENTAGE_FACTOR
                              /\ PercentMul(lt, bonus) <= PERCENTAGE_FACTOR)
  BY <1>1 DEF ConfigureReserveAsCollateral
<1> HIDE DEF c
<1>6. SoundConfig(c)
  BY <1>3, <1>5 DEF SoundConfig
<1> QED
  BY <1>2, <1>3, <1>4, <1>6, OneReserveSet

\* So is an asset's membership of a category, which changes nothing else.
LEMMA MembershipSets ==
    ASSUME IInv, NEW p \in NewMembership, SetAssetEModeCategory(p[1], p[2])
    PROVE  /\ ReserveSet /\ isoDebt' = isoDebt
           /\ \A b \in Asset : config'[b].ceiling = config[b].ceiling
<1>1. PICK a \in Asset, k \in Category \cup {NoCategory} : a = p[1] /\ k = p[2]
  BY ConfiguratorAssumption
<1>2. /\ config \in [Asset -> AssetConfig] /\ config[a] \in AssetConfig
      /\ SoundConfig(config[a])
  BY DEF IInv, TypeOK, SoundInv
<1> DEFINE c == [config[a] EXCEPT !.category = k]
<1>3. /\ c \in AssetConfig /\ c.ceiling = config[a].ceiling /\ c.ltv = config[a].ltv
      /\ c.lt = config[a].lt /\ c.bonus = config[a].bonus
  BY <1>2, SMT DEF AssetConfig
<1>4. config' = [config EXCEPT ![a] = c] /\ UNCHANGED <<positions, eModes, isoDebt>>
  BY <1>1, <1>2 DEF SetAssetEModeCategory
<1> HIDE DEF c
<1>5. SoundConfig(c)
  BY <1>2, <1>3, SoundElsewhere
<1> QED
  BY <1>2, <1>3, <1>4, <1>5, OneReserveSet

\* Categories are checked to be sound, and are never unset.
LEMMA EModeSets ==
    ASSUME IInv, NEW p \in NewEMode,
           SetEModeCategory(p[1], p[2], p[3], p[4], p[5])
    PROVE  CategorySet
<1>1. PICK c \in Category, ltv \in Nat, lt \in Nat, bonus \in Nat,
           priceSource \in BOOLEAN :
         c = p[1] /\ ltv = p[2] /\ lt = p[3] /\ bonus = p[4] /\ priceSource = p[5]
  BY ConfiguratorAssumption
<1> DEFINE e == [ltv |-> ltv, lt |-> lt, bonus |-> bonus, priceSource |-> priceSource]
<1>2. /\ e \in EModeConfig /\ e.ltv = ltv /\ e.lt = lt /\ e.bonus = bonus
  BY SMT DEF EModeConfig
<1>3. /\ eModes' = [eModes EXCEPT ![c] = e]
      /\ lt # 0 /\ ltv <= lt
      /\ bonus > PERCENTAGE_FACTOR /\ PercentMul(lt, bonus) <= PERCENTAGE_FACTOR
      /\ UNCHANGED <<positions, config, isoDebt>>
  BY <1>1 DEF SetEModeCategory
<1>4. eModes \in [Category -> EModeConfig] /\ \A d \in Category : SoundConfig(eModes[d])
  BY DEF IInv, TypeOK, SoundInv
<1> HIDE DEF e
<1>5. SoundConfig(e)
  BY <1>2, <1>3 DEF SoundConfig
<1>6. eModes' \in [Category -> EModeConfig]
  BY <1>2, <1>3, <1>4
<1>7. ASSUME NEW d \in Category
      PROVE  SoundConfig(eModes'[d]) /\ (eModes[d].lt # 0 => eModes'[d].lt # 0)
  BY <1>2, <1>3, <1>4, <1>5, <1>7
<1> QED
  BY <1>3, <1>6, <1>7 DEF CategorySet

-----------------------------------------------------------------------------
(* The invariants of the pool under governance.                            *)

\* The administrators' calls keep the invariant of the pool.
LEMMA ConfiguratorStep ==
    ASSUME IInv, CeilingStartsAtZero, ConfiguratorCalls
    PROVE  IInv' /\ CeilingStartsAtZero'
<1>1. TypeOK /\ SoundInv /\ DebtIsFlagged
  BY DEF IInv
<1>2. \/ ReserveSet /\ isoDebt' \in [Asset -> Nat] /\ CeilingStartsAtZero'
      \/ CategorySet
  <2>1. isoDebt \in [Asset -> Nat]
    BY <1>1 DEF TypeOK
  <2>2. ASSUME isoDebt' = isoDebt, \A b \in Asset : config'[b].ceiling = config[b].ceiling
        PROVE  CeilingStartsAtZero'
    BY <2>2 DEF CeilingStartsAtZero
  <2> QED
    BY <2>1, <2>2, SwitchSets, NumberSets, CollateralSets, MembershipSets, EModeSets
       DEF ConfiguratorCalls
<1>3. CASE ReserveSet /\ isoDebt' \in [Asset -> Nat] /\ CeilingStartsAtZero'
  <2>1. UNCHANGED <<price, hBal, vBal, sBal, li, vi, cash, coll, bor, emode, eModes>>
        /\ config' \in [Asset -> AssetConfig] /\ \A a \in Asset : SoundConfig(config'[a])
    BY <1>3 DEF ReserveSet, positions
  <2>2. TypeOK'
    BY <1>1, <1>3, <2>1 DEF TypeOK
  <2>3. SoundInv'
    BY <1>1, <2>1 DEF SoundInv, SoundConfig
  <2> QED
    BY <1>1, <1>3, <2>1, <2>2, <2>3 DEF IInv, DebtIsFlagged
<1>4. CASE CategorySet
  <2>1. /\ UNCHANGED <<price, hBal, vBal, sBal, li, vi, cash, coll, bor, emode, config,
                       isoDebt>>
        /\ eModes' \in [Category -> EModeConfig]
        /\ \A c \in Category : SoundConfig(eModes'[c])
        /\ \A c \in Category : eModes[c].lt # 0 => eModes'[c].lt # 0
    BY <1>4 DEF CategorySet, positions
  <2>2. TypeOK'
    BY <1>1, <2>1 DEF TypeOK
  <2>3. \A u \in User : emode[u] # NoCategory => emode[u] \in Category
    BY <1>1 DEF TypeOK
  <2>4. SoundInv'
    BY <1>1, <2>1, <2>3 DEF SoundInv, SoundConfig
  <2>5. DebtIsFlagged' /\ CeilingStartsAtZero'
    BY <1>1, <2>1 DEF DebtIsFlagged, CeilingStartsAtZero
  <2> QED
    BY <2>2, <2>4, <2>5 DEF IInv
<1> QED
  BY <1>2, <1>3, <1>4

\* Only isolated positions, whose collateral has a ceiling, count isolated debt.
LEMMA CeilingStep ==
    ASSUME IInv, CeilingStartsAtZero, Next
    PROVE  CeilingStartsAtZero'
<1>1. TypeOK /\ isoDebt \in [Asset -> Nat]
  BY DEF IInv, TypeOK
<1>2. ASSUME NEW u \in User, NEW a \in Asset, NEW n \in Nat, NEW mode \in RateMode,
             Borrow(u, a, n, mode)
      PROVE  CeilingStartsAtZero'
  BY <1>1, <1>2 DEF Borrow, CeilingStartsAtZero, IsolatedIn
<1>3. ASSUME NEW u \in User, NEW a \in Asset, NEW n, NEW flags,
             isoDebt' = RepaidIsolatedDebt(u, a, n, flags), config' = config
      PROVE  CeilingStartsAtZero'
  BY <1>1, <1>3 DEF RepaidIsolatedDebt, CeilingStartsAtZero, IsolatedIn
<1>4. ASSUME NEW u \in User, NEW a \in Asset, NEW n \in Nat, NEW mode \in RateMode,
             NEW useHTokens \in BOOLEAN, Repay(u, a, n, mode, useHTokens)
      PROVE  CeilingStartsAtZero'
  <2>1. \E amount : isoDebt' = RepaidIsolatedDebt(u, a, amount, coll)
    BY <1>4 DEF Repay
  <2> QED
    BY <1>3, <1>4, <2>1 DEF Repay
<1>5. ASSUME NEW liquidator \in User, NEW u \in User, NEW c \in Asset, NEW d \in Asset,
             NEW n \in Nat, NEW receiveHToken \in BOOLEAN,
             Liquidate(liquidator, u, c, d, n, receiveHToken)
      PROVE  CeilingStartsAtZero'
  <2>1. \E amount, flags : isoDebt' = RepaidIsolatedDebt(u, d, amount, flags)
    BY <1>5 DEF Liquidate
  <2> QED
    BY <1>3, <1>5, <2>1 DEF Liquidate
<1>6. ASSUME UNCHANGED <<config, isoDebt>> PROVE CeilingStartsAtZero'
  BY <1>6 DEF CeilingStartsAtZero
<1>7. ASSUME NEW u \in User, NEW to \in User, NEW a \in Asset, NEW n \in Nat,
             Supply(u, a, n) \/ Withdraw(u, a, n) \/ Transfer(u, to, a, n)
      PROVE  UNCHANGED <<config, isoDebt>>
  BY <1>7 DEF Supply, Withdraw, Transfer
<1>8. ASSUME NEW u \in User, NEW a \in Asset,
             \/ EnableCollateral(u, a) \/ DisableCollateral(u, a)
             \/ SwapToVariable(u, a) \/ SwapToStable(u, a)
      PROVE  UNCHANGED <<config, isoDebt>>
  BY <1>8 DEF EnableCollateral, DisableCollateral, SwapToVariable, SwapToStable
<1>9. ASSUME NEW u \in User, NEW category, SetUserEMode(u, category)
      PROVE  UNCHANGED <<config, isoDebt>>
  BY <1>9 DEF SetUserEMode
<1>10. ASSUME NEW a, NEW income, NEW variable, NEW stable,
              Accrue(a, income, variable, stable)
       PROVE  UNCHANGED <<config, isoDebt>>
  BY <1>10 DEF Accrue
<1>11. ASSUME NEW source, NEW p, SetPrice(source, p) PROVE UNCHANGED <<config, isoDebt>>
  BY <1>11 DEF SetPrice
<1> QED
  BY <1>1, <1>2, <1>4, <1>5, <1>6, <1>7, <1>8, <1>9, <1>10, <1>11, StepCases

\* The invariants hold at first, and every call of a user or an administrator,
\* time and the oracle keep them.
LEMMA GovernedCorrect == GovernedSpec => [](IInv /\ CeilingStartsAtZero)
<1>1. Init => IInv /\ CeilingStartsAtZero
  BY InitIInv DEF Init, CeilingStartsAtZero
<1>2. IInv /\ CeilingStartsAtZero /\ [GovernedNext]_vars => (IInv /\ CeilingStartsAtZero)'
  <2> SUFFICES ASSUME IInv, CeilingStartsAtZero, [GovernedNext]_vars
               PROVE  IInv' /\ CeilingStartsAtZero'
    OBVIOUS
  <2>1. CASE Next
    BY <2>1, StepIInv, CeilingStep
  <2>2. CASE ConfiguratorCalls
    BY <2>2, ConfiguratorStep
  <2>3. CASE UNCHANGED vars
    <3>1. CeilingStartsAtZero'
      BY <2>3 DEF vars, CeilingStartsAtZero
    <3> QED
      BY <2>3, <3>1, StepIInv
  <2> QED
    BY <2>1, <2>2, <2>3 DEF GovernedNext
<1> QED
  BY <1>1, <1>2, PTL DEF GovernedSpec

\* Type correctness survives every change of the configuration under open
\* positions: no balance, cash or isolated debt underflows.
THEOREM GovernedTypeCorrect == GovernedSpec => []TypeOK
<1>1. IInv /\ CeilingStartsAtZero => TypeOK
  BY DEF IInv
<1> QED
  BY <1>1, GovernedCorrect, PTL

\* So does the flagging of every debt.
THEOREM GovernedDebtFlagged == GovernedSpec => []DebtIsFlagged
<1>1. IInv /\ CeilingStartsAtZero => DebtIsFlagged
  BY DEF IInv
<1> QED
  BY <1>1, GovernedCorrect, PTL

\* No sequence of setters makes the configuration unsound.
THEOREM ConfigurationStaysSound == GovernedSpec => []SoundConfiguration
<1>1. IInv /\ CeilingStartsAtZero => SoundConfiguration
  BY DEF IInv, TypeOK, SoundInv, SoundConfiguration
<1> QED
  BY <1>1, GovernedCorrect, PTL

\* A reserve outside isolation mode counts no isolated debt.
THEOREM CeilingAlwaysStartsAtZero == GovernedSpec => []CeilingStartsAtZero
  BY GovernedCorrect, PTL

-----------------------------------------------------------------------------
(* A paused reserve stands still.                                          *)


\* What a call leaves of reserve b: its cash, its claims, its debts, its flags.
StandsStill(b) ==
    /\ cash'[b] = cash[b]
    /\ \A w \in Account : hBal'[w][b] = hBal[w][b]
    /\ \A w \in User :
          /\ vBal'[w][b] = vBal[w][b] /\ sBal'[w][b] = sBal[w][b]
          /\ b \in coll'[w] <=> b \in coll[w]
          /\ b \in bor'[w] <=> b \in bor[w]

\* The part of that which is not about claims.
DebtsStandStill(b) ==
    /\ cash'[b] = cash[b]
    /\ \A w \in User :
          /\ vBal'[w][b] = vBal[w][b] /\ sBal'[w][b] = sBal[w][b]
          /\ b \in bor'[w] <=> b \in bor[w]

-----------------------------------------------------------------------------
(* Updates that concern another reserve.                                   *)

\* An entry of a table is written for one reserve only.
LEMMA OtherEntry ==
    ASSUME NEW S, NEW f \in [S -> [Asset -> Nat]], NEW u \in S, NEW a \in Asset, NEW n,
           NEW w \in S, NEW b \in Asset, a # b
    PROVE  [f EXCEPT ![u][a] = n][w][b] = f[w][b]
  OBVIOUS

\* A flag is set or cleared for one reserve only.
LEMMA OtherFlag ==
    ASSUME NEW f \in [User -> SUBSET Asset], NEW u \in User, NEW w \in User,
           NEW a \in Asset, NEW b \in Asset, a # b, NEW cond \in BOOLEAN
    PROVE  /\ AddIf(f, u, a, cond) \in [User -> SUBSET Asset]
           /\ RemoveIf(f, u, a, cond) \in [User -> SUBSET Asset]
           /\ b \in AddIf(f, u, a, cond)[w] <=> b \in f[w]
           /\ b \in RemoveIf(f, u, a, cond)[w] <=> b \in f[w]
  BY DEF AddIf, RemoveIf

\* A burn of variable debt concerns its own reserve.
LEMMA OtherVariable ==
    ASSUME TypeOK, NEW u \in User, NEW a \in Asset, NEW n, NEW b \in Asset, a # b,
           BurnVariable(u, a, n), NEW w \in User
    PROVE  vBal'[w][b] = vBal[w][b]
  BY OtherEntry DEF TypeOK, BurnVariable

\* So does one of stable debt.
LEMMA OtherStable ==
    ASSUME TypeOK, NEW u \in User, NEW a \in Asset, NEW n, NEW b \in Asset, a # b,
           BurnStable(u, a, n), NEW w \in User
    PROVE  sBal'[w][b] = sBal[w][b]
  BY OtherEntry DEF TypeOK, BurnStable

-----------------------------------------------------------------------------
(* The calls.                                                              *)

\* Supplies, withdrawals and changes of flags need a usable reserve and concern
\* no other.
LEMMA SupplySideStands ==
    ASSUME TypeOK, NEW b \in Asset, ~Usable(b),
           NEW u \in User, NEW a \in Asset, NEW n \in Nat,
           \/ Supply(u, a, n) \/ Withdraw(u, a, n)
           \/ EnableCollateral(u, a) \/ DisableCollateral(u, a)
    PROVE  StandsStill(b)
<1>1. a # b
  BY DEF Supply, Withdraw, EnableCollateral, DisableCollateral, Usable
<1>2. /\ cash \in [Asset -> Nat] /\ hBal \in [Account -> [Asset -> Nat]]
      /\ coll \in [User -> SUBSET Asset] /\ u \in Account
  BY DEF TypeOK, Account
<1>3. CASE Supply(u, a, n)
  <2>1. cash'[b] = cash[b] /\ UNCHANGED <<vBal, sBal, bor>>
    BY <1>1, <1>2, <1>3 DEF Supply
  <2>2. ASSUME NEW w \in Account PROVE hBal'[w][b] = hBal[w][b]
    BY <1>1, <1>2, <1>3, OtherEntry DEF Supply
  <2>3. ASSUME NEW w \in User PROVE b \in coll'[w] <=> b \in coll[w]
    BY <1>1, <1>2, <1>3 DEF Supply, AddIf
  <2> QED
    BY <2>1, <2>2, <2>3 DEF StandsStill
<1>4. CASE Withdraw(u, a, n)
  <2>1. cash'[b] = cash[b] /\ UNCHANGED <<vBal, sBal, bor>>
    BY <1>1, <1>2, <1>4 DEF Withdraw
  <2>2. ASSUME NEW w \in Account PROVE hBal'[w][b] = hBal[w][b]
    BY <1>1, <1>2, <1>4, OtherEntry DEF Withdraw
  <2>3. ASSUME NEW w \in User PROVE b \in coll'[w] <=> b \in coll[w]
    BY <1>1, <1>2, <1>4 DEF Withdraw, RemoveIf
  <2> QED
    BY <2>1, <2>2, <2>3 DEF StandsStill
<1>5. CASE EnableCollateral(u, a) \/ DisableCollateral(u, a)
  BY <1>1, <1>2, <1>5 DEF EnableCollateral, DisableCollateral, StandsStill
<1> QED
  BY <1>3, <1>4, <1>5

\* A transfer of a paused hToken is refused, and another one moves only its own; no
\* transfer moves debts or cash.
LEMMA TransferStands ==
    ASSUME TypeOK, NEW b \in Asset, ~Usable(b),
           NEW u \in User, NEW to \in User, NEW a \in Asset, NEW n \in Nat,
           Transfer(u, to, a, n)
    PROVE  DebtsStandStill(b) /\ (config[b].paused => StandsStill(b))
<1>1. UNCHANGED <<cash, vBal, sBal, bor>> /\ (config[b].paused => a # b)
  BY DEF Transfer
<1>2. /\ hBal \in [Account -> [Asset -> Nat]] /\ coll \in [User -> SUBSET Asset]
      /\ u \in Account /\ to \in Account
  BY DEF TypeOK, Account
<1>3. ASSUME NEW w \in Account, config[b].paused PROVE hBal'[w][b] = hBal[w][b]
  BY <1>1, <1>2, <1>3 DEF Transfer
<1>4. ASSUME NEW w \in User, config[b].paused PROVE b \in coll'[w] <=> b \in coll[w]
  BY <1>1, <1>2, <1>4 DEF Transfer, AddIf, RemoveIf
<1> QED
  BY <1>1, <1>3, <1>4 DEF StandsStill, DebtsStandStill

\* A loan of another reserve mints its debt and takes its cash.
LEMMA BorrowStands ==
    ASSUME TypeOK, NEW b \in Asset, ~Usable(b),
           NEW u \in User, NEW a \in Asset, NEW n \in Nat, NEW mode \in RateMode,
           Borrow(u, a, n, mode)
    PROVE  StandsStill(b)
<1>1. a # b /\ UNCHANGED <<hBal, coll>>
  BY DEF Borrow, BorrowAllowed, Usable
<1>2. /\ cash \in [Asset -> Nat] /\ bor \in [User -> SUBSET Asset]
      /\ vBal \in [User -> [Asset -> Nat]] /\ sBal \in [User -> [Asset -> Nat]]
  BY DEF TypeOK
<1>3. cash'[b] = cash[b] /\ MintDebt(u, a, n, mode)
  BY <1>1, <1>2 DEF Borrow
<1>4. ASSUME NEW w \in User
      PROVE  /\ vBal'[w][b] = vBal[w][b] /\ sBal'[w][b] = sBal[w][b]
             /\ b \in bor'[w] <=> b \in bor[w]
  BY <1>1, <1>2, <1>3 DEF MintDebt, AddIf
<1> QED
  BY <1>1, <1>3, <1>4 DEF StandsStill

\* A repayment burns the debt of another reserve and is paid in that one.
LEMMA RepayStands ==
    ASSUME TypeOK, NEW b \in Asset, ~Usable(b),
           NEW u \in User, NEW a \in Asset, NEW n \in Nat, NEW mode \in RateMode,
           NEW useHTokens \in BOOLEAN, Repay(u, a, n, mode, useHTokens)
    PROVE  StandsStill(b)
<1>1. a # b /\ UNCHANGED coll
  BY DEF Repay, Usable
<1>2. /\ cash \in [Asset -> Nat] /\ bor \in [User -> SUBSET Asset]
      /\ hBal \in [Account -> [Asset -> Nat]] /\ u \in Account
  BY DEF TypeOK, Account
<1>3. PICK amount :
         /\ \/ BurnVariable(u, a, amount) /\ UNCHANGED sBal
            \/ BurnStable(u, a, amount) /\ UNCHANGED vBal
         /\ bor' = RemoveIf(bor, u, a, Debt(u, a) = amount)
         /\ Payment(u, a, amount, useHTokens)
  BY DEF Repay
<1>4. cash'[b] = cash[b]
  BY <1>1, <1>2, <1>3 DEF Payment
<1>5. ASSUME NEW w \in Account PROVE hBal'[w][b] = hBal[w][b]
  BY <1>1, <1>2, <1>3 DEF Payment
<1>6. ASSUME NEW w \in User
      PROVE  vBal'[w][b] = vBal[w][b] /\ sBal'[w][b] = sBal[w][b]
  BY <1>1, <1>3, OtherVariable, OtherStable
<1>7. ASSUME NEW w \in User PROVE b \in bor'[w] <=> b \in bor[w]
  BY <1>1, <1>2, <1>3 DEF RemoveIf
<1> QED
  BY <1>1, <1>4, <1>5, <1>6, <1>7 DEF StandsStill

\* A swap turns the debt of another reserve from one mode into the other.
LEMMA SwapStands ==
    ASSUME TypeOK, NEW b \in Asset, ~Usable(b), NEW u \in User, NEW a \in Asset,
           SwapToVariable(u, a) \/ SwapToStable(u, a)
    PROVE  StandsStill(b)
<1>1. a # b /\ UNCHANGED <<cash, hBal, coll, bor>>
  BY DEF SwapToVariable, SwapToStable, Usable
<1>2. /\ vBal \in [User -> [Asset -> Nat]] /\ sBal \in [User -> [Asset -> Nat]]
  BY DEF TypeOK
<1>3. ASSUME NEW w \in User
      PROVE  vBal'[w][b] = vBal[w][b] /\ sBal'[w][b] = sBal[w][b]
  <2>1. CASE SwapToVariable(u, a)
    BY <1>1, <1>2, <2>1 DEF SwapToVariable
  <2>2. CASE SwapToStable(u, a)
    <3>1. BurnVariable(u, a, VariableDebt(u, a))
      BY <2>2 DEF SwapToStable
    <3>2. sBal'[w][b] = sBal[w][b]
      BY <1>1, <1>2, <2>2 DEF SwapToStable
    <3> QED
      BY <1>1, <3>1, <3>2, OtherVariable
  <2> QED
    BY <2>1, <2>2
<1> QED
  BY <1>1, <1>3 DEF StandsStill

\* A table of balances, whatever it holds, written at one reserve.
IsTable(f) == f = [w \in Account |-> [a \in Asset |-> f[w][a]]]
Written(f, u, c, n) == [f EXCEPT ![u][c] = n]

\* The result is a table again, and the other reserves' entries are as they were.
LEMMA TableWritten ==
    ASSUME NEW f, IsTable(f), NEW u \in Account, NEW c \in Asset, NEW n,
           NEW w \in Account, NEW b \in Asset, b # c
    PROVE  IsTable(Written(f, u, c, n)) /\ Written(f, u, c, n)[w][b] = f[w][b]
<1> DEFINE g == Written(f, u, c, n)
<1>1. /\ DOMAIN f = Account
      /\ \A v \in Account : f[v] = [a \in Asset |-> f[v][a]]
  BY DEF IsTable
<1>2. g = [v \in Account |-> IF v = u THEN [f[u] EXCEPT ![c] = n] ELSE f[v]]
  BY <1>1 DEF Written
<1>3. g = [v \in Account |-> [a \in Asset |-> IF v = u /\ a = c THEN n ELSE f[v][a]]]
  BY <1>1, <1>2
<1> HIDE DEF g
<1>4. IsTable(g)
  BY <1>3 DEF IsTable
<1>5. g[w][b] = f[w][b]
  BY <1>3
<1> QED
  BY <1>4, <1>5 DEF g

\* The seized hTokens and the fee move between three accounts, of one reserve.
LEMMA SeizedStands ==
    ASSUME hBal \in [Account -> [Asset -> Nat]], NEW u \in User, NEW liquidator \in User,
           NEW c \in Asset, NEW quote, NEW receiveHToken \in BOOLEAN,
           SeizeHTokens(liquidator, u, c, quote, receiveHToken),
           NEW w \in Account, NEW b \in Asset, b # c
    PROVE  hBal'[w][b] = hBal[w][b]
<1> DEFINE seized == RayDiv(quote.collateral, li[c])
           left == IF receiveHToken /\ liquidator = u THEN hBal[u][c]
                   ELSE hBal[u][c] - seized
           fee == Lesser(RayDiv(quote.fee, li[c]), left)
           paid == [hBal EXCEPT ![u][c] = left]
           received == IF receiveHToken /\ liquidator # u
                       THEN [paid EXCEPT ![liquidator][c] = @ + seized] ELSE paid
           charged == [received EXCEPT ![u][c] = @ - fee]
<1>1. hBal' = [charged EXCEPT ![Treasury][c] = @ + fee]
  BY DEF SeizeHTokens
<1>2. u \in Account /\ liquidator \in Account /\ Treasury \in Account
  BY DEF Account
<1> HIDE DEF seized, left, fee
<1>3. IsTable(paid) /\ paid[w][b] = hBal[w][b]
  <2>1. IsTable(hBal)
    BY DEF IsTable
  <2>2. paid = Written(hBal, u, c, left)
    BY DEF Written
  <2> HIDE DEF paid, received, charged
  <2> QED
    BY <1>2, <2>1, <2>2, TableWritten
<1> HIDE DEF paid
<1>4. IsTable(received) /\ received[w][b] = paid[w][b]
  <2>1. CASE receiveHToken /\ liquidator # u
    <3>1. received = Written(paid, liquidator, c, paid[liquidator][c] + seized)
      BY <2>1 DEF Written
    <3> HIDE DEF received, charged
    <3> QED
      BY <1>2, <1>3, <3>1, TableWritten
  <2>2. CASE ~(receiveHToken /\ liquidator # u)
    BY <1>3, <2>2
  <2> QED
    BY <2>1, <2>2
<1> HIDE DEF received
<1>5. IsTable(charged) /\ charged[w][b] = received[w][b]
  <2>1. charged = Written(received, u, c, received[u][c] - fee)
    BY DEF Written
  <2> HIDE DEF charged
  <2> QED
    BY <1>2, <1>4, <2>1, TableWritten
<1> HIDE DEF charged
<1>6. hBal'[w][b] = charged[w][b]
  <2>1. hBal' = Written(charged, Treasury, c, charged[Treasury][c] + fee)
    BY <1>1 DEF Written
  <2> QED
    BY <1>2, <1>5, <2>1, TableWritten
<1> QED
  BY <1>3, <1>4, <1>5, <1>6

\* A liquidation needs both its reserves usable, and touches no third one.
LEMMA LiquidateStands ==
    ASSUME TypeOK, NEW b \in Asset, ~Usable(b),
           NEW liquidator \in User, NEW u \in User, NEW c \in Asset, NEW d \in Asset,
           NEW n \in Nat, NEW receiveHToken \in BOOLEAN,
           Liquidate(liquidator, u, c, d, n, receiveHToken)
    PROVE  StandsStill(b)
<1>1. c # b /\ d # b
  BY DEF Liquidate, LiquidationAllowed, Usable
<1>2. /\ cash \in [Asset -> Nat] /\ bor \in [User -> SUBSET Asset]
      /\ coll \in [User -> SUBSET Asset] /\ hBal \in [Account -> [Asset -> Nat]]
      /\ u \in Account /\ liquidator \in Account /\ Treasury \in Account
  BY DEF TypeOK, Account
<1> DEFINE quote == Quote(u, c, d, DebtToLiquidate(u, d, n))
           left == RemoveIf(coll, u, c, quote.collateral + quote.fee = HBalance(u, c))
           fresh == receiveHToken /\ HBalance(liquidator, c) = 0
<1>3. /\ bor' = RemoveIf(bor, u, d, Debt(u, d) = quote.debt)
      /\ BurnDebt(u, d, quote.debt)
      /\ SeizeHTokens(liquidator, u, c, quote, receiveHToken)
      /\ coll' = AddIf(left, liquidator, c,
                       fresh /\ CanUseAsCollateral(liquidator, c, left))
      /\ \/ cash' = [cash EXCEPT ![d] = @ + quote.debt]
         \/ cash' = [a \in Asset |->
                       cash[a] - (IF a = c THEN quote.collateral ELSE 0)
                               + (IF a = d THEN quote.debt ELSE 0)]
  BY DEF Liquidate
<1> HIDE DEF quote, fresh
<1>4. cash'[b] = cash[b]
  <2>1. cash[b] \in Nat
    BY <1>2
  <2>2. CASE cash' = [cash EXCEPT ![d] = @ + quote.debt]
    BY <1>1, <1>2, <2>2
  <2>3. CASE cash' = [a \in Asset |->
                        cash[a] - (IF a = c THEN quote.collateral ELSE 0)
                                + (IF a = d THEN quote.debt ELSE 0)]
    <3>1. cash'[b] = cash[b] - 0 + 0
      BY <1>1, <2>3, Zenon
    <3> QED
      BY <2>1, <3>1, SMT
  <2> QED
    BY <1>3, <2>2, <2>3
<1>5. ASSUME NEW w \in Account PROVE hBal'[w][b] = hBal[w][b]
  BY <1>1, <1>2, <1>3, <1>5, SeizedStands
<1>6. ASSUME NEW w \in User
      PROVE  vBal'[w][b] = vBal[w][b] /\ sBal'[w][b] = sBal[w][b]
  <2>1. CASE BurnVariable(u, d, quote.debt) /\ UNCHANGED sBal
    BY <1>1, <2>1, OtherVariable
  <2>2. CASE /\ \/ BurnVariable(u, d, VariableDebt(u, d))
                \/ UNCHANGED vBal
             /\ BurnStable(u, d, quote.debt - VariableDebt(u, d))
    BY <1>1, <2>2, OtherVariable, OtherStable
  <2> QED
    BY <1>3, <2>1, <2>2 DEF BurnDebt
<1>7. ASSUME NEW w \in User
      PROVE  (b \in coll'[w] <=> b \in coll[w]) /\ (b \in bor'[w] <=> b \in bor[w])
  BY <1>1, <1>2, <1>3 DEF AddIf, RemoveIf
<1> QED
  BY <1>4, <1>5, <1>6, <1>7 DEF StandsStill

-----------------------------------------------------------------------------
\* A call that neither is time nor the oracle leaves a paused reserve as it is, and
\* the debts and the cash of an inactive one.
LEMMA CallStands ==
    ASSUME TypeOK, GovernedNext, NEW b \in Asset, ~Usable(b)
    PROVE  \/ Environment
           \/ DebtsStandStill(b) /\ (config[b].paused => StandsStill(b))
<1> DEFINE Still == DebtsStandStill(b) /\ (config[b].paused => StandsStill(b))
<1>0. StandsStill(b) => Still
  BY DEF StandsStill, DebtsStandStill
<1>1. ASSUME UNCHANGED <<cash, hBal, vBal, sBal, coll, bor>> PROVE StandsStill(b)
  BY <1>1 DEF StandsStill
<1>2. CASE ConfiguratorCalls
  <2>1. UNCHANGED positions
    BY <1>2, Zenon DEF ConfiguratorCalls, SwitchCalls, NumberCalls, SetReserveBorrowing,
                SetReserveStableRateBorrowing, SetReserveActive, SetReserveFreeze,
                SetBorrowableInIsolation, SetReservePause, SetPoolPause,
                SetSiloedBorrowing, SetDebtCeiling, SetSupplyCap, SetBorrowCap,
                SetLiquidationProtocolFee, ConfigureReserveAsCollateral,
                SetEModeCategory, SetAssetEModeCategory
  <2> QED
    BY <1>0, <1>1, <2>1, Zenon DEF positions
<1>3. CASE Next
  <2>1. ASSUME NEW u \in User, NEW category, SetUserEMode(u, category)
        PROVE  StandsStill(b)
    BY <1>1, <2>1 DEF SetUserEMode
  <2>2. ASSUME NEW a \in Asset, NEW income \in Growth, NEW variable \in Growth,
               NEW stable \in Growth, Accrue(a, income, variable, stable)
        PROVE  Environment
    BY <2>2 DEF Environment
  <2>3. ASSUME NEW source \in Asset \cup Category, NEW p \in Prices[source],
               SetPrice(source, p)
        PROVE  Environment
    BY <2>3 DEF Environment
  <2> QED
    BY <1>0, <1>3, <2>1, <2>2, <2>3, StepCases, SupplySideStands, TransferStands,
       BorrowStands, RepayStands, SwapStands, LiquidateStands
<1> QED
  BY <1>2, <1>3 DEF GovernedNext

\* Whatever administrators and users have done before, nothing moves in a paused
\* reserve but by time: validation forgets no role a reserve can have in a call.
THEOREM PausedAlwaysStandsStill == GovernedSpec => PausedStandsStill
<1> DEFINE Still == \/ Environment
                    \/ \A b \in Asset : config[b].paused => StandsStill(b)
<1>1. TypeOK /\ [GovernedNext]_vars => [Still]_vars
  BY CallStands DEF Usable
<1>2. Still => \/ Environment
               \/ \A a \in Asset : config[a].paused =>
                     /\ cash'[a] = cash[a]
                     /\ \A u \in Account : hBal'[u][a] = hBal[u][a]
                     /\ \A u \in User :
                           /\ vBal'[u][a] = vBal[u][a] /\ sBal'[u][a] = sBal[u][a]
                           /\ a \in coll'[u] <=> a \in coll[u]
                           /\ a \in bor'[u] <=> a \in bor[u]
  BY DEF StandsStill
<1> HIDE DEF Still
<1> QED
  BY <1>1, <1>2, GovernedTypeCorrect, PTL DEF GovernedSpec, PausedStandsStill

-----------------------------------------------------------------------------
(* Reserves that are frozen, siloed or inactive.                           *)

\* Setters move no position; one that deactivates a reserve has seen that nobody
\* supplies it, and one that makes it siloed that nobody borrows it.
LEMMA SettersCheck ==
    ASSUME TypeOK, ConfiguratorCalls
    PROVE  /\ UNCHANGED positions
           /\ \A b \in Asset :
                 /\ ~config'[b].active => ~config[b].active \/ NoSuppliers(b)
                 /\ config'[b].siloed => config[b].siloed \/ NoBorrowers(b)
<1>1. config \in [Asset -> AssetConfig]
  BY DEF TypeOK
<1> DEFINE Kept == \A b \in Asset : /\ config'[b].active = config[b].active
                                    /\ config'[b].siloed = config[b].siloed
<1>2. ASSUME NEW a, NEW v,
             \/ SetReserveBorrowing(a, v) \/ SetReserveStableRateBorrowing(a, v)
             \/ SetReserveFreeze(a, v) \/ SetBorrowableInIsolation(a, v)
             \/ SetReservePause(a, v)
      PROVE  UNCHANGED positions /\ Kept
  BY <1>1, <1>2 DEF SetReserveBorrowing, SetReserveStableRateBorrowing, SetReserveFreeze,
                    SetBorrowableInIsolation, SetReservePause, AssetConfig
<1>3. ASSUME NEW v, SetPoolPause(v) PROVE UNCHANGED positions /\ Kept
  BY <1>1, <1>3 DEF SetPoolPause, AssetConfig
<1>4. ASSUME NEW a, NEW v,
             \/ SetDebtCeiling(a, v) \/ SetSupplyCap(a, v) \/ SetBorrowCap(a, v)
             \/ SetLiquidationProtocolFee(a, v) \/ SetAssetEModeCategory(a, v)
      PROVE  UNCHANGED positions /\ Kept
  BY <1>1, <1>4 DEF SetDebtCeiling, SetSupplyCap, SetBorrowCap, SetLiquidationProtocolFee,
                    SetAssetEModeCategory, AssetConfig
<1>5. ASSUME NEW a, NEW ltv, NEW lt, NEW bonus, ConfigureReserveAsCollateral(a, ltv, lt, bonus)
      PROVE  UNCHANGED positions /\ Kept
  <2>1. /\ UNCHANGED positions
        /\ config' = [config EXCEPT ![a].ltv = ltv, ![a].lt = lt, ![a].bonus = bonus]
    BY <1>5 DEF ConfigureReserveAsCollateral
  <2>2. ASSUME NEW b \in Asset
        PROVE  config'[b].active = config[b].active /\ config'[b].siloed = config[b].siloed
    BY <1>1, <2>1 DEF AssetConfig
  <2> QED
    BY <2>1, <2>2
<1>6. ASSUME NEW c, NEW ltv, NEW lt, NEW bonus, NEW source,
             SetEModeCategory(c, ltv, lt, bonus, source)
      PROVE  UNCHANGED positions /\ Kept
  BY <1>6 DEF SetEModeCategory
<1>7. ASSUME NEW a \in Asset, NEW v \in BOOLEAN, SetReserveActive(a, v)
      PROVE  /\ UNCHANGED positions
             /\ \A b \in Asset :
                   /\ ~config'[b].active => ~config[b].active \/ NoSuppliers(b)
                   /\ config'[b].siloed = config[b].siloed
  BY <1>1, <1>7 DEF SetReserveActive, AssetConfig
<1>8. ASSUME NEW a \in Asset, NEW v \in BOOLEAN, SetSiloedBorrowing(a, v)
      PROVE  /\ UNCHANGED positions
             /\ \A b \in Asset :
                   /\ config'[b].active = config[b].active
                   /\ config'[b].siloed => config[b].siloed \/ NoBorrowers(b)
  BY <1>1, <1>8 DEF SetSiloedBorrowing, AssetConfig
<1>9. CASE SwitchCalls
  <2>1. PICK s \in NewSwitch :
           \/ SetReserveBorrowing(s[2], s[3]) \/ SetReserveStableRateBorrowing(s[2], s[3])
           \/ SetReserveActive(s[2], s[3]) \/ SetReserveFreeze(s[2], s[3])
           \/ SetBorrowableInIsolation(s[2], s[3]) \/ SetReservePause(s[2], s[3])
           \/ SetPoolPause(s[3]) \/ SetSiloedBorrowing(s[2], s[3])
    BY <1>9 DEF SwitchCalls
  <2>2. s[2] \in Asset /\ s[3] \in BOOLEAN
    BY ConfiguratorAssumption
  <2> QED
    BY <1>2, <1>3, <1>7, <1>8, <2>1, <2>2
<1>10. CASE NumberCalls
  <2>1. PICK n \in NewNumber :
           \/ SetDebtCeiling(n[2], n[3]) \/ SetSupplyCap(n[2], n[3])
           \/ SetBorrowCap(n[2], n[3]) \/ SetLiquidationProtocolFee(n[2], n[3])
    BY <1>10 DEF NumberCalls
  <2> QED
    BY <1>4, <2>1
<1> QED
  BY <1>4, <1>5, <1>6, <1>9, <1>10 DEF ConfiguratorCalls

\* Nobody supplies a reserve without claims, nobody owes one without debts.
LEMMA NobodyThere ==
    ASSUME TypeOK, NEW a \in Asset
    PROVE  /\ NoSuppliers(a) => ScaledSupply(a) = 0
           /\ NoBorrowers(a) /\ StableLag = 0 =>
                 \A u \in User : vBal[u][a] = 0 /\ sBal[u][a] = 0
<1>1. /\ ScaledSupply(a) \in Nat /\ Total(vBal, a) \in Nat /\ Total(sBal, a) \in Nat
      /\ li[a] \in Nat /\ li[a] >= RAY /\ vi[a] \in Nat /\ vi[a] >= RAY
  BY TotalsType, IndexType
<1>2. ASSUME NoSuppliers(a) PROVE ScaledSupply(a) = 0
  BY <1>1, <1>2, RayMulGrows DEF NoSuppliers
<1>3. ASSUME NoBorrowers(a), StableLag = 0, NEW u \in User PROVE vBal[u][a] = 0 /\ sBal[u][a] = 0
  <2>1. /\ RayMul(Total(vBal, a), vi[a]) >= Total(vBal, a)
        /\ RayMul(Total(vBal, a), vi[a]) \in Nat
    BY <1>1, RayMulGrows, RayMulType
  <2>2. Total(vBal, a) = 0 /\ Total(sBal, a) = 0
    BY <1>1, <1>3, <2>1 DEF NoBorrowers, VariableSupply, StableSupplies
  <2>3. vBal \in [User -> [Asset -> Nat]] /\ sBal \in [User -> [Asset -> Nat]]
    BY DEF TypeOK
  <2>4. vBal[u][a] <= Total(vBal, a) /\ sBal[u][a] <= Total(sBal, a)
    BY <2>3, AccountsFinite, TotalOfTable
  <2>5. vBal[u][a] \in Nat /\ sBal[u][a] \in Nat
    BY BalanceType
  <2> QED
    BY <2>2, <2>4, <2>5
<1> QED
  BY <1>2, <1>3

\* A debt is made of scaled variable debt and of stable debt.
LEMMA DebtIsOwed ==
    ASSUME TypeOK, NEW u \in User, NEW a \in Asset
    PROVE  Debt(u, a) # 0 <=> vBal[u][a] # 0 \/ sBal[u][a] # 0
  BY BalanceType, WholeVariableDebt, SMT DEF Debt

\* The debt of a siloed reserve stays alone: it starts by borrowing, which looks
\* at the bits, and while it lasts no other loan is made.
LEMMA SiloedOwedStep ==
    ASSUME IInv, SiloedOwedAlone, IInv', Next, config' = config
    PROVE  SiloedOwedAlone'
<1>1. TypeOK /\ TypeOK' /\ DebtIsFlagged' /\ bor \in [User -> SUBSET Asset]
  BY DEF IInv, TypeOK
<1> SUFFICES ASSUME NEW u \in User, NEW a \in Asset, config[a].siloed,
                    vBal'[u][a] # 0 \/ sBal'[u][a] # 0
             PROVE  bor'[u] = {a}
  <2>1. ASSUME NEW u \in User, NEW a \in Asset
        PROVE  (Debt(u, a) # 0)' <=> vBal'[u][a] # 0 \/ sBal'[u][a] # 0
    <3>1. (TypeOK => (Debt(u, a) # 0 <=> vBal[u][a] # 0 \/ sBal[u][a] # 0))'
      BY DebtIsOwed, PTL
    <3> QED
      BY <1>1, <3>1
  <2> QED
    BY <2>1 DEF SiloedOwedAlone
<1>2. a \in bor'[u]
  BY <1>1 DEF DebtIsFlagged
<1>3. CASE vBal[u][a] # 0 \/ sBal[u][a] # 0
  <2>1. bor[u] = {a}
    BY <1>1, <1>3, DebtIsOwed DEF SiloedOwedAlone
  <2>2. CASE \A w \in User : bor'[w] \subseteq bor[w]
    BY <1>2, <2>1, <2>2
  <2>3. ASSUME NEW w \in User, NEW b \in Asset,
               bor' = [bor EXCEPT ![w] = @ \cup {b}],
               bor[w] # {} => IF SiloedIn(w) # {} THEN SiloedIn(w) = {b}
                              ELSE ~config[b].siloed
        PROVE  bor'[u] = {a}
    <3>1. CASE w # u
      BY <1>1, <2>1, <2>3, <3>1
    <3>2. CASE w = u
      <4>1. SiloedIn(u) = {a}
        BY <2>1 DEF SiloedIn
      <4>2. b = a
        BY <2>1, <2>3, <3>2, <4>1
      <4> QED
        BY <1>1, <2>1, <2>3, <3>2, <4>2
    <3> QED
      BY <3>1, <3>2
  <2> QED
    BY <1>1, <2>2, <2>3, BorrowingBits
<1>4. CASE vBal[u][a] = 0 /\ sBal[u][a] = 0
  <2>1. vBal'[u][a] \in Nat /\ sBal'[u][a] \in Nat
    BY <1>1 DEF TypeOK
  <2>2. ~(vBal'[u][a] <= vBal[u][a] /\ sBal'[u][a] <= sBal[u][a])
    BY <1>4, <2>1
  <2>3. ~SwapToVariable(u, a) /\ ~SwapToStable(u, a)
    <3>1. VariableDebt(u, a) = 0
      BY <1>1, <1>4, WholeVariableDebt
    <3> QED
      BY <1>4, <3>1 DEF SwapToVariable, SwapToStable
  <2>4. PICK n \in Nat, mode \in RateMode : Borrow(u, a, n, mode)
    BY <1>4, <2>2, <2>3, DebtsGrow
  <2>5. bor' = [bor EXCEPT ![u] = @ \cup {a}]
    BY <1>4, <2>4 DEF Borrow, MintDebt, AddIf
  <2>6. bor[u] = {} \/ SiloedIn(u) = {a}
    BY <2>4 DEF Borrow, BorrowAllowed
  <2> QED
    BY <1>1, <2>5, <2>6 DEF SiloedIn
<1> QED
  BY <1>3, <1>4

\* Once somebody owes a siloed reserve he borrows nothing else, although reserves
\* become siloed under open positions: if the total of the stable debts is exact, the
\* total debt the setter looks at is zero only if every debt is, whatever the index
\* has rounded.
THEOREM SiloedAlwaysOwedAlone ==
    ASSUME StableLag = 0 PROVE GovernedSpec => []SiloedOwedAlone
<1>1. Init => SiloedOwedAlone
  <2> SUFFICES ASSUME Init, NEW u \in User, NEW a \in Asset PROVE Debt(u, a) = 0
    BY DEF SiloedOwedAlone
  <2>1. TypeOK /\ vBal[u][a] = 0 /\ sBal[u][a] = 0
    BY InitIInv DEF IInv, Init
  <2> QED
    BY <2>1, DebtIsOwed
<1>2. /\ IInv /\ CeilingStartsAtZero /\ SiloedOwedAlone /\ [GovernedNext]_vars
      /\ (IInv /\ CeilingStartsAtZero)'
      => SiloedOwedAlone'
  <2> SUFFICES ASSUME IInv, SiloedOwedAlone, [GovernedNext]_vars, IInv'
               PROVE  SiloedOwedAlone'
    OBVIOUS
  <2>1. CASE Next
    <3>1. config' = config
      BY <2>1, BitFrame DEF IInv
    <3> QED
      BY <2>1, <3>1, SiloedOwedStep
  <2>2. CASE ConfiguratorCalls
    <3>1. TypeOK
      BY DEF IInv
    <3>2. UNCHANGED <<vBal, sBal, vi, bor>>
      BY <2>2, <3>1, SettersCheck DEF positions
    <3>3. \A u \in User, a \in Asset : (Debt(u, a) = Debt(u, a)')
      BY <3>2 DEF Debt, VariableDebt
    <3> SUFFICES ASSUME NEW u \in User, NEW a \in Asset, config'[a].siloed, Debt(u, a) # 0
                 PROVE  bor[u] = {a}
      BY <3>2, <3>3 DEF SiloedOwedAlone
    <3>4. ~NoBorrowers(a)
      BY <3>1, DebtIsOwed, NobodyThere
    <3> QED
      BY <2>2, <3>1, <3>4, SettersCheck DEF SiloedOwedAlone
  <2>3. CASE UNCHANGED vars
    BY <2>3 DEF vars, SiloedOwedAlone, Debt, VariableDebt
  <2> QED
    BY <2>1, <2>2, <2>3 DEF GovernedNext
<1> QED
  BY <1>1, <1>2, GovernedCorrect, PTL DEF GovernedSpec

\* Nothing but interest makes the claims on a frozen reserve or a debt in it grow,
\* in whatever way calls of users and administrators follow each other.
THEOREM FrozenAlwaysOnlyShrinks == GovernedSpec => FrozenOnlyShrinks
<1> DEFINE Shrinks ==
       \/ Environment
       \/ \A a \in Asset : config[a].frozen =>
             /\ ScaledSupply(a)' <= ScaledSupply(a)
             /\ \A u \in User : vBal'[u][a] <= vBal[u][a] /\ sBal'[u][a] <= sBal[u][a]
<1>1. IInv /\ CeilingStartsAtZero /\ [GovernedNext]_vars => [Shrinks]_vars
  <2> SUFFICES ASSUME IInv, GovernedNext, ~Environment, NEW a \in Asset, config[a].frozen
               PROVE  /\ ScaledSupply(a)' <= ScaledSupply(a)
                      /\ \A u \in User : vBal'[u][a] <= vBal[u][a] /\ sBal'[u][a] <= sBal[u][a]
    OBVIOUS
  <2>1. TypeOK
    BY DEF IInv
  <2>2. CASE Next
    BY <2>2, ClaimsGrow, DebtsGrow
  <2>3. CASE ConfiguratorCalls
    <3>1. UNCHANGED <<hBal, vBal, sBal>>
      BY <2>1, <2>3, SettersCheck DEF positions
    <3>2. /\ ScaledSupply(a) \in Nat
          /\ \A u \in User : vBal[u][a] \in Nat /\ sBal[u][a] \in Nat
      BY <2>1, TotalsType, BalanceType
    <3> QED
      BY <3>1, <3>2 DEF ScaledSupply
  <2> QED
    BY <2>2, <2>3 DEF GovernedNext
<1> QED
  BY <1>1, GovernedCorrect, PTL DEF GovernedSpec, FrozenOnlyShrinks

\* Whatever administrators have made of the configuration before, users' calls keep
\* every account's health as CallsKeepHealth says.
THEOREM UsersAlwaysKeepHealth == GovernedSpec => UsersKeepHealth
<1> DEFINE Box == KeepsHealth \/ Environment \/ ConfiguratorCalls
<1>1. IInv /\ CeilingStartsAtZero /\ [GovernedNext]_vars => [Box]_vars
  BY StepKeepsHealth DEF GovernedNext
<1>2. GovernedSpec => [][Box]_vars
  <2> HIDE DEF Box
  <2> QED BY <1>1, GovernedCorrect, PTL DEF GovernedSpec
<1> QED BY <1>2 DEF UsersKeepHealth

\* Nobody has a claim on an inactive reserve.
InactiveUnclaimed == \A a \in Asset : ~config[a].active => ScaledSupply(a) = 0

\* A reserve is deactivated without claims and gets none.
LEMMA UnclaimedStep ==
    ASSUME IInv, InactiveUnclaimed, [GovernedNext]_vars
    PROVE  InactiveUnclaimed'
<1>1. TypeOK /\ SoundInv
  BY DEF IInv
<1>2. CASE Next
  <2>1. config' = config
    BY <1>1, <1>2, BitFrame
  <2>2. ASSUME NEW a \in Asset, ~config[a].active PROVE ScaledSupply(a)' = 0
    <3>1. ScaledSupply(a)' <= ScaledSupply(a)
      BY <1>2, <2>2, ClaimsGrow DEF Usable
    <3>2. ScaledSupply(a)' \in Nat
      <4>1. hBal' \in [Account -> [Asset -> Nat]]
        BY <1>2, StepIInv DEF IInv, TypeOK
      <4>2. Total(hBal', a) \in Nat
        BY <4>1, AccountsFinite, TotalOfTable
      <4> QED
        BY <4>2 DEF ScaledSupply
    <3> QED
      BY <2>2, <3>1, <3>2 DEF InactiveUnclaimed
  <2> QED
    BY <2>1, <2>2 DEF InactiveUnclaimed
<1>3. CASE ConfiguratorCalls
  <2>1. UNCHANGED hBal
    BY <1>1, <1>3, SettersCheck DEF positions
  <2>2. \A a \in Asset : ~config'[a].active => ScaledSupply(a) = 0
    BY <1>1, <1>3, SettersCheck, NobodyThere DEF InactiveUnclaimed
  <2> QED
    BY <2>1, <2>2 DEF ScaledSupply, InactiveUnclaimed
<1>4. CASE UNCHANGED vars
  BY <1>4 DEF vars, ScaledSupply, InactiveUnclaimed
<1> QED
  BY <1>2, <1>3, <1>4 DEF GovernedNext

\* Under any interest, an inactive reserve has no claims and gets none, and what
\* debts and cash were left in it stay there but for time, although the setter looks
\* at the claims alone and transfers do not ask for activity.
THEOREM InactiveAlwaysStandsStill == GovernedSpec => InactiveStandsStill
<1> DEFINE Still ==
       \A a \in Asset : ~config[a].active =>
          /\ ScaledSupply(a) = 0 /\ ScaledSupply(a)' = 0
          /\ Environment \/ DebtsStandStill(a)
<1>1. Init => InactiveUnclaimed
  <2> SUFFICES ASSUME Init, NEW a \in Asset PROVE ScaledSupply(a) = 0
    BY DEF InactiveUnclaimed
  <2> QED
    BY InitBooks
<1>2. IInv /\ InactiveUnclaimed /\ [GovernedNext]_vars => InactiveUnclaimed'
  BY UnclaimedStep
<1>3. IInv /\ InactiveUnclaimed /\ [GovernedNext]_vars => [Still]_vars
  <2> SUFFICES ASSUME IInv, InactiveUnclaimed, GovernedNext,
                      NEW a \in Asset, ~config[a].active
               PROVE  /\ ScaledSupply(a) = 0 /\ ScaledSupply(a)' = 0
                      /\ Environment \/ DebtsStandStill(a)
    OBVIOUS
  <2>1. ScaledSupply(a) = 0 /\ TypeOK /\ ~Usable(a)
    BY DEF IInv, InactiveUnclaimed, Usable
  <2>2. Environment \/ DebtsStandStill(a)
    BY <2>1, CallStands
  <2>3. ScaledSupply(a)' = 0
    <3>1. CASE Next
      <4>1. config' = config
        BY <3>1, BitFrame DEF IInv
      <4> QED
        BY <4>1, UnclaimedStep DEF InactiveUnclaimed
    <3>2. CASE ConfiguratorCalls
      <4>1. UNCHANGED hBal
        BY <2>1, <3>2, SettersCheck DEF positions
      <4> QED
        BY <2>1, <4>1 DEF ScaledSupply
    <3> QED
      BY <3>1, <3>2 DEF GovernedNext
  <2> QED
    BY <2>1, <2>2, <2>3
<1>4. Still =>
         \A a \in Asset : ~config[a].active =>
            /\ ScaledSupply(a) = 0 /\ ScaledSupply(a)' = 0
            /\ \/ Environment
               \/ /\ cash'[a] = cash[a]
                  /\ \A u \in User :
                        /\ vBal'[u][a] = vBal[u][a] /\ sBal'[u][a] = sBal[u][a]
                        /\ a \in bor'[u] <=> a \in bor[u]
  BY DEF DebtsStandStill
<1> HIDE DEF Still
<1> QED
  BY <1>1, <1>2, <1>3, <1>4, GovernedCorrect, PTL DEF GovernedSpec, InactiveStandsStill

-----------------------------------------------------------------------------
(* The sentinel.                                                           *)

\* What the feed last reported of an up sequencer is never older than its uptime.
SequencerInv ==
    /\ sentinel \in BOOLEAN /\ gracePeriod \in GracePeriods
    /\ isDown \in BOOLEAN /\ up \in BOOLEAN
    /\ sinceUp \in 0 .. MaxAge /\ upFor \in 0 .. MaxAge
    /\ ~isDown => up /\ sinceUp <= upFor

-----------------------------------------------------------------------------
(* Every step is one of the governed pool, or none.                        *)

LEMMA SentinelStep ==
    ASSUME SentinelNext
    PROVE  GovernedNext \/ UNCHANGED vars
<1>1. CASE PoolStep
  BY <1>1 DEF PoolStep, GovernedNext, Next, PermittedBorrow, PermittedLiquidation,
              LiquidationCalls
<1>2. CASE SequencerStep
  BY <1>2 DEF SequencerStep, Outage, Recovery, SetAnswer, Tick
<1>3. CASE \/ \E set \in BOOLEAN : SetPriceOracleSentinel(set)
           \/ \E period \in GracePeriods : SetGracePeriod(period)
  BY <1>3 DEF SetPriceOracleSentinel, SetGracePeriod
<1> QED
  BY <1>1, <1>2, <1>3 DEF SentinelNext

\* A sentinel only takes calls away: every behaviour with one is a behaviour of the
\* pool under its administrators, so its types, flags and configuration are as
\* proved for that.
THEOREM SentinelOnlyRestricts == SentinelSpec => GovernedSpec
<1>1. SentinelInit => Init
  BY DEF SentinelInit
<1>2. [SentinelNext]_<<vars, sentinelVars>> => [GovernedNext]_vars
  BY SentinelStep
<1> QED
  BY <1>1, <1>2, PTL DEF SentinelSpec, GovernedSpec

-----------------------------------------------------------------------------
(* The feed.                                                               *)

LEMMA OlderType ==
    ASSUME NEW age \in 0 .. MaxAge
    PROVE  Older(age) \in 0 .. MaxAge
  BY SentinelAssumption, SMT DEF Older, Lesser

LEMMA SequencerStays ==
    ASSUME SequencerInv, [SentinelNext]_<<vars, sentinelVars>>
    PROVE  SequencerInv'
<1>1. CASE UNCHANGED sentinelVars
  BY <1>1 DEF sentinelVars, SequencerInv
<1>2. CASE Outage
  <2>1. 0 \in 0 .. MaxAge
    BY SentinelAssumption, SMT
  <2> QED
    BY <1>2, <2>1 DEF Outage, SequencerInv
<1>3. CASE Recovery
  BY <1>3 DEF Recovery, SequencerInv
<1>4. ASSUME NEW age \in 0 .. MaxAge, SetAnswer(age) PROVE SequencerInv'
  BY <1>4 DEF SetAnswer, SequencerInv
<1>5. CASE Tick
  <2>1. Older(sinceUp) \in 0 .. MaxAge /\ Older(upFor) \in 0 .. MaxAge
    BY OlderType DEF SequencerInv
  <2>2. ~isDown => Older(sinceUp) <= Older(upFor)
    BY SentinelAssumption, SMT DEF SequencerInv, Older, Lesser
  <2>3. 0 \in 0 .. MaxAge
    BY SentinelAssumption, SMT
  <2> QED
    BY <1>5, <2>1, <2>2, <2>3 DEF Tick, SequencerInv
<1>6. ASSUME NEW set \in BOOLEAN, SetPriceOracleSentinel(set) PROVE SequencerInv'
  BY <1>6 DEF SetPriceOracleSentinel, SequencerInv
<1>7. ASSUME NEW period \in GracePeriods, SetGracePeriod(period) PROVE SequencerInv'
  BY <1>7 DEF SetGracePeriod, SequencerInv
<1> QED
  BY <1>1, <1>2, <1>3, <1>4, <1>5, <1>6, <1>7 DEF SentinelNext, PoolStep, SequencerStep

-----------------------------------------------------------------------------
(* What the other calls do to debts and hTokens.                           *)

\* Neither a loan nor a seizure.
Calm(v) == (\A d \in Asset : ~NewLoan(v, d)) /\ ~Seizure(v)

LEMMA SameDebtsCalm ==
    ASSUME TypeOK, UNCHANGED <<vBal, sBal>>, NEW v \in User
    PROVE  Calm(v)
<1>1. ASSUME NEW d \in Asset
      PROVE  vBal[v][d] \in Nat /\ sBal[v][d] \in Nat
  BY <1>1, BalanceType
<1>2. ASSUME NEW d \in Asset
      PROVE  ~(vBal'[v][d] # vBal[v][d]) /\ ~(sBal'[v][d] # sBal[v][d])
             /\ ~(vBal'[v][d] < vBal[v][d]) /\ ~(sBal'[v][d] < sBal[v][d])
             /\ ~(vBal'[v][d] > vBal[v][d]) /\ ~(sBal'[v][d] > sBal[v][d])
  BY <1>1, <1>2, SMT
<1> QED
  BY <1>2 DEF Calm, NewLoan, Seizure

\* Where debts only fall, and only u's in a, and no hTokens but u's of a change
\* hands, there is neither a loan nor a seizure.
LEMMA OneReserveCalm ==
    ASSUME TypeOK, NEW u \in User, NEW a \in Asset, NEW v \in User,
           \A b \in Asset :
              /\ vBal'[v][b] \in Nat /\ sBal'[v][b] \in Nat
              /\ vBal'[v][b] <= vBal[v][b] /\ sBal'[v][b] <= sBal[v][b]
              /\ b # a => vBal'[v][b] = vBal[v][b] /\ sBal'[v][b] = sBal[v][b]
                          /\ hBal'[v][b] = hBal[v][b]
    PROVE  Calm(v)
<1>1. ASSUME NEW b \in Asset
      PROVE  hBal[v][b] \in Nat /\ vBal[v][b] \in Nat /\ sBal[v][b] \in Nat
  BY <1>1, BalanceType
<1>2. ASSUME NEW d \in Asset PROVE ~NewLoan(v, d)
  BY <1>1, <1>2, SMT DEF NewLoan
<1>3. ASSUME NEW b \in Asset, b # a
      PROVE  ~(hBal'[v][b] < hBal[v][b]) /\ ~(vBal'[v][b] < vBal[v][b])
             /\ ~(sBal'[v][b] < sBal[v][b])
  BY <1>1, <1>3, SMT
<1>4. ~Seizure(v)
  BY <1>3 DEF Seizure
<1> QED
  BY <1>2, <1>4 DEF Calm

LEMMA RepayCalm ==
    ASSUME TypeOK, NEW u \in User, NEW a \in Asset, NEW n \in Nat, NEW mode \in RateMode,
           NEW useHTokens \in BOOLEAN, Repay(u, a, n, mode, useHTokens), NEW v \in User
    PROVE  Calm(v)
<1>1. PICK amount \in Nat :
         /\ \/ BurnVariable(u, a, amount) /\ UNCHANGED sBal
            \/ BurnStable(u, a, amount) /\ UNCHANGED vBal
         /\ Payment(u, a, amount, useHTokens)
  BY OwedType DEF Repay
<1>2. ASSUME NEW b \in Asset
      PROVE  /\ vBal'[v][b] \in Nat /\ sBal'[v][b] \in Nat
             /\ vBal'[v][b] <= vBal[v][b] /\ sBal'[v][b] <= sBal[v][b]
             /\ b # a => vBal'[v][b] = vBal[v][b] /\ sBal'[v][b] = sBal[v][b]
  <2>1. vBal[v][b] \in Nat /\ sBal[v][b] \in Nat
    BY <1>2, BalanceType
  <2>2. CASE BurnVariable(u, a, amount) /\ UNCHANGED sBal
    BY <2>1, <2>2, BurnVariableLowers, SMT
  <2>3. CASE BurnStable(u, a, amount) /\ UNCHANGED vBal
    BY <2>1, <2>3, BurnStableLowers, SMT
  <2> QED
    BY <1>1, <2>2, <2>3
<1>3. ASSUME NEW b \in Asset, b # a PROVE hBal'[v][b] = hBal[v][b]
  <2>1. hBal \in [Account -> [Asset -> Nat]] /\ u \in Account /\ v \in Account
    BY DEF TypeOK, Account
  <2>2. \/ hBal' = [hBal EXCEPT ![u][a] = @ - RayDiv(amount, li[a])]
        \/ UNCHANGED hBal
    BY <1>1 DEF Payment
  <2> QED
    BY <1>3, <2>1, <2>2
<1> QED
  BY <1>2, <1>3, OneReserveCalm

\* A swap raises the debt of one mode and lowers that of the other.
LEMMA SwapCalm ==
    ASSUME TypeOK, NEW u \in User, NEW a \in Asset,
           SwapToVariable(u, a) \/ SwapToStable(u, a), NEW v \in User
    PROVE  Calm(v)
<1>1. ASSUME NEW b \in Asset
      PROVE  hBal[v][b] \in Nat /\ vBal[v][b] \in Nat /\ sBal[v][b] \in Nat
             /\ VariableDebt(v, b) \in Nat
  BY <1>1, BalanceType
<1>2. UNCHANGED hBal
  BY DEF SwapToVariable, SwapToStable
<1>3. ~Seizure(v)
  <2>1. ASSUME NEW c \in Asset PROVE ~(hBal'[v][c] < hBal[v][c])
    BY <1>1, <1>2, <2>1, SMT
  <2> QED
    BY <2>1 DEF Seizure
<1>4. ASSUME NEW d \in Asset PROVE ~NewLoan(v, d)
  <2>1. CASE v = u /\ d = a /\ SwapToVariable(u, a)
    <3>1. sBal[v][d] # 0 /\ sBal'[v][d] = 0
      BY <2>1 DEF SwapToVariable, TypeOK
    <3> QED
      BY <1>1, <3>1, SMT DEF NewLoan
  <2>2. CASE v = u /\ d = a /\ SwapToStable(u, a)
    <3>1. BurnVariable(u, a, VariableDebt(u, a)) /\ VariableDebt(u, a) \in Nat
      BY <1>1, <2>2 DEF SwapToStable
    <3>2. vBal'[v][d] \in Nat /\ vBal'[v][d] < vBal[v][d]
      BY <2>2, <3>1, BurnVariableLowers
    <3> QED
      BY <1>1, <3>2, SMT DEF NewLoan
  <2>3. CASE v # u \/ d # a
    <3>1. vBal'[v][d] = vBal[v][d] /\ sBal'[v][d] = sBal[v][d]
      BY <2>3 DEF SwapToVariable, SwapToStable, BurnVariable, TypeOK
    <3> QED
      BY <1>1, <3>1, SMT DEF NewLoan
  <2> QED
    BY <2>1, <2>2, <2>3
<1> QED
  BY <1>3, <1>4 DEF Calm

\* No call but a loan and a liquidation opens a debt or seizes anything.
LEMMA CallsAreCalm ==
    ASSUME TypeOK, Calls, NEW v \in User
    PROVE  Calm(v)
<1>1. ASSUME UNCHANGED <<vBal, sBal>> PROVE Calm(v)
  BY <1>1, SameDebtsCalm
<1>2. CASE CollateralCalls
  <2>1. PICK u \in User, a \in Asset :
           \/ \E amount \in Amounts : Supply(u, a, amount)
           \/ \E amount \in Amounts \cup {HBalance(u, a)} :
                 \/ Withdraw(u, a, amount)
                 \/ \E to \in User : Transfer(u, to, a, amount)
           \/ EnableCollateral(u, a)
           \/ DisableCollateral(u, a)
    BY <1>2 DEF CollateralCalls
  <2>2. ASSUME NEW amount, Supply(u, a, amount) PROVE UNCHANGED <<vBal, sBal>>
    BY <2>2 DEF Supply
  <2>3. ASSUME NEW amount, Withdraw(u, a, amount) PROVE UNCHANGED <<vBal, sBal>>
    BY <2>3 DEF Withdraw
  <2>4. ASSUME NEW to, NEW amount, Transfer(u, to, a, amount)
        PROVE  UNCHANGED <<vBal, sBal>>
    BY <2>4 DEF Transfer
  <2>5. CASE EnableCollateral(u, a) \/ DisableCollateral(u, a)
    BY <1>1, <2>5 DEF EnableCollateral, DisableCollateral
  <2> QED
    BY <1>1, <2>1, <2>2, <2>3, <2>4, <2>5
<1>3. CASE DebtCalls
  <2>1. PICK u \in User, a \in Asset :
           \/ \E offered \in Amounts \cup {Debt(u, a), HBalance(u, a)},
                 mode \in RateMode, useHTokens \in BOOLEAN :
                   Repay(u, a, offered, mode, useHTokens)
           \/ SwapToVariable(u, a)
           \/ SwapToStable(u, a)
    BY <1>3 DEF DebtCalls
  <2>2. Amounts \cup {Debt(u, a), HBalance(u, a)} \subseteq Nat
    BY BalanceType, PoolAssumption
  <2> QED
    BY <2>1, <2>2, RepayCalm, SwapCalm
<1>4. CASE EModeCalls
  <2>1. UNCHANGED <<vBal, sBal>>
    BY <1>4 DEF EModeCalls, SetUserEMode
  <2> QED
    BY <1>1, <2>1
<1> QED
  BY <1>2, <1>3, <1>4 DEF Calls

-----------------------------------------------------------------------------
(* Liquidations.                                                           *)

\* A liquidation of u opens no debt and seizes from nobody else.
LEMMA LiquidationSeizes ==
    ASSUME IInv, NEW u \in User, LiquidationOf(u), NEW v \in User
    PROVE  (\A d \in Asset : ~NewLoan(v, d)) /\ (Seizure(v) => v = u)
<1>2. TypeOK
  BY DEF IInv
<1>3. \A d \in Asset : Amounts \cup {Debt(u, d)} \subseteq Nat
  BY <1>2, BalanceType, PoolAssumption
<1>1. PICK c \in Asset, d \in Asset, liquidator \in User, receiveHToken \in BOOLEAN,
           n \in Nat : Liquidate(liquidator, u, c, d, n, receiveHToken)
  BY <1>3 DEF LiquidationOf
<1>4. ASSUME NEW b \in Asset
      PROVE  /\ vBal[v][b] \in Nat /\ sBal[v][b] \in Nat
             /\ vBal'[v][b] \in Nat /\ sBal'[v][b] \in Nat
             /\ vBal'[v][b] <= vBal[v][b] /\ sBal'[v][b] <= sBal[v][b]
             /\ v # u => vBal'[v][b] = vBal[v][b] /\ sBal'[v][b] = sBal[v][b]
  <2>1. vBal[v][b] \in Nat /\ sBal[v][b] \in Nat
    BY <1>2, <1>4, BalanceType
  <2>2. /\ vBal'[v][b] \in Nat /\ sBal'[v][b] \in Nat
        /\ vBal'[v][b] <= vBal[v][b] /\ sBal'[v][b] <= sBal[v][b]
        /\ v # u => vBal'[v][b] = vBal[v][b] /\ sBal'[v][b] = sBal[v][b]
    BY <1>1, <1>4, LiquidationBurns, SMTT(30)
  <2> QED
    BY <2>1, <2>2
<1>5. ASSUME NEW b \in Asset PROVE ~NewLoan(v, b)
  BY <1>4, <1>5, SMT DEF NewLoan
<1>6. ASSUME v # u, NEW b \in Asset
      PROVE  ~(vBal'[v][b] < vBal[v][b]) /\ ~(sBal'[v][b] < sBal[v][b])
  BY <1>4, <1>6, SMT
<1> QED
  BY <1>5, <1>6 DEF Seizure

-----------------------------------------------------------------------------
\* What OutageSparesPositions says of a step.
Spares ==
    \/ Environment
    \/ sentinel /\ upFor <= gracePeriod =>
          \A u \in User :
             /\ \A d \in Asset : ~NewLoan(u, d)
             /\ Seizure(u) => HealthBelow(u, CloseFactorHealth)

LEMMA StepSpares ==
    ASSUME IInv, SequencerInv, SentinelNext
    PROVE  Spares
<1>1. TypeOK
  BY DEF IInv
<1>2. ASSUME UNCHANGED <<vBal, sBal>> PROVE Spares
  BY <1>1, <1>2, SameDebtsCalm DEF Spares, Calm
<1>3. sentinel /\ upFor <= gracePeriod => ~(sentinel => IsUpAndGracePeriodPassed)
  <2>1. upFor \in Nat /\ sinceUp \in Nat /\ gracePeriod \in Nat
    BY SentinelAssumption, SMT DEF SequencerInv
  <2>2. ~isDown /\ upFor <= gracePeriod => ~(sinceUp > gracePeriod)
    BY <2>1, SMT DEF SequencerInv
  <2> QED
    BY <2>2 DEF IsUpAndGracePeriodPassed
<1>4. CASE Calls
  BY <1>1, <1>4, CallsAreCalm DEF Spares, Calm
<1>5. CASE PermittedBorrow
  BY <1>3, <1>5 DEF PermittedBorrow, BorrowPermitted, Spares
<1>6. ASSUME NEW u \in User, PermittedLiquidation(u) PROVE Spares
  <2>1. LiquidationOf(u) /\ LiquidationPermitted(u)
    BY <1>6 DEF PermittedLiquidation
  <2>2. sentinel /\ upFor <= gracePeriod => HealthBelow(u, CloseFactorHealth)
    BY <1>3, <2>1 DEF LiquidationPermitted
  <2>3. ASSUME NEW v \in User
        PROVE  (\A d \in Asset : ~NewLoan(v, d)) /\ (Seizure(v) => v = u)
    BY <2>1, <2>3, LiquidationSeizes
  <2> QED
    BY <2>2, <2>3 DEF Spares
<1>7. CASE ConfiguratorCalls
  <2>1. UNCHANGED <<vBal, sBal>>
    BY <1>7, Zenon DEF ConfiguratorCalls, SwitchCalls, NumberCalls, SetReserveBorrowing,
                SetReserveStableRateBorrowing, SetReserveActive, SetReserveFreeze,
                SetBorrowableInIsolation, SetReservePause, SetPoolPause,
                SetSiloedBorrowing, SetDebtCeiling, SetSupplyCap, SetBorrowCap,
                SetLiquidationProtocolFee, ConfigureReserveAsCollateral,
                SetEModeCategory, SetAssetEModeCategory, positions
  <2> QED
    BY <1>2, <2>1, Zenon
<1>8. CASE \/ SequencerStep
           \/ \E set \in BOOLEAN : SetPriceOracleSentinel(set)
           \/ \E period \in GracePeriods : SetGracePeriod(period)
  <2>1. UNCHANGED vars
    BY <1>8 DEF SequencerStep, Outage, Recovery, SetAnswer, Tick, SetPriceOracleSentinel,
                SetGracePeriod
  <2> QED
    BY <1>2, <2>1 DEF vars
<1> QED
  BY <1>4, <1>5, <1>6, <1>7, <1>8 DEF SentinelNext, PoolStep, Spares

\* Whatever outages, reports, grace periods and decisions come in whatever order, no
\* debt is opened and no position at 0.95 or more is seized before the sequencer has
\* been up for more than the grace period.
THEOREM OutageAlwaysSparesPositions == SentinelSpec => OutageSparesPositions
<1>1. SentinelInit => SequencerInv
  <2>1. MaxAge \in 0 .. MaxAge /\ MaxAge <= MaxAge
    BY SentinelAssumption, SMT
  <2> QED
    BY <2>1 DEF SentinelInit, SequencerInv
<1>2. SequencerInv /\ [SentinelNext]_<<vars, sentinelVars>> => SequencerInv'
  BY SequencerStays
<1>3. SentinelSpec => []SequencerInv
  BY <1>1, <1>2, PTL DEF SentinelSpec
<1>4. SentinelSpec => []IInv
  BY SentinelOnlyRestricts, GovernedCorrect, PTL
<1>5. /\ IInv /\ SequencerInv /\ [SentinelNext]_<<vars, sentinelVars>>
      => [Spares]_<<vars, sentinelVars>>
  BY StepSpares
<1>6. Spares <=>
        \/ Environment
        \/ sentinel /\ upFor <= gracePeriod =>
              \A u \in User :
                 /\ \A d \in Asset : ~NewLoan(u, d)
                 /\ Seizure(u) => HealthBelow(u, CloseFactorHealth)
  BY DEF Spares
<1> HIDE DEF Spares
<1> QED
  BY <1>3, <1>4, <1>5, <1>6, PTL DEF SentinelSpec, OutageSparesPositions

\* A position below 0.95 can be liquidated in the midst of an outage, whatever the
\* sentinel, its feed and the grace period say: this is DeepDebtsStayLiquidatable
\* with the next state that ENABLED says there is (see UnhealthyHasLiquidation).
THEOREM DeepDebtHasLiquidation ==
    ASSUME IInv, NEW by \in User, NEW u \in User, NEW c \in Asset, NEW d \in Asset,
           HealthBelow(u, CloseFactorHealth), c \in Backing(u), Debt(u, d) # 0,
           Usable(c), Usable(d),
           CollateralValue(u, c) * config[d].unit * PERCENTAGE_FACTOR
              >= DebtPrice(u, d) * LiquidationBonus(u, c),
           vi[d] <= 2 * RAY, cash[d] + Debt(u, d) <= MaxCash,
           Liquidated(by, u, c, d), UNCHANGED sentinelVars
    PROVE  PermittedLiquidation(u) /\ SentinelNext
<1>1. ~Healthy(u)
  <2> DEFINE health == WadDiv(PercentMul(TotalCollateral(u), Average(u, Threshold)),
                              TotalDebtValue(u))
  <2>1. TotalDebtValue(u) # 0 /\ health < CloseFactorHealth
    BY DEF HealthBelow
  <2>2. health \in Nat
    <3>1. TypeOK
      BY DEF IInv
    <3>2. Backed(u) \in Nat /\ TotalDebtValue(u) \in Nat \ {0}
      BY <2>1, <3>1, DataBothWays DEF DataSound, HealthSound
    <3>3. health = WadDiv(Backed(u), TotalDebtValue(u))
      BY DEF Backed
    <3> QED BY <3>2, <3>3, WadDivCovers
  <2>3. CloseFactorHealth \in Nat /\ CloseFactorHealth <= WAD /\ WAD \in Nat
    BY ScaleAssumption, SMT DEF CloseFactorHealth
  <2> HIDE DEF health
  <2>4. health < WAD
    BY <2>1, <2>2, <2>3, SMT
  <2> QED BY <2>1, <2>4 DEF Healthy, HealthBelow, health
<1>2. LiquidationOf(u)
  BY <1>1, UnhealthyHasLiquidation
<1>3. PermittedLiquidation(u)
  BY <1>2 DEF PermittedLiquidation, LiquidationPermitted
<1>4. SentinelNext
  BY <1>3 DEF SentinelNext, PoolStep
<1> QED
  BY <1>3, <1>4

=============================================================================
