---------------------------- MODULE Configurator ----------------------------
(***************************************************************************)
(* PoolConfigurator.sol: the administrators' setters, as actions between   *)
(* the calls of LendPool, so that positions live through changes of the    *)
(* configuration they were opened under.  Every setter reads the reserve's *)
(* configuration, checks, writes one part of it and stores it.             *)
(*                                                                         *)
(* Left out: the settings nothing in LendPool reads (flash loaning,        *)
(* reserve factor, unbacked mint cap, rate strategy, premiums), listing    *)
(* and dropping reserves, upgrades of tokens, and who holds which role.    *)
(***************************************************************************)
EXTENDS LendPool

CONSTANTS
    NewSwitch,      \* bits administrators may set: {<<setter, asset, value>>}
    NewNumber,      \* ceilings, caps and fees: {<<setter, asset, value>>}
    NewCollateral,  \* {<<asset, ltv, liquidationThreshold, liquidationBonus>>}
    NewEMode,       \* {<<category, ltv, threshold, bonus, priceSource>>}
    NewMembership   \* {<<asset, category>>}

Switch == {"borrowing", "stable", "active", "frozen", "isoBorrowable", "paused",
           "poolPaused", "siloed"}

ASSUME ConfiguratorAssumption ==
    /\ NewSwitch \subseteq Switch \X Asset \X BOOLEAN
    /\ NewNumber \subseteq {"ceiling", "supplyCap", "borrowCap", "fee"} \X Asset \X Nat
    /\ NewCollateral \subseteq Asset \X Nat \X Nat \X Nat
    /\ NewEMode \subseteq Category \X Nat \X Nat \X Nat \X BOOLEAN
    /\ NewMembership \subseteq Asset \X (Category \cup {NoCategory})

\* All but the configuration of reserves and categories and the isolated debts.
positions == <<price, hBal, vBal, sBal, li, vi, cash, coll, bor, emode>>

\* Faulty variant: the reserve may still be lent out.
NoCash(a) == cash[a] = 0

NoSuppliers(a) == RayMul(ScaledSupply(a), li[a]) = 0

NoBorrowers(a) == VariableSupply(a) = 0 /\ 0 \in StableSupplies(a)

-----------------------------------------------------------------------------
(* Setters of a reserve.                                                   *)

SetReserveBorrowing(a, enabled) ==
    /\ ~enabled => ~config[a].stable
    /\ config' = [config EXCEPT ![a].borrowing = enabled]
    /\ UNCHANGED <<positions, eModes, isoDebt>>

SetReserveStableRateBorrowing(a, enabled) ==
    /\ enabled => config[a].borrowing
    /\ config' = [config EXCEPT ![a].stable = enabled]
    /\ UNCHANGED <<positions, eModes, isoDebt>>

SetReserveActive(a, active) ==
    /\ ~active => NoSuppliers(a)
    /\ config' = [config EXCEPT ![a].active = active]
    /\ UNCHANGED <<positions, eModes, isoDebt>>

SetReserveFreeze(a, freeze) ==
    /\ config' = [config EXCEPT ![a].frozen = freeze]
    /\ UNCHANGED <<positions, eModes, isoDebt>>

SetBorrowableInIsolation(a, borrowable) ==
    /\ config' = [config EXCEPT ![a].isoBorrowable = borrowable]
    /\ UNCHANGED <<positions, eModes, isoDebt>>

SetReservePause(a, paused) ==
    /\ config' = [config EXCEPT ![a].paused = paused]
    /\ UNCHANGED <<positions, eModes, isoDebt>>

SetPoolPause(paused) ==
    /\ config' = [a \in Asset |-> [config[a] EXCEPT !.paused = paused]]
    /\ UNCHANGED <<positions, eModes, isoDebt>>

\* Faulty variant: a siloed reserve may have borrowers already.
SetSiloedUnchecked(a, siloed) ==
    /\ config' = [config EXCEPT ![a].siloed = siloed]
    /\ UNCHANGED <<positions, eModes, isoDebt>>

SetSiloedBorrowing(a, siloed) ==
    /\ siloed => NoBorrowers(a)
    /\ config' = [config EXCEPT ![a].siloed = siloed]
    /\ UNCHANGED <<positions, eModes, isoDebt>>

\* Faulty variant: the counter survives the end of isolation mode.
SetDebtCeilingNoReset(a, ceiling) ==
    /\ config[a].ceiling = 0 => NoSuppliers(a)
    /\ config' = [config EXCEPT ![a].ceiling = ceiling]
    /\ UNCHANGED <<positions, eModes, isoDebt>>

\* With the resetIsolationModeTotalDebt it calls.
SetDebtCeiling(a, ceiling) ==
    /\ config[a].ceiling = 0 => NoSuppliers(a)
    /\ config' = [config EXCEPT ![a].ceiling = ceiling]
    /\ isoDebt' = IF ceiling = 0 THEN [isoDebt EXCEPT ![a] = 0] ELSE isoDebt
    /\ UNCHANGED <<positions, eModes>>

SetSupplyCap(a, supplyCap) ==
    /\ config' = [config EXCEPT ![a].supplyCap = supplyCap]
    /\ UNCHANGED <<positions, eModes, isoDebt>>

SetBorrowCap(a, borrowCap) ==
    /\ config' = [config EXCEPT ![a].borrowCap = borrowCap]
    /\ UNCHANGED <<positions, eModes, isoDebt>>

SetLiquidationProtocolFee(a, fee) ==
    /\ fee <= PERCENTAGE_FACTOR
    /\ config' = [config EXCEPT ![a].fee = fee]
    /\ UNCHANGED <<positions, eModes, isoDebt>>

\* Faulty variant: the bonus may exceed what the collateral leaves over.
ConfigureReserveUnchecked(a, ltv, lt, bonus) ==
    /\ ltv <= lt
    /\ IF lt = 0 THEN bonus = 0 /\ NoSuppliers(a) ELSE bonus # 0
    /\ config' = [config EXCEPT ![a].ltv = ltv, ![a].lt = lt, ![a].bonus = bonus]
    /\ UNCHANGED <<positions, eModes, isoDebt>>

ConfigureReserveAsCollateral(a, ltv, lt, bonus) ==
    /\ ltv <= lt
    /\ IF lt = 0 THEN bonus = 0 /\ NoSuppliers(a)
       ELSE bonus > PERCENTAGE_FACTOR /\ PercentMul(lt, bonus) <= PERCENTAGE_FACTOR
    /\ config' = [config EXCEPT ![a].ltv = ltv, ![a].lt = lt, ![a].bonus = bonus]
    /\ UNCHANGED <<positions, eModes, isoDebt>>

-----------------------------------------------------------------------------
(* Setters of eMode categories.                                            *)

SetEModeCategory(c, ltv, lt, bonus, priceSource) ==
    /\ ltv # 0 /\ lt # 0 /\ ltv <= lt
    /\ bonus > PERCENTAGE_FACTOR /\ PercentMul(lt, bonus) <= PERCENTAGE_FACTOR
    /\ \A a \in Asset : config[a].category = c => ltv > config[a].ltv /\ lt > config[a].lt
    /\ eModes' = [eModes EXCEPT
          ![c] = [ltv |-> ltv, lt |-> lt, bonus |-> bonus, priceSource |-> priceSource]]
    /\ UNCHANGED <<positions, config, isoDebt>>

SetAssetEModeCategory(a, c) ==
    /\ c # NoCategory => eModes[c].lt > config[a].lt
    /\ config' = [config EXCEPT ![a].category = c]
    /\ UNCHANGED <<positions, eModes, isoDebt>>

-----------------------------------------------------------------------------
\* The setters of one bit.
SwitchCalls ==
    \E s \in NewSwitch :
        \/ s[1] = "borrowing" /\ SetReserveBorrowing(s[2], s[3])
        \/ s[1] = "stable" /\ SetReserveStableRateBorrowing(s[2], s[3])
        \/ s[1] = "active" /\ SetReserveActive(s[2], s[3])
        \/ s[1] = "frozen" /\ SetReserveFreeze(s[2], s[3])
        \/ s[1] = "isoBorrowable" /\ SetBorrowableInIsolation(s[2], s[3])
        \/ s[1] = "paused" /\ SetReservePause(s[2], s[3])
        \/ s[1] = "poolPaused" /\ SetPoolPause(s[3])
        \/ s[1] = "siloed" /\ SetSiloedBorrowing(s[2], s[3])

\* The setters of one number.
NumberCalls ==
    \E n \in NewNumber :
        \/ n[1] = "ceiling" /\ SetDebtCeiling(n[2], n[3])
        \/ n[1] = "supplyCap" /\ SetSupplyCap(n[2], n[3])
        \/ n[1] = "borrowCap" /\ SetBorrowCap(n[2], n[3])
        \/ n[1] = "fee" /\ SetLiquidationProtocolFee(n[2], n[3])

ConfiguratorCalls ==
    \/ SwitchCalls
    \/ NumberCalls
    \/ \E p \in NewCollateral : ConfigureReserveAsCollateral(p[1], p[2], p[3], p[4])
    \/ \E p \in NewEMode : SetEModeCategory(p[1], p[2], p[3], p[4], p[5])
    \/ \E p \in NewMembership : SetAssetEModeCategory(p[1], p[2])

GovernedNext == Next \/ ConfiguratorCalls

GovernedSpec == Init /\ [][GovernedNext]_vars

-----------------------------------------------------------------------------
(* Properties.                                                             *)

\* No sequence of setters leaves a reserve or a category that lends more than its
\* threshold or pays a bonus the collateral cannot cover, and a category in use
\* is never unset: the checks of each setter see only a part of the configuration.
SoundConfiguration ==
    /\ \A a \in Asset : SoundConfig(config[a])
    /\ \A u \in User : emode[u] # NoCategory =>
          SoundConfig(eModes[emode[u]]) /\ eModes[emode[u]].lt # 0

\* Nobody has or gets a claim on an inactive reserve, and only time moves what is
\* left there.  Deactivation checks the claims alone, and debts that interest has
\* let outgrow them may stay behind: no payment, swap, liquidation or loan reaches
\* them, whichever role the reserve would have in it.
InactiveStandsStill ==
    [][\A a \in Asset : ~config[a].active =>
          /\ ScaledSupply(a) = 0 /\ ScaledSupply(a)' = 0
          /\ \/ Environment
             \/ /\ cash'[a] = cash[a]
                /\ \A u \in User :
                      /\ vBal'[u][a] = vBal[u][a] /\ sBal'[u][a] = sBal[u][a]
                      /\ a \in bor'[u] <=> a \in bor[u]]_vars

\* Who owes a siloed reserve borrows nothing else, though reserves become siloed
\* while positions are open (setSiloedBorrowing checks the total debt only, and so
\* misses stable debts its total has lost: for StableLag = 0).
SiloedOwedAlone ==
    \A u \in User, a \in Asset :
        config[a].siloed /\ Debt(u, a) # 0 => bor[u] = {a}

\* A reserve that is not isolated counts no isolated debt, so that a ceiling set
\* later starts from zero, and whoever is isolated was so by a supply after it.
CeilingStartsAtZero ==
    \A a \in Asset : config[a].ceiling = 0 => isoDebt[a] = 0

\* Whatever administrators have changed before, a user's call never makes a
\* healthy account unhealthy, his own or another's, but for what CallsKeepHealth allows.
UsersKeepHealth ==
    [][KeepsHealth \/ Environment \/ ConfiguratorCalls]_vars

\* In a paused reserve nothing moves but by time, whichever role it has in a call:
\* supplied, owed, seized, repaid, transferred or flagged.
PausedStandsStill ==
    [][\/ Environment
       \/ \A a \in Asset : config[a].paused =>
             /\ cash'[a] = cash[a]
             /\ \A u \in Account : hBal'[u][a] = hBal[u][a]
             /\ \A u \in User :
                   /\ vBal'[u][a] = vBal[u][a] /\ sBal'[u][a] = sBal[u][a]
                   /\ a \in coll'[u] <=> a \in coll[u]
                   /\ a \in bor'[u] <=> a \in bor[u]]_vars

\* In a frozen reserve claims and debts, of either rate mode, only shrink: no new
\* supply, loan or swap reaches it by any call.
FrozenOnlyShrinks ==
    [][\/ Environment
       \/ \A a \in Asset : config[a].frozen =>
             /\ ScaledSupply(a)' <= ScaledSupply(a)
             /\ \A u \in User : vBal'[u][a] <= vBal[u][a] /\ sBal'[u][a] <= sBal[u][a]]_vars

=============================================================================
