------------------------------- MODULE Reserve -------------------------------
(***************************************************************************)
(* The accounting of one reserve over time: ReserveLogic, the three tokens *)
(* and every handler that moves the reserve's money.                       *)
(*                                                                         *)
(* `chain' is what the contracts store.  A handler maps a chain and the    *)
(* arguments of a call to the set of its outcomes: no outcome when it      *)
(* reverts, one otherwise.                                                 *)
(*                                                                         *)
(* What LendPool already models is left out: health factors, caps, pauses, *)
(* isolation, siloed borrowing and liquidations.  Accounts are backed by   *)
(* collateral in another reserve, and allowances other than of delegated   *)
(* credit are unlimited.                                                   *)
(***************************************************************************)
EXTENDS Interest, FiniteSetsExt

CONSTANTS
    User,               \* accounts that call the pool
    Treasury,           \* RESERVE_TREASURY_ADDRESS
    MAX_UINT_AMOUNT,    \* the amount that stands for everything
    MaxStableLoan,      \* maxStableRateBorrowSizePercent
    RebalanceThreshold, \* REBALANCE_UP_LIQUIDITY_RATE_THRESHOLD (90%)
    CollateralLtv,      \* may the reserve be borrowed against (its LTV is not 0)?
    FeeToVaultPercent,  \* the vault's share of what accrued to the treasury
    FlashPremium,       \* flashLoanPremiumTotal
    PremiumToProtocol,  \* flashLoanPremiumToProtocol
    UnbackedCap,        \* unbackedMintCap, in units of the asset
    BridgeFee           \* bridgeProtocolFee

Account == User \cup {Treasury}

ASSUME ReserveAssumption ==
    /\ IsFiniteSet(User) /\ Treasury \notin User
    /\ "zero" \notin Account   \* the zero address, of mints and burns
    /\ MAX_UINT_AMOUNT \in Nat \ {0}
    /\ {MaxStableLoan, RebalanceThreshold, FeeToVaultPercent, FlashPremium,
        PremiumToProtocol, BridgeFee} \subseteq 0 .. PERCENTAGE_FACTOR
    /\ CollateralLtv \in BOOLEAN
    /\ UnbackedCap \in Nat

RateMode == {"stable", "variable"}

-----------------------------------------------------------------------------
(* The tokens.  A scaled token keeps, per account, the scaled balance and  *)
(* the index of its last operation; Transfer events carry the interest     *)
(* since then.                                                             *)

NoBalances(accounts) ==
    [scaled |-> [u \in accounts |-> 0], index |-> [u \in accounts |-> 0], total |-> 0]

BalanceIncrease(t, u, index) ==
    RayMul(t.scaled[u], index) - RayMul(t.scaled[u], t.index[u])

\* The checks of the code: a mint or burn is not rounded down to nothing, and
\* no balance or total goes below zero.
CanMint(amount, index) == RayDiv(amount, index) # 0
CanBurn(t, u, amount, index) ==
    /\ RayDiv(amount, index) # 0
    /\ RayDiv(amount, index) <= t.scaled[u]
    /\ RayDiv(amount, index) <= t.total

MintScaled(t, u, amount, index) ==
    [scaled |-> [t.scaled EXCEPT ![u] = @ + RayDiv(amount, index)],
     index |-> [t.index EXCEPT ![u] = index],
     total |-> t.total + RayDiv(amount, index)]

BurnScaled(t, u, amount, index) ==
    [scaled |-> [t.scaled EXCEPT ![u] = @ - RayDiv(amount, index)],
     index |-> [t.index EXCEPT ![u] = index],
     total |-> t.total - RayDiv(amount, index)]

TransferScaled(t, from, to, amount, index) ==
    [scaled |-> [[t.scaled EXCEPT ![from] = @ - RayDiv(amount, index)]
                    EXCEPT ![to] = @ + RayDiv(amount, index)],
     index |-> [t.index EXCEPT ![from] = index, ![to] = index],
     total |-> t.total]

\* Faulty variant: the interest since the last operation is not reported.
MintEventsOfAmount(name, t, caller, u, amount, index) ==
    {<<name, "Transfer", "zero", u, amount>>,
     <<name, "Mint", caller, u, amount, BalanceIncrease(t, u, index), index>>}

MintEvents(name, t, caller, u, amount, index) ==
    LET increase == BalanceIncrease(t, u, index) IN
    {<<name, "Transfer", "zero", u, amount + increase>>,
     <<name, "Mint", caller, u, amount + increase, increase, index>>}

BurnEvents(name, t, u, target, amount, index) ==
    LET increase == BalanceIncrease(t, u, index) IN
    IF increase > amount
    THEN {<<name, "Transfer", "zero", u, increase - amount>>,
          <<name, "Mint", u, u, increase - amount, increase, index>>}
    ELSE {<<name, "Transfer", u, "zero", amount - increase>>,
          <<name, "Burn", u, target, amount - increase, increase, index>>}

TransferEvents(t, caller, from, to, amount, index) ==
    LET Accrued(u) == LET increase == BalanceIncrease(t, u, index) IN
            IF increase = 0 THEN {}
            ELSE {<<"hToken", "Transfer", "zero", u, increase>>,
                  <<"hToken", "Mint", caller, u, increase, increase, index>>}
    IN Accrued(from) \cup Accrued(to)
         \cup {<<"hToken", "Transfer", from, to, amount>>,
               <<"hToken", "BalanceTransfer", from, to, RayDiv(amount, index), index>>}

Payment(from, to, amount) == <<"underlying", "Transfer", from, to, amount>>

-----------------------------------------------------------------------------
(* The stable debt token: a principal, a rate and a stamp per user, and    *)
(* their total with an average rate and a stamp of its own.                *)

StableBalance(c, u) ==
    IF c.s.principal[u] = 0 THEN 0
    ELSE RayMul(c.s.principal[u],
                CompoundedInterest(c.s.rate[u], c.now - c.s.stamp[u]))

StableSupply(c) ==
    IF c.s.supply = 0 THEN 0
    ELSE RayMul(c.s.supply, CompoundedInterest(c.s.avg, c.now - c.s.supplyStamp))

\* x at rate p and y at rate q: the average rate.
Weighted(x, p, y, q) ==
    RayDiv(RayMul(p, WadToRay(x)) + RayMul(q, WadToRay(y)), WadToRay(x + y))

\* Faulty variant: the total is added the user's interest a second time.
MintStableTwice(c, u, amount, rate) ==
    LET balance == StableBalance(c, u)
        supply == StableSupply(c)
    IN [principal |-> [c.s.principal EXCEPT ![u] = balance + amount],
        rate |-> [c.s.rate EXCEPT ![u] = Weighted(balance, @, amount, rate)],
        stamp |-> [c.s.stamp EXCEPT ![u] = c.now],
        supply |-> supply + amount + balance - c.s.principal[u],
        avg |-> Weighted(supply, c.s.avg, amount, rate),
        supplyStamp |-> c.now]

MintStable(c, u, amount, rate) ==
    LET balance == StableBalance(c, u)
        supply == StableSupply(c)
    IN [principal |-> [c.s.principal EXCEPT ![u] = balance + amount],
        rate |-> [c.s.rate EXCEPT ![u] = Weighted(balance, @, amount, rate)],
        stamp |-> [c.s.stamp EXCEPT ![u] = c.now],
        supply |-> supply + amount,
        avg |-> Weighted(supply, c.s.avg, amount, rate),
        supplyStamp |-> c.now]

\* What burn returns, and the total it keeps: they differ when the rate of
\* the user outweighs the average, which erases the whole total.
Without(supply, average, amount, rate) ==
    LET weight == RayMul(average, WadToRay(supply))
        share == RayMul(rate, WadToRay(amount))
        next == IF supply <= amount THEN 0 ELSE supply - amount
        avg == IF supply <= amount \/ share >= weight THEN 0
               ELSE RayDiv(weight - share, WadToRay(next))
    IN [next |-> next, avg |-> avg,
        kept |-> IF share >= weight THEN 0 ELSE next]

BurntStable(c, u, amount) == Without(StableSupply(c), c.s.avg, amount, c.s.rate[u])

\* Faulty variant: what is left of a debt keeps its old stamp.
BurnStableKeepingStamp(c, u, amount) ==
    LET balance == StableBalance(c, u)
        burnt == BurntStable(c, u, amount)
        all == amount = balance
    IN [principal |-> [c.s.principal EXCEPT ![u] = balance - amount],
        rate |-> [c.s.rate EXCEPT ![u] = IF all THEN 0 ELSE @],
        stamp |-> [c.s.stamp EXCEPT ![u] = IF all THEN 0 ELSE @],
        supply |-> burnt.kept,
        avg |-> burnt.avg,
        supplyStamp |-> c.now]

BurnStable(c, u, amount) ==
    LET balance == StableBalance(c, u)
        burnt == BurntStable(c, u, amount)
        all == amount = balance
    IN [principal |-> [c.s.principal EXCEPT ![u] = balance - amount],
        rate |-> [c.s.rate EXCEPT ![u] = IF all THEN 0 ELSE @],
        stamp |-> [c.s.stamp EXCEPT ![u] = IF all THEN 0 ELSE c.now],
        supply |-> burnt.kept,
        avg |-> burnt.avg,
        supplyStamp |-> c.now]

MintStableEvents(c, caller, u, amount, after) ==
    LET balance == StableBalance(c, u)
        increase == balance - c.s.principal[u]
    IN {<<"sToken", "Transfer", "zero", u, amount + increase>>,
        <<"sToken", "Mint", caller, u, amount + increase, balance, increase,
          after.rate[u], after.avg, after.supply>>}

BurnStableEvents(c, u, amount) ==
    LET balance == StableBalance(c, u)
        increase == balance - c.s.principal[u]
        burnt == BurntStable(c, u, amount)
    IN IF increase > amount
       THEN {<<"sToken", "Transfer", "zero", u, increase - amount>>,
             <<"sToken", "Mint", u, u, increase - amount, balance, increase,
               c.s.rate[u], burnt.avg, burnt.next>>}
       ELSE {<<"sToken", "Transfer", u, "zero", amount - increase>>,
             <<"sToken", "Burn", u, amount - increase, balance, increase,
               burnt.avg, burnt.next>>}

-----------------------------------------------------------------------------
(* ReserveLogic: balances at the present moment, the indexes and the rates.*)

\* Faulty variant: the growth since the update, without what came before.
GrowthAlone(c) ==
    IF c.lastUpdate = c.now THEN c.li
    ELSE LinearInterest(c.liquidityRate, c.now - c.lastUpdate)

NormalizedIncome(c) ==
    IF c.lastUpdate = c.now THEN c.li
    ELSE RayMul(LinearInterest(c.liquidityRate, c.now - c.lastUpdate), c.li)

\* Faulty variant: debts grow as deposits do.
LinearDebt(c) ==
    IF c.lastUpdate = c.now THEN c.vi
    ELSE RayMul(LinearInterest(c.variableRate, c.now - c.lastUpdate), c.vi)

NormalizedDebt(c) ==
    IF c.lastUpdate = c.now THEN c.vi
    ELSE RayMul(CompoundedInterest(c.variableRate, c.now - c.lastUpdate), c.vi)

HBalance(c, u) == RayMul(c.h.scaled[u], NormalizedIncome(c))
VariableBalance(c, u) == RayMul(c.v.scaled[u], NormalizedDebt(c))
VariableSupply(c) == RayMul(c.v.total, NormalizedDebt(c))

\* No debt, no growth of its index, even when the base rate is positive.
NextDebtIndex(c) == IF c.v.total = 0 THEN c.vi ELSE NormalizedDebt(c)

\* The treasury's share of the interest since the last update.
TreasuryShare(c) ==
    LET before == RayMul(c.s.supply, CompoundedInterest(c.s.avg, c.lastUpdate - c.s.supplyStamp))
        interest == RayMul(c.v.total, NextDebtIndex(c)) - RayMul(c.v.total, c.vi)
                      + StableSupply(c) - before
    IN PercentMul(interest, ReserveFactor)

\* updateState: bring the indexes to the present.
UpdateState(c) ==
    IF c.lastUpdate = c.now THEN c
    ELSE [c EXCEPT !.li = NormalizedIncome(c),
                   !.vi = NextDebtIndex(c),
                   !.accrued = @ + RayDiv(TreasuryShare(c), NormalizedIncome(c)),
                   !.lastUpdate = c.now]

AtRates(c, rates) ==
    [c EXCEPT !.liquidityRate = rates.liquidity, !.stableRate = rates.stable,
              !.variableRate = rates.variable]

\* Faulty variant: the liquidity a call brings is not counted.
SetRatesBeforePayment(c, stable, added, taken) ==
    AtRates(c, InterestRates(stable, RayMul(c.v.total, c.vi), c.s.avg,
                             c.cash - taken, c.unbacked))

\* updateInterestRates, before the payment itself is made.
SetRates(c, stable, added, taken) ==
    AtRates(c, InterestRates(stable, RayMul(c.v.total, c.vi), c.s.avg,
                             c.cash + added - taken, c.unbacked))

\* cumulateToLiquidityIndex: a one-off income shared by all suppliers.
SuppliersClaim(c) == RayMul(c.h.total, NormalizedIncome(c)) + RayMul(c.accrued, c.li)

\* Faulty variant: the new index is used and not stored.
CumulateUnstored(c, income, toTreasury) ==
    LET next == RayMul(RayDiv(WadToRay(income), WadToRay(SuppliersClaim(c))) + RAY, c.li)
    IN [c EXCEPT !.accrued = @ + RayDiv(toTreasury, next)]

Cumulate(c, income, toTreasury) ==
    LET next == RayMul(RayDiv(WadToRay(income), WadToRay(SuppliersClaim(c))) + RAY, c.li)
    IN [c EXCEPT !.li = next, !.accrued = @ + RayDiv(toTreasury, next)]

-----------------------------------------------------------------------------
(* The handlers.                                                           *)

\* The outcomes of a call: none if a check fails.
Require(checks, outcome) == IF checks THEN {outcome} ELSE {}

\* hTokens for u; the first ones are used as collateral (no reserve is isolated here).
Credit(c, u, amount) ==
    [c EXCEPT !.h = MintScaled(@, u, amount, c.li),
              !.coll = IF c.h.scaled[u] = 0 THEN @ \cup {u} ELSE @]

Supply(c, by, for, amount) ==
    LET u == UpdateState(c) IN
    Require(/\ amount # 0
            /\ amount <= u.wallet[by]
            /\ CanMint(amount, u.li),
            [Credit(SetRates(u, StableSupply(u), amount, 0), for, amount)
                EXCEPT !.cash = @ + amount,
                       !.wallet[by] = @ - amount,
                       !.log = MintEvents("hToken", u.h, by, for, amount, u.li)
                                 \cup {Payment(by, "hToken", amount)}])

Withdraw(c, by, amount) ==
    LET u == UpdateState(c)
        balance == RayMul(u.h.scaled[by], u.li)
        taken == IF amount = MAX_UINT_AMOUNT THEN balance ELSE amount
    IN Require(/\ taken # 0
               /\ taken <= balance
               /\ taken <= u.cash
               /\ CanBurn(u.h, by, taken, u.li),
               [SetRates(u, StableSupply(u), 0, taken)
                    EXCEPT !.h = BurnScaled(@, by, taken, u.li),
                           !.coll = IF taken = balance THEN @ \ {by} ELSE @,
                           !.cash = @ - taken,
                           !.wallet[by] = @ + taken,
                           !.log = BurnEvents("hToken", u.h, by, by, taken, u.li)
                                     \cup {Payment("hToken", by, taken)}])

\* hToken.transfer and transferFrom: the index of the moment, nothing stored
\* of the reserve.
Transfer(c, by, from, to, amount) ==
    LET index == NormalizedIncome(c)
        leaves == IF HBalance(c, from) = amount THEN {from} ELSE {}
        joins == IF HBalance(c, to) = 0 THEN {to} ELSE {}
    IN Require(RayDiv(amount, index) <= c.h.scaled[from],
               [c EXCEPT !.h = TransferScaled(@, from, to, amount, index),
                         !.coll = IF from = to \/ amount = 0 THEN @
                                  ELSE (@ \ leaves) \cup joins,
                         !.log = TransferEvents(c.h, by, from, to, amount, index)])

SetUseReserveAsCollateral(c, by, use) ==
    Require(HBalance(c, by) # 0,
            [c EXCEPT !.coll = IF use THEN @ \cup {by} ELSE @ \ {by},
                      !.log = {}])

ApproveDelegation(c, by, to, mode, amount) ==
    {[c EXCEPT !.allowance[mode][by][to] = amount, !.log = {}]}

\* The pool lends stable debt only to accounts that could not have pushed the
\* rate down with their own deposit.
ServesAsCollateral(c, u) == u \in c.coll /\ CollateralLtv

Borrow(c, by, for, amount, mode) ==
    LET u == UpdateState(c)
        lent == [u EXCEPT !.s = IF mode = "stable"
                                THEN MintStable(u, for, amount, u.stableRate) ELSE @,
                          !.v = IF mode = "variable"
                                THEN MintScaled(@, for, amount, u.vi) ELSE @]
    IN Require(/\ amount # 0
               /\ amount <= u.cash
               /\ by = for \/ amount <= u.allowance[mode][for][by]
               /\ mode = "variable" => CanMint(amount, u.vi)
               /\ mode = "stable" =>
                    /\ ServesAsCollateral(u, for) => amount > HBalance(u, for)
                    /\ amount <= PercentMul(u.cash, MaxStableLoan),
               [SetRates(lent, StableSupply(lent), 0, amount)
                    EXCEPT !.cash = @ - amount,
                           !.wallet[by] = @ + amount,
                           !.allowance[mode][for][by] = IF by = for THEN @ ELSE @ - amount,
                           !.log = {Payment("hToken", by, amount)} \cup
                                   IF mode = "stable"
                                   THEN MintStableEvents(u, by, for, amount, lent.s)
                                   ELSE MintEvents("vToken", u.v, by, for, amount, u.vi)])

Debt(c, u, mode) == IF mode = "stable" THEN StableBalance(c, u) ELSE VariableBalance(c, u)

\* Burn amount of a debt: the chain, and the stable total the code goes on with.
BurnDebt(c, u, amount, mode) ==
    [c EXCEPT !.s = IF mode = "stable" THEN BurnStable(c, u, amount) ELSE @,
              !.v = IF mode = "variable" THEN BurnScaled(@, u, amount, c.vi) ELSE @]

StableTotalAfter(c, u, amount, mode) ==
    IF mode = "stable" THEN BurntStable(c, u, amount).next ELSE StableSupply(c)

BurnDebtEvents(c, u, amount, mode) ==
    IF mode = "stable" THEN BurnStableEvents(c, u, amount)
    ELSE BurnEvents("vToken", c.v, u, "zero", amount, c.vi)

\* repay, and repayWithHTokens (useH), which burns the payer's hTokens instead.
Repay(c, by, for, amount, mode, useH) ==
    LET u == UpdateState(c)
        debt == Debt(u, for, mode)
        sent == IF useH /\ amount = MAX_UINT_AMOUNT THEN HBalance(u, by) ELSE amount
        paid == IF sent < debt THEN sent ELSE debt
        cash == IF useH THEN 0 ELSE paid
        rated == SetRates(BurnDebt(u, for, paid, mode),
                          StableTotalAfter(u, for, paid, mode), cash, 0)
    IN Require(/\ amount # 0
               /\ amount = MAX_UINT_AMOUNT => by = for
               /\ debt # 0
               /\ mode = "variable" => CanBurn(u.v, for, paid, u.vi)
               /\ useH => CanBurn(u.h, by, paid, u.li)
               /\ cash <= u.wallet[by],
               [rated EXCEPT !.h = IF useH THEN BurnScaled(@, by, paid, u.li) ELSE @,
                             !.cash = @ + cash,
                             !.wallet[by] = @ - cash,
                             !.log = BurnDebtEvents(u, for, paid, mode) \cup
                                     IF useH THEN BurnEvents("hToken", u.h, by, "hToken", paid, u.li)
                                     ELSE {Payment(by, "hToken", paid)}])

\* The whole debt of by changes its mode; the token it leaves burns first.
SwapBorrowRateMode(c, by, mode) ==
    LET u == UpdateState(c)
        debt == Debt(u, by, mode)
        burnt == BurnDebt(u, by, debt, mode)
        swapped == IF mode = "stable"
                   THEN [burnt EXCEPT !.v = MintScaled(@, by, debt, u.vi)]
                   ELSE [burnt EXCEPT !.s = MintStable(burnt, by, debt, u.stableRate)]
        total == IF mode = "stable" THEN StableTotalAfter(u, by, debt, mode)
                 ELSE StableSupply(swapped)
    IN Require(/\ debt # 0
               /\ mode = "variable" =>
                    /\ CanBurn(u.v, by, debt, u.vi)
                    /\ ServesAsCollateral(u, by) =>
                          debt + StableBalance(u, by) > HBalance(u, by)
               /\ mode = "stable" => CanMint(debt, u.vi),
               [SetRates(swapped, total, 0, 0)
                    EXCEPT !.log = BurnDebtEvents(u, by, debt, mode) \cup
                                   IF mode = "stable"
                                   THEN MintEvents("vToken", u.v, by, by, debt, u.vi)
                                   ELSE MintStableEvents(burnt, by, by, debt, swapped.s)])

\* Suppliers earn at most 90% of what they would if all debt were variable.
RebalanceAllowed(c, liquidityRate) ==
    liquidityRate <= PercentMul(InterestRates(0, StableSupply(c) + VariableSupply(c), 0,
                                              c.cash, c.unbacked).liquidity,
                                RebalanceThreshold)

RebalanceStableBorrowRate(c, user) ==
    LET u == UpdateState(c)
        debt == StableBalance(u, user)
        burnt == [u EXCEPT !.s = BurnStable(u, user, debt)]
        minted == [burnt EXCEPT !.s = MintStable(burnt, user, debt, u.stableRate)]
    IN Require(/\ debt # 0
               /\ RebalanceAllowed(u, c.liquidityRate),
               [SetRates(minted, StableSupply(minted), 0, 0)
                    EXCEPT !.log = BurnStableEvents(u, user, debt) \cup
                                   MintStableEvents(burnt, user, user, debt, minted.s)])

\* mintToTreasury: the vault is paid in cash, and the rates are left alone.
MintToTreasury(c) ==
    LET index == NormalizedIncome(c)
        amount == RayMul(c.accrued, index)
        vault == PercentMul(amount, FeeToVaultPercent)
        cleared == [c EXCEPT !.accrued = 0, !.log = {}]
    IN IF amount = 0 THEN {cleared}
       ELSE Require(vault <= c.cash /\ CanMint(amount - vault, index),
                    [cleared EXCEPT
                        !.h = MintScaled(@, Treasury, amount - vault, index),
                        !.cash = @ - vault,
                        !.log = MintEvents("hToken", c.h, "pool", Treasury, amount - vault, index)
                                  \cup {Payment("hToken", "vault", vault)}])

\* Bridges mint hTokens ahead of the funds, and back them later with a fee.
MintUnbacked(c, for, amount) ==
    LET u == UpdateState(c)
        owed == [u EXCEPT !.unbacked = @ + amount]
    IN Require(/\ amount # 0
               /\ owed.unbacked <= UnbackedCap
               /\ CanMint(amount, u.li),
               [Credit(SetRates(owed, StableSupply(u), 0, 0), for, amount)
                    EXCEPT !.log = MintEvents("hToken", u.h, "bridge", for, amount, u.li)])

\* Faulty variant: a bridge may back more than is unbacked.
BackAnything(c, amount, fee) ==
    LET u == UpdateState(c)
        toProtocol == PercentMul(fee, BridgeFee)
        backed == [Cumulate(u, fee - toProtocol, toProtocol) EXCEPT !.unbacked = @ - amount]
    IN Require(SuppliersClaim(u) # 0,
               [SetRates(backed, StableSupply(u), amount + fee, 0)
                    EXCEPT !.cash = @ + amount + fee,
                           !.log = {Payment("bridge", "hToken", amount + fee)}])

BackUnbacked(c, amount, fee) ==
    LET u == UpdateState(c)
        backing == IF amount < u.unbacked THEN amount ELSE u.unbacked
        toProtocol == PercentMul(fee, BridgeFee)
        backed == [Cumulate(u, fee - toProtocol, toProtocol) EXCEPT !.unbacked = @ - backing]
    IN Require(SuppliersClaim(u) # 0,
               [SetRates(backed, StableSupply(u), backing + fee, 0)
                    EXCEPT !.cash = @ + backing + fee,
                           !.log = {Payment("bridge", "hToken", backing + fee)}])

\* A flash loan: the receiver holds the amount while it calls what it likes, in the
\* same transaction, further flash loans included.  Of the loans that are out only
\* the sum is kept, and what is returned next may be any part of it.
FlashOut(c, amount) ==
    Require(amount <= c.cash,
            [c EXCEPT !.flash = @ + amount,
                      !.cash = @ - amount,
                      !.log = {Payment("hToken", "receiver", amount)}])

FlashBack(c, amount) ==
    LET u == UpdateState(c)
        premium == PercentMul(amount, FlashPremium)
        toProtocol == PercentMul(premium, PremiumToProtocol)
        earned == Cumulate(u, premium - toProtocol, toProtocol)
        returned == amount + premium
    IN Require(/\ amount \in 1 .. c.flash
               /\ SuppliersClaim(u) # 0,
               [SetRates(earned, StableSupply(u), returned, 0)
                    EXCEPT !.flash = @ - amount,
                           !.cash = @ + returned,
                           !.log = {Payment("receiver", "hToken", returned)}])

\* Blocks: time passes between transactions only.
Tick(c, dt) == Require(c.flash = 0, [c EXCEPT !.now = @ + dt, !.log = {}])

\* A reserve as initReserve leaves it: indexes of one, rates not yet set.
Deployed(endowment) ==
    [now |-> 1, lastUpdate |-> 0,
     li |-> RAY, vi |-> RAY, liquidityRate |-> 0, stableRate |-> 0, variableRate |-> 0,
     accrued |-> 0, unbacked |-> 0, cash |-> 0, flash |-> 0,
     wallet |-> [u \in User |-> endowment], coll |-> {},
     h |-> NoBalances(Account), v |-> NoBalances(User),
     s |-> [principal |-> [u \in User |-> 0], rate |-> [u \in User |-> 0],
            stamp |-> [u \in User |-> 0], supply |-> 0, avg |-> 0, supplyStamp |-> 0],
     allowance |-> [m \in RateMode |-> [u \in User |-> [w \in User |-> 0]]],
     log |-> {}]

\* The chains a call leads to from any of cs.
After(cs, Call(_)) == UNION {Call(c) : c \in cs}

=============================================================================
