----------------------------- MODULE Accounting -----------------------------
(***************************************************************************)
(* The books of a reserve: any calls, by any accounts, at any times, with  *)
(* a flash loan's receiver free to make any of them while it holds the     *)
(* funds.  What is checked is that the books keep adding up.               *)
(***************************************************************************)
EXTENDS Reserve, Sequences

CONSTANTS
    Opening,    \* the chains to start from
    Amount,     \* amounts of calls, MAX_UINT_AMOUNT among them or not
    Fee,        \* fees bridges pay
    Gap,        \* the time between two blocks, in seconds
    MaxSteps,   \* bound on calls and blocks
    Drift       \* what one call may lose to rounding, in units of the asset

VARIABLES
    chain,
    steps       \* calls and blocks so far

vars == <<chain, steps>>

ScaledTokens(accounts) ==
    [scaled : [accounts -> Nat], index : [accounts -> Nat], total : Nat]

StableTokens ==
    [principal : [User -> Nat], rate : [User -> Nat], stamp : [User -> Nat],
     supply : Nat, avg : Nat, supplyStamp : Nat]

Stored ==
    {"now", "lastUpdate", "li", "vi", "liquidityRate", "stableRate", "variableRate",
     "accrued", "unbacked", "cash", "flash", "wallet", "coll", "h", "v", "s",
     "allowance", "log"}

IsChain(c) ==
    /\ DOMAIN c = Stored
    /\ c.now \in Nat /\ c.lastUpdate \in 0 .. c.now
    /\ c.li \in Nat /\ c.li >= RAY /\ c.vi \in Nat /\ c.vi >= RAY
    /\ c.liquidityRate \in Nat /\ c.stableRate \in Nat /\ c.variableRate \in Nat
    /\ c.accrued \in Nat /\ c.unbacked \in 0 .. UnbackedCap
    /\ c.cash \in Nat /\ c.flash \in Nat
    /\ c.wallet \in [User -> Nat] /\ c.coll \subseteq User
    /\ c.h \in ScaledTokens(Account) /\ c.v \in ScaledTokens(User)
    /\ c.s \in StableTokens /\ c.s.supplyStamp <= c.lastUpdate
    /\ \A u \in User : c.s.stamp[u] <= c.now
    /\ c.allowance \in [RateMode -> [User -> [User -> Nat]]]

\* Scaled balances change one account at a time, and the total with them.
ScaledTotalsAreSums(c) ==
    /\ c.h.total = SumFunction(c.h.scaled)
    /\ c.v.total = SumFunction(c.v.scaled)

ASSUME AccountingAssumption ==
    /\ \A c \in Opening : IsChain(c) /\ ScaledTotalsAreSums(c)
    /\ Amount \subseteq Nat /\ Fee \subseteq Nat /\ Gap \subseteq Nat
    /\ MaxSteps \in Nat /\ Drift \in Nat

Init ==
    /\ chain \in Opening
    /\ steps = 0

Take(outcomes) ==
    /\ steps < MaxSteps
    /\ steps' = steps + 1
    /\ chain' \in outcomes

-----------------------------------------------------------------------------
SupplyCall == \E by, for \in User, a \in Amount : Take(Supply(chain, by, for, a))

WithdrawCall == \E by \in User, a \in Amount : Take(Withdraw(chain, by, a))

TransferCall ==
    \E by, from, to \in User, a \in Amount : Take(Transfer(chain, by, from, to, a))

CollateralCall ==
    \E by \in User, use \in BOOLEAN : Take(SetUseReserveAsCollateral(chain, by, use))

DelegationCall ==
    \E by, to \in User, mode \in RateMode, a \in Amount :
        by # to /\ Take(ApproveDelegation(chain, by, to, mode, a))

BorrowCall ==
    \E by, for \in User, a \in Amount, mode \in RateMode :
        Take(Borrow(chain, by, for, a, mode))

RepayCall ==
    \E by, for \in User, a \in Amount, mode \in RateMode, useH \in BOOLEAN :
        /\ useH => by = for
        /\ Take(Repay(chain, by, for, a, mode, useH))

SwapCall ==
    \E by \in User, mode \in RateMode : Take(SwapBorrowRateMode(chain, by, mode))

RebalanceCall == \E u \in User : Take(RebalanceStableBorrowRate(chain, u))

TreasuryCall == Take(MintToTreasury(chain))

UnbackedCall == \E for \in User, a \in Amount : Take(MintUnbacked(chain, for, a))

BackingCall == \E a \in Amount, fee \in Fee : Take(BackUnbacked(chain, a, fee))

FlashLoan == \E a \in Amount : Take(FlashOut(chain, a))

FlashRepayment == \E a \in Amount \cup {chain.flash} : Take(FlashBack(chain, a))

NextBlock == \E dt \in Gap : Take(Tick(chain, dt))

Next ==
    \/ SupplyCall \/ WithdrawCall \/ TransferCall \/ CollateralCall
    \/ DelegationCall \/ BorrowCall \/ RepayCall \/ SwapCall \/ RebalanceCall
    \/ TreasuryCall \/ UnbackedCall \/ BackingCall
    \/ FlashLoan \/ FlashRepayment \/ NextBlock

Spec == Init /\ [][Next]_vars

-----------------------------------------------------------------------------
\* What the contracts store has its type: no cash, wallet, scaled balance or
\* counter of unbacked hTokens goes below zero or past its cap, and nothing is
\* stamped in the future.
TypeOK ==
    /\ IsChain(chain)
    /\ steps \in 0 .. MaxSteps

\* What suppliers, the treasury among them, could redeem at this moment: a call
\* that redeems it first brings the indexes and the treasury's share to it.
Claims(c) == LET u == UpdateState(c) IN RayMul(u.h.total + u.accrued, u.li)

StableDebts(c) == SumFunction([u \in User |-> StableBalance(c, u)])
VariableDebts(c) == SumFunction([u \in User |-> VariableBalance(c, u)])

\* What is there to redeem it from: the cash, the amount out on a flash loan,
\* what bridges have still to bring, and the debts of every account.
Assets(c) == c.cash + c.flash + c.unbacked + StableDebts(c) + VariableDebts(c)

Surplus(c) == Assets(c) - Claims(c)

\* Linear interest to suppliers, compound interest on debts, the treasury's
\* share, averaged stable rates, one-off premiums and half-up rounding add up:
\* the claims never exceed the assets by more than rounding.
Solvent == Surplus(chain) + Drift * (steps + 1) >= 0

\* Scaled totals are the sums of the balances; the stable total, which grows
\* at an average rate, falls behind the sum of the debts but does not exceed it.
TotalsAreSums ==
    /\ ScaledTotalsAreSums(chain)
    /\ StableSupply(chain) <= StableDebts(chain) + Drift * (steps + 1)

\* Indexes are prices of scaled balances: if one fell, so would every balance.
\* No call, premium or passage of time lowers one.
IndexesNeverFall ==
    [][chain'.li >= chain.li /\ chain'.vi >= chain.vi]_vars

\* A call that moves cash, debt or unbacked hTokens leaves the rates that its
\* own outcome implies.  Paying the vault out of mintToTreasury leaves them as
\* they are, and a burn that erases the stable total goes on with the old one.
PaysVault(log) == \E e \in log : e[1] = "underlying" /\ e[4] = "vault"
ErasesStableTotal(c) ==
    /\ c.s.supply = 0
    /\ \E e \in c.log : e[1] = "sToken" /\ e[2] \in {"Mint", "Burn"} /\ e[Len(e)] # 0

MovesFunds(c, d) ==
    \/ c.cash # d.cash \/ c.unbacked # d.unbacked
    \/ c.v.total # d.v.total \/ c.s # d.s

ImpliedRates(c) ==
    InterestRates(StableSupply(c), VariableSupply(c), c.s.avg, c.cash, c.unbacked)

RatesOf(c) ==
    [variable |-> c.variableRate, stable |-> c.stableRate, liquidity |-> c.liquidityRate]

LeavesCurrentRates(c, d) ==
    /\ MovesFunds(c, d)
    /\ d.flash = 0 /\ ~PaysVault(d.log) /\ ~ErasesStableTotal(d)
    => RatesOf(d) = ImpliedRates(d)

RatesAreCurrent == [][LeavesCurrentRates(chain, chain')]_vars

\* The balance of u at its last operation, from which events tell the interest.
Recorded(c, token, u) ==
    CASE token = "hToken" -> RayMul(c.h.scaled[u], c.h.index[u])
      [] token = "vToken" -> RayMul(c.v.scaled[u], c.v.index[u])
      [] token = "sToken" -> c.s.principal[u]

\* What u received of a token by its Transfer events, less what it sent.
Transfers(log, token) == {e \in log : e[1] = token /\ e[2] = "Transfer"}

Received(log, token, u) ==
    LET sent == [e \in Transfers(log, token) |-> e[5]]
        Moved(k) == SumFunctionOnSet(sent, {e \in DOMAIN sent : e[k] = u})
    IN Moved(4) - Moved(3)

Holders(token) == IF token = "hToken" THEN Account ELSE User

\* How far one mint, burn or transfer at an index is from its amount: by half of
\* what a scaled unit is worth, and by the rounding of two balances.
Slack(index) == 1 + index \div (2 * RAY)

SlackOf(c, token) ==
    CASE token = "hToken" -> Slack(NormalizedIncome(c))
      [] token = "vToken" -> Slack(NormalizedDebt(c))
      [] token = "sToken" -> 0

\* Whoever adds up Transfer events, as indexers and the tests do, knows every
\* balance to within the slack of each call, and stable debts exactly: the events
\* carry the interest.
TellsBalance(c, d, token, u) ==
    LET told == Received(d.log, token, u)
        moved == Recorded(d, token, u) - Recorded(c, token, u)
        slack == SlackOf(d, token)
    IN told - moved \in -slack .. slack

EventsTellBalances ==
    [][ \A token \in {"hToken", "vToken", "sToken"} : \A u \in Holders(token) :
          TellsBalance(chain, chain', token, u) ]_vars

\* How far one call is from keeping it: by a rounding of each scaled token, and of
\* the share of a premium that falls to each RAY of claims.
CallSlack(c) ==
    Slack(NormalizedIncome(c)) + Slack(NormalizedDebt(c))
        + (NormalizedIncome(c) + Claims(c)) \div RAY

\* No call creates or destroys value.
CallsKeepSurplus ==
    [][ chain'.now = chain.now =>
          Surplus(chain') - Surplus(chain) \in -CallSlack(chain') .. CallSlack(chain') ]_vars

=============================================================================
