---------------------------- MODULE LendingGauge ----------------------------
(***************************************************************************)
(* The gauge of one reserve and the reward books of its two rewarded       *)
(* tokens.  Every balance change of an hToken or a variable debt token     *)
(* checkpoints both books before and refreshes both working balances       *)
(* after; a book is skipped while its token has no supply.  Pool calls end *)
(* by splitting the emission between the two books by utilisation.  The    *)
(* reserve bears no interest here.                                         *)
(***************************************************************************)
EXTENDS Integers, Sequences, FiniteSetsExt

CONSTANTS
    User,
    RAY,            \* one, of utilisation and allocation
    ONE,            \* one, of weights and reward integrals (10**18)
    WEEK,           \* of the gauge controller, in units of time
    Weight,         \* the controller's weight of this gauge: week |-> of ONE
    EPOCH,          \* how long the reward token keeps a rate
    Rate,           \* the reward token's rate: epoch |-> tokens per unit of time
    PhaseLists,     \* what administrators may pass to addPhases
    Amounts,        \* amounts of calls
    MaxBalance,     \* bound on a user's balance and on cash
    MaxTime,        \* bound on time
    MaxCalls        \* bound on calls

VARIABLES
    now,
    cash,           \* underlying the hToken holds
    stable,         \* stable debt, which bears no rewards: User -> Nat
    bal,            \* of the rewarded tokens: Token -> User -> Nat
    book,           \* the AbsGauge storage of each: Token -> record
    gauge,          \* the LendingGauge storage
    votes,          \* the voting escrow: User -> [power, time of the last event]
    emitted,        \* rewards of all periods closed so far, in parts of ONE
    orderly,        \* nobody's share or deposit changed before his checkpoint
    calls           \* calls so far

vars == <<now, cash, stable, bal, book, gauge, votes, emitted, orderly, calls>>
external == <<now, votes>>

Token == {"hToken", "variableDebtToken"}

TOKENLESS_PRODUCTION == 40

Phase == [start : Nat, end : Nat, k : Int, b : Nat]

ASSUME GaugeAssumption ==
    /\ IsFiniteSet(User)
    /\ RAY \in Nat \ {0} /\ ONE \in Nat \ {0}
    /\ WEEK \in Nat \ {0} /\ EPOCH \in Nat \ {0}
    /\ Weight \in [0 .. MaxTime \div WEEK -> Nat]
    /\ Rate \in [0 .. MaxTime \div EPOCH -> Nat]
    /\ PhaseLists \subseteq Seq(Phase)
    /\ Amounts \subseteq Nat \ {0} /\ MaxBalance \in Nat /\ MaxTime \in Nat /\ MaxCalls \in Nat

TotalSupply(balances, t) == SumFunction(balances[t])

TotalDebt(balances, owed) ==
    SumFunction(owed) + TotalSupply(balances, "variableDebtToken")

-----------------------------------------------------------------------------
\* One book.

\* What a stretch of a week adds to the integral, at one rate.
Stretch(b, allocation, rate, week, time) ==
    ((rate * Weight[week] * allocation * time) \div b.workingSupply) \div RAY

\* The stretch of a week between the last period and now, and whether the rate
\* changes in it, or has changed before it.
From(st, week) == Max({st.periodTime, week * WEEK})
To(week) == Min({now, (week + 1) * WEEK})
Turns(st, week) ==
    st.prevFutureEpoch >= From(st, week) /\ st.prevFutureEpoch < To(week)
RateAt(st, week) == IF st.prevFutureEpoch < From(st, week) THEN st.newRate ELSE st.rate

Weeks(st) ==
    IF now > st.periodTime THEN st.periodTime \div WEEK .. (now - 1) \div WEEK ELSE {}

Growth(b, allocation, st) ==
    IF b.workingSupply = 0 THEN 0
    ELSE SumFunction(
        [w \in Weeks(st) |->
            IF Turns(st, w)
            THEN Stretch(b, allocation, st.rate, w, st.prevFutureEpoch - From(st, w))
                   + Stretch(b, allocation, st.newRate, w, To(w) - st.prevFutureEpoch)
            ELSE Stretch(b, allocation, RateAt(st, w), w, To(w) - From(st, w))])

Checkpoint(b, u, allocation, st) ==
    LET inv == b.integrateInvSupply + Growth(b, allocation, st) IN
    [b EXCEPT !.integrateInvSupply = inv,
              !.integrateFraction[u] =
                  @ + (b.workingBalances[u] * (inv - b.integrateInvSupplyOf[u])) \div ONE,
              !.integrateInvSupplyOf[u] = inv,
              !.integrateCheckpointOf[u] = now]

\* The share of a user: two fifths of his tokens, and more by his votes.
VotingTotal == SumFunction([u \in User |-> votes[u].power])

Limit(u, l, total) ==
    LET tokenless == (l * TOKENLESS_PRODUCTION) \div 100
        boost == IF VotingTotal = 0 THEN 0
                 ELSE ((total * votes[u].power * (100 - TOKENLESS_PRODUCTION))
                          \div VotingTotal) \div 100
    IN Min({l, tokenless + boost})

\* Faulty: the old share is not taken out of the supply.
UpdateLimitAdding(b, u, l, total) ==
    [b EXCEPT !.workingBalances[u] = Limit(u, l, total),
              !.workingSupply = @ + Limit(u, l, total)]

\* Faulty: the old share is added and the new one taken out.
UpdateLimitSwapped(b, u, l, total) ==
    [b EXCEPT !.workingBalances[u] = Limit(u, l, total),
              !.workingSupply = @ + b.workingBalances[u] - Limit(u, l, total)]

UpdateLimit(b, u, l, total) ==
    [b EXCEPT !.workingBalances[u] = Limit(u, l, total),
              !.workingSupply = @ + Limit(u, l, total) - b.workingBalances[u]]

-----------------------------------------------------------------------------
\* The gauge over both books.

\* A new rate is read once the epoch is over; a killed gauge yields none.
Expired == gauge.futureEpochTime <= now
NewRate == IF Expired THEN Rate[now \div EPOCH] ELSE gauge.inflationRate

Period ==
    [periodTime |-> gauge.periodTime,
     rate |-> IF gauge.isKilled THEN 0 ELSE gauge.inflationRate,
     newRate |-> IF gauge.isKilled THEN 0 ELSE NewRate,
     prevFutureEpoch |-> gauge.futureEpochTime]

\* Faulty: suppliers are given the whole emission whatever borrowers are given.
WholeToSuppliers(t) == IF t = "hToken" THEN RAY ELSE gauge.borrowAllocation

RelativeWeight(t) ==
    IF t = "hToken" THEN RAY - gauge.borrowAllocation ELSE gauge.borrowAllocation

\* The books after a checkpoint of us, one after the other, at tokens bal.
HvCheckpoint(u) ==
    [t \in Token |->
        IF TotalSupply(bal, t) = 0 THEN book[t]
        ELSE Checkpoint(book[t], u, RelativeWeight(t), Period)]

\* The second of two checkpoints in one call finds the period closed.
Credit(b, v) ==
    [b EXCEPT !.integrateFraction[v] =
                  @ + (b.workingBalances[v] * (b.integrateInvSupply - b.integrateInvSupplyOf[v]))
                          \div ONE,
              !.integrateInvSupplyOf[v] = b.integrateInvSupply,
              !.integrateCheckpointOf[v] = now]

HvCheckpointBoth(u, v) ==
    [t \in Token |->
        IF TotalSupply(bal, t) = 0 THEN book[t] ELSE Credit(HvCheckpoint(u)[t], v)]

\* The books after a refresh of u's shares, at tokens balances.
HvUpdateLiquidityLimit(books, balances, u) ==
    [t \in Token |->
        IF TotalSupply(balances, t) = 0 THEN books[t]
        ELSE UpdateLimit(books[t], u, balances[t][u], TotalSupply(balances, t))]

\* A checkpoint closes the period, whichever books it reached.
Closed ==
    [gauge EXCEPT !.periodTime = now,
                  !.inflationRate = NewRate,
                  !.futureEpochTime = IF Expired THEN (now \div EPOCH + 1) * EPOCH ELSE @]

Emission ==
    SumFunction(
        [w \in Weeks(Period) |->
            Weight[w] * IF Turns(Period, w)
                        THEN Period.rate * (Period.prevFutureEpoch - From(Period, w))
                               + Period.newRate * (To(w) - Period.prevFutureEpoch)
                        ELSE RateAt(Period, w) * (To(w) - From(Period, w))])

ClosePeriod == emitted' = emitted + Emission

\* Division of an int256, which truncates towards zero.
SignedDiv(n, d) == IF n >= 0 THEN n \div d ELSE -((-n) \div d)

\* Of the phases, the one a utilisation falls in; at most one does.
PhaseOf(u, list) == {i \in DOMAIN list : u > list[i].start /\ u <= list[i].end}

AllocationByUtilizationRate(u, list) ==
    IF PhaseOf(u, list) = {} THEN 0
    ELSE LET p == list[Min(PhaseOf(u, list))] IN SignedDiv(p.k * u, RAY) + p.b

\* What updateAllocation finds with this much cash and debt (rayDiv rounds half
\* up).
Allocation(money, debt, list) ==
    IF debt = 0 THEN 0
    ELSE AllocationByUtilizationRate(
             (debt * RAY + (money + debt) \div 2) \div (money + debt), list)

\* updateAllocation, which reverts without phases and below zero.
UpdateAllocation(g, money, debt) ==
    /\ debt = 0 \/ g.phases # <<>>
    /\ Allocation(money, debt, g.phases) >= 0
    /\ gauge' = [g EXCEPT !.borrowAllocation = Allocation(money, debt, g.phases)]

-----------------------------------------------------------------------------
\* The tokens, between a checkpoint and a refresh.

\* Solidity reverts when the share of suppliers would be negative.
MayCheckpoint == TotalSupply(bal, "hToken") = 0 \/ gauge.borrowAllocation <= RAY

\* Nothing is owed to u in t that his checkpoint has not credited yet.
UpToDate(t, u) ==
    \/ TotalSupply(bal, t) # 0
    \/ book[t].integrateInvSupplyOf[u] = book[t].integrateInvSupply

Called == calls < MaxCalls /\ calls' = calls + 1

MintToken(t, u, x) ==
    /\ Called
    /\ MayCheckpoint
    /\ bal[t][u] + x <= MaxBalance
    /\ bal' = [bal EXCEPT ![t][u] = @ + x]
    /\ book' = HvUpdateLiquidityLimit(HvCheckpoint(u), bal', u)
    /\ ClosePeriod
    /\ orderly' = (orderly /\ UpToDate(t, u))

\* Faulty: the share is refreshed before the tokens are burnt.
BurnAfterRefresh(t, u, x) ==
    /\ Called
    /\ MayCheckpoint
    /\ x <= bal[t][u]
    /\ bal' = [bal EXCEPT ![t][u] = @ - x]
    /\ book' = HvUpdateLiquidityLimit(HvCheckpoint(u), bal, u)
    /\ ClosePeriod
    /\ UNCHANGED orderly

BurnToken(t, u, x) ==
    /\ Called
    /\ MayCheckpoint
    /\ x <= bal[t][u]
    /\ bal' = [bal EXCEPT ![t][u] = @ - x]
    /\ book' = HvUpdateLiquidityLimit(HvCheckpoint(u), bal', u)
    /\ ClosePeriod
    /\ UNCHANGED orderly

-----------------------------------------------------------------------------
\* The pool's calls.

PayIn(x) == cash + x <= MaxBalance /\ cash' = cash + x
PayOut(x) == x <= cash /\ cash' = cash - x

Supply(u, x) ==
    /\ MintToken("hToken", u, x)
    /\ PayIn(x)
    /\ UpdateAllocation(Closed, cash', TotalDebt(bal', stable))
    /\ UNCHANGED <<stable, external>>

\* Faulty: the allocation is updated before the underlying is paid out.
WithdrawAllocatedEarly(u, x) ==
    /\ BurnToken("hToken", u, x)
    /\ PayOut(x)
    /\ UpdateAllocation(Closed, cash, TotalDebt(bal, stable))
    /\ UNCHANGED <<stable, external>>

Withdraw(u, x) ==
    /\ BurnToken("hToken", u, x)
    /\ PayOut(x)
    /\ UpdateAllocation(Closed, cash', TotalDebt(bal', stable))
    /\ UNCHANGED <<stable, external>>

\* Sender and recipient are both checkpointed, then both refreshed.
Transfer(u, v, x) ==
    /\ Called
    /\ MayCheckpoint
    /\ x <= bal["hToken"][u] /\ bal["hToken"][v] + x <= MaxBalance
    /\ bal' = [bal EXCEPT !["hToken"][u] = @ - x, !["hToken"][v] = @ + x]
    /\ book' = HvUpdateLiquidityLimit(
                   HvUpdateLiquidityLimit(HvCheckpointBoth(u, v), bal', u), bal', v)
    /\ ClosePeriod
    /\ gauge' = Closed
    /\ UNCHANGED <<cash, stable, orderly, external>>

BorrowVariable(u, x) ==
    /\ MintToken("variableDebtToken", u, x)
    /\ PayOut(x)
    /\ UpdateAllocation(Closed, cash', TotalDebt(bal', stable))
    /\ UNCHANGED <<stable, external>>

RepayVariable(u, x) ==
    /\ BurnToken("variableDebtToken", u, x)
    /\ PayIn(x)
    /\ UpdateAllocation(Closed, cash', TotalDebt(bal', stable))
    /\ UNCHANGED <<stable, external>>

\* The debt is burnt first, then the hTokens; no underlying moves.
RepayWithHTokens(u, x) ==
    LET paid == [bal EXCEPT !["variableDebtToken"][u] = @ - x] IN
    /\ Called
    /\ MayCheckpoint
    /\ x <= bal["hToken"][u] /\ x <= bal["variableDebtToken"][u]
    /\ bal' = [paid EXCEPT !["hToken"][u] = @ - x]
    /\ book' = HvUpdateLiquidityLimit(
                   HvUpdateLiquidityLimit(HvCheckpoint(u), paid, u), bal', u)
    /\ ClosePeriod
    /\ UpdateAllocation(Closed, cash, TotalDebt(bal', stable))
    /\ UNCHANGED <<cash, stable, orderly, external>>

\* Stable debt changes the allocation without any checkpoint: the time since the
\* last period will be split as the new allocation says.
BorrowStable(u, x) ==
    /\ Called
    /\ PayOut(x)
    /\ stable[u] + x <= MaxBalance
    /\ stable' = [stable EXCEPT ![u] = @ + x]
    /\ UpdateAllocation(gauge, cash', TotalDebt(bal, stable'))
    /\ UNCHANGED <<bal, book, emitted, orderly, external>>

RepayStable(u, x) ==
    /\ Called
    /\ PayIn(x)
    /\ x <= stable[u]
    /\ stable' = [stable EXCEPT ![u] = @ - x]
    /\ UpdateAllocation(gauge, cash', TotalDebt(bal, stable'))
    /\ UNCHANGED <<bal, book, emitted, orderly, external>>

\* A swap of the rate mode moves the whole debt and leaves the allocation.
SwapToStable(u) ==
    /\ bal["variableDebtToken"][u] # 0
    /\ stable[u] + bal["variableDebtToken"][u] <= MaxBalance
    /\ BurnToken("variableDebtToken", u, bal["variableDebtToken"][u])
    /\ stable' = [stable EXCEPT ![u] = @ + bal["variableDebtToken"][u]]
    /\ gauge' = Closed
    /\ UNCHANGED <<cash, external>>

SwapToVariable(u) ==
    /\ stable[u] # 0
    /\ MintToken("variableDebtToken", u, stable[u])
    /\ stable' = [stable EXCEPT ![u] = 0]
    /\ gauge' = Closed
    /\ UNCHANGED <<cash, external>>

-----------------------------------------------------------------------------
\* The gauge's own entry points, open to anyone but the administrators' two.

HvCheckpointCall(u) ==
    /\ Called
    /\ MayCheckpoint
    /\ book' = HvCheckpoint(u)
    /\ ClosePeriod
    /\ gauge' = Closed
    /\ UNCHANGED <<cash, stable, bal, orderly, external>>

HvUpdateLiquidityLimitCall(u) ==
    /\ Called
    /\ book' = HvUpdateLiquidityLimit(book, bal, u)
    /\ orderly' = (orderly /\ \A t \in Token :
          book[t].integrateInvSupplyOf[u] = book[t].integrateInvSupply)
    /\ UNCHANGED <<cash, stable, bal, gauge, emitted, external>>

UserCheckpoint(u) ==
    /\ Called
    /\ MayCheckpoint
    /\ book' = HvUpdateLiquidityLimit(HvCheckpoint(u), bal, u)
    /\ ClosePeriod
    /\ gauge' = Closed
    /\ UNCHANGED <<cash, stable, bal, orderly, external>>

\* Anyone may have u's shares refreshed once his votes have changed or gone.
Kick(u) ==
    /\ votes[u].power = 0 \/ \E t \in Token : votes[u].time > book[t].integrateCheckpointOf[u]
    /\ \E t \in Token :
          book[t].workingBalances[u] > (bal[t][u] * TOKENLESS_PRODUCTION) \div 100
    /\ UserCheckpoint(u)

SetKilled(killed) ==
    /\ Called
    /\ gauge' = [gauge EXCEPT !.isKilled = killed]
    /\ UNCHANGED <<cash, stable, bal, book, emitted, orderly, external>>

\* Phases follow on one another; their lines are not looked at.
ArePhases(list) ==
    /\ Len(list) \in 4 .. 10
    /\ \A i \in DOMAIN list : list[i].end > list[i].start
    /\ \A i \in 2 .. Len(list) : list[i].start = list[i - 1].end

AddPhases(list) ==
    /\ Called
    /\ ArePhases(list)
    /\ gauge' = [gauge EXCEPT !.phases = list]
    /\ UNCHANGED <<cash, stable, bal, book, emitted, orderly, external>>

-----------------------------------------------------------------------------
\* What goes on outside: time, and votes locked or expired.

Tick ==
    /\ now < MaxTime
    /\ now' = now + 1
    /\ UNCHANGED <<cash, stable, bal, book, gauge, votes, emitted, orderly, calls>>

Vote(u, power) ==
    /\ Called
    /\ votes' = [votes EXCEPT ![u] = [power |-> power, time |-> now]]
    /\ UNCHANGED <<now, cash, stable, bal, book, gauge, emitted, orderly>>

NewBook ==
    [workingBalances |-> [u \in User |-> 0], workingSupply |-> 0,
     integrateInvSupply |-> 0, integrateInvSupplyOf |-> [u \in User |-> 0],
     integrateCheckpointOf |-> [u \in User |-> 0],
     integrateFraction |-> [u \in User |-> 0]]

\* The gauge of an empty reserve, with its phases or yet without.
Init ==
    /\ now = 0 /\ cash = 0 /\ emitted = 0 /\ orderly = TRUE /\ calls = 0
    /\ stable = [u \in User |-> 0]
    /\ bal = [t \in Token |-> [u \in User |-> 0]]
    /\ book = [t \in Token |-> NewBook]
    /\ gauge \in [periodTime : {0}, inflationRate : {Rate[0]}, futureEpochTime : {EPOCH},
                  isKilled : {FALSE}, borrowAllocation : {0},
                  phases : {<<>>} \cup {list \in PhaseLists : ArePhases(list)}]
    /\ votes = [u \in User |-> [power |-> 0, time |-> 0]]

PoolCalls ==
    \E u \in User :
        \/ \E x \in Amounts :
              \/ Supply(u, x)
              \/ Withdraw(u, x)
              \/ BorrowVariable(u, x)
              \/ RepayVariable(u, x)
              \/ RepayWithHTokens(u, x)
              \/ BorrowStable(u, x)
              \/ RepayStable(u, x)
              \/ \E v \in User \ {u} : Transfer(u, v, x)
        \/ SwapToStable(u)
        \/ SwapToVariable(u)

GaugeCalls ==
    \/ \E u \in User :
          \/ HvCheckpointCall(u)
          \/ HvUpdateLiquidityLimitCall(u)
          \/ Kick(u)
          \/ UserCheckpoint(u)
    \/ SetKilled(~gauge.isKilled)
    \/ \E list \in PhaseLists : AddPhases(list)

VoteCalls == \E u \in User : Vote(u, 1 - votes[u].power)

Next == PoolCalls \/ GaugeCalls \/ VoteCalls \/ Tick

Spec == Init /\ [][Next]_vars

-----------------------------------------------------------------------------
\* Balances and shares are never negative, and the integrals of users never run
\* ahead of their book (an underflow there would lock every transfer).
TypeOK ==
    /\ now \in 0 .. MaxTime /\ cash \in Nat /\ emitted \in Nat /\ orderly \in BOOLEAN
    /\ calls \in 0 .. MaxCalls
    /\ stable \in [User -> Nat]
    /\ bal \in [Token -> [User -> Nat]]
    /\ gauge.periodTime \in 0 .. now /\ gauge.borrowAllocation \in Nat
    /\ \A t \in Token :
          /\ book[t].workingBalances \in [User -> Nat]
          /\ book[t].workingSupply \in Nat
          /\ book[t].integrateFraction \in [User -> Nat]
          /\ \A u \in User :
                book[t].integrateInvSupplyOf[u] \in 0 .. book[t].integrateInvSupply

\* The supply rewards are divided by is the sum of the shares they go to, though
\* a book is skipped while its token is empty and shares outlive their tokens.
WorkingSupplyIsSum ==
    \A t \in Token : book[t].workingSupply = SumFunction(book[t].workingBalances)

\* Whoever's tokens change is left with a share of at most his tokens, by any
\* call; only emptying a token leaves its last holder with his share.
SharesFollowTokens ==
    [][\A t \in Token, u \in User :
          bal'[t][u] # bal[t][u] /\ TotalSupply(bal', t) # 0 =>
              book'[t].workingBalances[u] <= bal'[t][u]]_vars

\* Whatever moves cash or changes the debt leaves the allocation of the new
\* utilisation, so updateAllocation comes after every movement of the call.
AllocationIsCurrent ==
    [][cash' # cash \/ TotalDebt(bal', stable') # TotalDebt(bal, stable) =>
          gauge'.borrowAllocation
              = Allocation(cash', TotalDebt(bal', stable'), gauge'.phases)]_vars

\* What a book has credited to u or owes him, in parts of ONE.
Owed(b, u) ==
    ONE * b.integrateFraction[u]
      + b.workingBalances[u] * (b.integrateInvSupply - b.integrateInvSupplyOf[u])

\* What both books have credited or owe is never more than was emitted, however
\* the allocation moved within a period; as long as nobody joined an empty token
\* with an old integral or refreshed a share without a checkpoint (both let a
\* share earn for the time before it was held).
RewardsWithinEmission ==
    orderly =>
        SumFunction([t \in Token |-> SumFunction([u \in User |-> Owed(book[t], u)])])
            <= emitted


=============================================================================
