------------------------------ MODULE Scenario ------------------------------
(***************************************************************************)
(* The suites that run stories against a chain: test-suites/helpers,       *)
(* scenario-engine.ts, actions.ts and makeSuite.                           *)
(*                                                                         *)
(* Every step is awaited.  An action reads the chain, sends its            *)
(* transaction, which is mined in a later block, reads again and compares  *)
(* with what calculations.ts makes of the first reading; time may be made  *)
(* to pass in between.  An action that fails ends its story, and the next  *)
(* story goes on with the chain as it is.  The suite hands the chain back  *)
(* as it found it.                                                         *)
(***************************************************************************)
EXTENDS TokenizationEvents

CONSTANTS
    Opening,    \* the chains suites start from
    Amount,     \* amounts of actions, MAX_UINT_AMOUNT among them or not
    Gap,        \* seconds from one block to the next
    Travel,     \* seconds of a time travel
    APPROVAL,   \* what approve grants the pool
    MaxActions, \* bound on the actions of a suite
    Tolerance   \* the difference a comparison forgives

ASSUME ScenarioAssumption ==
    /\ Amount \subseteq Nat /\ Gap \subseteq Nat \ {0} /\ Travel \subseteq Nat \ {0}
    /\ APPROVAL \in Nat /\ MaxActions \in Nat /\ Tolerance \in Nat

VARIABLES
    chain,
    approved,   \* the pool's token allowance, per user
    snapshot,   \* what evm_revert goes back to
    phase,      \* where the action in progress is
    call,       \* the action in progress, or the last one
    before,     \* the chain its first reading is of
    txTimestamp,
    verdict,    \* how the last action ended
    actions     \* actions so far

vars == <<chain, approved, snapshot, phase, call, before, txTimestamp, verdict, actions>>

Name == {"deposit", "supplyWithPermit", "withdraw", "delegateBorrowAllowance", "borrow",
         "repay", "repayWithPermit", "setUseAsCollateral", "swapBorrowRateMode",
         "rebalanceStableBorrowRate", "transfer", "mintUnbacked", "backUnbacked"}

\* Arguments of an action: who calls, whose tokens move, for whom.
Action ==
    [name : Name, by : User, from : User, for : User, amount : Amount \cup {0},
     fee : Amount \cup {0}, mode : RateMode, use : BOOLEAN, travel : Travel \cup {0},
     expected : {"success", "revert"}]

\* An action that takes no other arguments.
Plain(name, by, for, expected) ==
    [name |-> name, by |-> by, from |-> by, for |-> for, amount |-> 0, fee |-> 0,
     mode |-> "variable", use |-> FALSE, travel |-> 0, expected |-> expected]

\* getContractsData: deposits and borrows read the wallet of the caller.
UserReading(c) ==
    getUserData(c, call.for,
                IF call.name \in {"deposit", "supplyWithPermit", "borrow"}
                THEN call.by ELSE call.for)

Accessory == {"lastUpdateTimestamp", "totalStableDebtLastUpdated"}

almostEqualOrEqual(actual, expected) ==
    \A key \in DOMAIN actual \ Accessory :
        IF key = "usageAsCollateralEnabled" THEN actual[key] = expected[key]
        ELSE actual[key] - expected[key] \in -Tolerance .. Tolerance

-----------------------------------------------------------------------------
(* The steps of an action.                                                 *)

getDataBeforeAction(action) ==
    /\ phase = "idle" /\ actions < MaxActions
    /\ actions' = actions + 1
    /\ call' = action
    /\ before' = chain
    /\ phase' = "read"
    /\ verdict' = "none"
    /\ UNCHANGED <<chain, approved, snapshot, txTimestamp>>

Expected == {"success", "revert"}

Ends(how) == phase' = "idle" /\ verdict' = how

\* The call is refused: nothing is mined.
Refused ==
    /\ Ends(IF call.expected = "revert" THEN "passed" ELSE "refused")
    /\ UNCHANGED <<chain, approved, txTimestamp>>

\* The call is mined; a story that expected a revert fails.
Mined(outcome, allowances) ==
    /\ chain' = outcome
    /\ approved' = allowances
    /\ txTimestamp' = outcome.now
    /\ IF call.expected = "success" THEN phase' = "mined" /\ UNCHANGED verdict
       ELSE Ends("accepted")

\* Faulty variant: the allowance is not asked.
PayableAnyway(outcomes, block, allowance) == outcomes

\* What the caller pays comes out of the allowance, which a permit sets first.
Payable(outcomes, block, allowance) ==
    {c \in outcomes : block.wallet[call.by] - c.wallet[call.by] <= allowance}

Sends(name, outcomes(_), allowance) ==
    /\ phase = "read" /\ call.name = name
    /\ \E dt \in Gap : \E block \in Tick(chain, dt) :
         LET payable == Payable(outcomes(block), block, allowance) IN
         \/ payable = {} /\ Refused
         \/ \E c \in payable :
              LET paid == block.wallet[call.by] - c.wallet[call.by] IN
              Mined(c, [approved EXCEPT ![call.by] = IF paid < 0 THEN @ ELSE allowance - paid])
    /\ UNCHANGED <<snapshot, call, before, actions>>

\* advanceTimeAndBlock
Travels(name, at) ==
    /\ phase = at /\ call.name = name /\ call.travel # 0
    /\ chain' \in Tick(chain, call.travel)
    /\ call' = [call EXCEPT !.travel = 0]
    /\ UNCHANGED <<approved, snapshot, phase, before, txTimestamp, verdict, actions>>

\* The first comparison that fails is the verdict.
Verdict(reserve, user, allowance) ==
    IF ~almostEqualOrEqual(getReserveData(chain), reserve) THEN "reserve"
    ELSE IF ~almostEqualOrEqual(UserReading(chain), user) THEN "user"
    ELSE IF ~allowance THEN "allowance" ELSE "passed"

\* What the user should have depends on what the reserve should look like.
Compares(name, reserve, user(_), allowance) ==
    /\ phase = "mined" /\ call.name = name /\ call.travel = 0
    /\ Ends(Verdict(reserve, user(reserve), allowance))
    /\ UNCHANGED <<chain, approved, snapshot, call, before, txTimestamp, actions>>

\* The readings the expectations start from.
R == getReserveData(before)
U == UserReading(before)

-----------------------------------------------------------------------------
(* The actions of the stories, as executeAction dispatches them.           *)

Setup(by, wallet, allowance) ==
    /\ phase = "idle" /\ actions < MaxActions
    /\ actions' = actions + 1
    /\ \E dt \in Gap : \E block \in Tick(chain, dt) :
         chain' = [block EXCEPT !.wallet[by] = wallet]
    /\ approved' = [approved EXCEPT ![by] = allowance]
    /\ verdict' = "passed"
    /\ UNCHANGED <<snapshot, phase, call, before, txTimestamp>>

mint == \E by \in User, a \in Amount \ {MAX_UINT_AMOUNT} :
            Setup(by, chain.wallet[by] + a, approved[by])

approve == \E by \in User : Setup(by, chain.wallet[by], APPROVAL)

AfterDeposit(name) ==
    Compares(name, calcExpectedReserveDataAfterDeposit(call.amount, R, txTimestamp),
             LAMBDA e : calcExpectedUserDataAfterDeposit(call.amount, R, e, U, txTimestamp), TRUE)

deposit ==
    \/ \E by, for \in User, a \in Amount \ {MAX_UINT_AMOUNT}, expected \in Expected :
          getDataBeforeAction([Plain("deposit", by, for, expected) EXCEPT !.amount = a])
    \/ Sends("deposit", LAMBDA c : Supply(c, call.by, call.for, call.amount), approved[call.by])
    \/ AfterDeposit("deposit")

supplyWithPermit ==
    \/ \E by, for \in User, a \in Amount \ {MAX_UINT_AMOUNT}, expected \in Expected :
          getDataBeforeAction([Plain("supplyWithPermit", by, for, expected)
                                  EXCEPT !.amount = a])
    \/ Sends("supplyWithPermit", LAMBDA c : Supply(c, call.by, call.for, call.amount),
             call.amount)
    \/ AfterDeposit("supplyWithPermit")

withdraw ==
    \/ \E by \in User, a \in Amount, expected \in Expected :
          getDataBeforeAction([Plain("withdraw", by, by, expected) EXCEPT !.amount = a])
    \/ Sends("withdraw", LAMBDA c : Withdraw(c, call.by, call.amount), approved[call.by])
    \/ Compares("withdraw",
                calcExpectedReserveDataAfterWithdraw(call.amount, R, U, txTimestamp),
                LAMBDA e : calcExpectedUserDataAfterWithdraw(call.amount, R, e, U, txTimestamp),
                TRUE)

\* The debt token is asked for the allowance it now has.
delegateBorrowAllowance ==
    \/ \E by, to \in User, a \in Amount, mode \in RateMode :
          /\ by # to
          /\ getDataBeforeAction([Plain("delegateBorrowAllowance", by, to, "success")
                                    EXCEPT !.amount = a, !.mode = mode])
    \/ Sends("delegateBorrowAllowance",
             LAMBDA c : ApproveDelegation(c, call.by, call.for, call.mode, call.amount),
             approved[call.by])
    \/ Compares("delegateBorrowAllowance", getReserveData(chain), LAMBDA e : UserReading(chain),
                chain.allowance[call.mode][call.by][call.for] = call.amount)

borrow ==
    \/ \E by, for \in User, a \in Amount, mode \in RateMode, travel \in Travel \cup {0},
          expected \in Expected :
          getDataBeforeAction([Plain("borrow", by, for, expected)
                                 EXCEPT !.amount = a, !.mode = mode, !.travel = travel])
    \/ Sends("borrow", LAMBDA c : Borrow(c, call.by, call.for, call.amount, call.mode),
             approved[call.by])
    \/ Travels("borrow", "mined")
    \/ LET Allowance(c) == c.allowance[call.mode][call.for][call.by]
       IN Compares("borrow",
                   calcExpectedReserveDataAfterBorrow(call.amount, call.mode, R,
                                                      txTimestamp, chain.now),
                   LAMBDA e : calcExpectedUserDataAfterBorrow(call.amount, call.mode, R, e, U,
                                                              txTimestamp, chain.now),
                   call.by # call.for => Allowance(chain) = Allowance(before) - call.amount)

AfterRepay(name) ==
    Compares(name, calcExpectedReserveDataAfterRepay(call.amount, call.mode, R, U, txTimestamp),
             LAMBDA e : calcExpectedUserDataAfterRepay(call.amount, call.mode, R, e, U,
                                                       call.by = call.for, txTimestamp, chain.now),
             TRUE)

repay ==
    \/ \E by, for \in User, a \in Amount, mode \in RateMode, travel \in Travel \cup {0},
          expected \in Expected :
          getDataBeforeAction([Plain("repay", by, for, expected)
                                 EXCEPT !.amount = a, !.mode = mode, !.travel = travel])
    \/ Travels("repay", "read")
    \/ /\ call.travel = 0
       /\ Sends("repay", LAMBDA c : Repay(c, call.by, call.for, call.amount, call.mode, FALSE),
                approved[call.by])
    \/ AfterRepay("repay")

repayWithPermit ==
    \/ \E by, for \in User, a \in Amount, mode \in RateMode, expected \in Expected :
          getDataBeforeAction([Plain("repayWithPermit", by, for, expected)
                                 EXCEPT !.amount = a, !.mode = mode])
    \/ Sends("repayWithPermit",
             LAMBDA c : Repay(c, call.by, call.for, call.amount, call.mode, FALSE),
             call.amount)
    \/ AfterRepay("repayWithPermit")

\* Only the user's data are compared.
setUseAsCollateral ==
    \/ \E by \in User, use \in BOOLEAN, expected \in Expected :
          getDataBeforeAction([Plain("setUseAsCollateral", by, by, expected)
                                 EXCEPT !.use = use])
    \/ Sends("setUseAsCollateral", LAMBDA c : SetUseReserveAsCollateral(c, call.by, call.use),
             approved[call.by])
    \/ Compares("setUseAsCollateral", getReserveData(chain),
                LAMBDA e : calcExpectedUserDataAfterSetUseAsCollateral(call.use, U), TRUE)

swapBorrowRateMode ==
    \/ \E by \in User, mode \in RateMode, expected \in Expected :
          getDataBeforeAction([Plain("swapBorrowRateMode", by, by, expected)
                                 EXCEPT !.mode = mode])
    \/ Sends("swapBorrowRateMode", LAMBDA c : SwapBorrowRateMode(c, call.by, call.mode),
             approved[call.by])
    \/ Compares("swapBorrowRateMode",
                calcExpectedReserveDataAfterSwapRateMode(R, U, call.mode, txTimestamp),
                LAMBDA e : calcExpectedUserDataAfterSwapRateMode(R, e, U, call.mode, txTimestamp),
                TRUE)

rebalanceStableBorrowRate ==
    \/ \E by, target \in User, expected \in Expected :
          getDataBeforeAction(Plain("rebalanceStableBorrowRate", by, target, expected))
    \/ Sends("rebalanceStableBorrowRate", LAMBDA c : RebalanceStableBorrowRate(c, call.for),
             approved[call.by])
    \/ Compares("rebalanceStableBorrowRate",
                calcExpectedReserveDataAfterStableRateRebalance(R, U, txTimestamp),
                LAMBDA e : calcExpectedUserDataAfterStableRateRebalance(R, e, U, txTimestamp),
                TRUE)

\* transfer and transferFrom of tokenization-events.ts: only events are matched.
transfer ==
    \/ \E by, from, to \in User, a \in Amount \ {MAX_UINT_AMOUNT} :
          getDataBeforeAction([Plain("transfer", by, to, "success")
                                 EXCEPT !.from = from, !.amount = a])
    \/ Sends("transfer", LAMBDA c : Transfer(c, call.by, call.from, call.for, call.amount),
             approved[call.by])
    \/ Compares("transfer", getReserveData(chain), LAMBDA e : UserReading(chain), TRUE)

\* bridge-logic.spec.ts: only the reserve is compared, and a bridge pays with
\* tokens minted for the occasion.
mintUnbacked ==
    \/ \E for \in User, a \in Amount \ {MAX_UINT_AMOUNT}, expected \in Expected :
          getDataBeforeAction([Plain("mintUnbacked", for, for, expected) EXCEPT !.amount = a])
    \/ Sends("mintUnbacked", LAMBDA c : MintUnbacked(c, call.for, call.amount),
             approved[call.by])
    \/ Compares("mintUnbacked",
                calcExpectedReserveDataAfterMintUnbacked(call.amount, R, txTimestamp),
                LAMBDA e : UserReading(chain), TRUE)

backUnbacked ==
    \/ \E a, fee \in (Amount \ {MAX_UINT_AMOUNT}) \cup {0} :
          getDataBeforeAction([Plain("backUnbacked", call.by, call.by, "success")
                                 EXCEPT !.amount = a, !.fee = fee])
    \/ Sends("backUnbacked", LAMBDA c : BackUnbacked(c, call.amount, call.fee),
             approved[call.by])
    \/ Compares("backUnbacked",
                calcExpectedReserveDataAfterBackUnbacked(before.h.total, call.amount, call.fee,
                                                         R, txTimestamp),
                LAMBDA e : UserReading(chain), TRUE)

\* Faulty variant: the chain is left as the stories made it.
LeaveHead ==
    /\ phase = "idle"
    /\ phase' = "over"
    /\ verdict' = "none"
    /\ UNCHANGED <<chain, approved, snapshot, call, before, txTimestamp, actions>>

\* The end of the suite.
revertHead ==
    /\ phase = "idle"
    /\ chain' = snapshot.chain
    /\ approved' = snapshot.approved
    /\ phase' = "over"
    /\ verdict' = "none"
    /\ UNCHANGED <<snapshot, call, before, txTimestamp, actions>>

-----------------------------------------------------------------------------
Nothing == Plain("transfer", CHOOSE u \in User : TRUE, CHOOSE u \in User : TRUE, "success")

\* The start of the first suite.
Init ==
    /\ chain \in Opening
    /\ approved = [u \in User |-> APPROVAL]
    /\ snapshot = [chain |-> chain, approved |-> approved]
    /\ phase = "idle"
    /\ call = Nothing
    /\ before = chain
    /\ txTimestamp = chain.now
    /\ verdict = "none"
    /\ actions = 0

\* The start of another, on the chain the last one left.
setSnapshot ==
    /\ phase = "over"
    /\ snapshot' = [chain |-> chain, approved |-> approved]
    /\ phase' = "idle"
    /\ call' = Nothing
    /\ before' = chain
    /\ txTimestamp' = chain.now
    /\ verdict' = "none"
    /\ actions' = 0
    /\ UNCHANGED <<chain, approved>>

executeAction ==
    \/ mint \/ approve \/ deposit \/ supplyWithPermit \/ withdraw
    \/ delegateBorrowAllowance \/ borrow \/ repay \/ repayWithPermit
    \/ setUseAsCollateral \/ swapBorrowRateMode \/ rebalanceStableBorrowRate
    \/ transfer \/ mintUnbacked \/ backUnbacked

Next == executeAction \/ revertHead \/ setSnapshot

Phase == {"idle", "read", "mined", "over"}

\* Whatever is awaited settles, and the runner goes on until the suite is over.
\* In every phase but "over" some step of Next changes the phase: revertHead when
\* idle; the transaction, sent or refused, when read; the comparison or the wait
\* before it when mined.  So this asks no more than weak fairness of those steps.
Settles == phase # "over" /\ phase' \in Phase \ {phase}

Spec == Init /\ [][Next]_vars /\ WF_phase(Settles)

-----------------------------------------------------------------------------
\* Every variable has its type; a payment never exceeds the allowance of the pool,
\* which a permit replaces.
TypeOK ==
    /\ approved \in [User -> Nat]
    /\ phase \in Phase
    /\ call \in Action
    /\ verdict \in {"none", "passed", "refused", "accepted", "reserve", "user", "allowance"}
    /\ actions \in 0 .. MaxActions

-----------------------------------------------------------------------------
(* Where the expectations are known to fall short of the contracts.        *)

OwedAtTransaction(u, mode) == Debt([before EXCEPT !.now = txTimestamp], u, mode)

\* calculations.ts:532, a TODO: an amount beyond the debt is not capped.
Overpays ==
    /\ call.name \in {"repay", "repayWithPermit"} /\ call.amount # MAX_UINT_AMOUNT
    /\ call.amount > OwedAtTransaction(call.for, call.mode)

\* The last stable debt leaves a rest that the token erases.
ErasesTotal == before.s.supply # 0 /\ chain.s.supply = 0

\* A variable debt joins a stable total that is read without its interest.
JoinsStableDebt ==
    call.name = "swapBorrowRateMode" /\ call.mode = "variable" /\ before.s.supply # 0

HasDebt(u) == before.s.principal[u] # 0 \/ before.v.scaled[u] # 0

\* What is expected of a user holds for one debt at a time: depositors without
\* debt, the only borrower of a mode, a balance that does not grow.
OutOfReach ==
    CASE call.name \in {"deposit", "supplyWithPermit"} -> HasDebt(call.for)
      [] call.name = "borrow" -> /\ call.mode = "variable"
                                 /\ before.v.total # before.v.scaled[call.for]
      [] call.name \in {"repay", "repayWithPermit"} ->
            call.mode = "variable" /\ before.s.principal[call.for] # 0
      [] call.name = "swapBorrowRateMode" ->
            call.mode = "variable" /\ before.s.principal[call.for] # 0
      [] call.name = "setUseAsCollateral" -> before.liquidityRate # 0 \/ HasDebt(call.for)
      [] call.name = "rebalanceStableBorrowRate" ->
            before.s.supply # before.s.principal[call.for]
      [] OTHER -> FALSE

\* Two implementations of the accounting, in Solidity and in the suites, agree
\* on the reserve after every call, except in the three cases named above.
ReserveAsExpected ==
    verdict = "reserve" => Overpays \/ ErasesTotal \/ JoinsStableDebt

\* They agree on the user as well, and on the allowance a loan uses up.
UserAsExpected ==
    /\ verdict = "user" => OutOfReach
    /\ verdict # "allowance"

ExpectedEvents ==
    CASE call.name \in {"deposit", "supplyWithPermit"} ->
            supplyEvents(before, chain, call.by, call.for, call.amount)
      [] call.name = "withdraw" ->
            withdrawEvents(before, chain, call.by, call.for, call.amount)
      [] call.name = "transfer" ->
            transferEvents(before, chain, call.by, call.from, call.for, call.amount)
      [] call.name = "borrow" ->
            IF call.mode = "stable"
            THEN stableBorrowEvents(before, chain, call.by, call.for, call.amount)
            ELSE variableBorrowEvents(before, chain, call.by, call.for, call.amount)
      [] call.name \in {"repay", "repayWithPermit"} ->
            IF call.mode = "stable"
            THEN repayStableBorrowEvents(before, chain, call.by, call.for, call.amount)
            ELSE repayVariableBorrowEvents(before, chain, call.by, call.for, call.amount)
      [] OTHER -> {}

\* The events suites derive from indexes and balances around a call are the
\* ones it emitted, to the last argument.
EventsAsExpected ==
    (phase = "mined" /\ chain.now = txTimestamp /\ call.amount # MAX_UINT_AMOUNT)
        => ExpectedEvents \subseteq chain.log \/ Overpays \/ ErasesTotal

\* A suite comes to its end whatever fails on the way, and hands back the
\* chain it found (makeSuite's before and after).
SuiteEnds ==
    /\ [](phase = "over" => chain = snapshot.chain /\ approved = snapshot.approved)
    /\ phase # "over" ~> phase = "over"

=============================================================================
