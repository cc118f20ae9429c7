# A TLA+ model of the HopeLend core

HopeLend is a pool of lending reserves: suppliers hold interest-bearing hTokens, borrowers hold
debt tokens, and a pool contract decides, from balances, flags, prices and configuration, who may
withdraw, borrow, or be liquidated. These modules model the logic of that decision and of the state
changes that follow it, the books of a reserve over time, the registry of reserves, the gauge that splits rewards, and
the test suites' own second implementation of the accounting. TLC checks them on small instances, and TLAPS proves
the invariants every other rule depends on for all values of the constants.

Everything in the contracts is a transaction: a call either completes or reverts and changes
nothing. An action of the model is a call that completes; its guards are the `require`s and checked
subtractions on the way. What makes the system hard is not threads but *sequences*: calls of several
users on several reserves, interleaved with time (indexes grow and every balance is rounded) and with
the price oracle. The one real interleaving is the flash loan, whose receiver may call anything between payout and repayment.
The test side is asynchronous: each step of a story is awaited, blocks are mined and time passes in between.

## 1. Inventory

| Component | State | Operations | Interacts with | Hard part | What must hold |
|---|---|---|---|---|---|
| Fixed-point math (`libraries/math`) | none | `wadDiv`, `rayMul`, `rayDiv`, `percentMul`, `percentDiv`, interest formulas | everything | half-up rounding in both directions | scaling and unscaling a whole balance loses nothing |
| Reserve accounting (`ReserveLogic`, rate strategy, `MathUtils`) | indexes, rates, timestamps, `accruedToTreasury` | `updateState`, `updateInterestRates`, `cumulateToLiquidityIndex` | tokens, every handler | linear income against compounded debt, the treasury share | claims never outgrow debts and cash by more than roundings |
| hTokens and debt tokens (`tokenization`) | scaled balances, stable principals and rates, allowances, nonces | `mint`, `burn`, `transfer`, `mintToTreasury`, permit, delegation | pool, gauge | a transfer calls back `finalizeTransfer`; stable totals are approximations | no underflow, supply = sum of balances, signatures used once |
| Supply side (`SupplyLogic`) | collateral bits | `supply`, `withdraw`, `finalizeTransfer`, `setUserUseReserveAsCollateral` | tokens, validation | who becomes collateral, and when the bit is cleared | isolated collateral stands alone; health is kept |
| Debt side (`BorrowLogic`) | borrowing bits | `borrow`, `repay`, `repayWithHTokens`, `swapBorrowRateMode`, `rebalanceStableBorrowRate` | tokens, isolation, validation | one bit for two debt tokens, rounding | a debt is never without its bit |
| Liquidation (`LiquidationLogic`) | - | `liquidationCall` | tokens, flags, isolation, oracle | six roundings, two close factors, protocol fee, order of flag updates | fair quote, always available, keeps other invariants |
| Isolation mode (`IsolationModeLogic`) | `isolationModeTotalDebt` | update on borrow, repay, liquidation; reset | configuration | a saturating counter, isolation read from bits that just changed | the counter follows the exposure |
| eMode (`EModeLogic`) | category of each user | `setUserEMode` | oracle, validation, configurator | prices and thresholds change with the category | debts stay in the category; no self-inflicted liquidation |
| Configuration (`PoolConfigurator`, `ReserveConfiguration`) | bit maps | setters of the administrators | every validation | sequences of setters, positions that already exist | ltv <= threshold, eMode above the assets in it |
| Reserve registry (`PoolLogic`) | `_reservesList`, ids | `initReserve`, `dropReserve` | user bits | ids are reused while bits may linger | one id per asset, at most 128 |
| Flash loans (`FlashLoanLogic`) | - | `flashLoan`, `flashLoanSimple` | receiver callback, borrow | reentrancy between payout and repayment | premium accounted, no stale reserve data |
| Bridge (`BridgeLogic`) | `unbacked` | `mintUnbacked`, `backUnbacked` | reserve | unbacked claims | cap, and backing at most what is unbacked |
| Treasury and vault (`PoolLogic`, `HToken`) | `accruedToTreasury` | `mintToTreasury` | hToken cash | pays underlying out of the reserve | treasury gets what accrued, once |
| Lending gauge (`gauge/`) | working balances, reward integrals, `borrowAllocation`, phases | checkpoints, `updateAllocation`, `kick` | hToken, debt token, LT emission | checkpoints before balances change, empty supplies | rewards proportional to working balances |
| Oracle and sentinel | sources, grace period | `getAssetPrice`, `isBorrowAllowed`, `isLiquidationAllowed` | validation | outage and grace, a feed that reports late or twice | in grace no new debt, and no liquidation but of positions below 0.95 |
| Governance (`ACLManager`, address providers, registry, proxies) | roles, addresses, ids | setters, initialisers | all | ids and initialisation used once | administrators only |
| Test accounting (`test-suites/helpers/utils`) | none | `calcExpected...`, `wadraymath`, expected events | what the data provider shows | a second implementation, on readings of another time | agrees with the contracts |
| Test stories (`scenario-engine.ts`, `actions.ts`, `make-suite.ts`) | the chain, allowances, a snapshot | the actions of a story, `setSnapshot`, `revertHead` | all of the above | readings before and after, failed stories | a suite ends and restores the chain |
| L2 encoding, data provider, types, mocks, vendored code | none | packing and views | - | - | - |

## 2. What is modelled

| Module | Models | State |
|---|---|---|
| `WadRay` | the fixed-point products of `WadRayMath.sol` and `PercentageMath.sol`, with the scales as constants | none |
| `Positions` | the shared state and the views on it: balances of `HToken`, `VariableDebtToken`, `StableDebtToken`, the bits of `UserConfiguration`, the account data of `GenericLogic`, isolation and siloed state, eMode pricing | all variables |
| `LendPool` | the entry points of `Pool.sol` with `SupplyLogic`, `BorrowLogic`, `LiquidationLogic`, `EModeLogic`, `IsolationModeLogic` and their validations, as actions; time and prices as environment | - |
| `Configurator` | the setters of `PoolConfigurator.sol`, as actions between the calls of `LendPool` (`GovernedSpec`) | - |
| `Sentinel` | `PriceOracleSentinel.sol` in front of the borrowings and liquidations of `Configurator`; outages, the sequencer feed and time as environment | whether a sentinel is set, the grace period, what the feed reports, what the sequencer really does |
| `Interest` | `MathUtils.sol` and `DefaultReserveInterestRateStrategy.sol` | none |
| `Reserve` | `ReserveLogic.sol`, the three tokens and every handler that moves a reserve's money, as operators from a `chain` and arguments to the set of outcomes | none |
| `Accounting` | any calls at any times on one reserve, a flash loan's receiver included | `chain`: what the contracts store; `steps` |
| `ReserveRegistry` | `initReserve`, `dropReserve`, and the calls that set the bits kept by id | the list, ids, count, bits, balances |
| `Listing` | the abstract registry: listed assets have distinct ids | `idOf` |
| `LendingGauge` | `LendingGauge.sol`, `AbsGauge.sol` and the hooks of the two rewarded tokens | balances, both books, the gauge, votes |
| `WadRayTs` | `wadraymath.ts`: the same products on signed integers | none |
| `Calculations` | `calculations.ts`: what the suites expect after each call | none |
| `TokenizationEvents` | `tokenization-events.ts`: the events they expect | none |
| `Scenario` | `actions.ts`, `scenario-engine.ts`, `make-suite.ts`: stories against `Reserve` | the chain, allowances, snapshot, the action in progress |
| `MCLendPool`, `MCConfigurator`, `MCSentinel`, `MCAccounting`, `MCScenario`, `MCReserveRegistry`, `MCLendingGauge` | the instances TLC checks | - |
| `Sums` | lemmas about sums over finite sets, of the community module's folds | - |
| `WadRayProofs`, `LendPoolProofs`, `PoolSafetyProofs`, `GovernanceProofs`, `ReserveRegistryProofs`, `LendingGaugeProofs`, `AccountingProofs` | proofs | - |

`LendPool` EXTENDS `Positions` EXTENDS `WadRay`; `Configurator` EXTENDS `LendPool` and adds actions, no state;
`Sentinel` EXTENDS `Configurator`, adds its own state and strengthens the guards of two of its calls.
`Interest` EXTENDS `WadRay`; `Reserve` EXTENDS `Interest`; `Accounting` and `Calculations` EXTEND `Reserve`;
`Scenario` EXTENDS `TokenizationEvents` EXTENDS `Calculations`, so the stories run against the same handlers `Accounting` checks.
`ReserveRegistry` and `LendingGauge` stand alone, and `ReserveRegistry` implements `Listing` (`KeepsListing`).

Correspondence of the state: `hBal` and `vBal` are the *scaled* balances the tokens store; `sBal` is the
stable debt with its interest (what `StableDebtToken.balanceOf` returns); `li` and `vi` are the
*normalized* indexes, which every handler computes with after `updateState`; `coll` and `bor` are the two
bits of each reserve in `UserConfigurationMap`, as sets; `cash` is the underlying an hToken holds; `isoDebt`
is `isolationModeTotalDebt`; `config`, `eModes` and `price` are the reserve configuration, the categories
and the oracle.

Each action is a whole handler, including the callback of an hToken transfer into
`finalizeTransfer` and the flag, isolation and fee handling at the end of a liquidation.
`rebalanceStableBorrowRate` changes only rates and is a stutter in `LendPool`. The pool's calls of the gauge
(`updateAllocation`) and the incentive hooks of the tokens do not touch this state.

Abstractions of this core, all of them named in the head of `LendPool`: users hold as much underlying as they
need, calls are made by the account they concern, reserve factors are 0, the sentinel is left to `Sentinel`, and an index
grows by any factor of a set instead of what the rate strategy yields (`Accrue`). The
configurations are fixed under `Spec` and satisfy what the configurator's setters require (`SoundConfig`); under `GovernedSpec`
administrators change them between any two calls, and that they stay sound is a property. `Configurator` leaves out the
setters of what `LendPool` does not read, the roles of the callers and the widths of the bit fields.

*The sentinel.* `isBorrowAllowed` and `isLiquidationAllowed` are the same test, `IsUpAndGracePeriodPassed`. A borrowing needs it; a liquidation needs it
unless the position is below 0.95. The sentinel knows the sequencer only from a feed: it reports an outage at once, still with the
timestamp of the recovery before (as the tests set it), and a recovery any time later, any number of times, with any timestamp since the recovery. `up` and `upFor` are the
truth the feed reports on, which no contract reads. Calls go on during an outage, forced through layer 1. Times are ages, which stop growing at `MaxAge`.
`setSequencerOracle`, which replaces the feed, is left out.

*The books of a reserve.* `Reserve` is the complement of `LendPool`: interest, rates, stable debt, treasury, vault, bridge and events are
exact, while health, caps, pauses and flags of other reserves are left to `LendPool`. A `chain` is a record of what is stored: both indexes,
the three rates, `accruedToTreasury`, `unbacked`, the cash, the scaled balances with the index of each account's last operation, the stable
principals with rates and stamps, delegated credit, and the log of events of the last call. A flash loan is two actions, so every call of the receiver
comes between them, further flash loans included: of those that are out only the sum is kept, in `flash`, and a repayment returns any of the amounts lent or all of it.

*The registry.* Bits are kept by id. `ReserveRegistry` has the debts with the rounding of the code: a variable one is scaled and read at an index that grows, a stable one is its balance
with interest, and `repay` burns `rayDiv(amount, index)` but clears the bit by the rounded debts (`Repay`). hTokens are scaled units without an index, so whether burning
the last of them clears the collateral bit is any choice, as is whether a first use of collateral is admitted. It models the reuse of holes in the list,
and `repayWithHTokens`, which leaves a collateral bit behind. Dropping forgets tokens and index, as the next listing deploys new ones.

*The stable total.* `StableDebtToken` keeps its total supply apart from the balances, and may fall behind them or erase it (`StableDebtToken.sol:197`). The borrow cap, the siloed setter, `validateDropReserve` and the rates read it. `Reserve` has the total as stored; `LendPool`, `Configurator` and `ReserveRegistry` let it be
any number within `StableLag` of the sum of the balances (`StableSupplies`, `Unclaimed`).

*The gauge.* `hvCheckpoint` before and `hvUpdateLiquidityLimit` after every mint, burn and transfer of an hToken or variable debt token
(`MintToken`, `BurnToken`, `Transfer`), `updateAllocation` at the end of pool calls. The reserve bears no interest here: tokens and debts are amounts.
Weeks end and the rate of the reward token changes between checkpoints; the loop over weeks is a sum over the weeks.
Each book is skipped while its token is empty, as in the code. Liquidations, flash loans and bridges go through the same mints and burns and are left out.

*The stories.* An action is two or more steps: the first reading (`getDataBeforeAction`), time travel, the transaction in a later block, time travel
again, and the second reading with the comparison. It may be refused, and a story may have expected that. What fails ends
the action with a `verdict` that names the first comparison to fail, and the next story finds the chain as it is. `revertHead` restores
the snapshot. `Tolerance` is the difference `almostEqualOrEqual` forgives (3 units at the real scales of 10^18 and 10^27; with the small
scales of the instance one rounding weighs more, so it is 6).

## 3. What TLC checks

| Run | Instance | Question | Result |
|---|---|---|---|
| `rounding` | 1 user and the treasury, 2 reserves, indexes 1, 1.75 and 3, both rate modes; the borrowed reserve is switched off and on | `TypeOK`, `DebtIsFlagged`, `InactiveStandsStill`: can rounding underflow a balance, or leave a debt whose bit is cleared, and what may happen to debts left in a reserve that is switched off? | hold |
| `market` | 2 users, a collateral priced 20, 12 or 7, another with a threshold of 10%, protocol fee 50% of the bonus | `QuoteIsFair`, `Conservation`, `UnhealthyIsLiquidatable`, `CallsKeepHealth` | hold |
| `modes` | 2 users; in one configuration an isolated and siloed reserve priced 10, 3 or 20 and a plain one lending 70%, in another a category with its own price source at 10, 5 or 18 | `IsolatedIsAlone`, `SiloedIsAlone`, `EModeDebtInCategory` | hold |
| `reserves` | 2 users, a collateral priced 20 or 12; ceilings, siloed and stable borrowing, activity, pauses and freezes of reserves are switched under open positions | `SiloedOwedAlone`, `CeilingStartsAtZero`, `PausedStandsStill`, `FrozenOnlyShrinks` | hold |
| `categories` | 2 users; collateral settings, a category and its members change | `SoundConfiguration`, `UsersKeepHealth` | hold |
| `sentinel` | 2 users, a collateral priced 100, 60 or 57 (health 0.96 and 0.91); outages at any time, grace periods of 0 and 1 that may be changed, caps and fees change too | `OutageSparesPositions`, `DeepDebtsStayLiquidatable` | hold |
| `accounting` | 2 users and the treasury, from a reserve with deposits and a variable debt, one with both kinds of debt and one with unbacked hTokens; blocks a quarter of a year apart, 3 calls or blocks | `TypeOK`, `Solvent`, `TotalsAreSums`, `IndexesNeverFall`, `RatesAreCurrent`, `EventsTellBalances`, `CallsKeepSurplus` | hold |
| `story` | 2 users, stories of 2 actions from chains with and without debts | `TypeOK`, `ReserveAsExpected`, `UserAsExpected`, `EventsAsExpected`; `SuiteEnds` under fairness | hold |
| `registry` | 3 assets, 2 slots, 2 users, debts in both modes, indexes 1 and 1.5 | `TypeOK`, `AlwaysRoom`, `DebtsHaveBits`, `BitsAreWalked`; `KeepsListing` (refinement) | hold |
| `gauge` | 2 users, 3 units of time, weeks of 2 and epochs of 1, 5 calls | `TypeOK`, `WorkingSupplyIsSum`, `RewardsWithinEmission`, `SharesFollowTokens`, `AllocationIsCurrent` | hold |
| `ceiling` | the isolation configuration of `modes`, balances up to 3 | `BorrowWithinCeiling`, what a comment of `validateBorrow` says | violated |
| `emode_entry` | the eMode configuration of `modes`, balances up to 3 | `EModeEntryKeepsHealth`, what the comment of `executeSetUserEMode` says | violated |

Bounds. `MaxBalance` (3, or 2 in `modes`, `categories`, `reserves` and `sentinel`) bounds the scaled supply of a reserve and a stable debt,
`MaxCash` the underlying, `MaxIndex` an index (3 RAY in `rounding`). Calls use the amounts 1, 2 and the caller's whole balance or debt, which is what
`type(uint256).max` means in the code. `rounding` has a RAY of 4 and the growth factors 1 and 1.75, so that products round
up (1 * 1.75 = 2), down (3 * 1.75 = 5) and not at all; debts then outgrow claims, and TLC reaches reserves switched off with debts in them (with indexes of 1.75 for debts and 1 for claims, after a repayment in hTokens). In the other runs of `LendPool` indexes stay at 1 and RAY is only a scale.
Percentages are in tenths, so a close factor of 50%, a bonus of 20% and a fee of 50% are exact constants while their products
round. Prices put an account in each health zone (healthy, between 0.95 and 1, below
0.95) and let it recover. Two users make a borrower and a liquidator, or a sender and a recipient; the
liquidator may be the borrower himself. Symmetry between users is sound: nothing distinguishes them
(no run with symmetry checks liveness).

What a reader may not expect: `CallsKeepHealth` and `UsersKeepHealth` grant three things, and nothing else (`StaysHealthy`).

- An account that was *given* collateral may miss health by the truncation of its average threshold (`NearlyHealthy`). The average is truncated to a unit
  of PERCENTAGE_FACTOR (`GenericLogic.sol:179`), so adding collateral with a lower threshold, which anybody may do by a transfer, can lower a health factor
  by up to 0.01% of the collateral, and from exactly 1 to below it. The `market` instance has such a collateral, and the property fails there without the allowance.
- An account whose own debt in a reserve moved may miss it by what the roundings of the call are worth at the reserve's price (`RoundingWorth`, from `Drift`:
  nothing at an index of one RAY, else half a scaled unit and a rounding), and by the half unit the health factor itself is rounded up by.
- Entering eMode from category 0 is followed by no health check; that is the run `emode_entry`.

Only `rounding` has interest, and its prices are fixed: the properties that mix both (`QuoteIsFair`, `CallsKeepHealth`) are stated on balances, and rounding of balances alone is the question of
`rounding`; `CallsAlwaysKeepHealth` and `QuotesAlwaysFair` (section 4) cover the two together. With interest, `Conservation` only holds up to roundings and to the split between income and debt,
which is what `Solvent` says of `Accounting` over time, and `CallsKeepSurplus` of each call: `Surplus` is what the reserve is worth (cash, what is out on a flash loan or owed by
bridges, and every debt at this moment) less what suppliers and the treasury could redeem, brought to the present first, and `CallSlack` one rounding of each
scaled token and of a premium's share. Only the passing of time may move the surplus by more.

The bounds of the other runs. `sentinel`: with `GracePeriods` of 0 and 1 and a `MaxAge` of 2 every age is one of just now, within the grace and beyond it; one
debt against one collateral is enough, since the gates look at one borrower at a time. `accounting`: `MaxSteps` calls and blocks from openings that are states the handlers reach
(deposits, a stable and a variable debt that have grown, unbacked hTokens), so that short sequences already combine what is hard; amounts are a
part, a whole and `type(uint256).max`; `Drift` is what one call may lose to rounding. `story`: two actions, since an expectation depends on the chain before
an action and one action more is what it takes to get the chain into another shape than the openings. `registry`: three assets for two slots are
the fewest with which an id is reused while another is taken and a third asset waits; RAY is 2 and the index at most 3, where one scaled unit reads 2: repaying 1 burns
it and leaves the bit, so reserves are dropped and ids reused under bits without debts. `StableLag` is 1 in `rounding` and `registry`: a whole stable debt may be missing from the total. `gauge`: `MaxCalls` and `MaxTime` suffice for a user to join,
be boosted, leave, and be refreshed across the end of a week and of an epoch, with the gauge killed in between.

`ReserveAsExpected` and `UserAsExpected` name the cases in which the suites' expectations fall short of the contracts
(`Overpays`, `ErasesTotal`, `JoinsStableDebt`, `OutOfReach`): an amount repaid beyond the debt is not capped (a TODO at `calculations.ts:532`), a leftover stable total is
erased by the token, a swap to stable adds to a total read without its interest, and some fields of a user are computed from the
wrong one of two debts. The stories of the repository keep clear of them. Outside these cases every comparison must
succeed, whatever the order of calls and the time between them.

`RewardsWithinEmission` is conditional on `orderly`: it stops being claimed once somebody joined a token without supply while his own
integral is old, or refreshed his share by the public `hvUpdateLiquidityLimit` without a checkpoint. In both cases a share earns for time before it was held.

Fairness. Only `Scenario` has any: `WF_phase(Settles)`. Every promise of a story is awaited and each awaited call of the
local chain settles (mined or refused), so a phase does not last for ever, and the test runner calls `after` once the stories are through; in every phase but `over` some step
that changes the phase can be taken, so this excludes no finite behaviour. A suite has finitely many actions (`MaxActions`).

Deadlock is checked in every run except `accounting` and `gauge`, which stop when their calls and their time are used up; it is never found: a call of `setUserEMode` with category 0 always succeeds for a user outside eMode, and prices may always be answered anew.

In `reserves`, `categories` and `sentinel` the decisions administrators may take are constants (`NewSwitch`, `NewNumber`,
`NewCollateral`, `NewEMode`, `NewMembership`), taken in any order, any number of times; each run offers those its question is about, and
together they call every setter. `reserves` sets caps, the fee and borrowing in isolation only to what they are; `sentinel`, whose behaviours are behaviours of `GovernedSpec` by `SentinelOnlyRestricts`, changes caps and the fee. `SiloedOwedAlone` is stated on debts and not on bits because with interest a bit can outlive its
debt: `repay` clears it only when the amount equals the rounded balance, and an amount below it may burn the last scaled unit. It holds for `StableLag = 0` (see *Leftover stable total* below).
`PausedStandsStill` is about the calls of `LendPool`; `mintToTreasury` and `backUnbacked`, which check no pause, are in `Reserve`.

### Disagreements between comments and code

1. *Ceiling.* `validateBorrow` says "the total exposure is no bigger than the collateral debt ceiling"
   (`ValidationLogic.sol:189`), but checks a counter. A liquidation that takes the whole collateral leaves a debt
   whose owner may supply isolated collateral again: he is isolated with a debt the counter does not hold, and he or another user may
   borrow up to the ceiling on top of it.
2. *Entering eMode.* `executeSetUserEMode` says it reverts if the change "will drop HF <
   HEALTH_FACTOR_LIQUIDATION_THRESHOLD" (`EModeLogic.sol:33`); from category 0 the health is not checked, and with a price source of the
   category it can drop.

What the runs do not show, but a reader should know:

- *Seizure.* `updateIsolatedDebtIfIsolated` says the isolated debt is updated "whenever a position collateralized by
  an isolated asset is repaid or liquidated" (`IsolationModeLogic.sol:23`). A liquidation that seizes the whole collateral clears
  the collateral bit first (`LiquidationLogic.sol:189`), so the position is no longer isolated when the update looks. It is one way into `ceiling`.
- *Stale collateral bit.* `repayWithHTokens` leaves the bit of a balance it empties (`BorrowLogic.sol:260`). When nobody supplies the reserve any
  more it may be given a ceiling, and the next supply of that user is isolated collateral beside his other one.
- *Stale borrowing bit.* A bit that outlived its debt does not keep `validateDropReserve` from passing, and the asset that takes the id next has a "debtor" who owes it nothing. He
  keeps the bit until he borrows that asset and repays. What is never wrong is the other direction, `DebtsHaveBits`: whoever owes has the bit.
- *Debts of an inactive reserve.* `setReserveActive` checks claims and not debts (`PoolConfigurator.sol:209` and `:495`). Interest and rounding let debts outgrow claims, so they may be left
  behind, and then cannot be repaid, swapped or liquidated until the reserve is active again (`InactiveStandsStill`).
- *Category moved.* The liquidation relies on "when in eMode, debt will always be in the same eMode category"
  (`LiquidationLogic.sol:452`); `setAssetEModeCategory` may take a borrowed asset out of the category. Under `Spec`, where administrators do
  nothing, the statement is a theorem (`EModeDebtAlwaysInCategory`).
- *Leftover stable total.* When the rate of the last stable borrower outweighs the average, `burn` erases the whole total, while the rates of the
  reserve are set with what would have been left (`StableDebtToken.sol:197`); `RatesAreCurrent` leaves this case out. With the total erased a reserve may become siloed, or be dropped, while stable debts remain.
- *Last holder.* Who burns the last token keeps his working balance (`LendingGauge.sol:180`), and who joins an empty token is not checkpointed first.
- *Allocation without checkpoint.* Stable borrowing and repaying change the allocation, and the time since the last period is then split by the new one.
- *Phases.* `addPhases` does not look at `k` and `b`; a list whose lines leave 0 or one RAY makes pool calls revert at some utilisations (`LendingGauge.sol:287`).

## 4. What is proved

For every number of accounts, reserves and categories, all amounts, prices, indexes and growth factors:

- `TypeCorrect`: `Spec => []TypeOK`. Its content is that no checked subtraction is forgotten: balances,
  cash and the isolated debt stay naturals and indexes stay at least one RAY, the treasury included.
- `DebtAlwaysFlagged`: `Spec => []DebtIsFlagged`.
- `IsolatedAlwaysAlone`, `SiloedAlwaysAlone`: flags of isolated and siloed reserves.
- `EModeDebtAlwaysInCategory`: needed by the liquidation, which does not look.
- `NothingIsLost`: `Spec => []Conservation` while no interest accrues (`Growth \subseteq {RAY}`, as in the `market` run; with interest it holds only up to roundings).
- `QuotesAlwaysFair`: `Spec => []QuoteIsFair`, at any prices, units, bonuses and close factors.
- `CallsAlwaysKeepHealth`: `Spec => CallsKeepHealth`, with any interest, prices and thresholds.
- `UnhealthyHasLiquidation`, `DebtCanBeRepaid`, `DepositCanBeWithdrawn`: the ways out that stay open. From every state of the inductive invariant, the state they name
  is a successor by the call: a liquidation of an unhealthy account, the repayment of a whole debt, the withdrawal of a whole deposit.

Under `GovernedSpec`, for any decisions of administrators in any order between the calls:

- `GovernedTypeCorrect`, `GovernedDebtFlagged`: the first two theorems again.
- `ConfigurationStaysSound`: `GovernedSpec => []SoundConfiguration`.
- `CeilingAlwaysStartsAtZero`: `GovernedSpec => []CeilingStartsAtZero`.
- `PausedAlwaysStandsStill`: `GovernedSpec => PausedStandsStill`: no call moves anything of a paused reserve.
- `FrozenAlwaysOnlyShrinks`: `GovernedSpec => FrozenOnlyShrinks`, with any interest.
- `UsersAlwaysKeepHealth`: `GovernedSpec => UsersKeepHealth`: health under any configuration administrators have made.
- `SiloedAlwaysOwedAlone`: `GovernedSpec => []SiloedOwedAlone` if `StableLag = 0`.
- `InactiveAlwaysStandsStill`: `GovernedSpec => InactiveStandsStill`, with any interest and any `StableLag`: no claims on an inactive reserve, and no call moves the debts left in it.

With the sentinel, for any outages and reports of the feed:

- `SentinelOnlyRestricts`: `SentinelSpec => GovernedSpec`, a refinement in which the steps of the sequencer stutter; every theorem under `GovernedSpec` holds with a sentinel as well.
- `OutageAlwaysSparesPositions`: `SentinelSpec => OutageSparesPositions`.
- `DeepDebtHasLiquidation`: a position below 0.95 can be liquidated in the midst of an outage, whatever the feed says.

For all scales and amounts: `RoundTrip` (`WadRayProofs`), and `SuiteArithmeticAgrees`: the signed arithmetic of the test suites computes what the
contracts compute, wherever the contracts do not revert.

For any number of assets, slots and users:

- `RegistryTypeCorrect`, `RoomIsFound`, `DebtsAlwaysHaveBits`, `BitsAlwaysWalked`: the invariants of the registry.
- `RegistryKeepsListing`: `Spec => L!Spec`, the refinement of `Listing`.

For any number of users, weeks and epochs, any weights, rates, votes and phases of a gauge:

- `GaugeTypeCorrect`: `Spec => []TypeOK`: the subtractions of checkpoints and refreshes do not underflow.
- `WorkingSupplyAlwaysSum`: `Spec => []WorkingSupplyIsSum`.
- `RewardsAlwaysWithinEmission`: `Spec => []RewardsWithinEmission`.
- `SharesAlwaysFollowTokens`, `AllocationAlwaysCurrent`: the two action properties.

For one reserve under any rate strategy, fees, scales, openings, amounts and times between calls, a flash loan's receiver included:

- `AccountingTypeCorrect`: `Spec => []TypeOK` of `Accounting`: cash, wallets, balances, principals, delegated credit and the counter of unbacked hTokens never underflow, that counter
  stays within its cap, and indexes stay at one RAY or above.
- `ScaledTotalsAlwaysSums`: `Spec => []ScaledTotalsAreSums(chain)`, the exact part of `TotalsAreSums`.
- `IndexesAlwaysGrow`: `Spec => IndexesNeverFall`.
- `RatesAlwaysCurrent`: `Spec => RatesAreCurrent`.
- `EventsAlwaysTell`: `Spec => EventsTellBalances`: the Transfer events of a call tell what it did to every balance, of stable debt exactly, of hTokens and variable debt to within
  `Slack(index)`: one unit and half of what a scaled unit is worth.
- `SurplusAlwaysKept`: `Spec => CallsKeepSurplus`: no call creates or destroys value, by more than `CallSlack` of the chain it leaves.

Argument. The inductive invariant `IInv` is `TypeOK`, `DebtIsFlagged` and the soundness of the configuration
(needed to know that a bonus is at least 100% and so that the fee of a quote is
not negative). `DebtIsFlagged` is inductive only because of `RoundTrip` in `WadRayProofs`: `rayDiv(rayMul(s, i), i) = s`
for every index of at least one RAY, so a repayment of the whole *rounded* balance burns exactly the whole
*scaled* balance; that is why `TypeOK` carries the lower bound of the indexes. The flag invariants follow
from `IInv` step by step: a collateral bit is only set under `CanUseAsCollateral`, a borrowing bit only under
the siloed guard of `validateBorrow`, and a user in eMode can borrow only in his category and enter one only if all
*flagged* reserves are in it, which is enough because of `DebtIsFlagged`. One lemma per action states what it does
to each part; `StepCases` and `BorrowingBits` split `Next`. Under governance the same invariant is inductive: every setter is
shown to replace one reserve's or one category's configuration by a sound one and to leave positions alone (`ReserveSet`,
`CategorySet`), so `StepIInv` is reused for the users' calls. The flag theorems do not carry over, and should not: a stale collateral bit and a
category moved under a debt (section 3) break two of them.

Pauses and the sentinel. `PausedStandsStill` needs no more than `IInv`: each call either checks the pause of every reserve it touches or touches none, one lemma per
action. `OutageSparesPositions` needs `SequencerInv`: the feed says down whenever the sequencer is down, and the time it reports as up is never
longer than the sequencer has been up without a break. The second part is what a repeated or late report could break. A new loan is then a
`PermittedBorrow` and a seizure a `PermittedLiquidation`; that no other call is either is shown action by action.

The registry. `TypeOK` and `DebtsHaveBits` are not inductive alone: the invariant adds that the list and the ids agree (an asset is listed exactly where
its id says, and no two assets have one id), that slots beyond the count are empty, and that a reserve nobody lists has no balances.
A call moves the bit of the id of the asset it is about, and ids are distinct, so it cannot take the bit of a debt in another asset. A repayment clears the bit only if it pays all of
the rounded debts, and then burns all of the scaled ones (`RoundTrip`); a first borrowing sets it, and swaps leave it while something is owed. Bits without debts may survive
a dropped reserve and be inherited, but nothing listed is owed without one, and all stay below the count.
The refinement maps `idOf` to the ids of the listed assets: `InitReserve` is `List`, `DropReserve` is `Drop`,
and every call of a user is a stutter.

Sums over accounts. Total supplies and debts are folds over all accounts (`SumFunction` of the community modules). `Sums` proves what they need for any
finite set: a sum is a number, it is one element and the sum of the rest, whichever element comes first, it follows a change of one element by as much, keeps
order and multiples, and bounds its elements. Induction over sets is not available to the prover here, so each lemma is proved by a least counterexample:
among the subsets for which it failed one would have no failing proper subset (subsets of a finite set are well founded), and taking an element out of that one gives the contradiction.

Conservation. `Conservation` is about rounded balances and is not inductive; what is inductive is that all indexes are one RAY (`AtPar`) and that cash and the
totals of debts equal the total of hTokens (`Balanced`), which every call keeps: the change of each total is computed from the accounts it touches, for the liquidation with its
protocol fee, borrower and liquidator possibly one. 

Closed reserves. `InactiveStandsStill` needs the invariant that an inactive reserve has no claims (`InactiveUnclaimed`): it is deactivated without any, and every call that brings some requires it
to be active. The calls that could move its debts or its cash check that the reserve is active and not paused, so the lemmas of `PausedStandsStill`, one per call, serve both; only a transfer of
hTokens does not look at activity, and it has nothing to move. Nothing here depends on indexes. `FrozenOnlyShrinks` and `SiloedOwedAlone` rest on what each call can raise at all: lemmas `ClaimsGrow` and
`DebtsGrow` name the only calls that raise claims or debts, each of which refuses a frozen reserve. A reserve becomes siloed only while nobody owes it, and from then on
`validateBorrow` keeps its debts alone.

One quote. `QuoteIsFair` is arithmetic: the collateral is quoted by a truncated division and a half-up product, or is the whole balance and the debt is quoted back
from it the same ways; in both cases the value seized, taken twice and at full scale, stays below that of twice the debt and one more unit, times the bonus.

Health. An account is healthy when what its collateral weighs, by an average threshold that is truncated, covers the value of its debts. The average brackets what it averages: the sum of each
collateral's value times its own threshold lies between the total at the average and the total at one unit more, which is `Cover` (`AccountData`; `Sums` says how a total follows a change of one
reserve). Each account meets a call in one of four ways:

1. It loses nothing (`Gains`): its collateral does not shrink, its debts do not grow, prices and thresholds stay. What it weighs did not fall, so it is healthy but for the truncation (`GainKeepsHealth`),
   and exactly so if it was given nothing. Suppliers, recipients of transfers and of seized hTokens and all bystanders are of this kind.
2. It took collateral away or left eMode: it has no borrowing bit, or the call ended in the check `Healthy(u)'`, or the reserve did not back it.
3. It was liquidated: then it was not healthy.
4. Its own debt moved. A repayment lowers the debt, or a swap moves it between the modes, but for `Drift` (`RepayMoves`, `SwapMoves`). A repayment in hTokens is followed by no health check: it takes collateral
   worth what it repays, and no threshold is above 100%, so the cover falls by at most what the debt does and the roundings (`CollateralShrinks`, `OwnCallBacked`). A loan is admitted by the *average LTV*, not
   by health after it: that the account is backed afterwards uses that every LTV is within its threshold (`ThresholdBound`, `AverageOrder`), what the inverse of a percentage keeps (`LentIsBacked`), and
   that every debt is among those summed up before, which is `DebtIsFlagged` (`BorrowBacked`).

Under governance the same step lemma applies, since `IInv` is what administrators keep.

Ways out. `ENABLED` is beyond the prover, so a theorem names the next state (`Liquidated`, `Repaid`, `Withdrawn`: every variable given from the present state) and shows that the action relates the
two: none of the guards, checked subtractions or `require`s of the handler fails. For the liquidation this is: the quote is not zero, because one collateral is worth a unit of the debt and the bonus; it
takes at most the balance, and so do its scaled roundings and its fee; the debt it repays burns at least one scaled unit and at most those there are (`RoundTrip`); the isolated debt saturates.
Their hypotheses are usable reserves, room under `MaxCash`, for the liquidation payment in hTokens and a debt index of at most two RAY (above it one unit of debt may be less than half a scaled unit, and the
burn of a debt that small reverts), for the withdrawal cash and no borrowing bit (with one, health decides). The runs check `UnhealthyIsLiquidatable` and `DeepDebtsStayLiquidatable` in states where all of them hold.

The gauge. The inductive invariant `GaugeInv` says that both books are *sound* (records of naturals, whose supply is the sum of the shares and whose integral no user's has overtaken),
that hTokens equal cash and debts (`HeldBack`), and that the period does not end in the future. Each action is shown to be a `GoodStep`: it keeps `GaugeInv`, gives
shares within tokens and a current allocation, and raises what the books owe by no more than it emits. The last part is the heart of `RewardsWithinEmission`:

1. For a stretch of a week, what the integral grows by, times the supply, is at most the allocated part of rate, weight and time: both divisions truncate (`StretchWithin`).
2. Hence what a book grows by in a period is worth at most its part, over all weeks, with the change of rate inside one of them (`GrowthWithin`).
3. The two parts together are at most the emission, because the supply side's weight is what the allocation leaves of one RAY (`PartsWithin`, `EmissionWithin`). The code's checked subtraction keeps
   the allocation within one RAY wherever the supply side is checkpointed (`MayCheckpoint`); where it is not, there are no hTokens, hence by `HeldBack` no debt, and the debt side is not checkpointed either.
4. A checkpoint moves what a user is owed into what he is credited, truncating (`CreditSound`); a refresh changes the share of one who is owed nothing, since he was just checkpointed (`UpdateLimitSound`). Where the token is empty the checkpoint is
   skipped, and the refresh after a burn as well, so the argument only needs the user to be up to date where there is supply: `orderly`.

The books of a reserve. The inductive invariant `IInv` of `AccountingProofs` is that the chain is one (`IsChain`) and its scaled totals are the sums of the balances. The sums are part of it because
they are what makes a total large enough for every burn, and a mint and a burn change one balance and the total by the same (`MintKeepsTotal`, `BurnKeepsTotal`, `TransferKeepsTotal`).
Each handler is shown to lead from a sound chain to one that it *keeps* (`Keeps`): sound, with indexes no smaller and, unless it leaves funds and debts alone, with the rates
of what it leaves. Three things make that work:

1. Interest factors are at least one RAY (`LinearGrows`, `CompoundedGrows`) and half-up products are monotone (`RayMulMonotone`), so `updateState` raises indexes, and what accrued since the last update, of which the treasury gets a share,
   is never negative (`ShareType`). Without debts the debt index stands still, whatever the rate.
2. A handler sets the rates *before* the payment from the cash it is going to leave, and its tokens before the rates; `RatesSet` and `Settled` say that the rates so set are those of the outcome
   whenever the later assignments make the same difference to the cash.
3. The burn of a stable debt returns a total that may not be the one it keeps (`BurnStableType`, `DebtBurnt`, `BurnReports`): the two differ only where the event shows an erased total, which is the exception the property names.
4. A mint, burn or transfer of an amount moves the rounded balance by that amount but for `Slack` (`ScaledMoves`): dividing by the index is off by half a scaled unit, and multiplying back by a rounding.
   Interest that fell due since the holder's last call is in the event as well as in the balance, and a burn smaller than that interest mints, in both. One lemma per handler (`...Tells`) then adds up what its one or two events say of each holder;
   the holder of mints and burns on the other side is the zero address, which `ReserveAssumption` keeps apart from every account.
5. `updateState` does not move the surplus at all (`UpdateBalances`): the claims already count the treasury's share that it is going to mint, and balances are read at the present index. After it, each
   handler makes entries (`Entries`): stable debt moves exactly, variable debt and claims but for the slack of their token, and the funds by what is paid (`EntriesBalance`); one lemma per handler (`...Balances`).
   The treasury's share turned into hTokens, less the vault's part, is `ShareMoves`. The premium of a flash loan or of a bridge is the hard case (`SharePremium`, `PremiumBalances`): the index rises by a
   ratio rounded to a RAY, so the claims rise by the premium but for a part of a unit per RAY of hTokens, of claims and of the index, all of which are at most the claims it leaves.

Assumptions used: `ScaleAssumption` (scales positive and even), `AccountAssumption` (accounts and reserves are finitely many; the pool has at most 128 reserves, `ReserveRegistry`), `PoolAssumption`,
`ConfiguratorAssumption`, `SentinelAssumption`, `RegistryAssumption`, `GaugeAssumption`, and for a reserve `ReserveAssumption`, `AccountingAssumption` and those of the rate strategy (the constants are what their comments say). The proofs use no bound: `MaxBalance`, `MaxCash`, `MaxIndex`, `MaxTime`, `MaxSteps` and
`MaxCalls` are arbitrary naturals. `NothingIsLost` has the hypothesis `Growth \subseteq {RAY}`, under which its property is stated, and `SiloedAlwaysOwedAlone` has `StableLag = 0`.

Only model-checked:

- `UnhealthyIsLiquidatable` and `DeepDebtsStayLiquidatable` as they are written: they use `ENABLED`, which the prover does not treat. What they assert is proved with the next state named
  (`UnhealthyHasLiquidation`, `DeepDebtHasLiquidation`). The pool never acts by itself: availability of liquidation is not a liveness property, because nothing obliges a liquidator to act.
- `SuiteEnds`, a liveness property under fairness.
- `Solvent` and the stable part of `TotalsAreSums` of `Accounting` bound a drift that grows with the number of calls and blocks and depends on rates and indexes: the tolerances the run checks are those of its few calls.
  What calls contribute to the first is `SurplusAlwaysKept`; what is left is the interest of a block, linear on one side and a truncated series on the other.
- `Scenario`: its comparisons hold within `Tolerance` for the scales of the instance.

## 5. Not modelled

What could follow, in this order.

1. A flash loan that ends as a debt, of several assets, composed with `LendPool` (the category read before the callback).
2. Replacing the feed of the sentinel; signatures, nonces and deadlines of permits.
3. The gauge factory and the roles of administrators.
4. Proofs: what a block adds to the drift of `Solvent` and of the stable total, as a function of the indexes and the number of calls.

Left out on purpose: vendored code, mocks and interfaces (no logic of this system); the data provider (views of what the models
already hold); deployment helpers of the suites (no state); wording of events; the L2 encoding, which packs arguments into bits in front of the same
entry points. Address providers and proxies decide which code runs
and are set up once; the models take them, and who is an administrator, as given.
