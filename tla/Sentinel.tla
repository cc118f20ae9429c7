------------------------------ MODULE Sentinel ------------------------------
(***************************************************************************)
(* PriceOracleSentinel.sol before the pool of Configurator: while the      *)
(* layer-2 sequencer is down, and for a grace period after it came back,   *)
(* no debt is opened and no position is liquidated that is not far below   *)
(* its threshold, so that users can first act on the prices that moved     *)
(* meanwhile.  The sentinel knows the sequencer only by a feed             *)
(* (ISequencerOracle), which reports whether it is down and when it last   *)
(* got up.                                                                 *)
(*                                                                         *)
(* The sequencer and its feed are the environment: an outage is reported   *)
(* when it begins, with the old timestamp (as the test suite does it); a   *)
(* recovery is reported any time later, and again as often as the feed     *)
(* likes, with a timestamp since the recovery.  Times are ages, and ages   *)
(* saturate at MaxAge.  Calls go on during an outage: they are forced      *)
(* through layer 1.  Replacing the feed (setSequencerOracle) is left out.  *)
(***************************************************************************)
EXTENDS Configurator

CONSTANTS
    GracePeriods,  \* what administrators may set the grace period to
    MaxAge         \* bound: an age from which on a time is long ago

ASSUME SentinelAssumption ==
    /\ MaxAge \in Nat
    /\ GracePeriods \subseteq 0 .. MaxAge - 1

VARIABLES
    sentinel,     \* is a sentinel set in the PoolAddressesProvider?
    gracePeriod,  \* _gracePeriod
    isDown,       \* the answer of the feed
    sinceUp,      \* block.timestamp less the timestamp the feed reports
    up,           \* is the sequencer up?
    upFor         \* for how long it has been, without a break

sentinelVars == <<sentinel, gracePeriod, isDown, sinceUp, up, upFor>>

-----------------------------------------------------------------------------
(* What the sentinel says, and the calls it gates.                         *)

\* Faulty variant: an outage is not looked at, only the time of the recovery.
GracePeriodPassed == sinceUp > gracePeriod

\* _isUpAndGracePeriodPassed: isBorrowAllowed and isLiquidationAllowed.
IsUpAndGracePeriodPassed == ~isDown /\ sinceUp > gracePeriod

BorrowPermitted == sentinel => IsUpAndGracePeriodPassed

\* Faulty variant: nobody is liquidated while the sentinel forbids it.
NobodyLiquidated(u) == sentinel => IsUpAndGracePeriodPassed

\* Far below its threshold (0.95) a position does not wait.
LiquidationPermitted(u) ==
    \/ sentinel => IsUpAndGracePeriodPassed
    \/ HealthBelow(u, CloseFactorHealth)

PermittedBorrow == BorrowPermitted /\ BorrowCalls

PermittedLiquidation(u) == LiquidationPermitted(u) /\ LiquidationOf(u)

-----------------------------------------------------------------------------
(* Administrators.                                                         *)

SetPriceOracleSentinel(set) ==
    /\ sentinel' = set
    /\ UNCHANGED <<vars, gracePeriod, isDown, sinceUp, up, upFor>>

SetGracePeriod(period) ==
    /\ gracePeriod' = period
    /\ UNCHANGED <<vars, sentinel, isDown, sinceUp, up, upFor>>

-----------------------------------------------------------------------------
(* The sequencer, its feed, and time.                                      *)

Outage ==
    /\ up
    /\ up' = FALSE /\ upFor' = 0
    /\ isDown' = TRUE
    /\ UNCHANGED <<vars, sentinel, gracePeriod, sinceUp>>

Recovery ==
    /\ ~up
    /\ up' = TRUE
    /\ UNCHANGED <<vars, sentinel, gracePeriod, isDown, sinceUp, upFor>>

\* setAnswer(false, timestamp) of the feed.
SetAnswer(age) ==
    /\ up /\ age <= upFor
    /\ isDown' = FALSE /\ sinceUp' = age
    /\ UNCHANGED <<vars, sentinel, gracePeriod, up, upFor>>

Older(age) == Lesser(age + 1, MaxAge)

Tick ==
    /\ sinceUp' = Older(sinceUp)
    /\ upFor' = IF up THEN Older(upFor) ELSE 0
    /\ UNCHANGED <<vars, sentinel, gracePeriod, isDown, up>>

-----------------------------------------------------------------------------
SentinelInit ==
    /\ Init
    /\ sentinel = FALSE /\ gracePeriod \in GracePeriods
    /\ up = TRUE /\ isDown = FALSE
    /\ upFor = MaxAge /\ sinceUp = MaxAge

PoolStep ==
    /\ \/ Calls
       \/ PermittedBorrow
       \/ \E u \in User : PermittedLiquidation(u)
       \/ Environment
       \/ ConfiguratorCalls
    /\ UNCHANGED sentinelVars

SequencerStep ==
    \/ Outage
    \/ Recovery
    \/ \E age \in 0 .. MaxAge : SetAnswer(age)
    \/ Tick

SentinelNext ==
    \/ PoolStep
    \/ SequencerStep
    \/ \E set \in BOOLEAN : SetPriceOracleSentinel(set)
    \/ \E period \in GracePeriods : SetGracePeriod(period)

SentinelSpec == SentinelInit /\ [][SentinelNext]_<<vars, sentinelVars>>

-----------------------------------------------------------------------------
(* Properties.                                                             *)

\* A step that leaves u owing more of reserve d, and not at the other rate.
NewLoan(u, d) ==
    /\ vBal'[u][d] >= vBal[u][d] /\ sBal'[u][d] >= sBal[u][d]
    /\ vBal'[u][d] > vBal[u][d] \/ sBal'[u][d] > sBal[u][d]

\* A step that takes u's hTokens of one reserve for his debt in another: a
\* liquidation is the only call that does.
Seizure(u) ==
    \E c, d \in Asset :
        /\ c # d
        /\ hBal'[u][c] < hBal[u][c]
        /\ vBal'[u][d] < vBal[u][d] \/ sBal'[u][d] < sBal[u][d]

\* With a sentinel set, a debt is opened, or a position at 0.95 or more seized,
\* only after the sequencer has really been up, without a break, for more than the
\* grace period: neither a second outage before the first grace is over nor late
\* and repeated reports of the feed shorten the time users have.
OutageSparesPositions ==
    [][\/ Environment
       \/ sentinel /\ upFor <= gracePeriod =>
             \A u \in User :
                /\ \A d \in Asset : ~NewLoan(u, d)
                /\ Seizure(u) => HealthBelow(u, CloseFactorHealth)]_<<vars, sentinelVars>>

\* The sentinel never holds up the liquidation of a position below 0.95, however
\* long the outage: the bad debt of an outage is bounded (see
\* UnhealthyIsLiquidatable for the last condition).
DeepDebtsStayLiquidatable ==
    \A u \in User, c, d \in Asset :
        /\ HealthBelow(u, CloseFactorHealth)
        /\ Usable(c) /\ Usable(d)
        /\ c \in Backing(u) /\ Debt(u, d) # 0
        /\ CollateralValue(u, c) * config[d].unit * PERCENTAGE_FACTOR
              >= DebtPrice(u, d) * LiquidationBonus(u, c)
        => ENABLED PermittedLiquidation(u)

=============================================================================
