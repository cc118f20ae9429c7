----------------------------- MODULE MCSentinel -----------------------------
(* The instance of Sentinel for TLC.                                       *)
EXTENDS Sentinel, MCLendPool

NoDecision == {}

\* One a2 is borrowed against two a1, whose price falls to a health of 0.96 or of
\* 0.91, with enough of it left for the bonus; a1 may come to pay the treasury a
\* fee, and either may be capped.
SentinelConfigs ==
    {[a \in Asset |-> IF a = a1 THEN [Plain EXCEPT !.borrowing = FALSE, !.bonus = 11]
                      ELSE [Plain EXCEPT !.supplyCap = 1]]}
SentinelPrice == [k \in Asset \cup Category |-> 100]
SentinelPrices == [Fixed(SentinelPrice) EXCEPT ![a1] = {100, 60, 57}]
SentinelNumber == {<<"supplyCap", a1, 1>>, <<"borrowCap", a2, 1>>, <<"fee", a1, 5>>}

=============================================================================
