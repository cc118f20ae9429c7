----------------------------- MODULE MCLendPool -----------------------------
(* Instances of LendPool for TLC: percentages in tenths, indexes in halves. *)
EXTENDS LendPool, TLC

CONSTANTS a1, a2, c1

\* A reserve lending 50% against it, liquidated at 80% with a bonus of 20%.
Plain ==
    [ltv |-> 5, lt |-> 8, bonus |-> 12, fee |-> 0, unit |-> 1, ceiling |-> 0,
     supplyCap |-> 0, borrowCap |-> 0, isoBorrowable |-> TRUE, siloed |-> FALSE,
     borrowing |-> TRUE, stable |-> FALSE, active |-> TRUE, frozen |-> FALSE,
     paused |-> FALSE, category |-> NoCategory]

NoEModes ==
    [c \in Category |-> [ltv |-> 0, lt |-> 0, bonus |-> 0, priceSource |-> FALSE]]

Fixed(prices) == [k \in DOMAIN prices |-> {}]

Users == Permutations(User)

-----------------------------------------------------------------------------
\* Rounding: a2 is borrowed, in both modes, against a1 or itself.
RoundingConfigs ==
    {[a \in Asset |-> [Plain EXCEPT !.stable = TRUE, !.borrowing = (a = a2)]]}
RoundingPrice == [k \in Asset \cup Category |-> IF k = a1 THEN 2 ELSE 1]
RoundingPrices == Fixed(RoundingPrice)

\* Market: the price of a1 falls, a little or far, and recovers; a2, which is
\* borrowed, lends only 10% as collateral.
MarketConfigs ==
    {[a \in Asset |->
        IF a = a1 THEN [Plain EXCEPT !.borrowing = FALSE, !.fee = 5]
        ELSE [Plain EXCEPT !.ltv = 1, !.lt = 1, !.fee = 5]]}
MarketPrice == [k \in Asset \cup Category |-> IF k = a1 THEN 20 ELSE 10]
MarketPrices == [Fixed(MarketPrice) EXCEPT ![a1] = {20, 12, 7}]

\* Isolation: a1 is isolated and siloed; a2 may be borrowed against it, and
\* lends enough to owe one of each when a1 is cheap.
IsolationConfigs ==
    {[a \in Asset |->
        IF a = a1 THEN [Plain EXCEPT !.ceiling = 2, !.siloed = TRUE,
                                     !.isoBorrowable = FALSE]
        ELSE [Plain EXCEPT !.ltv = 7]]}

\* eMode: a2 belongs to c1, which has a price of its own.
EModeConfigs ==
    {[a \in Asset |-> IF a = a2 THEN [Plain EXCEPT !.category = c1] ELSE Plain]}
EModeCategories ==
    [c \in Category |-> [ltv |-> 7, lt |-> 9, bonus |-> 11, priceSource |-> TRUE]]

\* Modes: one or the other.
ModesConfigs == IsolationConfigs \cup EModeConfigs
ModesPrice == [k \in Asset \cup Category |-> 10]
IsolationPrices == [Fixed(ModesPrice) EXCEPT ![a1] = {10, 3, 20}]
EModePrices == [Fixed(ModesPrice) EXCEPT ![c1] = {5, 18}]
ModesPrices == [IsolationPrices EXCEPT ![c1] = {5, 18}]

=============================================================================
