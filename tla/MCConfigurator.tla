--------------------------- MODULE MCConfigurator ---------------------------
(* Instances of Configurator for TLC, on the configurations of MCLendPool. *)
EXTENDS Configurator, MCLendPool

NoDecision == {}

\* Rounding: a2, which is borrowed, is switched off and on again.
RoundingSwitch == {<<"active", a2, FALSE>>, <<"active", a2, TRUE>>}

-----------------------------------------------------------------------------
\* Reserves: a1 may be isolated, a2, which is borrowed against it at either rate,
\* siloed; both are switched off, paused and frozen, and the price of a1 falls.
\* Caps, the fee and borrowing in isolation are only set to what they are
\* already; caps and the fee change in MCSentinel, whose runs are runs of this
\* module's system too.
ReserveConfigs ==
    {[a \in Asset |-> [Plain EXCEPT !.borrowing = (a = a2), !.stable = (a = a2)]]}
ReservePrice == [k \in Asset \cup Category |-> IF k = a1 THEN 20 ELSE 10]
ReservePrices == [Fixed(ReservePrice) EXCEPT ![a1] = {20, 12}]
ReserveSwitch ==
    {<<"siloed", a2, TRUE>>, <<"siloed", a2, FALSE>>, <<"borrowing", a1, TRUE>>,
     <<"borrowing", a1, FALSE>>, <<"active", a1, FALSE>>, <<"active", a2, FALSE>>,
     <<"active", a2, TRUE>>, <<"stable", a1, TRUE>>, <<"frozen", a2, TRUE>>,
     <<"frozen", a2, FALSE>>, <<"paused", a2, TRUE>>, <<"poolPaused", a1, FALSE>>,
     <<"isoBorrowable", a2, TRUE>>}
ReserveNumber ==
    {<<"ceiling", a1, 2>>, <<"ceiling", a1, 0>>, <<"fee", a1, 0>>,
     <<"supplyCap", a1, 0>>, <<"borrowCap", a2, 0>>}

\* Categories: c1 is set, changed, and given to a1 and a2, whose own threshold
\* changes too.
CategoryConfigs == {[a \in Asset |-> [Plain EXCEPT !.borrowing = (a = a2)]]}
CategoryPrice == [k \in Asset \cup Category |-> IF k = a1 THEN 20 ELSE 10]
CategoryPrices == Fixed(CategoryPrice)
CategoryCollateral == {<<a1, 5, 8, 12>>, <<a1, 2, 3, 20>>, <<a1, 0, 0, 0>>, <<a1, 6, 6, 20>>}
CategoryEModes == {<<c1, 7, 9, 11, FALSE>>, <<c1, 9, 9, 11, FALSE>>, <<c1, 9, 4, 12, FALSE>>}
CategoryMembers == {a1, a2} \X {c1, NoCategory}

=============================================================================
