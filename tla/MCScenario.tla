---------------------------- MODULE MCScenario ------------------------------
EXTENDS Scenario

CONSTANTS u1, u2

MCStrategy ==
    [optimalUsage |-> 8000, baseVariable |-> 100,
     variableSlope1 |-> 1000, variableSlope2 |-> 5000,
     stableSlope1 |-> 500, stableSlope2 |-> 5000,
     baseStableOffset |-> 200, stableExcessOffset |-> 800,
     optimalStableToTotal |-> 2000]

Funded == After(After({Deployed(10000)}, LAMBDA c : Tick(c, 1)),
                LAMBDA c : Supply(c, u1, u1, 5000))

\* u2 owes a cheap stable debt, then the market gets dear.
Cheap == After(After(Funded, LAMBDA c : Borrow(c, u2, u2, 1000, "stable")),
               LAMBDA c : Borrow(c, u2, u2, 3500, "variable"))

\* Both owe stable debt, at different rates, and u1 has no collateral here.
Owing == After(After(Funded, LAMBDA c : Borrow(c, u2, u2, 1000, "stable")),
               LAMBDA c : Tick(c, 3))

Mixed == After(After(After(Owing, LAMBDA c : Borrow(c, u2, u2, 2000, "variable")),
                     LAMBDA c : SetUseReserveAsCollateral(c, u1, FALSE)),
               LAMBDA c : Borrow(c, u1, u1, 300, "stable"))

\* A bridge has minted hTokens it has still to back; a borrower repays in them.
Bridged == After(After(Owing, LAMBDA c : MintUnbacked(c, u2, 1000)),
                 LAMBDA c : Repay(c, u2, u2, 400, "stable", TRUE))

Fresh == After({Deployed(10000)}, LAMBDA c : Tick(c, 1))

MCOpening == Fresh \cup Funded \cup After(Cheap \cup Mixed \cup Bridged, LAMBDA c : Tick(c, 3))
=============================================================================
