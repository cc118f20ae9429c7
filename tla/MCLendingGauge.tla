--------------------------- MODULE MCLendingGauge ---------------------------
(* An instance of LendingGauge for TLC: weeks of 2, epochs of 1, RAY = 20. *)
EXTENDS LendingGauge, TLC

\* lending-gauge-config.spec.ts: rising, flat, falling and none at all.
TestPhases ==
    <<[start |-> 0, end |-> 7, k |-> 40, b |-> 0],
      [start |-> 7, end |-> 13, k |-> 0, b |-> 14],
      [start |-> 13, end |-> 16, k |-> -93, b |-> 74],
      [start |-> 16, end |-> 20, k |-> 0, b |-> 0]>>

\* The same with a gap, which is refused, and the lending-gauge-config error.
BrokenPhases == [TestPhases EXCEPT ![2].start = 8]

Lists == {TestPhases, BrokenPhases}
Weights == [w \in 0 .. MaxTime \div WEEK |-> IF w = 0 THEN 10 ELSE 5]
Rates == [e \in 0 .. MaxTime \div EPOCH |-> IF e = 0 THEN 10 ELSE 6]

Users == Permutations(User)

=============================================================================
