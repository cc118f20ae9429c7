------------------------------- MODULE WadRay -------------------------------
(***************************************************************************)
(* The fixed-point arithmetic every other module computes with:            *)
(* libraries/math/WadRayMath.sol and libraries/math/PercentageMath.sol.    *)
(* All four products round half up.  The scales are parameters (10^18,     *)
(* 10^27 and 10^4 in the code) so that TLC can work with small ones; the   *)
(* overflow tests of the assembly blocks, which only bite near 2^256, are  *)
(* left out, and a division by zero, which reverts, is never evaluated.    *)
(***************************************************************************)
EXTENDS Integers

CONSTANTS
    WAD,                \* the unit of health factors (10^18)
    RAY,                \* the unit of indexes and rates (10^27)
    PERCENTAGE_FACTOR   \* 100.00% (10^4)

\* The scales are positive and even, so that half a unit is exact.
ASSUME ScaleAssumption ==
    /\ WAD \in Nat \ {0} /\ WAD % 2 = 0
    /\ RAY \in Nat \ {0} /\ RAY % 2 = 0
    /\ PERCENTAGE_FACTOR \in Nat \ {0} /\ PERCENTAGE_FACTOR % 2 = 0

HALF_RAY == RAY \div 2
HALF_PERCENTAGE_FACTOR == PERCENTAGE_FACTOR \div 2

WadDiv(a, b) == (a * WAD + (b \div 2)) \div b

RayMul(a, b) == (a * b + HALF_RAY) \div RAY

\* Faulty variant: truncates instead of rounding half up.
RayDivDown(a, b) == (a * RAY) \div b

RayDiv(a, b) == (a * RAY + (b \div 2)) \div b

PercentMul(value, percentage) ==
    (value * percentage + HALF_PERCENTAGE_FACTOR) \div PERCENTAGE_FACTOR

PercentDiv(value, percentage) ==
    (value * PERCENTAGE_FACTOR + (percentage \div 2)) \div percentage

=============================================================================
