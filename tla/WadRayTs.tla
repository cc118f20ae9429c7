------------------------------ MODULE WadRayTs ------------------------------
(***************************************************************************)
(* The fixed-point arithmetic of the test suites,                          *)
(* test-suites/helpers/utils/wadraymath.ts: the same products as the       *)
(* contracts', on the signed integers of BigNumber, whose division drops   *)
(* the fraction on either side of zero.                                    *)
(***************************************************************************)
EXTENDS WadRay

\* BigNumber.div
div(a, b) ==
    LET size(x) == IF x < 0 THEN -x ELSE x
        quotient == size(a) \div size(b)
    IN IF (a < 0) = (b < 0) THEN quotient ELSE -quotient

halfRay == RAY \div 2
halfWad == WAD \div 2
halfPercentage == PERCENTAGE_FACTOR \div 2
wadRayRatio == RAY \div WAD

wadMul(receiver, other) == div(halfWad + receiver * other, WAD)
wadDiv(receiver, other) == div(div(other, 2) + receiver * WAD, other)

rayMul(receiver, other) == div(halfRay + receiver * other, RAY)
rayDiv(receiver, other) == div(div(other, 2) + receiver * RAY, other)

percentMul(receiver, bps) == div(halfPercentage + receiver * bps, PERCENTAGE_FACTOR)
percentDiv(receiver, bps) == div(div(bps, 2) + receiver * PERCENTAGE_FACTOR, bps)

rayToWad(receiver) == div(div(wadRayRatio, 2) + receiver, wadRayRatio)
wadToRay(receiver) == receiver * wadRayRatio

negated(receiver) == -receiver

=============================================================================
