------------------------------ MODULE RateMath ------------------------------
(***************************************************************************)
(* The rate arithmetic of src/src/libraries/RateMath.sol.  Rates are       *)
(* annual, scaled by RateUnit (1e18 in the code); weights and comparisons  *)
(* are in basis points of BPS (10_000 in the code).  Both scales are       *)
(* parameters, so that TLC can use small ones; every division truncates as *)
(* the EVM's does.                                                         *)
(***************************************************************************)
EXTENDS Integers

CONSTANTS
    BPS,        \* the basis point denominator, BPS_DENOMINATOR
    RateUnit    \* the scale of a rate: a rate of 100% is RateUnit

ASSUME RateMathAssumption ==
    /\ BPS \in Nat \ {0}
    /\ RateUnit \in Nat \ {0}

\* emaSmooth reverts (the caller's transaction with it) when alpha exceeds 100%.
emaDefined(alphaBps) == alphaBps <= BPS

emaSmooth(currentRate, previousSmoothed, alphaBps) ==
    IF previousSmoothed = 0
    THEN currentRate
    ELSE (currentRate * alphaBps + previousSmoothed * (BPS - alphaBps)) \div BPS

rateToBps(rate) == (rate * BPS) \div RateUnit

absDiff(a, b) == IF a > b THEN a - b ELSE b - a
=============================================================================
