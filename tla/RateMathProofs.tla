--------------------------- MODULE RateMathProofs ---------------------------
(* Facts about the EVM's truncating division and the rate arithmetic, for   *)
(* every scale of rates and basis points.                                   *)
EXTENDS RateMath, TLAPS

\* A quotient of naturals is a natural (every division of the contracts).
LEMMA DivNat ==
    ASSUME NEW a \in Nat, NEW b \in Nat \ {0}
    PROVE  a \div b \in Nat
  OBVIOUS

\* A quotient is the largest number whose product does not exceed the dividend.
LEMMA DivBounds ==
    ASSUME NEW a \in Nat, NEW b \in Nat \ {0}
    PROVE  /\ b * (a \div b) <= a
           /\ a < b * (a \div b) + b
  OBVIOUS

\* Truncation keeps order.
LEMMA DivMonotone ==
    ASSUME NEW a \in Nat, NEW c \in Nat, NEW b \in Nat \ {0}, a <= c
    PROVE  a \div b <= c \div b
  OBVIOUS

\* Dividing a multiple gives the factor back.
LEMMA DivExact ==
    ASSUME NEW a \in Nat, NEW b \in Nat \ {0}
    PROVE  (a * b) \div b = a
  OBVIOUS

\* A weighted sum of two naturals lies between equal weights of either.
LEMMA WeightedBetween ==
    ASSUME NEW x \in Nat, NEW y \in Nat, NEW b \in Nat, NEW w \in 0 .. b, x <= y
    PROVE  /\ x * b <= x * w + y * (b - w)
           /\ x * w + y * (b - w) <= y * b
  <1>1. /\ x * b = x * w + x * (b - w)
        /\ y * b = y * w + y * (b - w)
    OBVIOUS
  <1>2. x * (b - w) <= y * (b - w) /\ x * w <= y * w
    OBVIOUS
  <1>. QED  BY <1>1, <1>2

\* The smoothed rate lies between the previous one and the observation, both
\* included, whatever the weight (RateMath.sol emaSmooth): smoothing never
\* overshoots, and truncation never takes it outside.
THEOREM EmaBetween ==
    ASSUME NEW current \in Nat, NEW previous \in Nat \ {0}, NEW alpha \in 0 .. BPS
    PROVE  LET ema == emaSmooth(current, previous, alpha)
           IN  /\ ema \in Nat
               /\ current <= previous => current <= ema /\ ema <= previous
               /\ previous <= current => previous <= ema /\ ema <= current
  <1>. DEFINE sum == current * alpha + previous * (BPS - alpha)
  <1>1. /\ BPS \in Nat \ {0}
        /\ alpha \in Nat /\ BPS - alpha \in Nat
        /\ current * alpha \in Nat /\ previous * (BPS - alpha) \in Nat
        /\ sum \in Nat /\ current * BPS \in Nat /\ previous * BPS \in Nat
    BY RateMathAssumption
  <1>2. emaSmooth(current, previous, alpha) = sum \div BPS
    BY DEF emaSmooth
  <1>3. /\ (current * BPS) \div BPS = current
        /\ (previous * BPS) \div BPS = previous
    BY <1>1, DivExact
  <1>4. ASSUME current <= previous
        PROVE  current <= sum \div BPS /\ sum \div BPS <= previous
    <2>1. current * BPS <= sum /\ sum <= previous * BPS
      BY <1>1, <1>4, WeightedBetween
    <2>. HIDE DEF sum
    <2>. QED  BY <2>1, <1>1, <1>3, DivMonotone
  <1>5. ASSUME previous <= current
        PROVE  previous <= sum \div BPS /\ sum \div BPS <= current
    <2>. DEFINE w == BPS - alpha
    <2>1. w \in 0 .. BPS /\ BPS - w = alpha
      BY <1>1
    <2>2. /\ previous * BPS <= previous * w + current * (BPS - w)
          /\ previous * w + current * (BPS - w) <= current * BPS
      BY <2>1, <1>1, <1>5, WeightedBetween
    <2>3. previous * w + current * (BPS - w) = sum
      BY <2>1, <1>1
    <2>4. previous * BPS <= sum /\ sum <= current * BPS
      BY <2>2, <2>3
    <2>. HIDE DEF sum
    <2>. QED  BY <2>4, <1>1, <1>3, DivMonotone
  <1>6. sum \div BPS \in Nat
    BY <1>1, DivNat
  <1>. QED  BY <1>2, <1>4, <1>5, <1>6
=============================================================================
