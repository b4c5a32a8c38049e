------------------------------- MODULE Scoring -------------------------------
(***************************************************************************)
(* src/agent/scoring.py: how the agent scores lending protocols and when   *)
(* it decides to move.  A score is a whole number of points, as the code   *)
(* rounds it to four digits before it compares; the factors are points too, *)
(* rounded down, and the weights are percentages.                          *)
(***************************************************************************)
EXTENDS Integers

CONSTANTS
    Points,                          \* points of a full score: 10 ^ 4
    WeightApy, WeightRisk, WeightCost, WeightStability,   \* in percent
    MaxApy, MaxGas, MaxUtilization, MaxOutflow,           \* ends of the factors' ranges
    ScoreThreshold                   \* least difference worth a rebalance, in points

ASSUME ScoringAssumption ==
    /\ Points \in Nat \ {0}
    /\ {WeightApy, WeightRisk, WeightCost, WeightStability} \subseteq Nat
    /\ WeightApy + WeightRisk + WeightCost + WeightStability = 100
    /\ {MaxApy, MaxGas, MaxUtilization, MaxOutflow} \subseteq Nat
    /\ ScoreThreshold \in Nat \ {0}

\* What the agent knows of a protocol when it scores it: the smoothed rate, the
\* utilization and the change of the value locked, as in the dict the cycle builds.
Quote == [apy : Nat, utilization : Nat, tvlDelta : Int]

\* The value's place between 0 and `top', in points: every range of the code
\* starts at 0.
normalize(value, top) ==
    IF top <= 0 THEN 0
    ELSE IF value <= 0 THEN 0
    ELSE IF value >= top THEN Points
    ELSE (value * Points) \div top

\* Only an outflow counts against a protocol.
Outflow(q) == IF q.tvlDelta < 0 THEN 0 - q.tvlDelta ELSE 0

score_protocol(q, gas) ==
    (WeightApy * normalize(q.apy, MaxApy)
      + WeightRisk * (Points - normalize(q.utilization, MaxUtilization))
      + WeightCost * (Points - normalize(gas, MaxGas))
      + WeightStability * (Points - normalize(Outflow(q), MaxOutflow))) \div 100

-----------------------------------------------------------------------------
(* evaluate, over the protocols that answered, in the order of the readers   *)

Answered(total) == DOMAIN total

\* max takes the first of equals.
IsBestScore(total, i) ==
    /\ i \in Answered(total)
    /\ \A j \in Answered(total) : total[j] <= total[i]
    /\ \A j \in Answered(total) : j < i => total[j] < total[i]

\* The first score stands in for a current protocol that did not answer.
CurrentScore(total, current) ==
    IF current \in Answered(total)
    THEN total[current]
    ELSE total[CHOOSE i \in Answered(total) : \A j \in Answered(total) : i <= j]

\* The decision to move from `current' to `target'.
should_rebalance(total, current, target) ==
    /\ IsBestScore(total, target)
    /\ total[target] - CurrentScore(total, current) >= ScoreThreshold
    /\ target # current
=============================================================================
