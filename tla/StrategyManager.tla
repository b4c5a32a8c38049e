--------------------------- MODULE StrategyManager ---------------------------
(***************************************************************************)
(* src/src/StrategyManager.sol: the smoothed rates, the rebalance nonce    *)
(* and the on-chain decision of the fallback path, over the lending        *)
(* positions the adapters report.                                          *)
(*                                                                         *)
(* The loops of evaluate are written as what they select: the first        *)
(* adapter of highest rate, and the LAST adapter with a position.          *)
(***************************************************************************)
EXTENDS RateMath

CONSTANTS
    AdapterCount,    \* adapters registered by addAdapter
    Rates,           \* the values getSupplyRate may return
    StrategyParams,  \* the settings the owner of the manager chooses among
    Year, Day,       \* 365 days and 1 day, in ticks of the block clock
    MaxNonce         \* bound: the nonce stops there

VARIABLES
    balance,         \* balance[i]: what adapters(i).balance returns
    supplyRate,      \* supplyRate[i]: what adapters(i).getSupplyRate returns
    smoothedRates,
    rebalanceNonce,
    strategyParams   \* minDeltaBps, emAlphaBps, maxRateJumpBps, estimatedRebalanceGas

AdapterIndex == 0 .. AdapterCount - 1

StrategyParamsType ==
    [minDeltaBps : Nat, emAlphaBps : Nat, maxRateJumpBps : Nat,
     estimatedRebalanceGas : Nat]

ASSUME StrategyManagerAssumption ==
    /\ AdapterCount \in Nat
    /\ Rates \subseteq Nat
    /\ StrategyParams \subseteq StrategyParamsType
    /\ Year \in Nat \ {0} /\ Day \in Nat \ {0}
    /\ MaxNonce \in Nat

managerVars == <<supplyRate, smoothedRates, rebalanceNonce, strategyParams>>

StrategyTypeOK ==
    /\ balance \in [AdapterIndex -> Nat]
    /\ supplyRate \in [AdapterIndex -> Nat]
    /\ smoothedRates \in [AdapterIndex -> Nat]
    /\ rebalanceNonce \in Nat
    /\ strategyParams \in StrategyParamsType

StrategyInit ==
    /\ balance = [i \in AdapterIndex |-> 0]
    /\ supplyRate \in [AdapterIndex -> Rates]
    /\ smoothedRates = [i \in AdapterIndex |-> 0]
    /\ rebalanceNonce = 0
    /\ strategyParams \in StrategyParams

-----------------------------------------------------------------------------
(* evaluate *)


\* The raw rate stands in until the first smoothing.
EffectiveRate(i) == IF smoothedRates[i] = 0 THEN supplyRate[i] ELSE smoothedRates[i]

\* Bug: the comparison is the wrong way round.
IsBest_Lowest(b) == \A j \in AdapterIndex : EffectiveRate(j) >= EffectiveRate(b)

\* The strict comparison of the loop keeps the first maximum, and keeps
\* adapter 0 when every rate is zero.
IsBest(b) ==
    /\ \A j \in AdapterIndex : EffectiveRate(j) <= EffectiveRate(b)
    /\ \A j \in AdapterIndex : j < b => EffectiveRate(j) < EffectiveRate(b)

\* The loop overwrites currentIndex at each adapter with a position.
IsCurrent(c) ==
    \/ /\ balance[c] > 0
       /\ \A j \in AdapterIndex : j > c => balance[j] = 0
    \/ /\ c = 0
       /\ \A j \in AdapterIndex : balance[j] = 0

CurrentRate(c) == IF balance[c] > 0 THEN EffectiveRate(c) ELSE 0

\* evaluate answers shouldRebalance with these indices.
ShouldRebalance(from, to, total, gasPrice, since) ==
    /\ AdapterCount >= 2
    /\ total # 0
    /\ IsBest(to)
    /\ IsCurrent(from)
    /\ from # to
    /\ LET apyDelta == absDiff(EffectiveRate(to), CurrentRate(from))
           dailyBenefit == (total * apyDelta) \div Year
       IN  /\ rateToBps(apyDelta) >= strategyParams.minDeltaBps
           /\ (dailyBenefit * since) \div Day
                > gasPrice * strategyParams.estimatedRebalanceGas

-----------------------------------------------------------------------------
(* updateSmoothedRates and consumeNonce, called by the vault and by anyone *)

\* Bug: only a rise counts as a jump.
JumpTooLarge_RisesOnly(i) ==
    /\ smoothedRates[i] > 0
    /\ rateToBps(supplyRate[i] - smoothedRates[i]) > strategyParams.maxRateJumpBps

JumpTooLarge(i) ==
    /\ smoothedRates[i] > 0
    /\ rateToBps(absDiff(supplyRate[i], smoothedRates[i])) > strategyParams.maxRateJumpBps

UpdateSmoothedRates ==
    /\ \A i \in AdapterIndex : ~JumpTooLarge(i) => emaDefined(strategyParams.emAlphaBps)
    /\ smoothedRates' = [i \in AdapterIndex |->
           IF JumpTooLarge(i)
           THEN smoothedRates[i]
           ELSE emaSmooth(supplyRate[i], smoothedRates[i], strategyParams.emAlphaBps)]

\* Bug: the nonce is compared and not incremented.
ConsumeNonce_NotConsumed(expectedNonce) ==
    expectedNonce = rebalanceNonce /\ UNCHANGED rebalanceNonce

ConsumeNonce(expectedNonce) ==
    /\ expectedNonce = rebalanceNonce
    /\ rebalanceNonce' = rebalanceNonce + 1

SetStrategyParameters(p) == strategyParams' = p

\* A lending market moves its rate.
RateMoves(i, r) ==
    /\ r # supplyRate[i]
    /\ supplyRate' = [supplyRate EXCEPT ![i] = r]
=============================================================================
