------------------------- MODULE AIVaultSafetyProofs -------------------------
(***************************************************************************)
(* The safety properties of AIVault that the runs check on small           *)
(* instances, for every value of its constants.                            *)
(***************************************************************************)
EXTENDS AIVaultProofs, FeeAudit

\* The steps that touch neither funds, nor the ledger, nor the strategy, nor
\* decisions.
Quiet == UNCHANGED <<funds, ledger, strategy, decisions, accruedFeeShares>>

\* Which of the owner's steps are quiet.
LEMMA OwnerSteps ==
    ASSUME OwnerNext
    PROVE  (Quiet /\ now' = now /\ rebalanceNonce' = rebalanceNonce)
           \/ emergencyWithdrawAll \/ claimFees
  BY DEF OwnerNext, Quiet, fees, setPaused, setKeeper, setParameters, setFees,
         setStrategyParameters, EnvironmentOnly, managerVars

\* Which of the environment's steps are quiet.
LEMMA EnvironmentSteps ==
    ASSUME WellFormed, EnvironmentNext
    PROVE  /\ now <= now' /\ rebalanceNonce <= rebalanceNonce'
           /\ \/ Quiet
              \/ \E i \in AdapterIndex, a \in Interest : accrue(i, a)
              \/ \E a \in Amounts : donate(a)
  <1>. USE DEF funds, fees, decisions, managerVars, EnvironmentOnly
  <1>0. now \in Nat /\ rebalanceNonce \in Nat
    BY DEF WellFormed, TypeOK, StrategyTypeOK
  <1>1. ASSUME NEW i \in AdapterIndex, NEW a \in Interest, accrue(i, a)
        PROVE  now <= now' /\ rebalanceNonce <= rebalanceNonce'
    BY <1>0, <1>1 DEF accrue
  <1>2. ASSUME NEW a \in Amounts, donate(a)
        PROVE  now <= now' /\ rebalanceNonce <= rebalanceNonce'
    BY <1>0, <1>2 DEF donate
  <1>3. ASSUME NEW i \in AdapterIndex, freeze(i)
        PROVE  Quiet /\ now <= now' /\ rebalanceNonce <= rebalanceNonce'
    BY <1>0, <1>3 DEF freeze, Quiet
  <1>4. ASSUME NEW i \in AdapterIndex, NEW r \in Rates, rateMoves(i, r)
        PROVE  Quiet /\ now <= now' /\ rebalanceNonce <= rebalanceNonce'
    BY <1>0, <1>4 DEF rateMoves, Quiet
  <1>5. ASSUME updateSmoothedRates
        PROVE  Quiet /\ now <= now' /\ rebalanceNonce <= rebalanceNonce'
    BY <1>0, <1>5 DEF updateSmoothedRates, Quiet
  <1>6. ASSUME consumeNonce
        PROVE  Quiet /\ now <= now' /\ rebalanceNonce <= rebalanceNonce'
    BY <1>0, <1>6 DEF consumeNonce, ConsumeNonce, Quiet
  <1>7. ASSUME tick
        PROVE  Quiet /\ now <= now' /\ rebalanceNonce <= rebalanceNonce'
    BY <1>0, <1>7 DEF tick, Quiet
  <1>. QED  BY <1>1, <1>2, <1>3, <1>4, <1>5, <1>6, <1>7 DEF EnvironmentNext

\* What every step of a holder leaves alone.
LEMMA HolderSteps ==
    ASSUME HolderNext
    PROVE  UNCHANGED <<now, fees, strategy, decisions, rebalanceNonce>>
  BY DEF HolderNext, deposit, mint, withdraw, redeem, PayOut, managerVars

-----------------------------------------------------------------------------
(* Nonces *)

\* Every nonce executed has been consumed.
NoncesConsumed == \A e \in executed : e.decision.nonce < rebalanceNonce

\* No two executions are of the same nonce: rebalance consumes the nonce it
\* compares, nothing else lowers it, and an executed decision's nonce is
\* therefore below any that can still be executed.
THEOREM NoncesExecutedOnce == Spec => []NonceExecutedOnce
  <1>. DEFINE Inv == NoncesConsumed /\ NonceExecutedOnce
  <1>1. Init => Inv
    BY DEF Init, NoncesConsumed, NonceExecutedOnce
  <1>2. WellFormed /\ Inv /\ [Next]_vars => Inv'
    <2>. SUFFICES ASSUME WellFormed, Inv, [Next]_vars PROVE Inv'
      OBVIOUS
    <2>0. /\ rebalanceNonce \in Nat /\ executed \subseteq Execution /\ signed \subseteq Decision
          /\ \A e \in executed : e.decision.nonce \in Nat
      BY DEF WellFormed, TypeOK, StrategyTypeOK, Execution, Decision
    <2>1. ASSUME executed' = executed, rebalanceNonce <= rebalanceNonce',
                 rebalanceNonce' \in Nat
          PROVE  Inv'
      BY <2>0, <2>1 DEF NoncesConsumed, NonceExecutedOnce
    <2>2. ASSUME NEW loss \in Losses, NEW d \in signed, rebalance(d, loss)
          PROVE  Inv'
      <3>1. d.nonce = rebalanceNonce /\ rebalanceNonce' = rebalanceNonce + 1
        BY <2>2 DEF rebalance, ConsumeNonce
      <3>. DEFINE x == [decision |-> d, foundActive |-> activeAdapterIndex, at |-> now]
      <3>2. executed' = executed \cup {x} /\ x.decision.nonce = rebalanceNonce
        BY <2>2, <3>1 DEF rebalance
      <3>. HIDE DEF x
      <3>. QED  BY <2>0, <3>1, <3>2 DEF NoncesConsumed, NonceExecutedOnce
    <2>3. rebalanceNonce' \in Nat
      <3>. WellFormed'
        BY WellFormedStep
      <3>. QED  BY DEF WellFormed, TypeOK, StrategyTypeOK
    <2>4. CASE UNCHANGED vars
      BY <2>0, <2>1, <2>4 DEF vars, decisions, managerVars
    <2>5. CASE HolderNext
      BY <2>0, <2>1, <2>5, HolderSteps DEF decisions
    <2>6. CASE RebalanceNext
      <3>1. ASSUME NEW from \in AdapterIndex, NEW to \in AdapterIndex, NEW g \in GasPrices,
                   NEW loss \in Losses, performUpkeep(from, to, g, loss)
            PROVE  Inv'
        BY <2>0, <2>1, <3>1 DEF performUpkeep
      <3>. QED  BY <2>2, <2>6, <3>1 DEF RebalanceNext
    <2>7. CASE OwnerNext
      <3>1. executed' = executed /\ rebalanceNonce' = rebalanceNonce
        BY <2>7, OwnerSteps
        DEF Quiet, emergencyWithdrawAll, claimFees, decisions, managerVars
      <3>. QED  BY <2>0, <2>1, <3>1
    <2>8. CASE AgentNext
      BY <2>0, <2>1, <2>8 DEF AgentNext, sign, managerVars
    <2>9. CASE EnvironmentNext
      <3>1. executed' = executed
        BY <2>9, EnvironmentSteps DEF Quiet, accrue, donate, EnvironmentOnly, decisions
      <3>. QED  BY <2>0, <2>1, <2>3, <2>9, <3>1, EnvironmentSteps
    <2>. QED  BY <2>4, <2>5, <2>6, <2>7, <2>8, <2>9 DEF Next
  <1>. QED  BY <1>1, <1>2, WellFormedAlways, PTL DEF Spec

-----------------------------------------------------------------------------
(* Decisions *)

\* The settings keep every cooldown longer than a signature can live, the lead
\* of the agent's clock included.
CooldownOutlastsSignature == \A p \in VaultParams :
    p.cooldownPeriod > SignatureMaxAge + ClockSkew

\* What is known of a decision while it waits: it was signed in the past, by a
\* clock at most ClockSkew ahead, and either the adapter its agent saw is still
\* active or a rebalance has started a cooldown since.
DecisionsTimely ==
    /\ vaultParams \in VaultParams
    /\ \A d \in signed :
           /\ d.signedAt <= now
           /\ d.timestamp <= d.signedAt + ClockSkew
           /\ d.seenActive = activeAdapterIndex \/ d.signedAt <= lastRebalanceTimestamp

\* With such settings no decision is executed after another rebalance, of
\* either path, has moved the vault since its agent looked: any rebalance starts
\* a cooldown that outlives the signature.  This is what stands in for a nonce
\* on the fallback path, which consumes none.
THEOREM DecisionsStillCurrent ==
    ASSUME CooldownOutlastsSignature
    PROVE  Spec => []DecisionStillCurrent
  <1>. DEFINE Inv == DecisionsTimely /\ DecisionStillCurrent
  <1>1. Init => Inv
    BY DEF Init, DecisionsTimely, DecisionStillCurrent
  <1>2. WellFormed /\ Inv /\ [Next]_vars => Inv'
    <2>. SUFFICES ASSUME WellFormed, Inv, [Next]_vars PROVE Inv'
      OBVIOUS
    <2>0. /\ now \in Nat /\ lastRebalanceTimestamp \in Nat
          /\ ClockSkew \in Nat /\ SignatureMaxAge \in Nat
          /\ \A d \in signed : d.signedAt \in Nat /\ d.timestamp \in Nat
      BY AIVaultAssumption DEF WellFormed, TypeOK, Decision
    <2>1. ASSUME UNCHANGED <<decisions, activeAdapterIndex, lastRebalanceTimestamp>>,
                 now' \in Nat, now <= now', vaultParams' \in VaultParams
          PROVE  Inv'
      BY <2>0, <2>1 DEF DecisionsTimely, DecisionStillCurrent, decisions
    <2>2. ASSUME NEW from \in AdapterIndex, NEW to \in AdapterIndex, NEW maxLossBps,
                 NEW loss \in Losses, Rebalanced(from, to, maxLossBps, loss)
          PROVE  DecisionsTimely'
      <3>1. lastRebalanceTimestamp' = now /\ UNCHANGED <<now, vaultParams, signed>>
        BY <2>2 DEF Rebalanced, admin
      <3>. QED  BY <2>0, <3>1 DEF DecisionsTimely
    <2>3. ASSUME NEW d \in signed, CooldownElapsed, Fresh(d)
          PROVE  d.seenActive = activeAdapterIndex
      <3>1. /\ d.timestamp <= d.signedAt + ClockSkew
            /\ d.seenActive = activeAdapterIndex \/ d.signedAt <= lastRebalanceTimestamp
            /\ vaultParams.cooldownPeriod > SignatureMaxAge + ClockSkew
        BY <2>3 DEF DecisionsTimely, CooldownOutlastsSignature
      <3>2. /\ now >= lastRebalanceTimestamp + vaultParams.cooldownPeriod
            /\ now <= d.timestamp + SignatureMaxAge
        BY <2>3 DEF CooldownElapsed, Fresh
      <3>3. vaultParams.cooldownPeriod \in Nat
        BY DEF WellFormed, TypeOK, VaultParamsType
      <3>. QED  BY <2>0, <2>3, <3>1, <3>2, <3>3
    <2>4. CASE UNCHANGED vars
      BY <2>0, <2>1, <2>4 DEF vars, strategy, admin, DecisionsTimely
    <2>5. CASE HolderNext
      <3>1. vaultParams' = vaultParams
        BY <2>5 DEF HolderNext, deposit, mint, withdraw, redeem, PayOut, admin
      <3>. QED  BY <2>0, <2>1, <2>5, <3>1, HolderSteps DEF strategy, DecisionsTimely
    <2>6. CASE RebalanceNext
      <3>1. ASSUME NEW loss \in Losses, NEW d \in signed, rebalance(d, loss)
            PROVE  Inv'
        <4>1. d.seenActive = activeAdapterIndex
          BY <2>3, <3>1 DEF rebalance
        <4>2. d.targetAdapterIndex \in AdapterIndex /\ activeAdapterIndex \in AdapterIndex
          BY <3>1, AIVaultAssumption
          DEF rebalance, AdapterIndex, WellFormed, TypeOK, Decision
        <4>3. DecisionsTimely'
          BY <2>2, <3>1, <4>2 DEF rebalance
        <4>. DEFINE x == [decision |-> d, foundActive |-> activeAdapterIndex, at |-> now]
        <4>4. executed' = executed \cup {x}
          BY <3>1 DEF rebalance
        <4>5. x.foundActive = x.decision.seenActive
          BY <4>1
        <4>. HIDE DEF x
        <4>. QED  BY <4>3, <4>4, <4>5 DEF DecisionStillCurrent
      <3>2. ASSUME NEW from \in AdapterIndex, NEW to \in AdapterIndex, NEW g \in GasPrices,
                   NEW loss \in Losses, performUpkeep(from, to, g, loss)
            PROVE  Inv'
        <4>1. DecisionsTimely' /\ executed' = executed
          BY <2>2, <3>2 DEF performUpkeep
        <4>. QED  BY <4>1 DEF DecisionStillCurrent
      <3>. QED  BY <2>6, <3>1, <3>2 DEF RebalanceNext
    <2>7. CASE OwnerNext
      <3>1. vaultParams' \in VaultParams
        BY <2>7
        DEF OwnerNext, setPaused, emergencyWithdrawAll, setKeeper, setParameters, setFees,
            claimFees, setStrategyParameters, EnvironmentOnly, admin, DecisionsTimely
      <3>2. UNCHANGED <<decisions, activeAdapterIndex, lastRebalanceTimestamp, now>>
        BY <2>7, OwnerSteps DEF Quiet, emergencyWithdrawAll, claimFees, strategy
      <3>. QED  BY <2>0, <2>1, <3>1, <3>2
    <2>8. CASE AgentNext
      <3>1. PICK k \in Keys, i \in AdapterIndex, m \in MaxLosses, ahead \in 0 .. ClockSkew :
               sign(k, i, m, now + ahead)
        BY <2>8 DEF AgentNext
      <3>. DEFINE d == [targetAdapterIndex |-> i, maxLossBps |-> m, timestamp |-> now + ahead,
                        nonce |-> rebalanceNonce, key |-> k, signedAt |-> now,
                        seenActive |-> activeAdapterIndex]
      <3>2. signed' = signed \cup {d}
            /\ UNCHANGED <<now, strategy, vaultParams, executed>>
        BY <3>1 DEF sign, admin
      <3>3. d.signedAt <= now /\ d.timestamp <= d.signedAt + ClockSkew
            /\ d.seenActive = activeAdapterIndex
        BY <2>0
      <3>. HIDE DEF d
      <3>. QED  BY <3>2, <3>3 DEF DecisionsTimely, DecisionStillCurrent, strategy
    <2>9. CASE EnvironmentNext
      <3>1. UNCHANGED <<decisions, activeAdapterIndex, lastRebalanceTimestamp, vaultParams>>
        BY <2>9, EnvironmentSteps
        DEF EnvironmentNext, accrue, donate, freeze, rateMoves, updateSmoothedRates,
            consumeNonce, tick, EnvironmentOnly, strategy, admin
      <3>2. now' \in Nat
        BY WellFormedStep DEF WellFormed, TypeOK
      <3>. QED  BY <2>0, <2>1, <2>9, <3>1, <3>2, EnvironmentSteps DEF DecisionsTimely
    <2>. QED  BY <2>4, <2>5, <2>6, <2>7, <2>8, <2>9 DEF Next
  <1>. QED  BY <1>1, <1>2, WellFormedAlways, PTL DEF Spec

-----------------------------------------------------------------------------
(* Smoothing *)

\* One smoothing moves no rate by more than the guard: the new value lies
\* between the old one and an observation the guard has let through.
THEOREM SmoothingStaysWithinGuard == Spec => SmoothingWithinGuard
  <1>. DEFINE Moves == \A i \in AdapterIndex : smoothedRates[i] > 0 =>
                 rateToBps(absDiff(smoothedRates'[i], smoothedRates[i]))
                     <= strategyParams.maxRateJumpBps
  <1>1. WellFormed /\ [Next]_vars => [Moves]_vars
    <2>. SUFFICES ASSUME WellFormed, Next PROVE Moves
      BY DEF vars, funds, ledger, fees, feeRates, strategy, admin, decisions, managerVars
    <2>. SUFFICES ASSUME NEW i \in AdapterIndex, smoothedRates[i] > 0
                  PROVE  rateToBps(absDiff(smoothedRates'[i], smoothedRates[i]))
                           <= strategyParams.maxRateJumpBps
      OBVIOUS
    <2>1. /\ smoothedRates[i] \in Nat \ {0} /\ supplyRate[i] \in Nat
          /\ strategyParams.maxRateJumpBps \in Nat /\ strategyParams.emAlphaBps \in Nat
          /\ BPS \in Nat \ {0} /\ RateUnit \in Nat \ {0}
      BY RateMathAssumption DEF WellFormed, TypeOK, StrategyTypeOK, StrategyParamsType
    <2>2. ASSUME NEW d \in Nat, NEW e \in Nat, d <= e
          PROVE  rateToBps(d) <= rateToBps(e)
      <3>1. d * BPS \in Nat /\ e * BPS \in Nat /\ d * BPS <= e * BPS
        BY <2>1, <2>2
      <3>. QED  BY <3>1, <2>1, DivMonotone DEF rateToBps
    <2>3. CASE smoothedRates' = smoothedRates
      <3>1. absDiff(smoothedRates'[i], smoothedRates[i]) = 0
        BY <2>1, <2>3 DEF absDiff
      <3>2. rateToBps(0) = 0
        BY <2>1 DEF rateToBps
      <3>. QED  BY <2>1, <3>1, <3>2
    <2>4. CASE UpdateSmoothedRates
      <3>. DEFINE ema == emaSmooth(supplyRate[i], smoothedRates[i], strategyParams.emAlphaBps)
      <3>1. smoothedRates'[i] = IF JumpTooLarge(i) THEN smoothedRates[i] ELSE ema
        BY <2>4 DEF UpdateSmoothedRates
      <3>2. CASE JumpTooLarge(i)
        <4>1. absDiff(smoothedRates'[i], smoothedRates[i]) = 0
          BY <2>1, <3>1, <3>2 DEF absDiff
        <4>2. rateToBps(0) = 0
          BY <2>1 DEF rateToBps
        <4>. QED  BY <2>1, <4>1, <4>2
      <3>3. CASE ~JumpTooLarge(i)
        <4>. DEFINE d == absDiff(ema, smoothedRates[i])
                    e == absDiff(supplyRate[i], smoothedRates[i])
        <4>1. strategyParams.emAlphaBps \in 0 .. BPS
          BY <2>1, <2>4, <3>3 DEF UpdateSmoothedRates, emaDefined
        <4>2. /\ ema \in Nat
              /\ supplyRate[i] <= smoothedRates[i] =>
                    supplyRate[i] <= ema /\ ema <= smoothedRates[i]
              /\ smoothedRates[i] <= supplyRate[i] =>
                    smoothedRates[i] <= ema /\ ema <= supplyRate[i]
          BY <2>1, <4>1, EmaBetween
        <4>. HIDE DEF ema
        <4>3. d \in Nat /\ e \in Nat /\ d <= e
          BY <2>1, <4>2 DEF absDiff
        <4>4. rateToBps(d) <= rateToBps(e) /\ rateToBps(d) \in Nat /\ rateToBps(e) \in Nat
          <5>1. d * BPS \in Nat /\ e * BPS \in Nat
            BY <2>1, <4>3
          <5>. QED  BY <2>1, <2>2, <4>3, <5>1, DivNat DEF rateToBps
        <4>5. rateToBps(e) <= strategyParams.maxRateJumpBps
          BY <2>1, <3>3, <4>4 DEF JumpTooLarge
        <4>6. smoothedRates'[i] = ema
          BY <3>1, <3>3
        <4>. QED  BY <2>1, <4>4, <4>5, <4>6
      <3>. QED  BY <3>2, <3>3
    <2>5. smoothedRates' = smoothedRates \/ UpdateSmoothedRates
      <3>1. CASE HolderNext
        BY <3>1 DEF HolderNext, deposit, mint, withdraw, redeem, PayOut, managerVars
      <3>2. CASE RebalanceNext
        BY <3>2 DEF RebalanceNext, rebalance, performUpkeep, Rebalanced
      <3>3. CASE OwnerNext
        BY <3>3 DEF OwnerNext, setPaused, emergencyWithdrawAll, setKeeper, setParameters,
             setFees, claimFees, setStrategyParameters, managerVars
      <3>4. CASE AgentNext
        BY <3>4 DEF AgentNext, sign, managerVars
      <3>5. CASE EnvironmentNext
        BY <3>5 DEF EnvironmentNext, accrue, donate, freeze, rateMoves, updateSmoothedRates,
             consumeNonce, tick, managerVars
      <3>. QED  BY <3>1, <3>2, <3>3, <3>4, <3>5 DEF Next
    <2>. QED  BY <2>3, <2>4, <2>5
  <1>. QED  BY <1>1, WellFormedAlways, PTL DEF Spec, SmoothingWithinGuard

-----------------------------------------------------------------------------
(* Liquidity *)

\* The totals that every conversion divides by.
LEMMA Totals ==
    ASSUME WellFormed
    PROVE  /\ totalAssets \in Nat /\ totalSupply \in Nat /\ VirtualShares \in Nat \ {0}
           /\ totalAssets + 1 \in Nat \ {0}
           /\ totalSupply + VirtualShares \in Nat \ {0}
  <1>1. totalAssets \in Nat
    BY ReadTypes DEF WellFormed
  <1>2. totalSupply \in Nat
    BY DEF WellFormed, TypeOK
  <1>. QED  BY <1>1, <1>2, ConstantTypes

\* Nobody holds more shares than there are.
LEMMA HeldWithinSupply ==
    ASSUME WellFormed, NEW h \in Holder
    PROVE  shares[h] \in Nat /\ shares[h] <= totalSupply
  <1>1. shares \in [Holder -> Nat] /\ shares[h] \in Nat
    BY DEF WellFormed, TypeOK
  <1>. DEFINE Own == {h} \X (1 .. shares[h])
  <1>2. IsFiniteSet(1 .. shares[h]) /\ Cardinality(1 .. shares[h]) = shares[h]
    BY <1>1, FS_Interval
  <1>3. IsFiniteSet(Own) /\ Cardinality(Own) = shares[h]
    BY <1>2, PairWith
  <1>4. Own \in SUBSET ShareUnits(shares)
    BY DEF ShareUnits
  <1>. HIDE DEF Own
  <1>5. IsFiniteSet(ShareUnits(shares)) /\ Cardinality(ShareUnits(shares)) = totalSupply
    BY DEF WellFormed, SupplyHeld
  <1>6. Cardinality(Own) <= Cardinality(ShareUnits(shares))
    BY <1>4, <1>5, FS_Subset
  <1>. QED  BY <1>1, <1>3, <1>5, <1>6

\* What maxWithdraw offers is in the vault or in its pools.
LEMMA MaxWithdrawCovered ==
    ASSUME WellFormed, NEW h \in Holder
    PROVE  maxWithdraw(h) \in Nat /\ maxWithdraw(h) <= totalAssets
  <1>. DEFINE S == totalSupply + VirtualShares
              q == maxWithdraw(h)
  <1>1. /\ shares[h] \in Nat /\ S \in Nat \ {0} /\ shares[h] + 1 <= S
        /\ totalAssets \in Nat
    <2>1. shares[h] \in Nat /\ shares[h] <= totalSupply
      BY HeldWithinSupply
    <2>. QED  BY <2>1, Totals
  <1>2. q = (shares[h] * (totalAssets + 1)) \div S
    BY DEF maxWithdraw, convertToAssets
  <1>. HIDE DEF S, q
  <1>3. q \in Nat /\ S * q <= shares[h] * (totalAssets + 1)
    <2>1. shares[h] * (totalAssets + 1) \in Nat
      BY <1>1
    <2>. QED  BY <1>1, <1>2, <2>1, DivNat, DivBounds
  <1>4. ASSUME q >= totalAssets + 1 PROVE FALSE
    <2>1. S * (totalAssets + 1) <= S * q
      BY <1>1, <1>3, <1>4
    <2>2. (shares[h] + 1) * (totalAssets + 1) <= S * (totalAssets + 1)
      BY <1>1
    <2>3. shares[h] * (totalAssets + 1) < (shares[h] + 1) * (totalAssets + 1)
      BY <1>1
    <2>4. /\ S * q \in Nat /\ S * (totalAssets + 1) \in Nat
          /\ (shares[h] + 1) * (totalAssets + 1) \in Nat
          /\ shares[h] * (totalAssets + 1) \in Nat
      BY <1>1, <1>3
    <2>. QED  BY <1>3, <2>1, <2>2, <2>3, <2>4
  <1>. QED  BY <1>1, <1>3, <1>4 DEF q

\* Asking for no more than totalAssets pulls enough from the pools.
LEMMA PullsEnough ==
    ASSUME TypeOK, NEW a \in Nat
    PROVE  /\ a <= totalAssets => IdleAfterPull(a) >= a
           /\ IdleAfterPull(a) = idle + PulledFrom(0, a) + PulledFrom(1, a)
           /\ PulledFrom(0, a) \in 0 .. balance[0] /\ PulledFrom(1, a) \in 0 .. balance[1]
  <1>. DEFINE needed == IF idle >= a THEN 0 ELSE a - idle
  <1>1. /\ idle \in Nat /\ balance[0] \in Nat /\ balance[1] \in Nat
        /\ totalAssets = idle + (balance[0] + balance[1])
    BY ReadTypes DEF TypeOK, totalAssets, Deployed
  <1>2. needed \in Nat /\ needed >= a - idle
    BY <1>1
  <1>3. a <= totalAssets => needed <= balance[0] + balance[1]
    BY <1>1
  <1>4. FirstSource = 0 \/ FirstSource = 1
    BY ConstantTypes DEF FirstSource, TypeOK
  <1>5. \A i \in {0, 1} : PulledFrom(i, a) =
          IF i = FirstSource THEN Smaller(needed, balance[FirstSource])
          ELSE Smaller(needed - Smaller(needed, balance[FirstSource]), balance[i])
    BY DEF PulledFrom, needed
  <1>. HIDE DEF needed
  <1>6. CASE FirstSource = 0
    <2>1. /\ PulledFrom(0, a) = Smaller(needed, balance[0])
          /\ PulledFrom(1, a) = Smaller(needed - Smaller(needed, balance[0]), balance[1])
      BY <1>5, <1>6
    <2>. QED  BY <1>1, <1>2, <1>3, <2>1 DEF IdleAfterPull, Smaller
  <1>7. CASE FirstSource = 1
    <2>1. /\ PulledFrom(1, a) = Smaller(needed, balance[1])
          /\ PulledFrom(0, a) = Smaller(needed - Smaller(needed, balance[1]), balance[0])
      BY <1>5, <1>7
    <2>. QED  BY <1>1, <1>2, <1>3, <2>1 DEF IdleAfterPull, Smaller
  <1>. QED  BY <1>4, <1>6, <1>7

\* Whatever the positions and the strategy, a withdrawal within maxWithdraw is
\* covered by what _ensureLiquidity can pull.
THEOREM WithdrawalsServed == Spec => []WithdrawalServed
  <1>1. WellFormed => WithdrawalServed
    <2>. SUFFICES ASSUME WellFormed, NEW h \in Holder, NEW a \in 0 .. maxWithdraw(h)
                  PROVE  IdleAfterPull(a) >= a
      BY DEF WithdrawalServed
    <2>1. a \in Nat /\ a <= totalAssets
      BY MaxWithdrawCovered, ReadTypes DEF WellFormed
    <2>. QED  BY <2>1, PullsEnough DEF WellFormed
  <1>. QED  BY <1>1, WellFormedAlways, PTL

-----------------------------------------------------------------------------
(* Custody *)

\* Where no pool is credited while it is empty, the active adapter is the only
\* one with funds: deposits go to it, a rebalance empties the one it leaves,
\* and evaluate's search for the current position finds the active adapter.
THEOREM OnlyActiveIsFunded ==
    ASSUME CreditAny = FALSE
    PROVE  Spec => []OnlyActiveFunded
  <1>1. Init => OnlyActiveFunded
    BY DEF Init, StrategyInit, OnlyActiveFunded
  <1>2. WellFormed /\ OnlyActiveFunded /\ [Next]_vars => OnlyActiveFunded'
    <2>. SUFFICES ASSUME WellFormed, OnlyActiveFunded, [Next]_vars PROVE OnlyActiveFunded'
      OBVIOUS
    <2>0. /\ balance \in [AdapterIndex -> Nat] /\ idle \in Nat
          /\ activeAdapterIndex \in AdapterIndex
      BY DEF WellFormed, TypeOK, StrategyTypeOK
    <2>1. ASSUME UNCHANGED <<balance, strategy>> PROVE OnlyActiveFunded'
      BY <2>1 DEF OnlyActiveFunded, strategy
    <2>2. ASSUME NEW assets \in Nat, NEW loss \in Losses, TakeAndDeploy(assets, loss),
                 UNCHANGED strategy
          PROVE  OnlyActiveFunded'
      <3>1. loss \in Nat /\ loss <= ToDeploy(idle + assets)
            /\ balance' = [balance EXCEPT ![activeAdapterIndex] =
                             @ + ToDeploy(idle + assets) - loss]
        BY <2>2, ConstantTypes DEF TakeAndDeploy
      <3>2. CASE hasActiveStrategy
        BY <2>0, <2>2, <3>1, <3>2 DEF OnlyActiveFunded, strategy
      <3>3. CASE ~hasActiveStrategy
        <4>1. ToDeploy(idle + assets) = 0
          BY <3>3 DEF ToDeploy
        <4>2. balance' = balance
          BY <2>0, <3>1, <4>1
        <4>. QED  BY <2>2, <4>2 DEF OnlyActiveFunded, strategy
      <3>. QED  BY <3>2, <3>3
    <2>3. ASSUME NEW h \in Holder, NEW assets \in Nat, NEW amount, PayOut(h, assets, amount)
          PROVE  OnlyActiveFunded'
      <3>1. /\ balance' = [i \in AdapterIndex |-> balance[i] - PulledFrom(i, assets)]
            /\ UNCHANGED strategy
        BY <2>3 DEF PayOut
      <3>2. \A i \in AdapterIndex : PulledFrom(i, assets) \in Nat
        BY <2>0, PulledTypes DEF WellFormed
      <3>. QED  BY <2>0, <3>1, <3>2 DEF OnlyActiveFunded, strategy
    <2>4. ASSUME NEW from \in AdapterIndex, NEW to \in AdapterIndex, NEW maxLossBps,
                 NEW loss \in Losses, Rebalanced(from, to, maxLossBps, loss),
                 \A i \in AdapterIndex : balance[i] > 0 => i = from
          PROVE  OnlyActiveFunded'
      <3>1. activeAdapterIndex' = to /\ hasActiveStrategy' = TRUE /\ MoveFunds(from, to, loss)
        BY <2>4 DEF Rebalanced
      <3>2. CASE from = to
        BY <2>4, <3>1, <3>2 DEF MoveFunds, funds, OnlyActiveFunded
      <3>3. CASE from # to
        <4>1. \A i \in AdapterIndex : i # to => balance'[i] = 0
          BY <2>0, <2>4, <3>1, <3>3 DEF MoveFunds
        <4>. QED  BY <3>1, <4>1 DEF OnlyActiveFunded
      <3>. QED  BY <3>2, <3>3
    <2>5. CASE UNCHANGED vars
      BY <2>1, <2>5 DEF vars, funds, strategy
    <2>6. CASE HolderNext
      <3>1. PICK h \in Holder :
              \/ \E a \in Amounts, loss \in Losses : deposit(h, a, loss)
              \/ \E n \in ShareAmounts, loss \in Losses : mint(h, n, loss)
              \/ \E a \in Amounts \cup {maxWithdraw(h)} : withdraw(h, a)
              \/ \E n \in ShareAmounts \cup {shares[h]} : redeem(h, n)
        BY <2>6 DEF HolderNext
      <3>2. Amounts \subseteq Nat /\ ShareAmounts \subseteq Nat /\ shares[h] \in Nat
        BY AIVaultAssumption, HeldWithinSupply
      <3>3. ASSUME NEW a \in Amounts, NEW loss \in Losses, deposit(h, a, loss)
            PROVE  OnlyActiveFunded'
        BY <2>2, <3>2, <3>3 DEF deposit
      <3>4. ASSUME NEW n \in ShareAmounts, NEW loss \in Losses, mint(h, n, loss)
            PROVE  OnlyActiveFunded'
        BY <2>2, <3>2, <3>4, ReadTypes DEF mint, WellFormed
      <3>5. ASSUME NEW a \in Amounts \cup {maxWithdraw(h)}, withdraw(h, a)
            PROVE  OnlyActiveFunded'
        BY <2>3, <3>2, <3>5, ReadTypes DEF withdraw, WellFormed
      <3>6. ASSUME NEW n \in ShareAmounts \cup {shares[h]}, redeem(h, n)
            PROVE  OnlyActiveFunded'
        BY <2>3, <3>2, <3>6, ReadTypes DEF redeem, WellFormed
      <3>. QED  BY <3>1, <3>3, <3>4, <3>5, <3>6
    <2>7. CASE RebalanceNext
      <3>1. ASSUME NEW loss \in Losses, NEW d \in signed, rebalance(d, loss)
            PROVE  OnlyActiveFunded'
        <4>1. d.targetAdapterIndex \in AdapterIndex
          <5>1. d.targetAdapterIndex \in Nat
            BY DEF WellFormed, TypeOK, Decision
          <5>. QED  BY <3>1, <5>1, AIVaultAssumption DEF rebalance, AdapterIndex
        <4>. QED  BY <2>0, <2>4, <3>1, <4>1 DEF rebalance, OnlyActiveFunded
      <3>2. ASSUME NEW from \in AdapterIndex, NEW to \in AdapterIndex, NEW g \in GasPrices,
                   NEW loss \in Losses, performUpkeep(from, to, g, loss)
            PROVE  OnlyActiveFunded'
        <4>1. IsCurrent(from)
          BY <3>2 DEF performUpkeep, UpkeepNeeded, ShouldRebalance
        <4>2. \A i \in AdapterIndex : balance[i] > 0 => i = from
          BY <2>0, <4>1 DEF IsCurrent, OnlyActiveFunded
        <4>. QED  BY <2>4, <3>2, <4>2 DEF performUpkeep
      <3>. QED  BY <2>7, <3>1, <3>2 DEF RebalanceNext
    <2>8. CASE OwnerNext
      <3>1. CASE emergencyWithdrawAll
        BY <3>1 DEF emergencyWithdrawAll, OnlyActiveFunded
      <3>2. CASE claimFees
        BY <2>1, <3>2 DEF claimFees, funds
      <3>. QED  BY <2>1, <2>8, <3>1, <3>2, OwnerSteps DEF Quiet, funds
    <2>9. CASE AgentNext
      BY <2>1, <2>9 DEF AgentNext, sign, funds
    <2>10. CASE EnvironmentNext
      <3>1. ASSUME NEW i \in AdapterIndex, NEW a \in Interest, accrue(i, a)
            PROVE  OnlyActiveFunded'
        <4>1. /\ balance[i] > 0 /\ balance' = [balance EXCEPT ![i] = @ + a]
              /\ UNCHANGED strategy
          BY <3>1 DEF accrue, EnvironmentOnly
        <4>. QED  BY <2>0, <4>1 DEF OnlyActiveFunded, strategy
      <3>2. ASSUME NEW a \in Amounts, donate(a) PROVE OnlyActiveFunded'
        BY <2>1, <3>2 DEF donate, EnvironmentOnly
      <3>. QED  BY <2>1, <2>10, <3>1, <3>2, EnvironmentSteps DEF Quiet, funds
    <2>. QED  BY <2>5, <2>6, <2>7, <2>8, <2>9, <2>10 DEF Next
  <1>. QED  BY <1>1, <1>2, WellFormedAlways, PTL DEF Spec

-----------------------------------------------------------------------------
(* The fallback *)

\* evaluate answers with an adapter that holds a position, if one does, and the
\* daily benefit above the cost of the gas takes a rate above that position's.
LEMMA FallbackFindsBetter ==
    ASSUME WellFormed, NEW from \in AdapterIndex, NEW to \in AdapterIndex,
           balance[from] > 0, NEW gas \in Nat, NEW total \in Nat, NEW since \in Nat,
           ShouldRebalance(from, to, total, gas, since)
    PROVE  EffectiveRate(from) < EffectiveRate(to)
  <1>0. /\ balance \in [AdapterIndex -> Nat]
        /\ supplyRate \in [AdapterIndex -> Nat] /\ smoothedRates \in [AdapterIndex -> Nat]
        /\ strategyParams.estimatedRebalanceGas \in Nat
        /\ Year \in Nat \ {0} /\ Day \in Nat \ {0}
    BY StrategyManagerAssumption DEF WellFormed, TypeOK, StrategyTypeOK, StrategyParamsType
  <1>2. /\ EffectiveRate(from) \in Nat /\ EffectiveRate(to) \in Nat
        /\ EffectiveRate(from) <= EffectiveRate(to)
    BY <1>0 DEF EffectiveRate, ShouldRebalance, IsBest
  <1>. DEFINE delta == absDiff(EffectiveRate(to), EffectiveRate(from))
              daily == (total * delta) \div Year
              benefit == (daily * since) \div Day
              cost == gas * strategyParams.estimatedRebalanceGas
  <1>3. benefit > cost
    BY DEF ShouldRebalance, CurrentRate
  <1>4. cost \in Nat
    BY <1>0
  <1>5. ASSUME EffectiveRate(from) = EffectiveRate(to) PROVE FALSE
    <2>1. delta = 0
      BY <1>2, <1>5 DEF absDiff
    <2>2. daily = 0
      <3>1. total * delta = 0
        BY <2>1
      <3>. QED  BY <1>0, <3>1
    <2>3. benefit = 0
      <3>. HIDE DEF daily
      <3>1. daily * since = 0
        BY <2>2
      <3>. QED  BY <1>0, <3>1
    <2>. HIDE DEF benefit, cost
    <2>. QED  BY <1>3, <1>4, <2>3
  <1>. QED  BY <1>2, <1>5

\* A move takes funds from its source alone: what its target is credited covers
\* what it loses.
LEMMA OnlySourceFalls ==
    ASSUME WellFormed, NEW from \in AdapterIndex, NEW to \in AdapterIndex,
           NEW loss \in Losses, MoveFunds(from, to, loss),
           NEW i \in AdapterIndex, balance'[i] < balance[i]
    PROVE  i = from /\ balance[from] > 0
  <1>0. /\ balance \in [AdapterIndex -> Nat] /\ idle \in Nat /\ loss \in Nat
        /\ \A t \in Nat : targetIdle(t) \in Nat
    <2>1. \A t \in Nat : targetIdle(t) \in Nat
      BY ReadTypes DEF WellFormed
    <2>2. Losses \subseteq Nat
      BY AIVaultAssumption DEF Losses
    <2>. QED  BY <2>1, <2>2 DEF WellFormed, TypeOK, StrategyTypeOK
  <1>1. from # to
    BY <1>0 DEF MoveFunds, funds
  <1>. DEFINE held == idle + balance[from]
              toSupply == IF held > targetIdle(held) THEN held - targetIdle(held) ELSE 0
  <1>2. held \in Nat /\ toSupply \in Nat
    <2>1. held \in Nat
      BY <1>0
    <2>2. targetIdle(held) \in Nat
      <3>. HIDE DEF held
      <3>. QED  BY <1>0, <2>1
    <2>. QED  BY <2>1, <2>2
  <1>3. /\ loss <= toSupply
        /\ balance' = [balance EXCEPT ![from] = 0, ![to] = @ + toSupply - loss]
    BY <1>1 DEF MoveFunds
  <1>. HIDE DEF held, toSupply
  <1>. QED  BY <1>0, <1>1, <1>2, <1>3

\* The fallback takes funds from a pool to one of a higher rate only, whatever the
\* positions and the agent's decisions were.
THEOREM FallbackOnlyClimbs == Spec => FallbackClimbs
  <1>1. WellFormed /\ [Next]_vars =>
           [lastRebalanceTimestamp' # lastRebalanceTimestamp
                /\ rebalanceNonce' = rebalanceNonce
            => \A i \in AdapterIndex : balance'[i] < balance[i] =>
                   EffectiveRate(i) < EffectiveRate(activeAdapterIndex')]_vars
    <2>. SUFFICES ASSUME WellFormed, Next,
                         lastRebalanceTimestamp' # lastRebalanceTimestamp,
                         rebalanceNonce' = rebalanceNonce,
                         NEW i \in AdapterIndex, balance'[i] < balance[i]
                  PROVE  EffectiveRate(i) < EffectiveRate(activeAdapterIndex')
      OBVIOUS
    <2>1. RebalanceNext
      <3>1. ~HolderNext
        BY HolderSteps DEF strategy
      <3>2. ~OwnerNext
        BY OwnerSteps DEF Quiet, strategy, emergencyWithdrawAll, claimFees
      <3>3. ~AgentNext
        BY DEF AgentNext, sign, strategy
      <3>4. ~EnvironmentNext
        BY EnvironmentSteps DEF Quiet, strategy, accrue, donate, EnvironmentOnly
      <3>. QED  BY <3>1, <3>2, <3>3, <3>4 DEF Next
    <2>2. ASSUME NEW loss \in Losses, NEW d \in signed, rebalance(d, loss) PROVE FALSE
      <3>1. rebalanceNonce \in Nat /\ rebalanceNonce' = rebalanceNonce + 1
        BY <2>2 DEF rebalance, ConsumeNonce, WellFormed, TypeOK, StrategyTypeOK
      <3>. QED  BY <3>1
    <2>3. ASSUME NEW loss \in Losses, NEW from \in AdapterIndex, NEW to \in AdapterIndex,
                 NEW g \in GasPrices, performUpkeep(from, to, g, loss)
          PROVE  EffectiveRate(i) < EffectiveRate(activeAdapterIndex')
      <3>1. activeAdapterIndex' = to
        BY <2>3 DEF performUpkeep, Rebalanced
      <3>2. ShouldRebalance(from, to, totalAssets, g, now - lastRebalanceTimestamp)
        BY <2>3 DEF performUpkeep, UpkeepNeeded
      <3>3. now - lastRebalanceTimestamp \in Nat
        <4>1. /\ now \in Nat /\ lastRebalanceTimestamp \in Nat
              /\ vaultParams.cooldownPeriod \in Nat
          BY DEF WellFormed, TypeOK, VaultParamsType
        <4>2. now >= lastRebalanceTimestamp + vaultParams.cooldownPeriod
          BY <2>3 DEF performUpkeep, UpkeepNeeded, CooldownElapsed
        <4>. QED  BY <4>1, <4>2
      <3>4. totalAssets \in Nat /\ g \in Nat
        BY Totals, AIVaultAssumption
      <3>5. i = from /\ balance[from] > 0
        BY <2>3, OnlySourceFalls DEF performUpkeep, Rebalanced
      <3>. QED  BY <3>1, <3>2, <3>3, <3>4, <3>5, FallbackFindsBetter
    <2>. QED  BY <2>1, <2>2, <2>3 DEF RebalanceNext
  <1>. QED
    BY <1>1, WellFormedAlways, PTL DEF Spec, FallbackClimbs

-----------------------------------------------------------------------------
(* Share price *)

\* Both paths go through _executeRebalance between registered adapters.
LEMMA RebalancesMove ==
    ASSUME WellFormed, RebalanceNext
    PROVE  \E from, to \in AdapterIndex, m \in Nat, loss \in Losses : Rebalanced(from, to, m, loss)
  <1>1. ASSUME NEW loss \in Losses, NEW d \in signed, rebalance(d, loss)
        PROVE  Rebalanced(activeAdapterIndex, d.targetAdapterIndex, d.maxLossBps, loss)
               /\ activeAdapterIndex \in AdapterIndex /\ d.targetAdapterIndex \in AdapterIndex
               /\ d.maxLossBps \in Nat
    <2>1. d \in Decision /\ activeAdapterIndex \in AdapterIndex
      BY DEF WellFormed, TypeOK
    <2>2. d.targetAdapterIndex \in Nat /\ d.maxLossBps \in Nat
      BY <2>1 DEF Decision
    <2>. QED  BY <1>1, <2>1, <2>2, AIVaultAssumption DEF rebalance, AdapterIndex
  <1>2. ASSUME NEW loss \in Losses, NEW from \in AdapterIndex, NEW to \in AdapterIndex,
               NEW g \in GasPrices, performUpkeep(from, to, g, loss)
        PROVE  Rebalanced(from, to, DefaultMaxLossBps, loss) /\ DefaultMaxLossBps \in Nat
    BY <1>2, AIVaultAssumption, ConstantTypes DEF performUpkeep
  <1>. QED  BY <1>1, <1>2 DEF RebalanceNext

\* The totals of both states of a step.
LEMMA TotalsTyped ==
    ASSUME WellFormed, WellFormed'
    PROVE  /\ totalAssets \in Nat /\ totalAssets' \in Nat
           /\ totalSupply \in Nat /\ totalSupply' \in Nat
           /\ VirtualShares \in Nat \ {0}
           /\ \A h \in Holder : shares[h] \in Nat /\ shares'[h] \in Nat
  <1>1. idle' \in Nat /\ balance'[0] \in Nat /\ balance'[1] \in Nat
    BY ConstantTypes DEF WellFormed, TypeOK, StrategyTypeOK
  <1>2. totalAssets' \in Nat
    BY <1>1 DEF totalAssets, Deployed
  <1>. QED  BY <1>2, ReadTypes, ConstantTypes DEF WellFormed, TypeOK

\* Rounding a quotient up gives the first number whose product reaches the
\* dividend.
LEMMA CeilBounds ==
    ASSUME NEW a \in Nat, NEW b \in Nat \ {0}
    PROVE  CeilDiv(a, b) \in Nat /\ a <= b * CeilDiv(a, b) /\ b * CeilDiv(a, b) < a + b
  <1>. DEFINE c == a + b - 1
              q == c \div b
  <1>1. c \in Nat
    OBVIOUS
  <1>2. q \in Nat /\ b * q <= c /\ c < b * q + b
    BY <1>1, DivNat, DivBounds
  <1>3. b * q \in Nat
    BY <1>2
  <1>4. a <= b * q /\ b * q < a + b
    <2>. HIDE DEF q
    <2>. QED  BY <1>2, <1>3
  <1>. QED  BY <1>2, <1>4 DEF CeilDiv

\* With pools that credit in full, taking assets in adds exactly them.
LEMMA TakeConserves ==
    ASSUME WellFormed, NEW assets \in Nat, TakeAndDeploy(assets, 0)
    PROVE  totalAssets' = totalAssets + assets
  <1>1. ToDeploy(idle + assets) \in Int
    <2>. DEFINE held == idle + assets
    <2>1. held \in Nat
      BY DEF WellFormed, TypeOK
    <2>2. \A t \in Nat : targetIdle(t) \in Nat
      BY ReadTypes DEF WellFormed
    <2>3. held + Deployed(balance) \in Nat
      BY <2>1, ReadTypes DEF WellFormed, Deployed
    <2>. QED  BY <2>1, <2>2, <2>3 DEF ToDeploy
  <1>2. /\ idle' = idle + assets - ToDeploy(idle + assets)
        /\ balance' = [balance EXCEPT ![activeAdapterIndex] = @ + ToDeploy(idle + assets) - 0]
    BY DEF TakeAndDeploy
  <1>3. activeAdapterIndex \in {0, 1} /\ balance \in [{0, 1} -> Nat] /\ idle \in Nat
    BY ConstantTypes DEF WellFormed, TypeOK, StrategyTypeOK
  <1>. HIDE DEF ToDeploy
  <1>. QED  BY <1>1, <1>2, <1>3 DEF totalAssets, Deployed

\* Paying assets out subtracts exactly them.
LEMMA PayOutConserves ==
    ASSUME WellFormed, NEW h \in Holder, NEW assets \in Nat, NEW amount,
           PayOut(h, assets, amount)
    PROVE  totalAssets' = totalAssets - assets
  <1>1. /\ idle' = IdleAfterPull(assets) - assets
        /\ balance' = [i \in AdapterIndex |-> balance[i] - PulledFrom(i, assets)]
    BY DEF PayOut
  <1>2. /\ IdleAfterPull(assets) = idle + PulledFrom(0, assets) + PulledFrom(1, assets)
        /\ PulledFrom(0, assets) \in Nat /\ PulledFrom(1, assets) \in Nat
        /\ balance[0] \in Nat /\ balance[1] \in Nat /\ idle \in Nat
    <2>1. TypeOK /\ idle \in Nat
      BY DEF WellFormed, TypeOK
    <2>2. balance[0] \in Nat /\ balance[1] \in Nat
      BY <2>1, ReadTypes
    <2>. QED  BY <2>1, <2>2, PullsEnough
  <1>. QED  BY <1>1, <1>2, ConstantTypes DEF totalAssets, Deployed

\* A move without loss keeps the total.
LEMMA MoveConserves ==
    ASSUME WellFormed, NEW from \in AdapterIndex, NEW to \in AdapterIndex,
           MoveFunds(from, to, 0)
    PROVE  totalAssets' = totalAssets
  <1>1. CASE from = to
    BY <1>1 DEF MoveFunds, funds, totalAssets
  <1>2. CASE from # to
    <2>. DEFINE held == idle + balance[from]
                toSupply == IF held > targetIdle(held) THEN held - targetIdle(held) ELSE 0
    <2>1. from \in {0, 1} /\ to \in {0, 1} /\ balance \in [{0, 1} -> Nat] /\ idle \in Nat
      BY ConstantTypes DEF WellFormed, TypeOK, StrategyTypeOK
    <2>2. held \in Nat
      BY <2>1
    <2>3. targetIdle(held) \in Nat
      BY <2>2, ReadTypes DEF WellFormed
    <2>4. toSupply \in Int
      <3>. HIDE DEF held
      <3>. QED  BY <2>2, <2>3
    <2>5. /\ idle' = held - toSupply
          /\ balance' = [balance EXCEPT ![from] = 0, ![to] = @ + toSupply - 0]
      BY <1>2 DEF MoveFunds
    <2>. HIDE DEF toSupply
    <2>. QED  BY <1>2, <2>1, <2>4, <2>5 DEF totalAssets, Deployed
  <1>. QED  BY <1>1, <1>2

\* The arithmetic of the four conversions: t assets and s shares, virtual ones
\* included, before; a in and m issued, or a out and b burned.
LEMMA PriceAlgebra ==
    ASSUME NEW t \in Nat, NEW s \in Nat, NEW a \in Nat, NEW m \in Nat
    PROVE  /\ t * m <= a * s => (t + a) * s >= t * (s + m)
           /\ a * s <= t * m => (t - a) * s >= t * (s - m)
  <1>1. (t + a) * s = t * s + a * s /\ t * (s + m) = t * s + t * m
    OBVIOUS
  <1>2. (t - a) * s = t * s - a * s /\ t * (s - m) = t * s - t * m
    OBVIOUS
  <1>3. t * s \in Int /\ a * s \in Int /\ t * m \in Int
    OBVIOUS
  <1>. QED  BY <1>1, <1>2, <1>3

\* What a step other than the claim of fees does to assets and shares, as the
\* share ledger has it: earn a for every holder alike, or take a in and issue m
\* shares to h, or pay a out and burn m shares of h.
Earned(a) == totalAssets' = totalAssets + a /\ UNCHANGED ledger

Payment ==
    \/ \E a \in Nat : Earned(a)
    \/ \E h \in Holder, a, m \in Nat : Ledger!Issue(h, a, m) \/ Ledger!Redeem(h, a, m)

\* With pools that credit every supply in full, every step but the claim of fees
\* is a payment in this sense, the four ERC-4626 conversions included.
LEMMA StepsArePayments ==
    ASSUME SupplyLoss = 0, WellFormed, Next
    PROVE  Payment \/ accruedFeeShares' < accruedFeeShares
  <1>. DEFINE T == totalAssets + 1
              S == totalSupply + VirtualShares
  <1>1. Losses = {0}
    BY DEF Losses
  <1>2. /\ totalAssets \in Nat /\ totalSupply \in Nat
        /\ T \in Nat \ {0} /\ S \in Nat \ {0}
    BY Totals
  <1>3. ASSUME UNCHANGED <<totalAssets, ledger>> PROVE Payment
    <2>1. Earned(0)
      BY <1>2, <1>3 DEF Earned
    <2>. QED  BY <2>1 DEF Payment
  <1>4. ASSUME Quiet PROVE Payment
    BY <1>3, <1>4 DEF Quiet, funds, totalAssets
  <1>5. CASE HolderNext
    <2>1. PICK h \in Holder :
            \/ \E a \in Amounts, loss \in Losses : deposit(h, a, loss)
            \/ \E n \in ShareAmounts, loss \in Losses : mint(h, n, loss)
            \/ \E a \in Amounts \cup {maxWithdraw(h)} : withdraw(h, a)
            \/ \E n \in ShareAmounts \cup {shares[h]} : redeem(h, n)
      BY <1>5 DEF HolderNext
    <2>2. Amounts \subseteq Nat /\ ShareAmounts \subseteq Nat /\ shares[h] \in Nat
          /\ maxWithdraw(h) \in Nat
      <3>1. shares[h] \in Nat /\ maxWithdraw(h) \in Nat
        BY HeldWithinSupply, MaxWithdrawCovered
      <3>. QED  BY <3>1, AIVaultAssumption
    <2>3. ASSUME NEW a \in Nat, deposit(h, a, 0) PROVE Payment
      <3>. DEFINE m == convertToShares(a)
      <3>1. m = (a * S) \div T
        BY DEF convertToShares
      <3>2. a * S \in Nat
        BY <1>2
      <3>3. m \in Nat /\ T * m <= a * S /\ a * S < T * m + T
        <4>. HIDE DEF m, T, S
        <4>. QED  BY <1>2, <3>1, <3>2, DivNat, DivBounds
      <3>4. totalAssets' = totalAssets + a /\ MintShares(h, m)
        BY <2>3, TakeConserves DEF deposit
      <3>5. UNCHANGED accruedFeeShares
        BY <2>3 DEF deposit, fees
      <3>6. Ledger!Issue(h, a, m)
        <4>1. T * m + T = T * m + totalAssets + 1
          BY <1>2, <3>3
        <4>. HIDE DEF m
        <4>. QED  BY <3>3, <3>4, <3>5, <4>1 DEF Ledger!Issue, Ledger!Rounded, MintShares
      <3>. HIDE DEF m
      <3>. QED  BY <3>3, <3>6 DEF Payment
    <2>4. ASSUME NEW n \in Nat, mint(h, n, 0) PROVE Payment
      <3>. DEFINE a == previewMint(n)
      <3>1. a = CeilDiv(n * T, S)
        BY DEF previewMint
      <3>2. n * T \in Nat /\ n * T = T * n
        BY <1>2
      <3>3. a \in Nat /\ T * n <= a * S /\ a * S < T * n + S
        <4>. HIDE DEF a, T, S
        <4>1. a \in Nat /\ n * T <= S * a /\ S * a < n * T + S
          BY <1>2, <3>1, <3>2, CeilBounds
        <4>2. S * a = a * S
          BY <1>2, <4>1
        <4>. QED  BY <3>2, <4>1, <4>2
      <3>4. totalAssets' = totalAssets + a /\ MintShares(h, n)
        BY <2>4, <3>3, TakeConserves DEF mint
      <3>5. UNCHANGED accruedFeeShares
        BY <2>4 DEF mint, fees
      <3>6. Ledger!Issue(h, a, n)
        <4>1. T * n + S = T * n + totalSupply + VirtualShares
          BY <1>2, ConstantTypes
        <4>. HIDE DEF a
        <4>. QED  BY <3>3, <3>4, <3>5, <4>1 DEF Ledger!Issue, Ledger!Rounded, MintShares
      <3>. HIDE DEF a
      <3>. QED  BY <3>3, <3>6 DEF Payment
    <2>5. ASSUME NEW a \in Nat, withdraw(h, a) PROVE Payment
      <3>. DEFINE m == previewWithdraw(a)
      <3>1. m = CeilDiv(a * S, T)
        BY DEF previewWithdraw
      <3>2. a * S \in Nat
        BY <1>2
      <3>3. m \in Nat /\ a * S <= T * m /\ T * m < a * S + T
        <4>. HIDE DEF m, T, S
        <4>. QED  BY <1>2, <3>1, <3>2, CeilBounds
      <3>4. /\ totalAssets' = totalAssets - a /\ totalSupply' = totalSupply - m
            /\ shares' = [shares EXCEPT ![h] = @ - m] /\ m <= shares[h]
        BY <2>5, PayOutConserves DEF withdraw, PayOut
      <3>5. UNCHANGED accruedFeeShares
        BY <2>5 DEF withdraw, PayOut, fees
      <3>6. Ledger!Redeem(h, a, m)
        <4>1. a * S + T = a * S + totalAssets + 1
          BY <1>2, <3>2
        <4>. HIDE DEF m
        <4>. QED  BY <3>3, <3>4, <3>5, <4>1 DEF Ledger!Redeem, Ledger!Rounded
      <3>. HIDE DEF m
      <3>. QED  BY <3>3, <3>6 DEF Payment
    <2>6. ASSUME NEW n \in Nat, redeem(h, n) PROVE Payment
      <3>. DEFINE a == convertToAssets(n)
      <3>1. a = (n * T) \div S
        BY DEF convertToAssets
      <3>2. n * T \in Nat /\ n * T = T * n
        BY <1>2
      <3>3. a \in Nat /\ a * S <= T * n /\ T * n < a * S + S
        <4>. HIDE DEF a, T, S
        <4>1. a \in Nat /\ S * a <= n * T /\ n * T < S * a + S
          BY <1>2, <3>1, <3>2, DivNat, DivBounds
        <4>2. S * a = a * S
          BY <1>2, <4>1
        <4>. QED  BY <3>2, <4>1, <4>2
      <3>4. /\ totalAssets' = totalAssets - a /\ totalSupply' = totalSupply - n
            /\ shares' = [shares EXCEPT ![h] = @ - n] /\ n <= shares[h]
        BY <2>6, <3>3, PayOutConserves DEF redeem, PayOut
      <3>5. UNCHANGED accruedFeeShares
        BY <2>6 DEF redeem, PayOut, fees
      <3>6. Ledger!Redeem(h, a, n)
        <4>1. a * S + S = a * S + totalSupply + VirtualShares
          BY <1>2, <3>3, ConstantTypes
        <4>. HIDE DEF a
        <4>. QED  BY <3>3, <3>4, <3>5, <4>1 DEF Ledger!Redeem, Ledger!Rounded
      <3>. HIDE DEF a
      <3>. QED  BY <3>3, <3>6 DEF Payment
    <2>. HIDE DEF T, S
    <2>7. CASE \E a \in Amounts, loss \in Losses : deposit(h, a, loss)
      BY <1>1, <2>2, <2>3, <2>7
    <2>8. CASE \E n \in ShareAmounts, loss \in Losses : mint(h, n, loss)
      BY <1>1, <2>2, <2>4, <2>8
    <2>9. CASE \E a \in Amounts \cup {maxWithdraw(h)} : withdraw(h, a)
      BY <2>2, <2>5, <2>9
    <2>10. CASE \E n \in ShareAmounts \cup {shares[h]} : redeem(h, n)
      BY <2>2, <2>6, <2>10
    <2>. QED  BY <2>1, <2>7, <2>8, <2>9, <2>10
  <1>6. CASE RebalanceNext
    <2>1. PICK from \in AdapterIndex, to \in AdapterIndex, m \in Nat, loss \in Losses :
             Rebalanced(from, to, m, loss)
      BY <1>6, RebalancesMove
    <2>2. MoveFunds(from, to, 0) /\ UNCHANGED ledger
      BY <1>1, <2>1 DEF Rebalanced
    <2>. QED  BY <1>3, <2>2, MoveConserves
  <1>7. CASE OwnerNext
    <2>1. CASE emergencyWithdrawAll
      <3>1. idle' = totalAssets /\ balance'[0] = 0 /\ balance'[1] = 0 /\ UNCHANGED ledger
        BY <2>1, ConstantTypes DEF emergencyWithdrawAll
      <3>2. totalAssets' = totalAssets
        BY <1>2, <3>1 DEF totalAssets, Deployed
      <3>. QED  BY <1>3, <3>1, <3>2
    <2>2. CASE claimFees
      BY <2>2 DEF claimFees, WellFormed, TypeOK
    <2>. QED  BY <1>4, <1>7, <2>1, <2>2, OwnerSteps
  <1>8. CASE AgentNext
    BY <1>3, <1>8 DEF AgentNext, sign, funds, totalAssets
  <1>9. CASE EnvironmentNext
    <2>1. ASSUME NEW i \in AdapterIndex, NEW a \in Interest, accrue(i, a) PROVE Payment
      <3>1. a \in Nat /\ i \in {0, 1} /\ balance \in [{0, 1} -> Nat] /\ idle \in Nat
        BY AIVaultAssumption, ConstantTypes DEF WellFormed, TypeOK, StrategyTypeOK
      <3>2. /\ balance' = [balance EXCEPT ![i] = @ + a] /\ idle' = idle
            /\ UNCHANGED ledger
        BY <2>1 DEF accrue, EnvironmentOnly
      <3>3. totalAssets' = totalAssets + a
        BY <3>1, <3>2 DEF totalAssets, Deployed
      <3>. QED  BY <3>1, <3>2, <3>3 DEF Earned, Payment
    <2>2. ASSUME NEW a \in Amounts, donate(a) PROVE Payment
      <3>1. /\ a \in Nat /\ idle \in Nat /\ balance[0] \in Nat /\ balance[1] \in Nat
            /\ idle' = idle + a /\ balance' = balance /\ UNCHANGED ledger
        BY <2>2, AIVaultAssumption, ReadTypes DEF donate, EnvironmentOnly, WellFormed, TypeOK
      <3>2. totalAssets' = totalAssets + a
        BY <3>1 DEF totalAssets, Deployed
      <3>. QED  BY <3>1, <3>2 DEF Earned, Payment
    <2>. QED  BY <1>4, <1>9, <2>1, <2>2, EnvironmentSteps
  <1>. QED  BY <1>5, <1>6, <1>7, <1>8, <1>9 DEF Next

\* No payment lowers the price.
LEMMA PaymentsKeepPrice ==
    ASSUME WellFormed, WellFormed', Payment
    PROVE  (totalAssets + 1) * (totalSupply' + VirtualShares)
             <= (totalAssets' + 1) * (totalSupply + VirtualShares)
  <1>. DEFINE T == totalAssets + 1
              S == totalSupply + VirtualShares
              T2 == totalAssets' + 1
              S2 == totalSupply' + VirtualShares
  <1>1. /\ totalAssets \in Nat /\ totalSupply \in Nat /\ VirtualShares \in Nat
        /\ T \in Nat /\ S \in Nat
    BY Totals
  <1>2. ASSUME NEW a \in Nat, Earned(a) PROVE T * S2 <= T2 * S
    <2>1. T2 = T + a /\ S2 = S
      BY <1>1, <1>2 DEF Earned, ledger
    <2>. HIDE DEF T, S, T2, S2
    <2>. QED  BY <1>1, <2>1
  <1>3. ASSUME NEW h \in Holder, NEW a \in Nat, NEW m \in Nat, Ledger!Issue(h, a, m)
        PROVE  T * S2 <= T2 * S
    <2>1. T2 = T + a /\ S2 = S + m /\ T * m <= a * S
      BY <1>1, <1>3 DEF Ledger!Issue, Ledger!Rounded
    <2>. HIDE DEF T, S, T2, S2
    <2>. QED  BY <1>1, <2>1, PriceAlgebra
  <1>4. ASSUME NEW h \in Holder, NEW a \in Nat, NEW m \in Nat, Ledger!Redeem(h, a, m)
        PROVE  T * S2 <= T2 * S
    <2>1. T2 = T - a /\ S2 = S - m /\ a * S <= T * m
      BY <1>1, <1>4 DEF Ledger!Redeem, Ledger!Rounded
    <2>. HIDE DEF T, S, T2, S2
    <2>. QED  BY <1>1, <2>1, PriceAlgebra
  <1>. QED  BY <1>2, <1>3, <1>4 DEF Payment

\* With pools that credit every supply in full, the price of a share falls in no
\* step but the claim of fees: every conversion rounds in favour of those who
\* stay, and a rebalance, of either path and with any buffer, loses nothing.
THEOREM SharePriceHolds ==
    ASSUME SupplyLoss = 0
    PROVE  Spec => SharePriceNeverFalls
  <1>. DEFINE Holds == \/ (totalAssets' + 1) * (totalSupply + VirtualShares)
                            >= (totalAssets + 1) * (totalSupply' + VirtualShares)
                       \/ accruedFeeShares' < accruedFeeShares
  <1>1. WellFormed /\ WellFormed' /\ [Next]_vars => [Holds]_vars
    <2>. SUFFICES ASSUME WellFormed, WellFormed', Next PROVE Holds
      BY DEF vars, funds, ledger, fees, feeRates, strategy, admin, decisions, managerVars
    <2>1. CASE Payment
      <3>1. /\ totalAssets \in Nat /\ totalAssets' \in Nat
            /\ totalSupply \in Nat /\ totalSupply' \in Nat /\ VirtualShares \in Nat
        BY TotalsTyped, ConstantTypes
      <3>. QED  BY <2>1, <3>1, PaymentsKeepPrice
    <2>. QED  BY <2>1, StepsArePayments
  <1>. QED  BY <1>1, WellFormedAlways, PTL DEF Spec, SharePriceNeverFalls

-----------------------------------------------------------------------------
(* Claims *)

\* The places of a table with rows of w places are numbered from 0, row by row:
\* the place in row k and column j is Place(w, k, j), and Row and Column tell
\* where a number lies.
Place(w, k, j) == (k - 1) * w + (j - 1)
Row(w, p) == p \div w + 1
Column(w, p) == p - w * (p \div w) + 1

\* The number of a place of the first n rows, and back.
LEMMA PlaceNumber ==
    ASSUME NEW w \in Nat \ {0}, NEW n \in Nat, NEW k \in 1 .. n, NEW j \in 1 .. w
    PROVE  LET p == Place(w, k, j)
           IN  /\ p \in Nat /\ p < n * w
               /\ Row(w, p) = k /\ Column(w, p) = j
  <1>. DEFINE p == Place(w, k, j)
              q == p \div w
  <1>1. (k - 1) * w \in Nat /\ k * w = (k - 1) * w + w /\ k * w <= n * w /\ n * w \in Nat
    OBVIOUS
  <1>2. p = (k - 1) * w + (j - 1) /\ p \in Nat /\ p < n * w
    BY <1>1 DEF Place
  <1>. HIDE DEF p
  <1>3. q \in Nat /\ w * q <= p /\ p < w * q + w
    BY <1>2, DivNat, DivBounds
  <1>. HIDE DEF q
  <1>4. ~(q + 1 <= k - 1)
    <2>. SUFFICES ASSUME q + 1 <= k - 1 PROVE FALSE
      OBVIOUS
    <2>1. (q + 1) * w <= (k - 1) * w /\ (q + 1) * w = w * q + w /\ w * q \in Nat
      BY <1>3
    <2>. QED  BY <1>1, <1>2, <1>3, <2>1
  <1>5. ~(k <= q)
    <2>. SUFFICES ASSUME k <= q PROVE FALSE
      OBVIOUS
    <2>1. k * w <= q * w /\ q * w = w * q /\ w * q \in Nat
      BY <1>3
    <2>. QED  BY <1>1, <1>2, <1>3, <2>1
  <1>6. q = k - 1
    BY <1>3, <1>4, <1>5
  <1>7. w * q = (k - 1) * w
    BY <1>6
  <1>. QED  BY <1>1, <1>2, <1>6, <1>7 DEF Row, Column, p, q

\* Every number below n * w is that of a place of the first n rows.
LEMMA NumberPlace ==
    ASSUME NEW w \in Nat \ {0}, NEW n \in Nat, NEW p \in Nat, p < n * w
    PROVE  /\ Row(w, p) \in 1 .. n /\ Column(w, p) \in 1 .. w
           /\ p = Place(w, Row(w, p), Column(w, p))
  <1>. DEFINE q == p \div w
  <1>1. q \in Nat /\ w * q <= p /\ p < w * q + w
    BY DivNat, DivBounds
  <1>. HIDE DEF q
  <1>2. ~(n <= q)
    <2>. SUFFICES ASSUME n <= q PROVE FALSE
      OBVIOUS
    <2>1. n * w <= q * w /\ q * w = w * q /\ w * q \in Nat /\ n * w \in Nat
      BY <1>1
    <2>. QED  BY <1>1, <2>1
  <1>3. w * q \in Nat /\ (q + 1 - 1) * w = w * q
    BY <1>1
  <1>4. Row(w, p) = q + 1 /\ Column(w, p) = p - w * q + 1
    BY DEF Row, Column, q
  <1>. QED  BY <1>1, <1>2, <1>3, <1>4 DEF Place

\* Where each holder's units, taken s times, are at most its shares taken t
\* times, the same holds of all units together: the places of each holder's
\* table of claims are renumbered into its table of shares.
LEMMA UnitsWithin ==
    ASSUME NEW held \in [Holder -> Nat], IsFiniteSet(ShareUnits(held)),
           NEW claims \in [Holder -> Nat],
           NEW s \in Nat \ {0}, NEW t \in Nat \ {0},
           \A h \in Holder : claims[h] * s <= held[h] * t
    PROVE  /\ IsFiniteSet(ShareUnits(claims))
           /\ Cardinality(ShareUnits(claims)) * s <= Cardinality(ShareUnits(held)) * t
  <1>. DEFINE Claims == ShareUnits(claims) \X (1 .. s)
              Shares == ShareUnits(held) \X (1 .. t)
              number(x) == Place(s, x[1][2], x[2])
              renumbered == [x \in Claims |->
                  <<<<x[1][1], Row(t, number(x))>>, Column(t, number(x))>>]
  <1>1. \A x \in Claims :
          /\ x = <<<<x[1][1], x[1][2]>>, x[2]>>
          /\ x[1][1] \in Holder /\ x[1][2] \in 1 .. claims[x[1][1]] /\ x[2] \in 1 .. s
    BY DEF ShareUnits
  <1>2. \A x \in Claims :
          /\ number(x) \in Nat /\ number(x) < held[x[1][1]] * t
          /\ Row(s, number(x)) = x[1][2] /\ Column(s, number(x)) = x[2]
    <2>. SUFFICES ASSUME NEW x \in Claims
                  PROVE  /\ number(x) \in Nat /\ number(x) < held[x[1][1]] * t
                         /\ Row(s, number(x)) = x[1][2] /\ Column(s, number(x)) = x[2]
      OBVIOUS
    <2>. DEFINE h == x[1][1]
    <2>1. h \in Holder /\ claims[h] \in Nat /\ held[h] \in Nat
          /\ x[1][2] \in 1 .. claims[h] /\ x[2] \in 1 .. s
      BY <1>1
    <2>. HIDE DEF h
    <2>2. /\ number(x) \in Nat /\ number(x) < claims[h] * s
          /\ Row(s, number(x)) = x[1][2] /\ Column(s, number(x)) = x[2]
      BY <2>1, PlaceNumber
    <2>3. claims[h] * s <= held[h] * t /\ claims[h] * s \in Nat /\ held[h] * t \in Nat
      BY <2>1
    <2>. HIDE DEF number
    <2>. QED  BY <2>2, <2>3 DEF h
  <1>. HIDE DEF number
  <1>3. \A x \in Claims :
          /\ Row(t, number(x)) \in 1 .. held[x[1][1]] /\ Column(t, number(x)) \in 1 .. t
          /\ number(x) = Place(t, Row(t, number(x)), Column(t, number(x)))
    BY <1>1, <1>2, NumberPlace
  <1>4. renumbered \in [Claims -> Shares]
    <2>. SUFFICES ASSUME NEW x \in Claims
                  PROVE  <<<<x[1][1], Row(t, number(x))>>, Column(t, number(x))>> \in Shares
      OBVIOUS
    <2>. QED  BY <1>1, <1>3 DEF ShareUnits
  <1>5. ASSUME NEW x \in Claims, NEW y \in Claims, renumbered[x] = renumbered[y]
        PROVE  x = y
    <2>1. /\ x[1][1] = y[1][1]
          /\ Row(t, number(x)) = Row(t, number(y))
          /\ Column(t, number(x)) = Column(t, number(y))
      BY <1>5
    <2>2. number(x) = number(y)
      BY <1>3, <2>1
    <2>3. x[1][2] = y[1][2] /\ x[2] = y[2]
      BY <1>2, <2>2
    <2>. QED  BY <1>1, <2>1, <2>3
  <1>6. renumbered \in Injection(Claims, Shares)
    BY <1>4, <1>5 DEF Injection, IsInjective
  <1>7. /\ IsFiniteSet(1 .. t) /\ Cardinality(1 .. t) = t
        /\ IsFiniteSet(1 .. s) /\ Cardinality(1 .. s) = s
    BY FS_Interval
  <1>8. IsFiniteSet(Shares) /\ Cardinality(Shares) = Cardinality(ShareUnits(held)) * t
    BY <1>7, FS_Product
  <1>. HIDE DEF renumbered
  <1>9. IsFiniteSet(Claims) /\ Cardinality(Claims) <= Cardinality(Shares)
    <2>. HIDE DEF Claims, Shares
    <2>. QED  BY <1>6, <1>8, FS_Injection
  <1>10. IsFiniteSet(ShareUnits(claims))
    <2>. DEFINE first == [u \in ShareUnits(claims) |-> <<u, 1>>]
    <2>1. first \in Injection(ShareUnits(claims), Claims)
      BY DEF Injection, IsInjective
    <2>. HIDE DEF first, Claims
    <2>. QED  BY <1>9, <2>1, FS_Injection
  <1>11. Cardinality(Claims) = Cardinality(ShareUnits(claims)) * s
    BY <1>7, <1>10, FS_Product
  <1>. QED  BY <1>8, <1>9, <1>10, <1>11

\* All holders together can be paid what maxWithdraw promises each of them.
THEOREM ClaimsAreCovered == Spec => []ClaimsCovered
  <1>1. WellFormed => ClaimsCovered
    <2>. SUFFICES ASSUME WellFormed PROVE ClaimsCovered
      OBVIOUS
    <2>. DEFINE claims == [h \in Holder |-> maxWithdraw(h)]
                n == Cardinality(ShareUnits(claims))
                S == totalSupply + VirtualShares
                T == totalAssets + 1
    <2>1. /\ totalAssets \in Nat /\ totalSupply \in Nat /\ VirtualShares \in Nat \ {0}
          /\ S \in Nat \ {0} /\ T \in Nat \ {0} /\ shares \in [Holder -> Nat]
      BY ReadTypes, ConstantTypes DEF WellFormed, TypeOK
    <2>2. claims \in [Holder -> Nat]
      BY ReadTypes DEF WellFormed
    <2>3. IsFiniteSet(ShareUnits(shares)) /\ Cardinality(ShareUnits(shares)) = totalSupply
      BY DEF WellFormed, SupplyHeld
    <2>4. ASSUME NEW h \in Holder PROVE claims[h] * S <= shares[h] * T
      <3>1. claims[h] = (shares[h] * T) \div S /\ shares[h] \in Nat
        BY <2>1 DEF maxWithdraw, convertToAssets
      <3>. HIDE DEF claims, S, T
      <3>2. shares[h] * T \in Nat
        BY <2>1, <3>1
      <3>3. S * claims[h] <= shares[h] * T /\ S * claims[h] = claims[h] * S
        BY <2>1, <2>2, <3>1, <3>2, DivBounds
      <3>. QED  BY <3>3
    <2>. HIDE DEF claims
    <2>5. n \in Nat /\ n * S <= totalSupply * T
      <3>. HIDE DEF S, T
      <3>. QED  BY <2>1, <2>2, <2>3, <2>4, UnitsWithin, FS_CardinalityType
    <2>. HIDE DEF n
    <2>6. ~(n >= T)
      <3>. SUFFICES ASSUME n >= T PROVE FALSE
        OBVIOUS
      <3>1. T * S <= n * S /\ T * S = totalSupply * T + VirtualShares * T
            /\ VirtualShares * T >= 1
        <4>. HIDE DEF T
        <4>. QED  BY <2>1, <2>5
      <3>2. /\ T * S \in Nat /\ n * S \in Nat /\ totalSupply * T \in Nat
            /\ VirtualShares * T \in Nat
        BY <2>1, <2>5
      <3>. QED  BY <2>5, <3>1, <3>2
    <2>. QED  BY <2>1, <2>5, <2>6 DEF ClaimsCovered, n, claims
  <1>. QED  BY <1>1, WellFormedAlways, PTL

\* A claim of s shares out of S on T assets, seen from the rest: o shares are
\* not its holder's and u assets are not its claim.  u is o * T / S rounded up.
LEMMA RestOfClaim ==
    ASSUME NEW s \in Nat, NEW o \in Nat, NEW S \in Nat \ {0}, S = s + o,
           NEW T \in Nat \ {0}
    PROVE  LET u == T - (s * T) \div S
           IN  u \in Nat /\ o * T <= S * u /\ S * u < o * T + S
  <1>. DEFINE q == (s * T) \div S
              u == T - q
  <1>1. s * T \in Nat /\ o * T \in Nat /\ S * T \in Nat /\ S * T = s * T + o * T
    OBVIOUS
  <1>2. q \in Nat /\ S * q <= s * T /\ s * T < S * q + S
    BY <1>1, DivNat, DivBounds
  <1>. HIDE DEF q
  <1>3. S * u = S * T - S * q /\ S * q \in Nat
    BY <1>2
  <1>4. o * T <= S * u /\ S * u < o * T + S
    BY <1>1, <1>2, <1>3
  <1>5. u >= 0
    <2>. SUFFICES ASSUME u < 0 PROVE FALSE
      BY <1>2
    <2>1. S * u < 0 /\ S * u \in Int
      BY <1>2
    <2>. QED  BY <1>1, <1>4, <2>1
  <1>. QED  BY <1>2, <1>4, <1>5 DEF q

\* While the price does not fall, neither does a claim of as many shares.
LEMMA BystanderClaim ==
    ASSUME NEW s \in Nat,
           NEW S \in Nat \ {0}, NEW T \in Nat \ {0},
           NEW S2 \in Nat \ {0}, NEW T2 \in Nat \ {0}, T * S2 <= T2 * S
    PROVE  (s * T) \div S <= (s * T2) \div S2
  <1>. DEFINE q == (s * T) \div S
              r == (s * T2) \div S2
  <1>1. s * T \in Nat /\ s * T2 \in Nat
    OBVIOUS
  <1>2. /\ q \in Nat /\ S * q <= s * T
        /\ r \in Nat /\ s * T2 < S2 * r + S2
    BY <1>1, DivNat, DivBounds
  <1>. HIDE DEF q, r
  <1>. SUFFICES ASSUME r + 1 <= q PROVE FALSE
    BY <1>2 DEF q, r
  <1>3. S2 * (r + 1) <= S2 * q
    BY <1>2
  <1>4. s * T2 < S2 * q
    <2>1. S2 * (r + 1) = S2 * r + S2 /\ S2 * r \in Nat /\ S2 * q \in Nat
      BY <1>2
    <2>. QED  BY <1>1, <1>2, <1>3, <2>1
  <1>5. S * (s * T2) < S * (S2 * q)
    <2>1. S2 * q \in Nat
      BY <1>2
    <2>. QED  BY <1>1, <1>4, <2>1
  <1>6. s * (T * S2) <= s * (T2 * S)
    OBVIOUS
  <1>7. S2 * (S * q) <= S2 * (s * T)
    <2>1. S * q \in Nat
      BY <1>2
    <2>. QED  BY <1>1, <1>2, <2>1
  <1>8. /\ S * (s * T2) = s * (T2 * S)
        /\ S * (S2 * q) = S2 * (S * q)
        /\ s * (T * S2) = S2 * (s * T)
    BY <1>2
  <1>9. S * (s * T2) \in Nat /\ S * (S2 * q) \in Nat /\ s * (T * S2) \in Nat
    BY <1>2
  <1>. QED  BY <1>5, <1>6, <1>7, <1>8, <1>9

\* Shares issued or burned at a price that does not fall, and that rises by less
\* than one share or one asset can round: the claim grows by no more than was
\* paid, and by no less than that, one asset and the price of a share apart.
LEMMA CallerClaim ==
    ASSUME NEW s \in Nat, NEW s2 \in Nat, NEW o \in Nat,
           NEW S \in Nat \ {0}, NEW T \in Nat \ {0}, S = s + o,
           NEW S2 \in Nat \ {0}, NEW T2 \in Nat \ {0}, S2 = s2 + o,
           T * S2 <= T2 * S, T2 * S < T * S2 + T \/ T2 * S < T * S2 + S
    PROVE  LET gain == (s2 * T2) \div S2 - (s * T) \div S
               paid == T2 - T
           IN  gain <= paid /\ (paid - gain - 1) * S < T
  <1>. DEFINE u == T - (s * T) \div S
              v == T2 - (s2 * T2) \div S2
  <1>1. /\ u \in Nat /\ o * T <= S * u /\ S * u < o * T + S
        /\ v \in Nat /\ o * T2 <= S2 * v /\ S2 * v < o * T2 + S2
    BY RestOfClaim
  <1>2. /\ (s * T) \div S \in Nat /\ (s2 * T2) \div S2 \in Nat
    <2>1. s * T \in Nat /\ s2 * T2 \in Nat
      OBVIOUS
    <2>. QED  BY <2>1, DivNat
  <1>3. ((s2 * T2) \div S2 - (s * T) \div S) = (T2 - T) - (v - u)
    BY <1>2
  <1>. HIDE DEF u, v
  <1>4. /\ S2 * (o * T) <= S2 * (S * u) /\ S * (S2 * v) < S * (o * T2 + S2)
        /\ S2 * (S * u) < S2 * (o * T + S) /\ S * (o * T2) <= S * (S2 * v)
    <2>1. /\ o * T \in Nat /\ S * u \in Nat /\ o * T + S \in Nat
          /\ o * T2 \in Nat /\ S2 * v \in Nat /\ o * T2 + S2 \in Nat
      BY <1>1
    <2>. QED  BY <1>1, <2>1
  <1>. DEFINE D == T2 * S - T * S2
  <1>5. D \in Nat /\ (D < T \/ D < S) /\ o <= S2 /\ o <= S
    <2>1. T2 * S \in Nat /\ T * S2 \in Nat
      OBVIOUS
    <2>. QED  BY <2>1
  <1>6. /\ S * (o * T2) - S2 * (o * T) = o * D
        /\ S2 * (S * u) = (S * S2) * u /\ S * (S2 * v) = (S * S2) * v
        /\ S * (o * T2 + S2) = S * (o * T2) + S * S2
        /\ S2 * (o * T + S) = S2 * (o * T) + S * S2
    BY <1>1
  <1>. HIDE DEF D
  <1>. DEFINE K == S * S2
              A == S * (o * T2)
              B == S2 * (o * T)
  <1>7. K \in Nat \ {0} /\ A \in Nat /\ B \in Nat /\ o * D \in Nat
    BY <1>5
  <1>8. /\ B <= K * u /\ K * u < B + K
        /\ A <= K * v /\ K * v < A + K
        /\ A - B = o * D
    BY <1>4, <1>6
  <1>. HIDE DEF K, A, B
  <1>9. u <= v
    <2>. SUFFICES ASSUME v + 1 <= u PROVE FALSE
      BY <1>1
    <2>1. K * (v + 1) <= K * u
      BY <1>1, <1>7
    <2>2. K * (v + 1) = K * v + K /\ K * v \in Nat /\ K * u \in Nat
      BY <1>1, <1>7
    <2>. QED  BY <1>7, <1>8, <2>1, <2>2
  <1>10. K * (v - u - 1) < o * D
    <2>1. K * (v - u - 1) = K * v - K * u - K /\ K * v \in Nat /\ K * u \in Nat
      BY <1>1, <1>7
    <2>. QED  BY <1>7, <1>8, <2>1
  <1>11. (v - u - 1) * S < T
    <2>. DEFINE w == v - u - 1
    <2>0. w \in Int
      BY <1>1
    <2>. HIDE DEF w
    <2>1. CASE D < T
      <3>1. o * D <= S2 * T
        <4>1. o * D <= o * T
          BY <1>5, <2>1
        <4>2. o * T <= S2 * T
          BY <1>5
        <4>3. o * T \in Nat /\ S2 * T \in Nat
          OBVIOUS
        <4>. QED  BY <1>7, <4>1, <4>2, <4>3
      <3>2. K * w = S2 * (w * S)
        BY <2>0 DEF K
      <3>3. S2 * (w * S) < S2 * T
        <4>1. S2 * (w * S) \in Int /\ S2 * T \in Int
          BY <2>0
        <4>. QED  BY <1>7, <1>10, <3>1, <3>2, <4>1 DEF w
      <3>4. w * S \in Int
        BY <2>0
      <3>. QED  BY <3>3, <3>4 DEF w
    <2>2. CASE D < S
      <3>1. o * D <= K
        <4>1. o * D <= o * S
          BY <1>5, <2>2
        <4>2. o * S <= S2 * S /\ K = S2 * S
          BY <1>5 DEF K
        <4>3. o * S \in Nat /\ S2 * S \in Nat
          OBVIOUS
        <4>. QED  BY <1>7, <4>1, <4>2, <4>3
      <3>2. K * w < K * 1
        <4>1. K * w \in Int
          BY <1>7, <2>0
        <4>. QED  BY <1>7, <1>10, <3>1, <4>1 DEF w
      <3>3. w <= 0
        BY <1>7, <2>0, <3>2
      <3>4. w * S <= 0
        BY <2>0, <3>3
      <3>5. w * S \in Int
        BY <2>0
      <3>. QED  BY <3>4, <3>5 DEF w
    <2>. QED  BY <1>5, <2>1, <2>2
  <1>. QED  BY <1>1, <1>2, <1>3, <1>9, <1>11

\* With pools that credit every supply in full, no claim moves by more than what
\* its holder paid or was paid, nor falls short of that by more than an asset and
\* the price of a share, whoever calls what and in which order; the claim of fees
\* apart.
THEOREM ClaimsFollowThePayments ==
    ASSUME SupplyLoss = 0
    PROVE  Spec => ClaimsFollowPayments
  <1>. DEFINE gain(h) == maxWithdraw(h)' - maxWithdraw(h)
              paid == totalAssets' - totalAssets
              Follows(h) ==
                  IF shares'[h] = shares[h]
                  THEN gain(h) >= 0
                  ELSE /\ gain(h) <= paid
                       /\ (paid - gain(h) - 1) * (totalSupply + VirtualShares)
                            < totalAssets + 1
              Holds == \/ accruedFeeShares' < accruedFeeShares
                       \/ \A h \in Holder : Follows(h)
  <1>1. WellFormed /\ WellFormed' /\ [Next]_vars => [Holds]_vars
    <2>. SUFFICES ASSUME WellFormed, WellFormed', Next, Payment, NEW h \in Holder
                  PROVE  Follows(h)
      BY StepsArePayments
      DEF vars, funds, ledger, fees, feeRates, strategy, admin, decisions, managerVars
    <2>. DEFINE s == shares[h]
                s2 == shares'[h]
                T == totalAssets + 1
                S == totalSupply + VirtualShares
                T2 == totalAssets' + 1
                S2 == totalSupply' + VirtualShares
                o == S - s
    <2>1. /\ totalAssets \in Nat /\ totalAssets' \in Nat
          /\ totalSupply \in Nat /\ totalSupply' \in Nat /\ VirtualShares \in Nat \ {0}
          /\ s \in Nat /\ s2 \in Nat /\ s <= totalSupply
      BY TotalsTyped, HeldWithinSupply
    <2>2. /\ T \in Nat \ {0} /\ S \in Nat \ {0} /\ T2 \in Nat \ {0} /\ S2 \in Nat \ {0}
          /\ o \in Nat /\ S = s + o /\ paid = T2 - T
      <3>1. S \in Nat \ {0} /\ S2 \in Nat \ {0} /\ o \in Nat /\ S = s + o
        <4>1. S \in Nat \ {0} /\ S2 \in Nat \ {0}
          BY <2>1
        <4>2. o \in Nat /\ S = s + o
          BY <2>1
        <4>. QED  BY <4>1, <4>2
      <3>2. \A t \in Nat : t + 1 \in Nat \ {0}
        OBVIOUS
      <3>3. \A t, t2 \in Nat : t2 - t = (t2 + 1) - (t + 1)
        OBVIOUS
      <3>. QED  BY <2>1, <3>1, <3>2, <3>3
    <2>3. T * S2 <= T2 * S
      BY PaymentsKeepPrice
    <2>4. gain(h) = (s2 * T2) \div S2 - (s * T) \div S
      BY DEF maxWithdraw, convertToAssets
    <2>5. /\ (s * T) \div S \in Nat /\ (s * T2) \div S2 \in Nat
      <3>. HIDE DEF s, T, S, T2, S2
      <3>1. s * T \in Nat /\ s * T2 \in Nat
        BY <2>1, <2>2
      <3>. QED  BY <2>2, <3>1, DivNat
    <2>6. CASE s2 = s
      <3>. HIDE DEF T, S, T2, S2
      <3>1. (s * T) \div S <= (s * T2) \div S2
        <4>. HIDE DEF s
        <4>. QED  BY <2>1, <2>2, <2>3, BystanderClaim
      <3>2. gain(h) = (s * T2) \div S2 - (s * T) \div S
        BY <2>4, <2>6
      <3>. HIDE DEF gain
      <3>3. gain(h) >= 0
        BY <2>5, <3>1, <3>2
      <3>. QED  BY <2>6, <3>3
    <2>7. CASE s2 # s
      <3>1. S2 = s2 + o /\ (T2 * S < T * S2 + T \/ T2 * S < T * S2 + S)
        <4>1. ASSUME NEW a \in Nat, Earned(a) PROVE FALSE
          BY <2>7, <4>1 DEF Earned, ledger
        <4>2. ASSUME NEW k \in Holder, NEW a \in Nat, NEW m \in Nat, Ledger!Issue(k, a, m)
              PROVE  S2 = s2 + o /\ (T2 * S < T * S2 + T \/ T2 * S < T * S2 + S)
          <5>1. k = h /\ s2 = s + m
            BY <2>7, <4>2 DEF Ledger!Issue, WellFormed, TypeOK
          <5>2. T2 = T + a /\ S2 = S + m
            BY <2>1, <4>2 DEF Ledger!Issue
          <5>3. a * S < T * m + T \/ a * S < T * m + S
            <6>1. T * m + T = T * m + totalAssets + 1
                  /\ T * m + S = T * m + totalSupply + VirtualShares
              BY <2>1
            <6>. QED  BY <4>2, <6>1 DEF Ledger!Issue, Ledger!Rounded
          <5>. HIDE DEF T, S, T2, S2, s, s2
          <5>4. T2 * S = T * S + a * S /\ T * S2 = T * S + T * m
            BY <2>2, <5>2
          <5>5. T * S \in Nat /\ a * S \in Nat /\ T * m \in Nat
            BY <2>2
          <5>. QED  BY <2>1, <2>2, <5>1, <5>2, <5>3, <5>4, <5>5
        <4>3. ASSUME NEW k \in Holder, NEW a \in Nat, NEW m \in Nat, Ledger!Redeem(k, a, m)
              PROVE  S2 = s2 + o /\ (T2 * S < T * S2 + T \/ T2 * S < T * S2 + S)
          <5>1. k = h /\ s2 = s - m
            BY <2>7, <4>3 DEF Ledger!Redeem, Ledger!Rounded, WellFormed, TypeOK
          <5>2. T2 = T - a /\ S2 = S - m
            BY <2>1, <4>3 DEF Ledger!Redeem, Ledger!Rounded
          <5>3. T * m < a * S + T \/ T * m < a * S + S
            <6>1. a * S + T = a * S + totalAssets + 1
                  /\ a * S + S = a * S + totalSupply + VirtualShares
              BY <2>1
            <6>. QED  BY <4>3, <6>1 DEF Ledger!Redeem, Ledger!Rounded
          <5>. HIDE DEF T, S, T2, S2, s, s2
          <5>4. T2 * S = T * S - a * S /\ T * S2 = T * S - T * m
            BY <2>2, <5>2
          <5>5. T * S \in Nat /\ a * S \in Nat /\ T * m \in Nat
            BY <2>2
          <5>. QED  BY <2>1, <2>2, <5>1, <5>2, <5>3, <5>4, <5>5
        <4>. QED  BY <4>1, <4>2, <4>3 DEF Payment
      <3>. HIDE DEF T, S, T2, S2, o, s, s2
      <3>2. (s2 * T2) \div S2 - (s * T) \div S <= T2 - T
            /\ (T2 - T - ((s2 * T2) \div S2 - (s * T) \div S) - 1) * S < T
        BY <2>1, <2>2, <2>3, <3>1, CallerClaim
      <3>. HIDE DEF gain, paid
      <3>3. gain(h) <= paid /\ (paid - gain(h) - 1) * S < T
        BY <2>2, <2>4, <3>2
      <3>. QED  BY <2>7, <3>3 DEF s, s2, S, T
    <2>. QED  BY <2>6, <2>7
  <1>. QED  BY <1>1, WellFormedAlways, PTL DEF Spec, ClaimsFollowPayments

-----------------------------------------------------------------------------
(* The share ledger *)

\* The arithmetic of the performance fee, on t assets and s shares, virtual ones
\* included, of which n are held: its shares are at most the rate f of those n.
LEMMA FeeAlgebra ==
    ASSUME NEW t \in Nat \ {0}, NEW s \in Nat \ {0}, NEW n \in Nat, NEW f \in Nat,
           NEW profit \in Nat, profit * s <= PriceUnit * t
    PROVE  LET feeAssets == (profit * f * n) \div (BPS * PriceUnit)
               feeShares == (feeAssets * s) \div t
           IN  feeShares \in Nat /\ feeShares * BPS <= f * n
  <1>. DEFINE K == BPS * PriceUnit
              P == profit * f * n
              a == P \div K
              m == (a * s) \div t
              c == t * PriceUnit
  <1>1. /\ BPS \in Nat \ {0} /\ PriceUnit \in Nat \ {0}
        /\ K \in Nat \ {0} /\ P \in Nat /\ c \in Nat \ {0}
    BY ConstantTypes
  <1>2. a \in Nat /\ K * a <= P
    <2>. HIDE DEF K, P
    <2>. QED  BY <1>1, DivNat, DivBounds
  <1>3. m \in Nat /\ t * m <= a * s
    <2>1. a * s \in Nat
      BY <1>2
    <2>. HIDE DEF a
    <2>. QED  BY <2>1, DivNat, DivBounds
  <1>. HIDE DEF a, m
  <1>4. (t * m) * K <= (a * s) * K
    <2>1. t * m \in Nat /\ a * s \in Nat
      BY <1>2, <1>3
    <2>. HIDE DEF K
    <2>. QED  BY <1>1, <1>3, <2>1
  <1>5. (K * a) * s <= P * s
    <2>1. K * a \in Nat
      BY <1>1, <1>2
    <2>. HIDE DEF K, P
    <2>. QED  BY <1>1, <1>2, <2>1
  <1>6. (profit * s) * (f * n) <= (PriceUnit * t) * (f * n)
    <2>1. profit * s \in Nat /\ PriceUnit * t \in Nat /\ f * n \in Nat
      BY <1>1
    <2>. QED  BY <2>1
  <1>7. /\ (a * s) * K = (K * a) * s
        /\ (t * m) * K = c * (m * BPS)
    BY <1>1, <1>2, <1>3
  <1>8. /\ P * s = (profit * s) * (f * n)
        /\ (PriceUnit * t) * (f * n) = c * (f * n)
    BY <1>1
  <1>9. c * (m * BPS) <= c * (f * n)
    <2>1. /\ (t * m) * K \in Nat /\ (a * s) * K \in Nat /\ P * s \in Nat
          /\ c * (f * n) \in Nat
      BY <1>1, <1>2, <1>3
    <2>. HIDE DEF c, K, P
    <2>. QED  BY <1>4, <1>5, <1>6, <1>7, <1>8, <2>1
  <1>10. m * BPS <= f * n
    <2>1. m * BPS \in Nat /\ f * n \in Nat
      BY <1>1, <1>3
    <2>. SUFFICES ASSUME f * n + 1 <= m * BPS PROVE FALSE
      BY <2>1
    <2>2. c * (f * n + 1) <= c * (m * BPS) /\ c * (f * n + 1) = c * (f * n) + c
          /\ c * (f * n) \in Nat /\ c * (m * BPS) \in Nat
      <3>. HIDE DEF c
      <3>. QED  BY <1>1, <2>1
    <2>. HIDE DEF c
    <2>. QED  BY <1>1, <1>9, <2>2
  <1>. QED  BY <1>3, <1>10 DEF a, m

\* A fee takes no more than its rate of the shares outstanding.
LEMMA FeeWithinRate ==
    ASSUME WellFormed, NEW total \in Nat, CollectPerformanceFee(total)
    PROVE  /\ accruedFeeShares' >= accruedFeeShares
           /\ (accruedFeeShares' - accruedFeeShares) * BPS <= performanceFeeBps * totalSupply
  <1>. DEFINE S == totalSupply + VirtualShares
              T == total + 1
              price == (PriceUnit * T) \div S
              profit == price - highWaterMark
              feeAssets == (profit * performanceFeeBps * totalSupply) \div (BPS * PriceUnit)
              feeShares == (feeAssets * S) \div T
  <1>1. /\ totalSupply \in Nat /\ S \in Nat \ {0} /\ T \in Nat \ {0}
        /\ BPS \in Nat
        /\ PriceUnit * T \in Nat
    BY Totals, ConstantTypes
  <1>2. /\ performanceFeeBps \in Nat /\ highWaterMark \in Nat /\ accruedFeeShares \in Nat
    BY DEF WellFormed, TypeOK
  <1>3. price \in Nat /\ S * price <= PriceUnit * T
    <2>. HIDE DEF S, T
    <2>. QED  BY <1>1, DivNat, DivBounds
  <1>4. CASE FeeDue(price)
    <2>1. accruedFeeShares' = accruedFeeShares + feeShares
      BY <1>4 DEF CollectPerformanceFee
    <2>. HIDE DEF price, S, T
    <2>2. profit \in Nat /\ profit * S <= PriceUnit * T
      <3>1. profit \in Nat /\ profit <= price
        BY <1>2, <1>3, <1>4 DEF FeeDue
      <3>. HIDE DEF profit
      <3>2. S * profit <= S * price /\ S * profit = profit * S
            /\ S * price \in Nat /\ S * profit \in Nat
        BY <1>1, <1>3, <3>1
      <3>. QED  BY <1>1, <1>3, <3>1, <3>2
    <2>. HIDE DEF profit
    <2>3. feeShares \in Nat /\ feeShares * BPS <= performanceFeeBps * totalSupply
      BY <1>1, <1>2, <2>2, FeeAlgebra
    <2>. HIDE DEF feeShares
    <2>4. accruedFeeShares' - accruedFeeShares = feeShares
      BY <1>2, <2>1, <2>3
    <2>. QED  BY <1>2, <2>1, <2>3, <2>4
  <1>5. CASE ~FeeDue(price)
    <2>1. accruedFeeShares' = accruedFeeShares
      BY <1>5 DEF CollectPerformanceFee, fees
    <2>2. (accruedFeeShares - accruedFeeShares) * BPS = 0
          /\ performanceFeeBps * totalSupply \in Nat
      BY <1>1, <1>2
    <2>. QED  BY <1>2, <2>1, <2>2
  <1>. QED  BY <1>4, <1>5

\* The fee in force is one the owner chooses among.
FeeListed == performanceFeeBps \in PerformanceFees

LEMMA FeeAlwaysListed == Spec => []FeeListed
  <1>1. Init => FeeListed
    BY DEF Init, FeeListed
  <1>2. FeeListed /\ [Next]_vars => FeeListed'
    <2>. SUFFICES ASSUME FeeListed, [Next]_vars PROVE FeeListed'
      OBVIOUS
    <2>. USE DEF FeeListed, feeRates
    <2>1. CASE UNCHANGED vars
      BY <2>1 DEF vars
    <2>2. CASE HolderNext
      BY <2>2 DEF HolderNext, deposit, mint, withdraw, redeem, PayOut
    <2>3. CASE RebalanceNext
      BY <2>3 DEF RebalanceNext, rebalance, performUpkeep, Rebalanced
    <2>4. CASE OwnerNext
      BY <2>4 DEF OwnerNext, setPaused, emergencyWithdrawAll, setKeeper, setParameters,
                  setFees, claimFees, setStrategyParameters, EnvironmentOnly
    <2>5. CASE AgentNext
      BY <2>5 DEF AgentNext, sign
    <2>6. CASE EnvironmentNext
      BY <2>6 DEF EnvironmentNext, accrue, donate, freeze, rateMoves, updateSmoothedRates,
                  consumeNonce, tick, EnvironmentOnly
    <2>. QED  BY <2>1, <2>2, <2>3, <2>4, <2>5, <2>6 DEF Next
  <1>. QED  BY <1>1, <1>2, PTL DEF Spec

\* A payment that accrues no fee is a step of the ledger.
LEMMA PaymentsInLedger ==
    ASSUME WellFormed, WellFormed', Payment, UNCHANGED accruedFeeShares
    PROVE  Ledger!LedgerNext
  <1>0. /\ totalAssets \in Nat /\ totalAssets' \in Nat
        /\ totalSupply \in Nat /\ totalSupply' \in Nat
    BY TotalsTyped
  <1>1. ASSUME NEW a \in Nat, Earned(a) PROVE Ledger!LedgerNext
    <2>1. totalAssets' >= totalAssets
      BY <1>0, <1>1 DEF Earned
    <2>. QED  BY <1>1, <2>1 DEF Earned, ledger, Ledger!Earn, Ledger!LedgerNext
  <1>2. ASSUME NEW h \in Holder, NEW a \in Nat, NEW m \in Nat, Ledger!Issue(h, a, m)
        PROVE  Ledger!LedgerNext
    <2>1. totalAssets' = totalAssets + a /\ totalSupply' = totalSupply + m
      BY <1>2 DEF Ledger!Issue
    <2>2. a = totalAssets' - totalAssets /\ m = totalSupply' - totalSupply
      BY <1>0, <2>1
    <2>. QED  BY <1>2, <2>2 DEF Ledger!LedgerNext
  <1>3. ASSUME NEW h \in Holder, NEW a \in Nat, NEW m \in Nat, Ledger!Redeem(h, a, m)
        PROVE  Ledger!LedgerNext
    <2>1. totalAssets' = totalAssets - a /\ totalSupply' = totalSupply - m
      BY <1>3 DEF Ledger!Redeem
    <2>2. a = totalAssets - totalAssets' /\ m = totalSupply - totalSupply'
      BY <1>0, <2>1
    <2>. QED  BY <1>3, <2>2 DEF Ledger!LedgerNext
  <1>. QED  BY <1>1, <1>2, <1>3 DEF Payment

\* A rebalance only charges a fee.
LEMMA RebalancesCharge ==
    ASSUME SupplyLoss = 0, WellFormed, WellFormed', FeeListed, RebalanceNext
    PROVE  Ledger!Charge
  <1>1. PICK from \in AdapterIndex, to \in AdapterIndex, m \in Nat, loss \in Losses :
           Rebalanced(from, to, m, loss)
    BY RebalancesMove
  <1>2. loss = 0
    BY DEF Losses
  <1>3. MoveFunds(from, to, 0) /\ UNCHANGED ledger /\ CollectPerformanceFee(totalAssets')
    BY <1>1, <1>2 DEF Rebalanced, totalAssets
  <1>4. totalAssets' = totalAssets
    BY <1>3, MoveConserves
  <1>5. totalAssets' \in Nat
    BY TotalsTyped
  <1>6. /\ accruedFeeShares' >= accruedFeeShares
        /\ (accruedFeeShares' - accruedFeeShares) * BPS <= performanceFeeBps * totalSupply
    BY <1>3, <1>5, FeeWithinRate
  <1>. QED  BY <1>3, <1>4, <1>6 DEF FeeListed, ledger, Ledger!Charge

\* With pools that credit every supply in full, the vault implements the ledger
\* of shares its holders may think of it as, whatever the agent, the fallback, the
\* owner and the pools do behind it.
THEOREM VaultImplementsLedger ==
    ASSUME SupplyLoss = 0
    PROVE  Spec => KeepsShareLedger
  <1>1. Init => Ledger!LedgerInit
    BY ConstantTypes
    DEF Init, StrategyInit, totalAssets, Deployed, Ledger!LedgerInit
  <1>2. WellFormed /\ WellFormed' /\ FeeListed /\ [Next]_vars
            => [Ledger!LedgerNext]_(Ledger!ledgerVars)
    <2>. SUFFICES ASSUME WellFormed, WellFormed', FeeListed, [Next]_vars
                  PROVE  Ledger!LedgerNext \/ UNCHANGED Ledger!ledgerVars
      OBVIOUS
    <2>1. CASE UNCHANGED vars
      BY <2>1 DEF vars, funds, ledger, fees, totalAssets, Ledger!ledgerVars
    <2>2. ASSUME Next, UNCHANGED accruedFeeShares PROVE Ledger!LedgerNext
      BY <2>2, StepsArePayments, PaymentsInLedger DEF WellFormed, TypeOK
    <2>3. CASE HolderNext
      BY <2>2, <2>3, HolderSteps DEF Next, fees
    <2>4. CASE RebalanceNext
      BY <2>4, RebalancesCharge DEF Ledger!LedgerNext
    <2>5. CASE OwnerNext
      <3>1. CASE claimFees
        BY <3>1 DEF claimFees, MintShares, funds, totalAssets, Ledger!ClaimFees,
                    Ledger!LedgerNext
      <3>2. CASE UNCHANGED accruedFeeShares
        BY <2>2, <2>5, <3>2 DEF Next
      <3>. QED  BY <2>5, <3>1, <3>2, OwnerSteps DEF Quiet, emergencyWithdrawAll, fees
    <2>6. CASE AgentNext
      BY <2>2, <2>6 DEF Next, AgentNext, sign, fees
    <2>7. CASE EnvironmentNext
      <3>1. UNCHANGED accruedFeeShares
        BY <2>7, EnvironmentSteps DEF Quiet, accrue, donate, EnvironmentOnly, fees
      <3>. QED  BY <2>2, <2>7, <3>1 DEF Next
    <2>. QED  BY <2>1, <2>3, <2>4, <2>5, <2>6, <2>7 DEF Next
  <1>. QED
    BY <1>1, <1>2, WellFormedAlways, FeeAlwaysListed, PTL
    DEF Spec, KeepsShareLedger, Ledger!LedgerSpec

-----------------------------------------------------------------------------
(* Fees *)

\* A rebalance, of either path, leaves the mark at or above the price it may
\* have collected a fee at, never lowers it, and collects only above it.
LEMMA CollectedAtMark ==
    ASSUME WellFormed, NEW from \in AdapterIndex, NEW to \in AdapterIndex, NEW maxLossBps,
           NEW loss \in Losses, Rebalanced(from, to, maxLossBps, loss), WellFormed'
    PROVE  /\ highWaterMark <= highWaterMark'
           /\ performanceFeeBps > 0 /\ totalSupply > 0 => sharePrice' <= highWaterMark'
           /\ accruedFeeShares' > accruedFeeShares => sharePrice' > highWaterMark
  <1>. DEFINE total == idle' + Deployed(balance')
              S == totalSupply + VirtualShares
              price == (PriceUnit * (total + 1)) \div S
  <1>1. total \in Nat
    BY ReadTypes, TypeMoveFunds, ConstantTypes DEF WellFormed, Rebalanced, Deployed
  <1>2. totalSupply \in Nat /\ S \in Nat \ {0} /\ performanceFeeBps \in Nat
        /\ highWaterMark \in Nat /\ accruedFeeShares \in Nat
    BY ConstantTypes DEF WellFormed, TypeOK
  <1>3. sharePrice' = price
    BY DEF Rebalanced, ledger, sharePrice, totalAssets
  <1>4. price \in Nat
    <2>1. PriceUnit * (total + 1) \in Nat
      <3>. HIDE DEF total
      <3>. QED  BY <1>1, ConstantTypes
    <2>. HIDE DEF S, total
    <2>. QED  BY <1>2, <2>1, DivNat
  <1>5. IF FeeDue(price)
        THEN highWaterMark' = price
        ELSE highWaterMark' = highWaterMark /\ accruedFeeShares' = accruedFeeShares
    BY DEF Rebalanced, CollectPerformanceFee, fees
  <1>. HIDE DEF price
  <1>. QED  BY <1>2, <1>3, <1>4, <1>5 DEF FeeDue

\* The mark is at or above every price at which a fee was collected.
MarkAtPeak == peak \in Nat /\ peak <= highWaterMark

\* With any settings, amounts and pools, lossy ones included, a performance fee
\* accrues only at a share price above every earlier price at which one was
\* collected: the mark of AIVault._collectPerformanceFee is never lowered.
THEOREM NoFeeOnRecoveryHolds == AuditSpec => NoFeeOnRecovery
  <1>. DEFINE Charged == accruedFeeShares' > accruedFeeShares => sharePrice' > peak
  <1>1. AuditInit => Init /\ MarkAtPeak
    BY DEF AuditInit, Init, MarkAtPeak
  <1>2. [AuditNext]_auditVars => [Next]_vars
    BY DEF AuditNext, auditVars
  <1>3. WellFormed /\ WellFormed' /\ MarkAtPeak /\ [AuditNext]_auditVars
            => MarkAtPeak' /\ [Charged]_auditVars
    <2>. SUFFICES ASSUME WellFormed, WellFormed', MarkAtPeak, [AuditNext]_auditVars
                  PROVE  MarkAtPeak' /\ [Charged]_auditVars
      OBVIOUS
    <2>0. /\ highWaterMark \in Nat /\ highWaterMark' \in Nat
          /\ accruedFeeShares \in Nat /\ accruedFeeShares' \in Nat
          /\ performanceFeeBps \in Nat /\ totalSupply \in Nat /\ sharePrice' \in Nat
      <3>1. totalAssets' \in Nat /\ totalSupply' \in Nat
        <4>1. idle' \in Nat /\ balance'[0] \in Nat /\ balance'[1] \in Nat
          BY ConstantTypes DEF WellFormed, TypeOK, StrategyTypeOK
        <4>. QED  BY <4>1 DEF WellFormed, TypeOK, totalAssets, Deployed
      <3>2. sharePrice' \in Nat
        <4>. DEFINE a == PriceUnit * (totalAssets' + 1)
                    b == totalSupply' + VirtualShares
        <4>1. a \in Nat /\ b \in Nat \ {0}
          <5>1. \A t \in Nat : PriceUnit * (t + 1) \in Nat /\ t + VirtualShares \in Nat \ {0}
            BY ConstantTypes
          <5>. QED  BY <3>1, <5>1
        <4>2. sharePrice' = a \div b
          BY DEF sharePrice
        <4>. HIDE DEF a, b
        <4>. QED  BY <4>1, <4>2, DivNat
      <3>. QED  BY <3>2 DEF WellFormed, TypeOK
    <2>1. CASE UNCHANGED auditVars
      BY <2>1 DEF auditVars, vars, fees, MarkAtPeak
    <2>2. CASE AuditNext
      <3>1. ASSUME ~Collected, highWaterMark' = highWaterMark,
                   accruedFeeShares' <= accruedFeeShares
            PROVE  MarkAtPeak' /\ Charged
        <4>1. peak' = peak
          BY <2>2, <3>1 DEF AuditNext
        <4>. QED  BY <2>0, <3>1, <4>1 DEF MarkAtPeak
      <3>2. ASSUME NEW from \in AdapterIndex, NEW to \in AdapterIndex, NEW maxLossBps \in Nat,
                   NEW loss \in Losses, Rebalanced(from, to, maxLossBps, loss)
            PROVE  MarkAtPeak' /\ Charged
        <4>1. /\ highWaterMark <= highWaterMark'
              /\ performanceFeeBps > 0 /\ totalSupply > 0 => sharePrice' <= highWaterMark'
              /\ accruedFeeShares' > accruedFeeShares => sharePrice' > highWaterMark
          BY <3>2, CollectedAtMark
        <4>2. \/ peak' = peak
              \/ peak' = sharePrice' /\ performanceFeeBps > 0 /\ totalSupply > 0
          BY <2>2 DEF AuditNext
        <4>. QED  BY <2>0, <4>1, <4>2 DEF MarkAtPeak
      <3>3. CASE HolderNext
        <4>1. UNCHANGED <<fees, strategy, decisions>>
          BY <3>3, HolderSteps
        <4>. QED  BY <2>0, <3>1, <4>1 DEF fees, strategy, decisions, Collected
      <3>4. CASE RebalanceNext
        BY <3>2, <3>4, RebalancesMove
      <3>5. CASE OwnerNext
        <4>1. /\ UNCHANGED <<lastRebalanceTimestamp, executed, highWaterMark>>
              /\ accruedFeeShares' \in {accruedFeeShares, 0}
          BY <3>5 DEF OwnerNext, setPaused, emergencyWithdrawAll, setKeeper, setParameters,
                      setFees, claimFees, setStrategyParameters, EnvironmentOnly,
                      fees, strategy, decisions
        <4>. QED  BY <2>0, <3>1, <4>1 DEF Collected
      <3>6. CASE AgentNext
        <4>1. UNCHANGED <<fees, strategy, executed>>
          BY <3>6 DEF AgentNext, sign
        <4>. QED  BY <2>0, <3>1, <4>1 DEF fees, strategy, Collected
      <3>7. CASE EnvironmentNext
        <4>1. UNCHANGED <<fees, strategy, executed>>
          BY <3>7 DEF EnvironmentNext, accrue, donate, freeze, rateMoves, updateSmoothedRates,
                      consumeNonce, tick, EnvironmentOnly, decisions
        <4>. QED  BY <2>0, <3>1, <4>1 DEF fees, strategy, Collected
      <3>. QED  BY <2>2, <3>3, <3>4, <3>5, <3>6, <3>7 DEF AuditNext, Next
    <2>. QED  BY <2>1, <2>2 DEF auditVars
  <1>. QED  BY <1>1, <1>2, <1>3, WellFormedAlways, PTL DEF AuditSpec, Spec, NoFeeOnRecovery
=============================================================================
