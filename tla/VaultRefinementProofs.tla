------------------------ MODULE VaultRefinementProofs ------------------------
(* Every step of AIVault is a step of VaultView or leaves the view as it is. *)
EXTENDS VaultRefinement, AIVaultProofs

viewed == <<now, strategy, rebalanceNonce, paused, signed>>

\* The settings in force are among those the owner chooses from.
SettingsListed == vaultParams \in VaultParams

LEMMA SettingsAlwaysListed == Spec => []SettingsListed
  <1>1. Init => SettingsListed
    BY DEF Init, SettingsListed
  <1>2. SettingsListed /\ [Next]_vars => SettingsListed'
    <2>. SUFFICES ASSUME SettingsListed, [Next]_vars PROVE SettingsListed'
      OBVIOUS
    <2>. USE DEF SettingsListed, admin
    <2>1. CASE UNCHANGED vars
      BY <2>1 DEF vars
    <2>2. CASE HolderNext
      BY <2>2 DEF HolderNext, deposit, mint, withdraw, redeem, PayOut
    <2>3. CASE RebalanceNext
      BY <2>3 DEF RebalanceNext, rebalance, performUpkeep, Rebalanced
    <2>4. CASE OwnerNext
      BY <2>4 DEF OwnerNext, setPaused, emergencyWithdrawAll, setKeeper, setParameters,
                  setFees, claimFees, setStrategyParameters, EnvironmentOnly
    <2>5. CASE AgentNext
      BY <2>5 DEF AgentNext, sign
    <2>6. CASE EnvironmentNext
      BY <2>6 DEF EnvironmentNext, accrue, donate, freeze, rateMoves, updateSmoothedRates,
                  consumeNonce, tick, EnvironmentOnly
    <2>. QED  BY <2>1, <2>2, <2>3, <2>4, <2>5, <2>6 DEF Next
  <1>. QED  BY <1>1, <1>2, PTL DEF Spec

\* What the view sees of a holder's step: nothing.
LEMMA HolderUnseen ==
    ASSUME HolderNext
    PROVE  UNCHANGED viewed
  BY DEF HolderNext, deposit, mint, withdraw, redeem, PayOut, managerVars, admin,
         decisions, viewed

\* What the view sees of the owner's step.
LEMMA OwnerSeen ==
    ASSUME WellFormed, OwnerNext
    PROVE  UNCHANGED viewed \/ View!SetPaused \/ View!Exit
  <1>. USE DEF viewed, strategy, admin, decisions, managerVars
  <1>1. ASSUME NEW p \in BOOLEAN, setPaused(p) PROVE View!SetPaused
    <2>1. paused \in BOOLEAN
      BY DEF WellFormed, TypeOK
    <2>2. paused' = ~paused
      BY <1>1, <2>1 DEF setPaused
    <2>. QED  BY <1>1, <2>2 DEF setPaused, View!SetPaused, View!strategyView
  <1>2. ASSUME emergencyWithdrawAll PROVE View!Exit
    BY <1>2 DEF emergencyWithdrawAll, View!Exit
  <1>3. ASSUME NEW k \in Keys, setKeeper(k) PROVE UNCHANGED viewed
    BY <1>3 DEF setKeeper
  <1>4. ASSUME NEW p \in VaultParams, setParameters(p) PROVE UNCHANGED viewed
    BY <1>4 DEF setParameters
  <1>5. ASSUME NEW m \in ManagementFees, NEW f \in PerformanceFees, setFees(m, f)
        PROVE  UNCHANGED viewed
    BY <1>5 DEF setFees
  <1>6. ASSUME claimFees PROVE UNCHANGED viewed
    BY <1>6 DEF claimFees
  <1>7. ASSUME NEW p \in StrategyParams, setStrategyParameters(p) PROVE UNCHANGED viewed
    BY <1>7 DEF setStrategyParameters, SetStrategyParameters, EnvironmentOnly
  <1>. QED  BY <1>1, <1>2, <1>3, <1>4, <1>5, <1>6, <1>7 DEF OwnerNext

\* What the view sees of the pools, the market and the clock.
LEMMA EnvironmentSeen ==
    ASSUME EnvironmentNext
    PROVE  UNCHANGED viewed \/ View!NonceConsumed \/ View!Tick
  <1>. USE DEF viewed, strategy, admin, decisions, managerVars, EnvironmentOnly
  <1>1. ASSUME NEW i \in AdapterIndex, NEW a \in Interest, accrue(i, a)
        PROVE  UNCHANGED viewed
    BY <1>1 DEF accrue
  <1>2. ASSUME NEW a \in Amounts, donate(a) PROVE UNCHANGED viewed
    BY <1>2 DEF donate
  <1>3. ASSUME NEW i \in AdapterIndex, freeze(i) PROVE UNCHANGED viewed
    BY <1>3 DEF freeze
  <1>4. ASSUME NEW i \in AdapterIndex, NEW r \in Rates, rateMoves(i, r)
        PROVE  UNCHANGED viewed
    BY <1>4 DEF rateMoves
  <1>5. ASSUME updateSmoothedRates PROVE UNCHANGED viewed
    BY <1>5 DEF updateSmoothedRates
  <1>6. ASSUME consumeNonce PROVE View!NonceConsumed
    BY <1>6 DEF consumeNonce, ConsumeNonce, View!NonceConsumed, View!strategyView
  <1>7. ASSUME tick PROVE View!Tick
    BY <1>7 DEF tick, View!Tick, View!strategyView
  <1>. QED  BY <1>1, <1>2, <1>3, <1>4, <1>5, <1>6, <1>7 DEF EnvironmentNext

\* Both rebalance paths switch the active adapter as the view does.
LEMMA RebalancedSwitches ==
    ASSUME WellFormed, SettingsListed, ~paused, CooldownElapsed,
           NEW from, NEW to, NEW maxLossBps, NEW loss,
           Rebalanced(from, to, maxLossBps, loss)
    PROVE  View!Switch(to)
  <1>1. now >= lastRebalanceTimestamp + MinCooldown
    <2>1. /\ now \in Nat /\ lastRebalanceTimestamp \in Nat
          /\ vaultParams \in VaultParams /\ VaultParams \subseteq VaultParamsType
      BY AIVaultAssumption DEF WellFormed, TypeOK, SettingsListed
    <2>2. /\ vaultParams.cooldownPeriod \in Nat /\ MinCooldown \in Nat
          /\ vaultParams.cooldownPeriod >= MinCooldown
      BY <2>1, ViewAssumption DEF VaultParamsType
    <2>. QED  BY <2>1, <2>2 DEF CooldownElapsed
  <1>. QED  BY <1>1 DEF Rebalanced, View!Switch, admin

\* What the view sees of a rebalance.
LEMMA RebalanceSeen ==
    ASSUME WellFormed, SettingsListed, RebalanceNext
    PROVE  (\E d \in signed : View!Execute(d)) \/ (\E to \in AdapterIndex : View!Upkeep(to))
  <1>1. ASSUME NEW loss \in Losses, NEW d \in signed, rebalance(d, loss)
        PROVE  View!Execute(d)
    <2>1. View!Switch(d.targetAdapterIndex)
      BY <1>1, RebalancedSwitches DEF rebalance
    <2>. QED  BY <1>1, <2>1 DEF rebalance, Fresh, ConsumeNonce, View!Execute
  <1>2. ASSUME NEW loss \in Losses, NEW from \in AdapterIndex, NEW to \in AdapterIndex,
               NEW g \in GasPrices, performUpkeep(from, to, g, loss)
        PROVE  View!Upkeep(to)
    <2>1. View!Switch(to)
      BY <1>2, RebalancedSwitches DEF performUpkeep, UpkeepNeeded
    <2>2. now >= lastRebalanceTimestamp + MinAgentTimeout
      <3>1. /\ now \in Nat /\ lastRebalanceTimestamp \in Nat
            /\ vaultParams \in VaultParams /\ VaultParams \subseteq VaultParamsType
        BY AIVaultAssumption DEF WellFormed, TypeOK, SettingsListed
      <3>2. /\ vaultParams.agentTimeout \in Nat /\ MinAgentTimeout \in Nat
            /\ vaultParams.agentTimeout >= MinAgentTimeout
        BY <3>1, ViewAssumption DEF VaultParamsType
      <3>. QED  BY <1>2, <3>1, <3>2 DEF performUpkeep, UpkeepNeeded, AgentTimedOut
    <2>. QED  BY <1>2, <2>1, <2>2 DEF performUpkeep, View!Upkeep
  <1>. QED  BY <1>1, <1>2 DEF RebalanceNext

\* AIVault implements the view its agents rely on, whatever the settings the
\* owner chooses from, as long as none is below the view's two minima.
THEOREM VaultImplementsView == Spec => RefinesView
  <1>1. Init => View!ViewInit
    BY DEF Init, StrategyInit, View!ViewInit
  <1>2. WellFormed /\ SettingsListed /\ [Next]_vars => [View!ViewNext]_(View!viewVars)
    <2>. SUFFICES ASSUME WellFormed, SettingsListed, [Next]_vars
                  PROVE  View!ViewNext \/ UNCHANGED viewed
      BY DEF viewed, strategy, View!viewVars, View!strategyView
    <2>1. ASSUME HolderNext PROVE UNCHANGED viewed
      BY <2>1, HolderUnseen
    <2>2. ASSUME RebalanceNext PROVE View!ViewNext
      BY <2>2, RebalanceSeen DEF View!ViewNext
    <2>3. ASSUME OwnerNext PROVE View!ViewNext \/ UNCHANGED viewed
      BY <2>3, OwnerSeen DEF View!ViewNext
    <2>4. ASSUME AgentNext PROVE View!Sign
      BY <2>4 DEF AgentNext, sign, View!Sign, View!strategyView, strategy, admin, managerVars
    <2>5. ASSUME EnvironmentNext PROVE View!ViewNext \/ UNCHANGED viewed
      BY <2>5, EnvironmentSeen DEF View!ViewNext
    <2>6. ASSUME UNCHANGED vars PROVE UNCHANGED viewed
      BY <2>6 DEF vars, viewed, admin, decisions, managerVars
    <2>. QED  BY <2>1, <2>2, <2>3, <2>4, <2>5, <2>6 DEF Next, View!ViewNext
  <1>. QED  BY <1>1, <1>2, WellFormedAlways, SettingsAlwaysListed, PTL
        DEF Spec, RefinesView, View!ViewSpec
=============================================================================
