----------------------------- MODULE VaultClaims -----------------------------
(***************************************************************************)
(* What the repository's documents, comments and tests say of the vault,   *)
(* stated over AIVault, and the fallback's progress under fairness.        *)
(***************************************************************************)
EXTENDS AIVault

\* Chainlink Automation keeps calling performUpkeep while checkUpkeep says it
\* is needed, and blocks keep coming.  Nothing else is owed to the vault: the
\* agent may be gone, and no one has a duty to call the manager.
Fallback ==
    \E from, to \in AdapterIndex, g \in GasPrices, loss \in Losses :
        performUpkeep(from, to, g, loss)

FairSpec == Spec /\ WF_vars(tick) /\ WF_vars(Fallback)

\* Adapter i pays more than every other one by what the manager asks for, in the
\* rates that `rate' holds.
PaysMost(i, rate) == \A j \in AdapterIndex \ {i} :
    rate[i] > rate[j] /\ rateToBps(rate[i] - rate[j]) >= strategyParams.minDeltaBps

\* The agent has been silent for its timeout, and nothing forbids the fallback.
AgentGone == ~paused /\ CooldownElapsed /\ AgentTimedOut

\* The manager's rate of each adapter: the market's until it has smoothed one.
KnownRate == [i \in AdapterIndex |->
    IF smoothedRates[i] = 0 THEN supplyRate[i] ELSE smoothedRates[i]]

\* As far as the manager's rates tell, adapter i is better than the one evaluate
\* finds the funds in, which can pay them out, and a day's gain pays for the gas.
Overdue(i) ==
    /\ AgentGone /\ totalAssets > 0
    /\ PaysMost(i, KnownRate)
    /\ \A j \in AdapterIndex : IsCurrent(j) => j # i /\ j \notin frozen
    /\ \A j \in AdapterIndex \ {i}, g \in GasPrices :
           (totalAssets * (KnownRate[i] - KnownRate[j])) \div Year
               > g * strategyParams.estimatedRebalanceGas


\* The funds are in one adapter and another one pays more, as the market has it.
LeftBehind(i) ==
    /\ AgentGone
    /\ hasActiveStrategy /\ balance[activeAdapterIndex] > 0 /\ activeAdapterIndex # i
    /\ PaysMost(i, supplyRate)

\* docs/paper.md:101, "Chainlink Automation fallback ensures the vault is never
\* unmanaged if the agent goes offline": funds that were allocated do not sit for
\* ever at the lower of two rates that no longer move.
NeverUnmanaged == \A i \in AdapterIndex : ~ <>[]LeftBehind(i)

\* AgentFlowTest.t.sol:114-128, "Agent rebalances to Aave (adapter 0)", "Should
\* be on Aave": once a signed decision is executed its target holds funds.
RebalanceDeploys ==
    [][ executed' # executed /\ totalAssets' > 0
        => balance'[activeAdapterIndex'] > 0 ]_vars
=============================================================================
