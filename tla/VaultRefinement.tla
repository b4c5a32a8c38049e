--------------------------- MODULE VaultRefinement ---------------------------
(* AIVault implements VaultView: the variables of the view are the vault's   *)
(* own, and all that the view does not name happens without changing it.     *)
EXTENDS AIVault

CONSTANTS MinCooldown, MinAgentTimeout

ASSUME ViewAssumption ==
    /\ MinCooldown \in Nat /\ MinAgentTimeout \in Nat
    /\ \A p \in VaultParams :
           p.cooldownPeriod >= MinCooldown /\ p.agentTimeout >= MinAgentTimeout

View == INSTANCE VaultView WITH Adapters <- AdapterIndex

\* What the agents' specification assumes of the vault is what AIVault.sol
\* does: only rebalance and performUpkeep name a new active adapter, each only
\* when its checks pass and with the clock of the cooldown restarted, and
\* neither the owner's calls nor anyone's transfers come in between.
RefinesView == View!ViewSpec
=============================================================================
