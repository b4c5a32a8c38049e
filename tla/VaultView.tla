------------------------------ MODULE VaultView ------------------------------
(***************************************************************************)
(* The vault as its agents may rely on it: which adapter is active, when   *)
(* that last changed, and what it takes for a signed decision or the       *)
(* upkeep to change it.  AIVault implements it (VaultRefinement), and      *)
(* AgentCycle puts the off-chain agents in front of it.                    *)
(***************************************************************************)
EXTENDS Naturals

CONSTANTS
    Adapters,            \* indices of the adapters
    MinCooldown,         \* a cooldownPeriod the owner never goes below
    MinAgentTimeout,     \* an agentTimeout the owner never goes below
    SignatureMaxAge      \* Constants.SIGNATURE_MAX_AGE

VARIABLES
    now,                     \* block.timestamp
    activeAdapterIndex, hasActiveStrategy, lastRebalanceTimestamp,
    rebalanceNonce,
    paused,
    signed                   \* decisions the vault may be called with

strategyView == <<activeAdapterIndex, hasActiveStrategy, lastRebalanceTimestamp>>
viewVars == <<now, strategyView, rebalanceNonce, paused, signed>>

ViewInit ==
    /\ now = 0
    /\ activeAdapterIndex = 0 /\ hasActiveStrategy = FALSE
    /\ lastRebalanceTimestamp = now
    /\ rebalanceNonce = 0
    /\ paused = FALSE
    /\ signed = {}

Switch(to) ==
    /\ ~paused
    /\ now >= lastRebalanceTimestamp + MinCooldown
    /\ activeAdapterIndex' = to
    /\ hasActiveStrategy' = TRUE
    /\ lastRebalanceTimestamp' = now
    /\ UNCHANGED <<now, paused, signed>>

\* rebalance: a decision signed for the nonce, and not too long ago.
Execute(d) ==
    /\ now <= d.timestamp + SignatureMaxAge
    /\ d.nonce = rebalanceNonce
    /\ rebalanceNonce' = rebalanceNonce + 1
    /\ Switch(d.targetAdapterIndex)

\* performUpkeep consumes no nonce.
Upkeep(to) ==
    /\ now >= lastRebalanceTimestamp + MinAgentTimeout
    /\ Switch(to)
    /\ UNCHANGED rebalanceNonce

\* emergencyWithdrawAll leaves the last adapter's index behind.
Exit ==
    /\ hasActiveStrategy' = FALSE
    /\ UNCHANGED <<now, activeAdapterIndex, lastRebalanceTimestamp, rebalanceNonce,
                   paused, signed>>

SetPaused ==
    /\ paused' = ~paused
    /\ UNCHANGED <<now, strategyView, rebalanceNonce, signed>>

\* Whoever else calls StrategyManager.consumeNonce.
NonceConsumed ==
    /\ rebalanceNonce' = rebalanceNonce + 1
    /\ UNCHANGED <<now, strategyView, paused, signed>>

Sign ==
    /\ signed \subseteq signed'
    /\ UNCHANGED <<now, strategyView, rebalanceNonce, paused>>

Tick ==
    /\ now' = now + 1
    /\ UNCHANGED <<strategyView, rebalanceNonce, paused, signed>>

ViewNext ==
    \/ \E d \in signed : Execute(d)
    \/ \E to \in Adapters : Upkeep(to)
    \/ Exit
    \/ SetPaused
    \/ NonceConsumed
    \/ Sign
    \/ Tick

ViewSpec == ViewInit /\ [][ViewNext]_viewVars
=============================================================================
