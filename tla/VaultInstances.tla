--------------------------- MODULE VaultInstances ---------------------------
(* Settings of the vault and of its manager for the small instances.  In all *)
(* of them BPS = 10, so a buffer of 2 is a fifth of the assets.              *)

\* For the runs about funds time hardly matters: no cooldown, and a fallback
\* one tick after the last rebalance.
PromptVault == {[cooldownPeriod |-> 0, agentTimeout |-> 1, idleBufferBps |-> 2]}

\* For the runs about time: a cooldown that outlasts a signature of age 1, and
\* an agent timeout longer than the cooldown.
TimedVault == {[cooldownPeriod |-> 2, agentTimeout |-> 3, idleBufferBps |-> 0]}

\* For the fallback alone: it may act two ticks after the last rebalance.
FallbackVault == {[cooldownPeriod |-> 1, agentTimeout |-> 2, idleBufferBps |-> 2]}

\* The owner changes its mind, once to a buffer above 100%.
ChangingVault ==
    {[cooldownPeriod |-> 2, agentTimeout |-> 2, idleBufferBps |-> 0],
     [cooldownPeriod |-> 3, agentTimeout |-> 4, idleBufferBps |-> 12]}

\* Any observation is adopted at once.
RawRates ==
    {[minDeltaBps |-> 1, emAlphaBps |-> 10, maxRateJumpBps |-> 9, estimatedRebalanceGas |-> 1]}

\* Smoothing, and a guard on jumps that some rates exceed; the owner may
\* also set an alpha of more than 100%, which emaSmooth refuses.
SmoothedRates ==
    {[minDeltaBps |-> 1, emAlphaBps |-> a, maxRateJumpBps |-> 2, estimatedRebalanceGas |-> 1] :
        a \in {7, 12}}
=============================================================================
