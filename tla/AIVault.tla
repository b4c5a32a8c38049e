------------------------------- MODULE AIVault -------------------------------
(***************************************************************************)
(* src/src/AIVault.sol: the ERC-4626 vault, with the StrategyManager it    *)
(* calls, the lending positions behind its two adapters, and the signed    *)
(* decisions of its agent.  A transaction is one step; one that reverts is *)
(* not a step.  ERC20, ERC4626, Ownable and Pausable are OpenZeppelin's,   *)
(* and the lending pools are Aave's and Compound's: both are modelled from *)
(* how the vault and its adapters use them.                                *)
(***************************************************************************)
EXTENDS StrategyManager, FiniteSets

CONSTANTS
    Holder,              \* accounts that hold vault shares
    feeRecipient,        \* the one of them that claims fees
    Keys,                \* signing keys the owner may name keeper
    VaultParams,         \* the settings setParameters is called with
    ManagementFees,      \* the values setFees is called with
    PerformanceFees,
    VirtualShares,       \* 10 ^ _decimalsOffset()
    PriceUnit,           \* 1e18: the share price is that of so many shares
    SignatureMaxAge,     \* Constants.SIGNATURE_MAX_AGE
    DefaultMaxLossBps,   \* Constants.DEFAULT_MAX_LOSS_BPS
    ClockSkew,           \* how far past its look at the chain the agent dates a decision
    GasPrices,           \* gas prices a fallback may be sent at
    Amounts,             \* assets of one deposit, withdrawal or direct transfer
    ShareAmounts,        \* shares of one mint or redemption
    Interest,            \* assets a position may earn at once
    MaxLosses,           \* the maxLossBps the agent signs
    SupplyLoss,          \* most a pool may fail to credit of a supply
    CreditAny,           \* may a position be credited while it is empty?
    PoolsMayFreeze,      \* may a pool refuse withdrawals for a while?
    MaxTime,             \* bound of the clock
    MaxAssets,           \* bound of totalAssets in deposits and interest
    MaxSupply,           \* bound of totalSupply in deposits and mints
    MaxSigned            \* bound of the decisions signed

VARIABLES
    now,                     \* block.timestamp
    idle,                    \* the vault's own balance of the asset
    frozen,                  \* pools that cannot pay out now
    totalSupply, shares,     \* ERC20
    accruedFeeShares, highWaterMark, lastFeeTimestamp,
    managementFeeBps, performanceFeeBps,
    activeAdapterIndex, hasActiveStrategy, lastRebalanceTimestamp,
    paused, keeper, vaultParams,
    signed,                  \* decisions signed so far, each with its circumstances
    executed                 \* history: how each signed decision was executed

VaultParamsType == [cooldownPeriod : Nat, agentTimeout : Nat, idleBufferBps : Nat]

\* RebalanceParams and the key that signed them; signedAt and seenActive
\* record when the agent decided and which adapter it then saw active.
Decision ==
    [targetAdapterIndex : Nat, maxLossBps : Nat, timestamp : Nat, nonce : Nat,
     key : Keys, signedAt : Nat, seenActive : AdapterIndex]

Execution == [decision : Decision, foundActive : AdapterIndex, at : Nat]

ASSUME AIVaultAssumption ==
    /\ AdapterCount = 2                       \* Deploy.s.sol registers two
    /\ feeRecipient \in Holder
    /\ VaultParams \subseteq VaultParamsType
    /\ ManagementFees \subseteq 0 .. 500
    /\ PerformanceFees \subseteq 0 .. 3000
    /\ MaxLosses \subseteq 0 .. BPS
    /\ DefaultMaxLossBps \in 0 .. BPS
    /\ GasPrices \subseteq Nat /\ Amounts \subseteq Nat /\ ShareAmounts \subseteq Nat
    /\ Interest \subseteq Nat
    /\ VirtualShares \in Nat \ {0} /\ PriceUnit \in Nat \ {0}
    /\ SignatureMaxAge \in Nat /\ ClockSkew \in Nat /\ SupplyLoss \in Nat
    /\ CreditAny \in BOOLEAN /\ PoolsMayFreeze \in BOOLEAN
    /\ MaxTime \in Nat /\ MaxAssets \in Nat /\ MaxSupply \in Nat /\ MaxSigned \in Nat

funds == <<idle, balance>>
ledger == <<totalSupply, shares>>
fees == <<accruedFeeShares, highWaterMark, lastFeeTimestamp>>
feeRates == <<managementFeeBps, performanceFeeBps>>
strategy == <<activeAdapterIndex, hasActiveStrategy, lastRebalanceTimestamp>>
admin == <<paused, keeper, vaultParams>>
decisions == <<signed, executed>>
vars == <<now, funds, frozen, ledger, fees, feeRates, strategy, admin, decisions,
          managerVars>>

TypeOK ==
    /\ StrategyTypeOK
    /\ now \in Nat /\ idle \in Nat
    /\ frozen \subseteq AdapterIndex
    /\ totalSupply \in Nat /\ shares \in [Holder -> Nat]
    /\ accruedFeeShares \in Nat /\ highWaterMark \in Nat /\ lastFeeTimestamp \in Nat
    /\ managementFeeBps \in 0 .. 500 /\ performanceFeeBps \in 0 .. 3000
    /\ activeAdapterIndex \in AdapterIndex /\ hasActiveStrategy \in BOOLEAN
    /\ lastRebalanceTimestamp \in Nat
    /\ paused \in BOOLEAN /\ keeper \in Keys /\ vaultParams \in VaultParamsType
    /\ signed \subseteq Decision
    /\ executed \subseteq Execution

\* initialize, after the deployment script.
Init ==
    /\ StrategyInit
    /\ now = 0 /\ idle = 0 /\ frozen = {}
    /\ totalSupply = 0 /\ shares = [h \in Holder |-> 0]
    /\ accruedFeeShares = 0 /\ highWaterMark = 0 /\ lastFeeTimestamp = now
    /\ managementFeeBps \in ManagementFees /\ performanceFeeBps \in PerformanceFees
    /\ activeAdapterIndex = 0 /\ hasActiveStrategy = FALSE
    /\ lastRebalanceTimestamp = now
    /\ paused = FALSE /\ keeper \in Keys /\ vaultParams \in VaultParams
    /\ signed = {} /\ executed = {}

-----------------------------------------------------------------------------
(* Reads of the contract *)

Smaller(a, b) == IF a < b THEN a ELSE b

Deployed(bal) == bal[0] + bal[1]
totalAssets == idle + Deployed(balance)

\* ERC4626's conversions with virtual shares and one virtual asset.
convertToShares(assets) == (assets * (totalSupply + VirtualShares)) \div (totalAssets + 1)

\* Bug: rounds up, as a conversion that is paid in would.
convertToAssets_RoundsUp(amount) ==
    (amount * (totalAssets + 1) + totalSupply + VirtualShares - 1)
        \div (totalSupply + VirtualShares)

convertToAssets(amount) == (amount * (totalAssets + 1)) \div (totalSupply + VirtualShares)
CeilDiv(a, b) == (a + b - 1) \div b

\* Bug: rounds in favour of the holder who mints.
previewMint_RoundsDown(amount) == (amount * (totalAssets + 1)) \div (totalSupply + VirtualShares)

previewMint(amount) == CeilDiv(amount * (totalAssets + 1), totalSupply + VirtualShares)

previewWithdraw(assets) == CeilDiv(assets * (totalSupply + VirtualShares), totalAssets + 1)

maxWithdraw(h) == convertToAssets(shares[h])

targetIdle(total) == (total * vaultParams.idleBufferBps) \div BPS
-----------------------------------------------------------------------------
(* Deposits *)

\* What _deployIdleFunds supplies once `held' is idle.
ToDeploy(held) ==
    LET total == held + Deployed(balance)
    IN  IF hasActiveStrategy /\ total # 0 /\ held > targetIdle(total)
        THEN held - targetIdle(total)
        ELSE 0

\* The assets arrive, then the excess over the buffer goes to the active
\* adapter, whose pool may credit up to SupplyLoss less.
TakeAndDeploy(assets, loss) ==
    LET toDeposit == ToDeploy(idle + assets)
    IN  /\ loss <= toDeposit
        /\ idle' = idle + assets - toDeposit
        /\ balance' = [balance EXCEPT ![activeAdapterIndex] = @ + toDeposit - loss]

MintShares(h, amount) ==
    /\ totalSupply' = totalSupply + amount
    /\ shares' = [shares EXCEPT ![h] = @ + amount]

deposit(h, assets, loss) ==
    /\ ~paused
    /\ totalAssets + assets <= MaxAssets
    /\ totalSupply + convertToShares(assets) <= MaxSupply
    /\ MintShares(h, convertToShares(assets))
    /\ TakeAndDeploy(assets, loss)
    /\ UNCHANGED <<now, frozen, fees, feeRates, strategy, admin, decisions, managerVars>>

mint(h, amount, loss) ==
    /\ ~paused
    /\ totalAssets + previewMint(amount) <= MaxAssets
    /\ totalSupply + amount <= MaxSupply
    /\ MintShares(h, amount)
    /\ TakeAndDeploy(previewMint(amount), loss)
    /\ UNCHANGED <<now, frozen, fees, feeRates, strategy, admin, decisions, managerVars>>

-----------------------------------------------------------------------------
(* Withdrawals *)

\* _ensureLiquidity takes the deficit from the active adapter, then from the
\* others in order; without a strategy, from adapter 0 on.
FirstSource == IF hasActiveStrategy THEN activeAdapterIndex ELSE 0

\* Bug: with a strategy only the active adapter is asked.
PulledFrom_ActiveOnly(i, assets) ==
    IF i = FirstSource /\ idle < assets
    THEN Smaller(assets - idle, balance[i])
    ELSE 0

PulledFrom(i, assets) ==
    LET needed == IF idle >= assets THEN 0 ELSE assets - idle
        first == Smaller(needed, balance[FirstSource])
    IN  IF i = FirstSource THEN first ELSE Smaller(needed - first, balance[i])

\* A frozen pool reverts the whole transaction.
CanPull(assets) == \A i \in frozen : PulledFrom(i, assets) = 0

IdleAfterPull(assets) ==
    idle + PulledFrom(0, assets) + PulledFrom(1, assets)

\* Bug: the caller's shares are not checked.
PayOut_Unchecked(h, assets, amount) ==
    /\ ~paused
    /\ CanPull(assets)
    /\ assets <= IdleAfterPull(assets)
    /\ totalSupply' = totalSupply - amount
    /\ shares' = [shares EXCEPT ![h] = @ - amount]
    /\ idle' = IdleAfterPull(assets) - assets
    /\ balance' = [i \in AdapterIndex |-> balance[i] - PulledFrom(i, assets)]
    /\ UNCHANGED <<now, frozen, fees, feeRates, strategy, admin, decisions, managerVars>>

PayOut(h, assets, amount) ==
    /\ ~paused
    /\ CanPull(assets)
    /\ amount <= shares[h]
    /\ assets <= IdleAfterPull(assets)
    /\ totalSupply' = totalSupply - amount
    /\ shares' = [shares EXCEPT ![h] = @ - amount]
    /\ idle' = IdleAfterPull(assets) - assets
    /\ balance' = [i \in AdapterIndex |-> balance[i] - PulledFrom(i, assets)]
    /\ UNCHANGED <<now, frozen, fees, feeRates, strategy, admin, decisions, managerVars>>

\* Bug: burns what a deposit of as much would issue, rounded down.
withdraw_RoundsDown(h, assets) ==
    /\ assets <= maxWithdraw(h)
    /\ PayOut(h, assets, convertToShares(assets))

withdraw(h, assets) ==
    /\ assets <= maxWithdraw(h)
    /\ PayOut(h, assets, previewWithdraw(assets))

redeem(h, amount) == PayOut(h, convertToAssets(amount), amount)

-----------------------------------------------------------------------------
(* Rebalancing *)

\* Bug: the buffer is left in the source, not in the vault.
MoveFunds_BufferStays(from, to, loss) ==
    IF from = to
    THEN loss = 0 /\ UNCHANGED funds
    ELSE LET held == idle + balance[from]
             kept == Smaller(targetIdle(held), balance[from])
         IN  /\ loss <= held - kept
             /\ idle' = 0
             /\ balance' = [balance EXCEPT ![from] = kept, ![to] = @ + held - kept - loss]

\* _executeRebalance: everything leaves `from', and the idle total less the
\* buffer goes to `to'.  Nothing moves when they are the same adapter.
MoveFunds(from, to, loss) ==
    IF from = to
    THEN /\ loss = 0
         /\ UNCHANGED funds
    ELSE LET held == idle + balance[from]
             toSupply == IF held > targetIdle(held) THEN held - targetIdle(held) ELSE 0
         IN  /\ balance[from] > 0 => from \notin frozen
             /\ loss <= toSupply
             /\ idle' = held - toSupply
             /\ balance' = [balance EXCEPT ![from] = 0, ![to] = @ + toSupply - loss]

\* The branch of the code for a mark of 0 is never reached with a price above 0.
FeeDue(price) ==
    /\ performanceFeeBps # 0
    /\ totalSupply # 0
    /\ price > highWaterMark

\* Bug: the mark is not raised to the price the fee was taken at.
CollectPerformanceFee_MarkStays(total) ==
    LET currentSharePrice == (PriceUnit * (total + 1)) \div (totalSupply + VirtualShares)
        profit == currentSharePrice - highWaterMark
        feeAssets == (profit * performanceFeeBps * totalSupply) \div (BPS * PriceUnit)
        feeShares == (feeAssets * (totalSupply + VirtualShares)) \div (total + 1)
    IN  /\ UNCHANGED <<highWaterMark, lastFeeTimestamp>>
        /\ accruedFeeShares' = accruedFeeShares
               + IF FeeDue(currentSharePrice) THEN feeShares ELSE 0

\* _collectPerformanceFee, at the totals the move leaves behind.
CollectPerformanceFee(total) ==
    LET currentSharePrice == (PriceUnit * (total + 1)) \div (totalSupply + VirtualShares)
        profit == currentSharePrice - highWaterMark
        feeAssets == (profit * performanceFeeBps * totalSupply) \div (BPS * PriceUnit)
        feeShares == (feeAssets * (totalSupply + VirtualShares)) \div (total + 1)
    IN  IF FeeDue(currentSharePrice)
        THEN /\ highWaterMark' = currentSharePrice
             /\ accruedFeeShares' = accruedFeeShares + feeShares
             /\ UNCHANGED lastFeeTimestamp
        ELSE UNCHANGED fees

\* What both paths do once they have decided: move, check the loss, record the
\* new adapter, smooth the rates, take the fee.
Rebalanced(from, to, maxLossBps, loss) ==
    /\ MoveFunds(from, to, loss)
    /\ idle' + Deployed(balance') >= (totalAssets * (BPS - maxLossBps)) \div BPS
    /\ activeAdapterIndex' = to
    /\ hasActiveStrategy' = TRUE
    /\ lastRebalanceTimestamp' = now
    /\ UpdateSmoothedRates
    /\ CollectPerformanceFee(idle' + Deployed(balance'))
    /\ UNCHANGED <<now, frozen, ledger, feeRates, admin, signed, supplyRate, strategyParams>>

CooldownElapsed == now >= lastRebalanceTimestamp + vaultParams.cooldownPeriod
AgentTimedOut == now >= lastRebalanceTimestamp + vaultParams.agentTimeout

\* Bug: the comparison is the wrong way round.
Fresh_Swapped(d) == d.timestamp <= now + SignatureMaxAge

Fresh(d) == now <= d.timestamp + SignatureMaxAge

rebalance(d, loss) ==
    /\ ~paused
    /\ CooldownElapsed
    /\ Fresh(d)
    /\ d.targetAdapterIndex < AdapterCount
    /\ d.key = keeper
    /\ ConsumeNonce(d.nonce)
    /\ Rebalanced(activeAdapterIndex, d.targetAdapterIndex, d.maxLossBps, loss)
    /\ executed' = executed \cup
           {[decision |-> d, foundActive |-> activeAdapterIndex, at |-> now]}

\* What checkUpkeep answers, and performUpkeep requires again.
UpkeepNeeded(from, to, gasPrice) ==
    /\ ~paused
    /\ CooldownElapsed
    /\ AgentTimedOut
    /\ ShouldRebalance(from, to, totalAssets, gasPrice, now - lastRebalanceTimestamp)

performUpkeep(from, to, gasPrice, loss) ==
    /\ UpkeepNeeded(from, to, gasPrice)
    /\ Rebalanced(from, to, DefaultMaxLossBps, loss)
    /\ UNCHANGED <<rebalanceNonce, executed>>

-----------------------------------------------------------------------------
(* Owner and fee recipient *)

setPaused(p) ==
    /\ paused # p
    /\ paused' = p
    /\ UNCHANGED <<now, funds, frozen, ledger, fees, feeRates, strategy, keeper,
                   vaultParams, decisions, managerVars>>

\* Bug: the index of the adapter last active is reset as well.
emergencyWithdrawAll_ResetsIndex ==
    /\ \A i \in frozen : balance[i] = 0
    /\ idle' = totalAssets
    /\ balance' = [i \in AdapterIndex |-> 0]
    /\ hasActiveStrategy' = FALSE
    /\ activeAdapterIndex' = 0
    /\ UNCHANGED <<now, frozen, ledger, fees, feeRates, lastRebalanceTimestamp, admin,
                   decisions, managerVars>>

\* One pool that cannot pay reverts the withdrawal from all of them.
emergencyWithdrawAll ==
    /\ \A i \in frozen : balance[i] = 0
    /\ idle' = totalAssets
    /\ balance' = [i \in AdapterIndex |-> 0]
    /\ hasActiveStrategy' = FALSE
    /\ UNCHANGED <<now, frozen, ledger, fees, feeRates, activeAdapterIndex,
                   lastRebalanceTimestamp, admin, decisions, managerVars>>

setKeeper(k) ==
    /\ keeper' = k
    /\ UNCHANGED <<now, funds, frozen, ledger, fees, feeRates, strategy, paused,
                   vaultParams, decisions, managerVars>>

setParameters(p) ==
    /\ vaultParams' = p
    /\ UNCHANGED <<now, funds, frozen, ledger, fees, feeRates, strategy, paused,
                   keeper, decisions, managerVars>>

setFees(managementFee, performanceFee) ==
    /\ managementFeeBps' = managementFee
    /\ performanceFeeBps' = performanceFee
    /\ UNCHANGED <<now, funds, frozen, ledger, fees, strategy, admin, decisions,
                   managerVars>>

\* Bug: the recipient is credited and the supply is not raised.
claimFees_Unsupplied ==
    /\ accruedFeeShares > 0
    /\ accruedFeeShares' = 0
    /\ shares' = [shares EXCEPT ![feeRecipient] = @ + accruedFeeShares]
    /\ UNCHANGED <<now, funds, frozen, totalSupply, highWaterMark, lastFeeTimestamp,
                   feeRates, strategy, admin, decisions, managerVars>>

\* Bug: what was claimed stays accrued.
claimFees_NotReset ==
    /\ accruedFeeShares > 0
    /\ MintShares(feeRecipient, accruedFeeShares)
    /\ UNCHANGED <<now, funds, frozen, fees, feeRates, strategy, admin, decisions,
                   managerVars>>

claimFees ==
    /\ accruedFeeShares > 0
    /\ accruedFeeShares' = 0
    /\ MintShares(feeRecipient, accruedFeeShares)
    /\ UNCHANGED <<now, funds, frozen, highWaterMark, lastFeeTimestamp, feeRates,
                   strategy, admin, decisions, managerVars>>

-----------------------------------------------------------------------------
(* The agent, the pools and time *)

\* The holder of a key reads the nonce and the active adapter and signs, by
\* a clock that may run ahead of the chain's.
sign(key, target, maxLossBps, timestamp) ==
    /\ Cardinality(signed) < MaxSigned
    /\ signed' = signed \cup
           {[targetAdapterIndex |-> target, maxLossBps |-> maxLossBps,
             timestamp |-> timestamp, nonce |-> rebalanceNonce, key |-> key,
             signedAt |-> now, seenActive |-> activeAdapterIndex]}
    /\ UNCHANGED <<now, funds, frozen, ledger, fees, feeRates, strategy, admin,
                   executed, managerVars>>

EnvironmentOnly ==
    UNCHANGED <<now, ledger, fees, feeRates, strategy, admin, decisions>>

accrue(i, amount) ==
    /\ balance[i] > 0 \/ CreditAny
    /\ totalAssets + amount <= MaxAssets
    /\ balance' = [balance EXCEPT ![i] = @ + amount]
    /\ UNCHANGED <<idle, frozen, managerVars>>
    /\ EnvironmentOnly

\* A direct transfer of the asset to the vault.
donate(amount) ==
    /\ totalAssets + amount <= MaxAssets
    /\ idle' = idle + amount
    /\ UNCHANGED <<balance, frozen, managerVars>>
    /\ EnvironmentOnly

\* A pool runs out of liquidity, or has some again.
freeze(i) ==
    /\ PoolsMayFreeze
    /\ frozen' = IF i \in frozen THEN frozen \ {i} ELSE frozen \cup {i}
    /\ UNCHANGED <<funds, managerVars>>
    /\ EnvironmentOnly

rateMoves(i, r) ==
    /\ RateMoves(i, r)
    /\ UNCHANGED <<funds, frozen, smoothedRates, rebalanceNonce, strategyParams>>
    /\ EnvironmentOnly

\* The manager's own entry points, called by others than the vault.
updateSmoothedRates ==
    /\ UpdateSmoothedRates
    /\ UNCHANGED <<funds, frozen, supplyRate, rebalanceNonce, strategyParams>>
    /\ EnvironmentOnly

consumeNonce ==
    /\ rebalanceNonce < MaxNonce
    /\ ConsumeNonce(rebalanceNonce)
    /\ UNCHANGED <<funds, frozen, supplyRate, smoothedRates, strategyParams>>
    /\ EnvironmentOnly

setStrategyParameters(p) ==
    /\ SetStrategyParameters(p)
    /\ UNCHANGED <<funds, frozen, supplyRate, smoothedRates, rebalanceNonce>>
    /\ EnvironmentOnly

tick ==
    /\ now < MaxTime
    /\ now' = now + 1
    /\ UNCHANGED <<funds, frozen, ledger, fees, feeRates, strategy, admin, decisions,
                   managerVars>>

-----------------------------------------------------------------------------
(* Specification *)

Losses == 0 .. SupplyLoss

\* Amounts and shares a holder may ask for: the listed ones, or all it has.
HolderNext == \E h \in Holder :
    \/ \E a \in Amounts, loss \in Losses : deposit(h, a, loss)
    \/ \E s \in ShareAmounts, loss \in Losses : mint(h, s, loss)
    \/ \E a \in Amounts \cup {maxWithdraw(h)} : withdraw(h, a)
    \/ \E s \in ShareAmounts \cup {shares[h]} : redeem(h, s)

RebalanceNext == \E loss \in Losses :
    \/ \E d \in signed : rebalance(d, loss)
    \/ \E from, to \in AdapterIndex, g \in GasPrices : performUpkeep(from, to, g, loss)

OwnerNext ==
    \/ \E p \in BOOLEAN : setPaused(p)
    \/ emergencyWithdrawAll
    \/ \E k \in Keys : setKeeper(k)
    \/ \E p \in VaultParams : setParameters(p)
    \/ \E m \in ManagementFees, f \in PerformanceFees : setFees(m, f)
    \/ claimFees
    \/ \E p \in StrategyParams : setStrategyParameters(p)

AgentNext == \E k \in Keys, i \in AdapterIndex, m \in MaxLosses, ahead \in 0 .. ClockSkew :
    sign(k, i, m, now + ahead)

EnvironmentNext ==
    \/ \E i \in AdapterIndex, a \in Interest : accrue(i, a)
    \/ \E a \in Amounts : donate(a)
    \/ \E i \in AdapterIndex : freeze(i)
    \/ \E i \in AdapterIndex, r \in Rates : rateMoves(i, r)
    \/ updateSmoothedRates
    \/ consumeNonce
    \/ tick

Next == HolderNext \/ RebalanceNext \/ OwnerNext \/ AgentNext \/ EnvironmentNext

Spec == Init /\ [][Next]_vars

-----------------------------------------------------------------------------
(* Properties *)

\* The shares outstanding, told apart.
ShareUnits(held) == UNION {{h} \X (1 .. held[h]) : h \in Holder}

\* The supply is what the holders hold together, through every issue, every
\* redemption and every claim of fees: no share is counted that nobody holds,
\* so a redemption never burns more than there is.
SupplyHeld ==
    IsFiniteSet(ShareUnits(shares)) /\ Cardinality(ShareUnits(shares)) = totalSupply

\* Only the active adapter holds funds, and none does without a strategy:
\* between deposits, withdrawals, both rebalance paths and the emergency exit,
\* nothing is left behind in a pool that withdrawals and the next rebalance
\* would not look at first (AIVault.sol _executeRebalance, _ensureLiquidity).
OnlyActiveFunded == \A i \in AdapterIndex :
    balance[i] > 0 => hasActiveStrategy /\ i = activeAdapterIndex

\* The fallback, which consumes no nonce, takes funds from no adapter to one of the
\* same rate or a lower one, as far as the manager's rates tell, whatever agent,
\* holders, owner and pools did since the last rebalance.  With positions in both
\* pools, as credits to an adapter that is not active leave them, the one it moves
\* is the one whose rate it compared (StrategyManager.sol:114-119, AIVault.sol
\* performUpkeep).
FallbackClimbs == [][
    lastRebalanceTimestamp' # lastRebalanceTimestamp /\ rebalanceNonce' = rebalanceNonce
    => \A i \in AdapterIndex : balance'[i] < balance[i] =>
           EffectiveRate(i) < EffectiveRate(activeAdapterIndex')]_vars

\* A withdrawal within maxWithdraw never finds too little liquidity once the
\* pools pay: _ensureLiquidity reaches every asset that totalAssets counts,
\* wherever it lies and whether or not there is a strategy.
WithdrawalServed == \A h \in Holder : \A a \in 0 .. maxWithdraw(h) :
    IdleAfterPull(a) >= a

Ledger == INSTANCE ShareLedger
    WITH assets <- totalAssets, supply <- totalSupply, held <- shares,
         owed <- accruedFeeShares

\* To its holders the vault is a ledger of shares and nothing else: no decision,
\* fallback, pause, emergency exit or liquidity pulled from two pools shows in
\* it, every conversion loses the caller less than a share or an asset, and a fee
\* takes no more than its rate (pools that credit every supply in full).
KeepsShareLedger == Ledger!LedgerSpec

\* No call makes the shares of those who do not call worth less, claimFees
\* apart: roundings of deposits, mints, withdrawals and redemptions favour the
\* vault, and a rebalance moves funds without losing any (pools that credit
\* every supply in full).
SharePriceNeverFalls ==
    [][ \/ (totalAssets' + 1) * (totalSupply + VirtualShares)
             >= (totalAssets + 1) * (totalSupply' + VirtualShares)
        \/ accruedFeeShares' < accruedFeeShares ]_vars

\* What all holders may withdraw is in the vault or in its pools: the roundings
\* of convertToAssets never promise, between them, one asset more than there is,
\* so nobody's withdrawal can leave another's unpayable.
ClaimsCovered ==
    LET claims == [h \in Holder |-> maxWithdraw(h)]
    IN  Cardinality(ShareUnits(claims)) <= totalAssets

\* Nobody's claim grows by more than the vault was paid, and nobody pays for
\* more than a unit of rounding and one share: a holder whose shares stay the
\* same never has its claim reduced by what the others do, and one that
\* deposits, mints, withdraws or redeems has its claim changed by what passed
\* through its hands, less at most one asset and the price of one share.  The
\* claim of fees is apart: it issues shares for nothing.
ClaimsFollowPayments ==
    [][ \/ accruedFeeShares' < accruedFeeShares
        \/ \A h \in Holder :
            LET gain == maxWithdraw(h)' - maxWithdraw(h)
                paid == totalAssets' - totalAssets
            IN  IF shares'[h] = shares[h]
                THEN gain >= 0
                ELSE /\ gain <= paid
                     /\ (paid - gain - 1) * (totalSupply + VirtualShares) < totalAssets + 1
      ]_vars

\* One update never moves a smoothed rate by more than the jump guard allows,
\* whatever the pool reports and whoever calls (updateSmoothedRates is open).
SmoothingWithinGuard ==
    [][ \A i \in AdapterIndex : smoothedRates[i] > 0 =>
            rateToBps(absDiff(smoothedRates'[i], smoothedRates[i]))
                <= strategyParams.maxRateJumpBps ]_vars

\* A signed decision is executed only while the adapter its agent saw active
\* still is: no rebalance of the other path, nor of another decision, comes
\* between the signature and its execution.  The nonce alone cannot promise
\* this, since performUpkeep does not consume one; the cooldown must outlast
\* the age of a signature.
DecisionStillCurrent == \A e \in executed :
    e.foundActive = e.decision.seenActive

\* No two executions are of decisions signed for the same nonce, however many
\* times the agent signs again for the nonce it read.
NonceExecutedOnce == \A e, f \in executed :
    e.decision.nonce = f.decision.nonce => e = f
=============================================================================
