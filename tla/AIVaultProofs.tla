---------------------------- MODULE AIVaultProofs ----------------------------
(***************************************************************************)
(* Theorems about AIVault, for every value of its constants.               *)
(***************************************************************************)
EXTENDS AIVault, RateMathProofs, FiniteSetTheorems

-----------------------------------------------------------------------------
(* Types *)

\* The two adapters, and what the assumptions say of the constants.
LEMMA ConstantTypes ==
    /\ AdapterIndex = {0, 1}
    /\ 0 \in AdapterIndex /\ 1 \in AdapterIndex
    /\ BPS \in Nat \ {0} /\ PriceUnit \in Nat \ {0} /\ BPS * PriceUnit \in Nat \ {0}
    /\ VirtualShares \in Nat \ {0} /\ SupplyLoss \in Nat
    /\ Losses \subseteq Nat
  BY RateMathAssumption, AIVaultAssumption DEF AdapterIndex, Losses

\* What the reads of the contract return.
LEMMA ReadTypes ==
    ASSUME TypeOK
    PROVE  /\ balance[0] \in Nat /\ balance[1] \in Nat
           /\ totalAssets \in Nat
           /\ \A a \in Nat : /\ convertToShares(a) \in Nat
                             /\ convertToAssets(a) \in Nat
                             /\ previewMint(a) \in Nat
                             /\ previewWithdraw(a) \in Nat
                             /\ targetIdle(a) \in Nat
           /\ \A h \in Holder : maxWithdraw(h) \in Nat
  <1>. USE ConstantTypes
  <1>1. balance[0] \in Nat /\ balance[1] \in Nat /\ totalAssets \in Nat
    BY DEF TypeOK, StrategyTypeOK, totalAssets, Deployed
  <1>. DEFINE S == totalSupply + VirtualShares
              T == totalAssets + 1
  <1>2. S \in Nat \ {0} /\ T \in Nat \ {0}
    BY <1>1 DEF TypeOK
  <1>. HIDE DEF S, T
  <1>3. ASSUME NEW a \in Nat
        PROVE  /\ (a * S) \div T \in Nat
               /\ (a * T) \div S \in Nat
               /\ (a * T + S - 1) \div S \in Nat
               /\ (a * S + T - 1) \div T \in Nat
    <2>1. a * S \in Nat /\ a * T \in Nat /\ a * T + S - 1 \in Nat /\ a * S + T - 1 \in Nat
      BY <1>2
    <2>. QED  BY <2>1, <1>2, DivNat
  <1>4. ASSUME NEW a \in Nat PROVE targetIdle(a) \in Nat
    <2>1. a * vaultParams.idleBufferBps \in Nat
      BY DEF TypeOK, VaultParamsType
    <2>. QED  BY <2>1, DivNat DEF targetIdle
  <1>5. \A h \in Holder : shares[h] \in Nat
    BY DEF TypeOK
  <1>. QED
    BY <1>1, <1>3, <1>4, <1>5
    DEF convertToShares, convertToAssets, previewMint, previewWithdraw, CeilDiv,
        maxWithdraw, S, T

\* The initial state is well typed.
LEMMA TypeInit == Init => TypeOK
  <1>. SUFFICES ASSUME Init PROVE TypeOK
    OBVIOUS
  <1>1. StrategyTypeOK
    BY StrategyManagerAssumption DEF Init, StrategyInit, StrategyTypeOK
  <1>2. vaultParams \in VaultParamsType /\ managementFeeBps \in 0 .. 500
        /\ performanceFeeBps \in 0 .. 3000
    BY AIVaultAssumption DEF Init
  <1>3. shares \in [Holder -> Nat] /\ activeAdapterIndex \in AdapterIndex
    BY ConstantTypes DEF Init
  <1>4. /\ now \in Nat /\ idle \in Nat /\ totalSupply \in Nat /\ frozen \subseteq AdapterIndex
        /\ accruedFeeShares \in Nat /\ highWaterMark \in Nat /\ lastFeeTimestamp \in Nat
        /\ lastRebalanceTimestamp \in Nat
    BY DEF Init
  <1>5. hasActiveStrategy \in BOOLEAN /\ paused \in BOOLEAN /\ keeper \in Keys
    BY DEF Init
  <1>6. signed \subseteq Decision /\ executed \subseteq Execution
    BY DEF Init
  <1>. QED  BY <1>1, <1>2, <1>3, <1>4, <1>5, <1>6 DEF TypeOK

\* What a deposit or a mint does to the funds keeps their types.
LEMMA TypeTakeAndDeploy ==
    ASSUME TypeOK, NEW assets \in Nat, NEW loss \in Losses, TakeAndDeploy(assets, loss)
    PROVE  idle' \in Nat /\ balance' \in [AdapterIndex -> Nat]
  <1>. DEFINE d == ToDeploy(idle + assets)
  <1>1. d \in Nat /\ d <= idle + assets
    <2>. DEFINE held == idle + assets
                target == targetIdle(held + Deployed(balance))
    <2>1. held \in Nat /\ held + Deployed(balance) \in Nat
      BY ReadTypes DEF TypeOK, Deployed
    <2>2. target \in Nat
      BY <2>1, ReadTypes
    <2>. HIDE DEF held, target
    <2>3. d = IF hasActiveStrategy /\ held + Deployed(balance) # 0 /\ held > target
              THEN held - target ELSE 0
      BY DEF ToDeploy, held, target
    <2>4. d \in Nat /\ d <= held
      BY <2>1, <2>2, <2>3
    <2>. QED  BY <2>4 DEF held
  <1>. HIDE DEF d
  <1>2. loss \in Nat /\ loss <= d
    BY ConstantTypes DEF TakeAndDeploy, d
  <1>3. /\ idle' = idle + assets - d
        /\ balance' = [balance EXCEPT ![activeAdapterIndex] = @ + d - loss]
    BY DEF TakeAndDeploy, d
  <1>4. /\ activeAdapterIndex \in AdapterIndex /\ balance \in [AdapterIndex -> Nat]
        /\ idle \in Nat
    BY DEF TypeOK, StrategyTypeOK
  <1>5. balance[activeAdapterIndex] + d - loss \in Nat
    BY <1>1, <1>2, <1>4
  <1>. QED  BY <1>1, <1>3, <1>4, <1>5

\* What is pulled from a pool is there, and what is paid out is in the vault.
LEMMA PulledTypes ==
    ASSUME TypeOK, NEW assets \in Nat, NEW i \in AdapterIndex
    PROVE  PulledFrom(i, assets) \in 0 .. balance[i]
  <1>. DEFINE needed == IF idle >= assets THEN 0 ELSE assets - idle
              first == Smaller(needed, balance[FirstSource])
  <1>1. FirstSource \in AdapterIndex
    BY ConstantTypes DEF FirstSource, TypeOK
  <1>2. needed \in Nat /\ balance[i] \in Nat /\ balance[FirstSource] \in Nat
    BY <1>1 DEF TypeOK, StrategyTypeOK
  <1>. HIDE DEF needed
  <1>3. first \in Nat /\ first <= needed /\ first <= balance[FirstSource]
    BY <1>2 DEF Smaller
  <1>4. PulledFrom(i, assets) =
          IF i = FirstSource THEN first ELSE Smaller(needed - first, balance[i])
    BY DEF PulledFrom, needed
  <1>. HIDE DEF first
  <1>. QED  BY <1>2, <1>3, <1>4 DEF Smaller

\* A move between adapters keeps the types of the funds.
LEMMA TypeMoveFunds ==
    ASSUME TypeOK, NEW from \in AdapterIndex, NEW to \in AdapterIndex,
           NEW loss \in Losses, MoveFunds(from, to, loss)
    PROVE  idle' \in Nat /\ balance' \in [AdapterIndex -> Nat]
  <1>1. CASE from = to
    BY <1>1 DEF MoveFunds, funds, TypeOK, StrategyTypeOK
  <1>2. CASE from # to
    <2>. DEFINE held == idle + balance[from]
                toSupply == IF held > targetIdle(held) THEN held - targetIdle(held) ELSE 0
    <2>1. held \in Nat /\ balance[to] \in Nat
      BY DEF TypeOK, StrategyTypeOK
    <2>2. targetIdle(held) \in Nat
      BY <2>1, ReadTypes
    <2>. HIDE DEF held
    <2>3. toSupply \in Nat /\ toSupply <= held
      BY <2>1, <2>2
    <2>4. /\ loss <= toSupply /\ loss \in Nat
          /\ idle' = held - toSupply
          /\ balance' = [balance EXCEPT ![from] = 0, ![to] = @ + toSupply - loss]
      BY <1>2, ConstantTypes DEF MoveFunds, held
    <2>. HIDE DEF toSupply
    <2>. QED  BY <2>1, <2>3, <2>4 DEF TypeOK, StrategyTypeOK
  <1>. QED  BY <1>1, <1>2

\* The fee keeps the types of what it changes.
LEMMA TypeFee ==
    ASSUME TypeOK, NEW total \in Nat, CollectPerformanceFee(total)
    PROVE  accruedFeeShares' \in Nat /\ highWaterMark' \in Nat /\ lastFeeTimestamp' \in Nat
  <1>. USE ConstantTypes
  <1>. DEFINE S == totalSupply + VirtualShares
              price == (PriceUnit * (total + 1)) \div S
              profit == price - highWaterMark
              feeAssets == (profit * performanceFeeBps * totalSupply) \div (BPS * PriceUnit)
              feeShares == (feeAssets * S) \div (total + 1)
  <1>1. S \in Nat \ {0} /\ PriceUnit * (total + 1) \in Nat
    BY DEF TypeOK
  <1>. HIDE DEF S
  <1>2. price \in Nat
    BY <1>1, DivNat
  <1>3. CASE FeeDue(price)
    <2>. HIDE DEF price
    <2>1. profit \in Nat /\ performanceFeeBps \in Nat /\ totalSupply \in Nat
      BY <1>2, <1>3 DEF FeeDue, TypeOK
    <2>2. profit * performanceFeeBps * totalSupply \in Nat
      BY <2>1
    <2>3. feeAssets \in Nat
      BY <2>2, DivNat
    <2>. HIDE DEF feeAssets
    <2>4. feeAssets * S \in Nat
      BY <2>3, <1>1
    <2>5. feeShares \in Nat
      BY <2>4, DivNat
    <2>6. highWaterMark' = price /\ accruedFeeShares' = accruedFeeShares + feeShares
          /\ lastFeeTimestamp' = lastFeeTimestamp
      BY <1>3 DEF CollectPerformanceFee, price, feeAssets, S
    <2>. QED  BY <1>2, <2>5, <2>6 DEF TypeOK
  <1>4. CASE ~FeeDue(price)
    BY <1>4 DEF CollectPerformanceFee, fees, TypeOK, S
  <1>. QED  BY <1>3, <1>4

\* Smoothing keeps the rates natural numbers.
LEMMA TypeSmoothing ==
    ASSUME TypeOK, UpdateSmoothedRates
    PROVE  smoothedRates' \in [AdapterIndex -> Nat]
  <1>1. ASSUME NEW i \in AdapterIndex, ~JumpTooLarge(i)
        PROVE  emaSmooth(supplyRate[i], smoothedRates[i], strategyParams.emAlphaBps) \in Nat
    <2>1. strategyParams.emAlphaBps \in 0 .. BPS
      BY <1>1, ConstantTypes
      DEF UpdateSmoothedRates, emaDefined, TypeOK, StrategyTypeOK, StrategyParamsType
    <2>2. supplyRate[i] \in Nat /\ smoothedRates[i] \in Nat
      BY DEF TypeOK, StrategyTypeOK
    <2>3. CASE smoothedRates[i] = 0
      BY <2>2, <2>3 DEF emaSmooth
    <2>4. CASE smoothedRates[i] # 0
      BY <2>1, <2>2, <2>4, EmaBetween
    <2>. QED  BY <2>3, <2>4
  <1>. QED  BY <1>1 DEF UpdateSmoothedRates, TypeOK, StrategyTypeOK

-----------------------------------------------------------------------------
(* The ledger *)

\* Pairing the elements of a set with one value does not change their number.
LEMMA PairWith ==
    ASSUME NEW I, IsFiniteSet(I), NEW h
    PROVE  IsFiniteSet({h} \X I) /\ Cardinality({h} \X I) = Cardinality(I)
  <1>. DEFINE pair == [k \in I |-> <<h, k>>]
  <1>1. pair \in Bijection(I, {h} \X I)
    BY DEF Bijection, Injection, Surjection, IsInjective
  <1>2. ExistsBijection(I, {h} \X I)
    BY <1>1 DEF ExistsBijection
  <1>. QED  BY <1>2, FS_Bijection

\* Holding n shares more is having n units more.
LEMMA UnitsAdd ==
    ASSUME NEW held \in [Holder -> Nat], NEW h \in Holder, NEW n \in Nat,
           NEW more \in [Holder -> Nat], more[h] = held[h] + n,
           \A k \in Holder \ {h} : more[k] = held[k],
           IsFiniteSet(ShareUnits(held))
    PROVE  /\ IsFiniteSet(ShareUnits(more))
           /\ Cardinality(ShareUnits(more)) = Cardinality(ShareUnits(held)) + n
  <1>. DEFINE I == (held[h] + 1) .. (held[h] + n)
              New == {h} \X I
  <1>1. IsFiniteSet(I) /\ Cardinality(I) = n
    <2>1. held[h] \in Nat /\ held[h] + 1 \in Int /\ held[h] + n \in Int
      OBVIOUS
    <2>2. IsFiniteSet(I) /\ Cardinality(I) =
            IF held[h] + 1 > held[h] + n THEN 0 ELSE (held[h] + n) - (held[h] + 1) + 1
      BY <2>1, FS_Interval
    <2>. HIDE DEF I
    <2>. QED  BY <2>1, <2>2
  <1>2. IsFiniteSet(New) /\ Cardinality(New) = n
    BY <1>1, PairWith
  <1>3. ShareUnits(more) = ShareUnits(held) \cup New
    BY DEF ShareUnits
  <1>4. ShareUnits(held) \cap New = {}
    BY DEF ShareUnits
  <1>5. Cardinality({}) = 0 /\ Cardinality(ShareUnits(held)) \in Nat
    BY FS_EmptySet, FS_CardinalityType
  <1>. HIDE DEF New
  <1>6. /\ IsFiniteSet(ShareUnits(held) \cup New)
        /\ Cardinality(ShareUnits(held) \cup New) =
             Cardinality(ShareUnits(held)) + Cardinality(New)
               - Cardinality(ShareUnits(held) \cap New)
    BY <1>2, FS_Union
  <1>7. Cardinality(ShareUnits(held) \cap New) = 0
    BY <1>4, <1>5
  <1>8. Cardinality(ShareUnits(held) \cup New) = Cardinality(ShareUnits(held)) + n
    BY <1>2, <1>5, <1>6, <1>7
  <1>. QED  BY <1>3, <1>6, <1>8

\* Issuing shares keeps the ledger.
LEMMA LedgerMint ==
    ASSUME TypeOK, SupplyHeld, NEW h \in Holder, NEW n \in Nat, MintShares(h, n)
    PROVE  totalSupply' \in Nat /\ shares' \in [Holder -> Nat] /\ SupplyHeld'
  <1>1. shares \in [Holder -> Nat] /\ totalSupply \in Nat
    BY DEF TypeOK
  <1>2. /\ shares' \in [Holder -> Nat] /\ shares'[h] = shares[h] + n
        /\ \A k \in Holder \ {h} : shares'[k] = shares[k]
        /\ totalSupply' = totalSupply + n
    BY <1>1 DEF MintShares
  <1>3. /\ IsFiniteSet(ShareUnits(shares'))
        /\ Cardinality(ShareUnits(shares')) = Cardinality(ShareUnits(shares)) + n
    <2>1. IsFiniteSet(ShareUnits(shares))
      BY DEF SupplyHeld
    <2>. QED  BY <1>1, <1>2, <2>1, UnitsAdd
  <1>. QED
    BY <1>1, <1>2, <1>3 DEF SupplyHeld

\* Burning shares that are held keeps the ledger, and burns no more than there is.
LEMMA LedgerBurn ==
    ASSUME TypeOK, SupplyHeld, NEW h \in Holder, NEW n \in Nat, n <= shares[h],
           totalSupply' = totalSupply - n, shares' = [shares EXCEPT ![h] = @ - n]
    PROVE  totalSupply' \in Nat /\ shares' \in [Holder -> Nat] /\ SupplyHeld'
  <1>1. shares \in [Holder -> Nat] /\ totalSupply \in Nat
    BY DEF TypeOK
  <1>2. /\ shares' \in [Holder -> Nat] /\ shares[h] = shares'[h] + n
        /\ \A k \in Holder \ {h} : shares[k] = shares'[k]
    BY <1>1
  <1>3. ShareUnits(shares') \in SUBSET ShareUnits(shares)
    BY <1>1, <1>2 DEF ShareUnits
  <1>4. IsFiniteSet(ShareUnits(shares'))
    BY <1>3, FS_Subset DEF SupplyHeld
  <1>5. Cardinality(ShareUnits(shares)) = Cardinality(ShareUnits(shares')) + n
    <2>1. \A f, g \in [Holder -> Nat] :
            /\ g[h] = f[h] + n
            /\ \A k \in Holder \ {h} : g[k] = f[k]
            /\ IsFiniteSet(ShareUnits(f))
            => Cardinality(ShareUnits(g)) = Cardinality(ShareUnits(f)) + n
      BY UnitsAdd
    <2>. QED  BY <1>1, <1>2, <1>4, <2>1
  <1>6. Cardinality(ShareUnits(shares')) \in Nat
    BY <1>4, FS_CardinalityType
  <1>. QED
    BY <1>1, <1>2, <1>4, <1>5, <1>6 DEF SupplyHeld

-----------------------------------------------------------------------------
(* Type correctness *)

\* The inductive invariant: no redemption would keep totalSupply a natural
\* number were the shares not accounted for.
WellFormed == TypeOK /\ SupplyHeld

\* Deposits and mints.
LEMMA WellFormedDeposits ==
    ASSUME WellFormed, NEW h \in Holder, NEW loss \in Losses, NEW a \in Nat,
           deposit(h, a, loss) \/ mint(h, a, loss)
    PROVE  WellFormed'
  <1>1. PICK assets \in Nat, amount \in Nat :
           TakeAndDeploy(assets, loss) /\ MintShares(h, amount)
    BY ReadTypes DEF deposit, mint, WellFormed
  <1>2. idle' \in Nat /\ balance' \in [AdapterIndex -> Nat]
    BY <1>1, TypeTakeAndDeploy DEF WellFormed
  <1>3. totalSupply' \in Nat /\ shares' \in [Holder -> Nat] /\ SupplyHeld'
    BY <1>1, LedgerMint DEF WellFormed
  <1>4. UNCHANGED <<now, frozen, fees, feeRates, strategy, admin, decisions, managerVars>>
    BY DEF deposit, mint
  <1>. QED
    BY <1>2, <1>3, <1>4
    DEF WellFormed, TypeOK, StrategyTypeOK, fees, feeRates, strategy, admin, decisions,
        managerVars

\* Withdrawals and redemptions.
LEMMA WellFormedPayOut ==
    ASSUME WellFormed, NEW h \in Holder, NEW assets \in Nat, NEW amount \in Nat,
           PayOut(h, assets, amount)
    PROVE  WellFormed'
  <1>1. balance' \in [AdapterIndex -> Nat]
    BY PulledTypes DEF PayOut, WellFormed, TypeOK, StrategyTypeOK
  <1>2. idle' \in Nat
    <2>1. IdleAfterPull(assets) \in Nat
      BY PulledTypes, ConstantTypes DEF IdleAfterPull, WellFormed, TypeOK, StrategyTypeOK
    <2>. QED  BY <2>1 DEF PayOut
  <1>3. totalSupply' \in Nat /\ shares' \in [Holder -> Nat] /\ SupplyHeld'
    BY LedgerBurn DEF PayOut, WellFormed
  <1>4. UNCHANGED <<now, frozen, fees, feeRates, strategy, admin, decisions, managerVars>>
    BY DEF PayOut
  <1>. QED
    BY <1>1, <1>2, <1>3, <1>4
    DEF WellFormed, TypeOK, StrategyTypeOK, fees, feeRates, strategy, admin, decisions,
        managerVars

\* Every operation of a holder.
LEMMA WellFormedHolder ==
    ASSUME WellFormed, HolderNext
    PROVE  WellFormed'
  <1>1. PICK h \in Holder :
          \/ \E a \in Amounts, loss \in Losses : deposit(h, a, loss)
          \/ \E s \in ShareAmounts, loss \in Losses : mint(h, s, loss)
          \/ \E a \in Amounts \cup {maxWithdraw(h)} : withdraw(h, a)
          \/ \E s \in ShareAmounts \cup {shares[h]} : redeem(h, s)
    BY DEF HolderNext
  <1>2. Amounts \subseteq Nat /\ ShareAmounts \subseteq Nat
    BY AIVaultAssumption
  <1>3. CASE \E a \in Amounts, loss \in Losses : deposit(h, a, loss)
    BY <1>2, <1>3, WellFormedDeposits
  <1>4. CASE \E s \in ShareAmounts, loss \in Losses : mint(h, s, loss)
    BY <1>2, <1>4, WellFormedDeposits
  <1>5. CASE \E a \in Amounts \cup {maxWithdraw(h)} : withdraw(h, a)
    <2>1. PICK a \in Nat : withdraw(h, a)
      BY <1>2, <1>5, ReadTypes DEF WellFormed
    <2>2. previewWithdraw(a) \in Nat
      BY ReadTypes DEF WellFormed
    <2>. QED  BY <2>1, <2>2, WellFormedPayOut DEF withdraw
  <1>6. CASE \E s \in ShareAmounts \cup {shares[h]} : redeem(h, s)
    <2>1. PICK s \in Nat : redeem(h, s)
      BY <1>2, <1>6 DEF WellFormed, TypeOK
    <2>2. convertToAssets(s) \in Nat
      BY ReadTypes DEF WellFormed
    <2>. QED  BY <2>1, <2>2, WellFormedPayOut DEF redeem
  <1>. QED  BY <1>1, <1>3, <1>4, <1>5, <1>6

\* What both rebalance paths have in common.
LEMMA WellFormedRebalanced ==
    ASSUME WellFormed, NEW from \in AdapterIndex, NEW to \in AdapterIndex,
           NEW maxLossBps, NEW loss \in Losses, Rebalanced(from, to, maxLossBps, loss),
           rebalanceNonce' \in Nat, executed' \subseteq Execution
    PROVE  WellFormed'
  <1>1. idle' \in Nat /\ balance' \in [AdapterIndex -> Nat]
    BY TypeMoveFunds DEF Rebalanced, WellFormed
  <1>2. idle' + Deployed(balance') \in Nat
    BY <1>1, ConstantTypes DEF Deployed
  <1>3. accruedFeeShares' \in Nat /\ highWaterMark' \in Nat /\ lastFeeTimestamp' \in Nat
    BY <1>2, TypeFee DEF Rebalanced, WellFormed
  <1>4. smoothedRates' \in [AdapterIndex -> Nat]
    BY TypeSmoothing DEF Rebalanced, WellFormed
  <1>5. /\ activeAdapterIndex' = to /\ hasActiveStrategy' = TRUE
        /\ lastRebalanceTimestamp' = now
        /\ UNCHANGED <<now, frozen, ledger, feeRates, admin, signed, supplyRate,
                       strategyParams>>
    BY DEF Rebalanced
  <1>6. SupplyHeld'
    BY <1>5 DEF WellFormed, SupplyHeld, ledger
  <1>. QED
    BY <1>1, <1>3, <1>4, <1>5, <1>6
    DEF WellFormed, TypeOK, StrategyTypeOK, ledger, feeRates, admin

\* Both rebalance paths.
LEMMA WellFormedRebalance ==
    ASSUME WellFormed, RebalanceNext
    PROVE  WellFormed'
  <1>1. PICK loss \in Losses :
          \/ \E d \in signed : rebalance(d, loss)
          \/ \E from, to \in AdapterIndex, g \in GasPrices : performUpkeep(from, to, g, loss)
    BY DEF RebalanceNext
  <1>2. /\ rebalanceNonce \in Nat /\ now \in Nat /\ activeAdapterIndex \in AdapterIndex
        /\ signed \subseteq Decision /\ executed \subseteq Execution
    BY DEF WellFormed, TypeOK, StrategyTypeOK
  <1>3. CASE \E d \in signed : rebalance(d, loss)
    <2>1. PICK d \in signed : rebalance(d, loss)
      BY <1>3
    <2>2. d \in Decision /\ d.targetAdapterIndex \in AdapterIndex
      BY <1>2, <2>1, AIVaultAssumption DEF rebalance, Decision, AdapterIndex
    <2>3. rebalanceNonce' \in Nat
      BY <1>2, <2>1 DEF rebalance, ConsumeNonce
    <2>4. executed' \subseteq Execution
      BY <1>2, <2>1, <2>2 DEF rebalance, Execution
    <2>. QED
      BY <1>2, <2>1, <2>2, <2>3, <2>4, WellFormedRebalanced DEF rebalance
  <1>4. CASE \E from, to \in AdapterIndex, g \in GasPrices : performUpkeep(from, to, g, loss)
    <2>1. PICK from \in AdapterIndex, to \in AdapterIndex, g \in GasPrices :
            performUpkeep(from, to, g, loss)
      BY <1>4
    <2>2. rebalanceNonce' \in Nat /\ executed' \subseteq Execution
      BY <1>2, <2>1 DEF performUpkeep
    <2>. QED
      BY <2>1, <2>2, WellFormedRebalanced DEF performUpkeep
  <1>. QED  BY <1>1, <1>3, <1>4

\* Every operation of the owner and the fee recipient.
LEMMA WellFormedOwner ==
    ASSUME WellFormed, OwnerNext
    PROVE  WellFormed'
  <1>. USE DEF funds, ledger, fees, feeRates, strategy, admin, decisions, managerVars
  <1>. USE DEF WellFormed
  <1>1. ASSUME NEW p \in BOOLEAN, setPaused(p) PROVE WellFormed'
    BY <1>1 DEF setPaused, TypeOK, StrategyTypeOK, SupplyHeld
  <1>2. ASSUME emergencyWithdrawAll PROVE WellFormed'
    <2>1. idle' \in Nat
      BY <1>2, ReadTypes DEF emergencyWithdrawAll
    <2>2. balance' \in [AdapterIndex -> Nat] /\ hasActiveStrategy' \in BOOLEAN
      BY <1>2 DEF emergencyWithdrawAll
    <2>3. SupplyHeld'
      BY <1>2 DEF emergencyWithdrawAll, SupplyHeld
    <2>. QED  BY <1>2, <2>1, <2>2, <2>3 DEF emergencyWithdrawAll, TypeOK, StrategyTypeOK
  <1>3. ASSUME NEW k \in Keys, setKeeper(k) PROVE WellFormed'
    BY <1>3 DEF setKeeper, TypeOK, StrategyTypeOK, SupplyHeld
  <1>4. ASSUME NEW p \in VaultParams, setParameters(p) PROVE WellFormed'
    BY <1>4, AIVaultAssumption DEF setParameters, TypeOK, StrategyTypeOK, SupplyHeld
  <1>5. ASSUME NEW m \in ManagementFees, NEW f \in PerformanceFees, setFees(m, f)
        PROVE  WellFormed'
    <2>1. m \in 0 .. 500 /\ f \in 0 .. 3000
      BY AIVaultAssumption
    <2>. QED  BY <1>5, <2>1 DEF setFees, TypeOK, StrategyTypeOK, SupplyHeld
  <1>6. ASSUME claimFees PROVE WellFormed'
    <2>1. totalSupply' \in Nat /\ shares' \in [Holder -> Nat] /\ SupplyHeld'
      BY <1>6, LedgerMint, AIVaultAssumption DEF claimFees, TypeOK
    <2>. QED  BY <1>6, <2>1 DEF claimFees, TypeOK, StrategyTypeOK
  <1>7. ASSUME NEW p \in StrategyParams, setStrategyParameters(p) PROVE WellFormed'
    BY <1>7, StrategyManagerAssumption
    DEF setStrategyParameters, SetStrategyParameters, EnvironmentOnly, TypeOK,
        StrategyTypeOK, SupplyHeld
  <1>. QED  BY <1>1, <1>2, <1>3, <1>4, <1>5, <1>6, <1>7 DEF OwnerNext

\* The agent's signature.
LEMMA WellFormedAgent ==
    ASSUME WellFormed, AgentNext
    PROVE  WellFormed'
  <1>1. PICK k \in Keys, i \in AdapterIndex, m \in MaxLosses, ahead \in 0 .. ClockSkew :
           sign(k, i, m, now + ahead)
    BY DEF AgentNext
  <1>2. signed' \subseteq Decision
    <2>1. /\ i \in Nat /\ m \in Nat /\ now \in Nat /\ now + ahead \in Nat
          /\ rebalanceNonce \in Nat /\ activeAdapterIndex \in AdapterIndex
          /\ signed \subseteq Decision
      BY AIVaultAssumption, ConstantTypes
      DEF WellFormed, TypeOK, StrategyTypeOK
    <2>. QED  BY <1>1, <2>1 DEF sign, Decision
  <1>. QED
    BY <1>1, <1>2
    DEF sign, WellFormed, TypeOK, StrategyTypeOK, SupplyHeld, funds, ledger, fees,
        feeRates, strategy, admin, managerVars

\* What the pools, time and others do.
LEMMA WellFormedEnvironment ==
    ASSUME WellFormed, EnvironmentNext
    PROVE  WellFormed'
  <1>. USE DEF funds, ledger, fees, feeRates, strategy, admin, decisions, managerVars,
               EnvironmentOnly
  <1>. USE DEF WellFormed
  <1>0. Amounts \subseteq Nat /\ Interest \subseteq Nat /\ Rates \subseteq Nat
    BY AIVaultAssumption, StrategyManagerAssumption
  <1>1. ASSUME NEW i \in AdapterIndex, NEW a \in Interest, accrue(i, a) PROVE WellFormed'
    BY <1>0, <1>1 DEF accrue, TypeOK, StrategyTypeOK, SupplyHeld
  <1>2. ASSUME NEW a \in Amounts, donate(a) PROVE WellFormed'
    BY <1>0, <1>2 DEF donate, TypeOK, StrategyTypeOK, SupplyHeld
  <1>3. ASSUME NEW i \in AdapterIndex, freeze(i) PROVE WellFormed'
    BY <1>3 DEF freeze, TypeOK, StrategyTypeOK, SupplyHeld
  <1>4. ASSUME NEW i \in AdapterIndex, NEW r \in Rates, rateMoves(i, r) PROVE WellFormed'
    BY <1>0, <1>4 DEF rateMoves, RateMoves, TypeOK, StrategyTypeOK, SupplyHeld
  <1>5. ASSUME updateSmoothedRates PROVE WellFormed'
    BY <1>5, TypeSmoothing DEF updateSmoothedRates, TypeOK, StrategyTypeOK, SupplyHeld
  <1>6. ASSUME consumeNonce PROVE WellFormed'
    BY <1>6 DEF consumeNonce, ConsumeNonce, TypeOK, StrategyTypeOK, SupplyHeld
  <1>7. ASSUME tick PROVE WellFormed'
    BY <1>7 DEF tick, TypeOK, StrategyTypeOK, SupplyHeld
  <1>. QED  BY <1>1, <1>2, <1>3, <1>4, <1>5, <1>6, <1>7 DEF EnvironmentNext

\* Every step keeps the inductive invariant.
LEMMA WellFormedStep ==
    ASSUME WellFormed, [Next]_vars
    PROVE  WellFormed'
  <1>1. CASE UNCHANGED vars
    BY <1>1 DEF vars, funds, ledger, fees, feeRates, strategy, admin, decisions,
                managerVars, WellFormed, TypeOK, StrategyTypeOK, SupplyHeld
  <1>. QED
    BY <1>1, WellFormedHolder, WellFormedRebalance, WellFormedOwner, WellFormedAgent,
       WellFormedEnvironment DEF Next

\* The inductive invariant holds in every reachable state.
LEMMA WellFormedAlways == Spec => []WellFormed
  <1>1. Init => WellFormed
    <2>. SUFFICES ASSUME Init PROVE WellFormed
      OBVIOUS
    <2>1. ShareUnits(shares) = {} /\ totalSupply = 0
      BY DEF Init, ShareUnits
    <2>. QED  BY <2>1, TypeInit, FS_EmptySet DEF WellFormed, SupplyHeld
  <1>2. WellFormed /\ [Next]_vars => WellFormed'
    BY WellFormedStep
  <1>. QED  BY <1>1, <1>2, PTL DEF Spec

\* Amounts of funds, shares and fees never go below zero, indices stay within
\* the adapters and decisions keep their form: no operation of the vault
\* subtracts more than there is.
THEOREM TypeCorrect == Spec => []TypeOK
  <1>1. WellFormed => TypeOK
    BY DEF WellFormed
  <1>. QED  BY <1>1, WellFormedAlways, PTL

\* The shares outstanding are the shares held, for any number of holders.
THEOREM SupplyIsHeld == Spec => []SupplyHeld
  <1>1. WellFormed => SupplyHeld
    BY DEF WellFormed
  <1>. QED  BY <1>1, WellFormedAlways, PTL
=============================================================================
