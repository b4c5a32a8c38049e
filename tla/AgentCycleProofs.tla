-------------------------- MODULE AgentCycleProofs --------------------------
(***************************************************************************)
(* AgentCycle for every number of processes, retries and settings: its     *)
(* state keeps its form, and no decision outlives what its cycle saw.      *)
(***************************************************************************)
EXTENDS AgentCycle, TLAPS

-----------------------------------------------------------------------------
(* Types *)

\* The steps of one process, by what they can disturb.
LEMMA TypeProcess ==
    ASSUME TypeOK, NEW p \in Process, ProcessStep(p)
    PROVE  TypeOK'
  <1>. USE AgentCycleAssumption DEF Goes, Returns, viewVars, strategyView, nodeVars
  <1>0. /\ NoPlan \in Plan /\ plan[p] \in Plan
        /\ activeAdapterIndex \in Nat /\ accountNonce \in Nat /\ rebalanceNonce \in Nat
        /\ now \in Nat /\ cycle[p] \in Nat /\ plan[p].attempt \in Nat
    BY DEF TypeOK, NoPlan, Plan
  <1>1. CASE readProtocols(p)
    BY <1>1 DEF readProtocols, TypeOK
  <1>2. ASSUME NEW target \in Adapters, decide(p, target) PROVE TypeOK'
    <2>1. [NoPlan EXCEPT !.target = target, !.attempt = 1,
                         !.seenActive = activeAdapterIndex] \in Plan
      BY <1>0 DEF NoPlan, Plan
    <2>. QED  BY <1>2, <2>1 DEF decide, TypeOK
  <1>3. CASE hold(p) \/ requestFails(p)
    BY <1>0, <1>3 DEF hold, requestFails, TypeOK
  <1>4. CASE readNonce(p)
    <2>1. [plan[p] EXCEPT !.nonce = rebalanceNonce] \in Plan
      BY <1>0 DEF Plan
    <2>. QED  BY <1>4, <2>1 DEF readNonce, TypeOK
  <1>5. ASSUME NEW ahead \in 0 .. ClockSkew, sign(p, ahead) PROVE TypeOK'
    <2>. DEFINE c == IF plan[p].attempt = 1 THEN cycle[p] + 1 ELSE cycle[p]
    <2>1. c \in Nat /\ now + ahead \in Nat
      BY <1>0
    <2>2. [plan[p] EXCEPT !.timestamp = now + ahead, !.account = accountNonce] \in Plan
      BY <1>0, <2>1 DEF Plan
    <2>3. DecisionOf(p, now + ahead, c) \in Decision
      BY <1>0, <2>1 DEF DecisionOf, Decision, Plan
    <2>. QED  BY <1>5, <2>1, <2>2, <2>3 DEF sign, TypeOK
  <1>6. TransactionOf(p) \in Transaction
    BY <1>0 DEF TransactionOf, Transaction, DecisionOf, Decision, Plan
  <1>7. ASSUME NEW result \in BOOLEAN, Returns(p, result)
        PROVE  /\ pc' \in [Process -> {"idle", "active", "nonce", "sign", "send", "wait",
                                      "reverted", "tooLow"}]
               /\ plan' \in [Process -> Plan] /\ since' \in [Process -> Nat]
               /\ reported' \in [Process -> BOOLEAN]
               /\ cycle' \in [Process -> Nat]
    <2>1. /\ pc' = [pc EXCEPT ![p] = "idle"] /\ plan' = [plan EXCEPT ![p] = NoPlan]
          /\ since' = [since EXCEPT ![p] = 0] /\ reported' = [reported EXCEPT ![p] = result]
          /\ cycle' = cycle
      BY <1>7
    <2>. HIDE DEF Returns
    <2>. QED  BY <1>0, <2>1 DEF TypeOK
  <1>8. ASSUME pc[p] = "send" /\ Accepted(p)
        PROVE  /\ pool' \subseteq Transaction
               /\ UNCHANGED <<viewVars, accountNonce, mined>>
    BY <1>6, <1>8 DEF Accepted, TypeOK
  <1>9. CASE send(p)
    <2>1. /\ pc' \in [Process -> {"idle", "active", "nonce", "sign", "send", "wait",
                                 "reverted", "tooLow"}]
          /\ since' \in [Process -> Nat]
      BY <1>0, <1>9 DEF send, TypeOK
    <2>2. UNCHANGED <<plan, cycle, reported>>
      BY <1>9 DEF send
    <2>. QED  BY <1>8, <1>9, <2>1, <2>2 DEF send, TypeOK
  <1>10. CASE sendUnanswered(p)
    <2>. HIDE DEF Returns
    <2>. QED  BY <1>7, <1>8, <1>10 DEF sendUnanswered, TypeOK
  <1>11. CASE /\ Returns(p, TRUE) \/ Returns(p, FALSE)
              /\ UNCHANGED <<viewVars, nodeVars>>
    <2>. HIDE DEF Returns
    <2>. QED  BY <1>7, <1>11 DEF TypeOK
  <1>12. CASE /\ Goes(p, "send", "tooLow") \/ Goes(p, "wait", "reverted")
              /\ UNCHANGED <<scored, plan, since, cycle, reported, viewVars, nodeVars>>
    BY <1>12 DEF TypeOK
  <1>13. CASE signAgain(p)
    <2>0. \A n, a \in Nat : [plan[p] EXCEPT !.nonce = n, !.attempt = a] \in Plan
      BY <1>0 DEF Plan
    <2>. DEFINE a == plan[p].attempt + 1
    <2>1. a \in Nat
      BY <1>0
    <2>2. [plan[p] EXCEPT !.nonce = rebalanceNonce, !.attempt = a] \in Plan
      BY <1>0, <2>0, <2>1
    <2>. QED  BY <1>13, <2>2 DEF signAgain, TypeOK
  <1>. HIDE DEF Goes, Returns
  <1>. QED
    BY <1>1, <1>2, <1>3, <1>4, <1>5, <1>9, <1>10, <1>11, <1>12, <1>13
    DEF ProcessStep, sendFails, sendTooLow, confirmed, receiptReverted, noReceipt, giveUp

\* The steps of the chain and of time.
LEMMA TypeChain ==
    ASSUME TypeOK, ChainNext \/ OthersOnVault \/ tick
    PROVE  TypeOK'
  <1>. USE DEF viewVars, strategyView, agentVars, nodeVars
  <1>1. ASSUME NEW t \in pool, NEW ok \in BOOLEAN, Mined(t, ok)
        PROVE  /\ pool' \subseteq Transaction /\ accountNonce' \in Nat
               /\ mined' \subseteq [tx : Transaction, ok : BOOLEAN, foundActive : Nat]
    BY <1>1 DEF Mined, TypeOK
  <1>2. ASSUME NEW t \in pool, mineExecuted(t) \/ mineReverted(t) \/ drop(t) PROVE TypeOK'
    <2>1. CASE mineExecuted(t)
      <3>1. t.decision.targetAdapterIndex \in Nat
        BY DEF TypeOK, Transaction, Decision
      <3>2. /\ pool' \subseteq Transaction /\ accountNonce' \in Nat
            /\ mined' \subseteq [tx : Transaction, ok : BOOLEAN, foundActive : Nat]
        BY <1>1, <2>1 DEF mineExecuted
      <3>3. /\ activeAdapterIndex' \in Nat /\ hasActiveStrategy' \in BOOLEAN
            /\ lastRebalanceTimestamp' \in Nat /\ rebalanceNonce' \in Nat
            /\ UNCHANGED <<now, paused, signed, agentVars>>
        BY <2>1, <3>1 DEF mineExecuted, Mined, Execute, Switch, TypeOK
      <3>. QED  BY <3>2, <3>3 DEF TypeOK
    <2>2. CASE mineReverted(t)
      BY <1>1, <2>2 DEF mineReverted, Mined, TypeOK
    <2>3. CASE drop(t)
      BY <2>3 DEF drop, TypeOK
    <2>. QED  BY <1>2, <2>1, <2>2, <2>3
  <1>3. CASE OthersOnVault
    <2>1. CASE NonceConsumed
      BY <1>3, <2>1 DEF OthersOnVault, NonceConsumed, TypeOK
    <2>2. ASSUME NEW to \in Adapters, Upkeep(to) PROVE TypeOK'
      <3>1. to \in Nat
        BY AgentCycleAssumption
      <3>. QED  BY <1>3, <2>2, <3>1 DEF OthersOnVault, Upkeep, Switch, TypeOK
    <2>. QED  BY <1>3, <2>1, <2>2 DEF OthersOnVault
  <1>4. CASE tick
    BY <1>4 DEF tick, Tick, TypeOK
  <1>. QED  BY <1>2, <1>3, <1>4 DEF ChainNext

\* What a process, the node and the vault hold keeps its form through every
\* interleaving of the processes, the chain and the clock.
THEOREM TypeCorrect == Spec => []TypeOK
  <1>1. ASSUME Init PROVE TypeOK
    <2>1. NoPlan \in Plan
      BY DEF NoPlan, Plan
    <2>. QED  BY <1>1, <2>1 DEF Init, ViewInit, TypeOK
  <1>2. TypeOK /\ [Next]_vars => TypeOK'
    <2>. SUFFICES ASSUME TypeOK, [Next]_vars PROVE TypeOK'
      OBVIOUS
    <2>1. CASE UNCHANGED vars
      BY <2>1 DEF vars, viewVars, strategyView, agentVars, nodeVars, TypeOK
    <2>. QED  BY <2>1, TypeProcess, TypeChain DEF Next
  <1>. QED  BY <1>1, <1>2, PTL DEF Spec

-----------------------------------------------------------------------------
(* Scores *)

\* Truncation keeps order, and gives back the factor of a multiple.
LEMMA Truncation ==
    ASSUME NEW a \in Nat, NEW c \in Nat, NEW b \in Nat \ {0}
    PROVE  /\ a \div b \in Nat
           /\ a <= c => a \div b <= c \div b
           /\ (c * b) \div b = c
  OBVIOUS

LEMMA ProductOrder ==
    ASSUME NEW a \in Nat, NEW b \in Nat, NEW c \in Nat, a <= b
    PROVE  a * c \in Nat /\ b * c \in Nat /\ a * c <= b * c
  OBVIOUS

\* A factor is a number of points, and grows with its value.
LEMMA Normalized ==
    ASSUME NEW top \in Nat, NEW v \in Int, NEW w \in Int, v <= w
    PROVE  /\ normalize(v, top) \in 0 .. Points
           /\ normalize(w, top) \in 0 .. Points
           /\ normalize(v, top) <= normalize(w, top)
  <1>0. Points \in Nat \ {0}
    BY ScoringAssumption
  <1>1. ASSUME NEW x \in Int, NEW y \in Int, 0 < x, x <= y, y <= top
        PROVE  LET e == (x * Points) \div top
                   f == (y * Points) \div top
               IN  e \in Nat /\ f \in Nat /\ e <= f /\ f <= Points
    <2>. DEFINE X == x * Points
                Y == y * Points
                Z == Points * top
    <2>1. X \in Nat /\ Y \in Nat /\ Z \in Nat /\ X <= Y /\ Y <= Z /\ top \in Nat \ {0}
      BY <1>0, <1>1, ProductOrder
    <2>2. Z \div top = Points
      BY <1>0, <2>1, Truncation
    <2>. HIDE DEF X, Y, Z
    <2>3. X \div top \in Nat /\ Y \div top \in Nat /\ X \div top <= Y \div top
          /\ Y \div top <= Z \div top
      BY <2>1, Truncation
    <2>. QED  BY <2>2, <2>3 DEF X, Y
  <1>2. ASSUME NEW x \in Int PROVE normalize(x, top) \in 0 .. Points
    <2>1. CASE 0 < x /\ x < top
      <3>. DEFINE e == (x * Points) \div top
      <3>1. e \in Nat /\ e <= Points
        BY <1>1, <2>1
      <3>2. normalize(x, top) = e
        BY <2>1 DEF normalize
      <3>. HIDE DEF e
      <3>. QED  BY <1>0, <3>1, <3>2
    <2>. QED  BY <1>0, <2>1 DEF normalize
  <1>3. normalize(v, top) <= normalize(w, top)
    <2>1. normalize(v, top) \in 0 .. Points /\ normalize(w, top) \in 0 .. Points
      BY <1>2
    <2>2. CASE top <= 0 \/ v <= 0
      BY <1>0, <2>1, <2>2 DEF normalize
    <2>3. CASE top > 0 /\ w >= top
      <3>1. normalize(w, top) = Points
        BY <1>0, <2>3 DEF normalize
      <3>. QED  BY <1>0, <2>1, <3>1
    <2>4. CASE 0 < v /\ w < top
      <3>. DEFINE e == (v * Points) \div top
                  f == (w * Points) \div top
      <3>1. e <= f
        BY <1>1, <2>4
      <3>2. normalize(v, top) = e /\ normalize(w, top) = f
        BY <2>4 DEF normalize
      <3>. QED  BY <3>1, <3>2
    <2>. QED  BY <2>2, <2>3, <2>4
  <1>. QED  BY <1>2, <1>3

\* A score weighs its four factors, each a number of points: it is one too, and
\* no lower for factors that are no lower.
Weigh(a, b, c, d) ==
    (WeightApy * a + WeightRisk * b + WeightCost * c + WeightStability * d) \div 100

LEMMA Weighted ==
    ASSUME NEW a \in 0 .. Points, NEW b \in 0 .. Points, NEW c \in 0 .. Points,
           NEW d \in 0 .. Points, NEW a2 \in a .. Points, NEW b2 \in b .. Points,
           NEW d2 \in d .. Points
    PROVE  /\ Weigh(a, b, c, d) \in Nat /\ Weigh(a2, b2, c, d2) \in Nat
           /\ Weigh(a, b, c, d) <= Weigh(a2, b2, c, d2)
           /\ Weigh(a2, b2, c, d2) <= Points
  <1>0. /\ Points \in Nat
        /\ WeightApy \in Nat /\ WeightRisk \in Nat /\ WeightCost \in Nat
        /\ WeightStability \in Nat
        /\ WeightApy + WeightRisk + WeightCost + WeightStability = 100
    BY ScoringAssumption
  <1>1. ASSUME NEW x \in 0 .. Points, NEW y \in x .. Points, NEW weight \in Nat
        PROVE  /\ weight * x \in Nat /\ weight * y \in Nat /\ weight * Points \in Nat
               /\ weight * x <= weight * y /\ weight * y <= weight * Points
    <2>1. x \in Nat /\ y \in Nat /\ x <= y /\ y <= Points
      BY <1>0
    <2>. QED  BY <1>0, <2>1, ProductOrder
  <1>2. c \in c .. Points
    BY <1>0
  <1>. DEFINE L == WeightApy * a + WeightRisk * b + WeightCost * c + WeightStability * d
              H == WeightApy * a2 + WeightRisk * b2 + WeightCost * c + WeightStability * d2
              all == WeightApy * Points + WeightRisk * Points + WeightCost * Points
                       + WeightStability * Points
  <1>3. L \in Nat /\ H \in Nat /\ all \in Nat /\ L <= H /\ H <= all
    BY <1>0, <1>1, <1>2
  <1>4. all = Points * 100
    <2>1. all = Points * (WeightApy + WeightRisk + WeightCost + WeightStability)
      BY <1>0
    <2>. QED  BY <1>0, <2>1
  <1>5. all \div 100 = Points
    BY <1>0, <1>4, Truncation
  <1>. HIDE DEF L, H, all
  <1>6. L \div 100 \in Nat /\ H \div 100 \in Nat /\ L \div 100 <= H \div 100
        /\ H \div 100 <= all \div 100
    BY <1>3, Truncation
  <1>. QED  BY <1>5, <1>6 DEF L, H, Weigh

\* Scores are comparable: each is between none and all of the points, and of two
\* protocols in the same market of gas the one that pays no less, is used no more
\* and has lost no more of its deposits scores no lower (scoring.py score_protocol).
THEOREM ScoresAreOrdered ==
    ASSUME NEW q \in Quote, NEW r \in Quote, NEW gas \in Nat,
           q.apy <= r.apy, r.utilization <= q.utilization, q.tvlDelta <= r.tvlDelta
    PROVE  /\ score_protocol(q, gas) \in 0 .. Points
           /\ score_protocol(r, gas) \in 0 .. Points
           /\ score_protocol(q, gas) <= score_protocol(r, gas)
  <1>0. /\ MaxApy \in Nat /\ MaxGas \in Nat /\ MaxUtilization \in Nat /\ MaxOutflow \in Nat
        /\ Points \in Nat
    BY ScoringAssumption
  <1>1. /\ q.apy \in Int /\ r.apy \in Int /\ q.utilization \in Int /\ r.utilization \in Int
        /\ Outflow(q) \in Int /\ Outflow(r) \in Int /\ Outflow(r) <= Outflow(q)
        /\ gas \in Int /\ gas <= gas
    BY DEF Quote, Outflow
  <1>. DEFINE a == normalize(q.apy, MaxApy)
              a2 == normalize(r.apy, MaxApy)
              b == normalize(q.utilization, MaxUtilization)
              b2 == normalize(r.utilization, MaxUtilization)
              c == normalize(gas, MaxGas)
              d == normalize(Outflow(q), MaxOutflow)
              d2 == normalize(Outflow(r), MaxOutflow)
  <1>2. /\ a \in 0 .. Points /\ a2 \in 0 .. Points /\ a <= a2
        /\ b \in 0 .. Points /\ b2 \in 0 .. Points /\ b2 <= b
        /\ c \in 0 .. Points
        /\ d \in 0 .. Points /\ d2 \in 0 .. Points /\ d2 <= d
    BY <1>0, <1>1, Normalized
  <1>. HIDE DEF a, a2, b, b2, c, d, d2
  <1>. DEFINE B == Points - b
              B2 == Points - b2
              C == Points - c
              D == Points - d
              D2 == Points - d2
  <1>3. /\ a2 \in a .. Points
        /\ B \in 0 .. Points /\ B2 \in B .. Points
        /\ C \in 0 .. Points
        /\ D \in 0 .. Points /\ D2 \in D .. Points
    BY <1>0, <1>2
  <1>. HIDE DEF B, B2, C, D, D2
  <1>4. /\ Weigh(a, B, C, D) \in Nat /\ Weigh(a2, B2, C, D2) \in Nat
        /\ Weigh(a, B, C, D) <= Weigh(a2, B2, C, D2) /\ Weigh(a2, B2, C, D2) <= Points
    BY <1>2, <1>3, Weighted
  <1>5. /\ score_protocol(q, gas) = Weigh(a, B, C, D)
        /\ score_protocol(r, gas) = Weigh(a2, B2, C, D2)
    BY DEF score_protocol, Weigh, a, a2, b, b2, c, d, d2, B, B2, C, D, D2
  <1>. QED  BY <1>0, <1>4, <1>5

\* A decision names one target, and it is undone only by scores that have moved:
\* while none of them has moved by the threshold, evaluate neither goes on from
\* the target nor back to where it came from, if that one is answered for
\* (scoring.py evaluate).
THEOREM MovesSettle ==
    ASSUME NEW answered \in SUBSET Nat, NEW total \in [answered -> Int],
           NEW later \in [answered -> Int], NEW current \in Nat, NEW target \in Nat,
           should_rebalance(total, current, target)
    PROVE  /\ \A other : should_rebalance(total, current, other) => other = target
           /\ \A other : ~should_rebalance(total, target, other)
           /\ current \in answered
              /\ (\A i \in answered : /\ later[i] - total[i] < ScoreThreshold
                                      /\ total[i] - later[i] < ScoreThreshold)
                 => ~should_rebalance(later, target, current)
  <1>0. /\ ScoreThreshold \in Nat \ {0}
        /\ DOMAIN total = answered /\ DOMAIN later = answered
        /\ target \in answered /\ total[target] \in Int
        /\ \A i \in answered : total[i] \in Int /\ later[i] \in Int
    BY ScoringAssumption DEF should_rebalance, IsBestScore, Answered
  <1>1. ASSUME NEW other, should_rebalance(total, current, other) PROVE other = target
    BY <1>0, <1>1 DEF should_rebalance, IsBestScore, Answered
  <1>2. ASSUME NEW other, should_rebalance(total, target, other) PROVE FALSE
    <2>1. other \in answered /\ total[other] <= total[target]
      BY <1>0, <1>2 DEF should_rebalance, IsBestScore, Answered
    <2>2. total[other] - total[target] >= ScoreThreshold
      BY <1>0, <1>2 DEF should_rebalance, CurrentScore, Answered
    <2>. QED  BY <1>0, <2>1, <2>2
  <1>3. ASSUME current \in answered,
               \A i \in answered : /\ later[i] - total[i] < ScoreThreshold
                                   /\ total[i] - later[i] < ScoreThreshold,
               should_rebalance(later, target, current)
        PROVE  FALSE
    <2>1. total[target] - total[current] >= ScoreThreshold
      BY <1>3 DEF should_rebalance, CurrentScore, Answered
    <2>2. later[current] - later[target] >= ScoreThreshold
      BY <1>0, <1>3 DEF should_rebalance, CurrentScore, Answered
    <2>3. /\ later[current] - total[current] < ScoreThreshold
          /\ total[target] - later[target] < ScoreThreshold
      BY <1>0, <1>3
    <2>. QED  BY <1>0, <1>3, <2>1, <2>2, <2>3
  <1>. QED  BY <1>1, <1>2, <1>3

-----------------------------------------------------------------------------
(* Decisions *)

\* The cooldown outlasts a cycle with all its retries, and its last signature.
CooldownOutlastsCycle ==
    MinCooldown > (RetryLimit - 1) * ReceiptTimeout + ClockSkew + SignatureMaxAge

\* The longest a cycle can have waited for receipts before its attempt a.
Waited(a) == (a - 1) * ReceiptTimeout

LEMMA WaitedGrows ==
    ASSUME NEW a \in Nat
    PROVE  /\ a >= 1 => Waited(a) \in Nat
           /\ Waited(a + 1) = Waited(a) + ReceiptTimeout
           /\ \A b \in Nat : 1 <= a /\ a <= b => Waited(a) <= Waited(b)
  <1>1. ReceiptTimeout \in Nat
    BY AgentCycleAssumption
  <1>2. Waited(a + 1) = Waited(a) + ReceiptTimeout
    BY <1>1 DEF Waited
  <1>3. \A n \in Nat : n * ReceiptTimeout \in Nat
    BY <1>1
  <1>4. \A m, n \in Nat : m <= n => m * ReceiptTimeout <= n * ReceiptTimeout
    <2>1. SUFFICES ASSUME NEW m \in Nat, NEW n \in Nat, m <= n
                   PROVE  m * ReceiptTimeout <= n * ReceiptTimeout
      OBVIOUS
    <2>2. n - m \in Nat /\ n * ReceiptTimeout = m * ReceiptTimeout + (n - m) * ReceiptTimeout
      BY <1>1, <2>1
    <2>3. (n - m) * ReceiptTimeout \in Nat /\ m * ReceiptTimeout \in Nat
      BY <1>3, <2>2
    <2>. QED  BY <2>2, <2>3
  <1>. QED  BY <1>2, <1>3, <1>4 DEF Waited

\* What p saw is still so, or a rebalance has started a cooldown at most w ago
\* by the time t.
StillSees(p, t, w) ==
    plan[p].seenActive = activeAdapterIndex \/ t <= lastRebalanceTimestamp + w

\* A process's attempt is within the limit, and its waits within their timeouts.
InTime(p) ==
    /\ pc[p] \notin {"idle", "active"} => plan[p].attempt \in 1 .. RetryLimit
    /\ pc[p] \in {"nonce", "sign", "send"} => StillSees(p, now, Waited(plan[p].attempt))
    /\ pc[p] = "send" => DecisionOf(p, plan[p].timestamp, cycle[p]) \in signed
    /\ pc[p] = "wait" =>
           /\ since[p] <= now /\ now <= since[p] + ReceiptTimeout
           /\ StillSees(p, since[p], Waited(plan[p].attempt))
    /\ pc[p] \in {"reverted", "tooLow"} => StillSees(p, now, Waited(plan[p].attempt + 1))

\* What is known of a decision while it waits.
DecisionInTime(d) ==
    /\ d.timestamp <= now + ClockSkew
    /\ \/ d.seenActive = activeAdapterIndex
       \/ d.timestamp <= lastRebalanceTimestamp + Waited(RetryLimit) + ClockSkew

CyclesInTime ==
    /\ \A p \in Process : InTime(p)
    /\ \A d \in signed : DecisionInTime(d)
    /\ \A t \in pool : t.decision \in signed
    /\ ActedOnWhatItSaw

LEMMA NaturalFacts ==
    ASSUME TypeOK
    PROVE  /\ now \in Nat /\ lastRebalanceTimestamp \in Nat
           /\ RetryLimit \in Nat /\ RetryLimit >= 1 /\ Waited(RetryLimit) \in Nat
           /\ ReceiptTimeout \in Nat /\ ClockSkew \in Nat
           /\ MinCooldown \in Nat /\ SignatureMaxAge \in Nat
           /\ \A p \in Process : since[p] \in Nat /\ plan[p].attempt \in Nat
           /\ \A d \in signed : d.timestamp \in Nat
  <1>1. RetryLimit \in Nat /\ RetryLimit >= 1
    BY AgentCycleAssumption
  <1>2. Waited(RetryLimit) \in Nat
    BY <1>1, WaitedGrows
  <1>. QED  BY <1>1, <1>2, AgentCycleAssumption DEF TypeOK, Plan, Decision

LEMMA WaitedWithin ==
    ASSUME NEW a \in 1 .. RetryLimit
    PROVE  /\ Waited(a) \in Nat /\ Waited(a) <= Waited(RetryLimit)
           /\ Waited(a + 1) = Waited(a) + ReceiptTimeout
  <1>1. a \in Nat /\ 1 <= a /\ a <= RetryLimit /\ RetryLimit \in Nat
    BY AgentCycleAssumption
  <1>. QED  BY <1>1, WaitedGrows

\* A process's step leaves every other process as it was, and decisions too.
LEMMA OtherProcesses ==
    ASSUME TypeOK, CyclesInTime, NEW p \in Process, NEW q \in Process, q # p,
           UNCHANGED <<now, strategyView>>, signed \subseteq signed',
           pc'[q] = pc[q], plan'[q] = plan[q], since'[q] = since[q], cycle'[q] = cycle[q]
    PROVE  InTime(q)'
  BY DEF CyclesInTime, InTime, StillSees, DecisionOf, strategyView

\* What a step of p has to establish of p and of what it signs and sends.
StepInTime(p) ==
    /\ InTime(p)'
    /\ \A d \in signed' \ signed : DecisionInTime(d)'
    /\ \A t \in pool' \ pool : t.decision \in signed'

\* The first requests of a cycle, up to the vault's nonce.
LEMMA InTimeReads ==
    ASSUME TypeOK, CyclesInTime, NEW p \in Process,
           \/ readProtocols(p) \/ hold(p) \/ requestFails(p) \/ readNonce(p)
           \/ \E target \in Adapters : decide(p, target)
    PROVE  StepInTime(p)
  <1>. USE DEF Goes, viewVars, strategyView, nodeVars
  <1>0. InTime(p) /\ NoPlan \in Plan /\ RetryLimit >= 1 /\ RetryLimit \in Nat
    BY NaturalFacts DEF CyclesInTime, NoPlan, Plan
  <1>1. CASE readProtocols(p) \/ hold(p) \/ requestFails(p)
    BY <1>1 DEF readProtocols, hold, requestFails, StepInTime, InTime, TypeOK
  <1>2. ASSUME NEW target \in Adapters, decide(p, target) PROVE StepInTime(p)
    <2>1. /\ pc'[p] = "nonce" /\ plan'[p].seenActive = activeAdapterIndex
          /\ plan'[p].attempt = 1
      BY <1>2 DEF decide, TypeOK, NoPlan
    <2>2. UNCHANGED <<now, activeAdapterIndex, lastRebalanceTimestamp, signed, pool>>
      BY <1>2 DEF decide
    <2>. QED  BY <1>0, <2>1, <2>2 DEF StepInTime, InTime, StillSees
  <1>3. CASE readNonce(p)
    <2>1. /\ pc[p] = "nonce" /\ pc'[p] = "sign"
          /\ plan'[p].seenActive = plan[p].seenActive /\ plan'[p].attempt = plan[p].attempt
      BY <1>3 DEF readNonce, TypeOK, Plan
    <2>2. UNCHANGED <<now, activeAdapterIndex, lastRebalanceTimestamp, signed, pool>>
      BY <1>3 DEF readNonce
    <2>. QED  BY <1>0, <2>1, <2>2 DEF StepInTime, InTime, StillSees
  <1>. QED  BY <1>1, <1>2, <1>3

\* A signature dates a decision by a clock at most ClockSkew ahead.
LEMMA InTimeSign ==
    ASSUME TypeOK, CyclesInTime, NEW p \in Process, NEW ahead \in 0 .. ClockSkew,
           sign(p, ahead)
    PROVE  StepInTime(p)
  <1>. DEFINE c == IF plan[p].attempt = 1 THEN cycle[p] + 1 ELSE cycle[p]
              d == DecisionOf(p, now + ahead, c)
  <1>1. /\ pc[p] = "sign" /\ pc'[p] = "send" /\ cycle'[p] = c /\ signed' = signed \cup {d}
        /\ UNCHANGED <<now, activeAdapterIndex, lastRebalanceTimestamp, pool>>
    BY DEF sign, Goes, strategyView, nodeVars, TypeOK
  <1>2. /\ plan'[p].timestamp = now + ahead /\ plan'[p].attempt = plan[p].attempt
        /\ plan'[p].target = plan[p].target /\ plan'[p].nonce = plan[p].nonce
        /\ plan'[p].seenActive = plan[p].seenActive
    BY DEF sign, TypeOK, Plan
  <1>3. /\ InTime(p) /\ plan[p].attempt \in 1 .. RetryLimit
        /\ StillSees(p, now, Waited(plan[p].attempt))
    BY <1>1 DEF CyclesInTime, InTime
  <1>5. InTime(p)'
    <2>1. DecisionOf(p, plan[p].timestamp, cycle[p])' = d
      BY <1>1, <1>2 DEF DecisionOf
    <2>. QED  BY <1>1, <1>2, <1>3, <2>1 DEF InTime, StillSees
  <1>6. ASSUME NEW e, e = d PROVE DecisionInTime(e)'
    <2>1. e.seenActive = plan[p].seenActive /\ e.timestamp = now + ahead
      BY <1>6 DEF DecisionOf
    <2>2. /\ Waited(plan[p].attempt) <= Waited(RetryLimit)
          /\ Waited(plan[p].attempt) \in Nat
      BY <1>3, WaitedWithin
    <2>3. now + ahead <= lastRebalanceTimestamp + Waited(RetryLimit) + ClockSkew
          \/ plan[p].seenActive = activeAdapterIndex
      BY <1>3, <2>2, NaturalFacts DEF StillSees
    <2>. QED  BY <1>1, <2>1, <2>3, NaturalFacts DEF DecisionInTime
  <1>7. \A e \in signed' \ signed : DecisionInTime(e)'
    BY <1>1, <1>6
  <1>. QED  BY <1>1, <1>5, <1>7 DEF StepInTime

\* What is sent has been signed, and a wait begins now.
LEMMA InTimeSend ==
    ASSUME TypeOK, CyclesInTime, NEW p \in Process,
           send(p) \/ sendFails(p) \/ sendUnanswered(p) \/ sendTooLow(p)
    PROVE  StepInTime(p)
  <1>. USE DEF Goes, Returns, viewVars, strategyView, nodeVars
  <1>0. /\ InTime(p) /\ pc[p] = "send"
        /\ UNCHANGED <<now, activeAdapterIndex, lastRebalanceTimestamp, signed>>
    BY DEF CyclesInTime, send, Accepted, sendFails, sendUnanswered, sendTooLow
  <1>1. DecisionOf(p, plan[p].timestamp, cycle[p]) \in signed
    BY <1>0 DEF InTime
  <1>2. \A t \in pool' \ pool : t.decision \in signed'
    BY <1>0, <1>1 DEF send, Accepted, sendFails, sendUnanswered, sendTooLow, TransactionOf
  <1>3. CASE send(p)
    <2>1. pc'[p] = "wait" /\ since'[p] = now /\ plan' = plan
      BY <1>3 DEF send, TypeOK
    <2>. QED  BY <1>0, <1>2, <2>1, NaturalFacts DEF StepInTime, InTime, StillSees
  <1>4. CASE pc'[p] = "idle"
    BY <1>0, <1>2, <1>4 DEF StepInTime, InTime
  <1>5. CASE sendTooLow(p) /\ p \in Loop
    <2>1. pc'[p] = "tooLow" /\ plan' = plan
      BY <1>5 DEF sendTooLow, TypeOK
    <2>2. Waited(plan[p].attempt + 1) = Waited(plan[p].attempt) + ReceiptTimeout
          /\ Waited(plan[p].attempt) \in Nat
      BY <1>0, WaitedWithin DEF InTime
    <2>. QED  BY <1>0, <1>2, <2>1, <2>2, NaturalFacts DEF StepInTime, InTime, StillSees
  <1>. QED
    BY <1>3, <1>4, <1>5 DEF sendFails, sendUnanswered, sendTooLow, TypeOK

\* A receipt ends the wait, or leads to one more attempt.
LEMMA InTimeReceipt ==
    ASSUME TypeOK, CyclesInTime, NEW p \in Process,
           \/ confirmed(p) \/ receiptReverted(p) \/ noReceipt(p)
           \/ signAgain(p) \/ giveUp(p)
    PROVE  StepInTime(p)
  <1>. USE DEF Goes, Returns, viewVars, strategyView, nodeVars
  <1>0. /\ InTime(p) /\ plan[p] \in Plan
        /\ UNCHANGED <<now, activeAdapterIndex, lastRebalanceTimestamp, signed, pool>>
    BY DEF CyclesInTime, TypeOK, confirmed, receiptReverted, noReceipt, signAgain, giveUp
  <1>1. CASE pc'[p] = "idle"
    BY <1>0, <1>1 DEF StepInTime, InTime
  <1>2. CASE receiptReverted(p) /\ p \in Loop
    <2>1. pc[p] = "wait" /\ pc'[p] = "reverted" /\ plan' = plan
      BY <1>2 DEF receiptReverted, TypeOK
    <2>2. Waited(plan[p].attempt + 1) = Waited(plan[p].attempt) + ReceiptTimeout
          /\ Waited(plan[p].attempt) \in Nat
      BY <1>0, <2>1, WaitedWithin DEF InTime
    <2>. QED  BY <1>0, <2>1, <2>2, NaturalFacts DEF StepInTime, InTime, StillSees
  <1>3. CASE signAgain(p)
    <2>. DEFINE a == plan[p].attempt + 1
    <2>1. /\ pc[p] \in {"reverted", "tooLow"} /\ pc'[p] = "sign"
          /\ plan'[p].attempt = a /\ plan'[p].seenActive = plan[p].seenActive
      BY <1>0, <1>3 DEF signAgain, TypeOK, Plan
    <2>2. a \in 1 .. RetryLimit
      BY <1>0, <1>3, <2>1, NaturalFacts DEF signAgain, MaySignAgain, InTime
    <2>3. StillSees(p, now, Waited(a))
      BY <1>0, <2>1 DEF InTime
    <2>. HIDE DEF a
    <2>. QED  BY <1>0, <2>1, <2>2, <2>3 DEF StepInTime, InTime, StillSees
  <1>. QED
    BY <1>1, <1>2, <1>3 DEF confirmed, receiptReverted, noReceipt, giveUp, TypeOK

\* Every step of a process.
LEMMA InTimeProcess ==
    ASSUME TypeOK, CyclesInTime, NEW p \in Process, ProcessStep(p)
    PROVE  CyclesInTime'
  <1>. USE DEF Goes, Returns, viewVars, strategyView, nodeVars
  <1>1. StepInTime(p)
    BY InTimeReads, InTimeSign, InTimeSend, InTimeReceipt DEF ProcessStep
  <1>2. UNCHANGED <<now, strategyView, mined>> /\ signed \subseteq signed'
    BY DEF ProcessStep, readProtocols, decide, hold, requestFails, readNonce, sign, send, Accepted,
           sendFails, sendUnanswered, sendTooLow, confirmed, receiptReverted,
           noReceipt, signAgain, giveUp
  <1>3. ASSUME NEW q \in Process, q # p
        PROVE  InTime(q)'
    <2>1. /\ pc'[q] = pc[q] /\ plan'[q] = plan[q] /\ since'[q] = since[q]
          /\ cycle'[q] = cycle[q]
      BY <1>3 DEF ProcessStep, readProtocols, decide, hold, requestFails, readNonce, sign, send, Accepted,
                  sendFails, sendUnanswered, sendTooLow, confirmed, receiptReverted,
                  noReceipt, signAgain, giveUp, TypeOK
    <2>. QED  BY <1>2, <1>3, <2>1, OtherProcesses
  <1>4. \A d \in signed' : DecisionInTime(d)'
    <2>1. \A d \in signed : DecisionInTime(d)'
      BY <1>2 DEF CyclesInTime, DecisionInTime
    <2>. QED  BY <1>1, <2>1 DEF StepInTime
  <1>5. \A t \in pool' : t.decision \in signed'
    BY <1>1, <1>2 DEF CyclesInTime, StepInTime
  <1>. QED
    BY <1>1, <1>2, <1>3, <1>4, <1>5 DEF CyclesInTime, StepInTime, ActedOnWhatItSaw

\* A new active adapter starts a cooldown now, and no wait began later.
LEMMA InTimeSwitch ==
    ASSUME TypeOK, CyclesInTime, NEW to, Switch(to), UNCHANGED agentVars
    PROVE  /\ \A p \in Process : InTime(p)'
           /\ \A d \in signed' : DecisionInTime(d)'
  <1>0. now' = now /\ lastRebalanceTimestamp' = now /\ signed' = signed
    BY DEF Switch
  <1>1. ASSUME NEW p \in Process PROVE InTime(p)'
    <2>1. InTime(p) /\ since[p] \in Nat /\ now \in Nat /\ ReceiptTimeout \in Nat
      BY NaturalFacts DEF CyclesInTime
    <2>2. pc[p] \notin {"idle", "active"} =>
             Waited(plan[p].attempt) \in Nat /\ Waited(plan[p].attempt + 1) \in Nat
      BY <2>1, WaitedWithin DEF InTime
    <2>. QED  BY <1>0, <2>1, <2>2 DEF InTime, StillSees, DecisionOf, agentVars
  <1>2. ASSUME NEW d \in signed PROVE DecisionInTime(d)'
    BY <1>0, NaturalFacts DEF CyclesInTime, DecisionInTime
  <1>. QED  BY <1>0, <1>1, <1>2

\* A step that leaves the strategy, the clock and the processes alone.
LEMMA InTimeQuiet ==
    ASSUME CyclesInTime, UNCHANGED <<now, strategyView, signed, mined, agentVars>>,
           pool' \subseteq pool
    PROVE  CyclesInTime'
  BY DEF CyclesInTime, InTime, StillSees, DecisionOf, DecisionInTime, ActedOnWhatItSaw,
         strategyView, agentVars

\* A decision that can be executed has found what its cycle saw.
LEMMA ExecutedInTime ==
    ASSUME TypeOK, CyclesInTime, CooldownOutlastsCycle, NEW d \in signed, Execute(d)
    PROVE  d.seenActive = activeAdapterIndex
  <1>1. DecisionInTime(d)
    BY DEF CyclesInTime
  <1>2. /\ now <= d.timestamp + SignatureMaxAge
        /\ now >= lastRebalanceTimestamp + MinCooldown
        /\ MinCooldown > Waited(RetryLimit) + ClockSkew + SignatureMaxAge
    BY DEF Execute, Switch, CooldownOutlastsCycle, Waited
  <1>. QED  BY <1>1, <1>2, NaturalFacts DEF DecisionInTime

\* Every step of the chain and of time.
LEMMA InTimeChain ==
    ASSUME TypeOK, CyclesInTime, CooldownOutlastsCycle, ChainNext \/ OthersOnVault \/ tick
    PROVE  CyclesInTime'
  <1>. USE DEF viewVars, nodeVars
  <1>1. ASSUME NEW t \in pool, mineExecuted(t) PROVE CyclesInTime'
    <2>1. t.decision \in signed /\ Execute(t.decision)
      BY <1>1 DEF CyclesInTime, mineExecuted
    <2>2. t.decision.seenActive = activeAdapterIndex
      BY <2>1, ExecutedInTime
    <2>3. Switch(t.decision.targetAdapterIndex) /\ UNCHANGED agentVars /\ signed' = signed
      BY <1>1 DEF mineExecuted, Mined, Execute, Switch
    <2>4. ActedOnWhatItSaw'
      BY <1>1, <2>2 DEF mineExecuted, Mined, ActedOnWhatItSaw, CyclesInTime
    <2>5. \A u \in pool' : u.decision \in signed'
      BY <1>1, <2>3 DEF mineExecuted, Mined, CyclesInTime
    <2>. QED  BY <2>3, <2>4, <2>5, InTimeSwitch DEF CyclesInTime
  <1>2. ASSUME NEW t \in pool, mineReverted(t) PROVE CyclesInTime'
    <2>1. ActedOnWhatItSaw'
      BY <1>2 DEF mineReverted, Mined, ActedOnWhatItSaw, CyclesInTime
    <2>2. pool' \subseteq pool /\ UNCHANGED <<now, strategyView, signed, agentVars>>
      BY <1>2 DEF mineReverted, Mined
    <2>. QED
      BY <2>1, <2>2 DEF CyclesInTime, InTime, StillSees, DecisionOf, DecisionInTime,
                        strategyView, agentVars
  <1>3. ASSUME NEW t \in pool, drop(t) PROVE CyclesInTime'
    BY <1>3, InTimeQuiet DEF drop
  <1>4. CASE OthersOnVault
    <2>1. CASE NonceConsumed
      BY <1>4, <2>1, InTimeQuiet DEF OthersOnVault, NonceConsumed
    <2>2. ASSUME NEW to \in Adapters, Upkeep(to) PROVE CyclesInTime'
      <3>1. Switch(to) /\ UNCHANGED <<agentVars, nodeVars, signed>>
        BY <1>4, <2>2 DEF OthersOnVault, Upkeep, Switch
      <3>. QED  BY <3>1, InTimeSwitch DEF CyclesInTime, ActedOnWhatItSaw
    <2>. QED  BY <1>4, <2>1, <2>2 DEF OthersOnVault
  <1>5. CASE tick
    <2>1. /\ now' = now + 1 /\ UNCHANGED <<strategyView, signed, agentVars, nodeVars>>
          /\ \A p \in Process :
                pc[p] = "idle" \/ (pc[p] = "wait" /\ now < since[p] + ReceiptTimeout)
      BY <1>5 DEF tick, Tick
    <2>2. ASSUME NEW p \in Process PROVE InTime(p)'
      BY <2>1, NaturalFacts DEF CyclesInTime, InTime, StillSees, strategyView, agentVars
    <2>3. ASSUME NEW d \in signed PROVE DecisionInTime(d)'
      BY <2>1, NaturalFacts DEF CyclesInTime, DecisionInTime, strategyView
    <2>. QED  BY <2>1, <2>2, <2>3 DEF CyclesInTime, ActedOnWhatItSaw
  <1>. QED  BY <1>1, <1>2, <1>3, <1>4, <1>5 DEF ChainNext

\* Whatever the number of processes that share the key, no decision is executed
\* on a vault that another rebalance has moved since its cycle read the active
\* adapter: with the settings above, that rebalance's cooldown outlasts the
\* cycle's waits, its retries and the age of its last signature.
THEOREM CyclesActOnWhatTheySaw ==
    ASSUME CooldownOutlastsCycle
    PROVE  Spec => []ActedOnWhatItSaw
  <1>1. Init => CyclesInTime
    BY DEF Init, ViewInit, CyclesInTime, InTime, ActedOnWhatItSaw
  <1>2. TypeOK /\ CyclesInTime /\ [Next]_vars => CyclesInTime'
    <2>. SUFFICES ASSUME TypeOK, CyclesInTime, [Next]_vars PROVE CyclesInTime'
      OBVIOUS
    <2>1. CASE UNCHANGED vars
      BY <2>1, InTimeQuiet DEF vars, viewVars, nodeVars
    <2>. QED  BY <2>1, InTimeProcess, InTimeChain DEF Next
  <1>3. CyclesInTime => ActedOnWhatItSaw
    BY DEF CyclesInTime
  <1>. QED  BY <1>1, <1>2, <1>3, TypeCorrect, PTL DEF Spec

-----------------------------------------------------------------------------
(* One move for each cycle *)

\* The node's order: one transaction for each number of the account, those
\* below accountNonce mined, the others not.
NodeInOrder ==
    /\ \A t \in pool : t.account >= accountNonce
    /\ \A t, u \in pool : t.account = u.account => t = u
    /\ \A m \in mined : m.tx.account < accountNonce
    /\ \A m, n \in mined : m.tx.account = n.tx.account => m = n

\* The transactions of p's last cycle that may still be mined.
Sent(p) == {t \in pool : t.decision.by = p /\ t.decision.cycle = cycle[p]}

\* Nothing of a new cycle is signed yet.
Unsigned(p) ==
    pc[p] \in {"idle", "active", "nonce"} \/ (pc[p] = "sign" /\ plan[p].attempt = 1)

\* The cycle is about to send, or to sign again.
Clear(p) ==
    pc[p] \in {"send", "reverted", "tooLow"} \/ (pc[p] = "sign" /\ plan[p].attempt # 1)

AttemptCounted(p) ==
    pc[p] \notin {"idle", "active"} =>
        plan[p].attempt >= 1 /\ (pc[p] = "nonce" => plan[p].attempt = 1)

OneInFlight(p) ==
    /\ AttemptCounted(p)
    /\ \A t \in pool : t.decision.by = p => t.decision.cycle <= cycle[p]
    /\ \A m \in mined : m.tx.decision.by = p => m.tx.decision.cycle <= cycle[p]
    /\ Clear(p) => Sent(p) = {} /\ Landed(p) = {}
    /\ pc[p] = "wait" => /\ \A t \in Sent(p) : t = TransactionOf(p)
                         /\ \A m \in Landed(p) : m.tx = TransactionOf(p)
    /\ Sent(p) # {} => Landed(p) = {}
    /\ \A t, u \in Sent(p) : t = u
    /\ \A m, n \in Landed(p) : m = n
    /\ Unsigned(p) /\ reported[p] => Landed(p) # {}

MovesOnce == NodeInOrder /\ \A p \in Process : OneInFlight(p)

\* Sending keeps the node's order.
LEMMA AcceptedInOrder ==
    ASSUME NodeInOrder, NEW p \in Process, Accepted(p)
    PROVE  NodeInOrder'
  <1>1. TransactionOf(p).account = plan[p].account
    BY DEF TransactionOf
  <1>. QED  BY <1>1 DEF Accepted, NodeInOrder, nodeVars

\* What p sends concerns no other process.
LEMMA OthersInFlight ==
    ASSUME NEW p \in Process, NEW q \in Process, q # p, OneInFlight(q),
           mined' = mined,
           pool' \subseteq pool \cup {TransactionOf(p)},
           pc'[q] = pc[q], plan'[q] = plan[q], cycle'[q] = cycle[q], reported'[q] = reported[q]
    PROVE  OneInFlight(q)'
  <1>1. TransactionOf(p).decision.by = p
    BY DEF TransactionOf, DecisionOf
  <1>2. Sent(q)' \subseteq Sent(q) /\ Landed(q)' = Landed(q)
    BY <1>1 DEF Sent, Landed
  <1>3. TransactionOf(q)' = TransactionOf(q)
    BY DEF TransactionOf, DecisionOf
  <1>. QED  BY <1>1, <1>2, <1>3 DEF OneInFlight, Clear, Unsigned, AttemptCounted

\* A step of p that sends nothing and stays in its cycle, by where it leads.
LEMMA InFlightSame ==
    ASSUME NEW p \in Process, OneInFlight(p), UNCHANGED <<pool, mined>>,
           cycle'[p] = cycle[p], AttemptCounted(p)',
           Clear(p)' => Sent(p) = {} /\ Landed(p) = {},
           pc'[p] = "wait" => FALSE,
           Unsigned(p)' /\ reported'[p] => Landed(p) # {}
    PROVE  OneInFlight(p)'
  <1>1. Sent(p)' = Sent(p) /\ Landed(p)' = Landed(p)
    BY DEF Sent, Landed
  <1>. QED  BY <1>1 DEF OneInFlight

\* The steps of p that send nothing.
LEMMA InFlightQuiet ==
    ASSUME TypeOK, NodeInOrder, NEW p \in Process, OneInFlight(p),
           \/ readProtocols(p) \/ hold(p) \/ requestFails(p) \/ readNonce(p)
           \/ \E target \in Adapters : decide(p, target)
           \/ sendFails(p) \/ sendTooLow(p)
           \/ confirmed(p) \/ receiptReverted(p) \/ noReceipt(p)
           \/ signAgain(p) \/ giveUp(p)
    PROVE  OneInFlight(p)'
  <1>. USE DEF Goes, Returns, nodeVars, viewVars
  <1>1. ASSUME NEW target \in Adapters, decide(p, target) PROVE OneInFlight(p)'
    <2>1. /\ pc[p] = "active" /\ pc'[p] = "nonce" /\ plan'[p].attempt = 1
          /\ UNCHANGED <<pool, mined, cycle, reported>>
      BY <1>1 DEF decide, TypeOK, NoPlan
    <2>. QED  BY <2>1, InFlightSame DEF OneInFlight, Clear, Unsigned, AttemptCounted
  <1>2. CASE readProtocols(p) \/ hold(p) \/ requestFails(p)
    <2>1. /\ pc[p] \in {"idle", "active", "nonce"} /\ pc'[p] \in {"idle", "active"}
          /\ UNCHANGED <<pool, mined, cycle, reported>>
      BY <1>2 DEF readProtocols, hold, requestFails, TypeOK
    <2>. QED  BY <2>1, InFlightSame DEF OneInFlight, Clear, Unsigned, AttemptCounted
  <1>3. ASSUME pc'[p] = "idle", reported'[p] = FALSE, UNCHANGED <<pool, mined, cycle>>
        PROVE  OneInFlight(p)'
    BY <1>3, InFlightSame DEF Clear, AttemptCounted
  <1>4. CASE sendFails(p) \/ noReceipt(p) \/ giveUp(p)
    BY <1>3, <1>4 DEF sendFails, noReceipt, giveUp, TypeOK
  <1>5. CASE sendTooLow(p)
    <2>1. CASE p \in Loop
      <3>1. pc[p] = "send" /\ pc'[p] = "tooLow" /\ UNCHANGED <<pool, mined, plan, cycle, reported>>
        BY <1>5, <2>1 DEF sendTooLow, TypeOK
      <3>. QED  BY <3>1, InFlightSame DEF OneInFlight, Clear, Unsigned, AttemptCounted
    <2>2. CASE p \notin Loop
      BY <1>3, <1>5, <2>2 DEF sendTooLow, TypeOK
    <2>. QED  BY <2>1, <2>2
  <1>6. CASE confirmed(p)
    <2>1. PICK m \in mined : m.tx = TransactionOf(p) /\ m.ok
      BY <1>6 DEF confirmed
    <2>2. m \in Landed(p)
      BY <2>1 DEF Landed, TransactionOf, DecisionOf
    <2>3. pc'[p] = "idle" /\ UNCHANGED <<pool, mined, cycle>>
      BY <1>6 DEF confirmed, TypeOK
    <2>. QED  BY <2>2, <2>3, InFlightSame DEF Clear, AttemptCounted
  <1>7. CASE receiptReverted(p)
    <2>1. PICK m \in mined : m.tx = TransactionOf(p) /\ ~m.ok
      BY <1>7 DEF receiptReverted
    <2>2. CASE p \in Loop
      <3>1. /\ pc[p] = "wait" /\ pc'[p] = "reverted" /\ plan' = plan
            /\ UNCHANGED <<pool, mined, cycle, reported>>
        BY <1>7, <2>2 DEF receiptReverted, TypeOK
      <3>2. Sent(p) = {}
        <4>1. ASSUME NEW t \in Sent(p) PROVE FALSE
          <5>1. t = m.tx /\ t \in pool
            BY <2>1, <3>1, <4>1 DEF OneInFlight, Sent
          <5>2. t.account \in Nat /\ accountNonce \in Nat
            BY <5>1 DEF TypeOK, Transaction
          <5>. QED  BY <5>1, <5>2 DEF NodeInOrder
        <4>. QED  BY <4>1
      <3>3. Landed(p) = {}
        <4>1. ASSUME NEW n \in Landed(p) PROVE FALSE
          <5>1. n.tx = m.tx /\ n \in mined /\ n.ok
            BY <2>1, <3>1, <4>1 DEF OneInFlight, Landed
          <5>. QED  BY <2>1, <5>1 DEF NodeInOrder
        <4>. QED  BY <4>1
      <3>. QED  BY <3>1, <3>2, <3>3, InFlightSame DEF Unsigned, OneInFlight, AttemptCounted
    <2>3. CASE p \notin Loop
      BY <1>3, <1>7, <2>3 DEF receiptReverted, TypeOK
    <2>. QED  BY <2>2, <2>3
  <1>8. CASE readNonce(p)
    <2>1. /\ pc[p] = "nonce" /\ pc'[p] = "sign" /\ plan'[p].attempt = plan[p].attempt
          /\ UNCHANGED <<pool, mined, cycle, reported>>
      BY <1>8 DEF readNonce, TypeOK, Plan
    <2>. QED  BY <2>1, InFlightSame DEF OneInFlight, Clear, Unsigned, AttemptCounted
  <1>9. CASE signAgain(p)
    <2>1. /\ pc[p] \in {"reverted", "tooLow"} /\ pc'[p] = "sign"
          /\ plan'[p].attempt = plan[p].attempt + 1 /\ plan[p].attempt \in Nat
          /\ UNCHANGED <<pool, mined, cycle, reported>>
      BY <1>9 DEF signAgain, TypeOK, Plan
    <2>. QED  BY <2>1, InFlightSame DEF OneInFlight, Clear, Unsigned, AttemptCounted
  <1>. QED  BY <1>1, <1>2, <1>4, <1>5, <1>6, <1>7, <1>8, <1>9

\* A signature begins a cycle, or one more attempt of it.
LEMMA InFlightSign ==
    ASSUME TypeOK, NEW p \in Process, OneInFlight(p), NEW ahead \in 0 .. ClockSkew,
           sign(p, ahead)
    PROVE  OneInFlight(p)'
  <1>1. /\ pc[p] = "sign" /\ pc'[p] = "send" /\ plan'[p].attempt = plan[p].attempt
        /\ cycle'[p] = IF plan[p].attempt = 1 THEN cycle[p] + 1 ELSE cycle[p]
        /\ UNCHANGED <<pool, mined>>
    BY DEF sign, Goes, nodeVars, TypeOK, Plan
  <1>2. cycle[p] \in Nat
    BY DEF TypeOK
  <1>3. AttemptCounted(p)'
    BY <1>1 DEF OneInFlight, AttemptCounted
  <1>4. CASE plan[p].attempt = 1
    <2>0. cycle'[p] = cycle[p] + 1
      BY <1>1, <1>4
    <2>1. ASSUME NEW t \in pool, t.decision.by = p
          PROVE  t.decision.cycle <= cycle'[p] /\ t.decision.cycle # cycle'[p]
      <3>1. t.decision.cycle \in Nat /\ t.decision.cycle <= cycle[p]
        BY <2>1 DEF OneInFlight, TypeOK, Transaction, Decision
      <3>. QED  BY <1>2, <2>0, <3>1
    <2>2. ASSUME NEW m \in mined, m.tx.decision.by = p
          PROVE  m.tx.decision.cycle <= cycle'[p] /\ m.tx.decision.cycle # cycle'[p]
      <3>1. m.tx.decision.cycle \in Nat /\ m.tx.decision.cycle <= cycle[p]
        BY <2>2 DEF OneInFlight, TypeOK, Transaction, Decision
      <3>. QED  BY <1>2, <2>0, <3>1
    <2>3. Sent(p)' = {} /\ Landed(p)' = {}
      BY <1>1, <2>1, <2>2 DEF Sent, Landed
    <2>. QED  BY <1>1, <1>3, <2>1, <2>2, <2>3 DEF OneInFlight, Unsigned
  <1>5. CASE plan[p].attempt # 1
    <2>1. cycle'[p] = cycle[p] /\ Sent(p) = {} /\ Landed(p) = {}
      BY <1>1, <1>5 DEF OneInFlight, Clear
    <2>. QED  BY <1>1, <1>3, <2>1, InFlightSame DEF Unsigned
  <1>. QED  BY <1>4, <1>5

\* What is sent is alone, whether the node's answer arrives or not.
LEMMA InFlightSend ==
    ASSUME TypeOK, NEW p \in Process, OneInFlight(p), send(p) \/ sendUnanswered(p)
    PROVE  OneInFlight(p)'
  <1>1. /\ pc[p] = "send" /\ UNCHANGED <<cycle, mined>>
        /\ pool' \subseteq pool \cup {TransactionOf(p)}
    BY DEF send, sendUnanswered, Goes, Returns, Accepted
  <1>2. Sent(p) = {} /\ Landed(p) = {} /\ plan[p].attempt >= 1
    BY <1>1 DEF OneInFlight, Clear, AttemptCounted
  <1>3. Sent(p)' \subseteq {TransactionOf(p)} /\ Landed(p)' = {}
    BY <1>1, <1>2 DEF Sent, Landed
  <1>4. /\ TransactionOf(p).decision.cycle = cycle[p]
        /\ cycle[p] \in Nat
    BY DEF TransactionOf, DecisionOf, TypeOK
  <1>5. /\ \A t \in pool' : t.decision.by = p => t.decision.cycle <= cycle'[p]
        /\ \A m \in mined' : m.tx.decision.by = p => m.tx.decision.cycle <= cycle'[p]
    BY <1>1, <1>4 DEF OneInFlight
  <1>6. CASE send(p)
    <2>1. pc'[p] = "wait" /\ plan' = plan
      BY <1>6 DEF send, Goes, TypeOK
    <2>2. TransactionOf(p)' = TransactionOf(p)
      BY <1>1, <2>1 DEF TransactionOf, DecisionOf
    <2>. QED
      BY <1>2, <1>3, <1>5, <2>1, <2>2 DEF OneInFlight, Clear, Unsigned, AttemptCounted
  <1>7. CASE sendUnanswered(p)
    <2>1. pc'[p] = "idle" /\ reported'[p] = FALSE
      BY <1>7 DEF sendUnanswered, Returns, TypeOK
    <2>. QED  BY <1>3, <1>5, <2>1 DEF OneInFlight, Clear, AttemptCounted
  <1>. QED  BY <1>6, <1>7

\* A step of one process, for all of them.
LEMMA MovesOnceProcess ==
    ASSUME TypeOK, MovesOnce, NEW p \in Process, ProcessStep(p)
    PROVE  MovesOnce'
  <1>. USE DEF Goes, Returns, nodeVars
  <1>1. NodeInOrder /\ \A q \in Process : OneInFlight(q)
    BY DEF MovesOnce
  <1>2. OneInFlight(p)'
    BY <1>1, InFlightQuiet, InFlightSign, InFlightSend DEF ProcessStep
  <1>3. ASSUME NEW q \in Process, q # p
        PROVE  /\ mined' = mined /\ pool' \subseteq pool \cup {TransactionOf(p)}
               /\ pc'[q] = pc[q] /\ plan'[q] = plan[q]
               /\ cycle'[q] = cycle[q] /\ reported'[q] = reported[q]
    <2>1. CASE readProtocols(p) \/ hold(p) \/ requestFails(p) \/ readNonce(p)
               \/ \E target \in Adapters : decide(p, target)
      BY <1>3, <2>1 DEF readProtocols, hold, requestFails, readNonce, decide, TypeOK
    <2>2. CASE \E ahead \in 0 .. ClockSkew : sign(p, ahead)
      BY <1>3, <2>2 DEF sign, TypeOK
    <2>3. CASE send(p) \/ sendFails(p) \/ sendUnanswered(p) \/ sendTooLow(p)
      BY <1>3, <2>3 DEF send, sendFails, sendUnanswered, sendTooLow, Accepted, TypeOK
    <2>4. CASE confirmed(p) \/ receiptReverted(p) \/ noReceipt(p)
               \/ signAgain(p) \/ giveUp(p)
      BY <1>3, <2>4 DEF confirmed, receiptReverted, noReceipt, signAgain, giveUp, TypeOK
    <2>. QED  BY <2>1, <2>2, <2>3, <2>4 DEF ProcessStep
  <1>4. \A q \in Process : OneInFlight(q)'
    BY <1>1, <1>2, <1>3, OthersInFlight
  <1>5. NodeInOrder'
    <2>1. CASE send(p) \/ sendUnanswered(p)
      BY <1>1, <2>1, AcceptedInOrder DEF send, sendUnanswered
    <2>2. CASE UNCHANGED nodeVars
      BY <1>1, <2>2 DEF NodeInOrder
    <2>. QED
      BY <2>1, <2>2 DEF ProcessStep, readProtocols, decide, hold, requestFails, readNonce, sign, sendFails,
         sendTooLow, confirmed, receiptReverted, noReceipt, signAgain, giveUp
  <1>. QED  BY <1>4, <1>5 DEF MovesOnce

\* The key's next transaction is mined, whatever comes of it.
LEMMA MinedInOrder ==
    ASSUME TypeOK, NodeInOrder, NEW t \in pool, NEW ok \in BOOLEAN, Mined(t, ok)
    PROVE  NodeInOrder'
  <1>1. accountNonce \in Nat /\ \A u \in pool : u.account \in Nat
    BY DEF TypeOK, Transaction
  <1>2. \A m \in mined : m.tx.account \in Nat
    BY DEF TypeOK, Transaction
  <1>. DEFINE new == [tx |-> t, ok |-> ok, foundActive |-> activeAdapterIndex]
  <1>3. /\ t.account = accountNonce /\ accountNonce' = accountNonce + 1
        /\ pool' = pool \ {t} /\ mined' = mined \cup {new} /\ new.tx = t
    BY DEF Mined
  <1>4. \A u \in pool' : u.account >= accountNonce'
    BY <1>1, <1>3 DEF NodeInOrder
  <1>5. \A m \in mined' : m.tx.account < accountNonce'
    BY <1>1, <1>2, <1>3 DEF NodeInOrder
  <1>6. \A m \in mined : m.tx.account # new.tx.account
    BY <1>1, <1>2, <1>3 DEF NodeInOrder
  <1>7. \A m, n \in mined' : m.tx.account = n.tx.account => m = n
    BY <1>3, <1>6 DEF NodeInOrder
  <1>. QED  BY <1>3, <1>4, <1>5, <1>7 DEF NodeInOrder

LEMMA MinedInFlight ==
    ASSUME TypeOK, NEW p \in Process, OneInFlight(p), NEW t \in pool, NEW ok \in BOOLEAN,
           Mined(t, ok)
    PROVE  OneInFlight(p)'
  <1>. DEFINE new == [tx |-> t, ok |-> ok, foundActive |-> activeAdapterIndex]
  <1>1. /\ pool' = pool \ {t} /\ mined' = mined \cup {new}
        /\ UNCHANGED <<pc, plan, cycle, reported>>
        /\ new.tx = t /\ new.ok = ok
    BY DEF Mined, agentVars
  <1>2. TransactionOf(p)' = TransactionOf(p) /\ AttemptCounted(p)'
    BY <1>1 DEF TransactionOf, DecisionOf, AttemptCounted, OneInFlight
  <1>3. /\ \A u \in pool' : u.decision.by = p => u.decision.cycle <= cycle'[p]
        /\ \A m \in mined' : m.tx.decision.by = p => m.tx.decision.cycle <= cycle'[p]
    BY <1>1 DEF OneInFlight
  <1>4. Sent(p)' = Sent(p) \ {t}
    BY <1>1 DEF Sent
  <1>5. CASE t \in Sent(p)
    <2>1. Sent(p)' = {} /\ Landed(p) = {} /\ ~Clear(p)
      BY <1>4, <1>5 DEF OneInFlight
    <2>2. Landed(p)' \subseteq {new}
      BY <1>1, <2>1 DEF Landed
    <2>3. ~Clear(p)' /\ (Unsigned(p)' <=> Unsigned(p))
      BY <1>1, <2>1 DEF Clear, Unsigned
    <2>4. Unsigned(p)' /\ reported'[p] => Landed(p)' # {}
      BY <1>1, <2>1, <2>3 DEF OneInFlight
    <2>5. pc'[p] = "wait" => \A m \in Landed(p)' : m.tx = TransactionOf(p)'
      BY <1>1, <1>2, <1>5, <2>2 DEF OneInFlight
    <2>. QED  BY <1>2, <1>3, <2>1, <2>2, <2>3, <2>4, <2>5 DEF OneInFlight
  <1>6. CASE t \notin Sent(p)
    <2>1. Sent(p)' = Sent(p) /\ Landed(p)' = Landed(p)
      BY <1>1, <1>4, <1>6 DEF Sent, Landed
    <2>2. (Clear(p)' <=> Clear(p)) /\ (Unsigned(p)' <=> Unsigned(p))
      BY <1>1 DEF Clear, Unsigned
    <2>. QED  BY <1>1, <1>2, <1>3, <2>1, <2>2 DEF OneInFlight
  <1>. QED  BY <1>5, <1>6

\* A transaction is forgotten, or none is.
LEMMA MovesOnceFewer ==
    ASSUME MovesOnce, pool' \subseteq pool, UNCHANGED <<accountNonce, mined, agentVars>>
    PROVE  MovesOnce'
  <1>1. NodeInOrder'
    BY DEF MovesOnce, NodeInOrder
  <1>2. ASSUME NEW p \in Process PROVE OneInFlight(p)'
    <2>1. /\ Sent(p)' \subseteq Sent(p) /\ Landed(p)' = Landed(p)
          /\ TransactionOf(p)' = TransactionOf(p)
      BY DEF Sent, Landed, TransactionOf, DecisionOf, agentVars
    <2>2. /\ (Clear(p)' <=> Clear(p)) /\ (Unsigned(p)' <=> Unsigned(p))
          /\ (AttemptCounted(p)' <=> AttemptCounted(p))
      BY DEF Clear, Unsigned, AttemptCounted, agentVars
    <2>. QED  BY <2>1, <2>2 DEF MovesOnce, OneInFlight, agentVars
  <1>. QED  BY <1>1, <1>2 DEF MovesOnce

\* One cycle, whatever it signs again and whichever answers of the node are
\* lost, moves the vault at most once, and one that returns True did: the
\* transaction of an attempt is mined, or another one has taken its number,
\* before the next attempt is signed.
THEOREM CyclesMoveOnce == Spec => []CycleMovesOnce
  <1>1. Init => MovesOnce
    BY DEF Init, MovesOnce, NodeInOrder, OneInFlight, AttemptCounted, Sent, Landed, Clear
  <1>2. TypeOK /\ MovesOnce /\ [Next]_vars => MovesOnce'
    <2>. SUFFICES ASSUME TypeOK, MovesOnce, [Next]_vars PROVE MovesOnce'
      OBVIOUS
    <2>1. ASSUME NEW t \in pool, mineExecuted(t) \/ mineReverted(t) PROVE MovesOnce'
      <3>1. PICK ok \in BOOLEAN : Mined(t, ok)
        BY <2>1 DEF mineExecuted, mineReverted
      <3>. QED  BY <3>1, MinedInOrder, MinedInFlight DEF MovesOnce
    <2>2. ASSUME NEW t \in pool, drop(t) PROVE MovesOnce'
      BY <2>2, MovesOnceFewer DEF drop
    <2>3. CASE OthersOnVault \/ tick \/ UNCHANGED vars
      BY <2>3, MovesOnceFewer DEF OthersOnVault, tick, vars, nodeVars
    <2>. QED  BY <2>1, <2>2, <2>3, MovesOnceProcess DEF Next, ChainNext
  <1>3. MovesOnce => CycleMovesOnce
    BY DEF MovesOnce, OneInFlight, CycleMovesOnce, Unsigned
  <1>. QED  BY <1>1, <1>2, <1>3, TypeCorrect, PTL DEF Spec

-----------------------------------------------------------------------------
(* Progress *)

\* A process counts its attempts from one and within the limit, and sends what is
\* signed.
InOrder(p) ==
    /\ pc[p] \in {"idle", "active"} => plan[p].attempt = 0
    /\ pc[p] \notin {"idle", "active"} => plan[p].attempt \in 1 .. RetryLimit
    /\ pc[p] = "send" => DecisionOf(p, plan[p].timestamp, cycle[p]) \in signed

CyclesInOrder ==
    /\ \A p \in Process : InOrder(p)
    /\ \A t \in pool : t.decision \in signed

\* One step of a process.
StepInOrder(p) ==
    /\ InOrder(p)'
    /\ \A t \in pool' \ pool : t.decision \in signed'
    /\ pc[p] # "idle" => RequestsLeft(p)' \in 0 .. RequestsLeft(p) - 1

\* What is left of a cycle, by its attempt and its place in it.
LEMMA RequestsCounted ==
    ASSUME TypeOK, CyclesInOrder, NEW p \in Process
    PROVE  /\ RetryLimit \in Nat \ {0} /\ plan[p].attempt \in 0 .. RetryLimit
           /\ RequestsLeft(p) \in Nat
           /\ \A k \in Nat : k = RetryLimit - plan[p].attempt =>
                  /\ pc[p] # "idle" => RequestsLeft(p) = 4 * k + Place[pc[p]]
                  /\ pc[p] = "active" => k = RetryLimit
                  /\ pc[p] = "idle" => RequestsLeft(p) = 0
  <1>1. RetryLimit \in Nat \ {0}
    BY AgentCycleAssumption
  <1>2. plan[p].attempt \in 0 .. RetryLimit /\ (pc[p] = "active" => plan[p].attempt = 0)
    BY <1>1 DEF CyclesInOrder, InOrder
  <1>3. pc[p] \in {"idle", "active", "nonce", "sign", "send", "wait", "reverted", "tooLow"}
    BY DEF TypeOK
  <1>4. pc[p] # "idle" => Place[pc[p]] \in Nat
    BY <1>3 DEF Place
  <1>. QED  BY <1>1, <1>2, <1>4 DEF RequestsLeft

\* A step that leaves less of the same attempt, or ends the cycle.
LEMMA LeavesFewer ==
    ASSUME TypeOK, CyclesInOrder, NEW p \in Process, pc[p] # "idle",
           \/ pc'[p] = "idle"
           \/ /\ pc'[p] # "idle" /\ Place[pc'[p]] \in 1 .. Place[pc[p]] - 1
              /\ plan'[p].attempt = plan[p].attempt
           \/ /\ pc[p] = "active" /\ pc'[p] = "nonce" /\ plan'[p].attempt = 1
           \/ /\ pc[p] \in {"reverted", "tooLow"} /\ pc'[p] = "sign"
              /\ plan'[p].attempt = plan[p].attempt + 1 /\ plan[p].attempt < RetryLimit
    PROVE  RequestsLeft(p)' \in 0 .. RequestsLeft(p) - 1
  <1>. DEFINE k == RetryLimit - plan[p].attempt
  <1>0. /\ RetryLimit \in Nat \ {0} /\ k \in Nat /\ plan[p].attempt \in Nat
        /\ RequestsLeft(p) = 4 * k + Place[pc[p]]
        /\ pc[p] = "active" => k = RetryLimit
    BY RequestsCounted
  <1>1. Place[pc[p]] \in Nat \ {0}
    BY DEF Place, TypeOK
  <1>2. CASE pc'[p] = "idle"
    <2>1. RequestsLeft(p)' = 0
      BY <1>2 DEF RequestsLeft
    <2>. QED  BY <1>0, <1>1, <2>1
  <1>3. ASSUME pc'[p] # "idle"
        PROVE  RequestsLeft(p)' = 4 * (RetryLimit - plan'[p].attempt) + Place[pc'[p]]
    BY <1>3 DEF RequestsLeft
  <1>4. CASE /\ pc'[p] # "idle" /\ Place[pc'[p]] \in 1 .. Place[pc[p]] - 1
             /\ plan'[p].attempt = plan[p].attempt
    <2>. HIDE DEF k
    <2>. QED  BY <1>0, <1>1, <1>3, <1>4 DEF k
  <1>5. CASE pc[p] = "active" /\ pc'[p] = "nonce" /\ plan'[p].attempt = 1
    <2>1. Place[pc[p]] = 2 /\ Place[pc'[p]] = 5
      BY <1>5 DEF Place
    <2>. QED  BY <1>0, <1>3, <1>5, <2>1
  <1>6. CASE /\ pc[p] \in {"reverted", "tooLow"} /\ pc'[p] = "sign"
             /\ plan'[p].attempt = plan[p].attempt + 1 /\ plan[p].attempt < RetryLimit
    <2>1. Place[pc[p]] = 1 /\ Place[pc'[p]] = 4
      BY <1>6 DEF Place
    <2>. QED  BY <1>0, <1>3, <1>6, <2>1
  <1>. QED  BY <1>2, <1>4, <1>5, <1>6

\* Whatever a process does next leaves its cycle in order, and less of it.
LEMMA OrderProcess ==
    ASSUME TypeOK, CyclesInOrder, NEW p \in Process, ProcessStep(p)
    PROVE  StepInOrder(p)
  <1>. USE DEF Goes, Returns, viewVars, strategyView, nodeVars
  <1>0. /\ InOrder(p) /\ RetryLimit \in Nat /\ RetryLimit >= 1
        /\ plan[p] \in Plan /\ plan[p].attempt \in Nat /\ NoPlan.attempt = 0
    BY AgentCycleAssumption DEF TypeOK, CyclesInOrder, NoPlan, Plan
  <1>1. ASSUME pc'[p] = "idle", plan'[p].attempt = 0,
               \A t \in pool' \ pool : t.decision \in signed'
        PROVE  StepInOrder(p)
    BY <1>1, LeavesFewer DEF StepInOrder, InOrder
  <1>2. CASE readProtocols(p)
    <2>1. pc[p] = "idle" /\ pc'[p] = "active" /\ UNCHANGED <<plan, pool>>
      BY <1>2 DEF readProtocols, TypeOK
    <2>. QED  BY <1>0, <2>1 DEF StepInOrder, InOrder
  <1>3. ASSUME NEW target \in Adapters, decide(p, target) PROVE StepInOrder(p)
    <2>1. /\ pc[p] = "active" /\ pc'[p] = "nonce" /\ UNCHANGED pool
          /\ plan'[p].attempt = 1
      BY <1>3 DEF decide, TypeOK, NoPlan
    <2>. QED  BY <1>0, <2>1, LeavesFewer DEF StepInOrder, InOrder
  <1>4. CASE hold(p)
    <2>1. pc[p] = "active" /\ pc'[p] = "idle" /\ UNCHANGED <<plan, pool>>
      BY <1>4 DEF hold, TypeOK
    <2>. QED  BY <1>0, <1>1, <2>1 DEF InOrder
  <1>5. CASE requestFails(p)
    <2>1. pc'[p] = "idle" /\ plan'[p].attempt = 0 /\ UNCHANGED pool
      BY <1>0, <1>5 DEF requestFails, TypeOK
    <2>. QED  BY <1>1, <2>1
  <1>6. CASE readNonce(p)
    <2>1. /\ pc[p] = "nonce" /\ pc'[p] = "sign" /\ UNCHANGED pool
          /\ plan'[p].attempt = plan[p].attempt
      BY <1>6 DEF readNonce, TypeOK, Plan
    <2>2. Place[pc[p]] = 5 /\ Place[pc'[p]] = 4
      BY <2>1 DEF Place
    <2>. QED  BY <1>0, <2>1, <2>2, LeavesFewer DEF StepInOrder, InOrder
  <1>7. ASSUME NEW ahead \in 0 .. ClockSkew, sign(p, ahead) PROVE StepInOrder(p)
    <2>1. /\ pc[p] = "sign" /\ pc'[p] = "send" /\ UNCHANGED pool
          /\ plan'[p].attempt = plan[p].attempt
      BY <1>7 DEF sign, TypeOK, Plan
    <2>2. DecisionOf(p, plan[p].timestamp, cycle[p])' \in signed'
      <3>1. /\ cycle'[p] = IF plan[p].attempt = 1 THEN cycle[p] + 1 ELSE cycle[p]
            /\ plan'[p] = [plan[p] EXCEPT !.timestamp = now + ahead, !.account = accountNonce]
            /\ signed' = signed \cup {DecisionOf(p, now + ahead, cycle'[p])}
        BY <1>7 DEF sign, TypeOK
      <3>2. /\ plan'[p].timestamp = now + ahead /\ plan'[p].target = plan[p].target
            /\ plan'[p].nonce = plan[p].nonce /\ plan'[p].seenActive = plan[p].seenActive
        BY <1>0, <3>1 DEF Plan
      <3>. QED  BY <3>1, <3>2 DEF DecisionOf
    <2>3. Place[pc[p]] = 4 /\ Place[pc'[p]] = 3
      BY <2>1 DEF Place
    <2>. QED  BY <1>0, <2>1, <2>2, <2>3, LeavesFewer DEF StepInOrder, InOrder
  <1>8. ASSUME pc[p] = "send", Accepted(p) PROVE \A t \in pool' \ pool : t.decision \in signed'
    BY <1>0, <1>8 DEF Accepted, TransactionOf, InOrder
  <1>9. CASE send(p)
    <2>1. pc[p] = "send" /\ pc'[p] = "wait" /\ UNCHANGED plan
      BY <1>9 DEF send, TypeOK
    <2>2. Place[pc[p]] = 3 /\ Place[pc'[p]] = 2
      BY <2>1 DEF Place
    <2>3. \A t \in pool' \ pool : t.decision \in signed'
      BY <1>8, <1>9 DEF send
    <2>. QED  BY <1>0, <2>1, <2>2, <2>3, LeavesFewer DEF StepInOrder, InOrder
  <1>10. CASE sendFails(p) \/ sendUnanswered(p)
    <2>1. pc'[p] = "idle" /\ plan'[p].attempt = 0
      BY <1>0, <1>10 DEF sendFails, sendUnanswered, TypeOK
    <2>2. \A t \in pool' \ pool : t.decision \in signed'
      BY <1>8, <1>10 DEF sendFails, sendUnanswered
    <2>. QED  BY <1>1, <2>1, <2>2
  <1>11. CASE confirmed(p) \/ noReceipt(p) \/ giveUp(p)
    <2>1. pc'[p] = "idle" /\ plan'[p].attempt = 0 /\ UNCHANGED pool
      BY <1>0, <1>11 DEF confirmed, noReceipt, giveUp, TypeOK
    <2>. QED  BY <1>1, <2>1
  <1>12. CASE sendTooLow(p) \/ receiptReverted(p)
    <2>1. CASE p \in Loop
      <3>1. /\ \/ pc[p] = "send" /\ pc'[p] = "tooLow"
               \/ pc[p] = "wait" /\ pc'[p] = "reverted"
            /\ UNCHANGED <<plan, pool>>
        BY <1>12, <2>1 DEF sendTooLow, receiptReverted, TypeOK
      <3>2. Place[pc[p]] \in {2, 3} /\ Place[pc'[p]] = 1
        BY <3>1 DEF Place
      <3>. QED  BY <1>0, <3>1, <3>2, LeavesFewer DEF StepInOrder, InOrder
    <2>2. CASE p \notin Loop
      <3>1. pc'[p] = "idle" /\ plan'[p].attempt = 0 /\ UNCHANGED pool
        BY <1>0, <1>12, <2>2 DEF sendTooLow, receiptReverted, TypeOK
      <3>. QED  BY <1>1, <3>1
    <2>. QED  BY <2>1, <2>2
  <1>13. CASE signAgain(p)
    <2>1. /\ pc[p] \in {"reverted", "tooLow"} /\ pc'[p] = "sign" /\ UNCHANGED pool
          /\ plan[p].attempt < RetryLimit
          /\ plan'[p] = [plan[p] EXCEPT !.nonce = rebalanceNonce, !.attempt = @ + 1]
      BY <1>13 DEF signAgain, MaySignAgain, TypeOK
    <2>2. plan'[p].attempt = plan[p].attempt + 1
      BY <1>0, <2>1 DEF Plan
    <2>3. InOrder(p)'
      BY <1>0, <2>1, <2>2 DEF InOrder
    <2>4. RequestsLeft(p)' \in 0 .. RequestsLeft(p) - 1
      BY <2>1, <2>2, LeavesFewer
    <2>. QED  BY <2>1, <2>3, <2>4 DEF StepInOrder
  <1>. QED
    BY <1>2, <1>3, <1>4, <1>5, <1>6, <1>7, <1>9, <1>10, <1>11, <1>12, <1>13 DEF ProcessStep

\* Any step at all.
LEMMA OrderNext ==
    ASSUME TypeOK, CyclesInOrder, [Next]_vars
    PROVE  /\ CyclesInOrder'
           /\ \A p \in Process :
                 pc[p] # "idle" =>
                     \/ UNCHANGED <<pc[p], plan[p]>>
                     \/ RequestsLeft(p)' \in 0 .. RequestsLeft(p) - 1
  <1>1. ASSUME UNCHANGED <<pc, plan, cycle, signed>>, pool' \subseteq pool
        PROVE  CyclesInOrder' /\ UNCHANGED <<pc, plan>>
    BY <1>1 DEF CyclesInOrder, InOrder, DecisionOf
  <1>2. CASE UNCHANGED vars
    BY <1>1, <1>2 DEF vars, viewVars, agentVars, nodeVars
  <1>3. ASSUME NEW p \in Process, ProcessStep(p)
        PROVE  CyclesInOrder' /\ \A q \in Process \ {p} : UNCHANGED <<pc[q], plan[q]>>
    <2>1. StepInOrder(p)
      BY <1>3, OrderProcess
    <2>2. signed \subseteq signed'
      BY <1>3 DEF ProcessStep, readProtocols, decide, hold, requestFails, readNonce, sign,
                  send, Accepted, sendFails, sendUnanswered, sendTooLow, confirmed,
                  receiptReverted, noReceipt, signAgain, giveUp, viewVars
    <2>3. \A q \in Process \ {p} :
             pc'[q] = pc[q] /\ plan'[q] = plan[q] /\ cycle'[q] = cycle[q]
      BY <1>3 DEF ProcessStep, readProtocols, decide, hold, requestFails, readNonce, sign,
                  send, Accepted, sendFails, sendUnanswered, sendTooLow, confirmed,
                  receiptReverted, noReceipt, signAgain, giveUp, Goes, Returns, TypeOK
    <2>4. \A q \in Process \ {p} : InOrder(q)'
      BY <2>2, <2>3 DEF CyclesInOrder, InOrder, DecisionOf
    <2>. QED  BY <2>1, <2>2, <2>3, <2>4 DEF CyclesInOrder, StepInOrder
  <1>4. CASE ChainNext \/ OthersOnVault \/ tick
    <2>1. UNCHANGED <<agentVars, signed>> /\ pool' \subseteq pool
      BY <1>4 DEF ChainNext, mineExecuted, mineReverted, drop, Mined, OthersOnVault, tick,
                  Execute, Upkeep, Switch, NonceConsumed, Tick, nodeVars, viewVars
    <2>. QED  BY <1>1, <2>1 DEF agentVars
  <1>5. ASSUME NEW p \in Process, NEW q \in Process, ProcessStep(q), pc[p] # "idle"
        PROVE  \/ UNCHANGED <<pc[p], plan[p]>>
               \/ RequestsLeft(p)' \in 0 .. RequestsLeft(p) - 1
    <2>1. CASE p = q
      BY <1>5, <2>1, OrderProcess DEF StepInOrder
    <2>. QED  BY <1>3, <1>5, <2>1
  <1>6. CASE \E p \in Process : ProcessStep(p)
    BY <1>3, <1>5, <1>6
  <1>7. CASE UNCHANGED <<pc, plan>> /\ CyclesInOrder'
    BY <1>7
  <1>. QED  BY <1>1, <1>2, <1>4, <1>6, <1>7 DEF Next

LEMMA OrderAlways == Spec => []CyclesInOrder
  <1>1. Init => CyclesInOrder
    BY DEF Init, ViewInit, CyclesInOrder, InOrder, NoPlan
  <1>. QED  BY <1>1, OrderNext, TypeCorrect, PTL DEF Spec

\* With any number of processes, and whatever the node and the vault answer, a
\* cycle ends after at most 4 * RetryLimit + 2 requests: it retries no further.
THEOREM CyclesAdvance == Spec => CycleAdvances
  <1>1. TypeOK /\ CyclesInOrder /\ [Next]_vars =>
           [\A p \in Process :
                pc[p] # "idle" =>
                    \/ UNCHANGED <<pc[p], plan[p]>>
                    \/ RequestsLeft(p)' \in 0 .. RequestsLeft(p) - 1]_vars
    BY OrderNext
  <1>. QED  BY <1>1, OrderAlways, TypeCorrect, PTL DEF Spec, CycleAdvances

\* The agents keep to the view of the vault that AIVault implements.
THEOREM AgentsKeepToView == Spec => KeepsToView
  <1>1. Init => ViewInit
    BY DEF Init
  <1>2. CyclesInOrder /\ [Next]_vars => [ViewNext]_viewVars
    <2>. SUFFICES ASSUME CyclesInOrder, [Next]_vars
                  PROVE  ViewNext \/ UNCHANGED viewVars
      OBVIOUS
    <2>1. CASE UNCHANGED vars
      BY <2>1 DEF vars
    <2>2. ASSUME NEW p \in Process, ProcessStep(p) PROVE ViewNext \/ UNCHANGED viewVars
      <3>1. ASSUME NEW ahead \in 0 .. ClockSkew, sign(p, ahead) PROVE ViewNext
        BY <3>1 DEF sign, Sign, ViewNext
      <3>. QED
        BY <2>2, <3>1 DEF ProcessStep, readProtocols, decide, hold, requestFails, readNonce,
                          send, Accepted, sendFails, sendUnanswered, sendTooLow, confirmed,
                          receiptReverted, noReceipt, signAgain, giveUp
    <2>3. CASE ChainNext
      <3>1. ASSUME NEW t \in pool, mineExecuted(t) PROVE ViewNext
        BY <3>1 DEF mineExecuted, CyclesInOrder, ViewNext
      <3>. QED  BY <2>3, <3>1 DEF ChainNext, mineReverted, drop
    <2>4. CASE OthersOnVault
      BY <2>4 DEF OthersOnVault, ViewNext
    <2>5. CASE tick
      BY <2>5 DEF tick, ViewNext
    <2>. QED  BY <2>1, <2>2, <2>3, <2>4, <2>5 DEF Next
  <1>. QED  BY <1>1, <1>2, OrderAlways, PTL DEF Spec, KeepsToView, ViewSpec
=============================================================================
