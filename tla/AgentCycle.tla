----------------------------- MODULE AgentCycle -----------------------------
(***************************************************************************)
(* The off-chain agents in front of the vault: the hourly loop of          *)
(* src/agent/main.py and the POST /rebalance handler of src/agent/api.py,  *)
(* two processes with one signing key, and the node they talk to.  Each    *)
(* request to the node is a step; what a process computes between two      *)
(* requests belongs to the one before.  A cycle that finds the chain stale *)
(* (block_age_seconds), reads no protocol or only rehearses (dry_run)      *)
(* changes nothing and is not a step.                                      *)
(***************************************************************************)
EXTENDS VaultView, Scoring, FiniteSets

CONSTANTS
    Process,             \* runs of the loop and of the handler
    Loop,                \* those of them that run main.py
    RetryLimit,          \* config.NONCE_RETRY_LIMIT
    ReceiptTimeout,      \* of wait_for_transaction_receipt
    ClockSkew,           \* how far the agents' clock runs ahead of the chain's
    QuotesOf,            \* quotes an agent may come to know of each adapter
    Gas,                 \* gas costs it may read
    MaxTime,             \* bound of the clock
    MaxNonce,            \* bound of rebalanceNonce when others consume it
    MaxCycles            \* bound of the cycles of a process that sign

VARIABLES
    pc,                  \* where a process is in its cycle
    scored,              \* the scores it has read
    plan,                \* the decision it works on, and its attempts
    since,               \* when it began to wait for the receipt
    cycle,               \* how many cycles it has signed in
    reported,            \* what its last such cycle returned
    pool,                \* transactions of the key the node holds
    accountNonce,        \* transactions of the key mined
    mined                \* history: them, and what they met

ASSUME AgentCycleAssumption ==
    /\ 0 \in Adapters /\ Adapters \subseteq Nat
    /\ Loop \subseteq Process
    /\ RetryLimit \in Nat \ {0} /\ ReceiptTimeout \in Nat /\ ClockSkew \in Nat
    /\ QuotesOf \in [Adapters -> SUBSET Quote] /\ Gas \subseteq Nat
    /\ MaxTime \in Nat /\ MaxNonce \in Nat /\ MaxCycles \in Nat
    /\ {MinCooldown, MinAgentTimeout, SignatureMaxAge} \subseteq Nat

agentVars == <<pc, scored, plan, since, cycle, reported>>
nodeVars == <<pool, accountNonce, mined>>
vars == <<viewVars, agentVars, nodeVars>>

\* What a cycle has decided and signs: the target, the adapter it saw active,
\* the nonce of the vault and that of the account, and the attempt it is at.
Plan == [target : Nat, seenActive : Nat, nonce : Nat, attempt : Nat, account : Nat,
         timestamp : Nat]

NoPlan == [target |-> 0, seenActive |-> 0, nonce |-> 0, attempt |-> 0, account |-> 0,
           timestamp |-> 0]

\* RebalanceParams, with the cycle that signed them and what it had seen.
Decision == [targetAdapterIndex : Nat, nonce : Nat, timestamp : Nat,
             seenActive : Nat, by : Process, cycle : Nat]

Transaction == [account : Nat, decision : Decision]

NoScores == [i \in {} |-> 0]

TypeOK ==
    /\ now \in Nat /\ lastRebalanceTimestamp \in Nat /\ rebalanceNonce \in Nat
    /\ activeAdapterIndex \in Nat
    /\ hasActiveStrategy \in BOOLEAN /\ paused \in BOOLEAN
    /\ signed \subseteq Decision
    /\ pc \in [Process -> {"idle", "active", "nonce", "sign", "send", "wait",
                           "reverted", "tooLow"}]
    /\ plan \in [Process -> Plan]
    /\ since \in [Process -> Nat] /\ cycle \in [Process -> Nat]
    /\ reported \in [Process -> BOOLEAN]
    /\ pool \subseteq Transaction
    /\ accountNonce \in Nat
    /\ mined \subseteq [tx : Transaction, ok : BOOLEAN, foundActive : Nat]

Init ==
    /\ ViewInit
    /\ pc = [p \in Process |-> "idle"]
    /\ scored = [p \in Process |-> NoScores]
    /\ plan = [p \in Process |-> NoPlan]
    /\ since = [p \in Process |-> 0]
    /\ cycle = [p \in Process |-> 0]
    /\ reported = [p \in Process |-> FALSE]
    /\ pool = {} /\ accountNonce = 0 /\ mined = {}

-----------------------------------------------------------------------------
(* A cycle *)

Goes(p, from, to) == pc[p] = from /\ pc' = [pc EXCEPT ![p] = to]

\* The cycle returns.
Returns(p, result) ==
    /\ pc' = [pc EXCEPT ![p] = "idle"]
    /\ plan' = [plan EXCEPT ![p] = NoPlan]
    /\ since' = [since EXCEPT ![p] = 0]
    /\ reported' = [reported EXCEPT ![p] = result]
    /\ UNCHANGED <<scored, cycle>>

\* The protocols that answer are scored by what the process knows of them.
readProtocols(p) ==
    /\ cycle[p] < MaxCycles
    /\ Goes(p, "idle", "active")
    /\ \E answered \in SUBSET Adapters \ {{}}, g \in Gas :
       \E q \in [answered -> UNION {QuotesOf[i] : i \in answered}] :
           /\ \A i \in answered : q[i] \in QuotesOf[i]
           /\ scored' = [scored EXCEPT ![p] = [i \in answered |-> score_protocol(q[i], g)]]
    /\ UNCHANGED <<viewVars, plan, since, cycle, reported, nodeVars>>

\* activeAdapterIndex is read, and evaluate decides.
decide(p, target) ==
    /\ Goes(p, "active", "nonce")
    /\ should_rebalance(scored[p], activeAdapterIndex, target)
    /\ plan' = [plan EXCEPT ![p] = [NoPlan EXCEPT !.target = target, !.attempt = 1,
                                        !.seenActive = activeAdapterIndex]]
    /\ scored' = [scored EXCEPT ![p] = NoScores]
    /\ UNCHANGED <<viewVars, since, cycle, reported, nodeVars>>

hold(p) ==
    /\ Goes(p, "active", "idle")
    /\ ~ \E target \in Adapters : should_rebalance(scored[p], activeAdapterIndex, target)
    /\ scored' = [scored EXCEPT ![p] = NoScores]
    /\ UNCHANGED <<viewVars, plan, since, cycle, reported, nodeVars>>

\* A request fails before anything is signed, and the cycle ends.
requestFails(p) ==
    /\ pc[p] \in {"active", "nonce"}
    /\ pc' = [pc EXCEPT ![p] = "idle"]
    /\ scored' = [scored EXCEPT ![p] = NoScores]
    /\ plan' = [plan EXCEPT ![p] = NoPlan]
    /\ UNCHANGED <<viewVars, since, cycle, reported, nodeVars>>

readNonce(p) ==
    /\ Goes(p, "nonce", "sign")
    /\ plan' = [plan EXCEPT ![p].nonce = rebalanceNonce]
    /\ UNCHANGED <<viewVars, scored, since, cycle, reported, nodeVars>>

\* The decision of the plan, dated.
DecisionOf(p, timestamp, c) ==
    [targetAdapterIndex |-> plan[p].target, nonce |-> plan[p].nonce,
     timestamp |-> timestamp, seenActive |-> plan[p].seenActive, by |-> p, cycle |-> c]

\* Bug: the account's nonce is taken for that of its last transaction.
sign_LastAccountNonce(p, ahead) ==
    /\ Goes(p, "sign", "send")
    /\ cycle' = [cycle EXCEPT ![p] = @ + 1]
    /\ signed' = signed \cup {DecisionOf(p, now + ahead, cycle[p] + 1)}
    /\ plan' = [plan EXCEPT ![p].timestamp = now + ahead, ![p].account = accountNonce - 1]
    /\ UNCHANGED <<now, strategyView, rebalanceNonce, paused, scored, since, reported,
                   nodeVars>>

\* sign_rebalance_params and get_transaction_count: what is pending of the
\* account is not counted.
sign(p, ahead) ==
    LET c == IF plan[p].attempt = 1 THEN cycle[p] + 1 ELSE cycle[p]
    IN  /\ Goes(p, "sign", "send")
        /\ cycle' = [cycle EXCEPT ![p] = c]
        /\ signed' = signed \cup {DecisionOf(p, now + ahead, c)}
        /\ plan' = [plan EXCEPT ![p].timestamp = now + ahead, ![p].account = accountNonce]
        /\ UNCHANGED <<now, strategyView, rebalanceNonce, paused, scored, since, reported,
                       nodeVars>>

\* Bug: the vault's nonce is read again for the transaction.
TransactionOf_Renumbered(p) ==
    [account |-> plan[p].account,
     decision |-> [DecisionOf(p, plan[p].timestamp, cycle[p]) EXCEPT !.nonce = rebalanceNonce]]

TransactionOf(p) ==
    [account |-> plan[p].account, decision |-> DecisionOf(p, plan[p].timestamp, cycle[p])]

\* The node holds one transaction per account nonce: another one is refused,
\* unless it pays enough more to replace it.
Accepted(p) ==
    /\ plan[p].account >= accountNonce
    /\ pool' = {t \in pool : t.account # plan[p].account} \cup {TransactionOf(p)}
    /\ UNCHANGED <<viewVars, accountNonce, mined>>

send(p) ==
    /\ Goes(p, "send", "wait")
    /\ Accepted(p)
    /\ since' = [since EXCEPT ![p] = now]
    /\ UNCHANGED <<scored, plan, cycle, reported>>

\* Building or sending fails for any reason but a nonce.
sendFails(p) ==
    /\ pc[p] = "send"
    /\ Returns(p, FALSE)
    /\ UNCHANGED <<viewVars, nodeVars>>

\* The node took it, and its answer is lost.
sendUnanswered(p) ==
    /\ pc[p] = "send"
    /\ Accepted(p)
    /\ Returns(p, FALSE)

\* "nonce too low": a transaction of the key was mined in between.  The loop
\* takes any error that names a nonce for one of the vault's nonce.
sendTooLow(p) ==
    /\ pc[p] = "send"
    /\ plan[p].account < accountNonce
    /\ IF p \in Loop
       THEN Goes(p, "send", "tooLow") /\ UNCHANGED <<scored, plan, since, cycle, reported>>
       ELSE Returns(p, FALSE)
    /\ UNCHANGED <<viewVars, nodeVars>>

\* Bug: any receipt counts as a confirmation.
confirmed_AnyReceipt(p) ==
    /\ pc[p] = "wait"
    /\ \E m \in mined : m.tx = TransactionOf(p)
    /\ Returns(p, TRUE)
    /\ UNCHANGED <<viewVars, nodeVars>>

confirmed(p) ==
    /\ pc[p] = "wait"
    /\ \E m \in mined : m.tx = TransactionOf(p) /\ m.ok
    /\ Returns(p, TRUE)
    /\ UNCHANGED <<viewVars, nodeVars>>

receiptReverted(p) ==
    /\ pc[p] = "wait"
    /\ \E m \in mined : m.tx = TransactionOf(p) /\ ~m.ok
    /\ IF p \in Loop
       THEN Goes(p, "wait", "reverted") /\ UNCHANGED <<scored, plan, since, cycle, reported>>
       ELSE Returns(p, FALSE)
    /\ UNCHANGED <<viewVars, nodeVars>>

\* The wait times out, or a request of it fails: the transaction stays where it is.
noReceipt(p) ==
    /\ pc[p] = "wait"
    /\ Returns(p, FALSE)
    /\ UNCHANGED <<viewVars, nodeVars>>

\* Bug: the attempts are not counted.
MaySignAgain_Uncounted(p) == pc[p] = "reverted" => rebalanceNonce # plan[p].nonce

\* rebalanceNonce is read again.  After a revert the loop signs again only when
\* it has changed; after an error about a nonce it does so in any case.
MaySignAgain(p) ==
    /\ plan[p].attempt < RetryLimit
    /\ pc[p] = "reverted" => rebalanceNonce # plan[p].nonce

signAgain(p) ==
    /\ pc[p] \in {"reverted", "tooLow"}
    /\ MaySignAgain(p)
    /\ pc' = [pc EXCEPT ![p] = "sign"]
    /\ plan' = [plan EXCEPT ![p].nonce = rebalanceNonce, ![p].attempt = @ + 1]
    /\ since' = [since EXCEPT ![p] = 0]
    /\ UNCHANGED <<viewVars, scored, cycle, reported, nodeVars>>

\* No attempt is left, or rebalanceNonce cannot be read.
giveUp(p) ==
    /\ pc[p] \in {"reverted", "tooLow"}
    /\ Returns(p, FALSE)
    /\ UNCHANGED <<viewVars, nodeVars>>

-----------------------------------------------------------------------------
(* The chain, the owner and time *)

\* The next transaction of the key is mined: the vault executes its decision,
\* or it reverts, for one of the view's reasons or for a loss or a key that
\* the view does not know.
Mined(t, ok) ==
    /\ t.account = accountNonce
    /\ accountNonce' = accountNonce + 1
    /\ pool' = pool \ {t}
    /\ mined' = mined \cup {[tx |-> t, ok |-> ok, foundActive |-> activeAdapterIndex]}
    /\ UNCHANGED agentVars

mineExecuted(t) == Mined(t, TRUE) /\ Execute(t.decision)

mineReverted(t) == Mined(t, FALSE) /\ UNCHANGED viewVars

\* The node forgets a transaction.
drop(t) ==
    /\ pool' = pool \ {t}
    /\ UNCHANGED <<viewVars, agentVars, accountNonce, mined>>

\* Upkeep, and other callers of consumeNonce.  The owner's pause and exit change
\* nothing a cycle reads: what they make revert may revert here at any time.
OthersOnVault ==
    /\ \/ \E to \in Adapters : Upkeep(to)
       \/ rebalanceNonce < MaxNonce /\ NonceConsumed
    /\ UNCHANGED <<agentVars, nodeVars>>

\* A request is answered, or fails, within the unit of time, and so is a wait
\* given up at its timeout.
tick ==
    /\ now < MaxTime
    /\ \A p \in Process :
           pc[p] = "idle" \/ (pc[p] = "wait" /\ now < since[p] + ReceiptTimeout)
    /\ Tick
    /\ UNCHANGED <<agentVars, nodeVars>>

-----------------------------------------------------------------------------
(* Specification *)

ProcessStep(p) ==
    \/ readProtocols(p)
    \/ \E target \in Adapters : decide(p, target)
    \/ hold(p) \/ requestFails(p)
    \/ readNonce(p)
    \/ \E ahead \in 0 .. ClockSkew : sign(p, ahead)
    \/ send(p) \/ sendFails(p) \/ sendUnanswered(p) \/ sendTooLow(p)
    \/ confirmed(p) \/ receiptReverted(p) \/ noReceipt(p)
    \/ signAgain(p) \/ giveUp(p)

ChainNext == \E t \in pool : mineExecuted(t) \/ mineReverted(t) \/ drop(t)

Next == (\E p \in Process : ProcessStep(p)) \/ ChainNext \/ OthersOnVault \/ tick

Spec == Init /\ [][Next]_vars

-----------------------------------------------------------------------------
(* Properties *)

Landed(p) == {m \in mined : m.ok /\ m.tx.decision.by = p /\ m.tx.decision.cycle = cycle[p]}

\* One cycle, with all its retries, moves the vault at most once, and a cycle
\* that returns True did (main.py run_check, api.py trigger_rebalance): nothing
\* is signed again while what was sent before may still be mined.
CycleMovesOnce == \A p \in Process :
    /\ \A m, n \in Landed(p) : m = n
    /\ pc[p] = "idle" /\ reported[p] => Landed(p) # {}

\* A decision is only executed while the adapter its cycle read as active still
\* is, although two processes share the key, the loop signs the same target
\* again for a later nonce, and upkeep consumes none: a cycle and its signature
\* are over before a cooldown is (main.py run_check, api.py trigger_rebalance).
ActedOnWhatItSaw == \A m \in mined :
    m.ok => m.foundActive = m.tx.decision.seenActive

\* What is left of a cycle, at the most, in requests: all of an attempt and the
\* nonce read again for the next one take four.
Place == [active |-> 2, nonce |-> 5, sign |-> 4, send |-> 3, wait |-> 2,
          reverted |-> 1, tooLow |-> 1]

RequestsLeft(p) ==
    IF pc[p] = "idle" THEN 0 ELSE 4 * (RetryLimit - plan[p].attempt) + Place[pc[p]]

\* A cycle ends, after no more requests than its attempts account for, whatever
\* the node answers and the other process does: each of its steps leaves fewer
\* (main.py run_check, the loop over NONCE_RETRY_LIMIT).
CycleAdvances == [][\A p \in Process :
    pc[p] # "idle" =>
        \/ UNCHANGED <<pc[p], plan[p]>>
        \/ RequestsLeft(p)' \in 0 .. RequestsLeft(p) - 1]_vars

\* The vault the agents act on does what VaultView lets it do, which AIVault
\* implements: it executes what was signed, as it was signed, and whatever a
\* retry sends again.
KeepsToView == ViewSpec
=============================================================================
