---------------------------- MODULE PerBlockLoop ----------------------------
(***************************************************************************)
(* The per-block agent: the loop of src/agent/per_block_loop.py, the       *)
(* private relay it submits to through src/agent/mempool.py, its history   *)
(* and its audit trail.  A head is handled at a time; what follows an      *)
(* await is a step of its own, and the chain, the relay and the disk go on *)
(* between two of them.  The policy is any: it may hold or switch.         *)
(***************************************************************************)
EXTENDS HistoryStore, FiniteSets

CONSTANTS
    Protocols,           \* labels of the readers
    NoProtocol,          \* current_protocol of a vault that is not invested
    MaxBlockOffset,      \* max_block_offset of the mempool client
    MaxBlock,            \* bound of the chain's height
    MaxRuns              \* bound of the starts of the process

ASSUME PerBlockAssumption ==
    /\ NoProtocol \notin Protocols
    /\ MaxBlockOffset \in Nat
    /\ MaxBlock \in Nat /\ MaxRuns \in Nat

Position == Protocols \cup {NoProtocol}

\* A row of the history and an entry of the audit trail: what the loop held
\* when it decided, and the target of a switch, or none.
Row == [run : Nat, block : Nat, current : Position, target : Position]

\* A transaction at the relay.
Transaction == [run : Nat, block : Nat, target : Protocols, nonce : Nat, maxBlock : Nat,
                signedAt : Nat]

VARIABLES
    run,                 \* starts of the process
    startedIn,           \* current_protocol as this process was started with
    current_protocol,
    step,                \* where the handler is
    handling,            \* the transaction it is making, or the block it handles
    heads,               \* heads announced and not handled
    audit,               \* decisions in the audit trail
    head,                \* the chain's height
    relayed,             \* transactions the relay took
    accountNonce,        \* transactions of the wallet included
    included             \* history: them, with their blocks

loopVars == <<run, startedIn, current_protocol, step, handling, heads, audit>>
chainVars == <<head, relayed, accountNonce, included>>
vars == <<storeVars, loopVars, chainVars>>

NoTransaction == [run |-> 0, block |-> 0, target |-> NoProtocol, nonce |-> 0,
                  maxBlock |-> 0, signedAt |-> 0]

TypeOK ==
    /\ StoreTypeOK(Row)
    /\ run \in Nat /\ startedIn \in Position /\ current_protocol \in Position
    /\ step \in {"idle", "read", "nonce", "deadline", "post", "answer", "record"}
    /\ handling \in [run : Nat, block : Nat, target : Position, nonce : Nat,
                     maxBlock : Nat, signedAt : Nat]
    /\ heads \in Seq(Nat)
    /\ audit \subseteq Row
    /\ head \in Nat /\ accountNonce \in Nat
    /\ relayed \subseteq Transaction
    /\ included \subseteq [tx : Transaction, minedAt : Nat]

Init ==
    /\ StoreInit
    /\ run = 1
    /\ startedIn \in Position /\ current_protocol = startedIn
    /\ step = "idle" /\ handling = NoTransaction
    /\ heads = <<>> /\ audit = {}
    /\ head = 0 /\ relayed = {} /\ accountNonce = 0 /\ included = {}

-----------------------------------------------------------------------------
(* _handle_block *)

Goes(from, to) == step = from /\ step' = to

\* The handler is called for the oldest head; it has read the protocols when it
\* leaves this step, with NaN for those that failed or were late.
onNewHead ==
    /\ Goes("idle", "read")
    /\ heads # <<>>
    /\ heads' = Tail(heads)
    /\ handling' = [NoTransaction EXCEPT !.run = run, !.block = Head(heads)]
    /\ UNCHANGED <<storeVars, run, startedIn, current_protocol, audit, chainVars>>

\* An entry of the audit trail is lost without an error if it cannot be written.
record_decision(row) == audit' \in {audit, audit \cup {row}}

\* record_decision, then the history's append: both tell the target, the history
\* what the loop held when it decided and the audit trail what it holds now.
Record(target, position) ==
    LET row == [run |-> run, block |-> handling.block, current |-> current_protocol,
                target |-> target]
    IN  /\ current_protocol' = position
        /\ record_decision([row EXCEPT !.current = position])
        /\ append(row)
        /\ handling' = NoTransaction

hold ==
    /\ Goes("read", "record")
    /\ Record(NoProtocol, current_protocol)
    /\ UNCHANGED <<run, startedIn, heads, chainVars>>

\* Bug: an action may be a switch without a target.
switch_Untargeted(target) ==
    /\ Goes("read", "nonce")
    /\ UNCHANGED <<storeVars, run, startedIn, current_protocol, handling, heads, audit,
                   chainVars>>

\* Bug: the position is noted before the transaction is submitted.
switch_NotedFirst(target) ==
    /\ Goes("read", "nonce")
    /\ handling' = [handling EXCEPT !.target = target]
    /\ current_protocol' = target
    /\ UNCHANGED <<storeVars, run, startedIn, heads, audit, chainVars>>

switch(target) ==
    /\ Goes("read", "nonce")
    /\ handling' = [handling EXCEPT !.target = target]
    /\ UNCHANGED <<storeVars, run, startedIn, current_protocol, heads, audit, chainVars>>

\* Bug: what waits at the relay is counted too.
readNonce_Pending ==
    /\ Goes("nonce", "deadline")
    /\ handling' = [handling EXCEPT !.signedAt = head,
            !.nonce = accountNonce + Cardinality({t \in relayed : t.nonce >= accountNonce})]
    /\ UNCHANGED <<storeVars, run, startedIn, current_protocol, heads, audit, chainVars>>

\* _get_nonce, and the transaction is signed.
readNonce ==
    /\ Goes("nonce", "deadline")
    /\ handling' = [handling EXCEPT !.nonce = accountNonce, !.signedAt = head]
    /\ UNCHANGED <<storeVars, run, startedIn, current_protocol, heads, audit, chainVars>>

readBlock ==
    /\ Goes("deadline", "post")
    /\ handling' = [handling EXCEPT !.maxBlock = head + MaxBlockOffset]
    /\ UNCHANGED <<storeVars, run, startedIn, current_protocol, heads, audit, chainVars>>

relayTakes ==
    /\ Goes("post", "answer")
    /\ relayed' = relayed \cup {handling}
    /\ UNCHANGED <<storeVars, run, startedIn, current_protocol, handling, heads, audit,
                   head, accountNonce, included>>

\* Bug: any answer of the relay is taken for a transaction hash.
answered_Unchecked ==
    /\ step \in {"post", "answer"} /\ step' = "record"
    /\ Record(handling.target, handling.target)
    /\ UNCHANGED <<run, startedIn, heads, chainVars>>

\* The loop does not wait for the inclusion.
answered ==
    /\ Goes("answer", "record")
    /\ Record(handling.target, handling.target)
    /\ UNCHANGED <<run, startedIn, heads, chainVars>>

\* A request fails, the relay refuses, or its answer is lost: the handler ends
\* and nothing is recorded.
handlerCrashes ==
    /\ step \in {"read", "nonce", "deadline", "post", "answer"} /\ step' = "idle"
    /\ handling' = NoTransaction
    /\ UNCHANGED <<storeVars, run, startedIn, current_protocol, heads, audit, chainVars>>

\* The history writes its file while the handler waits.
historyWrites ==
    /\ \/ (writeTmp \/ syncTmp) /\ UNCHANGED step
       \/ (replaceFile \/ writeFails) /\ Goes("record", "idle")
    /\ UNCHANGED <<run, startedIn, current_protocol, handling, heads, audit, chainVars>>

-----------------------------------------------------------------------------
(* The process, the disk, the chain and the relay *)

\* The process dies and is started again, in the position its operator gives it.
processRestarts ==
    /\ run < MaxRuns /\ run' = run + 1
    /\ restart \/ powerLoss
    /\ startedIn' \in Position /\ current_protocol' = startedIn'
    /\ step' = "idle" /\ handling' = NoTransaction /\ heads' = <<>>
    /\ UNCHANGED <<audit, chainVars>>

diskSettles == settle /\ UNCHANGED <<loopVars, chainVars>>

\* The relay may have any transactions included that have not expired and follow
\* each other by their nonces.
Include(txs) ==
    /\ \A t \in txs : head < t.maxBlock
    /\ {t.nonce : t \in txs} = accountNonce .. accountNonce' - 1
    /\ included' = included \cup {[tx |-> t, minedAt |-> head'] : t \in txs}

newBlock ==
    /\ head < MaxBlock /\ head' = head + 1
    /\ heads' = Append(heads, head')
    /\ \E txs \in SUBSET relayed :
           accountNonce' = accountNonce + Cardinality(txs) /\ Include(txs)
    /\ UNCHANGED <<storeVars, run, startedIn, current_protocol, step, handling, audit, relayed>>

-----------------------------------------------------------------------------
(* Specification *)

LoopStep ==
    \/ onNewHead \/ hold
    \/ \E target \in Protocols : switch(target)
    \/ readNonce \/ readBlock \/ relayTakes \/ answered
    \/ handlerCrashes \/ historyWrites

Next == LoopStep \/ processRestarts \/ diskSettles \/ newBlock

Spec == Init /\ [][Next]_vars

-----------------------------------------------------------------------------
(* Properties *)

\* The position a decision leads to.
After(r) == IF r.target = NoProtocol THEN r.current ELSE r.target

\* The history alone tells what the loop believes: each decision of a run starts
\* from where the one before it led, and current_protocol is where the last one
\* did, or where this process was started, whatever failed in between
\* (per_block_loop.py _handle_block: no failing call between the update of the
\* position and the row).
DecisionsChain ==
    /\ \A i \in 1 .. Len(log) - 1 :
           log[i].run = log[i + 1].run => log[i + 1].current = After(log[i])
    /\ current_protocol =
           IF log # <<>> /\ log[Len(log)].run = run THEN After(log[Len(log)]) ELSE startedIn

\* A switch is in the history, on disk or in memory, or in the audit trail only
\* if the relay took its transaction (submit_private_tx raises on every other
\* answer, and nothing of the decision is written then).
SwitchesWereTaken ==
    \A r \in {log[i] : i \in 1 .. Len(log)} \cup audit : r.target # NoProtocol =>
        \E t \in relayed : t.run = r.run /\ t.block = r.block /\ t.target = r.target

\* Switches do not overtake each other: of all the transactions at the relay,
\* also those of earlier runs, one is signed after the one included before it
\* was, since each takes the account's nonce from the chain (mempool.py
\* _get_nonce).
InclusionsInTurn ==
    \A m, n \in included : m.tx.nonce < n.tx.nonce => n.tx.signedAt >= m.minedAt

Durable == INSTANCE DurableLog
    WITH window <- rows, acked <- file.upto, settled <- disk.upto

\* The history is a durable log (state/history.py): whatever fails, stops or
\* loses power during a write, the rows found afterwards are the newest of a log
\* that has lost no row whose append had returned, or had settled on the disk.  That a
\* whole file can be read is assumed (history.py:137-139).
HistoryIsDurable == Durable!LogSpec
=============================================================================
