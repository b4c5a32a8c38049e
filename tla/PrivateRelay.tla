---------------------------- MODULE PrivateRelay ----------------------------
(***************************************************************************)
(* The client of src/agent/mempool.py for one transaction, submitted and   *)
(* waited for, by a live program, by one with dry_run, or by the smoke     *)
(* check src/agent/scripts/flashbots_smoke.py.  Between two requests of    *)
(* the client the chain grows, by any number of blocks or none, and the    *)
(* relay may have the transaction included until it expires.               *)
(***************************************************************************)
EXTENDS ChainHead

CONSTANTS
    Offset,              \* max_block_offset of the client
    WaitOffsets          \* those given to a wait

ASSUME RelayAssumption == Offset \in Nat /\ WaitOffsets \subseteq Nat

VARIABLES
    max_block_offset,    \* of the wait: its argument, or the client's if it has none
    dry_run,
    smoke,               \* the program is the smoke check
    keysDiffer,          \* auth_key and wallet_key are of two addresses
    phase,               \* the request the client is about to make
    outcome,             \* what it ended with
    maxBlock,            \* maxBlockNumber of the transaction
    deadline,            \* deadline_block of the wait
    polls,               \* receipts it has asked for
    posted,              \* the relay has the transaction
    includedAt,          \* the block it is in, or 0
    endedAt              \* history: the height when the client ended, or 0

clientVars == <<max_block_offset, dry_run, smoke, keysDiffer, phase, outcome, maxBlock,
                deadline, polls, posted, includedAt, endedAt>>
relayVars == <<head, clientVars>>

ClientInit ==
    /\ head = 1
    /\ max_block_offset \in WaitOffsets \cup {Offset}
    /\ smoke \in BOOLEAN /\ dry_run \in BOOLEAN /\ (smoke => dry_run)
    /\ keysDiffer \in BOOLEAN
    /\ outcome = "none"
    /\ maxBlock = 0 /\ deadline = 0 /\ polls = 0
    /\ posted = FALSE /\ includedAt = 0 /\ endedAt = 0

RelayInit == ClientInit /\ phase = "start"

Ends(how) == phase' = "done" /\ outcome' = how /\ endedAt' = head
GoesTo(p) == phase' = p /\ UNCHANGED <<outcome, endedAt>>
KeepProgram == UNCHANGED <<head, max_block_offset, dry_run, smoke, keysDiffer, includedAt>>

\* Neither the client nor the check goes on with one identity for both keys; the
\* check looks at its node first.
construct ==
    /\ phase = "start"
    /\ \/ keysDiffer /\ GoesTo("nonce")
       \/ ~keysDiffer /\ Ends("refused")
       \/ smoke /\ Ends("unreachable")
    /\ KeepProgram /\ UNCHANGED <<maxBlock, deadline, polls, posted>>

\* The nonce, and the transaction is signed.
getNonce ==
    /\ phase = "nonce" /\ GoesTo("block")
    /\ KeepProgram /\ UNCHANGED <<maxBlock, deadline, polls, posted>>

\* Bug: the POST is made also with dry_run.
AfterBlock_PostsFirst == "post"

AfterBlock == IF dry_run THEN "mock" ELSE "post"

expiry ==
    /\ phase = "block" /\ GoesTo(AfterBlock)
    /\ maxBlock' = head + Offset
    /\ KeepProgram /\ UNCHANGED <<deadline, polls, posted>>

\* submit_private_tx returns a hash without a POST.  The smoke check expects a
\* dictionary and ends with status 4.
mockHash ==
    /\ phase = "mock"
    /\ IF smoke THEN Ends("notDict") ELSE GoesTo("wait")
    /\ KeepProgram /\ UNCHANGED <<maxBlock, deadline, polls, posted>>

\* The POST reaches the relay, which takes the transaction or refuses it.
post ==
    /\ phase = "post"
    /\ \/ posted' = TRUE /\ GoesTo("answer")
       \/ posted' = FALSE /\ Ends("raised")
    /\ KeepProgram /\ UNCHANGED <<maxBlock, deadline, polls>>

answer ==
    /\ phase = "answer" /\ GoesTo("wait")
    /\ KeepProgram /\ UNCHANGED <<maxBlock, deadline, polls, posted>>

\* Every request but that for the receipt raises if it fails.
fails ==
    /\ phase \in {"nonce", "block", "answer", "wait", "height"}
    /\ Ends("raised")
    /\ KeepProgram /\ UNCHANGED <<maxBlock, deadline, polls, posted>>

\* Bug: the wait is a block shorter.
WaitsUntil_Short(block) == block + max_block_offset - 1

WaitsUntil(block) == block + max_block_offset

\* Bug: the polls are not counted.
Counted_Never(n) == n

Counted(n) == n + 1

\* Bug: a poll more than the offset.
Polls_OneMore(n) == IF n <= max_block_offset THEN GoesTo("receipt") ELSE Ends("timedOut")

\* The next turn of the loop, if there is one.
Polls(n) == IF n < max_block_offset THEN GoesTo("receipt") ELSE Ends("timedOut")

\* wait_for_inclusion: the deadline.
startWait ==
    /\ phase = "wait" /\ Polls(0)
    /\ deadline' = WaitsUntil(head)
    /\ KeepProgram /\ UNCHANGED <<maxBlock, polls, posted>>

\* The receipt, if the transaction is included; a failure counts as none.
askReceipt ==
    /\ phase = "receipt"
    /\ \/ includedAt > 0 /\ Ends("receipt")
       \/ GoesTo("height")
    /\ KeepProgram /\ UNCHANGED <<maxBlock, deadline, polls, posted>>

askHeight ==
    /\ phase = "height"
    /\ IF head >= deadline THEN Ends("deadline") ELSE GoesTo("sleep")
    /\ KeepProgram /\ UNCHANGED <<maxBlock, deadline, polls, posted>>

\* Twelve seconds, in which the chain may grow by a block, more or none.
wakes ==
    /\ phase = "sleep"
    /\ polls' = Counted(polls) /\ Polls(polls')
    /\ KeepProgram /\ UNCHANGED <<maxBlock, deadline, posted>>

clientStep ==
    \/ construct \/ getNonce \/ expiry \/ mockHash \/ post \/ answer \/ fails
    \/ startWait \/ askReceipt \/ askHeight \/ wakes

\* A block, with the transaction in it if the relay has it and it has not expired.
blockMined ==
    /\ newBlock
    /\ \/ UNCHANGED includedAt
       \/ posted /\ includedAt = 0 /\ head < maxBlock /\ includedAt' = head'
    /\ UNCHANGED <<max_block_offset, dry_run, smoke, keysDiffer, phase, outcome, maxBlock,
                   deadline, polls, posted, endedAt>>

RelayNext == clientStep \/ blockMined

\* The client's process runs; the chain need not grow.
RelaySpec == RelayInit /\ [][RelayNext]_relayVars /\ WF_relayVars(clientStep)

-----------------------------------------------------------------------------
(* Properties *)

RelayTypeOK ==
    /\ max_block_offset \in Nat
    /\ head \in Nat \ {0}
    /\ dry_run \in BOOLEAN /\ smoke \in BOOLEAN /\ keysDiffer \in BOOLEAN /\ posted \in BOOLEAN
    /\ phase \in {"start", "nonce", "block", "mock", "post", "answer", "wait", "receipt",
                  "height", "sleep", "done"}
    /\ outcome \in {"none", "refused", "unreachable", "notDict", "raised", "timedOut",
                    "receipt", "deadline"}
    /\ maxBlock \in Nat /\ deadline \in Nat /\ polls \in 0 .. max_block_offset
    /\ includedAt \in 0 .. head /\ endedAt \in 0 .. head

\* No run with dry_run, and no smoke check, leaves anything that could be included
\* (mempool.py:276 is before the POST; flashbots_smoke.py:18).
DryRunSendsNothing == dry_run => ~posted /\ includedAt = 0

\* How long after the wait has answered None the transaction may still be included.
\* The relay counts its deadline from the submission and by the client's offset, the
\* wait its own from a later block and by the offset it is given: None at the deadline
\* block is final unless that offset is the smaller one.  None after the last poll,
\* while the chain lags behind the clock, leaves the relay up to the whole offset
\* (mempool.py:250-251, 318-350).
LateInclusionBounded ==
    /\ outcome = "deadline" => includedAt + max_block_offset <= endedAt + Offset
    /\ outcome = "timedOut" => includedAt <= endedAt + Offset

\* A submission and its wait end, also if the chain stands still or the relay does
\* not answer with a receipt (mempool.py:324, one poll per block of the offset).
ClientEnds == <>(phase = "done")

\* What is left of it, at the most: each turn of the wait takes three.
Turn == [start |-> 9, nonce |-> 8, block |-> 7, mock |-> 6, post |-> 6, answer |-> 5,
         wait |-> 4, receipt |-> 3, height |-> 2, sleep |-> 1]

CallsLeft == IF phase = "done" THEN 0 ELSE 3 * (max_block_offset - polls) + Turn[phase]

\* The client asks no more than its offset allows, however often a receipt or the
\* height is missing: each of its steps leaves less of the submission and of the
\* wait (mempool.py wait_for_inclusion).
ClientAdvances == [][phase # "done" =>
    UNCHANGED <<phase, polls>> \/ CallsLeft' \in 0 .. CallsLeft - 1]_relayVars
=============================================================================
