----------------------------- MODULE LoopClaims -----------------------------
(* What the per-block loop's documentation says of the position it holds. *)
EXTENDS PerBlockLoop

\* The handler is done, and no transaction can be included any more.
Quiet == step = "idle" /\ \A t \in relayed : t.nonce < accountNonce \/ t.maxBlock <= head

\* per_block_loop.py:15-16, "on switch, submits a private rebalance tx via the
\* mempool client and waits for the receipt", and :96, current_protocol is
\* "updated in-place after a successful switch": when nothing is under way, the
\* position is one that an included switch has led to, or the initial one.
PositionReached == Quiet =>
    current_protocol \in {startedIn} \cup {m.tx.target : m \in included}
=============================================================================
