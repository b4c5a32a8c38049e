----------------------------- MODULE ReaderClaims -----------------------------
(* What the per-block loop's documentation says of slow readers. *)
EXTENDS ProtocolReaders

CONSTANT Deadline        \* per_block_deadline_s

\* per_block_loop.py:29-30, "read_at_block calls are individually wrapped in
\* asyncio.wait_for so a single slow reader cannot stall the whole block", and
\* :9-12, "all in parallel under a per-block deadline": whatever a request takes, the
\* readers of a block have answered or are given up at the deadline.
BlockNotStalled == caller = "_handle_block" => elapsed <= Deadline
=============================================================================
