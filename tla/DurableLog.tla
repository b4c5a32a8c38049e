----------------------------- MODULE DurableLog -----------------------------
(***************************************************************************)
(* What the history of the per-block loop promises (src/agent/state/       *)
(* history.py): a log whose newest rows are kept.  A restart forgets only  *)
(* rows whose append had not returned, a loss of power only rows that had  *)
(* not settled on the disk, and what is left has no gap.                   *)
(***************************************************************************)
EXTENDS Naturals, Sequences

CONSTANTS
    Row,                 \* what an append adds
    MaxRows              \* rows kept

VARIABLES
    log,                 \* the rows that count as appended
    window,              \* the rows kept
    acked,               \* rows a restart keeps
    settled              \* rows a loss of power keeps

logVars == <<log, window, acked, settled>>

\* The last MaxRows of s.
Newest(s) == IF Len(s) <= MaxRows THEN s ELSE SubSeq(s, Len(s) - MaxRows + 1, Len(s))

LogInit == log = <<>> /\ window = <<>> /\ acked = 0 /\ settled = 0

Record ==
    /\ log' # <<>> /\ log'[Len(log')] \in Row
    /\ log' = Append(log, log'[Len(log')])
    /\ window' = Newest(log')
    /\ UNCHANGED <<acked, settled>>

Acknowledge ==
    /\ acked' = Len(log)
    /\ UNCHANGED <<log, window, settled>>

Settle ==
    /\ settled' = acked
    /\ UNCHANGED <<log, window, acked>>

KeepFirst(n) ==
    /\ log' = SubSeq(log, 1, n)
    /\ window' = Newest(log')

Restart ==
    /\ KeepFirst(acked)
    /\ UNCHANGED <<acked, settled>>

PowerLoss == \E n \in {settled, acked} :
    /\ KeepFirst(n)
    /\ acked' = n /\ settled' = n

LogNext == Record \/ Acknowledge \/ Settle \/ Restart \/ PowerLoss

LogSpec == LogInit /\ [][LogNext]_logVars
=============================================================================
