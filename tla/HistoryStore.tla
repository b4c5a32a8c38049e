---------------------------- MODULE HistoryStore ----------------------------
(***************************************************************************)
(* src/agent/state/history.py: the rows of the last blocks in memory, and  *)
(* the file every append writes anew: a temporary file, fsync, os.replace. *)
(* A file carries, besides its rows, how much of the log it stands for and *)
(* whether its bytes are on the disk.  PerBlockLoop is its only caller.    *)
(***************************************************************************)
EXTENDS Naturals, Sequences

CONSTANT MaxRows         \* max_rows

ASSUME HistoryAssumption == MaxRows \in Nat \ {0}

VARIABLES
    rows,                \* the buffer in memory
    writer,              \* where the append that holds the lock is
    tmp,                 \* the temporary file
    file,                \* the file at the path
    disk,                \* what a loss of power would leave at the path
    log                  \* history: all rows appended, save those a crash lost

storeVars == <<rows, writer, tmp, file, disk, log>>

\* Row: a decision, flattened.
File(Row) == [rows : Seq(Row), upto : Nat, synced : BOOLEAN]

\* No file, or one that cannot be read: load_from_disk treats them alike.
NoFile == [rows |-> <<>>, upto |-> 0, synced |-> TRUE]

StoreTypeOK(Row) ==
    /\ rows \in Seq(Row) /\ log \in Seq(Row)
    /\ writer \in {"idle", "write", "sync", "replace"}
    /\ {tmp, file, disk} \subseteq File(Row)

StoreInit ==
    /\ rows = <<>> /\ log = <<>>
    /\ writer = "idle"
    /\ tmp = NoFile /\ file = NoFile /\ disk = NoFile

\* The last max_rows rows.
Newest(s) == IF Len(s) <= MaxRows THEN s ELSE SubSeq(s, Len(s) - MaxRows + 1, Len(s))

\* append, up to the thread that writes.
append(r) ==
    /\ writer = "idle"
    /\ rows' = Newest(Append(rows, r))
    /\ log' = Append(log, r)
    /\ writer' = "write"
    /\ UNCHANGED <<tmp, file, disk>>

\* to_parquet
writeTmp ==
    /\ writer = "write" /\ writer' = "sync"
    /\ tmp' = [rows |-> rows, upto |-> Len(log), synced |-> FALSE]
    /\ UNCHANGED <<rows, file, disk, log>>

\* Bug: the bytes are not flushed before the file is renamed.
syncTmp_Skipped ==
    /\ writer = "sync" /\ writer' = "replace"
    /\ UNCHANGED <<rows, tmp, file, disk, log>>

syncTmp ==
    /\ writer = "sync" /\ writer' = "replace"
    /\ tmp' = [tmp EXCEPT !.synced = TRUE]
    /\ UNCHANGED <<rows, file, disk, log>>

\* os.replace, and append returns.
replaceFile ==
    /\ writer = "replace" /\ writer' = "idle"
    /\ file' = tmp /\ tmp' = NoFile
    /\ UNCHANGED <<rows, disk, log>>

\* A write fails and append raises: its row stays in memory.
writeFails ==
    /\ writer # "idle" /\ writer' = "idle"
    /\ tmp' = NoFile
    /\ UNCHANGED <<rows, file, disk, log>>

\* What is left of a file without power: its name, and its bytes if synced.
Kept(f) == IF f.synced THEN f ELSE [f EXCEPT !.rows = <<>>]

\* The directory reaches the disk.
settle ==
    /\ disk # file
    /\ disk' = Kept(file)
    /\ UNCHANGED <<rows, writer, tmp, file, log>>

\* load_from_disk in a new process.  A temporary file is never read.  A whole file is
\* taken to be readable: if reading it fails for another reason the code starts with an
\* empty buffer, and its next append replaces the file (history.py:137-139).
loadFromDisk(f) ==
    /\ rows' = Newest(f.rows)
    /\ log' = SubSeq(log, 1, f.upto)
    /\ writer' = "idle" /\ tmp' = NoFile

restart == loadFromDisk(file) /\ UNCHANGED <<file, disk>>

powerLoss == \E f \in {disk, Kept(file)} :
    /\ loadFromDisk(f)
    /\ file' = f /\ disk' = f
=============================================================================
