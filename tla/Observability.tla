---------------------------- MODULE Observability ----------------------------
(***************************************************************************)
(* src/agent/observability.py in the process of the per-block loop: the    *)
(* counters under one lock, the audit trail under another, and the         *)
(* server's thread that renders the counters.  Two threads record: the     *)
(* loop its decisions, and whoever stops the agent a kill switch.  A thread*)
(* may be interrupted anywhere, a write may fail, and the process or its   *)
(* machine may stop.                                                       *)
(***************************************************************************)
EXTENDS Integers, Sequences

CONSTANTS
    MaxDay,              \* bound of the days
    MaxDecisions,        \* bound of the loop's decisions
    MaxKills,            \* bound of the kill switches
    MaxStops             \* bound of the stops

ASSUME ObservabilityAssumption ==
    {MaxDay, MaxDecisions, MaxKills, MaxStops} \subseteq Nat /\ MaxDay > 0

Recorder == {"loop", "kill"}
Counter == {"blocks", "hold", "switch", "rebalances", "kills"}
Day == 1 .. MaxDay

VARIABLES
    counters,
    scrape,              \* what render has formatted
    rendering,           \* render holds the lock of the metrics
    doing,               \* what a recorder does next
    stamp,               \* ts of its entry
    calls,               \* appends it has begun
    holder,              \* who holds the lock of the trail
    today,
    _current_day,
    _fp,                 \* the day of the file that is open, or 0
    buffer,              \* the entries written to it that are not all in it
    begun,               \* the first of them has its beginning in the file
    file,                \* the entries that are in the file of each day, whole
    torn,                \* it ends in the beginning of a line that nobody completes
    glued,               \* history: entries whose line begins with such a fragment
    synced,              \* how many of a file's entries are on the disk
    acked,               \* history: entries whose append returned without an error
    stops

metricVars == <<counters, scrape, rendering>>
fileVars == <<buffer, begun, file, torn, glued>>
trailVars == <<holder, stamp, _current_day, _fp, fileVars, synced, acked>>
obsVars == <<metricVars, trailVars, doing, calls, today, stops>>

Entry == [ts : Day, by : Recorder, call : Nat, run : Nat]

ObsInit ==
    /\ counters = [c \in Counter |-> 0] /\ scrape = <<>> /\ rendering = FALSE
    /\ doing = [r \in Recorder |-> "idle"]
    /\ stamp = [r \in Recorder |-> 1] /\ calls = [r \in Recorder |-> 0]
    /\ holder = "none" /\ today = 1 /\ _current_day = 0 /\ _fp = 0
    /\ buffer = <<>> /\ begun = FALSE /\ file = [d \in Day |-> <<>>]
    /\ torn = [d \in Day |-> FALSE] /\ glued = {}
    /\ synced = [d \in Day |-> 0] /\ acked = {} /\ stops = 0

-----------------------------------------------------------------------------
(* The metrics *)

Moves(r, from, to) == doing[r] = from /\ doing' = [doing EXCEPT ![r] = to]

\* Bug: render does not hold the lock.
Free_Always == TRUE

Free == ~rendering

inc(c) == Free /\ counters' = [counters EXCEPT ![c] = @ + 1]

\* _handle_block counts the block when the policy has decided; if a switch cannot be
\* submitted nothing else is recorded.
decided ==
    /\ doing["loop"] = "idle" /\ calls["loop"] < MaxDecisions
    /\ \E next \in {"idle", "hold", "switch"} : doing' = [doing EXCEPT !["loop"] = next]
    /\ calls' = [calls EXCEPT !["loop"] = @ + 1]
    /\ inc("blocks")
    /\ UNCHANGED <<scrape, rendering, trailVars, today, stops>>

\* record_decision and record_kill_switch: the counters, then the trail.
counted(r) ==
    /\ \/ Moves(r, "hold", "append") /\ inc("hold")
       \/ Moves(r, "switch", "rebalances") /\ inc("switch")
       \/ Moves(r, "rebalances", "append") /\ inc("rebalances")
    /\ UNCHANGED <<scrape, rendering, trailVars, calls, today, stops>>

killSwitch ==
    /\ Moves("kill", "idle", "append") /\ calls["kill"] < MaxKills
    /\ calls' = [calls EXCEPT !["kill"] = @ + 1]
    /\ inc("kills")
    /\ UNCHANGED <<scrape, rendering, trailVars, today, stops>>

Lines == <<"blocks", "hold", "switch", "rebalances", "kills">>

startRender ==
    /\ ~rendering /\ rendering' = TRUE /\ scrape' = <<>>
    /\ UNCHANGED <<counters, trailVars, doing, calls, today, stops>>

\* The counters in the order of the store; after the last the lock is free again.
renderLine ==
    /\ rendering
    /\ scrape' = Append(scrape, counters[Lines[Len(scrape) + 1]])
    /\ rendering' = (Len(scrape') < Len(Lines))
    /\ UNCHANGED <<counters, trailVars, doing, calls, today, stops>>

-----------------------------------------------------------------------------
(* The audit trail *)

\* Bug: the trail is written without a lock.
MayEnter_Always == TRUE

MayEnter == holder = "none"

enter(r) ==
    /\ MayEnter /\ Moves(r, "append", "file")
    /\ holder' = r
    /\ stamp' = [stamp EXCEPT ![r] = today]
    /\ UNCHANGED <<metricVars, calls, today, stops, _current_day, _fp, fileVars, synced, acked>>

OnDay(d, entries) == [file EXCEPT ![d] = @ \o entries]

\* Of what is buffered, the first n entries go to the file, and with part the
\* beginning of the next.  The rest stays in the buffer, or is lost with it.  The file
\* is open for appending: whatever it ends in, the first byte goes right behind.
Puts(n, part, lost) ==
    /\ _fp > 0
    /\ part => n < Len(buffer)
    /\ begun /\ n = 0 => part
    /\ file' = OnDay(_fp, SubSeq(buffer, 1, n))
    /\ glued' = IF torn[_fp] /\ (n > 0 \/ part) THEN glued \cup {Head(buffer)} ELSE glued
    /\ torn' = [torn EXCEPT ![_fp] = IF n > 0 \/ part THEN part /\ lost ELSE @]
    /\ buffer' = IF lost THEN <<>> ELSE SubSeq(buffer, n + 1, Len(buffer))
    /\ begun' = (part /\ ~lost)

PutsAll == Puts(Len(buffer), FALSE, FALSE)

sameDay(r) ==
    /\ today = _current_day /\ Moves(r, "file", "write")
    /\ UNCHANGED <<metricVars, trailVars, calls, today, stops>>

\* Closing writes what an append that failed has left in the buffer.
rotate(r) ==
    /\ today # _current_day /\ Moves(r, "file", "write")
    /\ PutsAll \/ (_fp = 0 /\ UNCHANGED fileVars)
    /\ _fp' = today /\ _current_day' = today
    /\ UNCHANGED <<metricVars, calls, today, stops, holder, stamp, synced, acked>>

Leaves(r) == doing' = [doing EXCEPT ![r] = "idle"] /\ holder' = "none"

\* Bug: the day is noted before the file is open.
DayAfterFailure_Noted == today

DayAfterFailure == _current_day

\* The old file cannot be flushed, not all of it, or the new one cannot be opened.
rotateFails(r) ==
    /\ today # _current_day /\ doing[r] = "file" /\ Leaves(r)
    /\ \/ \E n \in 0 .. Len(buffer), part \in BOOLEAN : Puts(n, part, TRUE)
       \/ _fp = 0 /\ UNCHANGED fileVars
    /\ _fp' = 0 /\ _current_day' = DayAfterFailure
    /\ UNCHANGED <<metricVars, calls, today, stops, stamp, synced, acked>>

write(r) ==
    /\ _fp > 0 /\ Moves(r, "write", "flush")
    /\ buffer' = Append(buffer, [ts |-> stamp[r], by |-> r, call |-> calls[r], run |-> stops])
    /\ UNCHANGED <<metricVars, calls, today, stops, holder, stamp, _current_day, _fp, begun, file, torn, glued,
                   synced, acked>>

flush(r) ==
    /\ Moves(r, "flush", "sync")
    /\ PutsAll
    /\ UNCHANGED <<metricVars, calls, today, stops, holder, stamp, _current_day, _fp, synced, acked>>

\* Bug: flush is taken for enough.
Synced_Not == synced

Synced == [synced EXCEPT ![_fp] = Len(file[_fp])]

sync(r) ==
    /\ doing[r] = "sync" /\ Leaves(r)
    /\ synced' = Synced
    /\ acked' = acked \cup {[ts |-> stamp[r], by |-> r, call |-> calls[r], run |-> stops]}
    /\ UNCHANGED <<metricVars, calls, today, stops, stamp, _current_day, _fp, fileVars>>

\* Bug: the file is given up after a failure.
LostByFailure_Buffer == TRUE

LostByFailure == FALSE

\* A write may take a part of what is buffered and fail then; the next flush goes on
\* behind it.  The error is logged and not raised.
appendFails(r) ==
    /\ Leaves(r)
    /\ \/ doing[r] = "flush" /\ \E n \in 0 .. Len(buffer) - 1, part \in BOOLEAN :
             Puts(n, part, LostByFailure)
       \/ doing[r] = "sync" /\ UNCHANGED fileVars
    /\ UNCHANGED <<metricVars, calls, today, stops, stamp, _current_day, _fp, synced, acked>>

midnight ==
    /\ today < MaxDay /\ today' = today + 1
    /\ UNCHANGED <<metricVars, trailVars, doing, calls, stops>>

\* The process stops, or the machine loses power and every file keeps a prefix of its
\* bytes that was flushed: whole entries, and perhaps the beginning of one more.  The
\* first fsync of a new file is taken to bring its name along, as it does on journalling
\* file systems.  A new process starts with new metrics.
stop ==
    /\ stops < MaxStops /\ stops' = stops + 1
    /\ counters' = [c \in Counter |-> 0] /\ scrape' = <<>> /\ rendering' = FALSE
    /\ doing' = [r \in Recorder |-> "idle"] /\ holder' = "none"
    /\ _current_day' = 0 /\ _fp' = 0 /\ buffer' = <<>> /\ begun' = FALSE
    /\ \E kept \in [Day -> UNION {0 .. Len(file[d]) : d \in Day}] :
           /\ \A d \in Day : synced[d] <= kept[d] /\ kept[d] <= Len(file[d])
           /\ file' = [d \in Day |-> SubSeq(file[d], 1, kept[d])]
           /\ torn' \in [Day -> BOOLEAN]
           /\ \A d \in Day : torn'[d] =>
                  kept[d] < Len(file[d]) \/ torn[d] \/ (begun /\ d = _fp)
    /\ UNCHANGED <<calls, stamp, glued, synced, today, acked>>

append(r) ==
    \/ enter(r) \/ sameDay(r) \/ rotate(r) \/ rotateFails(r)
    \/ write(r) \/ flush(r) \/ sync(r) \/ appendFails(r)

ObsNext ==
    \/ decided \/ killSwitch \/ startRender \/ renderLine
    \/ \E r \in Recorder : counted(r) \/ append(r)
    \/ midnight \/ stop

ObsSpec == ObsInit /\ [][ObsNext]_obsVars

-----------------------------------------------------------------------------
(* Properties *)

ObsTypeOK ==
    /\ counters \in [Counter -> Nat] /\ scrape \in Seq(Nat) /\ rendering \in BOOLEAN
    /\ doing \in [Recorder -> {"idle", "hold", "switch", "rebalances", "append", "file", "write",
                            "flush", "sync"}]
    /\ stamp \in [Recorder -> Day] /\ calls \in [Recorder -> Nat]
    /\ holder \in Recorder \cup {"none"}
    /\ today \in Day /\ _current_day \in 0 .. today /\ _fp \in 0 .. today
    /\ buffer \in Seq(Entry) /\ file \in [Day -> Seq(Entry)] /\ synced \in [Day -> Nat]
    /\ begun \in BOOLEAN /\ torn \in [Day -> BOOLEAN] /\ glued \subseteq Entry
    /\ acked \subseteq Entry /\ stops \in Nat

\* A document rendered while the loop counts never shows more switches submitted
\* than decided, or more decisions than blocks (observability.py:127-167 under the
\* lock; per_block_loop.py:245 and observability.py:296-300 for the order).
ScrapeConsistent == Len(scrape) = Len(Lines) =>
    scrape[4] <= scrape[3] /\ scrape[2] + scrape[3] <= scrape[1]

\* The entries of the trail, file after file, are sorted by their time, whoever writes
\* them, around midnight, after failed writes and over restarts (observability.py:222).
TrailInOrder == \A d, e \in Day : \A i \in DOMAIN file[d], j \in DOMAIN file[e] :
    d < e \/ (d = e /\ i < j) => file[d][i].ts <= file[e][j].ts

\* The bytes of an entry whose append reported no error stay, all of them and in one
\* place, whatever stops the process and whatever wrote before it had failed; that
\* they are a line of their own is not said here (observability.py:222-223, :249-251).
TrailSurvives == \A entry \in acked :
    \E d \in Day : \E i \in DOMAIN file[d] :
        /\ file[d][i] = entry
        /\ \A e \in Day : \A j \in DOMAIN file[e] : file[e][j] = entry => e = d /\ j = i

\* A line is spoilt by a stop only, and no stop spoils more than one: what a failed
\* write has left of a line is completed by the next, and only the first entry of a
\* restarted process may find a fragment before it on its line, since the file is
\* opened to append and not looked at (observability.py:238, :249-250).
OneLineSpoilt == \A entry, other \in glued :
    entry.run > 0 /\ (entry.run = other.run => entry = other)

\* A rotation that failed does not silence the trail: whoever comes to write has an
\* open file, and it is the current one (observability.py:233-240).
FileIsOpen == \A r \in Recorder : doing[r] = "write" => _fp > 0 /\ _fp = _current_day
=============================================================================
