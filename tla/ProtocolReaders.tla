--------------------------- MODULE ProtocolReaders ---------------------------
(***************************************************************************)
(* The readers of src/agent/protocols and the two places that call them:   *)
(* read_all (src/agent/data_reader.py), one reader after the other, and    *)
(* _handle_block (src/agent/per_block_loop.py), at the block it handles.   *)
(* Every request of a reader is a step, and the chain grows between two.   *)
(* The coroutines read_at_block have no await in them: the tasks that      *)
(* asyncio.gather starts run one after the other, each to its end.         *)
(***************************************************************************)
EXTENDS ChainHead, Sequences

CONSTANTS
    Registered,          \* the readers a program may be given, in order
    Market(_, _),        \* Market(reader, block): what the protocol's contracts hold
    SupplyCurve(_),      \* Comet's getSupplyRate of a utilization
    RAY, SCALE_18,       \* scales of rates
    CalendarYear,        \* seconds of 365 days
    JulianYear,          \* seconds of 365.25 days
    Seconds              \* how long a request may take

Reader == {"aave", "compound", "spark", "morpho", "fluid", "euler"}
Legacy == {"aave", "compound"}   \* without read_at_block

\* Comet's getUtilization, in 1e18.
RawUtilization(m) == IF m.supplied = 0 THEN 0 ELSE (m.borrowed * SCALE_18) \div m.supplied

ASSUME ReaderAssumption ==
    /\ Registered \subseteq Seq(Reader)
    /\ {RAY, SCALE_18, CalendarYear, JulianYear} \subseteq Nat \ {0}
    /\ \A r \in Reader, b \in 1 .. MaxBlock :
          /\ Market(r, b) \in [rate : Nat, supplied : Nat, borrowed : Nat]
          /\ SupplyCurve(RawUtilization(Market(r, b))) \in Nat
    /\ Seconds \subseteq Nat

VARIABLES
    readers,             \* those of this one
    caller,              \* who reads
    turn,                \* the reader it is at
    pin,                 \* the block_identifier of requests, or 0: the latest
    answers,             \* the blocks the reader's requests were answered at
    irm,                 \* Morpho's rate model is bound
    results,             \* the snapshots so far
    began,               \* history: the height when the pass began
    elapsed              \* history: how long it has taken

passVars == <<readers, caller, turn, pin, answers, irm, results, began, elapsed>>
readerVars == <<head, passVars>>

-----------------------------------------------------------------------------
(* What the answers say *)

AdapterIndex == [aave |-> 0, compound |-> 1, spark |-> 2, morpho |-> 3, fluid |-> 4, euler |-> 5]

\* A float is a numerator and a denominator; 0/0 is NaN.
NaN == <<0, 0>>

Utilization(borrowed, supplied) ==
    IF supplied = 0 THEN <<0, 1>>
    ELSE IF borrowed < supplied THEN <<borrowed, supplied>> ELSE <<1, 1>>

\* apy and raw_rate_1e18 of an annual rate in RAY, of one per second in RAY and of
\* one per second in 1e18.
RayRate(rate) == [apy |-> <<rate, RAY>>, raw |-> (rate * SCALE_18) \div RAY]

\* Bug: the rate per second is rounded to 1e18 before it is annualized.
RayPerSecond_RoundedFirst(rate) ==
    [apy |-> <<rate * CalendarYear, RAY>>, raw |-> ((rate * SCALE_18) \div RAY) * CalendarYear]

RayPerSecond(rate) ==
    [apy |-> <<rate * CalendarYear, RAY>>, raw |-> (rate * CalendarYear * SCALE_18) \div RAY]

WadPerSecond(rate, year) == [apy |-> <<rate * year, SCALE_18>>, raw |-> rate * year]

Snapshot(reader, rate, utilization, supplied, heights) ==
    [adapter_index |-> AdapterIndex[reader], apy |-> rate.apy, utilization |-> utilization,
     tvl |-> supplied, raw_rate_1e18 |-> rate.raw, heights |-> heights]

\* getReserveData, then the supplies of the aToken and of the debt token.
AaveSnapshot(r, h) ==
    Snapshot(r, RayRate(Market(r, h[1]).rate),
             Utilization(Market(r, h[3]).borrowed, Market(r, h[2]).supplied),
             Market(r, h[2]).supplied, h)

\* Bug: the rate is asked for at the utilization of the moment.
CompoundSnapshot_AsksAgain(r, h) ==
    LET u == RawUtilization(Market(r, h[1]))
        now == RawUtilization(Market(r, h[2]))
    IN  Snapshot(r, WadPerSecond(SupplyCurve(now), JulianYear), Utilization(u, SCALE_18),
                 Market(r, h[3]).supplied, h)

\* getUtilization, getSupplyRate of that utilization, totalSupply.
CompoundSnapshot(r, h) ==
    LET u == RawUtilization(Market(r, h[1]))
    IN  Snapshot(r, WadPerSecond(SupplyCurve(u), JulianYear), Utilization(u, SCALE_18),
                 Market(r, h[3]).supplied, h)

\* One request: getOverallTokenData.
FluidSnapshot(r, h) ==
    LET m == Market(r, h[1])
    IN  Snapshot(r, WadPerSecond(m.rate, CalendarYear), Utilization(m.borrowed, m.supplied),
                 m.supplied, h)

\* market, and the borrow rate of the model for the market that was read.
MorphoSnapshot(r, h) ==
    LET m == Market(r, h[1])
    IN  Snapshot(r, WadPerSecond(Market(r, h[2]).rate, CalendarYear),
                 Utilization(m.borrowed, m.supplied), m.supplied, h)

\* interestRate, totalAssets, totalBorrows.
EulerSnapshot(r, h) ==
    Snapshot(r, RayPerSecond(Market(r, h[1]).rate),
             Utilization(Market(r, h[3]).borrowed, Market(r, h[2]).supplied),
             Market(r, h[2]).supplied, h)

SnapshotOf(r, h) ==
    CASE r \in {"aave", "spark"} -> AaveSnapshot(r, h)
      [] r = "compound" -> CompoundSnapshot(r, h)
      [] r = "fluid" -> FluidSnapshot(r, h)
      [] r = "morpho" -> MorphoSnapshot(r, h)
      [] r = "euler" -> EulerSnapshot(r, h)

\* _stale_snapshot
Stale(r) == Snapshot(r, [apy |-> NaN, raw |-> 0], NaN, 0, <<>>)

\* The requests whose answers a snapshot is made of.
Requests(r) == CASE r = "fluid" -> 1 [] r = "morpho" -> 2 [] OTHER -> 3

-----------------------------------------------------------------------------
(* A pass over the readers *)

current == readers[turn]
Reading == turn \in DOMAIN readers

ReaderInit ==
    /\ head = 1 /\ readers \in Registered
    /\ caller = "none" /\ turn = 0 /\ pin = 0 /\ answers = <<>> /\ irm = FALSE
    /\ results = <<>> /\ began = 1 /\ elapsed = 0

\* read_all, or the handler of one of the blocks announced so far.
begin(by, block) ==
    /\ ~Reading
    /\ caller' = by /\ turn' = 1 /\ pin' = block
    /\ answers' = <<>> /\ results' = <<>>
    /\ began' = head /\ elapsed' = 0
    /\ UNCHANGED <<head, readers, irm>>

readAll == begin("read_all", 0)
handleBlock == \E block \in 1 .. head : begin("_handle_block", block)

\* The reader is done: the next one starts, from the latest block in read_all.
GoesOn(outcome) ==
    /\ turn' = turn + 1
    /\ pin' = IF caller = "read_all" THEN 0 ELSE pin
    /\ answers' = <<>>
    /\ results' = results \o outcome

Pinned == pin > 0
MayRead == Reading /\ (caller = "_handle_block" => current \notin Legacy)

\* read of the newer readers asks for the block first.
askBlock ==
    /\ MayRead /\ current \notin Legacy /\ ~Pinned
    /\ pin' = head
    /\ UNCHANGED <<head, readers, caller, turn, answers, irm, results, began>>

\* Bug: the requests are not pinned.
Answer_Latest == head

Answer == IF Pinned THEN pin ELSE head

\* The model's address is asked for once, and kept whatever follows.
NeedsModel == current = "morpho" /\ ~irm /\ Len(answers) = 1

bindModel ==
    /\ MayRead /\ NeedsModel
    /\ irm' = TRUE
    /\ UNCHANGED <<head, readers, caller, turn, pin, answers, results, began>>

\* The next request is answered, and the last one makes the snapshot.
ask ==
    /\ MayRead /\ (current \in Legacy \/ Pinned) /\ ~NeedsModel
    /\ LET h == Append(answers, Answer)
       IN  IF Len(h) = Requests(current)
           THEN GoesOn(<<SnapshotOf(current, h)>>)
           ELSE answers' = h /\ UNCHANGED <<turn, pin, results>>
    /\ UNCHANGED <<head, readers, caller, irm, began>>

\* Bug: a reader that fails is left out in both.
Failed_Skipped == <<>>

\* read_all skips the reader, _read_one puts a snapshot without rates in its place.
Failed == IF caller = "read_all" THEN <<>> ELSE <<Stale(current)>>

\* A request raises, or read_at_block is not implemented.
raises ==
    /\ Reading
    /\ GoesOn(Failed)
    /\ UNCHANGED <<head, readers, caller, irm, began>>

\* The event loop, or the thread of read_all, is blocked by every request.
readerStep == (askBlock \/ bindModel \/ ask \/ raises) /\ \E s \in Seconds : elapsed' = elapsed + s

ReaderNext ==
    \/ readAll \/ handleBlock
    \/ readerStep
    \/ newBlock /\ UNCHANGED passVars

ReaderSpec == ReaderInit /\ [][ReaderNext]_readerVars

-----------------------------------------------------------------------------
(* Properties *)

Taken == {results[i] : i \in DOMAIN results}

ReaderTypeOK ==
    /\ head \in Nat \ {0} /\ began \in 1 .. head /\ pin \in 0 .. head /\ elapsed \in Nat
    /\ readers \in Registered
    /\ caller \in {"none", "read_all", "_handle_block"} /\ irm \in BOOLEAN
    /\ turn \in 0 .. Len(readers) + 1
    /\ answers \in Seq(1 .. head)
    /\ Taken \subseteq
           [adapter_index : 0 .. 5, apy : Nat \X Nat, utilization : Nat \X Nat, tvl : Nat,
            raw_rate_1e18 : Nat, heights : Seq(1 .. head)]

Newer(s) == s.adapter_index \notin {AdapterIndex[r] : r \in Legacy}

\* However the chain moves between the requests of a reader, a snapshot of the newer
\* ones shows one block: the one that is handled, or one of the pass (spark.py,
\* morpho.py, fluid.py, euler.py read_at_block: block_identifier on every call).
OneBlock == \A s \in Taken : Newer(s) =>
    \E b \in IF caller = "_handle_block" THEN {pin} ELSE began .. head :
        \A i \in DOMAIN s.heights : s.heights[i] = b

\* Compound's rate and utilization belong together, although it reads them in two
\* requests and neither is pinned (compound.py read).
RateOfUtilization == \A s \in Taken :
    s.adapter_index = AdapterIndex["compound"] /\ s.apy # NaN =>
        \E b \in began .. head : LET u == RawUtilization(Market("compound", b)) IN
            /\ s.utilization = Utilization(u, SCALE_18)
            /\ s.raw_rate_1e18 = SupplyCurve(u) * JulianYear

\* The rate that is smoothed is the one that is shown, cut to 1e18, whatever scale
\* and period the protocol states it in (protocols/*.py: apy and raw_rate_1e18).
RatesAgree == \A s \in Taken : s.apy # NaN =>
    LET scaled == s.apy[1] * SCALE_18
        cut == s.raw_rate_1e18 * s.apy[2]
    IN  cut <= scaled /\ scaled < cut + s.apy[2]

\* _handle_block pairs snapshots with labels by their place, and a reader that fails
\* does not move the others; what read_all returns is in the readers' order.
SnapshotsLineUp == \E from \in [DOMAIN results -> DOMAIN readers] :
    /\ \A i, j \in DOMAIN results : i < j => from[i] < from[j]
    /\ \A i \in DOMAIN results : results[i].adapter_index = AdapterIndex[readers[from[i]]]
    /\ caller = "_handle_block" =>
          Len(results) = turn - 1 /\ \A i \in DOMAIN results : from[i] = i
=============================================================================
