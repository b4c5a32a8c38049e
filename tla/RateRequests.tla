---------------------------- MODULE RateRequests ----------------------------
(***************************************************************************)
(* GET /rates and GET /score of src/agent/api.py.  The server runs each    *)
(* request in a thread of its pool; they share the smoothed rates, the     *)
(* reader and, in the reader, the last TVL of each protocol.  A thread may *)
(* be interrupted between reading an entry and writing it.                 *)
(***************************************************************************)
EXTENDS Integers, Sequences, FiniteSets

CONSTANTS
    Thread,
    Adapter,             \* adapter indices
    Observations,        \* what a read of a protocol may give: [apy, tvl]
    ALPHA,               \* EMA_ALPHA in parts of Parts
    Parts,
    MaxRequests,         \* bound of the requests a thread serves
    None                 \* dict.get of a missing key; no reader

ASSUME RequestAssumption ==
    /\ IsFiniteSet(Adapter)
    /\ Observations \subseteq [apy : Int, tvl : Nat]
    /\ Parts \in Nat \ {0} /\ ALPHA \in 0 .. Parts
    /\ MaxRequests \in Nat
    /\ None \notin Int \cup Thread

VARIABLES
    _reader,             \* the reader of the server, named for the thread that made it
    _smoothed_rates,
    _prev_tvl,           \* of each reader
    at,                  \* where a thread is
    endpoint,            \* what it serves
    reader,              \* the reader it has got
    todo,                \* the readings it has not handled yet, in order
    found,               \* the entry it has found
    served,              \* requests it has begun
    observed             \* history: all readings

sharedVars == <<_reader, _smoothed_rates, _prev_tvl>>
requestVars == <<sharedVars, at, endpoint, reader, todo, found, served, observed>>

\* ProtocolData, to the fields that are kept.
ProtocolReading == [adapter_index : Adapter, apy : Int, tvl : Nat]

RequestInit ==
    /\ _reader = None
    /\ _smoothed_rates = [i \in Adapter |-> None]
    /\ _prev_tvl = [t \in Thread |-> [i \in Adapter |-> None]]
    /\ at = [t \in Thread |-> "idle"]
    /\ endpoint = [t \in Thread |-> "rates"]
    /\ reader = [t \in Thread |-> None]
    /\ todo = [t \in Thread |-> <<>>]
    /\ found = [t \in Thread |-> None]
    /\ served = [t \in Thread |-> 0]
    /\ observed = {}

MovesOn(t, from, to) == at[t] = from /\ at' = [at EXCEPT ![t] = to]

\* _get_reader finds a reader, or has to make one.
request(t, what) ==
    /\ MovesOn(t, "idle", IF _reader = None THEN "make" ELSE "get")
    /\ served[t] < MaxRequests /\ served' = [served EXCEPT ![t] = @ + 1]
    /\ endpoint' = [endpoint EXCEPT ![t] = what]
    /\ UNCHANGED <<sharedVars, reader, todo, found, observed>>

\* A DataReader without a history.  Of two threads that make one, the later stays.
makeReader(t) ==
    /\ MovesOn(t, "make", "get")
    /\ _reader' = t
    /\ _prev_tvl' = [_prev_tvl EXCEPT ![t] = [i \in Adapter |-> None]]
    /\ UNCHANGED <<_smoothed_rates, endpoint, reader, todo, found, served, observed>>

\* The reader a thread goes on with may be another thread's by now.
getReader(t) ==
    /\ MovesOn(t, "get", "read")
    /\ reader' = [reader EXCEPT ![t] = _reader]
    /\ UNCHANGED <<sharedVars, endpoint, todo, found, served, observed>>

\* What read_all returns: a reading of each protocol that answers, in their order.
Readings ==
    {[adapter_index |-> i, apy |-> o.apy, tvl |-> o.tvl] : i \in Adapter, o \in Observations}

InOrder(list) == \A j, k \in DOMAIN list :
    j < k => list[j].adapter_index < list[k].adapter_index

readProtocols(t, list) ==
    /\ MovesOn(t, "read", "find")
    /\ InOrder(list)
    /\ todo' = [todo EXCEPT ![t] = list]
    /\ observed' = observed \cup {list[j] : j \in DOMAIN list}
    /\ UNCHANGED <<sharedVars, endpoint, reader, found, served>>

\* The protocol a thread handles.
protocol(t) == Head(todo[t])

\* Bug: a rate that is not there counts as zero.
ema_smooth_FromZero(rate, previous) ==
    (ALPHA * rate + (Parts - ALPHA) * (IF previous = None THEN 0 ELSE previous)) \div Parts

ema_smooth(rate, previous) ==
    IF previous = None THEN rate
    ELSE (ALPHA * rate + (Parts - ALPHA) * previous) \div Parts

findSmoothed(t) ==
    /\ MovesOn(t, "find", "smooth")
    /\ todo[t] # <<>>
    /\ found' = [found EXCEPT ![t] = _smoothed_rates[protocol(t).adapter_index]]
    /\ UNCHANGED <<sharedVars, endpoint, reader, todo, served, observed>>

Handled(t) == todo' = [todo EXCEPT ![t] = Tail(@)]

storeSmoothed(t) ==
    /\ MovesOn(t, "smooth", IF endpoint[t] = "score" THEN "findTvl" ELSE "find")
    /\ _smoothed_rates' = [_smoothed_rates EXCEPT ![protocol(t).adapter_index] =
                               ema_smooth(protocol(t).apy, found[t])]
    /\ IF endpoint[t] = "score" THEN UNCHANGED todo ELSE Handled(t)
    /\ UNCHANGED <<_reader, _prev_tvl, endpoint, reader, found, served, observed>>

\* get_tvl_delta: what it returns is for scoring only.
findTvl(t) ==
    /\ MovesOn(t, "findTvl", "storeTvl")
    /\ found' = [found EXCEPT ![t] = _prev_tvl[reader[t]][protocol(t).adapter_index]]
    /\ UNCHANGED <<sharedVars, endpoint, reader, todo, served, observed>>

storeTvl(t) ==
    /\ MovesOn(t, "storeTvl", "find")
    /\ _prev_tvl' = [_prev_tvl EXCEPT ![reader[t]][protocol(t).adapter_index] = protocol(t).tvl]
    /\ Handled(t)
    /\ UNCHANGED <<_reader, _smoothed_rates, endpoint, reader, found, served, observed>>

respond(t) ==
    /\ MovesOn(t, "find", "idle")
    /\ todo[t] = <<>>
    /\ UNCHANGED <<sharedVars, endpoint, reader, todo, found, served, observed>>

threadStep(t) ==
    \/ \E what \in {"rates", "score"} : request(t, what)
    \/ makeReader(t) \/ getReader(t)
    \/ \E n \in 0 .. Cardinality(Adapter) : \E list \in [1 .. n -> Readings] :
           readProtocols(t, list)
    \/ findSmoothed(t) \/ storeSmoothed(t) \/ findTvl(t) \/ storeTvl(t) \/ respond(t)

RequestNext == \E t \in Thread : threadStep(t)

RequestSpec == RequestInit /\ [][RequestNext]_requestVars

-----------------------------------------------------------------------------
(* Properties *)

RequestTypeOK ==
    /\ _reader \in Thread \cup {None}
    /\ _smoothed_rates \in [Adapter -> Int \cup {None}]
    /\ _prev_tvl \in [Thread -> [Adapter -> Nat \cup {None}]]
    /\ at \in [Thread -> {"idle", "make", "get", "read", "find", "smooth", "findTvl", "storeTvl"}]
    /\ endpoint \in [Thread -> {"rates", "score"}]
    /\ reader \in [Thread -> Thread \cup {None}]
    /\ todo \in [Thread -> Seq(ProtocolReading)]
    /\ found \in [Thread -> Int \cup {None}]
    /\ served \in [Thread -> Nat]
    /\ observed \subseteq ProtocolReading

Of(i) == {p \in observed : p.adapter_index = i}

\* However requests interleave, and whatever they overwrite of each other, the
\* smoothed rate of an adapter lies between rates that were read of it, and the last
\* TVL is one that was (api.py:184-185, :211-213).
SharedWithinObserved == \A i \in Adapter :
    /\ _smoothed_rates[i] # None => \E low, high \in Of(i) :
           low.apy <= _smoothed_rates[i] /\ _smoothed_rates[i] <= high.apy
    /\ \A t \in Thread : _prev_tvl[t][i] # None => \E p \in Of(i) : p.tvl = _prev_tvl[t][i]
=============================================================================
