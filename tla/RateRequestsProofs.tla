------------------------- MODULE RateRequestsProofs -------------------------
(***************************************************************************)
(* The rates and TVLs that the server's requests share, for any number of  *)
(* threads, adapters and requests, any readings and any weight.            *)
(***************************************************************************)
EXTENDS RateRequests, SequenceTheorems, FiniteSetTheorems, TLAPS

Phase == {"idle", "make", "get", "read", "find", "smooth", "findTvl", "storeTvl"}

\* x lies between rates read of adapter i.
Between(x, i) == \E low, high \in Of(i) : low.apy <= x /\ x <= high.apy

\* Truncating division, of integers of either sign.
LEMMA DivWithin ==
    ASSUME NEW x \in Int, NEW low \in Int, NEW high \in Int, NEW b \in Nat \ {0},
           low * b <= x, x <= high * b
    PROVE  x \div b \in Int /\ low <= x \div b /\ x \div b <= high
  <1>. DEFINE q == x \div b
  <1>1. q \in Int /\ b * q <= x /\ x < b * q + b
    OBVIOUS
  <1>. HIDE DEF q
  <1>2. ASSUME q < low PROVE FALSE
    <2>1. b * (q + 1) <= b * low /\ b * (q + 1) = b * q + b /\ b * low = low * b
      BY <1>1, <1>2
    <2>. QED  BY <1>1, <2>1
  <1>3. ASSUME high < q PROVE FALSE
    <2>1. b * (high + 1) <= b * q /\ b * (high + 1) = high * b + b
      BY <1>1, <1>3
    <2>. QED  BY <1>1, <2>1
  <1>. QED  BY <1>1, <1>2, <1>3 DEF q

\* The weighted mean of two numbers lies where both do (main.py ema_smooth).
LEMMA EmaWithin ==
    ASSUME NEW r \in Int, NEW p \in Int, NEW low \in Int, NEW high \in Int,
           low <= r, r <= high, low <= p, p <= high
    PROVE  ema_smooth(r, p) \in Int /\ low <= ema_smooth(r, p) /\ ema_smooth(r, p) <= high
  <1>. DEFINE rest == Parts - ALPHA
              sum == ALPHA * r + rest * p
  <1>1. ALPHA \in Nat /\ rest \in Nat /\ Parts \in Nat \ {0} /\ ALPHA + rest = Parts
    BY RequestAssumption
  <1>2. ema_smooth(r, p) = sum \div Parts
    BY RequestAssumption DEF ema_smooth
  <1>. HIDE DEF rest
  <1>3. /\ ALPHA * low <= ALPHA * r /\ ALPHA * r <= ALPHA * high
        /\ rest * low <= rest * p /\ rest * p <= rest * high
    BY <1>1
  <1>4. low * Parts = ALPHA * low + rest * low /\ high * Parts = ALPHA * high + rest * high
    BY <1>1
  <1>5. sum \in Int /\ low * Parts <= sum /\ sum <= high * Parts
    BY <1>1, <1>3, <1>4
  <1>. HIDE DEF sum
  <1>. QED  BY <1>1, <1>2, <1>5, DivWithin

\* What a thread holds has been read: its readings, the smoothed rate it has found,
\* and the reader it goes on with.
ThreadKnows(t) ==
    /\ \A j \in DOMAIN todo[t] : todo[t][j] \in observed
    /\ at[t] \in {"smooth", "findTvl", "storeTvl"} => todo[t] # <<>>
    /\ at[t] = "smooth" /\ found[t] # None => Between(found[t], protocol(t).adapter_index)
    /\ at[t] = "get" => _reader # None
    /\ at[t] \in {"read", "find", "smooth", "findTvl", "storeTvl"} => reader[t] # None

RequestsKnow == RequestTypeOK /\ SharedWithinObserved /\ \A t \in Thread : ThreadKnows(t)

\* More readings, or another reader, take nothing away from what a thread knows
\* that does not move.
LEMMA OthersKnow ==
    ASSUME NEW u \in Thread, ThreadKnows(u), observed \subseteq observed',
           at'[u] = at[u], todo'[u] = todo[u], found'[u] = found[u], reader'[u] = reader[u],
           _reader # None => _reader' # None
    PROVE  ThreadKnows(u)'
  <1>1. ASSUME NEW x, NEW i, Between(x, i) PROVE Between(x, i)'
    BY <1>1 DEF Between, Of
  <1>2. protocol(u)' = protocol(u)
    BY DEF protocol
  <1>. QED  BY <1>1, <1>2 DEF ThreadKnows

\* Nor does it change what the shared entries are.
LEMMA SharedStays ==
    ASSUME SharedWithinObserved, observed \subseteq observed',
           UNCHANGED <<_smoothed_rates, _prev_tvl>>
    PROVE  SharedWithinObserved'
  <1>1. \A i : Of(i) \subseteq Of(i)'
    BY DEF Of
  <1>. QED  BY <1>1 DEF SharedWithinObserved

LEMMA RequestKnows ==
    ASSUME RequestsKnow, NEW t \in Thread, NEW what \in {"rates", "score"}, request(t, what)
    PROVE  RequestsKnow'
  <1>. USE DEF RequestsKnow
  <1>1. RequestTypeOK'
    BY DEF request, MovesOn, RequestTypeOK, sharedVars
  <1>2. ASSUME NEW u \in Thread PROVE ThreadKnows(u)'
    <2>1. CASE u = t
      BY <2>1 DEF request, MovesOn, sharedVars, ThreadKnows, RequestTypeOK
    <2>2. CASE u # t
      <3>1. at'[u] = at[u] /\ todo' = todo /\ found' = found /\ reader' = reader
            /\ observed' = observed /\ _reader' = _reader
        BY <2>2 DEF request, MovesOn, sharedVars, RequestTypeOK
      <3>. QED  BY <3>1, OthersKnow
    <2>. QED  BY <2>1, <2>2
  <1>. QED  BY <1>1, <1>2, SharedStays DEF request, sharedVars

LEMMA MakeReaderKnows ==
    ASSUME RequestsKnow, NEW t \in Thread, makeReader(t)
    PROVE  RequestsKnow'
  <1>. USE DEF RequestsKnow
  <1>1. RequestTypeOK'
    BY DEF makeReader, MovesOn, RequestTypeOK
  <1>2. t # None
    BY RequestAssumption
  <1>3. ASSUME NEW u \in Thread PROVE ThreadKnows(u)'
    <2>1. CASE u = t
      BY <1>2, <2>1 DEF makeReader, MovesOn, ThreadKnows, RequestTypeOK
    <2>2. CASE u # t
      <3>1. at'[u] = at[u] /\ todo' = todo /\ found' = found /\ reader' = reader
            /\ observed' = observed /\ _reader' # None
        BY <1>2, <2>2 DEF makeReader, MovesOn, RequestTypeOK
      <3>. QED  BY <3>1, OthersKnow
    <2>. QED  BY <2>1, <2>2
  <1>4. SharedWithinObserved'
    <2>1. /\ _smoothed_rates' = _smoothed_rates /\ observed' = observed
          /\ \A u \in Thread, i \in Adapter :
                _prev_tvl'[u][i] = _prev_tvl[u][i] \/ _prev_tvl'[u][i] = None
      BY DEF makeReader, RequestTypeOK
    <2>. QED  BY <2>1 DEF SharedWithinObserved, Of
  <1>. QED  BY <1>1, <1>3, <1>4

LEMMA GetReaderKnows ==
    ASSUME RequestsKnow, NEW t \in Thread, getReader(t)
    PROVE  RequestsKnow'
  <1>. USE DEF RequestsKnow
  <1>1. RequestTypeOK'
    BY DEF getReader, MovesOn, RequestTypeOK, sharedVars
  <1>2. ASSUME NEW u \in Thread PROVE ThreadKnows(u)'
    <2>1. CASE u = t
      BY <2>1 DEF getReader, MovesOn, sharedVars, ThreadKnows, RequestTypeOK
    <2>2. CASE u # t
      <3>1. at'[u] = at[u] /\ todo' = todo /\ found' = found /\ reader'[u] = reader[u]
            /\ observed' = observed /\ _reader' = _reader
        BY <2>2 DEF getReader, MovesOn, sharedVars, RequestTypeOK
      <3>. QED  BY <3>1, OthersKnow
    <2>. QED  BY <2>1, <2>2
  <1>. QED  BY <1>1, <1>2, SharedStays DEF getReader, sharedVars

LEMMA ReadKnows ==
    ASSUME RequestsKnow, NEW t \in Thread, NEW n \in 0 .. Cardinality(Adapter),
           NEW list \in [1 .. n -> Readings], readProtocols(t, list)
    PROVE  RequestsKnow'
  <1>. USE DEF RequestsKnow
  <1>0. Readings \subseteq ProtocolReading /\ list \in Seq(ProtocolReading)
    <2>1. Readings \subseteq ProtocolReading
      BY RequestAssumption DEF Readings, ProtocolReading
    <2>2. n \in Nat
      BY RequestAssumption, FS_CardinalityType
    <2>. QED  BY <2>1, <2>2
  <1>1. RequestTypeOK'
    <2>1. {list[j] : j \in DOMAIN list} \subseteq ProtocolReading
      BY <1>0
    <2>. QED  BY <1>0, <2>1 DEF readProtocols, MovesOn, RequestTypeOK, sharedVars
  <1>2. ASSUME NEW u \in Thread PROVE ThreadKnows(u)'
    <2>1. CASE u = t
      <3>1. todo'[t] = list /\ \A j \in DOMAIN list : list[j] \in observed'
        BY DEF readProtocols, RequestTypeOK
      <3>2. at[t] = "read" /\ at'[t] = "find" /\ reader'[t] = reader[t]
        BY DEF readProtocols, MovesOn, RequestTypeOK
      <3>. QED  BY <2>1, <3>1, <3>2 DEF ThreadKnows
    <2>2. CASE u # t
      <3>1. at'[u] = at[u] /\ todo'[u] = todo[u] /\ found' = found /\ reader' = reader
            /\ observed \subseteq observed' /\ _reader' = _reader
        BY <2>2 DEF readProtocols, MovesOn, sharedVars, RequestTypeOK
      <3>. QED  BY <3>1, OthersKnow
    <2>. QED  BY <2>1, <2>2
  <1>. QED  BY <1>1, <1>2, SharedStays DEF readProtocols, sharedVars

\* The reading a thread handles.
LEMMA HeadRead ==
    ASSUME RequestTypeOK, NEW t \in Thread, ThreadKnows(t), todo[t] # <<>>
    PROVE  /\ protocol(t) \in observed /\ protocol(t) \in Of(protocol(t).adapter_index)
           /\ protocol(t).adapter_index \in Adapter /\ protocol(t).apy \in Int
           /\ protocol(t).tvl \in Nat
           /\ Tail(todo[t]) \in Seq(ProtocolReading)
           /\ \A j \in DOMAIN Tail(todo[t]) : Tail(todo[t])[j] \in observed
  <1>1. todo[t] \in Seq(ProtocolReading)
    BY DEF RequestTypeOK
  <1>2. protocol(t) = todo[t][1] /\ 1 \in DOMAIN todo[t]
    BY <1>1 DEF protocol
  <1>3. protocol(t) \in observed /\ protocol(t) \in ProtocolReading
    BY <1>2 DEF ThreadKnows, RequestTypeOK
  <1>4. ASSUME NEW j \in DOMAIN Tail(todo[t]) PROVE Tail(todo[t])[j] \in observed
    <2>1. Tail(todo[t])[j] = todo[t][j + 1] /\ j + 1 \in DOMAIN todo[t]
      BY <1>1, <1>4
    <2>. QED  BY <2>1 DEF ThreadKnows
  <1>. QED  BY <1>1, <1>3, <1>4 DEF Of, ProtocolReading

LEMMA FindSmoothedKnows ==
    ASSUME RequestsKnow, NEW t \in Thread, findSmoothed(t)
    PROVE  RequestsKnow'
  <1>. USE DEF RequestsKnow
  <1>0. todo[t] # <<>> /\ protocol(t).adapter_index \in Adapter
    BY HeadRead DEF findSmoothed
  <1>1. RequestTypeOK'
    BY <1>0 DEF findSmoothed, MovesOn, RequestTypeOK, sharedVars
  <1>2. ASSUME NEW u \in Thread PROVE ThreadKnows(u)'
    <2>1. CASE u = t
      <3>1. /\ at[t] = "find" /\ at'[t] = "smooth" /\ todo' = todo /\ reader' = reader
            /\ observed' = observed
            /\ found'[t] = _smoothed_rates[protocol(t).adapter_index]
        BY DEF findSmoothed, MovesOn, RequestTypeOK
      <3>2. found'[t] # None => Between(found'[t], protocol(t).adapter_index)
        BY <1>0, <3>1 DEF SharedWithinObserved, Between
      <3>3. protocol(t)' = protocol(t)
        BY <3>1 DEF protocol
      <3>4. found'[t] # None => Between(found[t], protocol(t).adapter_index)'
        BY <3>1, <3>2, <3>3 DEF Between, Of
      <3>. QED  BY <1>0, <2>1, <3>1, <3>4 DEF ThreadKnows
    <2>2. CASE u # t
      <3>1. at'[u] = at[u] /\ todo' = todo /\ found'[u] = found[u] /\ reader' = reader
            /\ observed' = observed /\ _reader' = _reader
        BY <2>2 DEF findSmoothed, MovesOn, sharedVars, RequestTypeOK
      <3>. QED  BY <3>1, OthersKnow
    <2>. QED  BY <2>1, <2>2
  <1>. QED  BY <1>1, <1>2, SharedStays DEF findSmoothed, sharedVars

\* The rate a thread stores lies within what was read, also when the entry it
\* found has been overwritten since.
LEMMA SmoothedWithin ==
    ASSUME RequestsKnow, NEW t \in Thread, at[t] = "smooth"
    PROVE  /\ ema_smooth(protocol(t).apy, found[t]) \in Int
           /\ Between(ema_smooth(protocol(t).apy, found[t]), protocol(t).adapter_index)
  <1>. DEFINE p == protocol(t)
              i == p.adapter_index
  <1>1. p \in Of(i) /\ p.apy \in Int
    BY HeadRead DEF RequestsKnow, ThreadKnows
  <1>2. \A q \in Of(i) : q.apy \in Int
    BY DEF Of, RequestsKnow, RequestTypeOK, ProtocolReading
  <1>3. CASE found[t] = None
    <2>1. ema_smooth(p.apy, found[t]) = p.apy
      BY <1>3 DEF ema_smooth
    <2>2. p.apy <= p.apy
      BY <1>1
    <2>. QED  BY <1>1, <2>1, <2>2 DEF Between
  <1>4. CASE found[t] # None
    <2>1. found[t] \in Int /\ Between(found[t], i)
      BY <1>4 DEF RequestsKnow, RequestTypeOK, ThreadKnows
    <2>2. PICK a \in Of(i), b \in Of(i) : a.apy <= found[t] /\ found[t] <= b.apy
      BY <2>1 DEF Between
    <2>. HIDE DEF p, i
    <2>3. PICK low \in Of(i) : low.apy <= a.apy /\ low.apy <= p.apy
      BY <1>1, <1>2
    <2>4. PICK high \in Of(i) : b.apy <= high.apy /\ p.apy <= high.apy
      BY <1>1, <1>2
    <2>5. /\ low.apy \in Int /\ high.apy \in Int /\ low.apy <= p.apy /\ p.apy <= high.apy
          /\ low.apy <= found[t] /\ found[t] <= high.apy
      BY <1>2, <2>1, <2>2, <2>3, <2>4
    <2>6. /\ ema_smooth(p.apy, found[t]) \in Int
          /\ low.apy <= ema_smooth(p.apy, found[t]) /\ ema_smooth(p.apy, found[t]) <= high.apy
      BY <1>1, <2>1, <2>5, EmaWithin
    <2>. QED  BY <2>6 DEF Between, p, i
  <1>. QED  BY <1>3, <1>4

LEMMA StoreSmoothedKnows ==
    ASSUME RequestsKnow, NEW t \in Thread, storeSmoothed(t)
    PROVE  RequestsKnow'
  <1>. DEFINE i == protocol(t).adapter_index
              ema == ema_smooth(protocol(t).apy, found[t])
  <1>0. /\ RequestTypeOK /\ SharedWithinObserved /\ ThreadKnows(t)
        /\ at[t] = "smooth" /\ todo[t] # <<>> /\ i \in Adapter
        /\ ema \in Int /\ Between(ema, i)
        /\ Tail(todo[t]) \in Seq(ProtocolReading)
        /\ \A j \in DOMAIN Tail(todo[t]) : Tail(todo[t])[j] \in observed
    BY HeadRead, SmoothedWithin DEF RequestsKnow, ThreadKnows, storeSmoothed, MovesOn
  <1>1. /\ _smoothed_rates' = [_smoothed_rates EXCEPT ![i] = ema]
        /\ _reader' = _reader /\ _prev_tvl' = _prev_tvl /\ endpoint' = endpoint
        /\ reader' = reader /\ found' = found /\ served' = served /\ observed' = observed
    BY DEF storeSmoothed
  <1>2. \/ at' = [at EXCEPT ![t] = "findTvl"] /\ todo' = todo
        \/ at' = [at EXCEPT ![t] = "find"] /\ todo' = [todo EXCEPT ![t] = Tail(@)]
    BY DEF storeSmoothed, MovesOn, Handled
  <1>. HIDE DEF i, ema
  <1>3. RequestTypeOK'
    <2>1. at' \in [Thread -> Phase] /\ todo' \in [Thread -> Seq(ProtocolReading)]
      BY <1>0, <1>2 DEF RequestTypeOK, Phase
    <2>. QED  BY <1>0, <1>1, <2>1 DEF RequestTypeOK, Phase
  <1>4. ASSUME NEW u \in Thread PROVE ThreadKnows(u)'
    <2>1. CASE u = t
      <3>1. \/ at'[t] = "findTvl" /\ todo'[t] = todo[t]
            \/ at'[t] = "find" /\ todo'[t] = Tail(todo[t])
        BY <1>0, <1>2 DEF RequestTypeOK
      <3>. QED  BY <1>0, <1>1, <2>1, <3>1 DEF ThreadKnows
    <2>2. CASE u # t
      <3>1. at'[u] = at[u] /\ todo'[u] = todo[u]
        BY <1>0, <1>2, <2>2 DEF RequestTypeOK
      <3>. QED  BY <1>1, <3>1, OthersKnow DEF RequestsKnow
    <2>. QED  BY <2>1, <2>2
  <1>5. SharedWithinObserved'
    <2>1. \A k : Of(k)' = Of(k)
      BY <1>1 DEF Of
    <2>2. ASSUME NEW k \in Adapter, _smoothed_rates'[k] # None
          PROVE  Between(_smoothed_rates'[k], k)
      <3>1. CASE k = i
        BY <1>0, <1>1, <2>2, <3>1 DEF RequestTypeOK
      <3>2. CASE k # i
        BY <1>0, <1>1, <2>2, <3>2 DEF SharedWithinObserved, Between, RequestTypeOK
      <3>. QED  BY <3>1, <3>2
    <2>. QED  BY <1>0, <1>1, <2>1, <2>2 DEF SharedWithinObserved, Between
  <1>. QED  BY <1>3, <1>4, <1>5 DEF RequestsKnow

LEMMA FindTvlKnows ==
    ASSUME RequestsKnow, NEW t \in Thread, findTvl(t)
    PROVE  RequestsKnow'
  <1>. USE DEF RequestsKnow
  <1>0. /\ at[t] = "findTvl" /\ todo[t] # <<>> /\ reader[t] \in Thread
        /\ protocol(t).adapter_index \in Adapter
    BY HeadRead DEF findTvl, MovesOn, ThreadKnows, RequestTypeOK
  <1>1. _prev_tvl[reader[t]][protocol(t).adapter_index] \in Int \cup {None}
    BY <1>0 DEF RequestTypeOK
  <1>2. RequestTypeOK'
    BY <1>1 DEF findTvl, MovesOn, RequestTypeOK, sharedVars
  <1>3. ASSUME NEW u \in Thread PROVE ThreadKnows(u)'
    <2>1. CASE u = t
      <3>1. /\ at'[t] = "storeTvl" /\ todo' = todo /\ reader' = reader /\ observed' = observed
        BY DEF findTvl, MovesOn, RequestTypeOK
      <3>. QED  BY <1>0, <2>1, <3>1 DEF ThreadKnows
    <2>2. CASE u # t
      <3>1. at'[u] = at[u] /\ todo' = todo /\ found'[u] = found[u] /\ reader' = reader
            /\ observed' = observed /\ _reader' = _reader
        BY <2>2 DEF findTvl, MovesOn, sharedVars, RequestTypeOK
      <3>. QED  BY <3>1, OthersKnow
    <2>. QED  BY <2>1, <2>2
  <1>. QED  BY <1>2, <1>3, SharedStays DEF findTvl, sharedVars

LEMMA StoreTvlKnows ==
    ASSUME RequestsKnow, NEW t \in Thread, storeTvl(t)
    PROVE  RequestsKnow'
  <1>. DEFINE p == protocol(t)
              i == p.adapter_index
              r == reader[t]
  <1>0. /\ RequestTypeOK /\ SharedWithinObserved /\ ThreadKnows(t)
        /\ at[t] = "storeTvl" /\ todo[t] # <<>> /\ r \in Thread
        /\ i \in Adapter /\ p \in Of(i) /\ p.tvl \in Nat
        /\ Tail(todo[t]) \in Seq(ProtocolReading)
        /\ \A j \in DOMAIN Tail(todo[t]) : Tail(todo[t])[j] \in observed
    BY HeadRead DEF RequestsKnow, storeTvl, MovesOn, ThreadKnows, RequestTypeOK
  <1>1. /\ _prev_tvl' = [_prev_tvl EXCEPT ![r][i] = p.tvl]
        /\ at' = [at EXCEPT ![t] = "find"] /\ todo' = [todo EXCEPT ![t] = Tail(@)]
        /\ _reader' = _reader /\ _smoothed_rates' = _smoothed_rates /\ endpoint' = endpoint
        /\ reader' = reader /\ found' = found /\ served' = served /\ observed' = observed
    BY DEF storeTvl, MovesOn, Handled
  <1>. HIDE DEF p, i, r
  <1>2. RequestTypeOK'
    <2>1. at' \in [Thread -> Phase] /\ todo' \in [Thread -> Seq(ProtocolReading)]
      BY <1>0, <1>1 DEF RequestTypeOK, Phase
    <2>2. _prev_tvl' \in [Thread -> [Adapter -> Nat \cup {None}]]
      BY <1>0, <1>1 DEF RequestTypeOK
    <2>. QED  BY <1>0, <1>1, <2>1, <2>2 DEF RequestTypeOK, Phase
  <1>3. ASSUME NEW u \in Thread PROVE ThreadKnows(u)'
    <2>1. CASE u = t
      <3>1. at'[t] = "find" /\ todo'[t] = Tail(todo[t])
        BY <1>0, <1>1 DEF RequestTypeOK
      <3>. QED  BY <1>0, <1>1, <2>1, <3>1 DEF ThreadKnows
    <2>2. CASE u # t
      <3>1. at'[u] = at[u] /\ todo'[u] = todo[u]
        BY <1>0, <1>1, <2>2 DEF RequestTypeOK
      <3>. QED  BY <1>1, <3>1, OthersKnow DEF RequestsKnow
    <2>. QED  BY <2>1, <2>2
  <1>4. SharedWithinObserved'
    <2>1. \A k : Of(k)' = Of(k)
      BY <1>1 DEF Of
    <2>2. ASSUME NEW k \in Adapter, NEW u \in Thread, _prev_tvl'[u][k] # None
          PROVE  \E q \in Of(k) : q.tvl = _prev_tvl'[u][k]
      <3>1. CASE u = r /\ k = i
        <4>1. _prev_tvl'[u][k] = p.tvl
          BY <1>0, <1>1, <3>1 DEF RequestTypeOK
        <4>. QED  BY <1>0, <3>1, <4>1
      <3>2. CASE ~(u = r /\ k = i)
        <4>1. _prev_tvl'[u][k] = _prev_tvl[u][k]
          BY <1>0, <1>1, <3>2 DEF RequestTypeOK
        <4>. QED  BY <1>0, <2>2, <4>1 DEF SharedWithinObserved
      <3>. QED  BY <3>1, <3>2
    <2>. QED  BY <1>0, <1>1, <2>1, <2>2 DEF SharedWithinObserved
  <1>. QED  BY <1>2, <1>3, <1>4 DEF RequestsKnow

LEMMA RespondKnows ==
    ASSUME RequestsKnow, NEW t \in Thread, respond(t)
    PROVE  RequestsKnow'
  <1>. USE DEF RequestsKnow
  <1>1. RequestTypeOK'
    BY DEF respond, MovesOn, RequestTypeOK, sharedVars
  <1>2. ASSUME NEW u \in Thread PROVE ThreadKnows(u)'
    <2>1. CASE u = t
      BY <2>1 DEF respond, MovesOn, sharedVars, ThreadKnows, RequestTypeOK
    <2>2. CASE u # t
      <3>1. at'[u] = at[u] /\ todo' = todo /\ found' = found /\ reader' = reader
            /\ observed' = observed /\ _reader' = _reader
        BY <2>2 DEF respond, MovesOn, sharedVars, RequestTypeOK
      <3>. QED  BY <3>1, OthersKnow
    <2>. QED  BY <2>1, <2>2
  <1>. QED  BY <1>1, <1>2, SharedStays DEF respond, sharedVars

LEMMA RequestsKnowAlways == RequestSpec => []RequestsKnow
  <1>1. RequestInit => RequestsKnow
    BY DEF RequestInit, RequestsKnow, RequestTypeOK, SharedWithinObserved, ThreadKnows
  <1>2. RequestsKnow /\ [RequestNext]_requestVars => RequestsKnow'
    <2>. SUFFICES ASSUME RequestsKnow, [RequestNext]_requestVars PROVE RequestsKnow'
      OBVIOUS
    <2>1. CASE UNCHANGED requestVars
      <3>1. /\ observed' = observed /\ at' = at /\ todo' = todo /\ found' = found
            /\ reader' = reader /\ UNCHANGED sharedVars
        BY <2>1 DEF requestVars
      <3>2. \A u \in Thread : ThreadKnows(u)'
        BY <3>1, OthersKnow DEF RequestsKnow, sharedVars
      <3>. QED  BY <2>1, <3>1, <3>2, SharedStays
                DEF RequestsKnow, requestVars, sharedVars, RequestTypeOK
    <2>2. ASSUME NEW t \in Thread, threadStep(t) PROVE RequestsKnow'
      BY <2>2, RequestKnows, MakeReaderKnows, GetReaderKnows, ReadKnows, FindSmoothedKnows,
         StoreSmoothedKnows, FindTvlKnows, StoreTvlKnows, RespondKnows DEF threadStep
    <2>. QED  BY <2>1, <2>2 DEF RequestNext
  <1>. QED  BY <1>1, <1>2, PTL DEF RequestSpec

-----------------------------------------------------------------------------

\* A thread never works on an entry, or with a reader, that is not there, in any
\* interleaving of requests.
THEOREM RequestTypes == RequestSpec => []RequestTypeOK
  <1>1. RequestsKnow => RequestTypeOK
    BY DEF RequestsKnow
  <1>. QED  BY <1>1, RequestsKnowAlways, PTL

\* However many requests interleave, what they share stays within what was read:
\* every smoothed rate between two rates read of its adapter, every last TVL one
\* that was read (api.py:184-185, :211-213).
THEOREM RatesWithinObserved == RequestSpec => []SharedWithinObserved
  <1>1. RequestsKnow => SharedWithinObserved
    BY DEF RequestsKnow
  <1>. QED  BY <1>1, RequestsKnowAlways, PTL

=============================================================================
