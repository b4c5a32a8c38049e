--------------------------- MODULE ServicesProofs ---------------------------
(***************************************************************************)
(* The agent's services: for any chain, markets and scales of rates, any   *)
(* block offset, and any number of days, records and stops.                *)
(***************************************************************************)
EXTENDS AgentServices, RateRequestsProofs

-----------------------------------------------------------------------------
(* A private transaction *)

Waiting == {"receipt", "height", "sleep"}

\* Where the client is, for what it counts.
ClientInv ==
    /\ RelayTypeOK
    /\ phase \in Waiting => polls < max_block_offset
    /\ phase \in {"start", "nonce", "block", "mock", "post"} => polls = 0 /\ ~posted
    /\ phase \in {"answer", "wait"} => polls = 0

\* What the relay has of the client, and how long it can be included.
DeadlineInv ==
    /\ dry_run => ~posted /\ phase \notin {"post", "answer"}
    /\ includedAt > 0 => posted /\ includedAt <= maxBlock
    /\ phase # "done" => maxBlock <= head + Offset
    /\ phase \in Waiting => maxBlock + max_block_offset <= deadline + Offset
    /\ outcome # "none" => phase = "done"
    /\ outcome = "deadline" => maxBlock + max_block_offset <= endedAt + Offset
    /\ outcome = "timedOut" => maxBlock <= endedAt + Offset

ClientInvariant == ClientInv /\ DeadlineInv

USE RelayAssumption, ChainAssumption

LEMMA ClientTypes ==
    ASSUME ClientInv, clientStep
    PROVE  ClientInv'
  <1>. USE DEF ClientInv, RelayTypeOK, Waiting, KeepProgram, Ends, GoesTo
  <1>1. CASE construct
    <2>1. RelayTypeOK'
      BY <1>1 DEF construct
    <2>2. ClientInv'
      BY <1>1 DEF construct
    <2>. QED  BY <2>1, <2>2
  <1>2. CASE getNonce
    <2>1. RelayTypeOK'
      BY <1>2 DEF getNonce
    <2>2. ClientInv'
      BY <1>2 DEF getNonce
    <2>. QED  BY <2>1, <2>2
  <1>3. CASE expiry
    <2>1. RelayTypeOK'
      BY <1>3 DEF expiry, AfterBlock
    <2>2. ClientInv'
      BY <1>3 DEF expiry, AfterBlock
    <2>. QED  BY <2>1, <2>2
  <1>4. CASE mockHash
    <2>1. RelayTypeOK'
      BY <1>4 DEF mockHash
    <2>2. ClientInv'
      BY <1>4 DEF mockHash
    <2>. QED  BY <2>1, <2>2
  <1>5. CASE post
    <2>1. posted' \in BOOLEAN
      BY <1>5 DEF post
    <2>2. phase' \in {"answer", "done"} /\ outcome' \in {outcome, "raised"} /\ endedAt' \in 0 .. head
      BY <1>5 DEF post
    <2>3. UNCHANGED <<head, max_block_offset, dry_run, smoke, keysDiffer, includedAt, maxBlock, deadline, polls>>
      BY <1>5 DEF post
    <2>4. polls = 0
      BY <1>5 DEF post
    <2>. QED  BY <2>1, <2>2, <2>3, <2>4
  <1>6. CASE answer
    <2>1. RelayTypeOK'
      BY <1>6 DEF answer
    <2>2. ClientInv'
      BY <1>6 DEF answer
    <2>. QED  BY <2>1, <2>2
  <1>7. CASE fails
    <2>1. RelayTypeOK'
      BY <1>7 DEF fails
    <2>2. ClientInv'
      BY <1>7 DEF fails
    <2>. QED  BY <2>1, <2>2
  <1>8. CASE startWait
    <2>1. RelayTypeOK'
      BY <1>8 DEF startWait, Polls, WaitsUntil
    <2>2. ClientInv'
      BY <1>8 DEF startWait, Polls, WaitsUntil
    <2>. QED  BY <2>1, <2>2
  <1>9. CASE askReceipt
    <2>1. RelayTypeOK'
      BY <1>9 DEF askReceipt
    <2>2. ClientInv'
      BY <1>9 DEF askReceipt
    <2>. QED  BY <2>1, <2>2
  <1>10. CASE askHeight
    <2>1. RelayTypeOK'
      BY <1>10 DEF askHeight
    <2>2. ClientInv'
      BY <1>10 DEF askHeight
    <2>. QED  BY <2>1, <2>2
  <1>11. CASE wakes
    <2>1. RelayTypeOK'
      BY <1>11 DEF wakes, Polls, Counted
    <2>2. ClientInv'
      BY <1>11 DEF wakes, Polls, Counted
    <2>. QED  BY <2>1, <2>2
  <1>. QED
    BY <1>1, <1>2, <1>3, <1>4, <1>5, <1>6, <1>7, <1>8, <1>9, <1>10, <1>11 DEF clientStep

LEMMA DeadlineKept ==
    ASSUME ClientInvariant, clientStep
    PROVE  DeadlineInv'
  <1>. USE DEF ClientInvariant, ClientInv, DeadlineInv, RelayTypeOK, Waiting, KeepProgram, Ends, GoesTo
  <1>1. CASE construct
    <2>1. (dry_run => ~posted /\ phase \notin {"post", "answer"})'
      BY <1>1 DEF construct
    <2>2. (includedAt > 0 => posted /\ includedAt <= maxBlock)'
      BY <1>1 DEF construct
    <2>3. DeadlineInv'
      BY <1>1 DEF construct
    <2>. QED  BY <2>1, <2>2, <2>3
  <1>2. CASE getNonce
    <2>1. (dry_run => ~posted /\ phase \notin {"post", "answer"})'
      BY <1>2 DEF getNonce
    <2>2. (includedAt > 0 => posted /\ includedAt <= maxBlock)'
      BY <1>2 DEF getNonce
    <2>3. DeadlineInv'
      BY <1>2 DEF getNonce
    <2>. QED  BY <2>1, <2>2, <2>3
  <1>3. CASE expiry
    <2>1. (dry_run => ~posted /\ phase \notin {"post", "answer"})'
      BY <1>3 DEF expiry, AfterBlock
    <2>2. (includedAt > 0 => posted /\ includedAt <= maxBlock)'
      BY <1>3 DEF expiry, AfterBlock
    <2>3. DeadlineInv'
      BY <1>3 DEF expiry, AfterBlock
    <2>. QED  BY <2>1, <2>2, <2>3
  <1>4. CASE mockHash
    <2>1. (dry_run => ~posted /\ phase \notin {"post", "answer"})'
      BY <1>4 DEF mockHash
    <2>2. (includedAt > 0 => posted /\ includedAt <= maxBlock)'
      BY <1>4 DEF mockHash
    <2>3. DeadlineInv'
      BY <1>4 DEF mockHash
    <2>. QED  BY <2>1, <2>2, <2>3
  <1>5. CASE post
    <2>1. (dry_run => ~posted /\ phase \notin {"post", "answer"})'
      BY <1>5 DEF post
    <2>2. (includedAt > 0 => posted /\ includedAt <= maxBlock)'
      BY <1>5 DEF post
    <2>3. DeadlineInv'
      BY <1>5 DEF post
    <2>. QED  BY <2>1, <2>2, <2>3
  <1>6. CASE answer
    <2>1. (dry_run => ~posted /\ phase \notin {"post", "answer"})'
      BY <1>6 DEF answer
    <2>2. (includedAt > 0 => posted /\ includedAt <= maxBlock)'
      BY <1>6 DEF answer
    <2>3. DeadlineInv'
      BY <1>6 DEF answer
    <2>. QED  BY <2>1, <2>2, <2>3
  <1>7. CASE fails
    <2>1. (dry_run => ~posted /\ phase \notin {"post", "answer"})'
      BY <1>7 DEF fails
    <2>2. (includedAt > 0 => posted /\ includedAt <= maxBlock)'
      BY <1>7 DEF fails
    <2>3. DeadlineInv'
      BY <1>7 DEF fails
    <2>. QED  BY <2>1, <2>2, <2>3
  <1>8. CASE startWait
    <2>1. (dry_run => ~posted /\ phase \notin {"post", "answer"})'
      BY <1>8 DEF startWait, Polls, WaitsUntil
    <2>2. (includedAt > 0 => posted /\ includedAt <= maxBlock)'
      BY <1>8 DEF startWait, Polls, WaitsUntil
    <2>3. DeadlineInv'
      BY <1>8 DEF startWait, Polls, WaitsUntil
    <2>. QED  BY <2>1, <2>2, <2>3
  <1>9. CASE askReceipt
    <2>1. (dry_run => ~posted /\ phase \notin {"post", "answer"})'
      BY <1>9 DEF askReceipt
    <2>2. (includedAt > 0 => posted /\ includedAt <= maxBlock)'
      BY <1>9 DEF askReceipt
    <2>3. DeadlineInv'
      BY <1>9 DEF askReceipt
    <2>. QED  BY <2>1, <2>2, <2>3
  <1>10. CASE askHeight
    <2>1. (dry_run => ~posted /\ phase \notin {"post", "answer"})'
      BY <1>10 DEF askHeight
    <2>2. (includedAt > 0 => posted /\ includedAt <= maxBlock)'
      BY <1>10 DEF askHeight
    <2>3. DeadlineInv'
      BY <1>10 DEF askHeight
    <2>. QED  BY <2>1, <2>2, <2>3
  <1>11. CASE wakes
    <2>1. (dry_run => ~posted /\ phase \notin {"post", "answer"})'
      BY <1>11 DEF wakes, Polls, Counted
    <2>2. (includedAt > 0 => posted /\ includedAt <= maxBlock)'
      BY <1>11 DEF wakes, Polls, Counted
    <2>3. DeadlineInv'
      BY <1>11 DEF wakes, Polls, Counted
    <2>. QED  BY <2>1, <2>2, <2>3
  <1>. QED
    BY <1>1, <1>2, <1>3, <1>4, <1>5, <1>6, <1>7, <1>8, <1>9, <1>10, <1>11 DEF clientStep

LEMMA BlocksKeep ==
    ASSUME ClientInvariant, blockMined
    PROVE  ClientInvariant'
  <1>. USE DEF blockMined, newBlock, ClientInvariant, ClientInv, DeadlineInv, RelayTypeOK, Waiting
  <1>1. RelayTypeOK'
    OBVIOUS
  <1>2. ClientInv'
    BY <1>1
  <1>3. DeadlineInv'
    BY <1>1
  <1>. QED  BY <1>2, <1>3

\* A step of the client leaves less of its work.
LEMMA ClientStepsOn ==
    ASSUME ClientInv, clientStep
    PROVE  CallsLeft' \in 0 .. CallsLeft - 1
  <1>. DEFINE k == max_block_offset - polls
  <1>1. /\ polls \in 0 .. max_block_offset /\ max_block_offset \in Nat /\ k \in Nat
        /\ phase \in Waiting => k >= 1
    BY RelayAssumption DEF ClientInv, RelayTypeOK, Waiting
  <1>2. max_block_offset' = max_block_offset
    BY DEF clientStep, construct, getNonce, expiry, mockHash, post, answer, fails, startWait,
           askReceipt, askHeight, wakes, KeepProgram
  <1>3. ASSUME phase # "done", phase' = "done" PROVE CallsLeft' \in 0 .. CallsLeft - 1
    <2>1. CallsLeft' = 0 /\ CallsLeft = 3 * k + Turn[phase]
      BY <1>3 DEF CallsLeft
    <2>2. Turn[phase] \in 1 .. 9
      BY <1>3 DEF Turn, ClientInv, RelayTypeOK
    <2>. HIDE DEF k
    <2>. QED  BY <1>1, <2>1, <2>2
  <1>4. ASSUME phase # "done", phase' # "done", polls' = polls,
               Turn[phase] \in 1 .. 9, Turn[phase'] \in 1 .. Turn[phase] - 1
        PROVE  CallsLeft' \in 0 .. CallsLeft - 1
    <2>1. CallsLeft' = 3 * k + Turn[phase'] /\ CallsLeft = 3 * k + Turn[phase]
      BY <1>2, <1>4 DEF CallsLeft, Turn
    <2>. HIDE DEF k
    <2>. QED  BY <1>1, <1>4, <2>1
  <1>5. CASE construct
    <2>1. phase = "start" /\ (phase' = "done" \/ (phase' = "nonce" /\ polls' = polls))
      BY <1>5 DEF construct, Ends, GoesTo
    <2>. QED  BY <1>3, <1>4, <2>1 DEF Turn
  <1>6. CASE getNonce
    <2>1. phase = "nonce" /\ phase' = "block" /\ polls' = polls
      BY <1>6 DEF getNonce, GoesTo
    <2>. QED  BY <1>4, <2>1 DEF Turn
  <1>7. CASE expiry
    <2>1. phase = "block" /\ phase' \in {"mock", "post"} /\ polls' = polls
      BY <1>7 DEF expiry, AfterBlock, GoesTo
    <2>2. Turn[phase] = 7 /\ Turn[phase'] = 6
      BY <2>1 DEF Turn
    <2>. QED  BY <1>4, <2>1, <2>2
  <1>8. CASE mockHash
    <2>1. phase = "mock" /\ (phase' = "done" \/ (phase' = "wait" /\ polls' = polls))
      BY <1>8 DEF mockHash, Ends, GoesTo
    <2>. QED  BY <1>3, <1>4, <2>1 DEF Turn
  <1>9. CASE post
    <2>1. phase = "post" /\ (phase' = "done" \/ (phase' = "answer" /\ polls' = polls))
      BY <1>9 DEF post, Ends, GoesTo
    <2>. QED  BY <1>3, <1>4, <2>1 DEF Turn
  <1>10. CASE answer
    <2>1. phase = "answer" /\ phase' = "wait" /\ polls' = polls
      BY <1>10 DEF answer, GoesTo
    <2>. QED  BY <1>4, <2>1 DEF Turn
  <1>11. CASE fails
    <2>1. phase # "done" /\ phase' = "done"
      BY <1>11 DEF fails, Ends
    <2>. QED  BY <1>3, <2>1
  <1>12. CASE startWait
    <2>1. phase = "wait" /\ (phase' = "done" \/ (phase' = "receipt" /\ polls' = polls))
      BY <1>12 DEF startWait, Polls, Ends, GoesTo
    <2>. QED  BY <1>3, <1>4, <2>1 DEF Turn
  <1>13. CASE askReceipt
    <2>1. phase = "receipt" /\ (phase' = "done" \/ (phase' = "height" /\ polls' = polls))
      BY <1>13 DEF askReceipt, Ends, GoesTo
    <2>. QED  BY <1>3, <1>4, <2>1 DEF Turn
  <1>14. CASE askHeight
    <2>1. phase = "height" /\ (phase' = "done" \/ (phase' = "sleep" /\ polls' = polls))
      BY <1>14 DEF askHeight, Ends, GoesTo
    <2>. QED  BY <1>3, <1>4, <2>1 DEF Turn
  <1>15. CASE wakes
    <2>1. /\ phase = "sleep" /\ polls' = polls + 1
          /\ phase' = "done" \/ phase' = "receipt"
      BY <1>15 DEF wakes, Polls, Counted, Ends, GoesTo
    <2>2. CASE phase' = "receipt"
      <3>1. CallsLeft = 3 * (max_block_offset - polls) + 1 /\ CallsLeft' = 3 * (max_block_offset - polls') + 3
        BY <1>2, <2>1, <2>2 DEF CallsLeft, Turn
      <3>. QED  BY <1>1, <2>1, <3>1 DEF Waiting
    <2>. QED  BY <1>3, <2>1, <2>2
  <1>. QED
    BY <1>5, <1>6, <1>7, <1>8, <1>9, <1>10, <1>11, <1>12, <1>13, <1>14, <1>15 DEF clientStep

\* Every step that the client or the chain takes keeps the invariant.
LEMMA ClientInvariantly ==
    ClientInit /\ phase \in {"start", "done"} /\ [][RelayNext]_relayVars => []ClientInvariant
  <1>1. ClientInit /\ phase \in {"start", "done"} => ClientInvariant
    <2>. SUFFICES ASSUME ClientInit, phase \in {"start", "done"} PROVE ClientInvariant
      OBVIOUS
    <2>1. dry_run \in BOOLEAN /\ smoke \in BOOLEAN /\ keysDiffer \in BOOLEAN /\ posted \in BOOLEAN
      BY DEF ClientInit
    <2>2. RelayTypeOK
      BY <2>1 DEF ClientInit, RelayTypeOK
    <2>3. ClientInv
      BY <2>2 DEF ClientInit, ClientInv, Waiting
    <2>4. DeadlineInv
      BY DEF ClientInit, DeadlineInv, Waiting
    <2>. QED  BY <2>3, <2>4 DEF ClientInvariant
  <1>2. ClientInvariant /\ [RelayNext]_relayVars => ClientInvariant'
    <2>1. CASE UNCHANGED relayVars
      BY <2>1 DEF relayVars, clientVars, ClientInvariant, ClientInv, DeadlineInv, RelayTypeOK,
                  Waiting
    <2>2. CASE RelayNext
      BY <2>2, ClientTypes, DeadlineKept, BlocksKeep DEF RelayNext, ClientInvariant
    <2>. QED  BY <2>1, <2>2
  <1>. QED  BY <1>1, <1>2, PTL

-----------------------------------------------------------------------------
(* A pass over the readers *)

SnapshotSet ==
    [adapter_index : 0 .. 5, apy : Nat \X Nat, utilization : Nat \X Nat, tvl : Nat,
     raw_rate_1e18 : Nat, heights : Seq(Nat)]

\* Blocks that the answers to reader r may come from, in a pass of caller "by" that
\* began at height low and is pinned to a block, when the chain has grown to "height".
AnsweredAt(r, h, height, by, low, pinned) ==
    /\ h \in [1 .. Requests(r) -> 1 .. height]
    /\ r \in Legacy => by = "read_all"
    /\ r \notin Legacy => \A k \in DOMAIN h : h[k] = h[1]
    /\ by = "read_all" => \A k \in DOMAIN h : low <= h[k]
    /\ by = "_handle_block" => \A k \in DOMAIN h : h[k] = pinned

\* A snapshot of reader r: one without rates, or one made of answers of that pass.
Made(s, r, height, by, low, pinned) ==
    \/ s = Stale(r)
    \/ \E h \in [1 .. Requests(r) -> 1 .. height] :
          AnsweredAt(r, h, height, by, low, pinned) /\ s = SnapshotOf(r, h)

\* The answers so far of the reader the pass is at.
AnswersInv ==
    /\ Len(answers) < Requests(current)
    /\ caller = "read_all" => \A k \in DOMAIN answers : began <= answers[k]
    /\ current \in Legacy => (answers # <<>> => caller = "read_all")
    /\ current \in Legacy /\ caller = "read_all" => pin = 0
    /\ current \notin Legacy => \A k \in DOMAIN answers : answers[k] = pin
    /\ caller = "read_all" /\ pin > 0 => began <= pin

\* Results of the readers, in their order and each before its turn.
InLine(list, from, names, next, height, by, low, pinned) ==
    /\ from \in [DOMAIN list -> DOMAIN names]
    /\ \A i, j \in DOMAIN list : i < j => from[i] < from[j]
    /\ \A i \in DOMAIN list :
          /\ from[i] < next
          /\ Made(list[i], names[from[i]], height, by, low, pinned)
          /\ list[i].adapter_index = AdapterIndex[names[from[i]]]
    /\ by = "_handle_block" => Len(list) = next - 1 /\ \A i \in DOMAIN list : from[i] = i

LinedUp == \E from \in [DOMAIN results -> DOMAIN readers] :
    InLine(results, from, readers, turn, head, caller, began, pin)

PassTypes ==
    /\ head \in 1 .. MaxBlock /\ began \in 1 .. head /\ pin \in 0 .. head /\ elapsed \in Nat
    /\ readers \in Registered
    /\ caller \in {"none", "read_all", "_handle_block"} /\ irm \in BOOLEAN
    /\ turn \in 0 .. Len(readers) + 1
    /\ caller = "none" <=> turn = 0
    /\ caller = "_handle_block" => pin > 0
    /\ answers \in Seq(1 .. head)
    /\ results \in Seq(SnapshotSet)

PassInv == PassTypes /\ (Reading => AnswersInv) /\ LinedUp

LEMMA ReadersListed ==
    ASSUME PassTypes
    PROVE  /\ readers \in Seq(Reader) /\ Len(readers) \in Nat /\ DOMAIN readers = 1 .. Len(readers)
           /\ Reading <=> turn \in 1 .. Len(readers)
           /\ Reading => current \in Reader
  <1>1. readers \in Seq(Reader)
    BY ReaderAssumption DEF PassTypes
  <1>2. Len(readers) \in Nat /\ DOMAIN readers = 1 .. Len(readers)
    BY <1>1, LenProperties
  <1>3. turn \in 0 .. Len(readers) + 1
    BY DEF PassTypes
  <1>4. Reading <=> turn \in 1 .. Len(readers)
    BY <1>2, <1>3 DEF Reading
  <1>5. ASSUME Reading PROVE current \in Reader
    <2>1. readers[turn] \in Reader
      BY <1>1, <1>2, <1>4, <1>5
    <2>. QED  BY <2>1 DEF current
  <1>. QED  BY <1>1, <1>2, <1>4, <1>5

LEMMA ListOf ==
    ASSUME NEW S, NEW n \in Nat, NEW h \in [1 .. n -> S]
    PROVE  h \in Seq(S)
  OBVIOUS

LEMMA RequestsMade == \A r \in Reader : Requests(r) \in 1 .. 3
  BY DEF Requests, Reader

\* What one request is answered from.
LEMMA MarketTyped ==
    ASSUME NEW r \in Reader, NEW b \in 1 .. MaxBlock
    PROVE  /\ Market(r, b).rate \in Nat /\ Market(r, b).supplied \in Nat
           /\ Market(r, b).borrowed \in Nat
           /\ SupplyCurve(RawUtilization(Market(r, b))) \in Nat
  BY ReaderAssumption

LEMMA QuotientNat ==
    ASSUME NEW a \in Nat, NEW b \in Nat \ {0}
    PROVE  /\ a \div b \in Nat
           /\ (a \div b) * b <= a /\ a < (a \div b) * b + b
  <1>1. a \div b \in Int /\ b * (a \div b) <= a /\ a < b * (a \div b) + b
    OBVIOUS
  <1>. DEFINE q == a \div b
  <1>. HIDE DEF q
  <1>2. ASSUME q < 0 PROVE FALSE
    <2>1. b * (q + 1) <= 0 /\ b * (q + 1) = b * q + b
      BY <1>1, <1>2 DEF q
    <2>. QED  BY <1>1, <2>1 DEF q
  <1>. QED  BY <1>1, <1>2 DEF q

LEMMA UtilizationTyped == \A b, s \in Nat : Utilization(b, s) \in Nat \X Nat
  BY DEF Utilization

LEMMA RawUtilizationNat ==
    ASSUME NEW r \in Reader, NEW b \in 1 .. MaxBlock
    PROVE  RawUtilization(Market(r, b)) \in Nat
  <1>. DEFINE m == Market(r, b)
  <1>1. m.supplied \in Nat /\ m.borrowed * SCALE_18 \in Nat
    <2>1. m.supplied \in Nat /\ m.borrowed \in Nat
      BY MarketTyped
    <2>2. SCALE_18 \in Nat
      BY ReaderAssumption
    <2>. QED  BY <2>1, <2>2
  <1>. HIDE DEF m
  <1>2. m.supplied # 0 => (m.borrowed * SCALE_18) \div m.supplied \in Nat
    BY <1>1, QuotientNat
  <1>. QED  BY <1>1, <1>2 DEF RawUtilization, m

\* A rate in the two forms a snapshot keeps: their difference is what was cut.
Agrees(rate) ==
    /\ rate.apy \in Nat \X (Nat \ {0})
    /\ rate.raw \in Nat
    /\ rate.raw * rate.apy[2] <= rate.apy[1] * SCALE_18
    /\ rate.apy[1] * SCALE_18 < rate.raw * rate.apy[2] + rate.apy[2]

LEMMA RatesOfProtocolsAgree ==
    ASSUME NEW rate \in Nat, NEW year \in Nat
    PROVE  Agrees(RayRate(rate)) /\ Agrees(RayPerSecond(rate)) /\ Agrees(WadPerSecond(rate, year))
  <1>1. RAY \in Nat \ {0} /\ SCALE_18 \in Nat \ {0} /\ CalendarYear \in Nat
    BY ReaderAssumption
  <1>2. Agrees(RayRate(rate))
    <2>1. rate * SCALE_18 \in Nat
      BY <1>1
    <2>. QED  BY <1>1, <2>1, QuotientNat DEF Agrees, RayRate
  <1>3. Agrees(RayPerSecond(rate))
    <2>1. rate * CalendarYear \in Nat /\ rate * CalendarYear * SCALE_18 \in Nat
      BY <1>1
    <2>. QED  BY <1>1, <2>1, QuotientNat DEF Agrees, RayPerSecond
  <1>4. Agrees(WadPerSecond(rate, year))
    <2>1. rate * year \in Nat
      OBVIOUS
    <2>. QED  BY <1>1, <2>1 DEF Agrees, WadPerSecond
  <1>. QED  BY <1>2, <1>3, <1>4

\* A snapshot made of answers is of its reader, shows where they came from, and has
\* rates that agree.
LEMMA SnapshotMade ==
    ASSUME NEW r \in Reader, NEW height \in 1 .. MaxBlock,
           NEW h \in [1 .. Requests(r) -> 1 .. height]
    PROVE  /\ SnapshotOf(r, h) \in SnapshotSet
           /\ SnapshotOf(r, h).heights = h
           /\ SnapshotOf(r, h).adapter_index = AdapterIndex[r]
           /\ Agrees([apy |-> SnapshotOf(r, h).apy, raw |-> SnapshotOf(r, h).raw_rate_1e18])
  <1>. DEFINE Kept(rate, u, supplied) ==
                  /\ Snapshot(r, rate, u, supplied, h) \in SnapshotSet
                  /\ Snapshot(r, rate, u, supplied, h).heights = h
                  /\ Snapshot(r, rate, u, supplied, h).adapter_index = AdapterIndex[r]
                  /\ Agrees([apy |-> Snapshot(r, rate, u, supplied, h).apy,
                             raw |-> Snapshot(r, rate, u, supplied, h).raw_rate_1e18])
  <1>1. Requests(r) \in 1 .. 3
    BY RequestsMade
  <1>2. h \in Seq(Nat)
    BY <1>1
  <1>3. AdapterIndex[r] \in 0 .. 5
    BY DEF AdapterIndex, Reader
  <1>4. ASSUME NEW rate, Agrees(rate), NEW u \in Nat \X Nat, NEW supplied \in Nat
        PROVE  Kept(rate, u, supplied)
    <2>1. rate.apy \in Nat \X Nat /\ rate.raw \in Nat
      BY <1>4 DEF Agrees
    <2>. QED  BY <1>2, <1>3, <1>4, <2>1 DEF Snapshot, SnapshotSet, Agrees
  <1>5. \A k \in 1 .. Requests(r) :
            /\ h[k] \in 1 .. MaxBlock
            /\ Market(r, h[k]).rate \in Nat /\ Market(r, h[k]).supplied \in Nat
            /\ Market(r, h[k]).borrowed \in Nat
            /\ RawUtilization(Market(r, h[k])) \in Nat
            /\ SupplyCurve(RawUtilization(Market(r, h[k]))) \in Nat
    <2>. SUFFICES ASSUME NEW b \in 1 .. MaxBlock
                  PROVE  /\ Market(r, b).rate \in Nat /\ Market(r, b).supplied \in Nat
                         /\ Market(r, b).borrowed \in Nat
                         /\ RawUtilization(Market(r, b)) \in Nat
                         /\ SupplyCurve(RawUtilization(Market(r, b))) \in Nat
      BY <1>1, \A k \in 1 .. Requests(r) : h[k] \in 1 .. MaxBlock
    <2>. QED  BY MarketTyped, RawUtilizationNat
  <1>6. SCALE_18 \in Nat /\ CalendarYear \in Nat /\ JulianYear \in Nat
    BY ReaderAssumption
  <1>. HIDE DEF Kept
  <1>7. CASE r \in {"aave", "spark"}
    <2>1. Requests(r) = 3 /\ SnapshotOf(r, h) = AaveSnapshot(r, h)
      BY <1>7 DEF Requests, SnapshotOf
    <2>2. Kept(RayRate(Market(r, h[1]).rate),
               Utilization(Market(r, h[3]).borrowed, Market(r, h[2]).supplied),
               Market(r, h[2]).supplied)
      <3>1. Agrees(RayRate(Market(r, h[1]).rate))
        BY <1>5, <1>6, <2>1, RatesOfProtocolsAgree
      <3>2. Utilization(Market(r, h[3]).borrowed, Market(r, h[2]).supplied) \in Nat \X Nat
        <4>1. Market(r, h[3]).borrowed \in Nat /\ Market(r, h[2]).supplied \in Nat
          BY <1>5, <1>6, <2>1
        <4>. QED  BY <4>1, UtilizationTyped, Zenon
      <3>3. Market(r, h[2]).supplied \in Nat
        BY <1>5, <2>1
      <3>. QED  BY <1>4, <3>1, <3>2, <3>3
    <2>. QED  BY <2>1, <2>2 DEF AaveSnapshot, Kept
  <1>8. CASE r = "compound"
    <2>1. Requests(r) = 3 /\ SnapshotOf(r, h) = CompoundSnapshot(r, h)
      BY <1>8 DEF Requests, SnapshotOf
    <2>2. Kept(WadPerSecond(SupplyCurve(RawUtilization(Market(r, h[1]))), JulianYear),
               Utilization(RawUtilization(Market(r, h[1])), SCALE_18), Market(r, h[3]).supplied)
      <3>1. Agrees(WadPerSecond(SupplyCurve(RawUtilization(Market(r, h[1]))), JulianYear))
        BY <1>5, <1>6, <2>1, RatesOfProtocolsAgree
      <3>2. Utilization(RawUtilization(Market(r, h[1])), SCALE_18) \in Nat \X Nat
        <4>1. RawUtilization(Market(r, h[1])) \in Nat /\ SCALE_18 \in Nat
          BY <1>5, <1>6, <2>1
        <4>. QED  BY <4>1, UtilizationTyped, Zenon
      <3>3. Market(r, h[3]).supplied \in Nat
        BY <1>5, <2>1
      <3>. QED  BY <1>4, <3>1, <3>2, <3>3
    <2>. QED  BY <2>1, <2>2 DEF CompoundSnapshot, Kept
  <1>9. CASE r = "fluid"
    <2>1. Requests(r) = 1 /\ SnapshotOf(r, h) = FluidSnapshot(r, h)
      BY <1>9 DEF Requests, SnapshotOf
    <2>2. Kept(WadPerSecond(Market(r, h[1]).rate, CalendarYear),
               Utilization(Market(r, h[1]).borrowed, Market(r, h[1]).supplied),
               Market(r, h[1]).supplied)
      <3>1. Agrees(WadPerSecond(Market(r, h[1]).rate, CalendarYear))
        BY <1>5, <1>6, <2>1, RatesOfProtocolsAgree
      <3>2. Utilization(Market(r, h[1]).borrowed, Market(r, h[1]).supplied) \in Nat \X Nat
        <4>1. Market(r, h[1]).borrowed \in Nat /\ Market(r, h[1]).supplied \in Nat
          BY <1>5, <1>6, <2>1
        <4>. QED  BY <4>1, UtilizationTyped, Zenon
      <3>3. Market(r, h[1]).supplied \in Nat
        BY <1>5, <2>1
      <3>. QED  BY <1>4, <3>1, <3>2, <3>3
    <2>. QED  BY <2>1, <2>2 DEF FluidSnapshot, Kept
  <1>10. CASE r = "morpho"
    <2>1. Requests(r) = 2 /\ SnapshotOf(r, h) = MorphoSnapshot(r, h)
      BY <1>10 DEF Requests, SnapshotOf
    <2>2. Kept(WadPerSecond(Market(r, h[2]).rate, CalendarYear),
               Utilization(Market(r, h[1]).borrowed, Market(r, h[1]).supplied),
               Market(r, h[1]).supplied)
      <3>1. Agrees(WadPerSecond(Market(r, h[2]).rate, CalendarYear))
        BY <1>5, <1>6, <2>1, RatesOfProtocolsAgree
      <3>2. Utilization(Market(r, h[1]).borrowed, Market(r, h[1]).supplied) \in Nat \X Nat
        <4>1. Market(r, h[1]).borrowed \in Nat /\ Market(r, h[1]).supplied \in Nat
          BY <1>5, <1>6, <2>1
        <4>. QED  BY <4>1, UtilizationTyped, Zenon
      <3>3. Market(r, h[1]).supplied \in Nat
        BY <1>5, <2>1
      <3>. QED  BY <1>4, <3>1, <3>2, <3>3
    <2>. QED  BY <2>1, <2>2 DEF MorphoSnapshot, Kept
  <1>11. CASE r = "euler"
    <2>1. Requests(r) = 3 /\ SnapshotOf(r, h) = EulerSnapshot(r, h)
      BY <1>11 DEF Requests, SnapshotOf
    <2>2. Kept(RayPerSecond(Market(r, h[1]).rate),
               Utilization(Market(r, h[3]).borrowed, Market(r, h[2]).supplied),
               Market(r, h[2]).supplied)
      <3>1. Agrees(RayPerSecond(Market(r, h[1]).rate))
        BY <1>5, <1>6, <2>1, RatesOfProtocolsAgree
      <3>2. Utilization(Market(r, h[3]).borrowed, Market(r, h[2]).supplied) \in Nat \X Nat
        <4>1. Market(r, h[3]).borrowed \in Nat /\ Market(r, h[2]).supplied \in Nat
          BY <1>5, <1>6, <2>1
        <4>. QED  BY <4>1, UtilizationTyped, Zenon
      <3>3. Market(r, h[2]).supplied \in Nat
        BY <1>5, <2>1
      <3>. QED  BY <1>4, <3>1, <3>2, <3>3
    <2>. QED  BY <2>1, <2>2 DEF EulerSnapshot, Kept
  <1>. QED  BY <1>7, <1>8, <1>9, <1>10, <1>11 DEF Reader

\* A snapshot without rates is of its reader, too.
LEMMA StaleMade ==
    ASSUME NEW r \in Reader
    PROVE  /\ Stale(r) \in SnapshotSet
           /\ Stale(r).heights = <<>> /\ Stale(r).apy = NaN
           /\ Stale(r).adapter_index = AdapterIndex[r]
  BY DEF Stale, Snapshot, SnapshotSet, NaN, AdapterIndex, Reader

\* What was made stays made while the pass goes on and the chain grows.
LEMMA MadeStays ==
    ASSUME NEW s, NEW r \in Reader, NEW height \in Nat, NEW higher \in Nat, height <= higher,
           NEW by, NEW low, NEW pinned, NEW pinned2, by = "_handle_block" => pinned2 = pinned,
           Made(s, r, height, by, low, pinned)
    PROVE  Made(s, r, higher, by, low, pinned2)
  <1>1. CASE s = Stale(r)
    BY <1>1 DEF Made
  <1>2. ASSUME NEW h \in [1 .. Requests(r) -> 1 .. height],
               AnsweredAt(r, h, height, by, low, pinned), s = SnapshotOf(r, h)
        PROVE  Made(s, r, higher, by, low, pinned2)
    <2>1. h \in [1 .. Requests(r) -> 1 .. higher]
      BY RequestsMade
    <2>2. AnsweredAt(r, h, higher, by, low, pinned2)
      BY <1>2, <2>1 DEF AnsweredAt
    <2>. QED  BY <1>2, <2>1, <2>2 DEF Made
  <1>. QED  BY <1>1, <1>2 DEF Made

LEMMA MadeTyped ==
    ASSUME NEW r \in Reader, NEW s, NEW height \in 1 .. MaxBlock, NEW by, NEW low, NEW pinned,
           Made(s, r, height, by, low, pinned)
    PROVE  s \in SnapshotSet /\ s.adapter_index = AdapterIndex[r]
  <1>1. CASE s = Stale(r)
    BY <1>1, StaleMade
  <1>2. ASSUME NEW h \in [1 .. Requests(r) -> 1 .. height], s = SnapshotOf(r, h)
        PROVE  s \in SnapshotSet /\ s.adapter_index = AdapterIndex[r]
    BY <1>2, SnapshotMade
  <1>. QED  BY <1>1, <1>2 DEF Made

\* They stay in line when the chain grows and when the reader whose turn it is adds a
\* result or, in read_all, none.
LEMMA LineStays ==
    ASSUME NEW list, NEW from, NEW names \in Seq(Reader), NEW next \in Nat, NEW later \in Nat,
           NEW height \in Nat, NEW higher \in Nat, height <= higher, next <= later,
           NEW by, NEW low, NEW pinned, NEW pinned2, by = "_handle_block" => pinned2 = pinned,
           later = next \/ by # "_handle_block",
           InLine(list, from, names, next, height, by, low, pinned)
    PROVE  InLine(list, from, names, later, higher, by, low, pinned2)
  <1>. USE DEF InLine
  <1>1. ASSUME NEW i \in DOMAIN list
        PROVE  /\ from[i] < later
               /\ Made(list[i], names[from[i]], higher, by, low, pinned2)
    <2>1. from[i] \in DOMAIN names /\ from[i] \in Nat /\ names[from[i]] \in Reader
      OBVIOUS
    <2>. QED  BY <2>1, MadeStays
  <1>. QED  BY <1>1

LEMMA LineGrows ==
    ASSUME NEW list \in Seq(SnapshotSet), NEW from, NEW names \in Seq(Reader),
           NEW next \in 1 .. Len(names), NEW height \in 1 .. MaxBlock,
           NEW by, NEW low, NEW pinned, NEW s,
           Made(s, names[next], height, by, low, pinned),
           InLine(list, from, names, next, height, by, low, pinned)
    PROVE  \E longer : InLine(Append(list, s), longer, names, next + 1, height, by, low, pinned)
  <1>. DEFINE n == Len(list)
              grown == Append(list, s)
              longer == [i \in 1 .. n + 1 |-> IF i = n + 1 THEN next ELSE from[i]]
  <1>1. names[next] \in Reader /\ next \in DOMAIN names /\ DOMAIN names \subseteq Nat
    OBVIOUS
  <1>2. s \in SnapshotSet /\ s.adapter_index = AdapterIndex[names[next]]
    BY <1>1, MadeTyped
  <1>3. /\ n \in Nat /\ DOMAIN list = 1 .. n /\ DOMAIN grown = 1 .. n + 1 /\ Len(grown) = n + 1
        /\ \A i \in 1 .. n : grown[i] = list[i]
        /\ grown[n + 1] = s
    BY <1>2
  <1>4. \A i \in 1 .. n : from[i] \in DOMAIN names /\ from[i] < next
    BY <1>3 DEF InLine
  <1>5. longer \in [DOMAIN grown -> DOMAIN names]
    BY <1>1, <1>3, <1>4
  <1>6. (\A i \in 1 .. n : longer[i] = from[i]) /\ longer[n + 1] = next
    BY <1>3
  <1>. HIDE DEF longer, grown, n
  <1>7. ASSUME NEW i \in 1 .. n + 1, NEW j \in 1 .. n + 1, i < j
        PROVE  longer[i] < longer[j]
    <2>1. CASE j = n + 1
      BY <1>3, <1>4, <1>6, <1>7, <2>1
    <2>2. CASE j # n + 1
      <3>1. i \in 1 .. n /\ j \in 1 .. n
        BY <1>3, <1>7, <2>2
      <3>2. from[i] < from[j]
        BY <1>3, <1>7, <3>1 DEF InLine
      <3>. QED  BY <1>6, <3>1, <3>2
    <2>. QED  BY <2>1, <2>2
  <1>8. ASSUME NEW i \in 1 .. n + 1
        PROVE  /\ longer[i] < next + 1
               /\ Made(grown[i], names[longer[i]], height, by, low, pinned)
               /\ grown[i].adapter_index = AdapterIndex[names[longer[i]]]
    <2>1. CASE i = n + 1
      BY <1>2, <1>3, <1>6, <2>1
    <2>2. CASE i # n + 1
      <3>1. i \in 1 .. n
        BY <1>3, <2>2
      <3>2. grown[i] = list[i] /\ longer[i] = from[i] /\ from[i] < next /\ from[i] \in Nat
        BY <1>1, <1>3, <1>4, <1>6, <3>1
      <3>3. /\ Made(list[i], names[from[i]], height, by, low, pinned)
            /\ list[i].adapter_index = AdapterIndex[names[from[i]]]
        BY <1>3, <3>1 DEF InLine
      <3>. QED  BY <3>2, <3>3
    <2>. QED  BY <2>1, <2>2
  <1>9. by = "_handle_block" =>
            Len(grown) = (next + 1) - 1 /\ \A i \in 1 .. n + 1 : longer[i] = i
    <2>. SUFFICES ASSUME by = "_handle_block"
                  PROVE  Len(grown) = (next + 1) - 1 /\ \A i \in 1 .. n + 1 : longer[i] = i
      OBVIOUS
    <2>1. n = next - 1 /\ \A i \in 1 .. n : from[i] = i
      BY <1>3 DEF InLine, n
    <2>. QED  BY <1>3, <1>6, <2>1
  <1>10. InLine(grown, longer, names, next + 1, height, by, low, pinned)
    BY <1>3, <1>5, <1>7, <1>8, <1>9 DEF InLine
  <1>. QED  BY <1>10 DEF grown

\* The reader whose turn it is ends with a result, or with none in read_all.
LEMMA GoesOnKeeps ==
    ASSUME PassInv, Reading, UNCHANGED <<head, readers, caller, irm, began>>, elapsed' \in Nat,
           NEW s, Made(s, current, head, caller, began, pin),
           NEW added, added = <<s>> \/ (added = <<>> /\ caller = "read_all"),
           GoesOn(added)
    PROVE  PassInv'
  <1>. USE DEF PassInv
  <1>1. /\ readers \in Seq(Reader) /\ Len(readers) \in Nat /\ turn \in 1 .. Len(readers)
        /\ current \in Reader /\ current = readers[turn]
    BY ReadersListed DEF current
  <1>2. head \in 1 .. MaxBlock /\ began \in Nat /\ pin \in 0 .. head
    BY DEF PassTypes
  <1>3. s \in SnapshotSet
    BY <1>1, <1>2, MadeTyped
  <1>4. results \in Seq(SnapshotSet)
    BY DEF PassTypes
  <1>5. /\ turn' = turn + 1 /\ answers' = <<>>
        /\ pin' = IF caller = "read_all" THEN 0 ELSE pin
        /\ results' = IF added = <<>> THEN results ELSE Append(results, s)
    BY <1>3, <1>4 DEF GoesOn
  <1>6. caller \in {"read_all", "_handle_block"}
    BY <1>1 DEF PassTypes
  <1>7. PassTypes'
    <2>1. pin' \in 0 .. head /\ (caller = "_handle_block" => pin' > 0)
      BY <1>2, <1>5 DEF PassTypes
    <2>2. turn' \in 0 .. Len(readers) + 1 /\ turn' # 0 /\ caller # "none"
      BY <1>1, <1>5, <1>6
    <2>3. answers' \in Seq(1 .. head)
      BY <1>5
    <2>4. results' \in Seq(SnapshotSet)
      BY <1>3, <1>4, <1>5
    <2>. QED  BY <2>1, <2>2, <2>3, <2>4 DEF PassTypes
  <1>8. Reading' => AnswersInv'
    <2>. SUFFICES ASSUME Reading' PROVE AnswersInv'
      OBVIOUS
    <2>1. current' \in Reader
      BY <1>1, <1>5 DEF Reading, current
    <2>2. Len(answers') < Requests(current')
      BY <1>5, <2>1, RequestsMade
    <2>. QED  BY <1>5, <2>2 DEF AnswersInv
  <1>9. LinedUp'
    <2>1. PICK from : InLine(results, from, readers, turn, head, caller, began, pin)
      BY DEF LinedUp
    <2>2. CASE added = <<s>>
      <3>1. results' = Append(results, s)
        BY <1>5, <2>2
      <3>2. PICK longer : InLine(results', longer, readers, turn', head, caller, began, pin)
        <4>1. Made(s, readers[turn], head, caller, began, pin)
          BY <1>1
        <4>2. \E longer : InLine(Append(results, s), longer, readers, turn + 1, head, caller,
                                 began, pin)
          BY <1>1, <1>2, <1>4, <2>1, <4>1, LineGrows
        <4>. QED  BY <1>5, <3>1, <4>2
      <3>3. InLine(results', longer, readers, turn', head, caller, began, pin')
        BY <1>1, <1>2, <1>5, <1>6, <3>2, LineStays
      <3>. QED  BY <3>3 DEF LinedUp, InLine
    <2>3. CASE added = <<>> /\ caller = "read_all"
      <3>1. InLine(results, from, readers, turn + 1, head, caller, began, pin')
        BY <1>1, <1>2, <2>1, <2>3, LineStays
      <3>. QED  BY <1>5, <2>3, <3>1 DEF LinedUp, InLine
    <2>. QED  BY <2>2, <2>3
  <1>. QED  BY <1>7, <1>8, <1>9

LEMMA BeginKeeps ==
    ASSUME PassInv, NEW by \in {"read_all", "_handle_block"}, NEW block \in 0 .. head,
           by = "read_all" <=> block = 0, begin(by, block)
    PROVE  PassInv'
  <1>. USE DEF PassInv, begin
  <1>1. /\ readers \in Seq(Reader) /\ Len(readers) \in Nat
        /\ head \in 1 .. MaxBlock /\ elapsed' = 0
    BY ReadersListed DEF PassTypes
  <1>2. PassTypes'
    BY <1>1 DEF PassTypes
  <1>3. Reading' => AnswersInv'
    <2>1. Reading' => current' \in Reader
      BY <1>1 DEF Reading, current
    <2>2. Reading' => Len(answers') < Requests(current')
      BY <2>1, RequestsMade
    <2>. QED  BY <2>2 DEF AnswersInv
  <1>4. LinedUp'
    <2>. DEFINE from == [i \in {} |-> 1]
    <2>1. InLine(<<>>, from, readers, 1, head, by, head, block)
      BY DEF InLine
    <2>2. from \in [DOMAIN results' -> DOMAIN readers']
      OBVIOUS
    <2>. QED  BY <2>1, <2>2 DEF LinedUp
  <1>. QED  BY <1>2, <1>3, <1>4

LEMMA AskKeeps ==
    ASSUME PassInv, ask, elapsed' \in Nat
    PROVE  PassInv'
  <1>. USE DEF PassInv
  <1>1. /\ Reading /\ AnswersInv
        /\ caller = "_handle_block" => current \notin Legacy
        /\ current \in Legacy \/ pin > 0
        /\ UNCHANGED <<head, readers, caller, irm, began>>
    BY DEF ask, MayRead, Pinned
  <1>2. /\ head \in 1 .. MaxBlock /\ began \in 1 .. head /\ pin \in 0 .. head
        /\ caller \in {"read_all", "_handle_block"}
        /\ answers \in Seq(1 .. head) /\ current \in Reader
    BY <1>1, ReadersListed DEF PassTypes
  <1>. DEFINE h == Append(answers, Answer)
  <1>3. Answer \in 1 .. head /\ (caller = "read_all" => began <= Answer)
        /\ (current \notin Legacy => Answer = pin)
    BY <1>1, <1>2 DEF Answer, Pinned, AnswersInv
  <1>4. /\ h \in Seq(1 .. head) /\ Len(h) = Len(answers) + 1 /\ Len(h) \in Nat
        /\ \A k \in DOMAIN h : h[k] \in {Answer} \cup {answers[j] : j \in DOMAIN answers}
    BY <1>2, <1>3
  <1>5. /\ caller = "read_all" => \A k \in DOMAIN h : began <= h[k]
        /\ current \notin Legacy => \A k \in DOMAIN h : h[k] = pin
    BY <1>1, <1>3, <1>4 DEF AnswersInv
  <1>6. current \in Legacy => caller = "read_all" /\ pin = 0
    BY <1>1, <1>2 DEF AnswersInv
  <1>. HIDE DEF h
  <1>7. CASE Len(h) = Requests(current)
    <2>1. h \in [1 .. Requests(current) -> 1 .. head]
      <3>1. h \in [1 .. Len(h) -> 1 .. head]
        BY <1>4, LenProperties
      <3>. QED  BY <1>7, <3>1, Zenon
    <2>2. caller = "_handle_block" => current \notin Legacy
      BY <1>1
    <2>3. AnsweredAt(current, h, head, caller, began, pin)
      <3>1. current \notin Legacy => \A k \in DOMAIN h : h[k] = h[1]
        BY <1>2, <1>5, <1>7, <2>1, RequestsMade
      <3>. QED  BY <1>5, <1>6, <2>1, <2>2, <3>1 DEF AnsweredAt
    <2>4. Made(SnapshotOf(current, h), current, head, caller, began, pin)
      BY <2>1, <2>3 DEF Made
    <2>5. GoesOn(<<SnapshotOf(current, h)>>)
      BY <1>7 DEF ask, h
    <2>. QED  BY <1>1, <2>4, <2>5, GoesOnKeeps
  <1>8. CASE Len(h) # Requests(current)
    <2>1. answers' = h /\ UNCHANGED <<turn, pin, results>>
      BY <1>8 DEF ask, h
    <2>2. Len(h) < Requests(current)
      <3>1. Requests(current) \in Nat /\ Len(answers) < Requests(current)
        BY <1>1, <1>2, RequestsMade DEF AnswersInv
      <3>2. Len(answers) \in Nat
        BY <1>2
      <3>. QED  BY <1>4, <1>8, <3>1, <3>2
    <2>3. PassTypes'
      BY <1>1, <1>4, <2>1 DEF PassTypes
    <2>4. current' = current /\ AnswersInv'
      BY <1>1, <1>5, <1>6, <2>1, <2>2 DEF AnswersInv, current
    <2>5. LinedUp'
      BY <1>1, <2>1 DEF LinedUp
    <2>. QED  BY <2>3, <2>4, <2>5
  <1>. QED  BY <1>7, <1>8

LEMMA RaisesKeeps ==
    ASSUME PassInv, raises, elapsed' \in Nat
    PROVE  PassInv'
  <1>1. Made(Stale(current), current, head, caller, began, pin)
    BY DEF Made
  <1>2. Reading /\ UNCHANGED <<head, readers, caller, irm, began>> /\ GoesOn(Failed)
    BY DEF raises
  <1>3. Failed = <<Stale(current)>> \/ (Failed = <<>> /\ caller = "read_all")
    BY DEF Failed
  <1>. QED  BY <1>1, <1>2, <1>3, GoesOnKeeps

LEMMA AskBlockKeeps ==
    ASSUME PassInv, askBlock, elapsed' \in Nat
    PROVE  PassInv'
  <1>. USE DEF PassInv
  <1>1. /\ Reading /\ AnswersInv /\ current \notin Legacy /\ pin = 0 /\ pin' = head
        /\ UNCHANGED <<head, readers, caller, turn, answers, irm, results, began>>
    BY DEF askBlock, MayRead, Pinned, PassTypes
  <1>2. /\ head \in 1 .. MaxBlock /\ began \in 1 .. head /\ answers \in Seq(1 .. head)
        /\ caller # "_handle_block"
        /\ readers \in Seq(Reader) /\ turn \in Nat
    BY <1>1, ReadersListed DEF PassTypes
  <1>3. \A k \in DOMAIN answers : FALSE
    BY <1>1, <1>2 DEF AnswersInv
  <1>4. PassTypes'
    BY <1>1, <1>2 DEF PassTypes
  <1>5. current' = current /\ AnswersInv'
    BY <1>1, <1>2, <1>3 DEF AnswersInv, current
  <1>6. LinedUp'
    <2>1. PICK from : InLine(results, from, readers, turn, head, caller, began, pin)
      BY DEF LinedUp
    <2>2. InLine(results, from, readers, turn, head, caller, began, head)
      BY <1>2, <2>1, LineStays
    <2>. QED  BY <1>1, <2>2 DEF LinedUp, InLine
  <1>. QED  BY <1>4, <1>5, <1>6

LEMMA BlockKeepsPass ==
    ASSUME PassInv, newBlock, UNCHANGED passVars
    PROVE  PassInv'
  <1>. USE DEF PassInv, passVars
  <1>1. /\ head' = head + 1 /\ head' \in 1 .. MaxBlock /\ head \in 1 .. MaxBlock
        /\ readers \in Seq(Reader) /\ turn \in Nat
    BY ReadersListed DEF newBlock, PassTypes
  <1>2. PassTypes'
    <2>1. answers \in Seq(1 .. head')
      BY <1>1, SeqMonotonic DEF PassTypes
    <2>. QED  BY <1>1, <2>1 DEF PassTypes
  <1>3. Reading' => AnswersInv'
    BY DEF Reading, AnswersInv, current
  <1>4. LinedUp'
    <2>1. PICK from : InLine(results, from, readers, turn, head, caller, began, pin)
      BY DEF LinedUp
    <2>2. InLine(results, from, readers, turn, head', caller, began, pin)
      BY <1>1, <2>1, LineStays
    <2>. QED  BY <2>2 DEF LinedUp, InLine
  <1>. QED  BY <1>2, <1>3, <1>4

LEMMA PassKeeps ==
    ASSUME PassInv, ReaderNext
    PROVE  PassInv'
  <1>1. CASE readAll
    <2>1. head \in Nat /\ 0 \in 0 .. head
      BY DEF PassInv, PassTypes
    <2>. QED  BY <1>1, <2>1, BeginKeeps DEF readAll
  <1>2. CASE handleBlock
    <2>1. PICK block \in 1 .. head : begin("_handle_block", block)
      BY <1>2 DEF handleBlock
    <2>2. block \in 0 .. head /\ block # 0
      BY DEF PassInv, PassTypes
    <2>. QED  BY <2>1, <2>2, BeginKeeps
  <1>3. CASE readerStep
    <2>1. elapsed' \in Nat
      BY <1>3, ReaderAssumption DEF readerStep, PassInv, PassTypes
    <2>2. CASE bindModel
      <3>1. PassTypes'
        BY <2>1, <2>2 DEF bindModel, PassInv, PassTypes
      <3>2. Reading' => AnswersInv'
        BY <2>2 DEF bindModel, PassInv, Reading, AnswersInv, current
      <3>3. LinedUp'
        BY <2>2 DEF bindModel, PassInv, LinedUp
      <3>. QED  BY <3>1, <3>2, <3>3 DEF PassInv
    <2>. QED  BY <1>3, <2>1, <2>2, AskBlockKeeps, AskKeeps, RaisesKeeps DEF readerStep
  <1>4. CASE newBlock /\ UNCHANGED passVars
    BY <1>4, BlockKeepsPass
  <1>. QED  BY <1>1, <1>2, <1>3, <1>4 DEF ReaderNext

\* The invariant of every pass: what was read comes from its blocks.
LEMMA PassInvariantly == ReaderSpec => []PassInv
  <1>1. ReaderInit => PassInv
    <2>. SUFFICES ASSUME ReaderInit PROVE PassInv
      OBVIOUS
    <2>1. readers \in Seq(Reader) /\ Len(readers) \in Nat /\ ~Reading
      BY ReaderAssumption DEF ReaderInit, Reading
    <2>2. PassTypes
      <3>1. <<>> \in Seq(1 .. head) /\ <<>> \in Seq(SnapshotSet)
        BY EmptySeq
      <3>2. irm \in BOOLEAN
        BY DEF ReaderInit
      <3>3. /\ head \in 1 .. MaxBlock /\ began \in 1 .. head /\ pin \in 0 .. head /\ elapsed \in Nat
            /\ turn \in 0 .. Len(readers) + 1
        BY <2>1 DEF ReaderInit
      <3>. QED  BY <3>1, <3>2, <3>3 DEF ReaderInit, PassTypes
    <2>3. LinedUp
      <3>. DEFINE from == [i \in {} |-> 1]
      <3>1. InLine(<<>>, from, readers, 0, 1, "none", 1, 0)
        BY DEF InLine
      <3>2. from \in [DOMAIN <<>> -> DOMAIN readers]
        OBVIOUS
      <3>. QED  BY <3>1, <3>2 DEF LinedUp, ReaderInit
    <2>. QED  BY <2>1, <2>2, <2>3 DEF PassInv
  <1>2. PassInv /\ [ReaderNext]_readerVars => PassInv'
    <2>1. CASE UNCHANGED readerVars
      BY <2>1 DEF readerVars, passVars, PassInv, PassTypes, Reading, AnswersInv, current, LinedUp
    <2>. QED  BY <2>1, PassKeeps
  <1>. QED  BY <1>1, <1>2, PTL DEF ReaderSpec

\* Every snapshot of a pass was made by one of its readers.
LEMMA TakenMade ==
    ASSUME PassInv, NEW s \in Taken
    PROVE  \E r \in Reader : Made(s, r, head, caller, began, pin)
  <1>1. PICK from : InLine(results, from, readers, turn, head, caller, began, pin)
    BY DEF PassInv, LinedUp
  <1>2. PICK i \in DOMAIN results : s = results[i]
    BY DEF Taken
  <1>3. readers[from[i]] \in Reader
    BY <1>1, ReadersListed DEF PassInv, InLine
  <1>. QED  BY <1>1, <1>2, <1>3 DEF InLine

LEMMA PassTyped == PassInv => ReaderTypeOK
  <1>. SUFFICES ASSUME PassInv PROVE ReaderTypeOK
    OBVIOUS
  <1>. DEFINE Record ==
           [adapter_index : 0 .. 5, apy : Nat \X Nat, utilization : Nat \X Nat, tvl : Nat,
            raw_rate_1e18 : Nat, heights : Seq(1 .. head)]
  <1>1. head \in 1 .. MaxBlock
    BY DEF PassInv, PassTypes
  <1>2. ASSUME NEW s \in Taken PROVE s \in Record
    <2>1. PICK r \in Reader : Made(s, r, head, caller, began, pin)
      BY TakenMade
    <2>2. s \in SnapshotSet
      BY <1>1, <2>1, MadeTyped
    <2>3. s.heights \in Seq(1 .. head)
      <3>1. CASE s = Stale(r)
        <4>1. s.heights = <<>> /\ <<>> \in Seq(1 .. head)
          BY <3>1, StaleMade, EmptySeq
        <4>. QED  BY <4>1
      <3>2. ASSUME NEW h \in [1 .. Requests(r) -> 1 .. head], s = SnapshotOf(r, h)
            PROVE  s.heights \in Seq(1 .. head)
        <4>1. s.heights = h /\ Requests(r) \in 1 .. 3
          BY <1>1, <3>2, SnapshotMade, RequestsMade
        <4>2. h \in Seq(1 .. head)
          <5>1. Requests(r) \in Nat
            BY <4>1
          <5>. QED  BY <5>1, ListOf, Zenon
        <4>. QED  BY <4>1, <4>2
      <3>. QED  BY <2>1, <3>1, <3>2 DEF Made
    <2>. QED  BY <2>2, <2>3 DEF SnapshotSet
  <1>3. Taken \subseteq Record
    BY <1>2
  <1>. QED  BY <1>1, <1>3 DEF PassInv, PassTypes, ReaderTypeOK

LEMMA IndexTellsReader ==
    \A r, q \in Reader : AdapterIndex[r] = AdapterIndex[q] => r = q
  BY DEF AdapterIndex, Reader

LEMMA PassOneBlock == PassInv => OneBlock
  <1>. SUFFICES ASSUME PassInv, NEW s \in Taken, Newer(s)
                PROVE  \E b \in IF caller = "_handle_block" THEN {pin} ELSE began .. head :
                           \A i \in DOMAIN s.heights : s.heights[i] = b
    BY DEF OneBlock
  <1>1. head \in 1 .. MaxBlock /\ began \in 1 .. head
        /\ caller \in {"none", "read_all", "_handle_block"}
    BY DEF PassInv, PassTypes
  <1>2. PICK r \in Reader : Made(s, r, head, caller, began, pin)
    BY TakenMade
  <1>3. r \notin Legacy
    BY <1>1, <1>2, MadeTyped DEF Newer
  <1>4. CASE s = Stale(r)
    <2>1. \A i \in DOMAIN s.heights : FALSE
      <3>1. s.heights = <<>>
        BY <1>4, StaleMade
      <3>. QED  BY <3>1
    <2>2. began \in began .. head
      BY <1>1
    <2>. QED  BY <2>1, <2>2
  <1>5. ASSUME NEW h \in [1 .. Requests(r) -> 1 .. head],
               AnsweredAt(r, h, head, caller, began, pin), s = SnapshotOf(r, h)
        PROVE  \E b \in IF caller = "_handle_block" THEN {pin} ELSE began .. head :
                   \A i \in DOMAIN s.heights : s.heights[i] = b
    <2>1. s.heights = h /\ Requests(r) \in 1 .. 3
      BY <1>1, <1>5, SnapshotMade, RequestsMade
    <2>2. h[1] \in 1 .. head /\ 1 \in DOMAIN h
      BY <2>1
    <2>3. \A i \in DOMAIN h : h[i] = h[1]
      BY <1>3, <1>5 DEF AnsweredAt
    <2>4. CASE caller = "_handle_block"
      BY <1>5, <2>1, <2>4 DEF AnsweredAt
    <2>5. CASE caller = "read_all"
      <3>1. h[1] \in began .. head
        BY <1>1, <1>5, <2>2, <2>5 DEF AnsweredAt
      <3>. QED  BY <2>1, <2>3, <2>5, <3>1
    <2>6. CASE caller = "none"
      <3>1. PICK from : InLine(results, from, readers, turn, head, caller, began, pin)
        BY DEF PassInv, LinedUp
      <3>2. PICK i \in DOMAIN results : s = results[i]
        BY DEF Taken
      <3>3. turn = 0 /\ DOMAIN readers = 1 .. Len(readers) /\ Len(readers) \in Nat
        BY <2>6, ReadersListed DEF PassInv, PassTypes
      <3>4. from[i] < 0 /\ from[i] \in 1 .. Len(readers)
        BY <3>1, <3>2, <3>3 DEF InLine
      <3>. QED  BY <3>3, <3>4
    <2>. QED  BY <1>1, <2>4, <2>5, <2>6
  <1>. QED  BY <1>2, <1>4, <1>5 DEF Made

LEMMA PassRatesAgree == PassInv => RatesAgree
  <1>. SUFFICES ASSUME PassInv, NEW s \in Taken, s.apy # NaN
                PROVE  /\ s.raw_rate_1e18 * s.apy[2] <= s.apy[1] * SCALE_18
                       /\ s.apy[1] * SCALE_18 < s.raw_rate_1e18 * s.apy[2] + s.apy[2]
    BY DEF RatesAgree
  <1>1. head \in 1 .. MaxBlock
    BY DEF PassInv, PassTypes
  <1>2. PICK r \in Reader : Made(s, r, head, caller, began, pin)
    BY TakenMade
  <1>3. PICK h \in [1 .. Requests(r) -> 1 .. head] : s = SnapshotOf(r, h)
    BY <1>2, StaleMade DEF Made
  <1>. QED  BY <1>1, <1>3, SnapshotMade DEF Agrees

LEMMA PassRateOfUtilization == PassInv => RateOfUtilization
  <1>. SUFFICES ASSUME PassInv, NEW s \in Taken,
                       s.adapter_index = AdapterIndex["compound"], s.apy # NaN
                PROVE  \E b \in began .. head : LET u == RawUtilization(Market("compound", b)) IN
                           /\ s.utilization = Utilization(u, SCALE_18)
                           /\ s.raw_rate_1e18 = SupplyCurve(u) * JulianYear
    BY DEF RateOfUtilization
  <1>1. head \in 1 .. MaxBlock /\ began \in 1 .. head
    BY DEF PassInv, PassTypes
  <1>2. PICK r \in Reader : Made(s, r, head, caller, began, pin)
    BY TakenMade
  <1>3. r = "compound"
    BY <1>1, <1>2, MadeTyped, IndexTellsReader DEF Reader
  <1>4. PICK h \in [1 .. 3 -> 1 .. head] :
            AnsweredAt(r, h, head, caller, began, pin) /\ s = SnapshotOf(r, h)
    BY <1>2, <1>3, StaleMade DEF Made, Requests
  <1>5. h[1] \in began .. head
    BY <1>1, <1>3, <1>4 DEF AnsweredAt, Legacy
  <1>6. s = CompoundSnapshot("compound", h)
    BY <1>3, <1>4 DEF SnapshotOf
  <1>7. LET u == RawUtilization(Market("compound", h[1])) IN
            /\ s.utilization = Utilization(u, SCALE_18)
            /\ s.raw_rate_1e18 = SupplyCurve(u) * JulianYear
    BY <1>6 DEF CompoundSnapshot, Snapshot, WadPerSecond
  <1>. QED  BY <1>5, <1>7

LEMMA PassLinesUp == PassInv => SnapshotsLineUp
  BY DEF PassInv, LinedUp, InLine, SnapshotsLineUp

-----------------------------------------------------------------------------
(* The metrics and the audit trail *)

USE ObservabilityAssumption

Writing == {"file", "write", "flush", "sync"}

\* Who is at the file of the day holds the lock, and once it has been chosen it is open.
LockInv ==
    /\ \A r \in Recorder : doing[r] \in Writing <=> holder = r
    /\ doing["kill"] \notin {"hold", "switch", "rebalances"}
    /\ _fp \in {0, _current_day}
    /\ _fp = 0 => _current_day < today /\ buffer = <<>>
    /\ \A r \in Recorder : doing[r] \in {"write", "flush", "sync"} => _fp > 0

LEMMA LockKept ==
    ASSUME ObsTypeOK, LockInv, ObsNext
    PROVE  LockInv'
  <1>. USE DEF ObsTypeOK, LockInv, Writing, Recorder, trailVars, fileVars, metricVars, Day
  <1>1. CASE decided
    BY <1>1 DEF decided, inc, Free
  <1>2. CASE killSwitch
    BY <1>2 DEF killSwitch, Moves, inc, Free
  <1>3. CASE startRender
    BY <1>3 DEF startRender
  <1>4. CASE renderLine
    BY <1>4 DEF renderLine, Lines
  <1>5. ASSUME NEW r \in Recorder, counted(r) PROVE LockInv'
    BY <1>5 DEF counted, Moves, inc, Free
  <1>6. ASSUME NEW r \in Recorder, enter(r) PROVE LockInv'
    BY <1>6 DEF enter, MayEnter, Moves
  <1>7. ASSUME NEW r \in Recorder, sameDay(r) PROVE LockInv'
    BY <1>7 DEF sameDay, Moves
  <1>8. ASSUME NEW r \in Recorder, rotate(r) PROVE LockInv'
    <2>1. /\ doing[r] = "file" /\ doing' = [doing EXCEPT ![r] = "write"]
          /\ holder' = holder /\ today' = today
          /\ _fp' = today /\ _current_day' = today
      BY <1>8 DEF rotate, Moves
    <2>. QED  BY <2>1
  <1>9. ASSUME NEW r \in Recorder, rotateFails(r) PROVE LockInv'
    <2>1. /\ doing' = [doing EXCEPT ![r] = "idle"] /\ holder' = "none" /\ doing[r] = "file"
          /\ today' = today /\ today # _current_day
          /\ _fp' = 0 /\ _current_day' = _current_day
      BY <1>9 DEF rotateFails, Leaves, DayAfterFailure
    <2>2. buffer' = <<>>
      BY <1>9 DEF rotateFails, Puts, fileVars
    <2>. QED  BY <2>1, <2>2
  <1>10. ASSUME NEW r \in Recorder, write(r) PROVE LockInv'
    <2>1. /\ doing[r] = "write" /\ doing' = [doing EXCEPT ![r] = "flush"]
          /\ holder' = holder /\ today' = today
          /\ _fp > 0 /\ _fp' = _fp /\ _current_day' = _current_day
      BY <1>10 DEF write, Moves
    <2>. QED  BY <2>1
  <1>11. ASSUME NEW r \in Recorder, flush(r) PROVE LockInv'
    <2>1. /\ doing[r] = "flush" /\ doing' = [doing EXCEPT ![r] = "sync"]
          /\ _fp > 0 /\ UNCHANGED <<holder, today, _fp, _current_day>>
      BY <1>11 DEF flush, Moves
    <2>. QED  BY <2>1
  <1>12. ASSUME NEW r \in Recorder, sync(r) PROVE LockInv'
    BY <1>12 DEF sync, Leaves, Synced, fileVars
  <1>13. ASSUME NEW r \in Recorder, appendFails(r) PROVE LockInv'
    <2>1. /\ doing[r] \in {"flush", "sync"} /\ doing' = [doing EXCEPT ![r] = "idle"]
          /\ holder' = "none" /\ _fp > 0 /\ UNCHANGED <<today, _fp, _current_day>>
      BY <1>13 DEF appendFails, Leaves
    <2>. QED  BY <2>1
  <1>14. CASE midnight
    BY <1>14 DEF midnight
  <1>15. CASE stop
    BY <1>15 DEF stop
  <1>. QED
    BY <1>1, <1>2, <1>3, <1>4, <1>5, <1>6, <1>7, <1>8, <1>9, <1>10, <1>11, <1>12, <1>13, <1>14, <1>15 DEF ObsNext, append

MetricTypes == counters \in [Counter -> Nat] /\ scrape \in Seq(Nat) /\ rendering \in BOOLEAN

DoingTypes ==
    doing \in [Recorder -> {"idle", "hold", "switch", "rebalances", "append", "file", "write",
                            "flush", "sync"}]

CallTypes == stamp \in [Recorder -> Day] /\ calls \in [Recorder -> Nat] /\ stops \in Nat

DayTypes ==
    /\ holder \in Recorder \cup {"none"}
    /\ today \in Day /\ _current_day \in 0 .. today /\ _fp \in 0 .. today

FileTypes ==
    /\ buffer \in Seq(Entry) /\ file \in [Day -> Seq(Entry)] /\ synced \in [Day -> Nat]
    /\ begun \in BOOLEAN /\ torn \in [Day -> BOOLEAN] /\ glued \subseteq Entry
    /\ acked \subseteq Entry

LEMMA TypesOfParts ==
    ObsTypeOK <=> MetricTypes /\ DoingTypes /\ CallTypes /\ DayTypes /\ FileTypes
  BY DEF ObsTypeOK, MetricTypes, DoingTypes, CallTypes, DayTypes, FileTypes

\* The entry a recorder writes.
EntryOf(r) == [ts |-> stamp[r], by |-> r, call |-> calls[r], run |-> stops]

LEMMA EntryTyped ==
    ASSUME CallTypes, NEW r \in Recorder
    PROVE  EntryOf(r) \in Entry /\ EntryOf(r).by = r /\ EntryOf(r).call = calls[r]
           /\ EntryOf(r).ts = stamp[r]
  BY DEF CallTypes, EntryOf, Entry

LEMMA DoingTypesKept ==
    ASSUME DoingTypes, ObsNext
    PROVE  DoingTypes'
  <1>. USE DEF DoingTypes, Recorder, trailVars, fileVars, metricVars
  <1>1. CASE decided
    BY <1>1 DEF decided, inc, Free
  <1>2. CASE killSwitch
    BY <1>2 DEF killSwitch, Moves, inc, Free
  <1>3. CASE startRender
    BY <1>3 DEF startRender
  <1>4. CASE renderLine
    BY <1>4 DEF renderLine, Lines
  <1>5. ASSUME NEW r \in Recorder, counted(r) PROVE DoingTypes'
    BY <1>5 DEF counted, Moves, inc, Free
  <1>6. ASSUME NEW r \in Recorder, enter(r) PROVE DoingTypes'
    BY <1>6 DEF enter, MayEnter, Moves
  <1>7. ASSUME NEW r \in Recorder, sameDay(r) PROVE DoingTypes'
    BY <1>7 DEF sameDay, Moves
  <1>8. ASSUME NEW r \in Recorder, rotate(r) PROVE DoingTypes'
    BY <1>8 DEF rotate, Moves
  <1>9. ASSUME NEW r \in Recorder, rotateFails(r) PROVE DoingTypes'
    BY <1>9 DEF rotateFails, Leaves, DayAfterFailure
  <1>10. ASSUME NEW r \in Recorder, write(r) PROVE DoingTypes'
    BY <1>10 DEF write, Moves
  <1>11. ASSUME NEW r \in Recorder, flush(r) PROVE DoingTypes'
    BY <1>11 DEF flush, Moves
  <1>12. ASSUME NEW r \in Recorder, sync(r) PROVE DoingTypes'
    BY <1>12 DEF sync, Leaves, Synced
  <1>13. ASSUME NEW r \in Recorder, appendFails(r) PROVE DoingTypes'
    BY <1>13 DEF appendFails, Leaves
  <1>14. CASE midnight
    BY <1>14 DEF midnight
  <1>15. CASE stop
    BY <1>15 DEF stop
  <1>. QED
    BY <1>1, <1>2, <1>3, <1>4, <1>5, <1>6, <1>7, <1>8, <1>9, <1>10, <1>11, <1>12, <1>13, <1>14, <1>15 DEF ObsNext, append

LEMMA CallTypesKept ==
    ASSUME CallTypes, DayTypes, ObsNext
    PROVE  CallTypes'
  <1>. USE DEF CallTypes, DayTypes, Recorder, Day, trailVars, fileVars, metricVars
  <1>1. CASE decided
    BY <1>1 DEF decided, inc, Free
  <1>2. CASE killSwitch
    BY <1>2 DEF killSwitch, Moves, inc, Free
  <1>3. CASE startRender
    BY <1>3 DEF startRender
  <1>4. CASE renderLine
    BY <1>4 DEF renderLine, Lines
  <1>5. ASSUME NEW r \in Recorder, counted(r) PROVE CallTypes'
    BY <1>5 DEF counted, Moves, inc, Free
  <1>6. ASSUME NEW r \in Recorder, enter(r) PROVE CallTypes'
    BY <1>6 DEF enter, MayEnter, Moves
  <1>7. ASSUME NEW r \in Recorder, sameDay(r) PROVE CallTypes'
    BY <1>7 DEF sameDay, Moves
  <1>8. ASSUME NEW r \in Recorder, rotate(r) PROVE CallTypes'
    BY <1>8 DEF rotate, Moves
  <1>9. ASSUME NEW r \in Recorder, rotateFails(r) PROVE CallTypes'
    BY <1>9 DEF rotateFails, Leaves, DayAfterFailure
  <1>10. ASSUME NEW r \in Recorder, write(r) PROVE CallTypes'
    BY <1>10 DEF write, Moves
  <1>11. ASSUME NEW r \in Recorder, flush(r) PROVE CallTypes'
    BY <1>11 DEF flush, Moves
  <1>12. ASSUME NEW r \in Recorder, sync(r) PROVE CallTypes'
    BY <1>12 DEF sync, Leaves, Synced
  <1>13. ASSUME NEW r \in Recorder, appendFails(r) PROVE CallTypes'
    BY <1>13 DEF appendFails, Leaves
  <1>14. CASE midnight
    BY <1>14 DEF midnight
  <1>15. CASE stop
    BY <1>15 DEF stop
  <1>. QED
    BY <1>1, <1>2, <1>3, <1>4, <1>5, <1>6, <1>7, <1>8, <1>9, <1>10, <1>11, <1>12, <1>13, <1>14, <1>15 DEF ObsNext, append

LEMMA DayTypesKept ==
    ASSUME DayTypes, ObsNext
    PROVE  DayTypes'
  <1>. USE DEF DayTypes, Recorder, Day, trailVars, fileVars, metricVars
  <1>1. CASE decided
    BY <1>1 DEF decided, inc, Free
  <1>2. CASE killSwitch
    BY <1>2 DEF killSwitch, Moves, inc, Free
  <1>3. CASE startRender
    BY <1>3 DEF startRender
  <1>4. CASE renderLine
    BY <1>4 DEF renderLine, Lines
  <1>5. ASSUME NEW r \in Recorder, counted(r) PROVE DayTypes'
    BY <1>5 DEF counted, Moves, inc, Free
  <1>6. ASSUME NEW r \in Recorder, enter(r) PROVE DayTypes'
    BY <1>6 DEF enter, MayEnter, Moves
  <1>7. ASSUME NEW r \in Recorder, sameDay(r) PROVE DayTypes'
    BY <1>7 DEF sameDay, Moves
  <1>8. ASSUME NEW r \in Recorder, rotate(r) PROVE DayTypes'
    BY <1>8 DEF rotate, Moves
  <1>9. ASSUME NEW r \in Recorder, rotateFails(r) PROVE DayTypes'
    BY <1>9 DEF rotateFails, Leaves, DayAfterFailure
  <1>10. ASSUME NEW r \in Recorder, write(r) PROVE DayTypes'
    BY <1>10 DEF write, Moves
  <1>11. ASSUME NEW r \in Recorder, flush(r) PROVE DayTypes'
    BY <1>11 DEF flush, Moves
  <1>12. ASSUME NEW r \in Recorder, sync(r) PROVE DayTypes'
    BY <1>12 DEF sync, Leaves, Synced
  <1>13. ASSUME NEW r \in Recorder, appendFails(r) PROVE DayTypes'
    BY <1>13 DEF appendFails, Leaves
  <1>14. CASE midnight
    BY <1>14 DEF midnight
  <1>15. CASE stop
    BY <1>15 DEF stop
  <1>. QED
    BY <1>1, <1>2, <1>3, <1>4, <1>5, <1>6, <1>7, <1>8, <1>9, <1>10, <1>11, <1>12, <1>13, <1>14, <1>15 DEF ObsNext, append

\* What a step may do to the files and to what is buffered.
Flushes == \E n \in 0 .. Len(buffer), part, lost \in BOOLEAN : Puts(n, part, lost)

Writes(r) == UNCHANGED <<begun, file, torn, glued>> /\ buffer' = Append(buffer, EntryOf(r))

Cuts ==
    /\ buffer' = <<>>
    /\ \E kept \in [Day -> Nat] :
          /\ \A d \in Day : synced[d] <= kept[d] /\ kept[d] <= Len(file[d])
          /\ file' = [d \in Day |-> SubSeq(file[d], 1, kept[d])]

LEMMA AppendFlushes ==
    ASSUME FileTypes, NEW r \in Recorder,
           rotate(r) \/ rotateFails(r) \/ flush(r) \/ appendFails(r)
    PROVE  Flushes \/ UNCHANGED fileVars
  <1>1. Len(buffer) \in 0 .. Len(buffer) /\ FALSE \in BOOLEAN /\ TRUE \in BOOLEAN
    BY DEF FileTypes
  <1>2. PutsAll => Flushes
    BY <1>1 DEF PutsAll, Flushes
  <1>3. CASE rotate(r) \/ flush(r)
    BY <1>2, <1>3 DEF rotate, flush
  <1>4. CASE rotateFails(r)
    BY <1>1, <1>4 DEF rotateFails, Flushes
  <1>5. CASE appendFails(r)
    <2>1. Len(buffer) \in Nat
      BY DEF FileTypes
    <2>2. 0 .. Len(buffer) - 1 \subseteq 0 .. Len(buffer)
      BY <2>1
    <2>. QED  BY <1>1, <1>5, <2>2 DEF appendFails, Flushes, LostByFailure
  <1>. QED  BY <1>3, <1>4, <1>5

LEMMA StopCuts ==
    ASSUME FileTypes, stop
    PROVE  Cuts
  <1>1. \A d \in Day : Len(file[d]) \in Nat
    BY DEF FileTypes
  <1>2. PICK kept \in [Day -> UNION {0 .. Len(file[d]) : d \in Day}] :
            /\ \A d \in Day : synced[d] <= kept[d] /\ kept[d] <= Len(file[d])
            /\ file' = [d \in Day |-> SubSeq(file[d], 1, kept[d])]
    BY DEF stop
  <1>3. kept \in [Day -> Nat]
    BY <1>1, <1>2
  <1>. QED  BY <1>2, <1>3 DEF Cuts, stop

\* Some arithmetic on lengths.
LEMMA Behind == \A m, n \in Nat : \A i \in m + 1 .. m + n : i - m \in 1 .. n
  OBVIOUS

LEMMA RestLength == \A n, x \in Nat :
    n <= x => (IF n + 1 <= x THEN x - (n + 1) + 1 ELSE 0) = x - n
  OBVIOUS

LEMMA UpToFive == \A n \in 0 .. 4 : n + 1 <= 5
  OBVIOUS

\* The two parts of a buffer.
LEMMA Split ==
    ASSUME NEW b \in Seq(Entry), NEW n \in 0 .. Len(b),
           NEW p, p = SubSeq(b, 1, n), NEW q, q = SubSeq(b, n + 1, Len(b))
    PROVE  /\ p \in Seq(Entry) /\ Len(p) = n /\ DOMAIN p = 1 .. n
           /\ \A i \in 1 .. n : i \in DOMAIN b /\ p[i] = b[i]
           /\ q \in Seq(Entry) /\ DOMAIN q = 1 .. Len(b) - n
           /\ \A j \in 1 .. Len(b) - n : n + j \in DOMAIN b /\ q[j] = b[n + j]
  <1>1. /\ DOMAIN b = 1 .. Len(b) /\ Len(b) \in Nat /\ n \in Nat /\ n <= Len(b)
        /\ \A i \in 1 .. Len(b) : b[i] \in Entry
    OBVIOUS
  <1>2. \A i \in 1 .. n : b[i] \in Entry
    BY <1>1
  <1>3. \A i \in n + 1 .. Len(b) : b[i] \in Entry
    BY <1>1
  <1>4. /\ p \in Seq(Entry) /\ Len(p) = (IF 1 <= n THEN n - 1 + 1 ELSE 0)
        /\ \A i \in 1 .. n - 1 + 1 : p[i] = b[1 + i - 1]
    BY <1>1, <1>2, SubSeqProperties
  <1>5. /\ q \in Seq(Entry)
        /\ Len(q) = (IF n + 1 <= Len(b) THEN Len(b) - (n + 1) + 1 ELSE 0)
        /\ \A i \in 1 .. Len(b) - (n + 1) + 1 : q[i] = b[n + 1 + i - 1]
    <2>1. n + 1 \in Int /\ Len(b) \in Int
      BY <1>1
    <2>. QED  BY <1>3, <2>1, SubSeqProperties
  <1>6. Len(p) = n /\ Len(q) = Len(b) - n
    <2>1. PICK x \in Nat : x = Len(b)
      BY <1>1
    <2>2. Len(p) = n
      BY <1>1, <1>4
    <2>3. Len(q) = (IF n + 1 <= x THEN x - (n + 1) + 1 ELSE 0) /\ n <= x
      BY <1>1, <1>5, <2>1
    <2>4. Len(q) = x - n
      BY <1>1, <2>3, RestLength
    <2>. QED  BY <2>1, <2>2, <2>4
  <1>7. DOMAIN p = 1 .. n /\ DOMAIN q = 1 .. Len(b) - n
    BY <1>4, <1>5, <1>6, LenProperties
  <1>8. \A i \in 1 .. n : i \in DOMAIN b /\ p[i] = b[i]
    BY <1>1, <1>4
  <1>9. ASSUME NEW j \in 1 .. Len(b) - n PROVE n + j \in DOMAIN b /\ q[j] = b[n + j]
    <2>1. n + j \in 1 .. Len(b) /\ j \in 1 .. Len(b) - (n + 1) + 1 /\ n + 1 + j - 1 = n + j
      BY <1>1
    <2>. QED  BY <1>1, <1>5, <2>1
  <1>. QED  BY <1>4, <1>5, <1>6, <1>7, <1>8, <1>9

LEMMA FlushTyped ==
    ASSUME FileTypes, DayTypes, Flushes
    PROVE  /\ file' \in [Day -> Seq(Entry)] /\ buffer' \in Seq(Entry)
           /\ begun' \in BOOLEAN /\ torn' \in [Day -> BOOLEAN] /\ glued' \subseteq Entry
  <1>1. PICK n \in 0 .. Len(buffer), part \in BOOLEAN, lost \in BOOLEAN : Puts(n, part, lost)
    BY DEF Flushes
  <1>2. _fp \in Day /\ buffer \in Seq(Entry) /\ file[_fp] \in Seq(Entry)
    BY <1>1 DEF Puts, DayTypes, Day, FileTypes
  <1>3. SubSeq(buffer, 1, n) \in Seq(Entry) /\ SubSeq(buffer, n + 1, Len(buffer)) \in Seq(Entry)
    BY <1>2, Split
  <1>4. file' \in [Day -> Seq(Entry)]
    <2>1. file[_fp] \o SubSeq(buffer, 1, n) \in Seq(Entry)
      BY <1>2, <1>3
    <2>. QED  BY <1>1, <1>2, <2>1 DEF Puts, OnDay, FileTypes
  <1>5. buffer' \in Seq(Entry)
    BY <1>1, <1>3, EmptySeq DEF Puts
  <1>6. torn' \in [Day -> BOOLEAN] /\ begun' \in BOOLEAN
    BY <1>1, <1>2 DEF Puts, FileTypes
  <1>7. n > 0 \/ part => Head(buffer) \in Entry
    <2>1. n > 0 \/ part => Len(buffer) > 0
      BY <1>1, <1>2 DEF Puts
    <2>. QED  BY <1>2, <2>1, HeadTailProperties
  <1>8. glued' \subseteq Entry
    BY <1>1, <1>7 DEF Puts, FileTypes
  <1>. QED  BY <1>4, <1>5, <1>6, <1>8

LEMMA FileTypesKept ==
    ASSUME FileTypes, CallTypes, DayTypes, LockInv, ObsNext
    PROVE  FileTypes'
  <1>. USE DEF FileTypes, trailVars, fileVars, metricVars
  <1>1. CASE decided
    BY <1>1 DEF decided, inc, Free
  <1>2. CASE killSwitch
    BY <1>2 DEF killSwitch, Moves, inc, Free
  <1>3. CASE startRender
    BY <1>3 DEF startRender
  <1>4. CASE renderLine
    BY <1>4 DEF renderLine, Lines
  <1>5. ASSUME NEW r \in Recorder, counted(r) PROVE FileTypes'
    BY <1>5 DEF counted, Moves, inc, Free
  <1>6. ASSUME NEW r \in Recorder, enter(r) PROVE FileTypes'
    BY <1>6 DEF enter, MayEnter, Moves
  <1>7. ASSUME NEW r \in Recorder, sameDay(r) PROVE FileTypes'
    BY <1>7 DEF sameDay, Moves
  <1>8. ASSUME NEW r \in Recorder, rotate(r) PROVE FileTypes'
    <2>1. UNCHANGED <<synced, acked>>
      BY <1>8 DEF rotate
    <2>. QED  BY <1>8, <2>1, AppendFlushes, FlushTyped
  <1>9. ASSUME NEW r \in Recorder, rotateFails(r) PROVE FileTypes'
    <2>1. UNCHANGED <<synced, acked>>
      BY <1>9 DEF rotateFails
    <2>. QED  BY <1>9, <2>1, AppendFlushes, FlushTyped
  <1>10. ASSUME NEW r \in Recorder, write(r) PROVE FileTypes'
    <2>1. UNCHANGED <<synced, acked>> /\ Writes(r)
      BY <1>10 DEF write, Writes, EntryOf
    <2>. QED  BY <2>1, EntryTyped DEF Writes
  <1>11. ASSUME NEW r \in Recorder, flush(r) PROVE FileTypes'
    <2>1. UNCHANGED <<synced, acked>>
      BY <1>11 DEF flush
    <2>. QED  BY <1>11, <2>1, AppendFlushes, FlushTyped
  <1>12. ASSUME NEW r \in Recorder, sync(r) PROVE FileTypes'
    <2>1. UNCHANGED fileVars /\ acked' = acked \cup {EntryOf(r)}
      BY <1>12 DEF sync, EntryOf
    <2>2. _fp \in Day
      BY <1>12 DEF sync, LockInv, DayTypes, Day
    <2>3. synced' \in [Day -> Nat]
      BY <1>12, <2>2 DEF sync, Synced
    <2>. QED  BY <2>1, <2>3, EntryTyped
  <1>13. ASSUME NEW r \in Recorder, appendFails(r) PROVE FileTypes'
    <2>1. UNCHANGED <<synced, acked>>
      BY <1>13 DEF appendFails
    <2>. QED  BY <1>13, <2>1, AppendFlushes, FlushTyped
  <1>14. CASE midnight
    BY <1>14 DEF midnight
  <1>15. CASE stop
    <2>1. /\ UNCHANGED <<synced, acked, glued>> /\ begun' = FALSE
          /\ torn' \in [Day -> BOOLEAN] /\ Cuts
      BY <1>15, StopCuts DEF stop
    <2>2. PICK kept \in [Day -> Nat] :
              /\ \A d \in Day : synced[d] <= kept[d] /\ kept[d] <= Len(file[d])
              /\ file' = [d \in Day |-> SubSeq(file[d], 1, kept[d])]
      BY <2>1 DEF Cuts
    <2>3. ASSUME NEW d \in Day PROVE SubSeq(file[d], 1, kept[d]) \in Seq(Entry)
      BY <2>2, SubSeqProperties
    <2>. QED  BY <2>1, <2>2, <2>3, EmptySeq DEF Cuts
  <1>. QED
    BY <1>1, <1>2, <1>3, <1>4, <1>5, <1>6, <1>7, <1>8, <1>9, <1>10, <1>11, <1>12, <1>13, <1>14, <1>15 DEF ObsNext, append

\* The lines of files f and of a buffer b, in the order of their times.
Ordered(f, b) ==
    /\ \A d, e \in Day : \A i \in DOMAIN f[d], j \in DOMAIN f[e] :
          d < e \/ (d = e /\ i < j) => f[d][i].ts <= f[e][j].ts
    /\ \A i, j \in DOMAIN b : i < j => b[i].ts <= b[j].ts
    /\ \A d \in Day : \A i \in DOMAIN f[d], j \in DOMAIN b : f[d][i].ts <= b[j].ts

\* None is later than a time.
Before(f, b, time) ==
    /\ \A d \in Day : \A i \in DOMAIN f[d] : f[d][i].ts <= time
    /\ \A j \in DOMAIN b : b[j].ts <= time

NoneAfter(f, day) == \A e \in Day : e > day => f[e] = <<>>

SameCall(x, y) == x.by = y.by /\ x.call = y.call

\* No two of them are of one call.
Distinct(f, b) ==
    /\ \A d, e \in Day : \A i \in DOMAIN f[d], j \in DOMAIN f[e] :
          SameCall(f[d][i], f[e][j]) => d = e /\ i = j
    /\ \A i, j \in DOMAIN b : SameCall(b[i], b[j]) => i = j
    /\ \A d \in Day : \A i \in DOMAIN f[d], j \in DOMAIN b : ~SameCall(f[d][i], b[j])

InTrail(x, f, b) ==
    \/ \E d \in Day : \E i \in DOMAIN f[d] : x = f[d][i]
    \/ \E j \in DOMAIN b : x = b[j]

LEMMA LenDomain ==
    ASSUME NEW s \in Seq(Entry), NEW n \in Nat, DOMAIN s = 1 .. n
    PROVE  Len(s) = n
  <1>1. PICK k \in Nat : k = Len(s) /\ DOMAIN s = 1 .. k
    BY LenProperties
  <1>2. 1 .. k = 1 .. n
    BY <1>1
  <1>3. k = n
    <2>1. \A i \in Nat : i \in 1 .. k <=> i \in 1 .. n
      BY <1>2
    <2>2. k > n => k \in 1 .. k /\ k \notin 1 .. n
      OBVIOUS
    <2>3. n > k => n \in 1 .. n /\ n \notin 1 .. k
      OBVIOUS
    <2>. QED  BY <2>1, <2>2, <2>3
  <1>. QED  BY <1>1, <1>3

LEMMA EmptyBuffer == \A j \in DOMAIN <<>> : FALSE
  OBVIOUS

\* Where a line of the flushed files was.
LEMMA LinesFlushed ==
    ASSUME NEW f \in [Day -> Seq(Entry)], NEW b \in Seq(Entry), NEW d \in Day,
           NEW g, g = [f EXCEPT ![d] = @ \o b]
    PROVE  /\ g \in [Day -> Seq(Entry)]
           /\ \A e \in Day \ {d} : g[e] = f[e]
           /\ DOMAIN g[d] = 1 .. Len(f[d]) + Len(b)
           /\ DOMAIN f[d] = 1 .. Len(f[d]) /\ DOMAIN b = 1 .. Len(b)
           /\ Len(f[d]) \in Nat /\ Len(b) \in Nat
           /\ \A i \in 1 .. Len(f[d]) : g[d][i] = f[d][i]
           /\ \A i \in Len(f[d]) + 1 .. Len(f[d]) + Len(b) :
                 i - Len(f[d]) \in 1 .. Len(b) /\ g[d][i] = b[i - Len(f[d])]
  <1>1. f[d] \in Seq(Entry) /\ g[d] = f[d] \o b
    OBVIOUS
  <1>2. f[d] \o b \in Seq(Entry)
    BY <1>1
  <1>3. g \in [Day -> Seq(Entry)]
    BY <1>2
  <1>. QED  BY <1>1, <1>3, ConcatProperties

LEMMA FlushOrdered ==
    ASSUME NEW f \in [Day -> Seq(Entry)], NEW b \in Seq(Entry), NEW d \in Day,
           Ordered(f, b), NoneAfter(f, d), NEW g, g = [f EXCEPT ![d] = @ \o b]
    PROVE  Ordered(g, <<>>) /\ NoneAfter(g, d)
  <1>1. NoneAfter(g, d)
    BY LinesFlushed DEF NoneAfter, Day
  <1>2. ASSUME NEW p \in Day, NEW q \in Day, NEW i \in DOMAIN g[p], NEW j \in DOMAIN g[q],
               p < q \/ (p = q /\ i < j)
        PROVE  g[p][i].ts <= g[q][j].ts
    <2>. DEFINE m == Len(f[d])
    <2>1. p = d => q = d
      <3>1. SUFFICES ASSUME p = d, q # d PROVE FALSE
        OBVIOUS
      <3>2. q > d /\ f[q] = <<>> /\ g[q] = f[q]
        BY <1>2, <3>1, LinesFlushed DEF NoneAfter, Day
      <3>. QED  BY <3>2
    <2>2. CASE p # d /\ q # d
      BY <1>2, <2>2, LinesFlushed DEF Ordered
    <2>3. CASE p # d /\ q = d
      <3>1. CASE j \in 1 .. m
        BY <1>2, <2>3, <3>1, LinesFlushed DEF Ordered
      <3>2. CASE j \notin 1 .. m
        <4>1. j \in m + 1 .. m + Len(b)
          BY <2>3, <3>2, LinesFlushed
        <4>2. j - m \in DOMAIN b /\ g[q][j] = b[j - m] /\ g[p] = f[p]
          BY <2>3, <4>1, LinesFlushed
        <4>3. i \in DOMAIN f[p]
          BY <4>2
        <4>4. f[p][i].ts <= b[j - m].ts
          BY <4>2, <4>3 DEF Ordered
        <4>. QED  BY <4>2, <4>4
      <3>. QED  BY <3>1, <3>2
    <2>4. CASE p = d /\ q = d
      <3>1. i \in Nat /\ j \in Nat /\ i < j /\ m \in Nat
        BY <1>2, <2>4, LinesFlushed DEF Day
      <3>2. CASE j \in 1 .. m
        <4>1. i \in 1 .. m
          BY <2>4, <3>1, <3>2, LinesFlushed
        <4>. QED  BY <2>4, <3>1, <3>2, <4>1, LinesFlushed DEF Ordered
      <3>3. CASE j \notin 1 .. m
        <4>1. j \in m + 1 .. m + Len(b)
          BY <2>4, <3>3, LinesFlushed
        <4>2. j - m \in DOMAIN b /\ g[q][j] = b[j - m]
          BY <2>4, <4>1, LinesFlushed
        <4>3. CASE i \in 1 .. m
          <5>1. i \in DOMAIN f[d] /\ g[p][i] = f[d][i]
            BY <2>4, <4>3, LinesFlushed
          <5>. QED  BY <4>2, <5>1 DEF Ordered
        <4>4. CASE i \notin 1 .. m
          <5>1. i \in m + 1 .. m + Len(b)
            BY <2>4, <4>4, LinesFlushed
          <5>2. i - m \in DOMAIN b /\ g[p][i] = b[i - m] /\ i - m < j - m
            BY <2>4, <3>1, <5>1, LinesFlushed
          <5>. QED  BY <4>2, <5>2 DEF Ordered
        <4>. QED  BY <4>3, <4>4
      <3>. QED  BY <3>2, <3>3
    <2>. QED  BY <2>1, <2>2, <2>3, <2>4
  <1>. QED  BY <1>1, <1>2, EmptyBuffer DEF Ordered

LEMMA FlushBefore ==
    ASSUME NEW f \in [Day -> Seq(Entry)], NEW b \in Seq(Entry), NEW d \in Day,
           NEW time, Before(f, b, time), NEW g, g = [f EXCEPT ![d] = @ \o b]
    PROVE  Before(g, <<>>, time)
  <1>. SUFFICES ASSUME NEW e \in Day, NEW i \in DOMAIN g[e] PROVE g[e][i].ts <= time
    BY DEF Before
  <1>1. CASE e # d
    BY <1>1, LinesFlushed DEF Before
  <1>2. CASE e = d /\ i \in 1 .. Len(f[d])
    BY <1>2, LinesFlushed DEF Before
  <1>3. CASE e = d /\ i \notin 1 .. Len(f[d])
    <2>1. i \in Len(f[d]) + 1 .. Len(f[d]) + Len(b)
      BY <1>3, LinesFlushed
    <2>. QED  BY <1>3, <2>1, LinesFlushed DEF Before
  <1>. QED  BY <1>1, <1>2, <1>3

LEMMA FlushDistinct ==
    ASSUME NEW f \in [Day -> Seq(Entry)], NEW b \in Seq(Entry), NEW d \in Day,
           Distinct(f, b), NEW g, g = [f EXCEPT ![d] = @ \o b]
    PROVE  Distinct(g, <<>>)
  <1>. DEFINE m == Len(f[d])
  <1>1. ASSUME NEW p \in Day, NEW i \in DOMAIN g[p]
        PROVE  \/ i \in DOMAIN f[p] /\ g[p][i] = f[p][i]
               \/ p = d /\ i \in m + 1 .. m + Len(b) /\ i - m \in DOMAIN b /\ g[p][i] = b[i - m]
    <2>1. CASE p # d
      BY <2>1, LinesFlushed
    <2>2. CASE p = d /\ i \in 1 .. m
      BY <2>2, LinesFlushed
    <2>3. CASE p = d /\ i \notin 1 .. m
      <3>1. i \in m + 1 .. m + Len(b)
        BY <2>3, LinesFlushed
      <3>. QED  BY <2>3, <3>1, LinesFlushed
    <2>. QED  BY <2>1, <2>2, <2>3
  <1>2. ASSUME NEW p \in Day, NEW q \in Day, NEW i \in DOMAIN g[p], NEW j \in DOMAIN g[q],
               SameCall(g[p][i], g[q][j])
        PROVE  p = q /\ i = j
    <2>1. CASE i \in DOMAIN f[p] /\ g[p][i] = f[p][i] /\ j \in DOMAIN f[q] /\ g[q][j] = f[q][j]
      BY <1>2, <2>1 DEF Distinct
    <2>2. CASE /\ i \in DOMAIN f[p] /\ g[p][i] = f[p][i]
               /\ q = d /\ j - m \in DOMAIN b /\ g[q][j] = b[j - m]
      BY <1>2, <2>2 DEF Distinct
    <2>3. CASE /\ j \in DOMAIN f[q] /\ g[q][j] = f[q][j]
               /\ p = d /\ i - m \in DOMAIN b /\ g[p][i] = b[i - m]
      <3>1. SameCall(f[q][j], b[i - m])
        BY <1>2, <2>3 DEF SameCall
      <3>. QED  BY <2>3, <3>1 DEF Distinct
    <2>4. CASE /\ p = d /\ i \in m + 1 .. m + Len(b) /\ i - m \in DOMAIN b /\ g[p][i] = b[i - m]
               /\ q = d /\ j \in m + 1 .. m + Len(b) /\ j - m \in DOMAIN b /\ g[q][j] = b[j - m]
      <3>1. i - m = j - m
        BY <1>2, <2>4 DEF Distinct
      <3>2. m \in Nat /\ Len(b) \in Nat
        BY LinesFlushed
      <3>3. i \in Int /\ j \in Int
        BY <2>4, <3>2
      <3>. QED  BY <2>4, <3>1, <3>2, <3>3
    <2>. QED  BY <1>1, <2>1, <2>2, <2>3, <2>4
  <1>. QED  BY <1>2, EmptyBuffer DEF Distinct

\* A line that is not flushed yet.
LEMMA WriteKeepsOrder ==
    ASSUME NEW f \in [Day -> Seq(Entry)], NEW b \in Seq(Entry), NEW e \in Entry,
           NEW c, c = Append(b, e)
    PROVE  /\ Ordered(f, b) /\ Before(f, b, e.ts) => Ordered(f, c)
           /\ \A time : Before(f, b, time) /\ e.ts <= time => Before(f, c, time)
           /\ Distinct(f, b) /\ (\A x : InTrail(x, f, b) => ~SameCall(x, e)) => Distinct(f, c)
  <1>. DEFINE n == Len(b)
  <1>1. /\ DOMAIN b = 1 .. n /\ n \in Nat /\ DOMAIN c = 1 .. n + 1
        /\ \A i \in 1 .. n : c[i] = b[i]
        /\ c[n + 1] = e
    OBVIOUS
  <1>. HIDE DEF n
  <1>2. ASSUME NEW j \in DOMAIN c
        PROVE  (j \in DOMAIN b /\ c[j] = b[j]) \/ (j = n + 1 /\ c[j] = e)
    BY <1>1
  <1>3. ASSUME Ordered(f, b), Before(f, b, e.ts) PROVE Ordered(f, c)
    <2>1. ASSUME NEW i \in DOMAIN c, NEW j \in DOMAIN c, i < j PROVE c[i].ts <= c[j].ts
      <3>1. i \in DOMAIN b /\ c[i] = b[i]
        BY <1>1, <2>1
      <3>. QED  BY <1>2, <1>3, <2>1, <3>1 DEF Ordered, Before
    <2>2. ASSUME NEW d \in Day, NEW i \in DOMAIN f[d], NEW j \in DOMAIN c
          PROVE  f[d][i].ts <= c[j].ts
      BY <1>2, <1>3 DEF Ordered, Before
    <2>. QED  BY <1>3, <2>1, <2>2 DEF Ordered
  <1>4. ASSUME NEW time, Before(f, b, time), e.ts <= time PROVE Before(f, c, time)
    BY <1>2, <1>4 DEF Before
  <1>5. ASSUME Distinct(f, b), \A x : InTrail(x, f, b) => ~SameCall(x, e) PROVE Distinct(f, c)
    <2>1. ASSUME NEW i \in DOMAIN c, NEW j \in DOMAIN c, SameCall(c[i], c[j]) PROVE i = j
      <3>1. \A k \in DOMAIN b : InTrail(b[k], f, b)
        BY DEF InTrail
      <3>2. /\ \A k \in DOMAIN b : ~SameCall(b[k], e)
            /\ \A k, l \in DOMAIN b : SameCall(b[k], b[l]) => k = l
        BY <1>5, <3>1 DEF Distinct
      <3>3. SameCall(c[j], c[i])
        BY <2>1 DEF SameCall
      <3>. QED  BY <1>2, <2>1, <3>2, <3>3
    <2>2. ASSUME NEW d \in Day, NEW i \in DOMAIN f[d], NEW j \in DOMAIN c
          PROVE  ~SameCall(f[d][i], c[j])
      <3>1. InTrail(f[d][i], f, b)
        BY DEF InTrail
      <3>. QED  BY <1>2, <1>5, <3>1 DEF Distinct
    <2>. QED  BY <1>5, <2>1, <2>2 DEF Distinct
  <1>. QED  BY <1>3, <1>4, <1>5

\* Prefixes of the files, and no buffer.
LEMMA CutKeepsOrder ==
    ASSUME NEW f \in [Day -> Seq(Entry)], NEW b, NEW g, DOMAIN g = Day,
           \A d \in Day : /\ DOMAIN g[d] \subseteq DOMAIN f[d]
                          /\ \A i \in DOMAIN g[d] : g[d][i] = f[d][i]
    PROVE  /\ Ordered(f, b) => Ordered(g, <<>>)
           /\ \A time : Before(f, b, time) => Before(g, <<>>, time)
           /\ Distinct(f, b) => Distinct(g, <<>>)
           /\ \A x : InTrail(x, g, <<>>) => InTrail(x, f, b)
  <1>1. Ordered(f, b) => Ordered(g, <<>>)
    BY EmptyBuffer DEF Ordered
  <1>2. \A time : Before(f, b, time) => Before(g, <<>>, time)
    BY EmptyBuffer DEF Before
  <1>3. Distinct(f, b) => Distinct(g, <<>>)
    BY EmptyBuffer DEF Distinct
  <1>4. \A x : InTrail(x, g, <<>>) => InTrail(x, f, b)
    BY EmptyBuffer DEF InTrail
  <1>. QED  BY <1>1, <1>2, <1>3, <1>4

\* What is on the disk of each file is part of it.
SyncedPart == \A d \in Day : synced[d] <= Len(file[d])

\* Nothing that was on the disk changes.
DiskStays == \A d \in Day :
    /\ synced[d] <= Len(file'[d])
    /\ \A i \in 1 .. synced[d] : i \in DOMAIN file[d] /\ i \in DOMAIN file'[d] /\ file'[d][i] = file[d][i]

\* The trail as it was, in its order, without some of the last lines.
Shrinks ==
    /\ Ordered(file, buffer) => Ordered(file', buffer')
    /\ \A time : Before(file, buffer, time) => Before(file', buffer', time)
    /\ \A day \in Day : day >= _fp /\ NoneAfter(file, day) => NoneAfter(file', day)
    /\ Distinct(file, buffer) => Distinct(file', buffer')
    /\ \A x : InTrail(x, file', buffer') => InTrail(x, file, buffer)
    /\ DiskStays

\* Files g and a buffer c hold lines of the files f and the buffer b, in their order.
Keeps(f, b, g, c) ==
    /\ Ordered(f, b) => Ordered(g, c)
    /\ \A time : Before(f, b, time) => Before(g, c, time)
    /\ Distinct(f, b) => Distinct(g, c)
    /\ \A x : InTrail(x, g, c) => InTrail(x, f, b)

LEMMA KeepsOn ==
    ASSUME NEW f, NEW b, NEW h, NEW k, NEW g, NEW c, Keeps(f, b, h, k), Keeps(h, k, g, c)
    PROVE  Keeps(f, b, g, c)
  BY DEF Keeps

\* All of the buffer b goes to the file of the day.
AllPut(f, b, d, g) == g = [f EXCEPT ![d] = @ \o b]

\* Files g and a buffer c that hold the lines of the files h, less some of the last
\* of day d: g has the first k of it and c the l behind them.
IsRest(h, d, k, l, g, c) ==
    /\ DOMAIN h[d] = 1 .. Len(h[d]) /\ k + l <= Len(h[d])
    /\ \A e \in Day \ {d} : g[e] = h[e]
    /\ DOMAIN g[d] = 1 .. k /\ \A i \in 1 .. k : g[d][i] = h[d][i]
    /\ DOMAIN c = 1 .. l /\ \A j \in 1 .. l : c[j] = h[d][k + j]

LEMMA RestKeepsOrder ==
    ASSUME NEW h \in [Day -> Seq(Entry)], NEW d \in Day, NoneAfter(h, d),
           NEW k \in Nat, NEW l \in Nat, NEW g \in [Day -> Seq(Entry)], NEW c,
           IsRest(h, d, k, l, g, c)
    PROVE  Keeps(h, <<>>, g, c)
  <1>. USE DEF IsRest
  <1>1. Len(h[d]) \in Nat
    OBVIOUS
  <1>2. \A e \in Day : /\ DOMAIN g[e] \subseteq DOMAIN h[e]
                       /\ \A i \in DOMAIN g[e] : g[e][i] = h[e][i]
    <2>1. 1 .. k \subseteq 1 .. Len(h[d])
      BY <1>1
    <2>. QED  BY <2>1
  <1>3. DOMAIN g = Day
    OBVIOUS
  <1>4. /\ Ordered(h, <<>>) => Ordered(g, <<>>)
        /\ \A time : Before(h, <<>>, time) => Before(g, <<>>, time)
        /\ Distinct(h, <<>>) => Distinct(g, <<>>)
        /\ \A x : InTrail(x, g, <<>>) => InTrail(x, h, <<>>)
    BY <1>2, <1>3, CutKeepsOrder
  <1>5. \A j \in DOMAIN c : j \in Nat /\ k + j \in DOMAIN h[d] /\ c[j] = h[d][k + j]
    BY <1>1
  <1>6. ASSUME NEW e \in Day, NEW i \in DOMAIN g[e], NEW j \in DOMAIN c
        PROVE  /\ i \in DOMAIN h[e] /\ g[e][i] = h[e][i]
               /\ e < d \/ (e = d /\ i < k + j)
    <2>1. i \in DOMAIN h[e] /\ g[e][i] = h[e][i]
      BY <1>2
    <2>2. e > d => FALSE
      <3>1. e > d => h[e] = <<>>
        BY DEF NoneAfter
      <3>. QED  BY <2>1, <3>1, EmptyBuffer
    <2>3. e = d => i < k + j
      <3>1. e = d => i \in 1 .. k
        OBVIOUS
      <3>. QED  BY <1>5, <3>1
    <2>. QED  BY <2>1, <2>2, <2>3 DEF Day
  <1>7. ASSUME Ordered(h, <<>>) PROVE Ordered(g, c)
    <2>1. ASSUME NEW i \in DOMAIN c, NEW j \in DOMAIN c, i < j PROVE c[i].ts <= c[j].ts
      <3>1. k + i < k + j
        BY <1>5, <2>1
      <3>. QED  BY <1>5, <1>7, <3>1 DEF Ordered
    <2>2. ASSUME NEW e \in Day, NEW i \in DOMAIN g[e], NEW j \in DOMAIN c
          PROVE  g[e][i].ts <= c[j].ts
      <3>1. i \in DOMAIN h[e] /\ g[e][i] = h[e][i] /\ (e < d \/ (e = d /\ i < k + j))
        BY <1>6
      <3>2. k + j \in DOMAIN h[d] /\ c[j] = h[d][k + j]
        BY <1>5
      <3>3. h[e][i].ts <= h[d][k + j].ts
        BY <1>7, <3>1, <3>2 DEF Ordered
      <3>. QED  BY <3>1, <3>2, <3>3
    <2>. QED  BY <1>4, <1>7, <2>1, <2>2 DEF Ordered
  <1>8. ASSUME NEW time, Before(h, <<>>, time) PROVE Before(g, c, time)
    BY <1>4, <1>5, <1>8 DEF Before
  <1>9. ASSUME Distinct(h, <<>>) PROVE Distinct(g, c)
    <2>1. ASSUME NEW i \in DOMAIN c, NEW j \in DOMAIN c, SameCall(c[i], c[j]) PROVE i = j
      <3>1. k + i = k + j
        BY <1>5, <1>9, <2>1 DEF Distinct
      <3>. QED  BY <1>5, <3>1
    <2>2. ASSUME NEW e \in Day, NEW i \in DOMAIN g[e], NEW j \in DOMAIN c, SameCall(g[e][i], c[j])
          PROVE  FALSE
      <3>1. e = d /\ i = k + j
        BY <1>5, <1>6, <1>9, <2>2 DEF Distinct
      <3>2. e < d \/ i < k + j
        BY <1>6
      <3>3. i \in 1 .. k
        BY <3>1
      <3>. QED  BY <1>5, <3>1, <3>2, <3>3 DEF Day
    <2>. QED  BY <1>4, <1>9, <2>1, <2>2 DEF Distinct
  <1>10. ASSUME NEW x, InTrail(x, g, c) PROVE InTrail(x, h, <<>>)
    <2>1. CASE \E e \in Day : \E i \in DOMAIN g[e] : x = g[e][i]
      BY <1>2, <2>1 DEF InTrail
    <2>2. CASE \E j \in DOMAIN c : x = c[j]
      BY <1>5, <2>2 DEF InTrail
    <2>. QED  BY <1>10, <2>1, <2>2 DEF InTrail
  <1>. QED  BY <1>7, <1>8, <1>9, <1>10 DEF Keeps

\* Flushing keeps the order, and every line was in the files or in the buffer.
LEMMA FlushKeeps ==
    ASSUME NEW f \in [Day -> Seq(Entry)], NEW b \in Seq(Entry), NEW d \in Day, NoneAfter(f, d),
           NEW g, AllPut(f, b, d, g)
    PROVE  Keeps(f, b, g, <<>>)
  <1>0. g = [f EXCEPT ![d] = @ \o b]
    BY DEF AllPut
  <1>1. ASSUME NEW e \in Day, NEW i \in DOMAIN g[e]
        PROVE  InTrail(g[e][i], f, b)
    <2>1. CASE e # d
      <3>1. g[e] = f[e]
        BY <2>1, <1>0, LinesFlushed
      <3>2. g[e][i] = f[e][i] /\ i \in DOMAIN f[e]
        BY <1>1, <3>1
      <3>. QED  BY <3>2 DEF InTrail
    <2>2. CASE e = d /\ i \in 1 .. Len(f[d])
      <3>1. g[e][i] = f[e][i] /\ i \in DOMAIN f[e]
        BY <2>2, <1>0, LinesFlushed
      <3>. QED  BY <3>1 DEF InTrail
    <2>3. CASE e = d /\ i \notin 1 .. Len(f[d])
      <3>1. i \in Len(f[d]) + 1 .. Len(f[d]) + Len(b)
        BY <1>1, <2>3, <1>0, LinesFlushed
      <3>2. i - Len(f[d]) \in DOMAIN b /\ g[e][i] = b[i - Len(f[d])]
        BY <2>3, <3>1, <1>0, LinesFlushed
      <3>. QED  BY <3>2 DEF InTrail
    <2>. QED  BY <2>1, <2>2, <2>3
  <1>2. ASSUME NEW x, InTrail(x, g, <<>>) PROVE InTrail(x, f, b)
    <2>1. PICK e \in Day : \E i \in DOMAIN g[e] : x = g[e][i]
      BY <1>2, EmptyBuffer DEF InTrail
    <2>. QED  BY <1>1, <2>1
  <1>3. Ordered(f, b) => Ordered(g, <<>>)
    BY <1>0, FlushOrdered
  <1>4. \A time : Before(f, b, time) => Before(g, <<>>, time)
    BY <1>0, FlushBefore
  <1>5. Distinct(f, b) => Distinct(g, <<>>)
    BY <1>0, FlushDistinct
  <1>. QED  BY <1>2, <1>3, <1>4, <1>5 DEF Keeps

\* The first n lines of the buffer go to the file of the day; the rest of it may be lost.
PartPut(f, b, d, n, lost, g, c) ==
    /\ g = [f EXCEPT ![d] = @ \o SubSeq(b, 1, n)]
    /\ c = IF lost THEN <<>> ELSE SubSeq(b, n + 1, Len(b))

\* Of the files f only that of day d differs in g, and it begins as it was.
Grows(f, d, g) ==
    /\ \A e \in Day \ {d} : g[e] = f[e]
    /\ Len(f[d]) \in Nat /\ Len(f[d]) <= Len(g[d]) /\ Len(g[d]) \in Nat
    /\ \A i \in 1 .. Len(f[d]) : i \in DOMAIN f[d] /\ i \in DOMAIN g[d] /\ g[d][i] = f[d][i]

\* Writing a part of the buffer is writing all of it, less some of the last lines.
LEMMA PartWritten ==
    ASSUME NEW f \in [Day -> Seq(Entry)], NEW b \in Seq(Entry), NEW d \in Day, NoneAfter(f, d),
           NEW n \in 0 .. Len(b), NEW lost \in BOOLEAN,
           NEW g, NEW c, PartPut(f, b, d, n, lost, g, c)
    PROVE  Keeps(f, b, g, c) /\ Grows(f, d, g)
  <1>1. PICK p, q : /\ p = SubSeq(b, 1, n) /\ q = SubSeq(b, n + 1, Len(b))
                    /\ g = [f EXCEPT ![d] = @ \o p] /\ c = IF lost THEN <<>> ELSE q
    BY DEF PartPut
  <1>2. PICK h : h = [f EXCEPT ![d] = @ \o b]
    OBVIOUS
  <1>3. PICK m \in Nat : m = Len(f[d])
    OBVIOUS
  <1>4. PICK z \in Nat : z = Len(b)
    OBVIOUS
  <1>5. n \in Nat /\ n <= z
    BY <1>4
  <1>6. n \in Nat
    BY <1>5
  <1>7. PICK l \in Nat : l = IF lost THEN 0 ELSE z - n
    <2>1. z - n \in Nat
      BY <1>5
    <2>. QED  BY <2>1
  <1>8. /\ p \in Seq(Entry) /\ Len(p) = n
        /\ \A i \in 1 .. n : p[i] = b[i]
        /\ DOMAIN q = 1 .. z - n
        /\ \A j \in 1 .. z - n : q[j] = b[n + j]
    <2>1. /\ p \in Seq(Entry) /\ Len(p) = n
          /\ \A i \in 1 .. n : p[i] = b[i]
          /\ DOMAIN q = 1 .. Len(b) - n
          /\ \A j \in 1 .. Len(b) - n : q[j] = b[n + j]
      BY <1>1, Split
    <2>. QED  BY <1>4, <2>1
  <1>9. DOMAIN c = 1 .. l /\ \A j \in 1 .. l : c[j] = b[n + j]
    <2>1. CASE lost
      <3>1. c = <<>> /\ l = 0
        BY <1>1, <1>7, <2>1
      <3>. QED  BY <3>1
    <2>2. CASE ~lost
      <3>1. c = q /\ l = z - n
        BY <1>1, <1>7, <2>2
      <3>. QED  BY <1>8, <3>1
    <2>. QED  BY <2>1, <2>2
  <1>10. /\ h \in [Day -> Seq(Entry)] /\ \A e \in Day \ {d} : h[e] = f[e]
         /\ DOMAIN h[d] = 1 .. m + z
         /\ \A i \in 1 .. m : h[d][i] = f[d][i]
         /\ \A i \in m + 1 .. m + z : h[d][i] = b[i - m]
    BY <1>2, <1>3, <1>4, LinesFlushed
  <1>11. /\ g \in [Day -> Seq(Entry)] /\ \A e \in Day \ {d} : g[e] = f[e]
         /\ DOMAIN g[d] = 1 .. m + n /\ DOMAIN f[d] = 1 .. m
         /\ \A i \in 1 .. m : g[d][i] = f[d][i]
         /\ \A i \in m + 1 .. m + n : g[d][i] = p[i - m]
    BY <1>1, <1>3, <1>8, LinesFlushed
  <1>12. Len(h[d]) = m + z /\ Len(g[d]) = m + n
    <2>1. h[d] \in Seq(Entry) /\ g[d] \in Seq(Entry) /\ m + z \in Nat /\ m + n \in Nat
      BY <1>3, <1>4, <1>5, <1>10, <1>11
    <2>. QED  BY <1>10, <1>11, <2>1, LenDomain
  <1>13. ASSUME NEW i \in 1 .. m + n PROVE g[d][i] = h[d][i]
    <2>1. CASE i \in 1 .. m
      BY <1>10, <1>11, <2>1
    <2>2. CASE i \notin 1 .. m
      <3>1. i \in Int /\ i >= m + 1 /\ i <= m + n
        BY <1>6, <2>2
      <3>2. i <= m + z
        BY <1>5, <3>1
      <3>3. i \in m + 1 .. m + n
        BY <1>6, <3>1
      <3>4. i \in m + 1 .. m + z
        BY <3>1, <3>2
      <3>5. i - m \in 1 .. n
        BY <1>6, <3>3, Behind
      <3>6. g[d][i] = p[i - m]
        BY <1>11, <3>3
      <3>7. p[i - m] = b[i - m]
        BY <1>8, <3>5
      <3>8. h[d][i] = b[i - m]
        BY <1>10, <3>4
      <3>. QED  BY <3>6, <3>7, <3>8
    <2>. QED  BY <2>1, <2>2
  <1>14. ASSUME NEW j \in 1 .. l PROVE c[j] = h[d][m + n + j]
    <2>1. l <= z - n
      BY <1>4, <1>5, <1>7
    <2>2. m + n + j \in m + 1 .. m + z /\ m + n + j - m = n + j
      BY <1>3, <1>4, <1>5, <1>7, <2>1
    <2>3. c[j] = b[n + j]
      BY <1>9
    <2>4. h[d][m + n + j] = b[m + n + j - m]
      BY <1>10, <2>2
    <2>. QED  BY <2>2, <2>3, <2>4
  <1>15. Keeps(f, b, h, <<>>)
    BY <1>2, FlushKeeps DEF AllPut
  <1>16. Keeps(h, <<>>, g, c)
    <2>1. NoneAfter(h, d)
      BY <1>10 DEF NoneAfter, Day
    <2>2. PICK k \in Nat : k = m + n
      BY <1>3, <1>5
    <2>3. /\ DOMAIN h[d] = 1 .. Len(h[d]) /\ k + l <= Len(h[d])
          /\ \A e \in Day \ {d} : g[e] = h[e]
      <3>1. n + l <= z
        BY <1>5, <1>7
      <3>2. k + l <= m + z
        BY <1>6, <2>2, <3>1
      <3>3. DOMAIN h[d] = 1 .. Len(h[d]) /\ k + l <= Len(h[d])
        BY <1>10, <1>12, <3>2
      <3>. QED  BY <1>10, <1>11, <3>3
    <2>4. /\ DOMAIN g[d] = 1 .. k /\ \A i \in 1 .. k : g[d][i] = h[d][i]
          /\ \A j \in 1 .. l : c[j] = h[d][k + j]
      BY <1>11, <1>13, <1>14, <2>2
    <2>5. IsRest(h, d, k, l, g, c)
      BY <1>9, <2>3, <2>4 DEF IsRest
    <2>6. h \in [Day -> Seq(Entry)] /\ g \in [Day -> Seq(Entry)]
      BY <1>10, <1>11
    <2>. QED  BY <2>1, <2>5, <2>6, RestKeepsOrder
  <1>17. \A i \in 1 .. m : i \in DOMAIN f[d] /\ i \in DOMAIN g[d] /\ g[d][i] = f[d][i]
    BY <1>3, <1>5, <1>11
  <1>18. m <= Len(g[d]) /\ Len(g[d]) \in Nat
    BY <1>3, <1>5, <1>12
  <1>19. Keeps(f, b, g, c)
    BY <1>15, <1>16, KeepsOn
  <1>20. Grows(f, d, g)
    BY <1>3, <1>11, <1>17, <1>18 DEF Grows
  <1>. QED  BY <1>19, <1>20

LEMMA FlushShrinks ==
    ASSUME FileTypes, DayTypes, SyncedPart, Flushes, NoneAfter(file, _fp)
    PROVE  Shrinks
  <1>1. PICK n \in 0 .. Len(buffer), part \in BOOLEAN, lost \in BOOLEAN : Puts(n, part, lost)
    BY DEF Flushes
  <1>2. /\ _fp \in Day /\ file \in [Day -> Seq(Entry)] /\ buffer \in Seq(Entry)
        /\ synced \in [Day -> Nat]
    BY <1>1 DEF Puts, DayTypes, Day, FileTypes
  <1>3. PICK g : g = file'
    OBVIOUS
  <1>4. PICK c : c = buffer'
    OBVIOUS
  <1>5. PartPut(file, buffer, _fp, n, lost, g, c)
    BY <1>1, <1>3, <1>4 DEF Puts, OnDay, PartPut
  <1>6. /\ Keeps(file, buffer, g, c)
        /\ \A e \in Day \ {_fp} : g[e] = file[e]
        /\ Len(file[_fp]) \in Nat /\ Len(file[_fp]) <= Len(g[_fp]) /\ Len(g[_fp]) \in Nat
        /\ \A i \in 1 .. Len(file[_fp]) :
              i \in DOMAIN file[_fp] /\ i \in DOMAIN g[_fp] /\ g[_fp][i] = file[_fp][i]
    <2>1. n \in 0 .. Len(buffer) /\ lost \in BOOLEAN
      BY <1>1
    <2>2. Keeps(file, buffer, g, c) /\ Grows(file, _fp, g)
      BY <1>2, <1>5, <2>1, PartWritten
    <2>. QED  BY <2>2 DEF Grows
  <1>7. ASSUME NEW day \in Day, day >= _fp, NoneAfter(file, day) PROVE NoneAfter(g, day)
    <2>1. ASSUME NEW e \in Day, e > day PROVE g[e] = <<>>
      <3>1. e # _fp
        BY <1>2, <1>7, <2>1 DEF Day
      <3>. QED  BY <1>6, <1>7, <2>1, <3>1 DEF NoneAfter
    <2>. QED  BY <2>1 DEF NoneAfter
  <1>8. ASSUME NEW d \in Day
        PROVE  /\ synced[d] <= Len(g[d])
                /\ \A i \in 1 .. synced[d] : i \in DOMAIN file[d] /\ i \in DOMAIN g[d] /\ g[d][i] = file[d][i]
    <2>1. /\ synced[d] \in Nat /\ synced[d] <= Len(file[d]) /\ Len(file[d]) \in Nat
          /\ DOMAIN file[d] = 1 .. Len(file[d])
      BY <1>2 DEF SyncedPart
    <2>2. CASE d # _fp
      <3>1. g[d] = file[d]
        BY <1>6, <2>2
      <3>. QED  BY <2>1, <3>1
    <2>3. CASE d = _fp
      <3>1. 1 .. synced[d] \subseteq 1 .. Len(file[d])
        BY <2>1
      <3>. QED  BY <1>6, <2>1, <2>3, <3>1
    <2>. QED  BY <2>2, <2>3
  <1>9. DiskStays
    BY <1>3, <1>8 DEF DiskStays
  <1>. QED  BY <1>3, <1>4, <1>6, <1>7, <1>9 DEF Shrinks, Keeps

LEMMA CutShrinks ==
    ASSUME FileTypes, SyncedPart, Cuts
    PROVE  Shrinks
  <1>1. PICK kept \in [Day -> Nat] :
            /\ \A d \in Day : synced[d] <= kept[d] /\ kept[d] <= Len(file[d])
            /\ file' = [d \in Day |-> SubSeq(file[d], 1, kept[d])]
    BY DEF Cuts
  <1>2. /\ file \in [Day -> Seq(Entry)] /\ buffer' = <<>>
        /\ \A d \in Day : synced[d] \in Nat /\ Len(file[d]) \in Nat /\ DOMAIN file[d] = 1 .. Len(file[d])
    BY DEF FileTypes, Cuts
  <1>. DEFINE g == file'
  <1>3. /\ DOMAIN g = Day
        /\ \A d \in Day : /\ DOMAIN g[d] = 1 .. kept[d] /\ Len(g[d]) = kept[d]
                          /\ \A i \in 1 .. kept[d] : g[d][i] = file[d][i]
    <2>1. ASSUME NEW d \in Day
          PROVE  LET p == SubSeq(file[d], 1, kept[d])
                 IN  /\ DOMAIN p = 1 .. kept[d] /\ Len(p) = kept[d]
                     /\ \A i \in 1 .. kept[d] : p[i] = file[d][i]
      BY <1>1, <1>2, SubSeqProperties
    <2>. QED  BY <1>1, <2>1
  <1>. HIDE DEF g
  <1>4. \A d \in Day : /\ DOMAIN g[d] \subseteq DOMAIN file[d]
                       /\ \A i \in DOMAIN g[d] : g[d][i] = file[d][i]
    BY <1>1, <1>2, <1>3
  <1>5. /\ Ordered(file, buffer) => Ordered(g, <<>>)
        /\ \A time : Before(file, buffer, time) => Before(g, <<>>, time)
        /\ Distinct(file, buffer) => Distinct(g, <<>>)
        /\ \A x : InTrail(x, g, <<>>) => InTrail(x, file, buffer)
    BY <1>2, <1>3, <1>4, CutKeepsOrder
  <1>6. ASSUME NEW day, NoneAfter(file, day) PROVE NoneAfter(g, day)
    <2>1. ASSUME NEW e \in Day, e > day PROVE g[e] = <<>>
      <3>1. Len(file[e]) = 0
        BY <1>6, <2>1 DEF NoneAfter
      <3>2. kept[e] = 0
        BY <1>1, <3>1
      <3>. QED  BY <1>1, <3>2, SubSeqEmpty DEF g
    <2>. QED  BY <2>1 DEF NoneAfter
  <1>7. \A d \in Day :
            /\ synced[d] <= Len(g[d])
            /\ \A i \in 1 .. synced[d] : i \in DOMAIN file[d] /\ i \in DOMAIN g[d] /\ g[d][i] = file[d][i]
    BY <1>1, <1>2, <1>3
  <1>. QED  BY <1>2, <1>5, <1>6, <1>7 DEF Shrinks, DiskStays, g

-----------------------------------------------------------------------------
(* What a scrape shows *)

\* No switch is submitted that is not decided, and no decision is without its block.
CountsInv ==
    /\ counters["rebalances"] <= counters["switch"]
    /\ doing["loop"] = "rebalances" => counters["rebalances"] < counters["switch"]
    /\ counters["hold"] + counters["switch"] <= counters["blocks"]
    /\ doing["loop"] \in {"hold", "switch"} =>
          counters["hold"] + counters["switch"] < counters["blocks"]

\* The lines so far are the counters as they are: nobody counts while one renders.
ScrapeInv ==
    /\ Len(scrape) <= 5
    /\ rendering => Len(scrape) < 5 /\ \A i \in 1 .. Len(scrape) : scrape[i] = counters[Lines[i]]
    /\ ScrapeConsistent

MetricsInv == MetricTypes /\ CountsInv /\ ScrapeInv

LEMMA CountsKept ==
    ASSUME DoingTypes, LockInv, MetricTypes, CountsInv, ObsNext
    PROVE  CountsInv'
  <1>. USE DEF CountsInv, trailVars, fileVars, metricVars, Recorder, Counter
  <1>1. CASE decided
    <2>1. /\ counters' = [counters EXCEPT !["blocks"] = @ + 1]
          /\ \E next \in {"idle", "hold", "switch"} : doing' = [doing EXCEPT !["loop"] = next]
      BY <1>1 DEF decided, inc, Free
    <2>. QED  BY <1>1, <2>1 DEF MetricTypes, DoingTypes, decided
  <1>2. CASE killSwitch
    <2>1. /\ counters' = [counters EXCEPT !["kills"] = @ + 1]
          /\ doing' = [doing EXCEPT !["kill"] = "append"]
      BY <1>2 DEF killSwitch, Moves, inc, Free
    <2>. QED  BY <2>1 DEF MetricTypes, DoingTypes
  <1>3. CASE startRender
    BY <1>3 DEF startRender
  <1>4. CASE renderLine
    BY <1>4 DEF renderLine, Lines
  <1>5. ASSUME NEW r \in Recorder, counted(r) PROVE CountsInv'
    <2>1. r = "loop"
      BY <1>5 DEF LockInv, counted, Moves, inc, Free
    <2>2. CASE Moves(r, "hold", "append") /\ inc("hold")
      BY <2>1, <2>2 DEF MetricTypes, DoingTypes, Moves, inc
    <2>3. CASE Moves(r, "switch", "rebalances") /\ inc("switch")
      BY <2>1, <2>3 DEF MetricTypes, DoingTypes, Moves, inc
    <2>4. CASE Moves(r, "rebalances", "append") /\ inc("rebalances")
      BY <2>1, <2>4 DEF MetricTypes, DoingTypes, Moves, inc
    <2>. QED  BY <1>5, <2>2, <2>3, <2>4 DEF counted
  <1>6. ASSUME NEW r \in Recorder, enter(r) PROVE CountsInv'
    BY <1>6 DEF enter, MayEnter, Moves
  <1>7. ASSUME NEW r \in Recorder, sameDay(r) PROVE CountsInv'
    BY <1>7 DEF sameDay, Moves
  <1>8. ASSUME NEW r \in Recorder, rotate(r) PROVE CountsInv'
    BY <1>8 DEF rotate, Moves
  <1>9. ASSUME NEW r \in Recorder, rotateFails(r) PROVE CountsInv'
    BY <1>9 DEF rotateFails, Leaves, DayAfterFailure
  <1>10. ASSUME NEW r \in Recorder, write(r) PROVE CountsInv'
    BY <1>10 DEF write, Moves
  <1>11. ASSUME NEW r \in Recorder, flush(r) PROVE CountsInv'
    BY <1>11 DEF flush, Moves
  <1>12. ASSUME NEW r \in Recorder, sync(r) PROVE CountsInv'
    BY <1>12 DEF sync, Leaves, Synced
  <1>13. ASSUME NEW r \in Recorder, appendFails(r) PROVE CountsInv'
    BY <1>13 DEF appendFails, Leaves
  <1>14. CASE midnight
    BY <1>14 DEF midnight
  <1>15. CASE stop
    <2>1. counters' = [c \in Counter |-> 0] /\ doing' = [r \in Recorder |-> "idle"]
      BY <1>15 DEF stop
    <2>. QED  BY <2>1
  <1>. QED
    BY <1>1, <1>2, <1>3, <1>4, <1>5, <1>6, <1>7, <1>8, <1>9, <1>10, <1>11, <1>12, <1>13, <1>14, <1>15 DEF ObsNext, append

\* What is rendered of what is counted.
LEMMA LineRendered ==
    ASSUME MetricTypes, CountsInv, ScrapeInv, renderLine
    PROVE  scrape' \in Seq(Nat) /\ ScrapeInv'
  <1>1. Len(Lines) = 5 /\ \A k \in 1 .. 5 : Lines[k] \in Counter
    BY DEF Lines, Counter
  <1>. DEFINE s == scrape'
  <1>2. /\ rendering /\ counters' = counters
        /\ s = Append(scrape, counters[Lines[Len(scrape) + 1]])
        /\ rendering' = (Len(s) < Len(Lines))
    BY DEF renderLine
  <1>3. scrape \in Seq(Nat) /\ counters \in [Counter -> Nat]
    BY DEF MetricTypes
  <1>4. \A i \in 1 .. Len(scrape) : scrape[i] = counters[Lines[i]]
    BY <1>2 DEF ScrapeInv
  <1>5. Len(scrape) < 5
    BY <1>2 DEF ScrapeInv
  <1>6. Len(scrape) \in Nat
    BY <1>3
  <1>7. PICK n \in 0 .. 4 : n = Len(scrape)
    <2>1. ASSUME NEW l \in Nat, l < 5 PROVE l \in 0 .. 4
      BY <2>1
    <2>2. Len(scrape) \in 0 .. 4
      BY <1>6, <1>5, <2>1
    <2>. QED  BY <2>2
  <1>8. counters[Lines[n + 1]] \in Nat
    <2>1. n + 1 \in 1 .. 5
      BY <1>7
    <2>. QED  BY <1>1, <1>3, <2>1
  <1>9. /\ s \in Seq(Nat) /\ \A i \in 1 .. n : s[i] = scrape[i]
        /\ s[n + 1] = counters[Lines[n + 1]]
    BY <1>2, <1>3, <1>7, <1>8
  <1>10. Len(s) = n + 1
    BY <1>2, <1>3, <1>7
  <1>. HIDE DEF s
  <1>11. \A i \in 1 .. Len(s) : s[i] = counters[Lines[i]]
    <2>1. ASSUME NEW i \in 1 .. n + 1 PROVE s[i] = counters[Lines[i]]
      <3>1. i \in 1 .. n \/ i = n + 1
        BY <1>7
      <3>2. i \in 1 .. n => s[i] = scrape[i]
        BY <1>9
      <3>3. i \in 1 .. n => scrape[i] = counters[Lines[i]]
        BY <1>4, <1>7
      <3>4. i = n + 1 => s[i] = counters[Lines[i]]
        BY <1>9
      <3>. QED  BY <3>1, <3>2, <3>3, <3>4
    <2>. QED  BY <1>10, <2>1
  <1>12. ASSUME Len(s) = 5 PROVE s[4] <= s[3] /\ s[2] + s[3] <= s[1]
    <2>1. /\ s[1] = counters["blocks"] /\ s[2] = counters["hold"] /\ s[3] = counters["switch"]
          /\ s[4] = counters["rebalances"]
      BY <1>11, <1>12 DEF Lines
    <2>. QED  BY <2>1 DEF CountsInv
  <1>13. Len(s) = 5 => s[4] <= s[3] /\ s[2] + s[3] <= s[1]
    BY <1>12
  <1>14. Len(s) <= 5
    <2>1. n + 1 <= 5
      BY UpToFive
    <2>. QED  BY <1>10, <2>1
  <1>15. ScrapeConsistent'
    BY <1>1, <1>13 DEF ScrapeConsistent, s
  <1>16. rendering' => Len(s) < 5
    BY <1>1, <1>2
  <1>. QED  BY <1>2, <1>9, <1>11, <1>14, <1>15, <1>16 DEF ScrapeInv, s

LEMMA EmptyLine == <<>> \in Seq(Nat) /\ Len(<<>>) = 0 /\ Len(<<>>) # Len(Lines)
  BY DEF Lines

LEMMA MetricsKept ==
    ASSUME DoingTypes, LockInv, MetricsInv, ObsNext
    PROVE  MetricsInv'
  <1>0. CountsInv'
    BY CountsKept DEF MetricsInv
  <1>. SUFFICES MetricTypes' /\ ScrapeInv'
    BY <1>0 DEF MetricsInv
  <1>. USE DEF MetricsInv, MetricTypes, trailVars, fileVars, metricVars, Recorder, Counter
  <1>1. CASE decided
    <2>1. /\ ~rendering /\ UNCHANGED <<scrape, rendering>>
          /\ \E c \in Counter : counters' = [counters EXCEPT ![c] = @ + 1]
      BY <1>1 DEF decided, inc, Free
    <2>2. counters' \in [Counter -> Nat]
      BY <2>1
    <2>3. ScrapeInv'
      BY <2>1 DEF ScrapeInv, ScrapeConsistent
    <2>. QED  BY <2>1, <2>2, <2>3
  <1>2. CASE killSwitch
    <2>1. /\ ~rendering /\ UNCHANGED <<scrape, rendering>>
          /\ \E c \in Counter : counters' = [counters EXCEPT ![c] = @ + 1]
      BY <1>2 DEF killSwitch, Moves, inc, Free
    <2>2. counters' \in [Counter -> Nat]
      BY <2>1
    <2>3. ScrapeInv'
      BY <2>1 DEF ScrapeInv, ScrapeConsistent
    <2>. QED  BY <2>1, <2>2, <2>3
  <1>3. CASE startRender
    <2>1. counters' = counters /\ rendering' = TRUE /\ scrape' = <<>>
      BY <1>3 DEF startRender
    <2>. QED  BY <2>1, EmptyLine DEF ScrapeInv, ScrapeConsistent
  <1>4. CASE renderLine
    <2>1. scrape' \in Seq(Nat) /\ ScrapeInv'
      BY <1>4, LineRendered
    <2>2. counters' = counters /\ rendering' = (Len(scrape') < Len(Lines))
      BY <1>4 DEF renderLine
    <2>3. rendering' \in BOOLEAN
      BY <2>2
    <2>. QED  BY <2>1, <2>2, <2>3
  <1>5. ASSUME NEW r \in Recorder, counted(r) PROVE MetricTypes' /\ ScrapeInv'
    <2>1. /\ ~rendering /\ UNCHANGED <<scrape, rendering>>
          /\ \E c \in Counter : counters' = [counters EXCEPT ![c] = @ + 1]
      BY <1>5 DEF counted, Moves, inc, Free
    <2>2. counters' \in [Counter -> Nat]
      BY <2>1
    <2>3. ScrapeInv'
      BY <2>1 DEF ScrapeInv, ScrapeConsistent
    <2>. QED  BY <2>1, <2>2, <2>3
  <1>6. ASSUME NEW r \in Recorder, enter(r) PROVE MetricTypes' /\ ScrapeInv'
    <2>1. UNCHANGED metricVars
      BY <1>6 DEF enter
    <2>. QED  BY <2>1 DEF ScrapeInv, ScrapeConsistent
  <1>7. ASSUME NEW r \in Recorder, sameDay(r) PROVE MetricTypes' /\ ScrapeInv'
    <2>1. UNCHANGED metricVars
      BY <1>7 DEF sameDay
    <2>. QED  BY <2>1 DEF ScrapeInv, ScrapeConsistent
  <1>8. ASSUME NEW r \in Recorder, rotate(r) PROVE MetricTypes' /\ ScrapeInv'
    <2>1. UNCHANGED metricVars
      BY <1>8 DEF rotate
    <2>. QED  BY <2>1 DEF ScrapeInv, ScrapeConsistent
  <1>9. ASSUME NEW r \in Recorder, rotateFails(r) PROVE MetricTypes' /\ ScrapeInv'
    <2>1. UNCHANGED metricVars
      BY <1>9 DEF rotateFails
    <2>. QED  BY <2>1 DEF ScrapeInv, ScrapeConsistent
  <1>10. ASSUME NEW r \in Recorder, write(r) PROVE MetricTypes' /\ ScrapeInv'
    <2>1. UNCHANGED metricVars
      BY <1>10 DEF write
    <2>. QED  BY <2>1 DEF ScrapeInv, ScrapeConsistent
  <1>11. ASSUME NEW r \in Recorder, flush(r) PROVE MetricTypes' /\ ScrapeInv'
    <2>1. UNCHANGED metricVars
      BY <1>11 DEF flush
    <2>. QED  BY <2>1 DEF ScrapeInv, ScrapeConsistent
  <1>12. ASSUME NEW r \in Recorder, sync(r) PROVE MetricTypes' /\ ScrapeInv'
    <2>1. UNCHANGED metricVars
      BY <1>12 DEF sync
    <2>. QED  BY <2>1 DEF ScrapeInv, ScrapeConsistent
  <1>13. ASSUME NEW r \in Recorder, appendFails(r) PROVE MetricTypes' /\ ScrapeInv'
    <2>1. UNCHANGED metricVars
      BY <1>13 DEF appendFails
    <2>. QED  BY <2>1 DEF ScrapeInv, ScrapeConsistent
  <1>14. CASE midnight
    <2>1. UNCHANGED metricVars
      BY <1>14 DEF midnight
    <2>. QED  BY <2>1 DEF ScrapeInv, ScrapeConsistent
  <1>15. CASE stop
    <2>1. rendering' = FALSE /\ scrape' = <<>>
      BY <1>15 DEF stop
    <2>2. counters' \in [Counter -> Nat]
      BY <1>15 DEF stop
    <2>3. ScrapeInv'
      BY <2>1, EmptyLine DEF ScrapeInv, ScrapeConsistent
    <2>. QED  BY <2>1, <2>2, <2>3, EmptyLine
  <1>. HIDE DEF MetricsInv, MetricTypes, trailVars, fileVars, metricVars, Recorder, Counter
  <1>. QED
    BY <1>1, <1>2, <1>3, <1>4, <1>5, <1>6, <1>7, <1>8, <1>9, <1>10, <1>11, <1>12, <1>13, <1>14, <1>15 DEF ObsNext, append

-----------------------------------------------------------------------------
(* The order of the trail *)

OrderInv ==
    /\ Ordered(file, buffer) /\ Before(file, buffer, today)
    /\ NoneAfter(file, today) /\ (_fp > 0 => NoneAfter(file, _fp))
    /\ \A r \in Recorder : doing[r] \in {"file", "write"} =>
          stamp[r] <= today /\ Before(file, buffer, stamp[r])

\* What a step that does not write leaves of the trail.
Trimmed == (file' = file /\ buffer' = buffer) \/ Shrinks

LEMMA TrimmedOrder ==
    ASSUME FileTypes, DayTypes, OrderInv, Trimmed
    PROVE  /\ Ordered(file', buffer')
           /\ \A time : Before(file, buffer, time) => Before(file', buffer', time)
           /\ \A day \in Day : day >= _fp /\ NoneAfter(file, day) => NoneAfter(file', day)
           /\ NoneAfter(file', today)
           /\ _fp > 0 => NoneAfter(file', _fp)
  BY DEF Trimmed, Shrinks, OrderInv, DayTypes, Day

LEMMA FirstFileTrims ==
    ASSUME FileTypes, DayTypes, SyncedPart, OrderInv, Flushes \/ UNCHANGED fileVars \/ Cuts
    PROVE  Trimmed
  <1>1. CASE Flushes
    <2>1. _fp > 0
      BY <1>1 DEF Flushes, Puts
    <2>. QED  BY <1>1, <2>1, FlushShrinks DEF Trimmed, OrderInv
  <1>2. CASE UNCHANGED fileVars \/ Cuts
    BY <1>2, CutShrinks DEF Trimmed, fileVars
  <1>. QED  BY <1>1, <1>2

LEMMA LaterStillBefore ==
    ASSUME NEW f, NEW b, NEW time \in Nat, NEW later \in Nat, time <= later,
           f \in [Day -> Seq(Entry)], b \in Seq(Entry), Before(f, b, time)
    PROVE  Before(f, b, later)
  <1>1. \A e \in Entry : e.ts \in Nat
    BY DEF Entry, Day
  <1>2. ASSUME NEW d \in Day, NEW i \in DOMAIN f[d] PROVE f[d][i].ts <= later
    <2>1. f[d] \in Seq(Entry)
      OBVIOUS
    <2>2. f[d][i] \in Entry /\ f[d][i].ts <= time
      BY <2>1 DEF Before
    <2>. QED  BY <1>1, <2>2
  <1>3. ASSUME NEW j \in DOMAIN b PROVE b[j].ts <= later
    <2>1. b[j] \in Entry /\ b[j].ts <= time
      BY DEF Before
    <2>. QED  BY <1>1, <2>1
  <1>. QED  BY <1>2, <1>3 DEF Before

\* The conjuncts of OrderInv in the next state, in terms of what changes.
LEMMA OrderNext ==
    ASSUME Ordered(file', buffer'), Before(file', buffer', today'),
           NoneAfter(file', today'), _fp' > 0 => NoneAfter(file', _fp'),
           \A r \in Recorder : doing'[r] \in {"file", "write"} =>
              stamp'[r] <= today' /\ Before(file', buffer', stamp'[r])
    PROVE  OrderInv'
  BY DEF OrderInv

LEMMA OrderKept ==
    ASSUME FileTypes, DayTypes, CallTypes, DoingTypes, LockInv, SyncedPart, OrderInv, ObsNext
    PROVE  OrderInv'
  <1>1. CASE decided
    <2>1. UNCHANGED <<file, buffer, today, _fp, stamp>>
      BY <1>1 DEF decided, inc, Free, metricVars, trailVars, fileVars
    <2>2. \A q \in Recorder : doing'[q] \in {"file", "write"} => doing[q] \in {"file", "write"}
      BY <1>1 DEF decided, inc, Free, DoingTypes, Recorder
    <2>. QED  BY <2>1, <2>2, OrderNext DEF OrderInv
  <1>2. CASE killSwitch
    <2>1. UNCHANGED <<file, buffer, today, _fp, stamp>>
      BY <1>2 DEF killSwitch, Moves, inc, Free, metricVars, trailVars, fileVars
    <2>2. \A q \in Recorder : doing'[q] \in {"file", "write"} => doing[q] \in {"file", "write"}
      BY <1>2 DEF killSwitch, Moves, inc, Free, DoingTypes, Recorder
    <2>. QED  BY <2>1, <2>2, OrderNext DEF OrderInv
  <1>3. CASE startRender
    <2>1. UNCHANGED <<file, buffer, today, _fp, stamp>>
      BY <1>3 DEF startRender, metricVars, trailVars, fileVars
    <2>2. \A q \in Recorder : doing'[q] \in {"file", "write"} => doing[q] \in {"file", "write"}
      BY <1>3 DEF startRender, DoingTypes, Recorder
    <2>. QED  BY <2>1, <2>2, OrderNext DEF OrderInv
  <1>4. CASE renderLine
    <2>1. UNCHANGED <<file, buffer, today, _fp, stamp>>
      BY <1>4 DEF renderLine, Lines, metricVars, trailVars, fileVars
    <2>2. \A q \in Recorder : doing'[q] \in {"file", "write"} => doing[q] \in {"file", "write"}
      BY <1>4 DEF renderLine, Lines, DoingTypes, Recorder
    <2>. QED  BY <2>1, <2>2, OrderNext DEF OrderInv
  <1>5. ASSUME NEW r \in Recorder, counted(r) PROVE OrderInv'
    <2>1. UNCHANGED <<file, buffer, today, _fp, stamp>>
      BY <1>5 DEF counted, Moves, inc, Free, metricVars, trailVars, fileVars
    <2>2. \A q \in Recorder : doing'[q] \in {"file", "write"} => doing[q] \in {"file", "write"}
      BY <1>5 DEF counted, Moves, inc, Free, DoingTypes, Recorder
    <2>. QED  BY <2>1, <2>2, OrderNext DEF OrderInv
  <1>6. ASSUME NEW r \in Recorder, enter(r) PROVE OrderInv'
    <2>1. UNCHANGED <<file, buffer, today, _fp>> /\ stamp' = [stamp EXCEPT ![r] = today]
      BY <1>6 DEF enter, MayEnter, Moves, metricVars, fileVars
    <2>2. ASSUME NEW q \in Recorder, doing'[q] \in {"file", "write"} PROVE q = r
      BY <1>6, <2>2 DEF enter, MayEnter, Moves, LockInv, Writing, DoingTypes, Recorder
    <2>3. stamp'[r] = today /\ today <= today
      BY <2>1 DEF CallTypes, DayTypes, Day
    <2>. QED  BY <2>1, <2>2, <2>3, OrderNext DEF OrderInv
  <1>7. ASSUME NEW r \in Recorder, sameDay(r) PROVE OrderInv'
    <2>1. UNCHANGED <<file, buffer, today, _fp, stamp>>
      BY <1>7 DEF sameDay, Moves, metricVars, trailVars, fileVars
    <2>2. \A q \in Recorder : doing'[q] \in {"file", "write"} => doing[q] \in {"file", "write"}
      BY <1>7 DEF sameDay, Moves, DoingTypes, Recorder
    <2>. QED  BY <2>1, <2>2, OrderNext DEF OrderInv
  <1>8. ASSUME NEW r \in Recorder, rotate(r) PROVE OrderInv'
    <2>1. /\ today' = today /\ _fp' = today /\ stamp' = stamp
          /\ \A q \in Recorder : doing'[q] \in {"file", "write"} => doing[q] \in {"file", "write"}
      BY <1>8 DEF rotate, Moves, DoingTypes, Recorder
    <2>2. Trimmed
      BY <1>8, AppendFlushes, FirstFileTrims
    <2>. QED  BY <2>1, <2>2, TrimmedOrder, OrderNext DEF OrderInv
  <1>9. ASSUME NEW r \in Recorder, rotateFails(r) PROVE OrderInv'
    <2>1. /\ today' = today /\ _fp' = 0 /\ stamp' = stamp
          /\ \A q \in Recorder : doing'[q] \in {"file", "write"} => doing[q] \in {"file", "write"}
      BY <1>9 DEF rotateFails, Leaves, DoingTypes, Recorder
    <2>2. Trimmed
      BY <1>9, AppendFlushes, FirstFileTrims
    <2>. QED  BY <2>1, <2>2, TrimmedOrder, OrderNext DEF OrderInv
  <1>10. ASSUME NEW r \in Recorder, write(r) PROVE OrderInv'
    <2>1. /\ UNCHANGED <<today, _fp, stamp>> /\ Writes(r) /\ doing[r] = "write"
          /\ \A q \in Recorder : doing'[q] \notin {"file", "write"}
      BY <1>10 DEF write, Moves, Writes, EntryOf, DoingTypes, Recorder, LockInv, Writing
    <2>2. /\ stamp[r] <= today /\ Before(file, buffer, stamp[r]) /\ EntryOf(r).ts = stamp[r]
          /\ EntryOf(r) \in Entry
      BY <2>1, EntryTyped DEF OrderInv
    <2>3. /\ Ordered(file, buffer') /\ Before(file, buffer', today)
      BY <2>1, <2>2, WriteKeepsOrder DEF Writes, OrderInv, FileTypes
    <2>. QED  BY <2>1, <2>3, OrderNext DEF OrderInv, Writes
  <1>11. ASSUME NEW r \in Recorder, flush(r) PROVE OrderInv'
    <2>1. /\ today' = today /\ _fp' = _fp /\ stamp' = stamp
          /\ \A q \in Recorder : doing'[q] \in {"file", "write"} => doing[q] \in {"file", "write"}
      BY <1>11 DEF flush, Moves, DoingTypes, Recorder
    <2>2. Trimmed
      BY <1>11, AppendFlushes, FirstFileTrims
    <2>. QED  BY <2>1, <2>2, TrimmedOrder, OrderNext DEF OrderInv
  <1>12. ASSUME NEW r \in Recorder, sync(r) PROVE OrderInv'
    <2>1. UNCHANGED <<file, buffer, today, _fp, stamp>>
      BY <1>12 DEF sync, Leaves, Synced, metricVars, trailVars, fileVars
    <2>2. \A q \in Recorder : doing'[q] \in {"file", "write"} => doing[q] \in {"file", "write"}
      BY <1>12 DEF sync, Leaves, Synced, DoingTypes, Recorder
    <2>. QED  BY <2>1, <2>2, OrderNext DEF OrderInv
  <1>13. ASSUME NEW r \in Recorder, appendFails(r) PROVE OrderInv'
    <2>1. /\ today' = today /\ _fp' = _fp /\ stamp' = stamp
          /\ \A q \in Recorder : doing'[q] \in {"file", "write"} => doing[q] \in {"file", "write"}
      BY <1>13 DEF appendFails, Leaves, DoingTypes, Recorder
    <2>2. Trimmed
      BY <1>13, AppendFlushes, FirstFileTrims
    <2>. QED  BY <2>1, <2>2, TrimmedOrder, OrderNext DEF OrderInv
  <1>14. CASE midnight
    <2>1. UNCHANGED <<file, buffer, _fp, stamp, doing>> /\ today' = today + 1 /\ today \in Day
      BY <1>14 DEF midnight, trailVars, fileVars, DayTypes
    <2>2. Before(file, buffer, today + 1)
      <3>1. today \in Nat /\ today + 1 \in Nat /\ today <= today + 1
        BY <2>1 DEF Day
      <3>2. file \in [Day -> Seq(Entry)] /\ buffer \in Seq(Entry) /\ Before(file, buffer, today)
        BY DEF OrderInv, FileTypes
      <3>. QED  BY <3>1, <3>2, LaterStillBefore
    <2>3. NoneAfter(file, today + 1)
      BY <2>1 DEF OrderInv, NoneAfter, Day
    <2>4. \A q \in Recorder : stamp[q] <= today => stamp[q] <= today + 1
      BY <2>1 DEF CallTypes, Day
    <2>. QED  BY <2>1, <2>2, <2>3, <2>4, OrderNext DEF OrderInv
  <1>15. CASE stop
    <2>1. /\ today' = today /\ _fp' = 0 /\ stamp' = stamp
          /\ \A q \in Recorder : doing'[q] = "idle"
      BY <1>15 DEF stop, Recorder
    <2>2. Trimmed
      BY <1>15, StopCuts, FirstFileTrims
    <2>. QED  BY <2>1, <2>2, TrimmedOrder, OrderNext DEF OrderInv
  <1>. QED
    BY <1>1, <1>2, <1>3, <1>4, <1>5, <1>6, <1>7, <1>8, <1>9, <1>10, <1>11, <1>12, <1>13, <1>14, <1>15 DEF ObsNext, append

LEMMA TrailOrdered == OrderInv => TrailInOrder
  BY DEF OrderInv, Ordered, TrailInOrder

-----------------------------------------------------------------------------
(* What the trail keeps *)

\* A recorder whose entry of this call is not written.
Unwritten == {"hold", "switch", "rebalances", "append", "file", "write"}

LastIs(lines, x) == Len(lines) \in DOMAIN lines /\ lines[Len(lines)] = x

\* An entry of the trail is of a call that was made, and of an earlier one while the
\* recorder has the present one to write.
CallsMade == \A x \in Entry : InTrail(x, file, buffer) =>
    /\ x.call <= calls[x.by]
    /\ doing[x.by] \in Unwritten => x.call < calls[x.by]

LastLines == \A r \in Recorder :
    /\ doing[r] = "flush" => LastIs(buffer, EntryOf(r))
    /\ doing[r] = "sync" => LastIs(file[_fp], EntryOf(r))

AckedOnDisk == \A x \in acked : \E d \in Day : \E i \in 1 .. synced[d] :
    i \in DOMAIN file[d] /\ file[d][i] = x

SurvivalInv == SyncedPart /\ Distinct(file, buffer) /\ CallsMade /\ LastLines /\ AckedOnDisk

LEMMA TrimmedKeeps ==
    ASSUME FileTypes, SurvivalInv, Trimmed, synced' = synced
    PROVE  /\ SyncedPart' /\ Distinct(file', buffer')
           /\ \A x : InTrail(x, file', buffer') => InTrail(x, file, buffer)
           /\ acked' = acked => AckedOnDisk'
  <1>1. DiskStays
    BY DEF Trimmed, Shrinks, DiskStays, SurvivalInv, SyncedPart, FileTypes
  <1>2. SyncedPart'
    BY <1>1 DEF DiskStays, SyncedPart
  <1>3. ASSUME acked' = acked PROVE AckedOnDisk'
    <2>1. ASSUME NEW x \in acked
          PROVE  \E d \in Day : \E i \in 1 .. synced[d] : i \in DOMAIN file'[d] /\ file'[d][i] = x
      <3>1. PICK d \in Day : \E i \in 1 .. synced[d] : i \in DOMAIN file[d] /\ file[d][i] = x
        BY DEF SurvivalInv, AckedOnDisk
      <3>10. PICK i \in 1 .. synced[d] : i \in DOMAIN file[d] /\ file[d][i] = x
        BY <3>1
      <3>. QED  BY <1>1, <3>10 DEF DiskStays
    <2>. QED  BY <1>3, <2>1 DEF AckedOnDisk
  <1>. QED  BY <1>2, <1>3 DEF Trimmed, Shrinks, SurvivalInv

\* Whose calls have not moved back, and who has no less to write than before.
LEMMA CallsStillMade ==
    ASSUME CallsMade, CallTypes, calls' \in [Recorder -> Nat],
           \A x : InTrail(x, file', buffer') => InTrail(x, file, buffer),
           \A r \in Recorder :
              \/ calls[r] < calls'[r]
              \/ calls'[r] = calls[r] /\ (doing'[r] \in Unwritten => doing[r] \in Unwritten)
    PROVE  CallsMade'
  <1>1. ASSUME NEW x \in Entry, InTrail(x, file', buffer')
        PROVE  /\ x.call <= calls'[x.by]
               /\ doing'[x.by] \in Unwritten => x.call < calls'[x.by]
    <2>1. x.by \in Recorder /\ x.call \in Nat
      BY DEF Entry
    <2>2. /\ x.call <= calls[x.by]
          /\ doing[x.by] \in Unwritten => x.call < calls[x.by]
      BY <1>1 DEF CallsMade
    <2>3. calls[x.by] \in Nat /\ calls'[x.by] \in Nat
      BY <2>1 DEF CallTypes
    <2>4. \/ calls[x.by] < calls'[x.by]
          \/ calls'[x.by] = calls[x.by] /\ (doing'[x.by] \in Unwritten => doing[x.by] \in Unwritten)
      BY <2>1
    <2>. QED  BY <2>1, <2>2, <2>3, <2>4
  <1>. QED  BY <1>1 DEF CallsMade

\* A flush ends with what was written last, and a write with its entry.
LEMMA LastFlushed ==
    ASSUME NEW f \in [Day -> Seq(Entry)], NEW b \in Seq(Entry), NEW d \in Day,
           NEW g, AllPut(f, b, d, g), NEW x, LastIs(b, x)
    PROVE  LastIs(g[d], x)
  <1>1. /\ g[d] \in Seq(Entry) /\ DOMAIN g[d] = 1 .. Len(f[d]) + Len(b)
        /\ Len(f[d]) \in Nat /\ Len(b) \in Nat /\ DOMAIN b = 1 .. Len(b)
        /\ \A i \in Len(f[d]) + 1 .. Len(f[d]) + Len(b) : g[d][i] = b[i - Len(f[d])]
    BY LinesFlushed DEF AllPut
  <1>2. Len(g[d]) \in Nat /\ DOMAIN g[d] = 1 .. Len(g[d])
    BY <1>1, LenProperties
  <1>3. Len(b) >= 1 /\ b[Len(b)] = x
    BY <1>1 DEF LastIs
  <1>4. 1 .. Len(g[d]) = 1 .. Len(f[d]) + Len(b)
    BY <1>1, <1>2
  <1>5. Len(g[d]) = Len(f[d]) + Len(b)
    BY <1>1, <1>2, <1>3, <1>4
  <1>6. g[d][Len(g[d])] = b[Len(b)]
    <2>1. Len(f[d]) + Len(b) \in Len(f[d]) + 1 .. Len(f[d]) + Len(b)
      BY <1>1, <1>3
    <2>2. Len(f[d]) + Len(b) - Len(f[d]) = Len(b)
      BY <1>1
    <2>. QED  BY <1>1, <1>5, <2>1, <2>2
  <1>7. Len(g[d]) \in DOMAIN g[d]
    BY <1>1, <1>2, <1>3, <1>5
  <1>. QED  BY <1>3, <1>6, <1>7 DEF LastIs

LEMMA WrittenLines ==
    ASSUME NEW f, NEW b \in Seq(Entry), NEW e \in Entry, NEW c, c = Append(b, e)
    PROVE  /\ LastIs(c, e)
           /\ \A x : InTrail(x, f, c) => InTrail(x, f, b) \/ x = e
  <1>1. /\ DOMAIN b = 1 .. Len(b) /\ DOMAIN c = 1 .. Len(b) + 1 /\ Len(b) \in Nat
        /\ Len(c) = Len(b) + 1
        /\ \A i \in 1 .. Len(b) : c[i] = b[i]
        /\ c[Len(b) + 1] = e
    OBVIOUS
  <1>2. LastIs(c, e)
    BY <1>1 DEF LastIs
  <1>3. ASSUME NEW j \in DOMAIN c PROVE InTrail(c[j], f, b) \/ c[j] = e
    <2>1. j \in 1 .. Len(b) \/ j = Len(b) + 1
      BY <1>1
    <2>2. CASE j \in 1 .. Len(b)
      <3>1. j \in DOMAIN b /\ c[j] = b[j]
        BY <1>1, <2>2
      <3>. QED  BY <3>1 DEF InTrail
    <2>. QED  BY <1>1, <2>1, <2>2
  <1>4. ASSUME NEW x, InTrail(x, f, c) PROVE InTrail(x, f, b) \/ x = e
    <2>1. CASE \E j \in DOMAIN c : x = c[j]
      BY <1>3, <2>1
    <2>2. CASE \E d \in Day : \E i \in DOMAIN f[d] : x = f[d][i]
      BY <2>2 DEF InTrail
    <2>. QED  BY <1>4, <2>1, <2>2 DEF InTrail
  <1>. QED  BY <1>2, <1>4

LEMMA SurvivalKept ==
    ASSUME FileTypes, DayTypes, CallTypes, DoingTypes, LockInv, OrderInv, SurvivalInv, ObsNext
    PROVE  SurvivalInv'
  <1>. USE DEF Unwritten
  <1>1. CASE decided
    <2>1. /\ UNCHANGED <<file, buffer, synced, acked>> /\ calls' \in [Recorder -> Nat]
          /\ \A q \in Recorder :
                \/ calls[q] < calls'[q]
                \/ calls'[q] = calls[q] /\ (doing'[q] \in Unwritten => doing[q] \in Unwritten)
      <3>1. PICK next \in {"idle", "hold", "switch"} : doing' = [doing EXCEPT !["loop"] = next]
        BY <1>1 DEF decided
      <3>. QED  BY <1>1, <3>1 DEF decided, trailVars, fileVars, DoingTypes, CallTypes, Recorder
    <2>2. Trimmed
      BY <2>1 DEF Trimmed
    <2>3. /\ SyncedPart' /\ Distinct(file, buffer)' /\ AckedOnDisk'
          /\ \A x : InTrail(x, file', buffer') => InTrail(x, file, buffer)
      BY <2>1, <2>2, TrimmedKeeps
    <2>4. CallsMade'
      BY <2>1, <2>3, CallsStillMade DEF SurvivalInv, CallTypes
    <2>5. LastLines'
      <3>1. ASSUME NEW q \in Recorder, doing'[q] \in {"flush", "sync"}
            PROVE  doing'[q] = doing[q] /\ EntryOf(q)' = EntryOf(q) /\ _fp' = _fp
        <4>1. PICK next \in {"idle", "hold", "switch"} : doing' = [doing EXCEPT !["loop"] = next]
          BY <1>1 DEF decided
        <4>2. q # "loop" /\ doing'[q] = doing[q]
          BY <3>1, <4>1 DEF DoingTypes, Recorder
        <4>. QED  BY <1>1, <4>2 DEF decided, trailVars, fileVars, CallTypes, EntryOf, Recorder
      <3>. QED  BY <2>1, <3>1 DEF LastLines, SurvivalInv
    <2>. QED  BY <2>1, <2>3, <2>4, <2>5 DEF SurvivalInv
  <1>2. CASE killSwitch
    <2>1. /\ UNCHANGED <<file, buffer, synced, acked>> /\ calls' \in [Recorder -> Nat]
          /\ \A q \in Recorder :
                \/ calls[q] < calls'[q]
                \/ calls'[q] = calls[q] /\ (doing'[q] \in Unwritten => doing[q] \in Unwritten)
      BY <1>2 DEF killSwitch, Moves, inc, Free, metricVars, trailVars, fileVars, DoingTypes, CallTypes, Recorder
    <2>2. Trimmed
      BY <2>1 DEF Trimmed
    <2>3. /\ SyncedPart' /\ Distinct(file, buffer)' /\ AckedOnDisk'
          /\ \A x : InTrail(x, file', buffer') => InTrail(x, file, buffer)
      BY <2>1, <2>2, TrimmedKeeps
    <2>4. CallsMade'
      BY <2>1, <2>3, CallsStillMade DEF SurvivalInv, CallTypes
    <2>5. LastLines'
      <3>1. ASSUME NEW q \in Recorder, doing'[q] \in {"flush", "sync"}
            PROVE  doing'[q] = doing[q] /\ EntryOf(q)' = EntryOf(q) /\ _fp' = _fp
        BY <1>2, <3>1 DEF killSwitch, Moves, inc, Free, metricVars, trailVars, fileVars, DoingTypes, CallTypes, Recorder, EntryOf, LockInv, Writing
      <3>. QED  BY <2>1, <3>1 DEF LastLines, SurvivalInv
    <2>. QED  BY <2>1, <2>3, <2>4, <2>5 DEF SurvivalInv
  <1>3. CASE startRender
    <2>1. /\ UNCHANGED <<file, buffer, synced, acked>> /\ calls' \in [Recorder -> Nat]
          /\ \A q \in Recorder :
                \/ calls[q] < calls'[q]
                \/ calls'[q] = calls[q] /\ (doing'[q] \in Unwritten => doing[q] \in Unwritten)
      BY <1>3 DEF startRender, metricVars, trailVars, fileVars, DoingTypes, CallTypes, Recorder
    <2>2. Trimmed
      BY <2>1 DEF Trimmed
    <2>3. /\ SyncedPart' /\ Distinct(file, buffer)' /\ AckedOnDisk'
          /\ \A x : InTrail(x, file', buffer') => InTrail(x, file, buffer)
      BY <2>1, <2>2, TrimmedKeeps
    <2>4. CallsMade'
      BY <2>1, <2>3, CallsStillMade DEF SurvivalInv, CallTypes
    <2>5. LastLines'
      <3>1. ASSUME NEW q \in Recorder, doing'[q] \in {"flush", "sync"}
            PROVE  doing'[q] = doing[q] /\ EntryOf(q)' = EntryOf(q) /\ _fp' = _fp
        BY <1>3, <3>1 DEF startRender, metricVars, trailVars, fileVars, DoingTypes, CallTypes, Recorder, EntryOf, LockInv, Writing
      <3>. QED  BY <2>1, <3>1 DEF LastLines, SurvivalInv
    <2>. QED  BY <2>1, <2>3, <2>4, <2>5 DEF SurvivalInv
  <1>4. CASE renderLine
    <2>1. /\ UNCHANGED <<file, buffer, synced, acked>> /\ calls' \in [Recorder -> Nat]
          /\ \A q \in Recorder :
                \/ calls[q] < calls'[q]
                \/ calls'[q] = calls[q] /\ (doing'[q] \in Unwritten => doing[q] \in Unwritten)
      BY <1>4 DEF renderLine, Lines, metricVars, trailVars, fileVars, DoingTypes, CallTypes, Recorder
    <2>2. Trimmed
      BY <2>1 DEF Trimmed
    <2>3. /\ SyncedPart' /\ Distinct(file, buffer)' /\ AckedOnDisk'
          /\ \A x : InTrail(x, file', buffer') => InTrail(x, file, buffer)
      BY <2>1, <2>2, TrimmedKeeps
    <2>4. CallsMade'
      BY <2>1, <2>3, CallsStillMade DEF SurvivalInv, CallTypes
    <2>5. LastLines'
      <3>1. ASSUME NEW q \in Recorder, doing'[q] \in {"flush", "sync"}
            PROVE  doing'[q] = doing[q] /\ EntryOf(q)' = EntryOf(q) /\ _fp' = _fp
        BY <1>4, <3>1 DEF renderLine, Lines, metricVars, trailVars, fileVars, DoingTypes, CallTypes, Recorder, EntryOf, LockInv, Writing
      <3>. QED  BY <2>1, <3>1 DEF LastLines, SurvivalInv
    <2>. QED  BY <2>1, <2>3, <2>4, <2>5 DEF SurvivalInv
  <1>5. ASSUME NEW r \in Recorder, counted(r) PROVE SurvivalInv'
    <2>1. /\ UNCHANGED <<file, buffer, synced, acked>> /\ calls' \in [Recorder -> Nat]
          /\ \A q \in Recorder :
                \/ calls[q] < calls'[q]
                \/ calls'[q] = calls[q] /\ (doing'[q] \in Unwritten => doing[q] \in Unwritten)
      BY <1>5 DEF counted, Moves, inc, Free, metricVars, trailVars, fileVars, DoingTypes, CallTypes, Recorder
    <2>2. Trimmed
      BY <2>1 DEF Trimmed
    <2>3. /\ SyncedPart' /\ Distinct(file, buffer)' /\ AckedOnDisk'
          /\ \A x : InTrail(x, file', buffer') => InTrail(x, file, buffer)
      BY <2>1, <2>2, TrimmedKeeps
    <2>4. CallsMade'
      BY <2>1, <2>3, CallsStillMade DEF SurvivalInv, CallTypes
    <2>5. LastLines'
      <3>1. ASSUME NEW q \in Recorder, doing'[q] \in {"flush", "sync"}
            PROVE  doing'[q] = doing[q] /\ EntryOf(q)' = EntryOf(q) /\ _fp' = _fp
        BY <1>5, <3>1 DEF counted, Moves, inc, Free, metricVars, trailVars, fileVars, DoingTypes, CallTypes, Recorder, EntryOf, LockInv, Writing
      <3>. QED  BY <2>1, <3>1 DEF LastLines, SurvivalInv
    <2>. QED  BY <2>1, <2>3, <2>4, <2>5 DEF SurvivalInv
  <1>6. ASSUME NEW r \in Recorder, enter(r) PROVE SurvivalInv'
    <2>1. /\ UNCHANGED <<file, buffer, synced, acked>> /\ calls' \in [Recorder -> Nat]
          /\ \A q \in Recorder :
                \/ calls[q] < calls'[q]
                \/ calls'[q] = calls[q] /\ (doing'[q] \in Unwritten => doing[q] \in Unwritten)
      BY <1>6 DEF enter, MayEnter, Moves, metricVars, trailVars, fileVars, DoingTypes, CallTypes, Recorder
    <2>2. Trimmed
      BY <2>1 DEF Trimmed
    <2>3. /\ SyncedPart' /\ Distinct(file, buffer)' /\ AckedOnDisk'
          /\ \A x : InTrail(x, file', buffer') => InTrail(x, file, buffer)
      BY <2>1, <2>2, TrimmedKeeps
    <2>4. CallsMade'
      BY <2>1, <2>3, CallsStillMade DEF SurvivalInv, CallTypes
    <2>5. LastLines'
      <3>1. ASSUME NEW q \in Recorder, doing'[q] \in {"flush", "sync"}
            PROVE  doing'[q] = doing[q] /\ EntryOf(q)' = EntryOf(q) /\ _fp' = _fp
        BY <1>6, <3>1 DEF enter, MayEnter, Moves, metricVars, trailVars, fileVars, DoingTypes, CallTypes, Recorder, EntryOf, LockInv, Writing
      <3>. QED  BY <2>1, <3>1 DEF LastLines, SurvivalInv
    <2>. QED  BY <2>1, <2>3, <2>4, <2>5 DEF SurvivalInv
  <1>7. ASSUME NEW r \in Recorder, sameDay(r) PROVE SurvivalInv'
    <2>1. /\ UNCHANGED <<file, buffer, synced, acked>> /\ calls' \in [Recorder -> Nat]
          /\ \A q \in Recorder :
                \/ calls[q] < calls'[q]
                \/ calls'[q] = calls[q] /\ (doing'[q] \in Unwritten => doing[q] \in Unwritten)
      BY <1>7 DEF sameDay, Moves, metricVars, trailVars, fileVars, DoingTypes, CallTypes, Recorder
    <2>2. Trimmed
      BY <2>1 DEF Trimmed
    <2>3. /\ SyncedPart' /\ Distinct(file, buffer)' /\ AckedOnDisk'
          /\ \A x : InTrail(x, file', buffer') => InTrail(x, file, buffer)
      BY <2>1, <2>2, TrimmedKeeps
    <2>4. CallsMade'
      BY <2>1, <2>3, CallsStillMade DEF SurvivalInv, CallTypes
    <2>5. LastLines'
      <3>1. ASSUME NEW q \in Recorder, doing'[q] \in {"flush", "sync"}
            PROVE  doing'[q] = doing[q] /\ EntryOf(q)' = EntryOf(q) /\ _fp' = _fp
        BY <1>7, <3>1 DEF sameDay, Moves, metricVars, trailVars, fileVars, DoingTypes, CallTypes, Recorder, EntryOf, LockInv, Writing
      <3>. QED  BY <2>1, <3>1 DEF LastLines, SurvivalInv
    <2>. QED  BY <2>1, <2>3, <2>4, <2>5 DEF SurvivalInv
  <1>8. ASSUME NEW r \in Recorder, rotate(r) PROVE SurvivalInv'
    <2>1. /\ synced' = synced /\ acked' = acked /\ calls' = calls
          /\ \A q \in Recorder : doing'[q] \in Unwritten => doing[q] \in Unwritten
          /\ \A q \in Recorder : doing'[q] \notin {"flush", "sync"}
      BY <1>8 DEF rotate, Moves, DoingTypes, Recorder, LockInv, Writing
    <2>2. Trimmed
      BY <1>8, AppendFlushes, FirstFileTrims DEF SurvivalInv
    <2>3. /\ SyncedPart' /\ Distinct(file, buffer)' /\ AckedOnDisk'
          /\ \A x : InTrail(x, file', buffer') => InTrail(x, file, buffer)
      BY <2>1, <2>2, TrimmedKeeps
    <2>4. CallsMade'
      BY <2>1, <2>3, CallsStillMade DEF SurvivalInv, CallTypes
    <2>5. LastLines'
      BY <2>1 DEF LastLines
    <2>. QED  BY <2>1, <2>3, <2>4, <2>5 DEF SurvivalInv
  <1>9. ASSUME NEW r \in Recorder, rotateFails(r) PROVE SurvivalInv'
    <2>1. /\ synced' = synced /\ acked' = acked /\ calls' = calls
          /\ \A q \in Recorder : doing'[q] \in Unwritten => doing[q] \in Unwritten
          /\ \A q \in Recorder : doing'[q] \notin {"flush", "sync"}
      BY <1>9 DEF rotateFails, Leaves, DoingTypes, Recorder, LockInv, Writing
    <2>2. Trimmed
      BY <1>9, AppendFlushes, FirstFileTrims DEF SurvivalInv
    <2>3. /\ SyncedPart' /\ Distinct(file, buffer)' /\ AckedOnDisk'
          /\ \A x : InTrail(x, file', buffer') => InTrail(x, file, buffer)
      BY <2>1, <2>2, TrimmedKeeps
    <2>4. CallsMade'
      BY <2>1, <2>3, CallsStillMade DEF SurvivalInv, CallTypes
    <2>5. LastLines'
      BY <2>1 DEF LastLines
    <2>. QED  BY <2>1, <2>3, <2>4, <2>5 DEF SurvivalInv
  <1>10. ASSUME NEW r \in Recorder, write(r) PROVE SurvivalInv'
    <2>1. /\ UNCHANGED <<file, synced, acked, calls, stamp, stops, _fp>> /\ Writes(r)
          /\ doing[r] = "write" /\ doing' = [doing EXCEPT ![r] = "flush"]
      BY <1>10 DEF write, Moves, Writes, EntryOf
    <2>2. EntryOf(r) \in Entry /\ EntryOf(r).by = r /\ EntryOf(r).call = calls[r]
      BY EntryTyped
    <2>3. ASSUME NEW x, InTrail(x, file, buffer) PROVE x \in Entry /\ ~SameCall(x, EntryOf(r))
      <3>1. x \in Entry
        BY <2>3 DEF InTrail, FileTypes
      <3>2. x.call \in Nat /\ calls[r] \in Nat
        BY <3>1 DEF Entry, CallTypes
      <3>3. x.by = r => x.call < calls[r]
        BY <2>1, <2>3, <3>1 DEF SurvivalInv, CallsMade
      <3>. QED  BY <2>2, <3>1, <3>2, <3>3 DEF SameCall
    <2>4. Distinct(file', buffer')
      <3>1. /\ file' = file /\ file \in [Day -> Seq(Entry)]
            /\ buffer \in Seq(Entry) /\ buffer' = Append(buffer, EntryOf(r))
            /\ Distinct(file, buffer)
        BY <2>1 DEF Writes, SurvivalInv, FileTypes
      <3>2. PICK c : c = buffer'
        OBVIOUS
      <3>3. Distinct(file, c)
        BY <2>2, <2>3, <3>1, <3>2, WriteKeepsOrder
      <3>. QED  BY <3>1, <3>2, <3>3
    <2>5. \A x : InTrail(x, file', buffer') => InTrail(x, file, buffer) \/ x = EntryOf(r)
      <3>1. file' = file /\ buffer \in Seq(Entry) /\ buffer' = Append(buffer, EntryOf(r))
        BY <2>1 DEF Writes, FileTypes
      <3>. DEFINE c == buffer'
      <3>2. c = Append(buffer, EntryOf(r))
        BY <3>1
      <3>. HIDE DEF c
      <3>3. \A x : InTrail(x, file, c) => InTrail(x, file, buffer) \/ x = EntryOf(r)
        BY <2>2, <3>1, <3>2, WrittenLines
      <3>. QED  BY <3>1, <3>3 DEF c
    <2>6. CallsMade'
      <3>1. ASSUME NEW x \in Entry, InTrail(x, file', buffer')
            PROVE  /\ x.call <= calls'[x.by]
                   /\ doing'[x.by] \in Unwritten => x.call < calls'[x.by]
        <4>1. x.by \in Recorder /\ x.call \in Nat /\ calls' = calls
          BY <2>1 DEF Entry
        <4>2. doing'[x.by] \in Unwritten => doing[x.by] \in Unwritten /\ x.by # r
          BY <2>1, <4>1 DEF DoingTypes
        <4>3. CASE InTrail(x, file, buffer)
          BY <4>1, <4>2, <4>3 DEF SurvivalInv, CallsMade
        <4>4. CASE x = EntryOf(r)
          BY <2>2, <4>1, <4>2, <4>4
        <4>. QED  BY <2>5, <3>1, <4>3, <4>4
      <3>. QED  BY <3>1 DEF CallsMade
    <2>7. LastLines'
      <3>1. LastIs(buffer', EntryOf(r))
        BY <2>1, <2>2, WrittenLines DEF Writes, FileTypes
      <3>2. \A q \in Recorder : doing'[q] # "sync" /\ (doing'[q] = "flush" => q = r)
        BY <2>1 DEF DoingTypes, Recorder, LockInv, Writing
      <3>3. EntryOf(r)' = EntryOf(r)
        BY <2>1 DEF EntryOf
      <3>. QED  BY <3>1, <3>2, <3>3 DEF LastLines
    <2>8. SyncedPart' /\ AckedOnDisk'
      BY <2>1 DEF SurvivalInv, SyncedPart, AckedOnDisk
    <2>9. Distinct(file, buffer)'
      BY <2>4 DEF Distinct
    <2>. QED  BY <2>6, <2>7, <2>8, <2>9 DEF SurvivalInv
  <1>11. ASSUME NEW r \in Recorder, flush(r) PROVE SurvivalInv'
    <2>1. /\ synced' = synced /\ acked' = acked /\ calls' = calls /\ _fp' = _fp
          /\ \A q \in Recorder : doing'[q] \in Unwritten => doing[q] \in Unwritten
          /\ \A q \in Recorder : doing'[q] # "flush" /\ (doing'[q] = "sync" => q = r)
      BY <1>11 DEF flush, Moves, DoingTypes, Recorder, LockInv, Writing
    <2>2. Trimmed
      BY <1>11, AppendFlushes, FirstFileTrims DEF SurvivalInv
    <2>3. /\ SyncedPart' /\ Distinct(file, buffer)' /\ AckedOnDisk'
          /\ \A x : InTrail(x, file', buffer') => InTrail(x, file, buffer)
      BY <2>1, <2>2, TrimmedKeeps
    <2>4. CallsMade'
      BY <2>1, <2>3, CallsStillMade DEF SurvivalInv, CallTypes
    <2>5. LastLines'
      <3>1. LastIs(buffer, EntryOf(r)) /\ EntryOf(r)' = EntryOf(r) /\ _fp \in Day
        BY <1>11 DEF flush, Moves, SurvivalInv, LastLines, EntryOf, LockInv, DayTypes, Day
      <3>2. LastIs(file'[_fp], EntryOf(r))
        <4>1. /\ file \in [Day -> Seq(Entry)] /\ buffer \in Seq(Entry)
              /\ file' = [file EXCEPT ![_fp] = @ \o buffer]
          BY <1>11, SubSeqFull DEF flush, PutsAll, Puts, OnDay, FileTypes
        <4>. DEFINE g == file'
        <4>2. AllPut(file, buffer, _fp, g)
          BY <4>1 DEF AllPut
        <4>. HIDE DEF g
        <4>3. LastIs(g[_fp], EntryOf(r))
          BY <3>1, <4>1, <4>2, LastFlushed
        <4>. QED  BY <4>3 DEF g
      <3>. QED  BY <2>1, <3>1, <3>2 DEF LastLines
    <2>. QED  BY <2>1, <2>3, <2>4, <2>5 DEF SurvivalInv
  <1>12. ASSUME NEW r \in Recorder, sync(r) PROVE SurvivalInv'
    <2>1. /\ UNCHANGED <<file, buffer, calls>> /\ synced' = [synced EXCEPT ![_fp] = Len(file[_fp])]
          /\ acked' = acked \cup {EntryOf(r)} /\ doing' = [doing EXCEPT ![r] = "idle"]
          /\ doing[r] = "sync"
      BY <1>12 DEF sync, Synced, Leaves, EntryOf, fileVars
    <2>2. /\ _fp \in Day /\ LastIs(file[_fp], EntryOf(r))
          /\ synced \in [Day -> Nat] /\ file \in [Day -> Seq(Entry)]
      BY <2>1 DEF SurvivalInv, LastLines, LockInv, DayTypes, FileTypes, Day
    <2>3. \A d \in Day : synced[d] \in Nat /\ Len(file[d]) \in Nat /\ synced[d] <= Len(file[d])
      BY <2>2 DEF SurvivalInv, SyncedPart
    <2>4. \A d \in Day : synced'[d] \in Nat /\ synced[d] <= synced'[d] /\ synced'[d] <= Len(file[d])
      BY <2>1, <2>2, <2>3
    <2>5. SyncedPart'
      BY <2>1, <2>4 DEF SyncedPart
    <2>6. AckedOnDisk'
      <3>1. ASSUME NEW x \in acked
            PROVE  \E d \in Day : \E i \in 1 .. synced'[d] : i \in DOMAIN file[d] /\ file[d][i] = x
        <4>1. PICK d \in Day : \E i \in 1 .. synced[d] : i \in DOMAIN file[d] /\ file[d][i] = x
          BY DEF SurvivalInv, AckedOnDisk
        <4>10. PICK i \in 1 .. synced[d] : i \in DOMAIN file[d] /\ file[d][i] = x
          BY <4>1
        <4>2. i \in 1 .. synced'[d]
          BY <2>3, <2>4, <4>10
        <4>. QED  BY <4>10, <4>2
      <3>2. \E i \in 1 .. synced'[_fp] : i \in DOMAIN file[_fp] /\ file[_fp][i] = EntryOf(r)
        <4>1. synced'[_fp] = Len(file[_fp]) /\ DOMAIN file[_fp] = 1 .. Len(file[_fp])
          BY <2>1, <2>2
        <4>. QED  BY <2>2, <4>1 DEF LastIs
      <3>3. ASSUME NEW x \in acked'
            PROVE  \E d \in Day : \E i \in 1 .. synced'[d] : i \in DOMAIN file[d] /\ file[d][i] = x
        <4>1. x \in acked \/ x = EntryOf(r)
          BY <2>1
        <4>2. _fp \in Day
          BY <2>2
        <4>. QED  BY <3>1, <3>2, <4>1, <4>2
      <3>4. file' = file
        BY <2>1
      <3>. QED  BY <3>3, <3>4 DEF AckedOnDisk
    <2>7. CallsMade'
      BY <2>1, CallsStillMade DEF SurvivalInv, CallTypes, DoingTypes
    <2>8. LastLines'
      BY <2>1 DEF LastLines, LockInv, Writing, DoingTypes, Recorder
    <2>. QED  BY <2>1, <2>5, <2>6, <2>7, <2>8 DEF SurvivalInv
  <1>13. ASSUME NEW r \in Recorder, appendFails(r) PROVE SurvivalInv'
    <2>1. /\ synced' = synced /\ acked' = acked /\ calls' = calls
          /\ \A q \in Recorder : doing'[q] \in Unwritten => doing[q] \in Unwritten
          /\ \A q \in Recorder : doing'[q] \notin {"flush", "sync"}
      BY <1>13 DEF appendFails, Leaves, DoingTypes, Recorder, LockInv, Writing
    <2>2. Trimmed
      BY <1>13, AppendFlushes, FirstFileTrims DEF SurvivalInv
    <2>3. /\ SyncedPart' /\ Distinct(file, buffer)' /\ AckedOnDisk'
          /\ \A x : InTrail(x, file', buffer') => InTrail(x, file, buffer)
      BY <2>1, <2>2, TrimmedKeeps
    <2>4. CallsMade'
      BY <2>1, <2>3, CallsStillMade DEF SurvivalInv, CallTypes
    <2>5. LastLines'
      BY <2>1 DEF LastLines
    <2>. QED  BY <2>1, <2>3, <2>4, <2>5 DEF SurvivalInv
  <1>14. CASE midnight
    <2>1. /\ UNCHANGED <<file, buffer, synced, acked>> /\ calls' \in [Recorder -> Nat]
          /\ \A q \in Recorder :
                \/ calls[q] < calls'[q]
                \/ calls'[q] = calls[q] /\ (doing'[q] \in Unwritten => doing[q] \in Unwritten)
      BY <1>14 DEF midnight, metricVars, trailVars, fileVars, DoingTypes, CallTypes, Recorder
    <2>2. Trimmed
      BY <2>1 DEF Trimmed
    <2>3. /\ SyncedPart' /\ Distinct(file, buffer)' /\ AckedOnDisk'
          /\ \A x : InTrail(x, file', buffer') => InTrail(x, file, buffer)
      BY <2>1, <2>2, TrimmedKeeps
    <2>4. CallsMade'
      BY <2>1, <2>3, CallsStillMade DEF SurvivalInv, CallTypes
    <2>5. LastLines'
      <3>1. ASSUME NEW q \in Recorder, doing'[q] \in {"flush", "sync"}
            PROVE  doing'[q] = doing[q] /\ EntryOf(q)' = EntryOf(q) /\ _fp' = _fp
        BY <1>14, <3>1 DEF midnight, metricVars, trailVars, fileVars, DoingTypes, CallTypes, Recorder, EntryOf, LockInv, Writing
      <3>. QED  BY <2>1, <3>1 DEF LastLines, SurvivalInv
    <2>. QED  BY <2>1, <2>3, <2>4, <2>5 DEF SurvivalInv
  <1>15. CASE stop
    <2>1. /\ synced' = synced /\ acked' = acked /\ calls' = calls
          /\ \A q \in Recorder : doing'[q] \in Unwritten => doing[q] \in Unwritten
          /\ \A q \in Recorder : doing'[q] \notin {"flush", "sync"}
      BY <1>15 DEF stop, Recorder
    <2>2. Trimmed
      BY <1>15, StopCuts, FirstFileTrims DEF SurvivalInv
    <2>3. /\ SyncedPart' /\ Distinct(file, buffer)' /\ AckedOnDisk'
          /\ \A x : InTrail(x, file', buffer') => InTrail(x, file, buffer)
      BY <2>1, <2>2, TrimmedKeeps
    <2>4. CallsMade'
      BY <2>1, <2>3, CallsStillMade DEF SurvivalInv, CallTypes
    <2>5. LastLines'
      BY <2>1 DEF LastLines
    <2>. QED  BY <2>1, <2>3, <2>4, <2>5 DEF SurvivalInv
  <1>. QED
    BY <1>1, <1>2, <1>3, <1>4, <1>5, <1>6, <1>7, <1>8, <1>9, <1>10, <1>11, <1>12, <1>13, <1>14, <1>15 DEF ObsNext, append

LEMMA TrailKept ==
    ASSUME FileTypes, SurvivalInv
    PROVE  TrailSurvives
  <1>. SUFFICES ASSUME NEW x \in acked
                PROVE  \E d \in Day : \E i \in DOMAIN file[d] :
                          /\ file[d][i] = x
                          /\ \A e \in Day : \A j \in DOMAIN file[e] : file[e][j] = x => e = d /\ j = i
    BY DEF TrailSurvives
  <1>1. PICK d \in Day : \E i \in 1 .. synced[d] : i \in DOMAIN file[d] /\ file[d][i] = x
    BY DEF SurvivalInv, AckedOnDisk
  <1>10. PICK i \in 1 .. synced[d] : i \in DOMAIN file[d] /\ file[d][i] = x
    BY <1>1
  <1>2. ASSUME NEW e \in Day, NEW j \in DOMAIN file[e], file[e][j] = x PROVE e = d /\ j = i
    <2>1. SameCall(file[e][j], file[d][i])
      BY <1>10, <1>2 DEF SameCall
    <2>. QED  BY <1>10, <2>1 DEF SurvivalInv, Distinct
  <1>. QED  BY <1>10, <1>2

LEMMA TrailFileOpen == LockInv /\ DayTypes => FileIsOpen
  BY DEF LockInv, DayTypes, FileIsOpen

-----------------------------------------------------------------------------
(* Lines spoilt by a stop *)

\* Where a fragment can be that nobody completes, and whose line has one.
SpoiltInv ==
    /\ \A d \in Day : torn[d] /\ d > _current_day => _current_day = 0 /\ stops > 0
    /\ \A d \in Day : torn[d] => d <= today
    /\ _fp > 0 => (torn[_fp] => stops > 0 /\ \A x \in glued : x.run < stops)
    /\ _current_day = 0 => \A x \in glued : x.run < stops
    /\ \A x \in glued : x.run \in 1 .. stops
    /\ OneLineSpoilt
    /\ \A j \in DOMAIN buffer : buffer[j].run = stops

\* What a write to the file leaves of it: the first entry goes behind a fragment, if
\* there is one, and unless the rest is lost there is none afterwards.
LEMMA FlushSpoils ==
    ASSUME FileTypes, DayTypes, CallTypes, LockInv, SpoiltInv,
           NEW n \in 0 .. Len(buffer), NEW part \in BOOLEAN, NEW lost \in BOOLEAN,
           Puts(n, part, lost)
    PROVE  /\ _fp \in Day /\ _current_day = _fp
           /\ \A d \in Day \ {_fp} : torn'[d] = torn[d]
           /\ ~lost => (torn'[_fp] => torn[_fp] /\ glued' = glued)
           /\ \A x \in glued' : x.run \in 1 .. stops
           /\ OneLineSpoilt'
           /\ \A j \in DOMAIN buffer' : buffer'[j].run = stops
  <1>1. /\ _fp \in Day /\ _current_day = _fp /\ _fp > 0 /\ torn \in [Day -> BOOLEAN]
        /\ buffer \in Seq(Entry) /\ stops \in Nat
    <2>1. _fp > 0 /\ _fp \in Day
      BY DEF Puts, DayTypes, Day
    <2>2. _current_day = _fp
      BY <2>1 DEF LockInv
    <2>3. torn \in [Day -> BOOLEAN] /\ buffer \in Seq(Entry)
      BY DEF FileTypes
    <2>4. stops \in Nat
      BY DEF CallTypes
    <2>. QED  BY <2>1, <2>2, <2>3, <2>4
  <1>2. \A d \in Day \ {_fp} : torn'[d] = torn[d]
    BY <1>1 DEF Puts
  <1>3. \/ glued' = glued
        \/ /\ torn[_fp] /\ (n > 0 \/ part)
           /\ glued' = glued \cup {Head(buffer)} /\ Head(buffer).run = stops
    <2>1. n > 0 \/ part => 1 \in DOMAIN buffer
      BY <1>1 DEF Puts
    <2>2. n > 0 \/ part => Head(buffer).run = stops
      <3>1. Head(buffer) = buffer[1]
        BY DEF Head
      <3>. QED  BY <2>1, <3>1 DEF SpoiltInv
    <2>. QED  BY <2>2 DEF Puts
  <1>4. ~lost => (torn'[_fp] => torn[_fp] /\ glued' = glued)
    BY <1>1 DEF Puts
  <1>5. \A x \in glued' : x.run \in 1 .. stops
    BY <1>1, <1>3 DEF SpoiltInv
  <1>6. OneLineSpoilt'
    BY <1>1, <1>3 DEF SpoiltInv, OneLineSpoilt
  <1>7. ASSUME NEW j \in DOMAIN buffer' PROVE buffer'[j].run = stops
    <2>1. buffer' = <<>> \/ buffer' = SubSeq(buffer, n + 1, Len(buffer))
      BY DEF Puts
    <2>2. CASE buffer' = SubSeq(buffer, n + 1, Len(buffer))
      <3>1. /\ j \in 1 .. Len(buffer) - n /\ n + j \in DOMAIN buffer
            /\ buffer'[j] = buffer[n + j]
        BY <1>1, <1>7, <2>2, Split
      <3>. QED  BY <3>1 DEF SpoiltInv
    <2>. QED  BY <1>7, <2>1, <2>2, EmptyBuffer
  <1>. QED  BY <1>1, <1>2, <1>4, <1>5, <1>6, <1>7

LEMMA SpoiltKept ==
    ASSUME FileTypes, DayTypes, CallTypes, DoingTypes, LockInv, OrderInv, SpoiltInv, ObsNext
    PROVE  SpoiltInv'
  <1>0. /\ today \in Day /\ _current_day \in 0 .. today /\ _fp \in 0 .. today
        /\ _fp \in {0, _current_day} /\ stops \in Nat /\ torn \in [Day -> BOOLEAN]
    BY DEF DayTypes, CallTypes, LockInv, FileTypes
  <1>1. ASSUME UNCHANGED <<fileVars, _fp, _current_day, today, stops>> PROVE SpoiltInv'
    BY <1>1 DEF SpoiltInv, OneLineSpoilt, fileVars
  <1>2. CASE decided \/ killSwitch \/ startRender \/ renderLine
    BY <1>1, <1>2 DEF decided, killSwitch, startRender, renderLine, trailVars
  <1>3. ASSUME NEW r \in Recorder, counted(r) \/ enter(r) \/ sameDay(r) \/ sync(r)
        PROVE  SpoiltInv'
    BY <1>1, <1>3 DEF counted, enter, sameDay, sync, trailVars
  <1>4. ASSUME NEW r \in Recorder, rotate(r) PROVE SpoiltInv'
    <2>1. /\ today # _current_day /\ UNCHANGED <<today, stops>>
          /\ _fp' = today /\ _current_day' = today
      BY <1>4 DEF rotate
    <2>2. today > _current_day /\ today \in Nat
      BY <1>0, <2>1 DEF Day
    <2>3. CASE PutsAll
      <3>1. /\ _fp \in Day /\ _current_day = _fp
            /\ \A d \in Day \ {_fp} : torn'[d] = torn[d]
            /\ \A x \in glued' : x.run \in 1 .. stops
            /\ OneLineSpoilt'
            /\ \A j \in DOMAIN buffer' : buffer'[j].run = stops
        <4>1. Len(buffer) \in 0 .. Len(buffer) /\ FALSE \in BOOLEAN
          BY DEF FileTypes
        <4>. QED  BY <2>3, <4>1, FlushSpoils DEF PutsAll
      <3>2. \A d \in Day : d >= today => ~torn'[d]
        BY <1>0, <2>2, <3>1 DEF SpoiltInv, Day
      <3>3. \A d \in Day : torn'[d] => d <= today
        BY <1>0, <3>2 DEF Day
      <3>4. today > 0
        BY <1>0 DEF Day
      <3>. QED  BY <1>0, <2>1, <2>2, <3>1, <3>2, <3>3, <3>4 DEF SpoiltInv, Day
    <2>4. CASE _fp = 0 /\ UNCHANGED fileVars
      <3>1. torn' = torn /\ glued' = glued /\ buffer' = buffer
        BY <2>4 DEF fileVars
      <3>2. torn[today] => _current_day = 0 /\ stops > 0 /\ \A x \in glued : x.run < stops
        BY <1>0, <2>2 DEF SpoiltInv
      <3>3. \A d \in Day : ~(torn[d] /\ d > today)
        BY <1>0 DEF SpoiltInv, Day
      <3>4. today # 0
        BY <1>0 DEF Day
      <3>. QED  BY <2>1, <3>1, <3>2, <3>3, <3>4 DEF SpoiltInv, OneLineSpoilt
    <2>. QED  BY <1>4, <2>3, <2>4 DEF rotate
  <1>5. ASSUME NEW r \in Recorder, rotateFails(r) PROVE SpoiltInv'
    <2>1. UNCHANGED <<today, stops, _current_day>> /\ _fp' = 0
      BY <1>5 DEF rotateFails, DayAfterFailure
    <2>2. CASE \E n \in 0 .. Len(buffer), part \in BOOLEAN : Puts(n, part, TRUE)
      <3>1. /\ _fp \in Day /\ _current_day = _fp
            /\ \A d \in Day \ {_fp} : torn'[d] = torn[d]
            /\ \A x \in glued' : x.run \in 1 .. stops
            /\ OneLineSpoilt'
            /\ \A j \in DOMAIN buffer' : buffer'[j].run = stops
        BY <2>2, FlushSpoils
      <3>2. \A d \in Day : d > _current_day => ~torn'[d]
        BY <1>0, <3>1 DEF SpoiltInv, Day
      <3>3. \A d \in Day : torn'[d] => d <= today
        BY <1>0, <3>2 DEF Day
      <3>4. _current_day # 0
        BY <3>1 DEF Day
      <3>. QED  BY <2>1, <3>1, <3>2, <3>3, <3>4 DEF SpoiltInv
    <2>3. CASE _fp = 0 /\ UNCHANGED fileVars
      BY <1>1, <2>1, <2>3
    <2>. QED  BY <1>5, <2>2, <2>3 DEF rotateFails
  <1>6. ASSUME NEW r \in Recorder, flush(r) \/ appendFails(r) PROVE SpoiltInv'
    <2>1. UNCHANGED <<today, stops, _current_day, _fp>>
      BY <1>6 DEF flush, appendFails
    <2>2. CASE \E n \in 0 .. Len(buffer), part \in BOOLEAN : Puts(n, part, FALSE)
      <3>1. /\ _fp \in Day /\ _current_day = _fp
            /\ \A d \in Day \ {_fp} : torn'[d] = torn[d]
            /\ torn'[_fp] => torn[_fp] /\ glued' = glued
            /\ \A x \in glued' : x.run \in 1 .. stops
            /\ OneLineSpoilt'
            /\ \A j \in DOMAIN buffer' : buffer'[j].run = stops
        BY <2>2, FlushSpoils
      <3>2. \A d \in Day : torn'[d] => torn[d]
        BY <3>1
      <3>3. _current_day # 0
        BY <3>1 DEF Day
      <3>. QED  BY <2>1, <3>1, <3>2, <3>3 DEF SpoiltInv
    <2>3. CASE UNCHANGED fileVars
      BY <1>1, <2>1, <2>3
    <2>4. /\ Len(buffer) \in 0 .. Len(buffer) /\ FALSE \in BOOLEAN
          /\ 0 .. Len(buffer) - 1 \subseteq 0 .. Len(buffer)
      <3>1. Len(buffer) \in Nat
        BY DEF FileTypes
      <3>. QED  BY <3>1
    <2>. QED  BY <1>6, <2>2, <2>3, <2>4 DEF flush, appendFails, PutsAll, LostByFailure
  <1>7. ASSUME NEW r \in Recorder, write(r) PROVE SpoiltInv'
    <2>1. /\ UNCHANGED <<torn, glued, _fp, _current_day, today, stops>>
          /\ buffer' = Append(buffer, EntryOf(r)) /\ buffer \in Seq(Entry)
      BY <1>7 DEF write, EntryOf, FileTypes
    <2>2. EntryOf(r) \in Entry /\ EntryOf(r).run = stops
      BY EntryTyped DEF EntryOf
    <2>3. ASSUME NEW j \in DOMAIN buffer' PROVE buffer'[j].run = stops
      <3>1. \/ j \in DOMAIN buffer /\ buffer'[j] = buffer[j]
            \/ buffer'[j] = EntryOf(r)
        BY <2>1, <2>2
      <3>. QED  BY <2>2, <3>1 DEF SpoiltInv
    <2>. QED  BY <2>1, <2>3 DEF SpoiltInv, OneLineSpoilt
  <1>8. CASE midnight
    <2>1. /\ UNCHANGED <<torn, glued, buffer, _fp, _current_day, stops>> /\ today' = today + 1
      BY <1>8 DEF midnight, trailVars, fileVars
    <2>2. \A d \in Day : torn[d] => d <= today + 1
      BY <1>0 DEF SpoiltInv, Day
    <2>. QED  BY <2>1, <2>2 DEF SpoiltInv, OneLineSpoilt
  <1>9. CASE stop
    <2>1. /\ UNCHANGED <<glued, today>> /\ _fp' = 0 /\ _current_day' = 0 /\ buffer' = <<>>
          /\ stops' = stops + 1
      BY <1>9 DEF stop
    <2>2. PICK kept \in [Day -> UNION {0 .. Len(file[d]) : d \in Day}] :
              /\ \A d \in Day : synced[d] <= kept[d] /\ kept[d] <= Len(file[d])
              /\ \A d \in Day : torn'[d] =>
                    kept[d] < Len(file[d]) \/ torn[d] \/ (begun /\ d = _fp)
      BY <1>9 DEF stop
    <2>3. ASSUME NEW d \in Day, torn'[d] PROVE d <= today
      <3>1. CASE kept[d] < Len(file[d])
        <4>1. file[d] # <<>>
          <5>1. synced[d] \in Nat /\ synced[d] <= kept[d] /\ kept[d] < Len(file[d])
                /\ Len(file[d]) \in Nat
            BY <2>2, <3>1 DEF FileTypes
          <5>2. kept[d] \in Nat
            <6>1. \A e \in Day : Len(file[e]) \in Nat
              BY DEF FileTypes
            <6>. QED  BY <2>2, <6>1
          <5>. QED  BY <5>1, <5>2
        <4>. QED  BY <1>0, <4>1 DEF OrderInv, NoneAfter, Day
      <3>2. CASE torn[d]
        BY <3>2 DEF SpoiltInv
      <3>3. CASE begun /\ d = _fp
        BY <1>0, <3>3 DEF Day
      <3>. QED  BY <2>2, <2>3, <3>1, <3>2, <3>3
    <2>4. stops' > 0 /\ \A x \in glued : x.run < stops' /\ x.run \in 1 .. stops'
      <3>1. stops \in Nat /\ stops' = stops + 1
        BY <1>0, <2>1
      <3>2. ASSUME NEW x \in glued PROVE x.run < stops' /\ x.run \in 1 .. stops'
        <4>1. x.run \in 1 .. stops
          BY DEF SpoiltInv
        <4>. QED  BY <3>1, <4>1
      <3>. QED  BY <3>1, <3>2
    <2>. QED  BY <2>1, <2>3, <2>4, EmptyBuffer DEF SpoiltInv, OneLineSpoilt
  <1>. QED
    BY <1>2, <1>3, <1>4, <1>5, <1>6, <1>7, <1>8, <1>9 DEF ObsNext, append

-----------------------------------------------------------------------------
(* The loop's observations together *)

ObsInv ==
    /\ MetricsInv /\ DoingTypes /\ CallTypes /\ DayTypes /\ FileTypes
    /\ LockInv /\ OrderInv /\ SurvivalInv /\ SpoiltInv

LEMMA ObsStarts == ObsInit => ObsInv
  <1>. SUFFICES ASSUME ObsInit PROVE ObsInv
    OBVIOUS
  <1>. USE DEF ObsInit, Day, Recorder
  <1>1. MetricsInv
    <2>1. MetricTypes
      BY EmptyLine DEF MetricTypes
    <2>2. CountsInv
      BY DEF CountsInv, Counter
    <2>3. ScrapeInv
      BY EmptyLine DEF ScrapeInv, ScrapeConsistent
    <2>. QED  BY <2>1, <2>2, <2>3 DEF MetricsInv
  <1>2. DoingTypes /\ CallTypes /\ DayTypes
    BY DEF DoingTypes, CallTypes, DayTypes
  <1>3. FileTypes
    BY EmptySeq DEF FileTypes
  <1>4. LockInv
    BY DEF LockInv, Writing
  <1>5. OrderInv
    BY EmptyBuffer DEF OrderInv, Ordered, Before, NoneAfter
  <1>6. SurvivalInv
    <2>1. SyncedPart
      BY DEF SyncedPart
    <2>2. Distinct(file, buffer) /\ CallsMade
      BY EmptyBuffer DEF Distinct, CallsMade, InTrail
    <2>3. LastLines /\ AckedOnDisk
      BY DEF LastLines, AckedOnDisk
    <2>. QED  BY <2>1, <2>2, <2>3 DEF SurvivalInv
  <1>7. SpoiltInv
    BY EmptyBuffer DEF SpoiltInv, OneLineSpoilt
  <1>. QED  BY <1>1, <1>2, <1>3, <1>4, <1>5, <1>6, <1>7 DEF ObsInv

LEMMA ObsStutters == ObsInv /\ UNCHANGED obsVars => ObsInv'
  <1>. SUFFICES ASSUME ObsInv, UNCHANGED obsVars PROVE ObsInv'
    OBVIOUS
  <1>. USE DEF ObsInv, obsVars, metricVars, trailVars, fileVars
  <1>1. MetricsInv'
    BY DEF MetricsInv, MetricTypes, CountsInv, ScrapeInv, ScrapeConsistent
  <1>2. DoingTypes' /\ CallTypes' /\ DayTypes'
    BY DEF DoingTypes, CallTypes, DayTypes
  <1>3. FileTypes' /\ LockInv'
    BY DEF FileTypes, LockInv
  <1>4. OrderInv'
    BY DEF OrderInv
  <1>5. SurvivalInv'
    BY DEF SurvivalInv, SyncedPart, CallsMade, LastLines, AckedOnDisk, EntryOf
  <1>6. SpoiltInv'
    BY DEF SpoiltInv, OneLineSpoilt
  <1>. QED  BY <1>1, <1>2, <1>3, <1>4, <1>5, <1>6

LEMMA ObsInvariantly == ObsSpec => []ObsInv
  <1>1. ObsInit => ObsInv
    BY ObsStarts
  <1>2. ObsInv /\ [ObsNext]_obsVars => ObsInv'
    <2>1. ASSUME ObsInv, ObsNext PROVE ObsInv'
      <3>. USE <2>1 DEF ObsInv
      <3>1. MetricsInv'
        BY MetricsKept
      <3>2. DoingTypes' /\ CallTypes' /\ DayTypes'
        BY DoingTypesKept, CallTypesKept, DayTypesKept
      <3>3. FileTypes'
        BY FileTypesKept
      <3>4. LockInv'
        BY LockKept, TypesOfParts DEF MetricsInv
      <3>5. OrderInv'
        BY OrderKept DEF SurvivalInv
      <3>6. SurvivalInv'
        BY SurvivalKept
      <3>7. SpoiltInv'
        BY SpoiltKept
      <3>. QED  BY <3>1, <3>2, <3>3, <3>4, <3>5, <3>6, <3>7
    <2>. QED  BY <2>1, ObsStutters
  <1>. QED  BY <1>1, <1>2, PTL DEF ObsSpec

-----------------------------------------------------------------------------
(* The services together: a program's steps leave the others alone *)

LEMMA ClientKeepsHead == clientStep => UNCHANGED head
  BY DEF clientStep, construct, getNonce, expiry, mockHash, post, answer, fails, startWait,
         askReceipt, askHeight, wakes, KeepProgram

LEMMA ReadersKeepHead == ReaderNext => UNCHANGED head \/ newBlock
  <1>1. readAll \/ handleBlock => UNCHANGED head
    BY DEF readAll, handleBlock, begin
  <1>2. askBlock => UNCHANGED head
    BY DEF askBlock
  <1>3. bindModel => UNCHANGED head
    BY DEF bindModel
  <1>4. ask => UNCHANGED head
    BY DEF ask
  <1>5. raises => UNCHANGED head
    BY DEF raises
  <1>. QED  BY <1>1, <1>2, <1>3, <1>4, <1>5 DEF ReaderNext, readerStep

LEMMA ServicesSteps ==
    ASSUME [Next]_vars
    PROVE  /\ [ReaderNext]_readerVars /\ [RelayNext]_relayVars
           /\ [RequestNext]_requestVars /\ [ObsNext]_obsVars
  <1>1. CASE readersRun
    <2>1. ReaderNext /\ UNCHANGED <<clientVars, requestVars, obsVars>>
      BY <1>1 DEF readersRun
    <2>2. UNCHANGED head \/ newBlock
      BY <2>1, ReadersKeepHead
    <2>3. [RelayNext]_relayVars
      BY <2>1, <2>2 DEF RelayNext, blockMined, relayVars, clientVars
    <2>. QED  BY <2>1, <2>3
  <1>2. CASE clientRuns
    <2>1. clientStep /\ UNCHANGED <<passVars, requestVars, obsVars>>
      BY <1>2 DEF clientRuns
    <2>2. UNCHANGED readerVars
      BY <2>1, ClientKeepsHead DEF readerVars
    <2>. QED  BY <2>1, <2>2 DEF RelayNext
  <1>3. CASE chainGrows
    <2>1. blockMined /\ UNCHANGED <<passVars, requestVars, obsVars>>
      BY <1>3 DEF chainGrows
    <2>2. newBlock
      BY <2>1 DEF blockMined
    <2>. QED  BY <2>1, <2>2 DEF RelayNext, ReaderNext
  <1>4. CASE serverRuns
    BY <1>4 DEF serverRuns, readerVars, relayVars
  <1>5. CASE loopRuns
    BY <1>5 DEF loopRuns, readerVars, relayVars
  <1>6. CASE UNCHANGED vars
    BY <1>6 DEF vars, readerVars, relayVars
  <1>. QED  BY <1>1, <1>2, <1>3, <1>4, <1>5, <1>6 DEF Next

LEMMA ServicesApart ==
    Spec => /\ ReaderSpec /\ RequestSpec /\ ObsSpec
            /\ ClientInit /\ phase \in {"start", "done"} /\ [][RelayNext]_relayVars
  <1>1. Init => /\ ReaderInit /\ RequestInit /\ ObsInit
                /\ ClientInit /\ phase \in {"start", "done"}
    BY DEF Init
  <1>2. [Next]_vars => /\ [ReaderNext]_readerVars /\ [RelayNext]_relayVars
                       /\ [RequestNext]_requestVars /\ [ObsNext]_obsVars
    BY ServicesSteps
  <1>. QED  BY <1>1, <1>2, PTL DEF Spec, ReaderSpec, RequestSpec, ObsSpec

LEMMA ServicesInvariants ==
    Spec => [](PassInv /\ ClientInvariant /\ RequestTypeOK /\ SharedWithinObserved /\ ObsInv)
  <1>1. Spec => []PassInv
    BY ServicesApart, PassInvariantly, PTL
  <1>2. Spec => []ClientInvariant
    BY ServicesApart, ClientInvariantly, PTL
  <1>3. Spec => []RequestTypeOK /\ []SharedWithinObserved
    BY ServicesApart, RequestTypes, RatesWithinObserved, PTL
  <1>4. Spec => []ObsInv
    BY ServicesApart, ObsInvariantly, PTL
  <1>. QED  BY <1>1, <1>2, <1>3, <1>4, PTL

\* Every variable of the services has its type, in every run of any of the programs.
THEOREM ServicesTypes == Spec => []TypeOK
  <1>1. PassInv => ReaderTypeOK
    BY PassTyped
  <1>2. ClientInvariant => RelayTypeOK
    BY DEF ClientInvariant, ClientInv
  <1>3. ObsInv => ObsTypeOK
    BY TypesOfParts DEF ObsInv, MetricsInv
  <1>4. PassInv /\ ClientInvariant /\ RequestTypeOK /\ ObsInv => TypeOK
    BY <1>1, <1>2, <1>3 DEF TypeOK
  <1>. QED  BY <1>4, ServicesInvariants, PTL

\* A snapshot of the newer readers shows one block, whatever the chain does between
\* the requests of the pass (spark.py, morpho.py, fluid.py, euler.py read_at_block).
THEOREM SnapshotsShowOneBlock == Spec => []OneBlock
  BY PassOneBlock, ServicesInvariants, PTL

\* The two requests of Compound's reader are for one market's state: the rate is the
\* curve at the utilization that is shown (compound.py read).
THEOREM CompoundRateOfUtilization == Spec => []RateOfUtilization
  BY PassRateOfUtilization, ServicesInvariants, PTL

\* The rate that is smoothed is the one that is shown, for every scale and every
\* length of the year (the readers' apy and raw_rate_1e18).
THEOREM ShownRateIsSmoothed == Spec => []RatesAgree
  BY PassRatesAgree, ServicesInvariants, PTL

\* Snapshots keep the order of the readers, and _handle_block has one for each of
\* them, whichever fail (data_reader.py read_all, per_block_loop.py _read_one).
THEOREM SnapshotsPaired == Spec => []SnapshotsLineUp
  BY PassLinesUp, ServicesInvariants, PTL

\* With dry_run, and in the smoke check, the relay never has the transaction
\* (mempool.py submit_private_tx).
THEOREM DryRunIsDry == Spec => []DryRunSendsNothing
  <1>1. ClientInvariant => DryRunSendsNothing
    BY DEF ClientInvariant, ClientInv, DeadlineInv, RelayTypeOK, DryRunSendsNothing
  <1>. QED  BY <1>1, ServicesInvariants, PTL

\* After the wait has answered None, for every offset of the client and of the wait and
\* however many blocks the submission took: at its deadline the transaction is included
\* later by at most the difference of the offsets, and not at all unless the wait's is
\* the smaller; after the last poll by at most the client's (mempool.py
\* submit_private_tx, wait_for_inclusion).
THEOREM NoneIsBounded == Spec => []LateInclusionBounded
  <1>1. ClientInvariant => LateInclusionBounded
    BY DEF ClientInvariant, ClientInv, DeadlineInv, RelayTypeOK, LateInclusionBounded
  <1>. QED  BY <1>1, ServicesInvariants, PTL

\* A submission and its wait make at most 3 * max_block_offset + 9 steps, for every
\* offset, and whether or not the chain grows and the relay answers (mempool.py
\* submit_private_tx, wait_for_inclusion).
THEOREM ClientsAdvance == Spec => ClientAdvances
  <1>1. ClientInvariant /\ [RelayNext]_relayVars =>
           [phase # "done" =>
                UNCHANGED <<phase, polls>> \/ CallsLeft' \in 0 .. CallsLeft - 1]_relayVars
    <2>. SUFFICES ASSUME ClientInvariant, RelayNext
                  PROVE  UNCHANGED <<phase, polls>> \/ CallsLeft' \in 0 .. CallsLeft - 1
      OBVIOUS
    <2>1. CASE blockMined
      BY <2>1 DEF blockMined
    <2>2. CASE clientStep
      BY <2>2, ClientStepsOn DEF ClientInvariant
    <2>. QED  BY <2>1, <2>2 DEF RelayNext
  <1>. QED  BY <1>1, ServicesApart, ServicesInvariants, PTL DEF ClientAdvances

\* The smoothed rates that the requests share stay between the rates that were
\* observed (api.py, any number of threads).
THEOREM SharedRatesWithinObserved == Spec => []SharedWithinObserved
  BY ServicesInvariants, PTL

\* A document of the metrics never shows what was not counted in its order
\* (observability.py render under the lock).
THEOREM ScrapesConsistent == Spec => []ScrapeConsistent
  <1>1. ObsInv => ScrapeConsistent
    BY DEF ObsInv, MetricsInv, ScrapeInv
  <1>. QED  BY <1>1, ServicesInvariants, PTL

\* The entries of the audit trail are sorted by their time, over midnights, failed
\* writes and restarts (observability.py append).
THEOREM TrailSorted == Spec => []TrailInOrder
  <1>1. ObsInv => TrailInOrder
    BY TrailOrdered DEF ObsInv
  <1>. QED  BY <1>1, ServicesInvariants, PTL

\* The bytes of an entry that was appended without an error are in the trail, all of
\* them and once, whatever stops the process afterwards (observability.py flush and
\* fsync); what is before them on their line is the next theorem's.
THEOREM AckedEntriesSurvive == Spec => []TrailSurvives
  <1>1. ObsInv => TrailSurvives
    BY TrailKept DEF ObsInv
  <1>. QED  BY <1>1, ServicesInvariants, PTL

\* However often writes fail halfway and the process stops, each stop leaves at most one
\* entry, of the process started next, on a line that begins with a fragment
\* (observability.py _file_for_today opens to append, append).
THEOREM LinesSpoiltByStops == Spec => []OneLineSpoilt
  <1>1. ObsInv => OneLineSpoilt
    BY DEF ObsInv, SpoiltInv
  <1>. QED  BY <1>1, ServicesInvariants, PTL

\* Whoever comes to write has the current file open, also after a rotation that
\* failed (observability.py _file_for_today).
THEOREM CurrentFileOpen == Spec => []FileIsOpen
  <1>1. ObsInv => FileIsOpen
    BY TrailFileOpen DEF ObsInv
  <1>. QED  BY <1>1, ServicesInvariants, PTL

=============================================================================
