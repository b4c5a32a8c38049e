---------------------------- MODULE PerBlockProofs ----------------------------
(***************************************************************************)
(* Theorems about PerBlockLoop and HistoryStore, for every value of their  *)
(* constants.                                                              *)
(***************************************************************************)
EXTENDS PerBlockLoop, SequenceTheorems, FiniteSetTheorems, TLAPS

-----------------------------------------------------------------------------
(* Sequences *)

\* Prefixes of a sequence.
LEMMA Prefixes ==
    ASSUME NEW S, NEW s \in Seq(S), NEW n \in 0 .. Len(s)
    PROVE  /\ SubSeq(s, 1, n) \in Seq(S)
           /\ Len(SubSeq(s, 1, n)) = n
           /\ \A i \in 1 .. n : SubSeq(s, 1, n)[i] = s[i]
           /\ \A m \in 0 .. n : SubSeq(SubSeq(s, 1, n), 1, m) = SubSeq(s, 1, m)
           /\ \A r \in S : SubSeq(Append(s, r), 1, n) = SubSeq(s, 1, n)
  <1>. DEFINE p == SubSeq(s, 1, n)
  <1>1. p \in Seq(S) /\ Len(p) = n /\ \A i \in 1 .. n : p[i] = s[i]
    BY SubSeqProperties
  <1>2. ASSUME NEW m \in 0 .. n PROVE SubSeq(p, 1, m) = SubSeq(s, 1, m)
    <2>. HIDE DEF p
    <2>1. /\ SubSeq(p, 1, m) \in Seq(S) /\ Len(SubSeq(p, 1, m)) = m
          /\ \A i \in 1 .. m : SubSeq(p, 1, m)[i] = p[i]
      BY <1>1, SubSeqProperties
    <2>2. /\ SubSeq(s, 1, m) \in Seq(S) /\ Len(SubSeq(s, 1, m)) = m
          /\ \A i \in 1 .. m : SubSeq(s, 1, m)[i] = s[i]
      BY SubSeqProperties
    <2>. QED  BY <1>1, <2>1, <2>2, SeqEqual
  <1>3. ASSUME NEW r \in S PROVE SubSeq(Append(s, r), 1, n) = p
    <2>1. /\ Append(s, r) \in Seq(S) /\ Len(Append(s, r)) = Len(s) + 1
          /\ \A i \in 1 .. Len(s) : Append(s, r)[i] = s[i]
      BY AppendProperties
    <2>2. /\ SubSeq(Append(s, r), 1, n) \in Seq(S) /\ Len(SubSeq(Append(s, r), 1, n)) = n
          /\ \A i \in 1 .. n : SubSeq(Append(s, r), 1, n)[i] = Append(s, r)[i]
      BY <2>1, SubSeqProperties
    <2>. HIDE DEF p
    <2>. QED  BY <1>1, <2>1, <2>2, SeqEqual
  <1>. QED  BY <1>1, <1>2, <1>3

\* The newest rows of a sequence, one by one.
LEMMA NewestRows ==
    ASSUME NEW S, NEW s \in Seq(S)
    PROVE  /\ Newest(s) \in Seq(S)
           /\ Len(s) <= MaxRows => Newest(s) = s
           /\ Len(s) > MaxRows =>
                /\ Len(Newest(s)) = MaxRows
                /\ \A i \in 1 .. MaxRows : Newest(s)[i] = s[i + (Len(s) - MaxRows)]
  <1>. USE HistoryAssumption
  <1>1. CASE Len(s) <= MaxRows
    BY <1>1 DEF Newest
  <1>2. CASE Len(s) > MaxRows
    <2>. DEFINE first == Len(s) - MaxRows + 1
    <2>1. first \in Nat /\ Len(s) - first + 1 = MaxRows /\ first <= Len(s)
      BY <1>2
    <2>2. \A i \in first .. Len(s) : s[i] \in S
      BY <2>1, <1>2
    <2>3. Newest(s) = SubSeq(s, first, Len(s))
      BY <1>2 DEF Newest
    <2>4. \A i \in 1 .. MaxRows : first + i - 1 = i + (Len(s) - MaxRows)
      BY <2>1
    <2>. HIDE DEF first
    <2>5. /\ Newest(s) \in Seq(S) /\ Len(Newest(s)) = MaxRows
          /\ \A i \in 1 .. MaxRows : Newest(s)[i] = s[first + i - 1]
      BY <2>1, <2>2, <2>3, SubSeqProperties
    <2>. QED  BY <1>2, <2>4, <2>5
  <1>. QED  BY <1>1, <1>2

\* Cutting a sequence twice, or before a row is added and again after it, leaves
\* the same rows.
LEMMA NewestTwice ==
    ASSUME NEW S, NEW s \in Seq(S)
    PROVE  /\ Newest(Newest(s)) = Newest(s)
           /\ \A r \in S : Newest(Append(Newest(s), r)) = Newest(Append(s, r))
  <1>. USE HistoryAssumption
  <1>. DEFINE n == Newest(s)
  <1>1. n \in Seq(S) /\ Len(n) <= MaxRows
    BY NewestRows DEF Newest
  <1>2. Newest(n) = n
    BY <1>1 DEF Newest
  <1>3. ASSUME NEW r \in S PROVE Newest(Append(n, r)) = Newest(Append(s, r))
    <2>1. CASE Len(s) <= MaxRows
      BY <2>1 DEF Newest
    <2>2. CASE ~(Len(s) <= MaxRows)
      <3>1. Len(n) = MaxRows /\ \A i \in 1 .. MaxRows : n[i] = s[i + (Len(s) - MaxRows)]
        BY <2>2, NewestRows
      <3>. HIDE DEF n
      <3>. DEFINE a == Append(n, r)
                  b == Append(s, r)
      <3>2. /\ a \in Seq(S) /\ Len(a) = MaxRows + 1 /\ a[MaxRows + 1] = r
            /\ \A i \in 1 .. MaxRows : a[i] = n[i]
        BY <1>1, <3>1, AppendProperties
      <3>3. /\ b \in Seq(S) /\ Len(b) = Len(s) + 1 /\ b[Len(s) + 1] = r
            /\ \A i \in 1 .. Len(s) : b[i] = s[i]
        BY AppendProperties
      <3>. HIDE DEF a, b
      <3>4. /\ Newest(a) \in Seq(S) /\ Len(Newest(a)) = MaxRows
            /\ \A i \in 1 .. MaxRows : Newest(a)[i] = a[i + (MaxRows + 1 - MaxRows)]
        BY <3>2, NewestRows
      <3>5. /\ Newest(b) \in Seq(S) /\ Len(Newest(b)) = MaxRows
            /\ \A i \in 1 .. MaxRows : Newest(b)[i] = b[i + (Len(s) + 1 - MaxRows)]
        <4>1. Len(b) > MaxRows
          BY <2>2, <3>3
        <4>2. \A i \in 1 .. MaxRows : Newest(b)[i] = b[i + (Len(b) - MaxRows)]
          BY <4>1, <3>3, NewestRows
        <4>. QED  BY <4>1, <4>2, <3>3, NewestRows
      <3>6. ASSUME NEW i \in 1 .. MaxRows PROVE Newest(a)[i] = Newest(b)[i]
        <4>. DEFINE j == i + (Len(s) + 1 - MaxRows)
        <4>1. Newest(a)[i] = a[i + 1] /\ Newest(b)[i] = b[j]
          BY <3>4, <3>5
        <4>2. CASE i = MaxRows
          BY <4>1, <4>2, <3>2, <3>3
        <4>3. CASE i < MaxRows
          <5>1. i + 1 \in 1 .. MaxRows /\ j \in 1 .. Len(s)
                /\ j = i + 1 + (Len(s) - MaxRows)
            BY <4>3, <2>2
          <5>. HIDE DEF j
          <5>. QED  BY <4>1, <5>1, <3>1, <3>2, <3>3
        <4>. QED  BY <4>2, <4>3
      <3>7. Newest(a) = Newest(b)
        BY <3>4, <3>5, <3>6, SeqEqual
      <3>. QED  BY <3>7 DEF a, b
    <2>. QED  BY <2>1, <2>2
  <1>. QED  BY <1>2, <1>3

-----------------------------------------------------------------------------
(* Types *)

\* What the handler holds at each of its steps: a transaction of this run, with a
\* target once it is one, and which the relay has when it may answer.
HandlingInv ==
    /\ step \in {"read", "nonce", "deadline", "post", "answer"} => handling.run = run
    /\ step \in {"nonce", "deadline", "post", "answer"} => handling.target \in Protocols
    /\ step = "answer" => handling \in relayed
    /\ IsFiniteSet(relayed)

\* What a step does to the history, its file and the rows it stands for.
StoreStep ==
    \/ \E r \in Row : append(r)
    \/ writeTmp \/ syncTmp \/ replaceFile \/ writeFails
    \/ settle \/ restart \/ powerLoss
    \/ UNCHANGED storeVars

\* A recorded decision is a row of this run.
LEMMA RecordedRow ==
    ASSUME TypeOK, HandlingInv, step \in {"read", "answer"},
           NEW target \in Position, NEW position \in Position, Record(target, position)
    PROVE  \E r \in Row :
               /\ append(r) /\ r.run = run /\ r.current = current_protocol
               /\ r.block = handling.block /\ r.target = target
               /\ audit' \in {audit, audit \cup {[r EXCEPT !.current = position]}}
  <1>. DEFINE r == [run |-> run, block |-> handling.block, current |-> current_protocol,
                    target |-> target]
  <1>1. r \in Row
    BY DEF TypeOK, Row
  <1>2. append(r) /\ audit' \in {audit, audit \cup {[r EXCEPT !.current = position]}}
    BY DEF Record, record_decision
  <1>. QED  BY <1>1, <1>2

\* Every step does to the store what StoreStep says.
LEMMA StepsOfTheStore ==
    ASSUME TypeOK, HandlingInv, [Next]_vars
    PROVE  StoreStep
  <1>. USE DEF StoreStep
  <1>1. ASSUME hold PROVE StoreStep
    <2>1. Record(NoProtocol, current_protocol) /\ step = "read"
      BY <1>1 DEF hold, Goes
    <2>. QED  BY <2>1, RecordedRow DEF TypeOK, Position
  <1>2. ASSUME answered PROVE StoreStep
    <2>1. Record(handling.target, handling.target) /\ step = "answer"
      BY <1>2 DEF answered, Goes
    <2>. QED  BY <2>1, RecordedRow DEF HandlingInv, Position
  <1>3. CASE UNCHANGED vars
    BY <1>3 DEF vars
  <1>4. ASSUME onNewHead \/ (\E target \in Protocols : switch(target)) \/ readNonce
               \/ readBlock \/ relayTakes \/ handlerCrashes \/ newBlock
        PROVE  UNCHANGED storeVars
    BY <1>4 DEF onNewHead, switch, readNonce, readBlock, relayTakes, handlerCrashes, newBlock
  <1>5. ASSUME historyWrites \/ processRestarts \/ diskSettles PROVE StoreStep
    BY <1>5 DEF historyWrites, processRestarts, diskSettles
  <1>. QED  BY <1>1, <1>2, <1>3, <1>4, <1>5 DEF Next, LoopStep

\* Every step of the store keeps its types, if a file stands for rows there were.
LEMMA TypeStoreStep ==
    ASSUME StoreTypeOK(Row), StoreStep,
           file.upto <= Len(log), disk.upto <= Len(log)
    PROVE  StoreTypeOK(Row)'
  <1>. USE DEF StoreTypeOK, File
  <1>1. NoFile \in File(Row) /\ \A f \in File(Row) : Kept(f) \in File(Row)
    <2>1. <<>> \in Seq(Row)
      OBVIOUS
    <2>2. NoFile \in File(Row)
      BY <2>1 DEF NoFile
    <2>3. ASSUME NEW f \in File(Row) PROVE Kept(f) \in File(Row)
      BY <2>1 DEF Kept
    <2>. QED  BY <2>2, <2>3
  <1>2. ASSUME NEW r \in Row, append(r) PROVE StoreTypeOK(Row)'
    <2>1. Append(rows, r) \in Seq(Row) /\ Append(log, r) \in Seq(Row)
      OBVIOUS
    <2>2. Newest(Append(rows, r)) \in Seq(Row)
      BY <2>1, NewestRows
    <2>. QED  BY <1>2, <2>1, <2>2 DEF append
  <1>3. CASE writeTmp
    BY <1>3 DEF writeTmp
  <1>4. CASE syncTmp
    BY <1>4 DEF syncTmp
  <1>5. CASE replaceFile
    BY <1>5, <1>1 DEF replaceFile
  <1>6. CASE writeFails
    BY <1>6, <1>1 DEF writeFails
  <1>7. CASE settle
    BY <1>7, <1>1 DEF settle
  <1>8. ASSUME NEW f \in File(Row), f.upto <= Len(log), loadFromDisk(f)
        PROVE  rows' \in Seq(Row) /\ log' \in Seq(Row) /\ writer' = "idle" /\ tmp' = NoFile
    <2>1. Newest(f.rows) \in Seq(Row)
      BY NewestRows
    <2>2. SubSeq(log, 1, f.upto) \in Seq(Row)
      BY <1>8, Prefixes
    <2>. QED  BY <1>8, <2>1, <2>2 DEF loadFromDisk
  <1>9. CASE restart
    BY <1>9, <1>8, <1>1 DEF restart
  <1>10. CASE powerLoss
    <2>1. PICK f \in {disk, Kept(file)} : loadFromDisk(f) /\ file' = f /\ disk' = f
      BY <1>10 DEF powerLoss
    <2>2. f \in File(Row) /\ f.upto <= Len(log)
      BY <1>1 DEF Kept
    <2>. QED  BY <2>1, <2>2, <1>8, <1>1
  <1>11. CASE UNCHANGED storeVars
    BY <1>11 DEF storeVars
  <1>. QED
    BY <1>2, <1>3, <1>4, <1>5, <1>6, <1>7, <1>9, <1>10, <1>11 DEF StoreStep

\* Every step keeps the types of the loop and of the chain, and what its handler
\* holds.
LEMMA TypeLoopStep ==
    ASSUME TypeOK, HandlingInv, StoreTypeOK(Row)', [Next]_vars
    PROVE  TypeOK' /\ HandlingInv'
  <1>. USE DEF TypeOK, HandlingInv, Position
  <1>. DEFINE Held == [run : Nat, block : Nat, target : Position, nonce : Nat,
                       maxBlock : Nat, signedAt : Nat]
  <1>1. NoTransaction \in Held
    BY DEF NoTransaction
  <1>2. ASSUME NEW target \in Position, NEW position \in Position, Record(target, position),
               step \in {"read", "answer"}, step' = "record",
               UNCHANGED <<run, startedIn, heads, chainVars>>
        PROVE  TypeOK' /\ HandlingInv'
    <2>1. audit' \subseteq Row
      <3>1. \A r \in Row : [r EXCEPT !.current = position] \in Row
        BY DEF Row
      <3>2. PICK r \in Row : audit' \in {audit, audit \cup {[r EXCEPT !.current = position]}}
        BY <1>2, RecordedRow
      <3>. QED  BY <3>1, <3>2
    <2>. QED  BY <1>1, <1>2, <2>1 DEF Record, chainVars
  <1>3. CASE onNewHead
    <2>1. Head(heads) \in Nat /\ Tail(heads) \in Seq(Nat)
      BY <1>3 DEF onNewHead
    <2>. QED  BY <1>1, <1>3, <2>1 DEF onNewHead, Goes, chainVars, NoTransaction
  <1>4. CASE hold
    BY <1>2, <1>4 DEF hold, Goes
  <1>5. ASSUME NEW target \in Protocols, switch(target) PROVE TypeOK' /\ HandlingInv'
    <2>1. handling' = [handling EXCEPT !.target = target] /\ step = "read" /\ step' = "nonce"
          /\ UNCHANGED <<storeVars, run, startedIn, current_protocol, heads, audit, chainVars>>
      BY <1>5 DEF switch, Goes
    <2>2. handling' \in Held /\ handling'.run = handling.run /\ handling'.target = target
      BY <2>1
    <2>. QED  BY <2>1, <2>2 DEF chainVars
  <1>6. CASE readNonce
    <2>1. handling' = [handling EXCEPT !.nonce = accountNonce, !.signedAt = head]
          /\ step = "nonce" /\ step' = "deadline"
          /\ UNCHANGED <<storeVars, run, startedIn, current_protocol, heads, audit, chainVars>>
      BY <1>6 DEF readNonce, Goes
    <2>2. /\ handling' \in Held /\ handling'.run = handling.run
          /\ handling'.target = handling.target
      BY <2>1
    <2>. QED  BY <2>1, <2>2 DEF chainVars
  <1>7. CASE readBlock
    <2>1. handling' = [handling EXCEPT !.maxBlock = head + MaxBlockOffset]
          /\ step = "deadline" /\ step' = "post"
          /\ UNCHANGED <<storeVars, run, startedIn, current_protocol, heads, audit, chainVars>>
      BY <1>7 DEF readBlock, Goes
    <2>2. head + MaxBlockOffset \in Nat
      BY PerBlockAssumption
    <2>3. /\ handling' \in Held /\ handling'.run = handling.run
          /\ handling'.target = handling.target
      BY <2>1, <2>2
    <2>. QED  BY <2>1, <2>3 DEF chainVars
  <1>8. CASE relayTakes
    <2>1. handling \in Transaction
      BY <1>8 DEF relayTakes, Goes, Transaction
    <2>2. IsFiniteSet(relayed')
      BY <1>8, FS_AddElement DEF relayTakes
    <2>. QED  BY <1>8, <2>1, <2>2 DEF relayTakes, Goes
  <1>9. CASE answered
    BY <1>2, <1>9 DEF answered, Goes
  <1>10. CASE handlerCrashes
    BY <1>1, <1>10 DEF handlerCrashes, chainVars
  <1>11. CASE historyWrites
    BY <1>11 DEF historyWrites, Goes, chainVars
  <1>12. CASE processRestarts
    BY <1>1, <1>12 DEF processRestarts, chainVars
  <1>13. CASE diskSettles
    BY <1>13 DEF diskSettles, loopVars, chainVars
  <1>14. CASE newBlock
    <2>1. PICK txs \in SUBSET relayed :
              accountNonce' = accountNonce + Cardinality(txs) /\ Include(txs)
      BY <1>14 DEF newBlock
    <2>2. Cardinality(txs) \in Nat
      BY FS_Subset, FS_CardinalityType
    <2>3. head' \in Nat /\ heads' \in Seq(Nat)
      BY <1>14 DEF newBlock
    <2>4. included' \subseteq [tx : Transaction, minedAt : Nat]
      BY <2>1, <2>3 DEF Include
    <2>. QED  BY <1>14, <2>1, <2>2, <2>3, <2>4 DEF newBlock
  <1>15. CASE UNCHANGED vars
    BY <1>15 DEF vars, loopVars, chainVars
  <1>. QED
    BY <1>3, <1>4, <1>5, <1>6, <1>7, <1>8, <1>9, <1>10, <1>11, <1>12, <1>13, <1>14, <1>15
    DEF Next, LoopStep

-----------------------------------------------------------------------------
(* The history *)

\* A file with its bytes on the disk holds the newest of the rows it stands for.
Holds(f, l) ==
    /\ f.synced
    /\ f.upto <= Len(l)
    /\ f.rows = Newest(SubSeq(l, 1, f.upto))

\* The buffer holds the newest rows of the log, the file and what a loss of power
\* would leave of it those of two of its prefixes, and a file on its way to the
\* path all of them.
StoreInv ==
    /\ rows = Newest(log)
    /\ Holds(file, log) /\ Holds(disk, log) /\ disk.upto <= file.upto
    /\ writer \in {"sync", "replace"} => tmp.rows = rows /\ tmp.upto = Len(log)
    /\ writer = "replace" => tmp.synced

\* What a file stands for is not changed by rows added after it, nor by the loss
\* of rows it does not stand for.
LEMMA HoldsStill ==
    ASSUME StoreTypeOK(Row), NEW f \in File(Row), Holds(f, log)
    PROVE  /\ \A r \in Row : log' = Append(log, r) => Holds(f, log')
           /\ \A n \in f.upto .. Len(log) : log' = SubSeq(log, 1, n) => Holds(f, log')
  <1>1. f.upto \in 0 .. Len(log) /\ log \in Seq(Row)
    BY DEF Holds, StoreTypeOK, File
  <1>2. ASSUME NEW r \in Row, log' = Append(log, r) PROVE Holds(f, log')
    <2>1. Len(log') = Len(log) + 1
      BY <1>1, <1>2, AppendProperties
    <2>2. SubSeq(log', 1, f.upto) = SubSeq(log, 1, f.upto)
      BY <1>1, <1>2, Prefixes
    <2>3. f.upto <= Len(log')
      BY <1>1, <2>1
    <2>. QED  BY <2>2, <2>3, Zenon DEF Holds
  <1>3. ASSUME NEW n \in f.upto .. Len(log), log' = SubSeq(log, 1, n) PROVE Holds(f, log')
    <2>1. n \in 0 .. Len(log) /\ f.upto \in 0 .. n
      BY <1>1
    <2>2. Len(log') = n /\ SubSeq(log', 1, f.upto) = SubSeq(log, 1, f.upto)
      BY <1>1, <1>3, <2>1, Prefixes
    <2>3. f.upto <= Len(log')
      BY <2>1, <2>2
    <2>. QED  BY <2>2, <2>3, Zenon DEF Holds
  <1>. QED  BY <1>2, <1>3

\* A new process finds the newest of the rows its file stands for.
LEMMA Loads ==
    ASSUME StoreTypeOK(Row), NEW f \in File(Row), Holds(f, log), loadFromDisk(f)
    PROVE  /\ log' = SubSeq(log, 1, f.upto) /\ Len(log') = f.upto
           /\ rows' = Newest(log')
           /\ Holds(f, log')
  <1>1. f.upto \in 0 .. Len(log) /\ log \in Seq(Row)
    BY DEF Holds, StoreTypeOK, File
  <1>2. SubSeq(log, 1, f.upto) \in Seq(Row) /\ Len(SubSeq(log, 1, f.upto)) = f.upto
    BY <1>1, Prefixes
  <1>3. log' = SubSeq(log, 1, f.upto) /\ rows' = Newest(f.rows)
    BY DEF loadFromDisk
  <1>4. rows' = Newest(log')
    BY <1>2, <1>3, NewestTwice DEF Holds
  <1>. QED  BY <1>1, <1>2, <1>3, <1>4, HoldsStill

\* Every step of the store keeps StoreInv.
LEMMA StoreInvStep ==
    ASSUME StoreTypeOK(Row), StoreInv, StoreStep
    PROVE  StoreInv'
  <1>. USE DEF StoreInv
  <1>1. /\ file \in File(Row) /\ disk \in File(Row) /\ tmp \in File(Row)
        /\ log \in Seq(Row) /\ rows \in Seq(Row)
        /\ file.upto \in Nat /\ disk.upto \in Nat /\ tmp.upto \in Nat
    BY DEF StoreTypeOK, File
  <1>2. ASSUME NEW r \in Row, append(r) PROVE StoreInv'
    <2>1. log' = Append(log, r) /\ rows' = Newest(Append(rows, r))
          /\ writer' = "write" /\ UNCHANGED <<tmp, file, disk>>
      BY <1>2 DEF append
    <2>2. rows' = Newest(log')
      BY <1>1, <2>1, NewestTwice
    <2>3. Holds(file', log') /\ Holds(disk', log')
      BY <1>1, <2>1, HoldsStill
    <2>. QED  BY <2>1, <2>2, <2>3
  <1>3. CASE writeTmp
    BY <1>3 DEF writeTmp, Holds
  <1>4. CASE syncTmp
    BY <1>1, <1>4 DEF syncTmp, Holds, File
  <1>5. CASE replaceFile
    <2>1. SubSeq(log, 1, Len(log)) = log
      BY <1>1, SubSeqFull
    <2>2. writer' = "idle" /\ file' = tmp /\ UNCHANGED <<rows, disk, log>>
      BY <1>5 DEF replaceFile
    <2>3. tmp.synced /\ tmp.upto = Len(log) /\ tmp.rows = rows
      BY <1>5 DEF replaceFile
    <2>4. tmp.rows = Newest(SubSeq(log, 1, tmp.upto))
      BY <2>1, <2>3, Zenon
    <2>5. Holds(tmp, log)
      BY <1>1, <2>3, <2>4 DEF Holds
    <2>6. disk.upto <= tmp.upto
      BY <1>1, <2>3 DEF Holds
    <2>. QED  BY <2>2, <2>5, <2>6
  <1>6. CASE writeFails
    BY <1>6 DEF writeFails, Holds
  <1>7. CASE settle
    BY <1>1, <1>7 DEF settle, Kept, Holds
  <1>8. CASE restart
    <2>1. /\ loadFromDisk(file) /\ file' = file /\ disk' = disk /\ writer' = "idle"
      BY <1>8 DEF restart, loadFromDisk
    <2>2. log' = SubSeq(log, 1, file.upto) /\ rows' = Newest(log')
      BY <1>1, <2>1, Loads
    <2>3. file.upto \in file.upto .. Len(log) /\ file.upto \in disk.upto .. Len(log)
      BY <1>1 DEF Holds
    <2>4. Holds(file', log') /\ Holds(disk', log')
      BY <1>1, <2>1, <2>2, <2>3, HoldsStill
    <2>. QED  BY <2>1, <2>2, <2>4
  <1>9. CASE powerLoss
    <2>1. PICK f \in {disk, file} : /\ loadFromDisk(f) /\ file' = f /\ disk' = f
                                    /\ writer' = "idle"
      BY <1>9 DEF powerLoss, Kept, Holds, loadFromDisk
    <2>2. rows' = Newest(log') /\ Holds(f, log')
      BY <1>1, <2>1, Loads
    <2>3. Holds(file', log') /\ Holds(disk', log')
      BY <2>1, <2>2
    <2>. QED  BY <1>1, <2>1, <2>2, <2>3
  <1>10. CASE UNCHANGED storeVars
    BY <1>10 DEF storeVars, Holds
  <1>. QED
    BY <1>2, <1>3, <1>4, <1>5, <1>6, <1>7, <1>8, <1>9, <1>10 DEF StoreStep

\* What every theorem below starts from.
PerBlockInv == TypeOK /\ HandlingInv /\ StoreInv

\* PerBlockInv holds initially and is kept by every step.
LEMMA PerBlockInvHolds == Spec => []PerBlockInv
  <1>1. Init => PerBlockInv
    <2>. SUFFICES ASSUME Init PROVE PerBlockInv
      OBVIOUS
    <2>1. NoFile \in File(Row)
      BY DEF NoFile, File
    <2>2. StoreTypeOK(Row)
      BY <2>1 DEF Init, StoreInit, StoreTypeOK
    <2>3. TypeOK
      BY <2>2 DEF Init, TypeOK, NoTransaction, Position
    <2>4. HandlingInv
      BY FS_EmptySet DEF Init, HandlingInv
    <2>5. SubSeq(<<>>, 1, 0) = <<>> /\ Newest(<<>>) = <<>>
      BY HistoryAssumption, SubSeqEmpty DEF Newest
    <2>6. /\ rows = <<>> /\ log = <<>> /\ writer = "idle" /\ file = NoFile /\ disk = NoFile
          /\ NoFile.synced /\ NoFile.upto = 0 /\ NoFile.rows = <<>>
      BY DEF Init, StoreInit, NoFile
    <2>7. NoFile.rows = Newest(SubSeq(log, 1, NoFile.upto)) /\ rows = Newest(log)
      BY <2>5, <2>6, Zenon
    <2>8. Holds(NoFile, log)
      BY <2>6, <2>7 DEF Holds
    <2>9. StoreInv
      BY <2>6, <2>7, <2>8 DEF StoreInv
    <2>. QED  BY <2>3, <2>4, <2>9 DEF PerBlockInv
  <1>2. PerBlockInv /\ [Next]_vars => PerBlockInv'
    <2>. SUFFICES ASSUME PerBlockInv, [Next]_vars PROVE PerBlockInv'
      OBVIOUS
    <2>1. StoreStep
      BY StepsOfTheStore DEF PerBlockInv
    <2>2. StoreTypeOK(Row) /\ StoreInv
      BY DEF PerBlockInv, TypeOK
    <2>3. file.upto <= Len(log) /\ disk.upto <= Len(log)
      BY <2>2 DEF StoreInv, Holds
    <2>4. StoreTypeOK(Row)' /\ StoreInv'
      BY <2>1, <2>2, <2>3, TypeStoreStep, StoreInvStep
    <2>. QED  BY <2>4, TypeLoopStep DEF PerBlockInv
  <1>. QED  BY <1>1, <1>2, PTL DEF Spec

\* The loop, its history and the chain have their types, whatever happens between
\* two steps of a handler and wherever the process stops.
THEOREM TypeCorrect == Spec => []TypeOK
  <1>1. PerBlockInv => TypeOK
    BY DEF PerBlockInv
  <1>. QED  BY <1>1, PerBlockInvHolds, PTL

-----------------------------------------------------------------------------
(* The history is a durable log *)

\* A step of the store is a step of the durable log, or none.
LEMMA StoreStepRefines ==
    ASSUME StoreTypeOK(Row), StoreInv, StoreInv', StoreStep
    PROVE  [Durable!LogNext]_(Durable!logVars)
  <1>. USE DEF Durable!LogNext, Durable!logVars, StoreInv
  <1>1. /\ file \in File(Row) /\ disk \in File(Row) /\ log \in Seq(Row)
        /\ Kept(file) = file
    BY DEF StoreTypeOK, Kept, Holds
  <1>2. \A s : Durable!Newest(s) = Newest(s)
    BY DEF Durable!Newest, Newest
  <1>3. ASSUME NEW r \in Row, append(r) PROVE Durable!Record
    <2>1. log' = Append(log, r) /\ UNCHANGED <<file, disk>>
      BY <1>3 DEF append
    <2>2. log' # <<>> /\ log'[Len(log')] = r
      BY <1>1, <2>1, AppendProperties
    <2>. QED  BY <1>2, <2>1, <2>2 DEF Durable!Record
  <1>4. CASE writeTmp
    BY <1>4 DEF writeTmp
  <1>5. CASE syncTmp
    BY <1>5 DEF syncTmp
  <1>6. CASE replaceFile
    BY <1>6 DEF replaceFile, Durable!Acknowledge
  <1>7. CASE writeFails
    BY <1>7 DEF writeFails
  <1>8. CASE settle
    BY <1>1, <1>8 DEF settle, Durable!Settle
  <1>9. ASSUME NEW f \in {file, disk}, loadFromDisk(f) PROVE Durable!KeepFirst(f.upto)
    BY <1>2, <1>9 DEF loadFromDisk, Durable!KeepFirst
  <1>10. CASE restart
    BY <1>9, <1>10 DEF restart, Durable!Restart
  <1>11. CASE powerLoss
    <2>1. PICK f \in {disk, file} : loadFromDisk(f) /\ file' = f /\ disk' = f
      BY <1>1, <1>11 DEF powerLoss
    <2>. QED  BY <1>9, <2>1 DEF Durable!PowerLoss
  <1>12. CASE UNCHANGED storeVars
    BY <1>12 DEF storeVars
  <1>. QED
    BY <1>3, <1>4, <1>5, <1>6, <1>7, <1>8, <1>10, <1>11, <1>12 DEF StoreStep

\* The history is a durable log: no failed write, no stop of the process and no
\* loss of power makes it lose a row whose append had returned, or had settled on
\* the disk, and what is found afterwards are the newest of the others.  That a whole
\* file can be read is assumed.
THEOREM HistoryImplementsLog == Spec => HistoryIsDurable
  <1>1. Init => Durable!LogInit
    BY DEF Init, StoreInit, Durable!LogInit, NoFile
  <1>2. PerBlockInv /\ PerBlockInv' /\ [Next]_vars => [Durable!LogNext]_(Durable!logVars)
    <2>. SUFFICES ASSUME PerBlockInv, PerBlockInv', [Next]_vars
                  PROVE  [Durable!LogNext]_(Durable!logVars)
      OBVIOUS
    <2>1. StoreStep
      BY StepsOfTheStore DEF PerBlockInv
    <2>. QED  BY <2>1, StoreStepRefines DEF PerBlockInv, TypeOK
  <1>. QED
    BY <1>1, <1>2, PerBlockInvHolds, PTL DEF Spec, HistoryIsDurable, Durable!LogSpec

-----------------------------------------------------------------------------
(* What the history tells *)

\* The log ends with the decision the loop's position comes from, and a row leads
\* to the next of its run.
ChainInv ==
    /\ \A i \in 1 .. Len(log) : log[i].run <= run
    /\ DecisionsChain

\* A decision that is recorded adds a row that starts where the last one of its
\* run led, and moves the loop to where it leads.
LEMMA RecordChains ==
    ASSUME PerBlockInv, ChainInv, NEW target \in Position, NEW position \in Position,
           Record(target, position), step \in {"read", "answer"}, UNCHANGED <<run, startedIn>>,
           position = IF target = NoProtocol THEN current_protocol ELSE target
    PROVE  ChainInv'
  <1>1. PICK r \in Row :
            append(r) /\ r.run = run /\ r.current = current_protocol /\ r.target = target
    BY RecordedRow DEF PerBlockInv
  <1>2. log \in Seq(Row) /\ run \in Nat
    BY DEF PerBlockInv, TypeOK, StoreTypeOK
  <1>3. log' = Append(log, r) /\ current_protocol' = position
    BY <1>1 DEF append, Record
  <1>4. /\ Len(log') = Len(log) + 1 /\ log' # <<>> /\ log'[Len(log) + 1] = r
        /\ \A i \in 1 .. Len(log) : log'[i] = log[i]
    BY <1>2, <1>3, AppendProperties
  <1>5. After(r) = current_protocol' /\ run' = run
    BY <1>1, <1>3 DEF After
  <1>6. \A i \in 1 .. Len(log') : log'[i].run <= run'
    BY <1>1, <1>2, <1>4, <1>5 DEF ChainInv
  <1>7. ASSUME NEW i \in 1 .. Len(log') - 1, log'[i].run = log'[i + 1].run
        PROVE  log'[i + 1].current = After(log'[i])
    <2>1. i \in 1 .. Len(log) /\ log'[i] = log[i]
      BY <1>2, <1>4
    <2>2. CASE i = Len(log)
      BY <1>1, <1>2, <1>4, <1>7, <2>1, <2>2 DEF ChainInv, DecisionsChain
    <2>3. CASE i < Len(log)
      BY <1>2, <1>4, <1>7, <2>1, <2>3 DEF ChainInv, DecisionsChain
    <2>. QED  BY <1>2, <2>1, <2>2, <2>3
  <1>8. /\ log' # <<>> /\ log'[Len(log')].run = run'
        /\ current_protocol' = After(log'[Len(log')])
    BY <1>1, <1>2, <1>4, <1>5
  <1>. QED  BY <1>6, <1>7, <1>8 DEF ChainInv, DecisionsChain, After

\* The rows a new process starts from are a prefix of the log, and none is of its
\* run.
LEMMA RestartChains ==
    ASSUME PerBlockInv, ChainInv, processRestarts
    PROVE  ChainInv'
  <1>1. log \in Seq(Row) /\ run \in Nat /\ run' = run + 1 /\ current_protocol' = startedIn'
    BY DEF PerBlockInv, TypeOK, StoreTypeOK, processRestarts
  <1>2. PICK n \in 0 .. Len(log) : log' = SubSeq(log, 1, n)
    <2>1. PICK f \in {file, disk, Kept(file)} : loadFromDisk(f)
      BY DEF processRestarts, restart, powerLoss
    <2>2. f.upto \in 0 .. Len(log)
      BY <2>1 DEF PerBlockInv, TypeOK, StoreTypeOK, StoreInv, Holds, Kept, File
    <2>. QED  BY <2>1, <2>2 DEF loadFromDisk
  <1>3. log' \in Seq(Row) /\ Len(log') = n /\ \A i \in 1 .. n : log'[i] = log[i]
    BY <1>1, <1>2, Prefixes
  <1>4. \A i \in 1 .. Len(log) : log[i].run \in Nat
    <2>1. \A i \in 1 .. Len(log) : log[i] \in Row
      BY <1>1
    <2>2. \A r \in Row : r.run \in Nat
      BY DEF Row
    <2>. QED  BY <2>1, <2>2
  <1>5. \A i \in 1 .. Len(log') : log'[i].run <= run' /\ log'[i].run # run'
    BY <1>1, <1>3, <1>4 DEF ChainInv
  <1>6. \A i \in 1 .. Len(log') - 1 :
            log'[i].run = log'[i + 1].run => log'[i + 1].current = After(log'[i])
    BY <1>1, <1>3 DEF ChainInv, DecisionsChain
  <1>7. ~(log' # <<>> /\ log'[Len(log')].run = run')
    <2>1. CASE n = 0
      BY <1>3, <2>1, EmptySeq
    <2>2. CASE n > 0
      BY <1>3, <1>5, <2>2
    <2>. QED  BY <2>1, <2>2
  <1>. QED  BY <1>1, <1>5, <1>6, <1>7 DEF ChainInv, DecisionsChain, After

\* The history alone tells what the loop believes, whatever fails in between.
THEOREM DecisionsAlwaysChain == Spec => []DecisionsChain
  <1>1. Init => ChainInv
    BY DEF Init, StoreInit, ChainInv, DecisionsChain
  <1>2. PerBlockInv /\ ChainInv /\ [Next]_vars => ChainInv'
    <2>. SUFFICES ASSUME PerBlockInv, ChainInv, [Next]_vars PROVE ChainInv'
      OBVIOUS
    <2>1. ASSUME UNCHANGED <<log, run, current_protocol, startedIn>> PROVE ChainInv'
      BY <2>1 DEF ChainInv, DecisionsChain, After
    <2>2. ASSUME hold PROVE ChainInv'
      <3>1. /\ Record(NoProtocol, current_protocol) /\ step = "read"
            /\ UNCHANGED <<run, startedIn>> /\ current_protocol \in Position
        BY <2>2 DEF hold, Goes, PerBlockInv, TypeOK
      <3>. QED  BY <3>1, RecordChains DEF Position
    <2>3. ASSUME answered PROVE ChainInv'
      <3>1. /\ Record(handling.target, handling.target) /\ step = "answer"
            /\ UNCHANGED <<run, startedIn>> /\ handling.target \in Protocols
        BY <2>3 DEF answered, Goes, PerBlockInv, HandlingInv
      <3>. QED  BY <3>1, PerBlockAssumption, RecordChains DEF Position
    <2>4. ASSUME processRestarts PROVE ChainInv'
      BY <2>4, RestartChains
    <2>5. ASSUME onNewHead \/ (\E target \in Protocols : switch(target)) \/ readNonce
                 \/ readBlock \/ relayTakes \/ handlerCrashes \/ newBlock
          PROVE  UNCHANGED <<log, run, current_protocol, startedIn>>
      BY <2>5 DEF onNewHead, switch, readNonce, readBlock, relayTakes, handlerCrashes,
                  newBlock, storeVars
    <2>6. ASSUME historyWrites \/ diskSettles
          PROVE  UNCHANGED <<log, run, current_protocol, startedIn>>
      BY <2>6 DEF historyWrites, diskSettles, writeTmp, syncTmp, replaceFile, writeFails,
                  settle, loopVars
    <2>7. ASSUME UNCHANGED vars PROVE UNCHANGED <<log, run, current_protocol, startedIn>>
      BY <2>7 DEF vars, storeVars, loopVars
    <2>. QED  BY <2>1, <2>2, <2>3, <2>4, <2>5, <2>6, <2>7 DEF Next, LoopStep
  <1>3. ChainInv => DecisionsChain
    BY DEF ChainInv
  <1>. QED  BY <1>1, <1>2, <1>3, PerBlockInvHolds, PTL DEF Spec

\* The relay took the transaction of a row, if it tells of a switch.
Taken(r) == r.target # NoProtocol =>
    \E t \in relayed : t.run = r.run /\ t.block = r.block /\ t.target = r.target

\* Switches are in the history or the audit trail only if the relay took them,
\* also after restarts and losses of power.
THEOREM SwitchesAlwaysTaken == Spec => []SwitchesWereTaken
  <1>. DEFINE Told == {log[i] : i \in 1 .. Len(log)} \cup audit
              Inv == \A r \in Told : Taken(r)
  <1>1. Init => Inv
    BY DEF Init, StoreInit
  <1>2. PerBlockInv /\ Inv /\ [Next]_vars => Inv'
    <2>. SUFFICES ASSUME PerBlockInv, Inv, [Next]_vars PROVE Inv'
      OBVIOUS
    <2>1. relayed \subseteq relayed'
      BY DEF Next, LoopStep, onNewHead, hold, switch, readNonce, readBlock, relayTakes,
             answered, handlerCrashes, historyWrites, processRestarts, diskSettles, newBlock,
             vars, chainVars
    <2>2. \A r : Taken(r) => Taken(r)'
      BY <2>1 DEF Taken
    <2>. SUFFICES Told' \subseteq Told \cup {r \in Told' : Taken(r)'}
      BY <2>2
    <2>3. ASSUME hold \/ answered PROVE \A r \in Told' \ Told : Taken(r)'
      <3>1. PICK target \in Position, position \in Position :
                /\ Record(target, position) /\ step \in {"read", "answer"}
                /\ target # NoProtocol => /\ handling \in relayed /\ handling.run = run
                                          /\ target = handling.target
        BY <2>3 DEF hold, answered, Goes, PerBlockInv, TypeOK, HandlingInv, Position
      <3>2. PICK r \in Row :
                /\ append(r) /\ r.run = run /\ r.block = handling.block /\ r.target = target
                /\ audit' \in {audit, audit \cup {[r EXCEPT !.current = position]}}
        BY <3>1, RecordedRow DEF PerBlockInv
      <3>. DEFINE e == [r EXCEPT !.current = position]
      <3>3. e.run = r.run /\ e.block = r.block /\ e.target = r.target
        BY DEF Row
      <3>4. Taken(r) /\ Taken(e)
        BY <3>1, <3>2, <3>3 DEF Taken
      <3>. HIDE DEF e
      <3>5. Told' \subseteq Told \cup {r, e}
        <4>1. log \in Seq(Row) /\ log' = Append(log, r)
          BY <3>2 DEF append, PerBlockInv, TypeOK, StoreTypeOK
        <4>2. /\ Len(log') = Len(log) + 1 /\ log'[Len(log) + 1] = r
              /\ \A i \in 1 .. Len(log) : log'[i] = log[i]
          BY <4>1, AppendProperties
        <4>3. \A i \in 1 .. Len(log') : i \in 1 .. Len(log) \/ i = Len(log) + 1
          BY <4>1, <4>2
        <4>4. audit' \subseteq audit \cup {e}
          BY <3>2 DEF e
        <4>. QED  BY <4>2, <4>3, <4>4
      <3>. QED  BY <3>4, <3>5, <2>2
    <2>4. ASSUME processRestarts PROVE Told' \subseteq Told
      <3>1. PICK f \in {file, disk, Kept(file)} : loadFromDisk(f) /\ UNCHANGED audit
        BY <2>4 DEF processRestarts, restart, powerLoss
      <3>2. log \in Seq(Row) /\ f.upto \in 0 .. Len(log)
        BY <3>1 DEF PerBlockInv, TypeOK, StoreTypeOK, StoreInv, Holds, Kept, File
      <3>3. Len(log') = f.upto /\ \A i \in 1 .. f.upto : log'[i] = log[i]
        BY <3>1, <3>2, Prefixes DEF loadFromDisk
      <3>. QED  BY <3>1, <3>2, <3>3
    <2>5. ASSUME onNewHead \/ (\E target \in Protocols : switch(target)) \/ readNonce
                 \/ readBlock \/ relayTakes \/ handlerCrashes \/ newBlock
          PROVE  UNCHANGED <<log, audit>>
      BY <2>5 DEF onNewHead, switch, readNonce, readBlock, relayTakes, handlerCrashes,
                  newBlock, storeVars
    <2>6. ASSUME historyWrites \/ diskSettles PROVE UNCHANGED <<log, audit>>
      BY <2>6 DEF historyWrites, diskSettles, writeTmp, syncTmp, replaceFile, writeFails,
                  settle, loopVars
    <2>7. ASSUME UNCHANGED vars PROVE UNCHANGED <<log, audit>>
      BY <2>7 DEF vars, storeVars, loopVars
    <2>8. ASSUME UNCHANGED <<log, audit>> PROVE Told' = Told
      BY <2>8
    <2>. HIDE DEF Told
    <2>. QED  BY <2>3, <2>4, <2>5, <2>6, <2>7, <2>8 DEF Next, LoopStep
  <1>3. Inv => SwitchesWereTaken
    BY DEF SwitchesWereTaken, Taken
  <1>. QED  BY <1>1, <1>2, <1>3, PerBlockInvHolds, PTL DEF Spec

-----------------------------------------------------------------------------
(* What the chain includes *)

\* The transactions that are signed: at the relay, or in the handler's hands.
Signed == relayed \cup
    (IF step \in {"deadline", "post", "answer"} THEN {handling} ELSE {})

\* No signed transaction is ahead of the account, and each one is signed after the
\* inclusion of those before it.
TurnInv ==
    /\ \A m \in included :
           m.tx \in relayed /\ m.tx.nonce < accountNonce /\ m.minedAt <= head
    /\ \A t \in Signed :
           /\ t.nonce <= accountNonce
           /\ \A m \in included : m.tx.nonce < t.nonce => t.signedAt >= m.minedAt

\* Switches do not overtake each other, those of earlier runs included.
THEOREM InclusionsAlwaysInTurn == Spec => []InclusionsInTurn
  <1>1. Init => TurnInv
    BY DEF Init, TurnInv, Signed
  <1>2. PerBlockInv /\ PerBlockInv' /\ TurnInv /\ [Next]_vars => TurnInv'
    <2>. SUFFICES ASSUME PerBlockInv, PerBlockInv', TurnInv, [Next]_vars PROVE TurnInv'
      OBVIOUS
    <2>1. head \in Nat /\ accountNonce \in Nat /\ relayed \subseteq Transaction
          /\ \A t \in Transaction : t.nonce \in Nat /\ t.signedAt \in Nat
          /\ \A m \in included : m.tx \in Transaction /\ m.minedAt \in Nat
      BY DEF PerBlockInv, TypeOK, Transaction
    <2>2. ASSUME UNCHANGED chainVars, Signed' \subseteq Signed PROVE TurnInv'
      BY <2>2 DEF TurnInv, chainVars
    <2>3. ASSUME readNonce PROVE TurnInv'
      <3>1. /\ handling' = [handling EXCEPT !.nonce = accountNonce, !.signedAt = head]
            /\ UNCHANGED chainVars /\ step' = "deadline"
        BY <2>3 DEF readNonce, Goes
      <3>2. handling'.nonce = accountNonce /\ handling'.signedAt = head
        BY <3>1 DEF PerBlockInv, TypeOK
      <3>3. Signed' \subseteq Signed \cup {handling'}
        BY <3>1 DEF Signed, chainVars
      <3>4. /\ handling'.nonce <= accountNonce
            /\ \A m \in included : handling'.signedAt >= m.minedAt
        BY <2>1, <3>2 DEF TurnInv
      <3>. QED  BY <3>1, <3>3, <3>4 DEF TurnInv, chainVars
    <2>4. ASSUME readBlock PROVE TurnInv'
      <3>1. /\ handling' = [handling EXCEPT !.maxBlock = head + MaxBlockOffset]
            /\ UNCHANGED chainVars /\ step = "deadline" /\ step' = "post"
        BY <2>4 DEF readBlock, Goes
      <3>2. handling'.nonce = handling.nonce /\ handling'.signedAt = handling.signedAt
        BY <3>1 DEF PerBlockInv, TypeOK
      <3>3. Signed' \subseteq Signed \cup {handling'} /\ handling \in Signed
        BY <3>1 DEF Signed, chainVars
      <3>4. \A t \in Signed' : \E u \in Signed : t.nonce = u.nonce /\ t.signedAt = u.signedAt
        BY <3>2, <3>3
      <3>. QED  BY <3>1, <3>4 DEF TurnInv, chainVars
    <2>5. ASSUME relayTakes PROVE TurnInv'
      <3>1. /\ Signed' \subseteq Signed /\ relayed \subseteq relayed'
            /\ UNCHANGED <<included, head, accountNonce>>
        BY <2>5 DEF relayTakes, Goes, Signed
      <3>. QED  BY <3>1 DEF TurnInv
    <2>6. ASSUME newBlock PROVE TurnInv'
      <3>1. PICK txs \in SUBSET relayed :
                accountNonce' = accountNonce + Cardinality(txs) /\ Include(txs)
        BY <2>6 DEF newBlock
      <3>2. head' = head + 1 /\ Signed' = Signed /\ UNCHANGED relayed
        BY <2>6 DEF newBlock, Signed
      <3>3. Cardinality(txs) \in Nat
        BY FS_Subset, FS_CardinalityType DEF PerBlockInv, HandlingInv
      <3>4. \A t \in txs : t.nonce \in accountNonce .. accountNonce' - 1
        BY <3>1 DEF Include
      <3>5. \A m \in included' : m \in included \/ (m.tx \in txs /\ m.minedAt = head')
        BY <3>1 DEF Include
      <3>6. \A t \in Signed : t.nonce \in Nat
        BY DEF Signed, PerBlockInv, TypeOK, Transaction
      <3>7. ASSUME NEW m \in included'
            PROVE  m.tx \in relayed' /\ m.tx.nonce < accountNonce' /\ m.minedAt <= head'
        BY <2>1, <3>1, <3>2, <3>3, <3>4, <3>5, <3>7 DEF TurnInv
      <3>8. ASSUME NEW t \in Signed', NEW m \in included', m.tx.nonce < t.nonce
            PROVE  t.signedAt >= m.minedAt
        <4>1. m.tx.nonce < accountNonce
          BY <2>1, <3>1, <3>2, <3>5, <3>6, <3>8 DEF TurnInv
        <4>2. m \in included
          BY <2>1, <3>1, <3>4, <3>5, <4>1
        <4>. QED  BY <3>2, <3>8, <4>2 DEF TurnInv
      <3>. QED  BY <2>1, <3>1, <3>2, <3>3, <3>6, <3>7, <3>8 DEF TurnInv
    <2>7. ASSUME onNewHead \/ hold \/ (\E target \in Protocols : switch(target)) \/ answered
                 \/ handlerCrashes \/ historyWrites \/ processRestarts \/ diskSettles
                 \/ UNCHANGED vars
          PROVE  UNCHANGED chainVars /\ Signed' \subseteq Signed
      BY <2>7 DEF onNewHead, hold, switch, answered, handlerCrashes, historyWrites,
                  processRestarts, diskSettles, vars, chainVars, loopVars, Goes, Signed
    <2>. QED  BY <2>2, <2>3, <2>4, <2>5, <2>6, <2>7 DEF Next, LoopStep
  <1>3. TurnInv => InclusionsInTurn
    BY DEF TurnInv, Signed, InclusionsInTurn
  <1>. QED  BY <1>1, <1>2, <1>3, PerBlockInvHolds, PTL DEF Spec

=============================================================================
