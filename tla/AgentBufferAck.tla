--------------------------- MODULE AgentBufferAck ---------------------------
(***************************************************************************)
(* Building a batch and Ack, on the sealed segments and on the active one, *)
(* preserve the inductive invariant of AgentBuffer.  The second half is    *)
(* about Buffer.sealed and Buffer.totalLen: what Ack does to the index and *)
(* to the count.                                                           *)
(***************************************************************************)
EXTENDS AgentBufferInvariant

-----------------------------------------------------------------------------
(* Batches and their acknowledgement. *)

\* A record of an indexed file is on the walk, at its entry's position.
LEMMA WalkSealed ==
  ASSUME NEW i \in DOMAIN sealed, NEW it \in zst[sealed[i].name].items
  PROVE  <<i, it>> \in Walk
<1>1. <<i, it>> \in {i} \X zst[sealed[i].name].items
  OBVIOUS
<1>2. <<i, it>> \in UNION {{j} \X zst[sealed[j].name].items : j \in DOMAIN sealed}
  BY <1>1, Zenon
<1> QED BY <1>2, Zenon DEF Walk

\* The active items are at the end of the walk.
LEMMA WalkActive ==
  ASSUME NEW it \in active.items
  PROVE  <<Len(sealed) + 1, it>> \in Walk
<1>1. <<Len(sealed) + 1, it>> \in {Len(sealed) + 1} \X active.items
  OBVIOUS
<1> QED BY <1>1, Zenon DEF Walk

\* Nothing else is on the walk.
LEMMA WalkCases ==
  ASSUME NEW q \in Walk
  PROVE  \/ \E i \in DOMAIN sealed : q[1] = i /\ q[2] \in zst[sealed[i].name].items
         \/ q[1] = Len(sealed) + 1 /\ q[2] \in active.items
<1>1. CASE q \in {Len(sealed) + 1} \X active.items
  BY <1>1
<1>2. CASE q \in UNION {{j} \X zst[sealed[j].name].items : j \in DOMAIN sealed}
  <2>1. PICK j \in DOMAIN sealed : q \in {j} \X zst[sealed[j].name].items
    BY <1>2, Zenon
  <2>2. q[1] = j /\ q[2] \in zst[sealed[j].name].items
    BY <2>1
  <2> QED BY <2>2
<1> QED BY <1>1, <1>2, Zenon DEF Walk

\* A record to be delivered is among what the idle buffer holds: the active
\* items or a file of the index.
LEMMA LiveHeld ==
  ASSUME IInv, pc = "idle", NEW n \in Names, NEW it \in Here(n), Live(it)
  PROVE  it \in active.items \/ \E i \in DOMAIN sealed :
                                sealed[i].name = n /\ it \in zst[n].items
<1> USE DEF IInv
<1>1. CASE active.name = n
  <2>1. it \in wal[n].items => it \in active.items
    BY <1>1, Numbers DEF ActiveInv
  <2>2. it \in zst[n].items => it \in wal[n].items
    BY <1>1, Numbers DEF ActiveInv, FilesInv
  <2> QED BY <2>1, <2>2, <1>1 DEF Here
<1>2. CASE active.name # n
  <2>1. ~wal[n].exists
    BY <1>2 DEF ActiveInv, Up
  <2>2. it \in zst[n].items
    BY <2>1, <1>2 DEF Here, FilesInv
  <2> QED BY <2>1, <2>2 DEF SealedInv
<1> QED BY <1>1, <1>2

\* A prefix of the walk holds everything the buffer holds up to its last Seq:
\* the walk is in Seq order because the index is sorted by name.
LEMMA PrefixCovers ==
  ASSUME IInv, pc = "idle", NEW p \in Walk, NEW it,
         it \in active.items
           \/ \E i \in DOMAIN sealed : it \in zst[sealed[i].name].items,
         it.seq <= p[2].seq
  PROVE  \E q \in WalkUpTo(p) : q[2] = it
<1> USE DEF IInv
<1> DEFINE L == Len(sealed) + 1
<1>1. L \in Nat /\ DOMAIN sealed = 1 .. Len(sealed)
      /\ \A i \in DOMAIN sealed : i \in Nat /\ i < L /\ sealed[i].name \in Names
  BY SegmentOf DEF TypeOK
<1>2. \/ \E i \in DOMAIN sealed : p[1] = i /\ p[2] \in zst[sealed[i].name].items
      \/ p[1] = L /\ p[2] \in active.items
  BY WalkCases
<1>4. it.seq \in Nat
  <2>1. it \in Item
    BY SegmentOf DEF TypeOK, ActiveSegment, ZstFile
  <2> QED BY <2>1, ItemSeq
<1>5. CASE it \in active.items
  <2>1. <<L, it>> \in Walk
    BY <1>5, WalkActive
  <2>2. active.name # 0 /\ active.name \in Names /\ active.name = maxName
    BY <1>5 DEF ActiveInv, NilActive, TypeOK, ActiveSegment, Names
  <2>3. CASE p[1] = L
    BY <2>3, <2>1, <1>5 DEF WalkUpTo
  <2>4. CASE p[1] # L
    <3>1. PICK i \in DOMAIN sealed : p[1] = i /\ p[2] \in zst[sealed[i].name].items
      BY <2>4, <1>2
    <3>2. sealed[i].name \in Names /\ sealed[i].name < maxName
      BY <1>1, <2>2, Numbers DEF SealedInv, IndexOK, ActiveInv, Up
    <3>3. p[2] \in Here(sealed[i].name) /\ it \in Here(active.name)
      BY <3>1, <1>5 DEF Here
    <3>4. p[2].seq < it.seq /\ p[2].seq \in Nat
      BY <3>2, <3>3, <2>2, HereItems DEF OrderInv
    <3> QED BY <3>4, <1>4
  <2> QED BY <2>3, <2>4
<1>6. CASE \E i \in DOMAIN sealed : it \in zst[sealed[i].name].items
  <2>1. PICK i \in DOMAIN sealed : it \in zst[sealed[i].name].items
    BY <1>6
  <2> DEFINE n == sealed[i].name
  <2>0. n \in Names /\ it \in Here(n)
    BY <2>1, <1>1 DEF Here
  <2>2. <<i, it>> \in Walk
    BY <2>1, WalkSealed
  <2>3. CASE i < p[1]
    BY <2>2, <2>3 DEF WalkUpTo
  <2>4. CASE ~(i < p[1])
    <3>1. PICK k \in DOMAIN sealed : p[1] = k /\ p[2] \in zst[sealed[k].name].items
      BY <2>4, <1>1, <1>2
    <3>2. k \in Nat /\ i \in Nat /\ k <= i
      BY <3>1, <2>4, <1>1
    <3>3. sealed[k].name \in Names /\ sealed[k].name <= n
      <4>1. sealed[k].name \in Names /\ sealed[k].name \in Nat
        BY <1>1, Numbers
      <4>2. CASE k = i
        BY <4>1, <4>2
      <4>3. CASE k < i
        BY <4>1, <4>3 DEF SealedInv, IndexOK
      <4> QED BY <4>2, <4>3, <3>2
    <3>4. p[2] \in Here(sealed[k].name)
      BY <3>1 DEF Here
    <3>5. sealed[k].name = n
      <4>1. SUFFICES ASSUME sealed[k].name < n PROVE FALSE
        BY <2>0, <3>3, Numbers
      <4>2. p[2].seq < it.seq /\ p[2].seq \in Nat
        BY <2>0, <3>3, <3>4, <4>1, HereItems DEF OrderInv
      <4> QED BY <4>2, <1>4
    <3>6. <<k, it>> \in Walk
      BY <3>5, <2>1, WalkSealed
    <3> QED BY <3>1, <3>6 DEF WalkUpTo
  <2> QED BY <2>3, <2>4
<1> QED BY <1>5, <1>6

\* oldestItems reads a prefix of the walk, and a batch covers what it read.
LEMMA OldestItemsStep == ASSUME IInv, OldestItems PROVE IInv'
<1> USE DEF IInv, disk, memory, history
<1>1. /\ pc = "idle" /\ UNCHANGED <<disk, pc, memory, call, history>>
  BY DEF OldestItems
<1>2. PICK p \in Walk :
        /\ \A i \in DOMAIN sealed : i <= p[1] => zst[sealed[i].name].exists
        /\ batch' = [stage |-> "sending", last |-> p[2].seq,
                     items |-> {q[2] : q \in WalkUpTo(p)}]
  BY Zenon DEF OldestItems
<1>3. ASSUME NEW q \in Walk
      PROVE  \E n \in Names : q[2] \in Here(n)
  <2>1. CASE \E i \in DOMAIN sealed : q[2] \in zst[sealed[i].name].items
    BY <2>1, SegmentOf DEF Here, TypeOK
  <2>2. CASE q[2] \in active.items
    <3>1. active.name \in Names
      BY <2>2 DEF ActiveInv, NilActive, TypeOK, ActiveSegment, Names
    <3> QED BY <2>2, <3>1 DEF Here
  <2> QED BY <2>1, <2>2, WalkCases
<1>4. \A q \in Walk : q[2] \in Item /\ q[2].seq <= nextSeq
  BY <1>1, <1>3, HereItems DEF SeqInv, Up
<1>5. TypeOK'
  <2>1. batch' \in BatchState
    <3>1. {q[2] : q \in WalkUpTo(p)} \in SUBSET Item
      BY <1>4 DEF WalkUpTo
    <3>2. p[2].seq \in 0 .. MaxAppends
      BY <1>4, Numbers DEF Item, Ids
    <3> QED BY <3>1, <3>2, <1>2 DEF BatchState
  <2> QED BY <2>1, <1>1 DEF TypeOK
<1>6. FilesInv' /\ OrderInv' /\ SealedInv' /\ DurableInv'
  BY <1>1, QuietStep DEF Up
<1>7. ActiveInv' /\ SeqInv' /\ KeptInv'
  BY <1>1 DEF ActiveInv, SeqInv, KeptInv, Here, Live, Up
<1>8. BatchInv'
  <2>1. ASSUME NEW n \in Names, NEW it \in Here(n), Live(it), it.seq <= p[2].seq
        PROVE  it.id \in IdsOf(batch'.items)
    <3>0. it \in active.items
           \/ \E i \in DOMAIN sealed : it \in zst[sealed[i].name].items
      BY <1>1, <2>1, LiveHeld
    <3>1. PICK q \in WalkUpTo(p) : q[2] = it
      BY <1>1, <2>1, <3>0, PrefixCovers
    <3> QED BY <3>1, <1>2 DEF IdsOf
  <2>2. \A n \in Names : Here(n)' = Here(n) /\ \A it : Live(it)' <=> Live(it)
    BY <1>1 DEF Here, Live
  <2> QED BY <2>1, <2>2, <1>1, <1>2, <1>4 DEF BatchInv, Up
<1> QED BY <1>5, <1>6, <1>7, <1>8

\* What one turn of Ack's loop does to the file and to the new index: it
\* drops no record still to be delivered.
LEMMA AckSegmentEffect ==
  ASSUME IInv, AckSegment
  PROVE  LET n == sealed[call.pos].name IN
         /\ n \in Names
         /\ zst' \in [Names -> ZstFile]
         /\ \A m \in Names : m # n => zst'[m] = zst[m]
         /\ zst'[n].items \subseteq zst[n].items
         /\ zst'[n].exists => zst[n].exists
         /\ ~zst'[n].exists => zst'[n].items = {}
         /\ \A it \in zst[n].items : Live(it) => it \in zst'[n].items
         /\ totalLen' \in Int
         /\ call'.pos = call.pos + 1
         /\ call' \in CallFrame
         /\ \/ call'.kept = call.kept /\ zst'[n].items = {}
            \/ \E e \in Segment :
                 /\ call'.kept = Append(call.kept, e)
                 /\ e.name = n
                 /\ \A it \in zst'[n].items : Live(it) => it.seq <= e.maxSeq
<1> USE DEF IInv
<1> DEFINE seg == sealed[call.pos]
           n == seg.name
           items == zst[n].items
           left == {it \in items : it.seq > batch.last}
<1>1. /\ pc = "ack" /\ call.pos \in DOMAIN sealed /\ call \in CallFrame
      /\ batch.stage = "sent"
  <2>1. call.pos \in Nat /\ call.pos >= 1 /\ call.pos <= Len(sealed)
    <3>1. pc = "ack" /\ call.pos <= Len(sealed)
      BY Zenon DEF AckSegment
    <3>2. Len(sealed) \in Nat
      BY DEF TypeOK
    <3> QED BY <3>1, <3>2, Numbers DEF KeptInv
  <2>2. pc = "ack"
    BY Zenon DEF AckSegment
  <2> QED BY <2>1, <2>2 DEF TypeOK, BatchInv
<1>2. seg \in Segment /\ n \in Names /\ zst[n] \in ZstFile
      /\ seg.maxSeq \in Nat /\ seg.count \in Nat /\ items \in SUBSET Item
  BY <1>1, SegmentOf, Zenon DEF TypeOK, Segment, ZstFile
<1>3. \A it \in items : Live(it) => it.seq <= seg.maxSeq
  BY <1>1 DEF SealedInv, IndexOK
<1>4. ASSUME NEW it \in items, Live(it) PROVE it.seq > batch.last
  <2>1. it \in Here(n) /\ it.seq \in Nat
    BY <1>2, HereItems DEF Here
  <2>2. ~(it.seq <= batch.last)
    BY <2>1, <1>1, <1>2, <1>4 DEF BatchInv, Live
  <2> QED BY <2>1, <2>2, Numbers
<1>5. ASSUME NEW k \in Seq(Segment)
      PROVE  /\ NextTurn(k) \in CallFrame
             /\ NextTurn(k).pos = call.pos + 1
             /\ NextTurn(k).kept = k
  BY <1>1 DEF NextTurn, CallFrame
<1>6. /\ call.kept \in Seq(Segment)
      /\ \A e \in Segment : Append(call.kept, e) \in Seq(Segment)
  BY <1>1 DEF CallFrame
<1>7. CASE /\ zst' = [zst EXCEPT ![n] = NoZst]
           /\ totalLen' = totalLen - seg.count
           /\ call' = NextTurn(call.kept)
           /\ \A it \in items : ~Live(it)
  <2>1. /\ zst' \in [Names -> ZstFile] /\ zst'[n] = NoZst
        /\ \A m \in Names : m # n => zst'[m] = zst[m]
    BY <1>2, <1>7, NilTypes DEF TypeOK
  <2>2. totalLen' \in Int
    BY <1>2, <1>7 DEF TypeOK
  <2> QED BY <2>1, <2>2, <1>2, <1>5, <1>6, <1>7, Zenon DEF NoZst
<1>8. CASE seg.maxSeq <= batch.last
  <2>1. ASSUME NEW it \in items, Live(it) PROVE FALSE
    <3>1. it.seq \in Nat /\ it.seq <= seg.maxSeq /\ it.seq > batch.last
      BY <2>1, <1>2, <1>3, <1>4, ItemSeq
    <3> QED BY <3>1, <1>2, <1>8, Numbers
  <2>2. ~(seg.maxSeq > batch.last)
    BY <1>2, <1>8, Numbers
  <2> QED BY <2>1, <2>2, <1>7, Zenon DEF AckSegment
<1>9. CASE /\ seg.maxSeq > batch.last /\ seg.minSeq > batch.last
           /\ call' = NextTurn(Append(call.kept, seg))
           /\ UNCHANGED <<zst, totalLen>>
  <2>1. zst' = zst /\ totalLen' = totalLen /\ zst \in [Names -> ZstFile]
        /\ totalLen \in Int /\ (~zst[n].exists => zst[n].items = {})
    BY <1>2, <1>9 DEF TypeOK, FilesInv
  <2>2. Append(call.kept, seg) \in Seq(Segment)
    BY <1>2, <1>6
  <2>3. /\ call'.pos = call.pos + 1 /\ call'.kept = Append(call.kept, seg)
        /\ call' \in CallFrame
    BY <2>2, <1>5, <1>9, Zenon
  <2> QED BY <2>1, <2>2, <2>3, <1>2, <1>3, Zenon
<1>10. CASE /\ seg.maxSeq > batch.last /\ zst[n].exists
            /\ left = {}
            /\ zst' = [zst EXCEPT ![n] = NoZst]
            /\ totalLen' = totalLen - seg.count
            /\ call' = NextTurn(call.kept)
  <2>1. \A it \in items : ~Live(it)
    BY <1>4, <1>10
  <2> QED BY <2>1, <1>7, <1>10, Zenon
<1>11. CASE /\ seg.maxSeq > batch.last /\ zst[n].exists
            /\ zst' = [zst EXCEPT ![n] = [exists |-> TRUE, items |-> left]]
            /\ totalLen' = totalLen - (Cardinality(items) - Cardinality(left))
            /\ call' = NextTurn(Append(call.kept, Meta(n, left)))
  <2>1. left \in SUBSET Item /\ Cardinality(left) \in Nat /\ Cardinality(items) \in Nat
    BY <1>2, ItemsFinite, Zenon
  <2>2. /\ zst' \in [Names -> ZstFile] /\ zst'[n] = [exists |-> TRUE, items |-> left]
        /\ \A m \in Names : m # n => zst'[m] = zst[m]
    <3> HIDE DEF left
    <3>2. zst' = [zst EXCEPT ![n] = [exists |-> TRUE, items |-> left]]
      BY <1>11, Zenon
    <3> QED BY <3>2, <2>1, <1>2 DEF TypeOK, ZstFile
  <2>3. /\ Meta(n, left) \in Segment /\ Meta(n, left).name = n
        /\ \A it \in left : it.seq <= Meta(n, left).maxSeq
    BY <2>1, <1>2, MetaBounds
  <2>5. \A it \in items : Live(it) => it \in left
    BY <1>4
  <2>6. left \subseteq items
    OBVIOUS
  <2> HIDE DEF left, items
  <2>4. totalLen' \in Int
    <3>1. totalLen' = totalLen - (Cardinality(items) - Cardinality(left))
      BY <1>11
    <3> QED BY <3>1, <2>1 DEF TypeOK
  <2>7. Append(call.kept, Meta(n, left)) \in Seq(Segment)
    BY <2>3, <1>6
  <2>8. /\ call'.pos = call.pos + 1 /\ call'.kept = Append(call.kept, Meta(n, left))
        /\ call' \in CallFrame
    BY <2>7, <1>5, <1>11, Zenon
  <2>9. zst'[n].exists /\ zst'[n].items = left /\ zst[n].items = items
    BY <2>2 DEF items
  <2>10. n \in Names /\ zst[n].exists
    BY <1>2, <1>11
  <2> HIDE DEF n, seg
  <2>11. n = sealed[call.pos].name
    BY DEF n, seg
  <2>12. \A it \in zst'[n].items : Live(it) => it.seq <= Meta(n, left).maxSeq
    BY <2>9, <2>3
  <2> QED BY Zenon, <2>2, <2>3, <2>4, <2>5, <2>6, <2>7, <2>8, <2>9, <2>10, <2>11,
             <2>12, Zenon
<1> QED BY <1>8, <1>9, <1>10, <1>11, Zenon DEF AckSegment

\* A turn of Ack's loop removes acknowledged records only.
LEMMA AckSegmentStep == ASSUME IInv, AckSegment PROVE IInv'
<1> USE DEF IInv, history
<1> DEFINE n == sealed[call.pos].name
<1>1. /\ pc = "ack" /\ pc' = "ack" /\ Up /\ Up'
      /\ UNCHANGED <<wal, maxName, pc, nextSeq, active, sealed, batch, history>>
  BY Zenon DEF AckSegment, Up
<1>2. /\ n \in Names
      /\ zst' \in [Names -> ZstFile]
      /\ \A m \in Names : m # n => zst'[m] = zst[m]
      /\ zst'[n].items \subseteq zst[n].items
      /\ zst'[n].exists => zst[n].exists
      /\ ~zst'[n].exists => zst'[n].items = {}
      /\ \A it \in zst[n].items : Live(it) => it \in zst'[n].items
      /\ totalLen' \in Int
      /\ call'.pos = call.pos + 1
      /\ call' \in CallFrame
  BY AckSegmentEffect, Zenon
<1>k. \/ call'.kept = call.kept /\ zst'[n].items = {}
      \/ \E e \in Segment :
           /\ call'.kept = Append(call.kept, e)
           /\ e.name = n
           /\ \A it \in zst'[n].items : Live(it) => it.seq <= e.maxSeq
  BY AckSegmentEffect, Zenon
<1>3. \A x : Live(x)' <=> Live(x)
  BY <1>1 DEF Live
<1>4. call.pos \in DOMAIN sealed /\ call.pos \in Nat /\ ~wal[n].exists
      /\ n <= maxName /\ DOMAIN sealed = 1 .. Len(sealed) /\ Len(sealed) \in Nat
  <2>1. call.pos \in Nat /\ call.pos >= 1 /\ call.pos <= Len(sealed)
    <3>1. pc = "ack" /\ call.pos <= Len(sealed)
      BY Zenon DEF AckSegment
    <3>2. Len(sealed) \in Nat
      BY DEF TypeOK
    <3> QED BY <3>1, <3>2, Numbers DEF KeptInv
  <2>2. call.pos \in DOMAIN sealed
    BY <2>1 DEF TypeOK
  <2> QED BY <2>1, <2>2, <1>1 DEF TypeOK, SealedInv, IndexOK, Up
<1>5. ASSUME NEW m \in Names
      PROVE  /\ zst'[m].items \subseteq zst[m].items
             /\ zst'[m].exists => zst[m].exists
             /\ \A it \in zst[m].items : Live(it) => it \in zst'[m].items
             /\ Here(m)' \subseteq Here(m)
             /\ \A it \in Here(m) : Live(it) => it \in Here(m)'
  <2>1. /\ zst'[m].items \subseteq zst[m].items
        /\ zst'[m].exists => zst[m].exists
        /\ \A it \in zst[m].items : Live(it) => it \in zst'[m].items
    BY <1>2, Zenon
  <2> QED BY <2>1, <1>1, Zenon DEF Here
<1>6. TypeOK'
  BY <1>1, <1>2, Zenon DEF TypeOK
<1>7. FilesInv'
  <2>1. ASSUME NEW m \in Names PROVE
          /\ wal'[m] = wal[m]
          /\ ~zst'[m].exists => zst'[m].items = {}
          /\ wal[m].exists => zst'[m] = zst[m]
    BY <1>1, <1>2, <1>4, Zenon DEF FilesInv
  <2> QED BY <2>1, <1>1, <1>3, <1>5, Zenon DEF FilesInv
<1>8. ActiveInv'
  <2>1. ASSUME active.name # 0 PROVE active.name \in Names /\ active.name # n
    BY <2>1, <1>4 DEF ActiveInv, TypeOK, ActiveSegment, Names
  <2> QED BY <2>1, <1>1, <1>2, <1>3, Zenon DEF ActiveInv, NilActive
<1>9. OrderInv' /\ DurableInv'
  BY <1>1, <1>5 DEF OrderInv, DurableInv, Live
<1>10. SeqInv'
  BY <1>1, <1>5 DEF SeqInv
<1>11. SealedInv'
  <2>1. \A i \in DOMAIN sealed : sealed[i].name \in Names
    BY SegmentOf, Zenon DEF TypeOK
  <2> QED BY <2>1, <1>1, <1>3, <1>5 DEF SealedInv, IndexOK
<1>12. KeptInv'
  <2>0. /\ call.kept \in Seq(Segment)
        /\ \A i \in DOMAIN call.kept : call.kept[i].name \in Names
    BY SegmentOf, Zenon DEF TypeOK, CallFrame
  <2>1. call'.pos \in 1 .. Len(sealed) + 1
    <3>1. call'.pos = call.pos + 1
      BY <1>2
    <3> QED BY <3>1, <1>4
  <2>2. \A i \in DOMAIN call.kept : call.kept[i].name <= n
    BY <1>1, <1>4 DEF KeptInv
  <2>3. \A j \in DOMAIN sealed : j >= call'.pos => j >= call.pos /\ n <= sealed[j].name
    <3> SUFFICES ASSUME NEW j \in DOMAIN sealed, j >= call'.pos
                 PROVE  j >= call.pos /\ n <= sealed[j].name
      BY Zenon
    <3>1. j \in Nat /\ call.pos < j
      <4>1. j >= call.pos + 1
        BY <1>2, Zenon
      <4> QED BY <4>1, <1>4
    <3>2. sealed[call.pos].name <= sealed[j].name
      BY <3>1, <1>4 DEF SealedInv, IndexOK
    <3> QED BY <3>1, <3>2, <1>4
  <2>6. ASSUME NEW m \in Names, m # n, NEW it \in zst[m].items, Live(it)
        PROVE  \/ wal[m].exists
               \/ \E i \in DOMAIN call.kept : call.kept[i].name = m
               \/ \E j \in DOMAIN sealed : j >= call'.pos /\ sealed[j].name = m
    <3>1. ASSUME NEW j \in DOMAIN sealed, j >= call.pos, sealed[j].name = m
          PROVE  j >= call'.pos
      <4>1. j \in Nat /\ j # call.pos
        BY <2>6, <3>1, <1>4
      <4> QED BY <4>1, <3>1, <1>2, <1>4, SMTT(20)
    <3> QED BY <3>1, <2>6, <1>1, Zenon DEF KeptInv
  <2>4. CASE call'.kept = call.kept /\ zst'[n].items = {}
    <3>1. IndexOK(call.kept)'
      BY <2>0, <2>4, <1>1, <1>3, <1>5 DEF KeptInv, IndexOK
    <3>2. ASSUME NEW m \in Names, NEW it \in zst'[m].items, Live(it)'
          PROVE  \/ wal[m].exists
                 \/ \E i \in DOMAIN call.kept : call.kept[i].name = m
                 \/ \E j \in DOMAIN sealed : j >= call'.pos /\ sealed[j].name = m
      <4>1. m # n
        BY <2>4, <3>2
      <4>2. it \in zst[m].items /\ Live(it)
        BY <3>2, <1>3, <1>5, Zenon
      <4> QED BY <4>1, <4>2, <2>6
    <3>3. \A i \in DOMAIN call.kept, j \in DOMAIN sealed :
            j >= call'.pos => call.kept[i].name <= sealed[j].name
      BY <2>3, <1>1, Zenon DEF KeptInv
    <3>4. sealed' = sealed /\ wal' = wal /\ call'.kept = call.kept
      BY <2>4, <1>1, Zenon
    <3> HIDE DEF IInv
    <3> QED BY <2>1, <2>4, <3>1, <3>2, <3>3, <3>4, SMTT(20) DEF KeptInv
  <2>5. CASE \E e \in Segment :
              /\ call'.kept = Append(call.kept, e)
              /\ e.name = n
              /\ \A it \in zst'[n].items : Live(it) => it.seq <= e.maxSeq
    <3>1. PICK e \in Segment :
              /\ call'.kept = Append(call.kept, e)
              /\ e.name = n
              /\ \A it \in zst'[n].items : Live(it) => it.seq <= e.maxSeq
      BY <2>5, Zenon
    <3> DEFINE k == call'.kept
    <3>2. /\ \A i, j \in DOMAIN k : i < j => k[i].name <= k[j].name
          /\ \A i \in DOMAIN k :
               k[i] = e \/ (i \in DOMAIN call.kept /\ k[i] = call.kept[i])
          /\ \E i \in DOMAIN k : k[i] = e
          /\ \A i \in DOMAIN call.kept : i \in DOMAIN k /\ k[i] = call.kept[i]
      <4>1. \A i, j \in DOMAIN call.kept :
              i < j => call.kept[i].name <= call.kept[j].name
        BY <1>1 DEF KeptInv, IndexOK
      <4> QED BY <4>1, <2>0, <2>2, <3>1, IndexAppend
    <3> HIDE DEF k
    <3>3. IndexOK(call.kept)'
      <4> SUFFICES ASSUME NEW i \in DOMAIN k
                   PROVE  /\ k[i].name <= maxName /\ ~wal[k[i].name].exists
                          /\ \A it \in zst'[k[i].name].items :
                               Live(it) => it.seq <= k[i].maxSeq
        BY <1>1, <1>3, <3>2 DEF IndexOK, k
      <4>1. CASE k[i] = e
        BY <4>1, <3>1, <1>4, Zenon
      <4>2. CASE i \in DOMAIN call.kept /\ k[i] = call.kept[i]
        BY <4>2, <2>0, <1>1, <1>5, Zenon DEF KeptInv, IndexOK
      <4> QED BY <4>1, <4>2, <3>2, Zenon
    <3>4. ASSUME NEW i \in DOMAIN k, NEW j \in DOMAIN sealed, j >= call'.pos
          PROVE  k[i].name <= sealed[j].name
      BY <2>3, <3>1, <3>2, <3>4, <1>1, Zenon DEF KeptInv
    <3>5. ASSUME NEW m \in Names, NEW it \in zst'[m].items, Live(it)'
          PROVE  \/ wal[m].exists
                 \/ \E i \in DOMAIN k : k[i].name = m
                 \/ \E j \in DOMAIN sealed : j >= call'.pos /\ sealed[j].name = m
      <4>1. CASE m = n
        BY <4>1, <3>1, <3>2
      <4>2. CASE m # n
        <5>1. it \in zst[m].items /\ Live(it)
          BY <3>5, <1>3, <1>5, Zenon
        <5> QED BY <5>1, <4>2, <3>2, <2>6, Zenon
      <4> QED BY <4>1, <4>2, Zenon
    <3> QED BY <2>1, <3>3, <3>4, <3>5, <1>1, Zenon DEF KeptInv, k
  <2> QED BY <2>4, <2>5, <1>k, Zenon
<1>13. BatchInv'
  BY <1>1, <1>3, <1>5 DEF BatchInv
<1> QED BY <1>6, <1>7, <1>8, <1>9, <1>10, <1>11, <1>12, <1>13

-----------------------------------------------------------------------------
(* Ack and rewrite on the active segment. *)

\* What the tail of Ack does to the active segment and its file.
LEMMA AckActiveEffect ==
  ASSUME IInv, AckActive
  PROVE  \E left \in SUBSET active.items :
         /\ \A it \in active.items : Live(it) => it \in left
         /\ active' = [name |-> active.name, open |-> active.open, items |-> left]
         /\ \/ /\ pc' = "idle" /\ call' = NoCall /\ batch' = NoBatch
               /\ wal' = wal
            \/ /\ pc' = "rewrite" /\ call' \in CallFrame /\ batch' = batch
               /\ active.open
               /\ wal' = [wal EXCEPT ![active.name] = EmptyWal]
<1> USE DEF IInv
<1> DEFINE left == {it \in active.items : it.seq > batch.last}
<1>1. pc = "ack" /\ batch.stage = "sent"
  BY DEF AckActive, BatchInv
<1>2. left \in SUBSET active.items /\ active.items \in SUBSET Item
  BY DEF TypeOK, ActiveSegment
<1>3. ASSUME NEW it \in active.items, Live(it) PROVE it \in left
  <2>1. active.name # 0
    BY <1>3 DEF ActiveInv, NilActive
  <2>2. active.name \in Names /\ it \in Here(active.name) /\ it.seq \in Nat
    BY <2>1, <1>2, ItemSeq DEF TypeOK, ActiveSegment, Names, Here
  <2>3. ~(it.seq <= batch.last)
    BY <2>2, <1>1, <1>3 DEF BatchInv, Live
  <2> QED BY <2>2, <2>3, Numbers
<1>4. active = [name |-> active.name, open |-> active.open, items |-> active.items]
  BY DEF TypeOK, ActiveSegment
<1>5. ASSUME NEW S
      PROVE  [active EXCEPT !.items = S]
               = [name |-> active.name, open |-> active.open, items |-> S]
  BY DEF TypeOK, ActiveSegment
<1>7. ASSUME NEW k \in Nat PROVE InRewrite(k, "idle") \in CallFrame
  BY <1>7 DEF InRewrite, CallFrame
<1>8. Cardinality(active.items \ left) \in Nat
  BY <1>2, ItemsFinite
<1>9. CASE left = active.items
  <2>1. pc' = "idle" /\ call' = NoCall /\ batch' = NoBatch /\ wal' = wal
        /\ active' = active
    BY <1>9 DEF AckActive
  <2> HIDE DEF left
  <2> QED BY <2>1, <1>2, <1>3, <1>4, <1>9
<1>10. CASE left # active.items /\ active.open
  <2>1. /\ pc' = "rewrite" /\ batch' = batch
        /\ active' = [active EXCEPT !.items = left]
        /\ call' = InRewrite(Cardinality(active.items \ left), "idle")
        /\ wal' = [wal EXCEPT ![active.name] = EmptyWal]
    BY <1>10 DEF AckActive
  <2> HIDE DEF left
  <2> QED BY <2>1, <1>2, <1>3, <1>5, <1>7, <1>8, <1>10
<1>11. CASE left # active.items /\ ~active.open
  <2>1. /\ pc' = "idle" /\ call' = NoCall /\ batch' = NoBatch /\ wal' = wal
        /\ active' = [active EXCEPT !.items = left]
    BY <1>11 DEF AckActive
  <2> HIDE DEF left
  <2> QED BY <2>1, <1>2, <1>3, <1>5
<1> QED BY <1>9, <1>10, <1>11

\* The tail of Ack installs an index that still covers the live records.
LEMMA AckActiveStep == ASSUME IInv, AckActive PROVE IInv'
<1> USE DEF IInv, history
<1> DEFINE a == active.name
<1>1. /\ pc = "ack" /\ sealed' = call.kept /\ call.pos > Len(sealed)
      /\ UNCHANGED <<zst, maxName, nextSeq, totalLen, history>>
  BY DEF AckActive
<1>2. PICK left \in SUBSET active.items :
         /\ \A it \in active.items : Live(it) => it \in left
         /\ active' = [name |-> active.name, open |-> active.open, items |-> left]
         /\ \/ /\ pc' = "idle" /\ call' = NoCall /\ batch' = NoBatch
               /\ wal' = wal
            \/ /\ pc' = "rewrite" /\ call' \in CallFrame /\ batch' = batch
               /\ active.open
               /\ wal' = [wal EXCEPT ![active.name] = EmptyWal]
  BY AckActiveEffect
<1>3. Up /\ Up' /\ \A x : Live(x)' <=> Live(x)
  BY <1>1, <1>2 DEF Up, Live
<1>4. /\ active'.name = a /\ active'.open = active.open /\ active'.items = left
      /\ active.open => a \in Names /\ ~zst[a].exists
      /\ a # 0 => a \in Names
  BY <1>2 DEF ActiveInv, TypeOK, ActiveSegment, Names
<1>5. ASSUME NEW m \in Names
      PROVE  /\ wal'[m].exists = wal[m].exists
             /\ wal'[m] = wal[m] \/ (m = a /\ active.open /\ pc' = "rewrite"
                  /\ wal'[m] = EmptyWal)
             /\ wal'[m].items \subseteq wal[m].items
             /\ wal'[m].torn = 0
  <2>1. active.open => wal[a].exists = TRUE
    BY <1>4 DEF ActiveInv, TypeOK, WalFile
  <2>2. wal'[m] = wal[m] \/ (m = a /\ active.open /\ pc' = "rewrite"
                  /\ wal'[m] = EmptyWal)
    BY <1>2 DEF TypeOK
  <2>3. CASE wal'[m] = wal[m]
    BY <2>3 DEF FilesInv
  <2>4. CASE m = a /\ active.open /\ pc' = "rewrite" /\ wal'[m] = EmptyWal
    <3>1. wal'[m].exists = TRUE /\ wal'[m].items = {} /\ wal'[m].torn = 0
      BY <2>4 DEF EmptyWal
    <3> QED BY <3>1, <2>1, <2>4, Zenon
  <2> QED BY <2>2, <2>3, <2>4
<1>6. ASSUME NEW m \in Names
      PROVE  /\ Here(m)' \subseteq Here(m)
             /\ \A it \in Here(m) : Live(it) => it \in Here(m)'
  <2>1. Here(m)' \subseteq Here(m)
    BY <1>1, <1>4, <1>5 DEF Here
  <2>2. ASSUME NEW it \in Here(m), Live(it) PROVE it \in Here(m)'
    <3>1. CASE it \in zst[m].items
      BY <3>1, <1>1 DEF Here
    <3>2. CASE m = a /\ (it \in wal[m].items \/ it \in active.items)
      <4>1. it \in active.items
        BY <3>2, <2>2, <1>4, Numbers DEF ActiveInv
      <4> QED BY <4>1, <3>2, <2>2, <1>2, <1>4 DEF Here
    <3>3. CASE m # a /\ it \in wal[m].items
      BY <3>3, <1>5 DEF Here
    <3> QED BY <2>2, <3>1, <3>2, <3>3 DEF Here
  <2> QED BY <2>1, <2>2
<1>7. TypeOK'
  <2>1. wal' \in [Names -> WalFile]
    <3>1. EmptyWal \in WalFile
      BY BoundsAssumption DEF WalFile, EmptyWal
    <3> QED BY <3>1, <1>2 DEF TypeOK
  <2>2. active' \in ActiveSegment
    BY <1>2 DEF TypeOK, ActiveSegment
  <2>3. pc' \in Control /\ call' \in CallFrame /\ batch' \in BatchState
        /\ sealed' \in Seq(Segment)
    BY <1>1, <1>2, NilTypes DEF TypeOK, Control, CallFrame
  <2> QED BY <2>1, <2>2, <2>3, <1>1 DEF TypeOK
<1>8. FilesInv'
  <2> SUFFICES ASSUME NEW n \in Names
               PROVE  /\ wal'[n].torn = 0
                      /\ ~wal'[n].exists => wal'[n].items = {}
                      /\ ~zst[n].exists => zst[n].items = {}
                      /\ wal'[n].exists => n = maxName
                      /\ zst[n].exists => n <= maxName
                      /\ wal'[n].exists /\ zst[n].exists =>
                           /\ zst[n].items \subseteq wal'[n].items
                           /\ \A it \in wal'[n].items : Live(it) => it \in zst[n].items
    BY <1>1, <1>3 DEF FilesInv
  <2>1. zst[n].exists => wal'[n] = wal[n]
    BY <1>4, <1>5
  <2> QED BY <2>1, <1>5 DEF FilesInv
<1>9. ActiveInv'
  <2>1. a = 0 => active' = NilActive
    <3>1. ASSUME a = 0 PROVE left = {} /\ active.open = FALSE
      <4>1. active = NilActive
        BY <3>1, Zenon DEF ActiveInv
      <4> QED BY <4>1 DEF NilActive
    <3> QED BY <3>1, <1>2, Zenon DEF NilActive
  <2>2. ASSUME a # 0
        PROVE  /\ a = maxName /\ wal'[a].exists
               /\ \A it \in wal'[a].items : Live(it) => it \in left
               /\ pc' # "rewrite" => left \subseteq wal'[a].items
    BY <2>2, <1>1, <1>2, <1>4, <1>5 DEF ActiveInv
  <2>3. \A n \in Names : wal'[n].exists => a = n
    BY <1>3, <1>5 DEF ActiveInv
  <2>4. pc' = "rewrite" => active.open /\ wal'[a].items = {}
    BY <1>2, <1>4 DEF TypeOK, EmptyWal
  <2>5. pc' # "seal" /\ pc' # "unlink" /\ pc' # "orphan"
    BY <1>2
  <2> QED BY <2>1, <2>2, <2>3, <2>4, <2>5, <1>1, <1>3, <1>4 DEF ActiveInv
<1>10. OrderInv' /\ DurableInv'
  BY <1>1, <1>6 DEF OrderInv, DurableInv, Live
<1>11. SeqInv'
  BY <1>1, <1>3, <1>6 DEF SeqInv
<1>12. SealedInv'
  <2>1. IndexOK(call.kept)
    BY <1>1 DEF KeptInv
  <2>2. \A i \in DOMAIN call.kept : call.kept[i].name \in Names
    BY SegmentOf, Zenon DEF TypeOK, CallFrame
  <2>3. IndexOK(sealed)'
    BY <2>1, <2>2, <1>1, <1>3, <1>5 DEF IndexOK
  <2>4. ASSUME NEW n \in Names, NEW it \in zst[n].items, Live(it)
        PROVE  wal[n].exists \/ \E i \in DOMAIN call.kept : call.kept[i].name = n
    <3>1. \A j \in DOMAIN sealed : ~(j >= call.pos)
      <4>1. Len(sealed) \in Nat /\ DOMAIN sealed = 1 .. Len(sealed)
        BY DEF TypeOK
      <4> QED BY <4>1, <1>1, Numbers
    <3> QED BY <3>1, <2>4, <1>1 DEF KeptInv
  <2> QED BY <2>3, <2>4, <1>1, <1>3, <1>5 DEF SealedInv
<1>13. KeptInv'
  BY <1>2 DEF KeptInv
<1>14. BatchInv'
  <2>1. CASE batch' = NoBatch
    BY <2>1, <1>2 DEF BatchInv, NoBatch
  <2>2. CASE batch' = batch
    BY <2>2, <1>1, <1>2, <1>3, <1>6, Zenon DEF BatchInv
  <2> QED BY <2>1, <2>2, <1>2
<1> QED BY <1>7, <1>8, <1>9, <1>10, <1>11, <1>12, <1>13, <1>14

\* rewrite puts the active items back into their file.
LEMMA RewriteWriteStep == ASSUME IInv, RewriteWrite PROVE IInv'
<1> USE DEF IInv, history
<1> DEFINE a == active.name
<1>1. /\ pc = "rewrite" /\ pc' \in {"idle", "enforce"} /\ a # 0 /\ a \in Names
      /\ active.open /\ wal[a].exists /\ wal[a].items = {}
      /\ active.items \in SUBSET Item
      /\ call' = NoCall /\ totalLen' \in Int /\ (batch' = batch \/ batch' = NoBatch)
      /\ UNCHANGED <<zst, maxName, nextSeq, active, sealed, history>>
  BY DEF RewriteWrite, ActiveInv, TypeOK, ActiveSegment, CallFrame, Names
<1>2. \A m \in Names :
        wal'[m] = IF m = a THEN [exists |-> TRUE, items |-> active.items,
                                 torn |-> wal[a].torn]
                           ELSE wal[m]
  <2>1. wal'[a] = [wal[a] EXCEPT !.items = active.items]
        /\ \A m \in Names : m # a => wal'[m] = wal[m]
    BY <1>1 DEF RewriteWrite, TypeOK
  <2>2. wal[a] \in WalFile
    BY <1>1 DEF TypeOK
  <2> QED BY <2>1, <2>2, <1>1, Zenon DEF WalFile
<1>3. \A m \in Names : Here(m)' = Here(m)
  BY <1>1, <1>2 DEF Here
<1>4. \A x : Live(x)' <=> Live(x)
  BY <1>1 DEF Live
<1>5. TypeOK'
  <2>1. wal' \in [Names -> WalFile]
    <3>1. wal' = [wal EXCEPT ![a].items = active.items]
      BY <1>1, Zenon DEF RewriteWrite
    <3> QED BY <3>1, <1>1, Zenon DEF TypeOK, WalFile
  <2> QED BY <2>1, <1>1, NilTypes DEF TypeOK, Control
<1>6. FilesInv'
  <2>1. \A n \in Names : n # a => wal'[n] = wal[n]
    BY <1>2
  <2>2. a = maxName /\ ~zst[a].exists
    BY <1>1, Zenon DEF ActiveInv
  <2>3. wal[a].torn = 0
    BY <1>1, Zenon DEF FilesInv
  <2>4. wal'[a].torn = 0 /\ wal'[a].exists
    BY <1>1, <1>2, <2>3
  <2> QED BY <2>1, <2>2, <2>4, <1>1, <1>4 DEF FilesInv
<1>7. ActiveInv'
  <2>1. /\ a = maxName /\ ~zst[a].exists
        /\ \A n \in Names : wal[n].exists => a = n
    BY <1>1 DEF ActiveInv, Up
  <2>2. /\ wal'[a].exists /\ wal'[a].items = active.items
        /\ \A n \in Names : wal'[n].exists => a = n
    BY <1>1, <1>2, <2>1
  <2> QED BY <2>1, <2>2, <1>1, <1>4 DEF ActiveInv, Up
<1>8. OrderInv' /\ SeqInv' /\ DurableInv'
  <2>1. OrderInv' /\ DurableInv'
    BY <1>1, <1>3 DEF OrderInv, DurableInv
  <2>2. \A n \in Names : wal'[n].exists <=> wal[n].exists
    BY <1>1, <1>2
  <2> QED BY <2>1, <2>2, <1>1, <1>3 DEF SeqInv, Up
<1>9. SealedInv'
  <2>1. \A m \in Names : wal'[m].exists <=> wal[m].exists
    BY <1>1, <1>2
  <2>2. \A i \in DOMAIN sealed : sealed[i].name \in Names
    BY SegmentOf, Zenon DEF TypeOK
  <2> QED BY <2>1, <2>2, <1>1, <1>4 DEF SealedInv, IndexOK, Up
<1>10. KeptInv'
  BY <1>1, Zenon DEF KeptInv
<1>11. BatchInv'
  <2>1. Up /\ Up' /\ pc' # "ack" /\ nextSeq' = nextSeq /\ confirmed' = confirmed
    BY <1>1 DEF Up
  <2>2. CASE batch' = batch
    BY <2>1, <2>2, <1>3, <1>4 DEF BatchInv
  <2>3. CASE batch' = NoBatch
    BY <2>1, <2>3 DEF BatchInv, NoBatch
  <2> QED BY <2>2, <2>3, <1>1
<1> QED BY <1>5, <1>6, <1>7, <1>8, <1>9, <1>10, <1>11

-----------------------------------------------------------------------------
(* The index and the count. *)

\* An entry that describes its file exactly.
Exact(s) == zst[s.name].exists /\ s = Meta(s.name, zst[s.name].items)

\* An entry Ack has not reached whose file it removed when it met another
\* entry of the same name (recovery can index a file twice).
Removed(s) == ~zst[s.name].exists /\ s.maxSeq <= batch.last

\* The same of a file it rewrote.
Trimmed(s) ==
  /\ zst[s.name].exists
  /\ zst[s.name].items # {}
  /\ \A it \in zst[s.name].items : it.seq > batch.last
  /\ Cardinality(zst[s.name].items) <= s.count
  /\ s.minSeq <= batch.last
  /\ s.maxSeq > batch.last

\* Both copies of a segment say the same.
CopiesInv ==
  /\ \A n \in Names : wal[n].exists /\ zst[n].exists => zst[n].items = wal[n].items
  /\ active.open /\ pc # "rewrite" => wal[active.name].items = active.items

\* The call frame is empty between calls.
FrameInv ==
  /\ pc # "enforce"
  /\ pc \notin {"ack", "rewrite"} => call = NoCall
  /\ pc = "rewrite" => call.pos = 0 /\ call.kept = <<>> /\ call.then = "idle"
  /\ pc = "ack" => call.removed = 0

\* The index is exact, except behind Ack's back.
ExactInv ==
  /\ pc # "ack" => \A i \in DOMAIN sealed : Exact(sealed[i])
  /\ pc = "ack" =>
       /\ \A k \in DOMAIN call.kept :
            Exact(call.kept[k]) /\ call.kept[k].minSeq > batch.last
       /\ \A j \in DOMAIN sealed : j >= call.pos =>
            /\ Exact(sealed[j]) \/ Removed(sealed[j]) \/ Trimmed(sealed[j])
            /\ \A k \in DOMAIN call.kept :
                 call.kept[k].name = sealed[j].name => sealed[j].maxSeq > batch.last

\* One slot per record the entries of segs from position from on stand for.
Slots(segs, from) ==
  UNION {{i} \X (1 .. segs[i].count) : i \in {i \in DOMAIN segs : i >= from}}

\* Len never falls below what the index and the active segment stand for.
LenInv ==
  totalLen >= Cardinality(Slots(call.kept, 0)) + Cardinality(Slots(sealed, call.pos))
                + Cardinality(active.items) + call.removed

IndexInv == CopiesInv /\ FrameInv /\ ExactInv /\ LenInv

-----------------------------------------------------------------------------
(* Counting slots. *)

\* A slot is a position of the index and a number up to its count.
LEMMA SlotOf ==
  ASSUME NEW segs, NEW from, NEW u
  PROVE  u \in Slots(segs, from) <=>
           \E i \in DOMAIN segs : i >= from /\ u \in {i} \X (1 .. segs[i].count)
<1> DEFINE D == {i \in DOMAIN segs : i >= from}
<1>1. u \in Slots(segs, from) <=> \E i \in D : u \in {i} \X (1 .. segs[i].count)
  BY Zenon DEF Slots
<1> QED BY <1>1, Zenon

\* One entry stands for as many slots as its count says.
LEMMA ColumnSize ==
  ASSUME NEW i, NEW c \in Nat
  PROVE  IsFiniteSet({i} \X (1 .. c)) /\ Cardinality({i} \X (1 .. c)) = c
<1>1. IsFiniteSet({i}) /\ Cardinality({i}) = 1
  BY FS_Singleton, Zenon
<1>2. IsFiniteSet(1 .. c) /\ Cardinality(1 .. c) = c
  <2>1. 1 \in Int /\ c \in Int
    OBVIOUS
  <2>2. IsFiniteSet(1 .. c)
    BY <2>1, FS_Interval, Zenon
  <2>3. Cardinality(1 .. c) = IF 1 > c THEN 0 ELSE c - 1 + 1
    BY <2>1, FS_Interval, Zenon
  <2> QED BY <2>2, <2>3
<1>3. /\ IsFiniteSet({i} \X (1 .. c))
      /\ Cardinality({i} \X (1 .. c)) = Cardinality({i}) * Cardinality(1 .. c)
  BY <1>1, <1>2, FS_Product, Zenon
<1> QED BY <1>1, <1>2, <1>3

\* An index has finitely many slots.
LEMMA SlotsFinite ==
  ASSUME NEW segs \in Seq(Segment), NEW from
  PROVE  IsFiniteSet(Slots(segs, from)) /\ Cardinality(Slots(segs, from)) \in Nat
<1> DEFINE D == {i \in DOMAIN segs : i >= from}
           C == {{i} \X (1 .. segs[i].count) : i \in D}
           f == [i \in D |-> {i} \X (1 .. segs[i].count)]
<1>1. IsFiniteSet(D)
  <2>1. 1 \in Int /\ Len(segs) \in Int /\ D \in SUBSET (1 .. Len(segs))
    OBVIOUS
  <2> QED BY <2>1, FS_Interval, FS_Subset, Zenon
<1>2. f \in Surjection(D, C)
  BY Zenon DEF Surjection
<1>3. IsFiniteSet(C)
  BY <1>1, <1>2, FS_Surjection, Zenon
<1>4. ASSUME NEW T \in C PROVE IsFiniteSet(T)
  <2>1. PICK i \in D : T = {i} \X (1 .. segs[i].count)
    OBVIOUS
  <2>2. segs[i].count \in Nat
    BY SegmentOf DEF Segment
  <2> QED BY <2>1, <2>2, ColumnSize, Zenon
<1>5. IsFiniteSet(UNION C)
  BY <1>3, <1>4, FS_UNION, Zenon
<1> QED BY <1>5, FS_CardinalityType, Zenon DEF Slots

\* Two disjoint finite sets of slots count together.
LEMMA SlotsAdd ==
  ASSUME NEW S, NEW T, IsFiniteSet(S), IsFiniteSet(T), S \cap T = {}
  PROVE  Cardinality(S \cup T) = Cardinality(S) + Cardinality(T)
<1>1. Cardinality(S \cup T) = Cardinality(S) + Cardinality(T) - Cardinality(S \cap T)
  BY FS_Union, Zenon
<1>2. Cardinality(S \cap T) = 0 /\ Cardinality(S) \in Nat /\ Cardinality(T) \in Nat
  BY FS_EmptySet, FS_CardinalityType
<1> QED BY <1>1, <1>2

\* Appending an entry adds its count.
LEMMA SlotsAppend ==
  ASSUME NEW segs \in Seq(Segment), NEW e \in Segment
  PROVE  Cardinality(Slots(Append(segs, e), 0)) = Cardinality(Slots(segs, 0)) + e.count
<1> DEFINE s == Append(segs, e)
           k == Len(segs) + 1
           col == {k} \X (1 .. e.count)
<1>1. /\ Len(segs) \in Nat /\ DOMAIN s = 1 .. k /\ DOMAIN segs = 1 .. Len(segs)
      /\ s[k] = e /\ \A i \in DOMAIN segs : s[i] = segs[i]
  OBVIOUS
<1>2. e.count \in Nat
  BY DEF Segment
<1> HIDE DEF s
<1>3. ASSUME NEW u PROVE u \in Slots(s, 0) <=> u \in Slots(segs, 0) \cup col
  <2>1. ASSUME NEW i \in DOMAIN s
        PROVE  i >= 0 /\ (i = k \/ (i \in DOMAIN segs /\ s[i] = segs[i]))
    BY <1>1
  <2>2. k \in DOMAIN s /\ k >= 0 /\ \A i \in DOMAIN segs : i \in DOMAIN s /\ i >= 0
    BY <1>1
  <2>3. u \in Slots(s, 0) <=> \E i \in DOMAIN s : u \in {i} \X (1 .. s[i].count)
    BY <2>1, SlotOf, Zenon
  <2>4. u \in Slots(segs, 0) <=> \E i \in DOMAIN segs : u \in {i} \X (1 .. segs[i].count)
    BY <2>2, SlotOf, Zenon
  <2> HIDE DEF k
  <2> QED BY <2>1, <2>2, <2>3, <2>4, <1>1, Zenon
<1>4. Slots(s, 0) = Slots(segs, 0) \cup col
  BY <1>3, Zenon
<1>5. Slots(segs, 0) \cap col = {}
  <2> SUFFICES ASSUME NEW u \in Slots(segs, 0), u \in col PROVE FALSE
    BY Zenon
  <2>1. PICK i \in DOMAIN segs : u \in {i} \X (1 .. segs[i].count)
    BY SlotOf, Zenon
  <2>2. i = u[1] /\ k = u[1]
    BY <2>1
  <2> QED BY <2>2, <1>1
<1>6. IsFiniteSet(col) /\ Cardinality(col) = e.count
  BY <1>2, ColumnSize, Zenon
<1>7. IsFiniteSet(Slots(segs, 0))
  BY SlotsFinite
<1> QED BY <1>4, <1>5, <1>6, <1>7, SlotsAdd, Zenon DEF s

\* Moving past an entry takes its count off.
LEMMA SlotsNext ==
  ASSUME NEW segs \in Seq(Segment), NEW p \in DOMAIN segs
  PROVE  Cardinality(Slots(segs, p)) = segs[p].count + Cardinality(Slots(segs, p + 1))
<1> DEFINE col == {p} \X (1 .. segs[p].count)
<1>1. p \in Nat /\ \A i \in DOMAIN segs : i \in Nat
  OBVIOUS
<1>2. segs[p].count \in Nat
  BY SegmentOf DEF Segment
<1>3. ASSUME NEW u PROVE u \in Slots(segs, p) <=> u \in col \cup Slots(segs, p + 1)
  <2>1. \A i \in DOMAIN segs : i >= p <=> (i = p \/ i >= p + 1)
    BY <1>1
  <2>2. u \in Slots(segs, p) <=>
          \E i \in DOMAIN segs : i >= p /\ u \in {i} \X (1 .. segs[i].count)
    BY SlotOf, Zenon
  <2>3. u \in Slots(segs, p + 1) <=>
          \E i \in DOMAIN segs : i >= p + 1 /\ u \in {i} \X (1 .. segs[i].count)
    BY SlotOf, Zenon
  <2> QED BY <2>1, <2>2, <2>3, Zenon
<1>4. Slots(segs, p) = col \cup Slots(segs, p + 1)
  BY <1>3, Zenon
<1>5. col \cap Slots(segs, p + 1) = {}
  <2> SUFFICES ASSUME NEW u \in Slots(segs, p + 1), u \in col PROVE FALSE
    BY Zenon
  <2>1. PICK i \in DOMAIN segs : i >= p + 1 /\ u \in {i} \X (1 .. segs[i].count)
    BY SlotOf, Zenon
  <2>2. i = u[1] /\ p = u[1]
    BY <2>1
  <2> QED BY <2>1, <2>2, <1>1
<1>6. IsFiniteSet(col) /\ Cardinality(col) = segs[p].count
  BY <1>2, ColumnSize, Zenon
<1>7. IsFiniteSet(Slots(segs, p + 1))
  BY SlotsFinite
<1> QED BY <1>4, <1>5, <1>6, <1>7, SlotsAdd, Zenon

\* Where the walk over an index starts and ends.
LEMMA SlotsEnds ==
  ASSUME NEW segs \in Seq(Segment), NEW p \in Nat
  PROVE  /\ Slots(segs, 1) = Slots(segs, 0)
         /\ p > Len(segs) => Cardinality(Slots(segs, p)) = 0
         /\ Cardinality(Slots(<<>>, p)) = 0
<1>1. /\ {i \in DOMAIN segs : i >= 1} = {i \in DOMAIN segs : i >= 0}
      /\ p > Len(segs) => {i \in DOMAIN segs : i >= p} = {}
      /\ {i \in DOMAIN <<>> : i >= p} = {}
  OBVIOUS
<1>2. Slots(segs, 1) = Slots(segs, 0)
  BY <1>1 DEF Slots
<1>3. p > Len(segs) => Slots(segs, p) = {}
  BY <1>1 DEF Slots
<1>4. Slots(<<>>, p) = {}
  BY <1>1 DEF Slots
<1> QED BY <1>2, <1>3, <1>4, FS_EmptySet

\* What the metadata of a segment says of its records.
LEMMA MetaSays ==
  ASSUME NEW n \in Names, NEW items \in SUBSET Item, NEW last \in Nat
  PROVE  /\ Meta(n, items).count = Cardinality(items)
         /\ Meta(n, items).maxSeq > last <=> \E it \in items : it.seq > last
         /\ Meta(n, items).minSeq > last <=>
              items # {} /\ \A it \in items : it.seq > last
<1> DEFINE S == Seqs(items)
<1>1. S \in SUBSET Nat /\ \A x \in S : x <= MaxAppends
  BY BoundsAssumption DEF Seqs, Item, Ids
<1>2. CASE items = {}
  BY <1>2 DEF Meta
<1>3. CASE items # {}
  <2>1. S # {}
    BY <1>3, Zenon DEF Seqs
  <2>2. Max(S) \in S /\ \A x \in S : x <= Max(S)
    BY <1>1, <2>1, MaxOfBounded, BoundsAssumption, Zenon
  <2>3. Min(S) \in S /\ \A x \in S : Min(S) <= x
    BY <1>1, <2>1, MinOfNaturals, BoundsAssumption, Zenon
  <2>4. /\ \A it \in items : it.seq \in S /\ it.seq \in Nat
        /\ \A x \in S : \E it \in items : it.seq = x
    BY ItemSeq DEF Seqs
  <2> HIDE DEF S
  <2>5. /\ Meta(n, items).count = Cardinality(items)
        /\ Meta(n, items).minSeq = Min(S) /\ Meta(n, items).maxSeq = Max(S)
    BY <1>3 DEF Meta, S
  <2>6. PICK lo \in Nat, hi \in Nat : lo = Min(S) /\ hi = Max(S)
    BY <2>2, <2>3, <1>1, Zenon
  <2>7. hi > last <=> \E it \in items : it.seq > last
    BY <2>2, <2>4, <2>6
  <2>8. lo > last <=> \A it \in items : it.seq > last
    BY <2>3, <2>4, <2>6
  <2> QED BY <2>5, <2>6, <2>7, <2>8, <1>3, Zenon
<1> QED BY <1>2, <1>3

\* recover's count covers the index it makes.
LEMMA OpenCount ==
  ASSUME TypeOK, Open
  PROVE  Cardinality(Slots(sealed', 0)) <= totalLen'
<1>1. SealedNames \in SUBSET Names
  BY DEF SealedNames
<1>2. PICK order \in Listing(SealedNames) :
        sealed' = [i \in DOMAIN order |-> Meta(order[i], zst[order[i]].items)]
  BY DEF Open
<1>3. /\ Cardinality(SealedNames) \in Nat
      /\ order \in [1 .. Cardinality(SealedNames) -> SealedNames]
      /\ \A i, j \in DOMAIN order : i < j => order[i] < order[j]
  BY <1>1, ListingCovers
<1> DEFINE U == UNION {{n} \X zst[n].items : n \in SealedNames}
           R(n) == 1 .. Cardinality(zst[n].items)
           g == [n \in SealedNames |->
                   CHOOSE b : b \in Bijection(R(n), zst[n].items)]
           S == Slots(sealed', 0)
           f == [u \in S |-> <<order[u[1]], g[order[u[1]]][u[2]]>>]
<1>4. \A n \in SealedNames : n \in Names /\ zst[n].items \in SUBSET Item
  BY <1>1 DEF TypeOK, ZstFile
<1>5. ASSUME NEW n \in SealedNames
      PROVE  /\ g[n] \in [R(n) -> zst[n].items]
             /\ \A x, y \in R(n) : g[n][x] = g[n][y] => x = y
  <2>1. ExistsBijection(R(n), zst[n].items)
    BY <1>4, ItemsFinite, FS_CardinalityType
  <2>2. \E b : b \in Bijection(R(n), zst[n].items)
    BY <2>1 DEF ExistsBijection
  <2>3. g[n] \in Bijection(R(n), zst[n].items)
    BY <2>2, Zenon
  <2> HIDE DEF g, R
  <2> QED BY <2>3, Zenon DEF Bijection, Injection, IsInjective
<1>6. ASSUME NEW u \in S
      PROVE  \E i \in DOMAIN order, k \in Nat : k \in R(order[i]) /\ u = <<i, k>>
  <2>1. PICK i \in DOMAIN sealed' : u \in {i} \X (1 .. sealed'[i].count)
    BY SlotOf, Zenon
  <2>2. i \in DOMAIN order /\ sealed'[i] = Meta(order[i], zst[order[i]].items)
    BY <2>1, <1>2
  <2>3. sealed'[i].count = Cardinality(zst[order[i]].items)
    <3>1. Meta(order[i], zst[order[i]].items).count = Cardinality(zst[order[i]].items)
      BY Zenon DEF Meta
    <3> HIDE DEF R, S, f, g
    <3> QED BY <3>1, <2>2, Zenon
  <2>4. PICK k \in 1 .. sealed'[i].count : u = <<i, k>>
    BY <2>1
  <2>5. k \in Nat /\ k \in R(order[i])
    BY <2>3, <2>4
  <2> QED BY <2>2, <2>4, <2>5, Zenon
<1>7. \A i \in DOMAIN order : order[i] \in SealedNames /\ order[i] \in Nat /\ i \in Nat
  BY <1>3, <1>4, Numbers
<1>8. f \in Injection(S, U)
  <2>1. ASSUME NEW u \in S PROVE f[u] \in U
    <3>1. PICK i \in DOMAIN order, k \in Nat : k \in R(order[i]) /\ u = <<i, k>>
      BY <1>6
    <3>2. f[u] = <<order[i], g[order[i]][k]>>
      BY <3>1
    <3>3. g[order[i]][k] \in zst[order[i]].items
      BY <3>1, <1>5, <1>7
    <3>4. f[u] \in {order[i]} \X zst[order[i]].items
      <4> HIDE DEF f, g, R
      <4> QED BY <3>2, <3>3
    <3> QED BY <3>4, <3>1, <1>7
  <2>2. ASSUME NEW u \in S, NEW v \in S, f[u] = f[v] PROVE u = v
    <3>1. PICK i \in DOMAIN order, k \in Nat : k \in R(order[i]) /\ u = <<i, k>>
      BY <1>6
    <3>2. PICK j \in DOMAIN order, l \in Nat : l \in R(order[j]) /\ v = <<j, l>>
      BY <1>6
    <3>3. f[u] = <<order[i], g[order[i]][k]>> /\ f[v] = <<order[j], g[order[j]][l]>>
      BY <3>1, <3>2
    <3> HIDE DEF f, g, R
    <3>4. order[i] = order[j] /\ g[order[i]][k] = g[order[j]][l]
      BY <3>3, <2>2
    <3>5. i = j
      <4>1. ~(i < j) /\ ~(j < i)
        BY <3>4, <1>3, <1>7
      <4> QED BY <4>1, <1>7
    <3>6. k = l
      BY <3>1, <3>2, <3>4, <3>5, <1>5, <1>7
    <3> QED BY <3>1, <3>2, <3>5, <3>6
  <2>3. f \in [S -> U]
    <3> HIDE DEF U, S, g
    <3> QED BY <2>1, Zenon
  <2> HIDE DEF f, U, S
  <2> QED BY <2>2, <2>3, Zenon DEF Injection, IsInjective
<1>9. IsFiniteSet(U)
  <2>1. IsFiniteSet(Names \X Item)
    <3>1. 1 \in Int /\ MaxSegments \in Int
      BY BoundsAssumption
    <3>2. IsFiniteSet(Names)
      BY <3>1, FS_Interval DEF Names
    <3> QED BY <3>2, ItemFinite, FS_Product
  <2>2. ASSUME NEW u \in U PROVE u \in Names \X Item
    <3>1. PICK n \in SealedNames : u \in {n} \X zst[n].items
      BY Zenon
    <3> QED BY <3>1, <1>4
  <2> HIDE DEF U
  <2>3. U \in SUBSET (Names \X Item)
    BY <2>2
  <2> QED BY <2>1, <2>3, FS_Subset, Zenon
<1>10. totalLen' = Cardinality(U)
  BY DEF Open
<1> HIDE DEF U, f, S
<1>11. Cardinality(S) <= Cardinality(U)
  BY <1>8, <1>9, FS_Injection, Zenon
<1> QED BY <1>10, <1>11 DEF S

\* The terms of LenInv are numbers.
LEMMA LenTypes ==
  ASSUME TypeOK
  PROVE  /\ totalLen \in Int /\ call.removed \in Nat
         /\ Cardinality(active.items) \in Nat
         /\ Cardinality(Slots(call.kept, 0)) \in Nat
         /\ Cardinality(Slots(sealed, call.pos)) \in Nat
         /\ Cardinality(Slots(sealed, 0)) \in Nat
<1>1. /\ totalLen \in Int /\ call.removed \in Nat /\ call.kept \in Seq(Segment)
      /\ sealed \in Seq(Segment) /\ active.items \in SUBSET Item
  BY DEF TypeOK, CallFrame, ActiveSegment
<1> QED BY <1>1, SlotsFinite, ItemsFinite, Zenon

\* An empty call frame stands for no slots.
LEMMA NoCallSlots ==
  /\ NoCall.pos = 0 /\ NoCall.kept = <<>> /\ NoCall.removed = 0
  /\ NoCall.then = "idle"
  /\ Cardinality(Slots(<<>>, 0)) = 0
<1>1. <<>> \in Seq(Segment) /\ 0 \in Nat
  OBVIOUS
<1>2. Cardinality(Slots(<<>>, 0)) = 0
  BY <1>1, SlotsEnds, Zenon
<1> QED BY <1>2 DEF NoCall

\* With an empty frame, LenInv is about the index and the active segment.
LEMMA LenIdle ==
  ASSUME TypeOK, call = NoCall
  PROVE  LenInv <=> totalLen >= Cardinality(Slots(sealed, 0)) + Cardinality(active.items)
<1>1. call.pos = 0 /\ Cardinality(Slots(call.kept, 0)) = 0 /\ call.removed = 0
  BY NoCallSlots
<1> QED BY <1>1, LenTypes DEF LenInv

\* Entries of the index name files that have no active copy.
LEMMA IndexedNames ==
  ASSUME IInv, NEW i \in DOMAIN sealed
  PROVE  /\ sealed[i] \in Segment /\ sealed[i].name \in Names
         /\ Up => ~wal[sealed[i].name].exists
         /\ active.name # 0 => sealed[i].name # active.name
<1>1. sealed[i] \in Segment /\ sealed[i].name \in Names
  BY SegmentOf DEF IInv, TypeOK
<1>2. Up => ~wal[sealed[i].name].exists
  BY DEF IInv, SealedInv, IndexOK
<1> QED BY <1>1, <1>2 DEF IInv, ActiveInv

-----------------------------------------------------------------------------
(* Ack. *)

\* Ack starts with the whole index before it.
LEMMA AckStartIndex == ASSUME IInv, IndexInv, AckStart PROVE IndexInv'
<1>1. /\ pc = "idle" /\ pc' = "ack"
      /\ UNCHANGED <<wal, zst, active, sealed, totalLen, batch>>
      /\ call' = [pos |-> 1, kept |-> <<>>, removed |-> 0, then |-> "idle"]
  BY DEF AckStart, NoCall, disk, memory
<1>2. CopiesInv'
  BY <1>1 DEF IndexInv, CopiesInv
<1>3. FrameInv'
  BY <1>1 DEF IndexInv, FrameInv
<1>4. ExactInv'
  <2>1. \A i \in DOMAIN sealed : Exact(sealed[i])
    BY <1>1 DEF IndexInv, ExactInv
  <2>2. \A i \in DOMAIN sealed : Exact(sealed[i])'
    BY <2>1, <1>1 DEF Exact
  <2>3. call'.kept = <<>> /\ DOMAIN call'.kept = {}
    BY <1>1
  <2> QED BY <2>2, <2>3, <1>1 DEF ExactInv
<1>5. LenInv'
  <2>1. totalLen >= Cardinality(Slots(sealed, 0)) + Cardinality(active.items)
    BY <1>1, LenIdle DEF IInv, IndexInv, FrameInv
  <2>2. sealed \in Seq(Segment) /\ 1 \in Nat
    BY DEF IInv, TypeOK
  <2>3. Slots(sealed, 1) = Slots(sealed, 0)
    BY <2>2, SlotsEnds, Zenon
  <2>4. /\ Cardinality(Slots(call'.kept, 0)) = 0 /\ call'.removed = 0
        /\ Cardinality(Slots(sealed', call'.pos)) = Cardinality(Slots(sealed, 0))
    BY <1>1, <2>3, NoCallSlots
  <2>5. /\ totalLen \in Int /\ Cardinality(Slots(sealed, 0)) \in Nat
        /\ Cardinality(active.items) \in Nat
    BY LenTypes, Zenon DEF IInv
  <2> QED BY <2>1, <2>4, <2>5, <1>1 DEF LenInv
<1> QED BY <1>2, <1>3, <1>4, <1>5 DEF IndexInv

\* The entry Ack looks at, and what it does with it: drop the file, keep the
\* entry, or cut the file down to what is left of it.
LEMMA AckTurn ==
  ASSUME IInv, IndexInv, AckSegment
  PROVE  LET seg == sealed[call.pos]
             items == zst[seg.name].items
             left == {it \in items : it.seq > batch.last}
         IN /\ call.pos \in DOMAIN sealed /\ seg \in Segment /\ seg.name \in Names
            /\ ~wal[seg.name].exists
            /\ items \in SUBSET Item
            /\ Exact(seg) \/ Removed(seg) \/ Trimmed(seg)
            /\ \/ /\ seg.maxSeq <= batch.last
                  /\ zst' = [zst EXCEPT ![seg.name] = NoZst]
                  /\ totalLen' = totalLen - seg.count
                  /\ call' = NextTurn(call.kept)
               \/ /\ seg.maxSeq > batch.last /\ seg.minSeq > batch.last
                  /\ Exact(seg)
                  /\ call' = NextTurn(Append(call.kept, seg))
                  /\ UNCHANGED <<zst, totalLen>>
               \/ /\ seg.maxSeq > batch.last /\ seg.minSeq <= batch.last
                  /\ left # {} /\ Cardinality(items) <= seg.count
                  /\ Exact(seg) \/ Trimmed(seg)
                  /\ zst' = [zst EXCEPT ![seg.name] = [exists |-> TRUE, items |-> left]]
                  /\ totalLen' = totalLen - (Cardinality(items) - Cardinality(left))
                  /\ call' = NextTurn(Append(call.kept, Meta(seg.name, left)))
<1> DEFINE seg == sealed[call.pos]
           items == zst[seg.name].items
           left == {it \in items : it.seq > batch.last}
<1>1. pc = "ack" /\ call.pos \in DOMAIN sealed /\ call.pos >= call.pos
  <2>1. pc = "ack" /\ call.pos <= Len(sealed)
    BY Zenon DEF AckSegment
  <2>2. Len(sealed) \in Nat /\ call.pos \in 1 .. Len(sealed) + 1
    BY <2>1 DEF IInv, KeptInv, TypeOK
  <2> QED BY <2>1, <2>2 DEF IInv, TypeOK
<1>2. seg \in Segment /\ seg.name \in Names /\ ~wal[seg.name].exists
  BY <1>1, IndexedNames DEF Up
<1>3. items \in SUBSET Item /\ batch.last \in Nat
  BY <1>2, Numbers DEF IInv, TypeOK, ZstFile
<1>4. Exact(seg) \/ Removed(seg) \/ Trimmed(seg)
  BY <1>1, Zenon DEF IndexInv, ExactInv
<1>5. seg.maxSeq \in Nat /\ seg.minSeq \in Nat /\ seg.count \in Nat
  BY <1>2 DEF Segment
<1>6. Exact(seg) => /\ seg.count = Cardinality(items)
                    /\ seg.maxSeq > batch.last => left # {}
  <2> SUFFICES ASSUME Exact(seg)
               PROVE  /\ seg.count = Cardinality(items)
                      /\ seg.maxSeq > batch.last => left # {}
    OBVIOUS
  <2>1. seg = Meta(seg.name, items)
    BY Zenon DEF Exact
  <2>2. /\ Meta(seg.name, items).count = Cardinality(items)
        /\ Meta(seg.name, items).maxSeq > batch.last => \E it \in items : it.seq > batch.last
    <3> HIDE DEF seg, items
    <3> QED BY <1>2, <1>3, MetaSays
  <2> QED BY <2>1, <2>2, Zenon
<1>7. Trimmed(seg) => left # {} /\ Cardinality(items) <= seg.count
  BY Zenon DEF Trimmed
<1>8. CASE seg.maxSeq <= batch.last
  <2>1. ~(seg.maxSeq > batch.last)
    BY <1>3, <1>5, <1>8
  <2> QED BY <2>1, <1>1, <1>2, <1>3, <1>4, <1>8, Zenon DEF AckSegment
<1>9. CASE seg.maxSeq > batch.last
  <2>1. ~(seg.maxSeq <= batch.last) /\ ~Removed(seg)
    BY <1>3, <1>5, <1>9 DEF Removed
  <2>2. left # {} /\ Cardinality(items) <= seg.count
    <3>1. CASE Exact(seg)
      <4> HIDE DEF left, items, seg
      <4> QED BY <3>1, <1>5, <1>6, <1>9
    <3>2. CASE Trimmed(seg)
      BY <3>2, <1>7, Zenon
    <3> QED BY <3>1, <3>2, <2>1, <1>4, Zenon
  <2>3. seg.minSeq > batch.last => ~(seg.minSeq <= batch.last) /\ ~Trimmed(seg)
    <3>1. seg.minSeq > batch.last => ~(seg.minSeq <= batch.last)
      <4> HIDE DEF seg
      <4> QED BY <1>3, <1>5
    <3> QED BY <3>1, Zenon DEF Trimmed
  <2> QED BY <2>1, <2>2, <2>3, <1>1, <1>2, <1>3, <1>4, <1>9, Zenon DEF AckSegment
<1> QED
  <2>1. seg.maxSeq <= batch.last \/ seg.maxSeq > batch.last
    BY <1>3, <1>5
  <2> QED BY <2>1, <1>8, <1>9, Zenon

\* Entries of one name that are both exact are equal.
LEMMA ExactSame ==
  ASSUME NEW s, NEW t, Exact(s), Exact(t), s.name = t.name
  PROVE  s = t
  BY Zenon DEF Exact

\* A turn of Ack's loop keeps the entries before and behind it in order.
LEMMA AckSegmentExact == ASSUME IInv, IndexInv, AckSegment PROVE ExactInv'
<1> DEFINE seg == sealed[call.pos]
           n == seg.name
           items == zst[n].items
           left == {it \in items : it.seq > batch.last}
           last == batch.last
<1>1. /\ pc = "ack" /\ pc' = "ack" /\ sealed' = sealed /\ batch' = batch
  BY Zenon DEF AckSegment
<1>2. /\ call.pos \in DOMAIN sealed /\ seg \in Segment /\ n \in Names
      /\ items \in SUBSET Item /\ last \in Nat /\ call.pos \in Nat
      /\ Exact(seg) \/ Removed(seg) \/ Trimmed(seg)
      /\ \A j \in DOMAIN sealed : j \in Nat
  <2>1. /\ call.pos \in DOMAIN sealed /\ seg \in Segment /\ n \in Names
        /\ items \in SUBSET Item
        /\ Exact(seg) \/ Removed(seg) \/ Trimmed(seg)
    BY AckTurn, Zenon
  <2>2. last \in Nat /\ call.pos \in Nat
    BY Numbers, Zenon DEF IInv
  <2>3. sealed \in Seq(Segment)
    BY DEF IInv, TypeOK
  <2>4. \A j \in DOMAIN sealed : j \in Nat
    BY <2>3
  <2> QED BY <2>1, <2>2, <2>4, Zenon
<1>3. /\ \A k \in DOMAIN call.kept : Exact(call.kept[k]) /\ call.kept[k].minSeq > last
      /\ \A j \in DOMAIN sealed : j >= call.pos =>
           /\ Exact(sealed[j]) \/ Removed(sealed[j]) \/ Trimmed(sealed[j])
           /\ \A k \in DOMAIN call.kept :
                call.kept[k].name = sealed[j].name => sealed[j].maxSeq > last
  BY <1>1 DEF IndexInv, ExactInv
<1>4. ASSUME NEW e, Exact(e), e.minSeq > last, e.name = n
      PROVE  items # {} /\ \A it \in items : it.seq > last
  <2>1. e = Meta(n, items)
    BY <1>4, Zenon DEF Exact
  <2>2. Meta(n, items).minSeq > last <=> items # {} /\ \A it \in items : it.seq > last
    <3> HIDE DEF n, items, last
    <3> QED BY <1>2, MetaSays, Zenon
  <2> QED BY <2>1, <2>2, <1>4, Zenon
<1>5. /\ call.kept \in Seq(Segment)
      /\ \A k \in DOMAIN call.kept : call.kept[k].name \in Names
      /\ \A j \in DOMAIN sealed : /\ sealed[j].name \in Names /\ sealed[j].maxSeq \in Nat
                                  /\ sealed[j].minSeq \in Nat
  <2>1. call.kept \in Seq(Segment) /\ sealed \in Seq(Segment)
    BY DEF IInv, TypeOK, CallFrame
  <2>2. /\ \A k \in DOMAIN call.kept : call.kept[k].name \in Names
        /\ \A j \in DOMAIN sealed : sealed[j] \in Segment
    BY <2>1, SegmentOf, Zenon
  <2>3. \A s \in Segment : s.name \in Names /\ s.maxSeq \in Nat /\ s.minSeq \in Nat
    BY DEF Segment
  <2> QED BY <2>1, <2>2, <2>3, Zenon
<1>6. /\ call.pos >= call.pos
      /\ \A j \in DOMAIN sealed : j >= call.pos + 1 => j >= call.pos
  BY <1>2
<1>7. \A k : NextTurn(k).pos = call.pos + 1 /\ NextTurn(k).kept = k
  BY DEF NextTurn
<1>8. CASE /\ seg.maxSeq <= last
           /\ zst' = [zst EXCEPT ![n] = NoZst]
           /\ call' = NextTurn(call.kept)
  <2>0. ~(seg.maxSeq > last)
    <3>1. seg.maxSeq \in Nat
      BY <1>2, <1>5, Zenon
    <3> HIDE DEF seg, last
    <3> QED BY <3>1, <1>2, <1>8
  <2>1. /\ ~zst'[n].exists
        /\ \A m \in Names : m # n => zst'[m] = zst[m]
    BY <1>2, <1>8 DEF IInv, TypeOK, NoZst
  <2>2. call'.kept = call.kept /\ call'.pos = call.pos + 1
    BY <1>7, <1>8
  <2>3. ASSUME NEW k \in DOMAIN call.kept PROVE call.kept[k].name # n
    BY <2>0, <1>2, <1>3, <1>6, Zenon
  <2>4. ASSUME NEW j \in DOMAIN sealed, j >= call.pos, sealed[j].name = n
        PROVE  sealed[j].maxSeq <= last
    <3>1. CASE Exact(sealed[j])
      <4>1. CASE Exact(seg)
        BY <4>1, <3>1, <2>4, <1>8, ExactSame, Zenon
      <4>2. CASE Removed(seg)
        BY <4>2, <3>1, <2>4 DEF Removed, Exact
      <4>3. CASE Trimmed(seg)
        BY <4>3, <2>0, Zenon DEF Trimmed
      <4> QED BY <4>1, <4>2, <4>3, <1>2, Zenon
    <3>2. CASE Removed(sealed[j])
      BY <3>2 DEF Removed
    <3>3. CASE Trimmed(sealed[j])
      <4>1. CASE Exact(seg)
        <5>1. seg = Meta(n, items)
          BY <4>1, Zenon DEF Exact
        <5>2. items # {} /\ \A it \in items : it.seq > last
          BY <3>3, <2>4, Zenon DEF Trimmed
        <5>3. Meta(n, items).maxSeq > last <=> \E it \in items : it.seq > last
          <6> HIDE DEF n, items, last
          <6> QED BY <1>2, MetaSays, Zenon
        <5> QED BY <5>1, <5>2, <5>3, <2>0, Zenon
      <4>2. CASE Removed(seg)
        BY <4>2, <3>3, <2>4 DEF Removed, Trimmed
      <4>3. CASE Trimmed(seg)
        BY <4>3, <2>0, Zenon DEF Trimmed
      <4> QED BY <4>1, <4>2, <4>3, <1>2, Zenon
    <3> QED BY <3>1, <3>2, <3>3, <2>4, <1>3
  <2>5. \A k \in DOMAIN call.kept : zst'[call.kept[k].name] = zst[call.kept[k].name]
    BY <2>1, <2>3, <1>5
  <2>6. ASSUME NEW j \in DOMAIN sealed, j >= call.pos + 1
        PROVE  \/ zst'[sealed[j].name] = zst[sealed[j].name]
               \/ ~zst'[sealed[j].name].exists /\ sealed[j].maxSeq <= last
    BY <2>1, <2>4, <2>6, <1>5, <1>6
  <2>7. \A k \in DOMAIN call.kept : Exact(call.kept[k])' /\ call.kept[k].minSeq > last
    BY <2>2, <2>5, <1>3 DEF Exact
  <2>8. \A j \in DOMAIN sealed : j >= call.pos + 1 =>
          \/ Exact(sealed[j])' \/ Removed(sealed[j])' \/ Trimmed(sealed[j])'
    BY <2>6, <1>1, <1>3, <1>6 DEF Exact, Removed, Trimmed
  <2> QED BY <2>2, <2>7, <2>8, <1>1, <1>3, <1>6, Zenon DEF ExactInv
<1>9. CASE /\ seg.maxSeq > last /\ seg.minSeq > last
           /\ Exact(seg)
           /\ call' = NextTurn(Append(call.kept, seg))
           /\ zst' = zst
  <2>1. call'.kept = Append(call.kept, seg) /\ call'.pos = call.pos + 1
    BY <1>7, <1>9, Zenon
  <2>2. \A k \in DOMAIN call'.kept :
          call'.kept[k] = seg \/ \E l \in DOMAIN call.kept : call'.kept[k] = call.kept[l]
    BY <2>1, <1>2, <1>5
  <2>3. \A k \in DOMAIN call'.kept : Exact(call'.kept[k]) /\ call'.kept[k].minSeq > last
    BY <2>2, <1>3, <1>9, Zenon
  <2>4. ASSUME NEW j \in DOMAIN sealed, j >= call.pos, sealed[j].name = n
        PROVE  sealed[j].maxSeq > last
    <3>1. CASE Exact(sealed[j])
      BY <3>1, <2>4, <1>9, ExactSame, Zenon
    <3>2. CASE Removed(sealed[j])
      BY <3>2, <2>4, <1>9 DEF Removed, Exact
    <3>3. CASE Trimmed(sealed[j])
      BY <3>3 DEF Trimmed
    <3> QED BY <3>1, <3>2, <3>3, <2>4, <1>3
  <2>5. ASSUME NEW j \in DOMAIN sealed, j >= call.pos + 1, NEW k \in DOMAIN call'.kept,
               call'.kept[k].name = sealed[j].name
        PROVE  sealed[j].maxSeq > last
    BY <2>2, <2>4, <2>5, <1>3, <1>6, Zenon
  <2>6. \A k \in DOMAIN call'.kept : Exact(call.kept[k])' /\ call'.kept[k].minSeq > last
    BY <2>3, <1>9, Zenon DEF Exact
  <2>7. \A j \in DOMAIN sealed : j >= call.pos + 1 =>
          \/ Exact(sealed[j])' \/ Removed(sealed[j])' \/ Trimmed(sealed[j])'
    BY <1>1, <1>3, <1>6, <1>9 DEF Exact, Removed, Trimmed
  <2> QED BY <2>1, <2>5, <2>6, <2>7, <1>1, Zenon DEF ExactInv
<1>10. CASE /\ seg.maxSeq > last /\ seg.minSeq <= last
            /\ left # {} /\ Cardinality(items) <= seg.count
            /\ Exact(seg) \/ Trimmed(seg)
            /\ zst' = [zst EXCEPT ![n] = [exists |-> TRUE, items |-> left]]
            /\ call' = NextTurn(Append(call.kept, Meta(n, left)))
  <2> DEFINE e == Meta(n, left)
  <2>1. call'.kept = Append(call.kept, e) /\ call'.pos = call.pos + 1
    BY <1>7, <1>10, Zenon
  <2>2. /\ left \in SUBSET Item /\ left # {} /\ left \subseteq items
        /\ \A it \in left : it.seq > last
    BY <1>2, <1>10
  <2>3. /\ zst'[n].exists /\ zst'[n].items = left
        /\ \A m \in Names : m # n => zst'[m] = zst[m]
    <3> HIDE DEF left
    <3> QED BY <1>2, <1>10 DEF IInv, TypeOK
  <2>4. e \in Segment /\ e.name = n /\ e.minSeq > last
    <3> HIDE DEF left
    <3> QED BY <2>2, <1>2, MetaBounds, MetaSays
  <2>5. \A k \in DOMAIN call'.kept :
          call'.kept[k] = e \/ \E l \in DOMAIN call.kept : call'.kept[k] = call.kept[l]
    <3>1. call.kept \in Seq(Segment) /\ e \in Segment /\ call'.kept = Append(call.kept, e)
      BY <2>1, <2>4, <1>5
    <3> HIDE DEF e
    <3> QED BY <3>1
  <2>6. ASSUME NEW l \in DOMAIN call.kept
        PROVE  zst'[call.kept[l].name].exists
               /\ zst'[call.kept[l].name].items = zst[call.kept[l].name].items
    <3>1. CASE call.kept[l].name = n
      <4>1. \A it \in items : it.seq > last
        BY <3>1, <1>3, <1>4, Zenon
      <4>2. left = items
        BY <4>1
      <4> QED BY <4>2, <3>1, <2>3, Zenon
    <3>2. CASE call.kept[l].name # n
      BY <3>2, <2>3, <1>3, <1>5 DEF Exact
    <3> QED BY <3>1, <3>2
  <2>7. ASSUME NEW k \in DOMAIN call'.kept
        PROVE  Exact(call.kept[k])' /\ call'.kept[k].minSeq > last
    <3>1. CASE call'.kept[k] = e
      <4>1. e = Meta(e.name, zst'[e.name].items) /\ zst'[e.name].exists
        BY <2>3, <2>4, Zenon
      <4> HIDE DEF e
      <4> QED BY <4>1, <3>1, <2>4, Zenon DEF Exact
    <3>2. CASE \E l \in DOMAIN call.kept : call'.kept[k] = call.kept[l]
      <4>1. PICK l \in DOMAIN call.kept : call'.kept[k] = call.kept[l]
        BY <3>2
      <4> QED BY <4>1, <2>6, <1>3 DEF Exact
    <3> QED BY <3>1, <3>2, <2>5
  <2>8. ASSUME NEW j \in DOMAIN sealed, j >= call.pos, sealed[j].name = n
        PROVE  /\ sealed[j].maxSeq > last
               /\ \/ sealed[j].minSeq <= last /\ Cardinality(items) <= sealed[j].count
                  \/ Exact(sealed[j]) /\ left = items
    <3>1. CASE Exact(sealed[j])
      <4>1. CASE Exact(seg)
        BY <4>1, <3>1, <2>8, <1>10, ExactSame, Zenon
      <4>2. CASE Trimmed(seg)
        <5>1. items # {} /\ \A it \in items : it.seq > last
          BY <4>2, Zenon DEF Trimmed
        <5>2. left = items
          BY <5>1
        <5>3. sealed[j].maxSeq > last
          <6>1. sealed[j] = Meta(n, items)
            BY <3>1, <2>8, Zenon DEF Exact
          <6>2. Meta(n, items).maxSeq > last <=> \E it \in items : it.seq > last
            <7> HIDE DEF n, items, last
            <7> QED BY <1>2, MetaSays, Zenon
          <6> QED BY <6>1, <6>2, <5>1, Zenon
        <5> QED BY <5>2, <5>3, <3>1, Zenon
      <4> QED BY <4>1, <4>2, <1>10, Zenon
    <3>2. CASE Removed(sealed[j])
      BY <3>2, <2>8, <1>10, Zenon DEF Removed, Exact, Trimmed
    <3>3. CASE Trimmed(sealed[j])
      BY <3>3, <2>8, Zenon DEF Trimmed
    <3> QED BY <3>1, <3>2, <3>3, <2>8, <1>3, Zenon
  <2>9. Cardinality(left) <= Cardinality(items) /\ Cardinality(left) \in Nat
        /\ Cardinality(items) \in Nat
    <3> HIDE DEF left, items
    <3> QED BY <2>2, <1>2, ItemsFinite, FS_Subset
  <2>10. ASSUME NEW j \in DOMAIN sealed, j >= call.pos + 1
         PROVE  Exact(sealed[j])' \/ Removed(sealed[j])' \/ Trimmed(sealed[j])'
    <3>1. CASE sealed[j].name # n
      <4>1. zst'[sealed[j].name] = zst[sealed[j].name]
        BY <3>1, <2>3, <1>5
      <4> QED BY <4>1, <2>10, <1>1, <1>3, <1>6 DEF Exact, Removed, Trimmed
    <3>2. CASE /\ sealed[j].name = n /\ sealed[j].maxSeq > last
               /\ sealed[j].minSeq <= last /\ Cardinality(items) <= sealed[j].count
      <4>1. Cardinality(left) <= sealed[j].count
        <5>1. sealed[j].count \in Nat
          <6>1. sealed \in Seq(Segment)
            BY DEF IInv, TypeOK
          <6>2. sealed[j] \in Segment
            BY <6>1, SegmentOf, Zenon
          <6> QED BY <6>2 DEF Segment
        <5> HIDE DEF left, items
        <5> QED BY <5>1, <3>2, <2>9
      <4>2. Trimmed(sealed[j])'
        BY <4>1, <3>2, <2>2, <2>3, <1>1, Zenon DEF Trimmed
      <4> QED BY <4>2
    <3>3. CASE sealed[j].name = n /\ Exact(sealed[j]) /\ left = items
      <4>1. Exact(sealed[j])'
        <5> HIDE DEF left
        <5> QED BY <3>3, <2>3, <1>1, Zenon DEF Exact
      <4> QED BY <4>1
    <3> QED BY <3>1, <3>2, <3>3, <2>8, <2>10, <1>6, Zenon
  <2>11. ASSUME NEW j \in DOMAIN sealed, j >= call.pos + 1, NEW k \in DOMAIN call'.kept,
                call'.kept[k].name = sealed[j].name
         PROVE  sealed[j].maxSeq > last
    <3>1. CASE call'.kept[k] = e
      BY <3>1, <2>4, <2>8, <2>11, <1>6, Zenon
    <3>2. CASE \E l \in DOMAIN call.kept : call'.kept[k] = call.kept[l]
      BY <3>2, <2>11, <1>3, <1>6, Zenon
    <3> QED BY <3>1, <3>2, <2>5
  <2> HIDE DEF e
  <2> QED BY <2>1, <2>7, <2>10, <2>11, <1>1, Zenon DEF ExactInv
<1> QED
  BY <1>1, <1>8, <1>9, <1>10, AckTurn, Zenon

\* A turn of Ack's loop takes off the count no more than it takes off the
\* index.
LEMMA AckSegmentLen == ASSUME IInv, IndexInv, AckSegment PROVE LenInv'
<1> DEFINE seg == sealed[call.pos]
           n == seg.name
           items == zst[n].items
           left == {it \in items : it.seq > batch.last}
           kept == Cardinality(Slots(call.kept, 0))
           rest == Cardinality(Slots(sealed, call.pos + 1))
           act == Cardinality(active.items)
<1>1. /\ pc = "ack" /\ sealed' = sealed /\ active' = active
  BY Zenon DEF AckSegment
<1>2. /\ call.pos \in DOMAIN sealed /\ seg \in Segment /\ n \in Names
      /\ items \in SUBSET Item /\ sealed \in Seq(Segment) /\ call.kept \in Seq(Segment)
  <2>1. /\ call.pos \in DOMAIN sealed /\ seg \in Segment /\ n \in Names
        /\ items \in SUBSET Item
    BY AckTurn, Zenon
  <2>2. sealed \in Seq(Segment) /\ call.kept \in Seq(Segment)
    BY DEF IInv, TypeOK, CallFrame
  <2> QED BY <2>1, <2>2, Zenon
<1>3. Cardinality(Slots(sealed, call.pos)) = seg.count + rest /\ rest \in Nat
  BY <1>2, SlotsNext, SlotsFinite, Zenon
<1>4. seg.count \in Nat /\ kept \in Nat /\ act \in Nat /\ totalLen \in Int
  <2>1. kept \in Nat /\ act \in Nat /\ totalLen \in Int
    BY LenTypes, Zenon DEF IInv
  <2>2. \A s \in Segment : s.count \in Nat
    BY DEF Segment
  <2> QED BY <2>1, <2>2, <1>2, Zenon
<1>5. call.removed = 0
  BY <1>1 DEF IndexInv, FrameInv
<1>6. totalLen >= kept + (seg.count + rest) + act
  <2>1. totalLen >= kept + Cardinality(Slots(sealed, call.pos)) + act + call.removed
    BY DEF IndexInv, LenInv
  <2> HIDE DEF kept, rest, act, seg
  <2> QED BY <2>1, <1>3, <1>4, <1>5
<1>7. \A k : /\ NextTurn(k).pos = call.pos + 1 /\ NextTurn(k).kept = k
             /\ NextTurn(k).removed = 0
  BY DEF NextTurn
<1>8. ASSUME NEW k \in Seq(Segment), call' = NextTurn(k), NEW c \in Nat,
             Cardinality(Slots(k, 0)) = c, totalLen' >= c + rest + act
      PROVE  LenInv'
  <2>1. /\ Cardinality(Slots(call'.kept, 0)) = c
        /\ Cardinality(Slots(sealed', call'.pos)) = rest
        /\ Cardinality(active'.items) = act /\ call'.removed = 0
    BY <1>1, <1>7, <1>8
  <2> HIDE DEF rest, act
  <2> QED BY <2>1, <1>3, <1>4, <1>8 DEF LenInv
<1>9. CASE /\ totalLen' = totalLen - seg.count
           /\ call' = NextTurn(call.kept)
  <2>1. totalLen' >= kept + rest + act
    <3> HIDE DEF kept, rest, act, seg
    <3> QED BY <1>3, <1>4, <1>6, <1>9
  <2> QED BY <2>1, <1>2, <1>4, <1>8, <1>9
<1>10. CASE /\ call' = NextTurn(Append(call.kept, seg))
            /\ UNCHANGED <<zst, totalLen>>
  <2>1. /\ Append(call.kept, seg) \in Seq(Segment)
        /\ Cardinality(Slots(Append(call.kept, seg), 0)) = kept + seg.count
    BY <1>2, SlotsAppend
  <2>2. totalLen' >= (kept + seg.count) + rest + act /\ kept + seg.count \in Nat
    <3> HIDE DEF kept, rest, act, seg
    <3> QED BY <1>3, <1>4, <1>6, <1>10
  <2> HIDE DEF kept, rest, act, seg
  <2> QED BY <2>1, <2>2, <1>8, <1>10, Zenon
<1>11. CASE /\ Cardinality(items) <= seg.count
            /\ totalLen' = totalLen - (Cardinality(items) - Cardinality(left))
            /\ call' = NextTurn(Append(call.kept, Meta(n, left)))
  <2>1. left \in SUBSET Item /\ Cardinality(left) \in Nat /\ Cardinality(items) \in Nat
    BY <1>2, ItemsFinite, Zenon
  <2> HIDE DEF left, items
  <2>2. Meta(n, left) \in Segment /\ Meta(n, left).count = Cardinality(left)
    BY <2>1, <1>2, MetaBounds DEF Meta
  <2>3. /\ Append(call.kept, Meta(n, left)) \in Seq(Segment)
        /\ Cardinality(Slots(Append(call.kept, Meta(n, left)), 0))
             = kept + Cardinality(left)
    BY <2>2, <1>2, SlotsAppend
  <2>4. /\ totalLen' >= (kept + Cardinality(left)) + rest + act
        /\ kept + Cardinality(left) \in Nat
    <3> HIDE DEF kept, rest, act, seg
    <3> QED BY <2>1, <1>3, <1>4, <1>6, <1>11
  <2> HIDE DEF kept, rest, act, seg, n
  <2> QED BY <2>3, <2>4, <1>8, <1>11, Zenon
<1> QED
  BY <1>9, <1>10, <1>11, AckTurn, Zenon

\* A turn of Ack's loop.
LEMMA AckSegmentIndex == ASSUME IInv, IndexInv, AckSegment PROVE IndexInv'
<1>1. /\ pc = "ack" /\ pc' = "ack" /\ UNCHANGED <<wal, active>>
      /\ call'.removed = 0
  <2>1. pc = "ack" /\ pc' = "ack" /\ UNCHANGED <<wal, active>>
    BY Zenon DEF AckSegment
  <2>2. \E k : call' = NextTurn(k)
    BY AckTurn, Zenon
  <2> QED BY <2>1, <2>2 DEF NextTurn
<1>2. CopiesInv'
  <2>1. \A m \in Names : wal[m].exists => zst'[m] = zst[m]
    <3>1. zst \in [Names -> ZstFile]
      BY DEF IInv, TypeOK
    <3>2. \E n \in Names : \E f : ~wal[n].exists /\ zst' \in {zst, [zst EXCEPT ![n] = f]}
      BY AckTurn, Zenon
    <3> QED BY <3>1, <3>2
  <2> QED BY <2>1, <1>1 DEF IndexInv, CopiesInv
<1>3. FrameInv'
  BY <1>1 DEF FrameInv
<1>4. ExactInv' /\ LenInv'
  BY AckSegmentExact, AckSegmentLen
<1> QED BY <1>2, <1>3, <1>4 DEF IndexInv

\* The tail of Ack installs the entries it kept.
LEMMA AckActiveIndex == ASSUME IInv, IndexInv, AckActive PROVE IndexInv'
<1> DEFINE left == {it \in active.items : it.seq > batch.last}
           kept == Cardinality(Slots(call.kept, 0))
           gone == Cardinality(active.items \ left)
<1>1. /\ pc = "ack" /\ sealed' = call.kept /\ call.pos > Len(sealed)
      /\ UNCHANGED <<zst, totalLen>>
  BY DEF AckActive
<1>2. active.items \in SUBSET Item
  BY DEF IInv, TypeOK, ActiveSegment
<1>3. /\ Cardinality(active.items) = Cardinality(left) + gone
      /\ Cardinality(left) \in Nat /\ gone \in Nat /\ kept \in Nat
  <2>1. left \in SUBSET Item /\ active.items \ left \in SUBSET Item
    BY <1>2
  <2>2. /\ IsFiniteSet(left) /\ IsFiniteSet(active.items \ left)
        /\ Cardinality(left) \in Nat /\ gone \in Nat
    BY <2>1, ItemsFinite, Zenon
  <2>3. active.items = left \cup (active.items \ left) /\ left \cap (active.items \ left) = {}
    OBVIOUS
  <2>4. kept \in Nat
    BY LenTypes DEF IInv
  <2> HIDE DEF left
  <2> QED BY <2>2, <2>3, <2>4, SlotsAdd, Zenon
<1>4. totalLen >= kept + Cardinality(active.items) /\ totalLen \in Int
  <2>1. sealed \in Seq(Segment) /\ call.pos \in Nat
    BY Numbers DEF IInv, TypeOK
  <2>2. Cardinality(Slots(sealed, call.pos)) = 0
    BY <2>1, <1>1, SlotsEnds, Zenon
  <2>3. call.removed = 0
    BY <1>1 DEF IndexInv, FrameInv
  <2> QED BY <2>2, <2>3, LenTypes DEF IndexInv, LenInv, IInv
<1>5. /\ pc' # "ack"
      /\ \/ /\ pc' = "idle" /\ call' = NoCall /\ wal' = wal
            /\ \/ active' = active
               \/ ~active'.open /\ active'.items = left
         \/ /\ pc' = "rewrite" /\ active.open /\ active'.name = active.name
            /\ active'.items = left
            /\ call' = InRewrite(gone, "idle")
            /\ wal' = [wal EXCEPT ![active.name] = EmptyWal]
  <2>1. \A S : /\ [active EXCEPT !.items = S].items = S
               /\ [active EXCEPT !.items = S].name = active.name
               /\ [active EXCEPT !.items = S].open = active.open
    BY DEF IInv, TypeOK, ActiveSegment
  <2>2. CASE left = active.items
    BY <2>2 DEF AckActive
  <2>3. CASE left # active.items /\ active.open
    <3>1. /\ pc' = "rewrite" /\ active' = [active EXCEPT !.items = left]
          /\ call' = InRewrite(gone, "idle")
          /\ wal' = [wal EXCEPT ![active.name] = EmptyWal]
      BY <2>3 DEF AckActive
    <3> HIDE DEF left, gone
    <3> QED BY <3>1, <2>1, <2>3
  <2>4. CASE left # active.items /\ ~active.open
    <3>1. /\ pc' = "idle" /\ active' = [active EXCEPT !.items = left]
          /\ call' = NoCall /\ wal' = wal
      BY <2>4 DEF AckActive
    <3> HIDE DEF left, gone
    <3> QED BY <3>1, <2>1, <2>4
  <2> QED BY <2>2, <2>3, <2>4
<1> HIDE DEF left, gone
<1>6. CopiesInv'
  <2>1. CASE pc' = "idle"
    BY <2>1, <1>1, <1>5 DEF IndexInv, CopiesInv
  <2>2. CASE pc' = "rewrite"
    <3>1. active.name \in Names /\ ~zst[active.name].exists
      <4>1. active.name # 0 /\ ~zst[active.name].exists
        BY <2>2, <1>5 DEF IInv, ActiveInv
      <4>2. active.name \in 0 .. MaxSegments /\ MaxSegments \in Nat
        BY BoundsAssumption DEF IInv, TypeOK, ActiveSegment
      <4> QED BY <4>1, <4>2 DEF Names
    <3>2. \A m \in Names : m # active.name => wal'[m] = wal[m]
      BY <2>2, <1>5 DEF IInv, TypeOK
    <3> QED BY <3>1, <3>2, <2>2, <1>1 DEF IndexInv, CopiesInv
  <2> QED BY <2>1, <2>2, <1>5
<1>7. FrameInv'
  BY <1>5 DEF FrameInv, InRewrite
<1>8. ExactInv'
  <2>1. \A k \in DOMAIN call.kept : Exact(call.kept[k])
    BY <1>1 DEF IndexInv, ExactInv
  <2>2. \A k \in DOMAIN sealed' : Exact(sealed[k])'
    BY <2>1, <1>1, Zenon DEF Exact
  <2>3. pc' # "ack"
    BY <1>5
  <2> QED BY <2>2, <2>3 DEF ExactInv
<1>9. LenInv'
  <2>1. CASE pc' = "idle"
    <3>1. /\ call'.pos = 0 /\ call'.removed = 0
          /\ Cardinality(Slots(call'.kept, 0)) = 0
          /\ Cardinality(Slots(sealed', call'.pos)) = kept
      BY <2>1, <1>1, <1>5, NoCallSlots
    <3>2. Cardinality(active'.items) \in {Cardinality(active.items), Cardinality(left)}
      BY <2>1, <1>5
    <3> HIDE DEF kept
    <3> QED BY <3>1, <3>2, <1>1, <1>3, <1>4 DEF LenInv
  <2>2. CASE pc' = "rewrite"
    <3>1. /\ call'.pos = 0 /\ call'.removed = gone /\ call'.kept = <<>>
      BY <2>2, <1>5 DEF InRewrite
    <3>2. /\ Cardinality(Slots(call'.kept, 0)) = 0
          /\ Cardinality(Slots(sealed', call'.pos)) = kept
      BY <3>1, <1>1, NoCallSlots
    <3>3. Cardinality(active'.items) = Cardinality(left)
      BY <2>2, <1>5
    <3> HIDE DEF kept
    <3> QED BY <3>1, <3>2, <3>3, <1>1, <1>3, <1>4 DEF LenInv
  <2> QED BY <2>1, <2>2, <1>5
<1> QED BY <1>6, <1>7, <1>8, <1>9 DEF IndexInv

\* rewrite puts the active items back and takes the dropped ones off the
\* count.
LEMMA RewriteWriteIndex == ASSUME IInv, IndexInv, RewriteWrite PROVE IndexInv'
<1>1. /\ pc = "rewrite" /\ call.then = "idle" /\ call.pos = 0 /\ call.kept = <<>>
      /\ pc' = "idle" /\ call' = NoCall /\ totalLen' = totalLen - call.removed
      /\ UNCHANGED <<zst, active, sealed>>
  BY DEF RewriteWrite, IndexInv, FrameInv
<1>2. active.open /\ active.name \in Names /\ ~zst[active.name].exists
  <2>1. active.open /\ active.name # 0 /\ ~zst[active.name].exists
    BY <1>1 DEF IInv, ActiveInv
  <2>2. active.name \in 0 .. MaxSegments /\ MaxSegments \in Nat
    BY BoundsAssumption DEF IInv, TypeOK, ActiveSegment
  <2> QED BY <2>1, <2>2 DEF Names
<1>3. /\ \A m \in Names : m # active.name => wal'[m] = wal[m]
      /\ wal'[active.name].items = active.items
  BY <1>2 DEF RewriteWrite, IInv, TypeOK, WalFile
<1>4. CopiesInv'
  BY <1>1, <1>2, <1>3 DEF IndexInv, CopiesInv
<1>5. FrameInv'
  BY <1>1 DEF FrameInv
<1>6. ExactInv'
  BY <1>1 DEF IndexInv, ExactInv, Exact
<1>7. LenInv'
  <2>1. /\ call'.pos = 0 /\ call'.removed = 0 /\ Cardinality(Slots(call'.kept, 0)) = 0
        /\ Cardinality(Slots(call.kept, 0)) = 0
    BY <1>1, NoCallSlots
  <2>2. totalLen >= Cardinality(Slots(sealed, 0)) + Cardinality(active.items) + call.removed
    BY <2>1, <1>1, LenTypes DEF IndexInv, LenInv, IInv
  <2> QED BY <2>1, <2>2, <1>1, LenTypes DEF LenInv, IInv
<1> QED BY <1>4, <1>5, <1>6, <1>7 DEF IndexInv

=============================================================================
