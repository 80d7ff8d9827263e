------------------------ MODULE AgentBufferIdentity -------------------------
(***************************************************************************)
(* Sequence numbers and discards of AgentBuffer in every environment:      *)
(* clock steps, torn writes and interrupted rewrites included.  Neither    *)
(* rests on the invariant of AgentBufferInvariant, which those break.      *)
(***************************************************************************)
EXTENDS AgentBufferInvariant

-----------------------------------------------------------------------------
(* The inductive invariant. *)

\* A record in a file or in the memory of the active segment.
Kept(x) ==
  \/ x \in active.items
  \/ \E n \in Names : x \in zst[n].items \/ x \in wal[n].items

\* Only a running process has an active segment, seal has one to work on,
\* and a name without its file has no records.
PlaceInv ==
  /\ ~Up => active = NilActive
  /\ pc \in {"seal", "unlink"} => active.name # 0
  /\ pc = "orphan" => OrphanNames # {}
  /\ pc = "ack" => call.pos # 0
  /\ pc = "rewrite" /\ active.name \in Names => wal[active.name].exists
  /\ \A n \in Names : ~wal[n].exists => wal[n].items = {}

\* Neither a Seq nor an id is on two records.
DistinctInv ==
  /\ \A x, y : Kept(x) /\ Kept(y) => (x.seq = y.seq \/ x.id = y.id => x = y)
  /\ \A x : Kept(x) => x.id <= appends /\ x.seq <= appends

\* nextSeq is past every Seq in use; in recover, past those of the files that
\* have no active file beside them.
NumberInv ==
  /\ nextSeq <= appends
  /\ Up => \A x : Kept(x) => x.seq <= nextSeq
  /\ pc \in {"recover", "orphan"} =>
       \A n \in Names : ~wal[n].exists => \A x \in zst[n].items : x.seq <= nextSeq

\* The inductive invariant of what numbers and ids say of records, whatever
\* fails.
IdentityInv == TypeOK /\ PlaceInv /\ DistinctInv /\ NumberInv

-----------------------------------------------------------------------------
(* Facts the steps share. *)

\* A record that is kept is a record.
LEMMA KeptItem ==
  ASSUME TypeOK, NEW x, Kept(x)
  PROVE  x \in Item /\ x.seq \in Nat /\ x.id \in Nat
<1>1. active.items \in SUBSET Item /\ \A n \in Names : zst[n].items \in SUBSET Item
      /\ wal[n].items \in SUBSET Item
  BY DEF TypeOK, ActiveSegment, ZstFile, WalFile
<1>2. x \in Item
  BY <1>1, Zenon DEF Kept
<1> QED BY <1>2, ItemSeq

\* A step that adds no record keeps them distinct.
LEMMA NothingNew ==
  ASSUME IdentityInv, TypeOK', appends <= appends', \A x : Kept(x)' => Kept(x)
  PROVE  DistinctInv'
<1>1. \A x : Kept(x)' => x.id <= appends' /\ x.seq <= appends'
  <2> SUFFICES ASSUME NEW x, Kept(x)' PROVE x.id <= appends' /\ x.seq <= appends'
    OBVIOUS
  <2>1. x.id <= appends /\ x.seq <= appends /\ x.id \in Nat /\ x.seq \in Nat
    BY KeptItem DEF IdentityInv, DistinctInv
  <2>2. appends \in Nat /\ appends' \in Nat
    BY BoundsAssumption DEF IdentityInv, TypeOK
  <2> QED BY <2>1, <2>2
<1>2. \A x, y : Kept(x)' /\ Kept(y)' => (x.seq = y.seq \/ x.id = y.id => x = y)
  BY Zenon DEF IdentityInv, DistinctInv
<1> QED BY <1>1, <1>2, Zenon DEF DistinctInv

\* A step of the running process that adds no record and takes no number.
LEMMA FewerStep ==
  ASSUME IdentityInv, TypeOK', Up, Up', UNCHANGED <<nextSeq, appends>>,
         \A x : Kept(x)' => Kept(x),
         pc' \in {"seal", "unlink"} => active'.name # 0,
         pc' = "ack" => call'.pos # 0,
         pc' = "rewrite" /\ active'.name \in Names => wal'[active'.name].exists,
         \A n \in Names : ~wal'[n].exists => wal'[n].items = {}
  PROVE  IdentityInv'
<1>1. PlaceInv'
  BY Zenon DEF PlaceInv, Up
<1>2. DistinctInv'
  <2>1. appends <= appends'
    BY BoundsAssumption DEF IdentityInv, TypeOK
  <2> QED BY <2>1, NothingNew
<1>3. NumberInv'
  BY Zenon DEF IdentityInv, NumberInv, Up
<1> QED BY <1>1, <1>2, <1>3 DEF IdentityInv

\* A step that takes a number and may write the record that has it.
LEMMA NewStep ==
  ASSUME IdentityInv, TypeOK', Up, appends < MaxAppends, appends' = appends + 1,
         nextSeq' = nextSeq + 1 \/ nextSeq' = 0, Up' => nextSeq' = nextSeq + 1,
         NEW p, \A x : Kept(x)' => Kept(x) \/ x = NewItem(p),
         ~Up' => pc' = "down"
  PROVE  DistinctInv' /\ NumberInv'
<1> DEFINE new == NewItem(p)
<1>1. /\ new.id = appends + 1 /\ new.seq = nextSeq + 1
      /\ appends \in Nat /\ nextSeq \in Nat /\ nextSeq <= appends
  BY BoundsAssumption DEF IdentityInv, TypeOK, NumberInv, NewItem
<1> HIDE DEF new
<1>2. \A x : Kept(x) => /\ x.id \in Nat /\ x.id <= appends
                        /\ x.seq \in Nat /\ x.seq <= nextSeq
  BY KeptItem, Zenon DEF IdentityInv, DistinctInv, NumberInv
<1>3. \A x : Kept(x)' => Kept(x) \/ x = new
  BY DEF new
<1>4. \A x : Kept(x) => x.id # new.id /\ x.seq # new.seq
  BY <1>1, <1>2
<1>5. \A x, y : Kept(x)' /\ Kept(y)' => (x.seq = y.seq \/ x.id = y.id => x = y)
  BY <1>3, <1>4, Zenon DEF IdentityInv, DistinctInv
<1>6. \A x : Kept(x)' => x.id <= appends' /\ x.seq <= appends' /\ x.seq <= nextSeq + 1
  BY <1>1, <1>2, <1>3
<1>7. nextSeq' <= appends'
  BY <1>1
<1> QED BY <1>5, <1>6, <1>7 DEF DistinctInv, NumberInv, Up

-----------------------------------------------------------------------------
(* The steps. *)

\* Steps that leave the files, the active segment and the counters alone.
LEMMA StillStep ==
  ASSUME IdentityInv, TypeOK', UNCHANGED <<wal, zst, active, nextSeq, appends>>,
         pc' = pc \/ (Up /\ Up' /\ pc' \notin {"unlink", "rewrite"}),
         pc' = "seal" => active.name # 0,
         pc' = "ack" => call'.pos # 0
  PROVE  IdentityInv'
<1>1. \A x : Kept(x)' <=> Kept(x)
  BY Zenon DEF Kept
<1>2. PlaceInv'
  BY Zenon DEF IdentityInv, PlaceInv, Up, OrphanNames
<1>3. DistinctInv'
  BY <1>1, Zenon DEF IdentityInv, DistinctInv
<1>4. NumberInv'
  BY <1>1, Zenon DEF IdentityInv, NumberInv, Up
<1> QED BY <1>2, <1>3, <1>4 DEF IdentityInv

\* The steps that only move between the calls, and Backfill's sends.
LEMMA QuietDistinct ==
  ASSUME IdentityInv, Close \/ SendOk \/ SendFails \/ AckStart \/ AckFails \/ OldestItems
                   \/ EnforceStart \/ EnforceDone \/ EnforceFails \/ RewriteFails
                   \/ UNCHANGED vars
  PROVE  IdentityInv'
<1> USE DEF disk, memory, history
<1>0. TypeOK
  BY DEF IdentityInv
<1>1. CASE Close
  <2>1. TypeOK'
    BY <1>0, <1>1 DEF Close, TypeOK, Control
  <2> QED BY <2>1, <1>1, StillStep, Zenon DEF Close, Up
<1>2. CASE SendOk
  <2>1. IdsOf(batch.items) \in SUBSET Ids
    BY <1>0 DEF TypeOK, BatchState, IdsOf, Item
  <2>2. batch' \in BatchState
    BY <1>0, <1>2 DEF SendOk, TypeOK, BatchState
  <2>3. TypeOK'
    BY <2>1, <2>2, <1>0, <1>2 DEF SendOk, TypeOK
  <2> QED BY <2>3, <1>2, StillStep, Zenon DEF SendOk, IdentityInv, PlaceInv
<1>3. CASE SendFails
  <2>1. TypeOK'
    BY <1>0, <1>3, NilTypes DEF SendFails, TypeOK
  <2> QED BY <2>1, <1>3, StillStep, Zenon DEF SendFails, IdentityInv, PlaceInv
<1>4. CASE AckStart
  <2>1. call' = [pos |-> 1, kept |-> <<>>, removed |-> 0, then |-> "idle"]
    BY <1>4 DEF AckStart, NoCall
  <2>2. call' \in CallFrame /\ call'.pos # 0
    BY <2>1 DEF CallFrame
  <2>3. TypeOK'
    BY <2>2, <1>0, <1>4, Zenon DEF AckStart, TypeOK, Control
  <2> QED BY <2>2, <2>3, <1>4, StillStep, Zenon DEF AckStart, Up
<1>5. CASE AckFails
  <2>1. TypeOK'
    BY <1>0, <1>5, NilTypes, Zenon DEF AckFails, TypeOK, Control
  <2> QED BY <2>1, <1>5, StillStep, Zenon DEF AckFails, Up
<1>6. CASE OldestItems
  <2>1. pc = "idle" /\ UNCHANGED <<disk, pc, memory, call, history>>
    BY <1>6 DEF OldestItems
  <2>2. PICK p \in Walk : batch' = [stage |-> "sending", last |-> p[2].seq,
                                    items |-> {q[2] : q \in WalkUpTo(p)}]
    BY <1>6, Zenon DEF OldestItems
  <2>3. ASSUME NEW q \in Walk PROVE q[2] \in Item
    <3>1. active.items \in SUBSET Item
          /\ \A i \in DOMAIN sealed : zst[sealed[i].name].items \in SUBSET Item
      BY <1>0, SegmentOf DEF TypeOK, ActiveSegment, ZstFile
    <3>2. q[2] \in active.items \/ \E i \in DOMAIN sealed : q[2] \in zst[sealed[i].name].items
      BY DEF Walk
    <3> QED BY <3>1, <3>2
  <2>4. {q[2] : q \in WalkUpTo(p)} \in SUBSET Item /\ p[2].seq \in 0 .. MaxAppends
    BY <2>3, BoundsAssumption DEF WalkUpTo, Item, Ids
  <2>5. batch' \in BatchState
    BY <2>2, <2>4 DEF BatchState
  <2>6. TypeOK'
    BY <2>1, <2>5, <1>0 DEF TypeOK
  <2> QED BY <2>1, <2>6, StillStep, Zenon
<1>7. CASE EnforceStart \/ EnforceDone \/ EnforceFails
  <2>1. /\ pc \in {"idle", "enforce"} /\ pc' \in {"idle", "enforce"}
        /\ UNCHANGED <<disk, memory, call, batch, history>>
    BY <1>7 DEF EnforceStart, EnforceDone, EnforceFails
  <2>2. TypeOK'
    BY <2>1, <1>0 DEF TypeOK, Control
  <2> QED BY <2>1, <2>2, StillStep, Zenon DEF Up
<1>8. CASE RewriteFails
  <2>1. TypeOK'
    BY <1>0, <1>8, NilTypes, Zenon DEF RewriteFails, TypeOK, Control
  <2> QED BY <2>1, <1>8, StillStep, Zenon DEF RewriteFails, Up
<1>9. CASE UNCHANGED vars
  <2>1. TypeOK'
    BY <1>0, <1>9 DEF vars, TypeOK
  <2> QED BY <2>1, <1>9, StillStep, Zenon DEF vars, IdentityInv, PlaceInv
<1> QED BY <1>1, <1>2, <1>3, <1>4, <1>5, <1>6, <1>7, <1>8, <1>9

\* Sealing moves records and adds none.
LEMMA SealDistinct ==
  ASSUME IdentityInv, SealWrite \/ SealUnlink \/ SealFails
  PROVE  IdentityInv'
<1> USE DEF disk, history
<1>0. TypeOK /\ PlaceInv
  BY DEF IdentityInv
<1>1. /\ pc \in {"seal", "unlink"} /\ Up /\ active.name \in Names
      /\ active.items \in SUBSET Item
  BY <1>0 DEF SealWrite, SealUnlink, SealFails, PlaceInv, Up, TypeOK, ActiveSegment, Names
<1>2. ASSUME active' = [active EXCEPT !.open = FALSE]
      PROVE  /\ active' \in ActiveSegment /\ active'.name = active.name
             /\ active'.items = active.items
  BY <1>0, <1>2 DEF TypeOK, ActiveSegment
<1>3. CASE SealWrite
  <2> DEFINE copy == [exists |-> TRUE, items |-> active.items]
  <2>1. copy \in ZstFile /\ copy.items = active.items
    BY <1>1 DEF ZstFile
  <2> HIDE DEF copy
  <2>2. /\ pc' = "unlink" /\ zst' = [zst EXCEPT ![active.name] = copy]
        /\ UNCHANGED <<wal, maxName, nextSeq, sealed, totalLen, call, batch, history>>
        /\ active' = [active EXCEPT !.open = FALSE]
    BY <1>3, Zenon DEF SealWrite, copy
  <2>3. zst' \in [Names -> ZstFile]
        /\ \A n \in Names : zst'[n] = IF n = active.name THEN copy ELSE zst[n]
    BY <2>1, <2>2, <1>0, <1>1, Zenon DEF TypeOK
  <2>4. TypeOK'
    BY <2>2, <2>3, <1>0, <1>2, Zenon DEF TypeOK, Control
  <2>5. \A x : Kept(x)' => Kept(x)
    BY <2>1, <2>2, <2>3, <1>2, Zenon DEF Kept
  <2>6. active'.name # 0
    BY <2>2, <1>1, <1>2 DEF Names
  <2>7. Up'
    BY <2>2 DEF Up
  <2> QED BY <2>2, <2>4, <2>5, <2>6, <2>7, <1>0, <1>1, FewerStep, Zenon DEF PlaceInv
<1>4. CASE SealUnlink
  <2>1. /\ pc' = "idle" /\ wal' = [wal EXCEPT ![active.name] = NoWal]
        /\ sealed' = Append(sealed, Meta(active.name, active.items))
        /\ active' = NilActive
        /\ UNCHANGED <<zst, maxName, nextSeq, totalLen, call, batch, history>>
    BY <1>4 DEF SealUnlink
  <2>2. sealed' \in Seq(Segment)
    <3>1. Meta(active.name, active.items) \in Segment /\ sealed \in Seq(Segment)
      BY <1>0, <1>1, MetaBounds DEF TypeOK
    <3> QED BY <3>1, <2>1
  <2>3. wal' \in [Names -> WalFile]
        /\ \A n \in Names : wal'[n] = IF n = active.name THEN NoWal ELSE wal[n]
    BY <2>1, <1>0, NilTypes, Zenon DEF TypeOK
  <2>4. TypeOK'
    BY <2>1, <2>2, <2>3, <1>0, NilTypes, Zenon DEF TypeOK, Control
  <2>5. NoWal.items = {} /\ NilActive.items = {}
    BY DEF NoWal, NilActive
  <2>6. \A x : Kept(x)' => Kept(x)
    BY <2>1, <2>3, <2>5, Zenon DEF Kept
  <2>7. Up' /\ \A n \in Names : ~wal'[n].exists => wal'[n].items = {}
    BY <2>1, <2>3, <2>5, <1>0, Zenon DEF Up, PlaceInv
  <2> QED BY <2>1, <2>4, <2>6, <2>7, <1>1, FewerStep, Zenon
<1>5. CASE SealFails
  <2>1. /\ pc' = "idle" /\ active' = [active EXCEPT !.open = FALSE]
        /\ UNCHANGED <<disk, nextSeq, sealed, totalLen, call, batch, history>>
    BY <1>5, Zenon DEF SealFails
  <2>2. TypeOK'
    BY <2>1, <1>0, <1>2, Zenon DEF TypeOK, Control
  <2>3. \A x : Kept(x)' => Kept(x)
    BY <2>1, <1>2, Zenon DEF Kept
  <2>4. Up' /\ \A n \in Names : ~wal'[n].exists => wal'[n].items = {}
    BY <2>1, <1>0, Zenon DEF Up, PlaceInv
  <2> QED BY <2>1, <2>2, <2>3, <2>4, <1>1, FewerStep, Zenon
<1> QED BY <1>3, <1>4, <1>5

\* Ack's loop removes records from one sealed file.
LEMMA AckSegmentDistinct == ASSUME IdentityInv, AckSegment PROVE IdentityInv'
<1> USE DEF history
<1> DEFINE seg == sealed[call.pos]
           n == seg.name
           items == zst[n].items
           left == {it \in items : it.seq > batch.last}
<1>0. TypeOK /\ PlaceInv
  BY DEF IdentityInv
<1>1. /\ pc = "ack" /\ call.pos <= Len(sealed)
      /\ UNCHANGED <<wal, maxName, pc, nextSeq, active, sealed, batch, history>>
  BY Zenon DEF AckSegment
<1>2. call.pos \in DOMAIN sealed
  <2>1. call.pos # 0 /\ sealed \in Seq(Segment)
    BY <1>0, <1>1 DEF PlaceInv, TypeOK
  <2> QED BY <2>1, <1>0, <1>1, Numbers
<1>3. /\ seg \in Segment /\ n \in Names /\ seg.count \in Nat /\ items \in SUBSET Item
      /\ call.kept \in Seq(Segment) /\ totalLen \in Int
  BY <1>0, <1>2, SegmentOf DEF TypeOK, Segment, ZstFile, CallFrame
<1>4. left \in SUBSET Item /\ left \subseteq items
  BY <1>3
<1>5. Cardinality(left) \in Nat /\ Cardinality(items) \in Nat
  BY <1>3, <1>4, ItemsFinite, Zenon
<1>6. Meta(n, left) \in Segment
  BY <1>3, <1>4, MetaBounds, Zenon
<1>7. ASSUME NEW k \in Seq(Segment)
      PROVE  NextTurn(k) \in CallFrame /\ NextTurn(k).pos # 0
  BY <1>0, <1>7, Numbers DEF NextTurn, CallFrame
<1>8. /\ Append(call.kept, seg) \in Seq(Segment)
      /\ Append(call.kept, Meta(n, left)) \in Seq(Segment)
  <2> HIDE DEF seg, n, left
  <2> QED BY <1>3, <1>6
<1>9. /\ \/ zst' = zst
         \/ zst' = [zst EXCEPT ![n] = NoZst]
         \/ zst' = [zst EXCEPT ![n] = [exists |-> TRUE, items |-> left]]
      /\ \/ totalLen' = totalLen
         \/ totalLen' = totalLen - seg.count
         \/ totalLen' = totalLen - (Cardinality(items) - Cardinality(left))
      /\ \/ call' = NextTurn(call.kept)
         \/ call' = NextTurn(Append(call.kept, seg))
         \/ call' = NextTurn(Append(call.kept, Meta(n, left)))
  BY Zenon DEF AckSegment
<1> HIDE DEF left, items
<1>10. /\ NoZst \in ZstFile /\ NoZst.items = {}
       /\ [exists |-> TRUE, items |-> left] \in ZstFile
  BY <1>4, NilTypes DEF ZstFile, NoZst
<1>11. /\ zst' \in [Names -> ZstFile]
       /\ \A m \in Names : zst'[m].items \subseteq zst[m].items
  <2>1. CASE zst' = zst
    BY <2>1, <1>0 DEF TypeOK
  <2>2. CASE zst' = [zst EXCEPT ![n] = NoZst]
    BY <2>2, <1>0, <1>3, <1>10 DEF TypeOK
  <2>3. CASE zst' = [zst EXCEPT ![n] = [exists |-> TRUE, items |-> left]]
    <3>1. zst' \in [Names -> ZstFile]
          /\ \A m \in Names : zst'[m] = IF m = n THEN [exists |-> TRUE, items |-> left]
                                                 ELSE zst[m]
      BY <2>3, <1>0, <1>3, <1>10, Zenon DEF TypeOK
    <3> QED BY <3>1, <1>4 DEF items
  <2> QED BY <2>1, <2>2, <2>3, <1>9
<1>12. totalLen' \in Int
  <2> HIDE DEF seg
  <2> QED BY <1>3, <1>5, <1>9
<1>13. call' \in CallFrame /\ call'.pos # 0
  BY <1>3, <1>7, <1>8, <1>9, Zenon
<1>14. TypeOK'
  BY <1>0, <1>1, <1>11, <1>12, <1>13, Zenon DEF TypeOK
<1>15. \A x : Kept(x)' => Kept(x)
  BY <1>1, <1>11, Zenon DEF Kept
<1>16. Up /\ Up' /\ \A m \in Names : ~wal'[m].exists => wal'[m].items = {}
  BY <1>0, <1>1, Zenon DEF Up, PlaceInv
<1> QED BY <1>1, <1>13, <1>14, <1>15, <1>16, FewerStep, Zenon

\* Truncating the active file takes records away and adds none.
LEMMA TruncatedStep ==
  ASSUME TypeOK, PlaceInv,
         wal' = wal \/ wal' = [wal EXCEPT ![active.name] = EmptyWal]
  PROVE  /\ wal' \in [Names -> WalFile]
         /\ \A n \in Names : wal'[n].items \subseteq wal[n].items
         /\ \A n \in Names : ~wal'[n].exists => wal'[n].items = {}
<1>1. EmptyWal \in WalFile /\ EmptyWal.items = {} /\ EmptyWal.exists
  BY BoundsAssumption DEF WalFile, EmptyWal
<1>2. CASE wal' = wal
  BY <1>2 DEF TypeOK, PlaceInv
<1>3. CASE wal' = [wal EXCEPT ![active.name] = EmptyWal]
  <2>1. wal' \in [Names -> WalFile]
        /\ \A n \in Names : wal'[n] = IF n = active.name THEN EmptyWal ELSE wal[n]
    BY <1>1, <1>3, Zenon DEF TypeOK
  <2> QED BY <2>1, <1>1 DEF PlaceInv
<1> QED BY <1>2, <1>3

\* The tail of Ack drops active items and truncates their file.
LEMMA AckActiveDistinct == ASSUME IdentityInv, AckActive PROVE IdentityInv'
<1> USE DEF history
<1> DEFINE left == {it \in active.items : it.seq > batch.last}
           k == Cardinality(active.items \ left)
<1>0. TypeOK /\ PlaceInv
  BY DEF IdentityInv
<1>1. /\ pc = "ack" /\ sealed' = call.kept
      /\ UNCHANGED <<zst, maxName, nextSeq, totalLen, history>>
      /\ active' = active \/ active' = [active EXCEPT !.items = left]
      /\ \/ /\ pc' = "idle" /\ call' = NoCall /\ batch' = NoBatch /\ wal' = wal
         \/ /\ pc' = "rewrite" /\ call' = InRewrite(k, "idle") /\ batch' = batch
            /\ wal' = [wal EXCEPT ![active.name] = EmptyWal]
  BY Zenon DEF AckActive
<1>2. left \subseteq active.items /\ active.items \in SUBSET Item
  BY <1>0 DEF TypeOK, ActiveSegment
<1>3. k \in Nat
  <2>1. active.items \ left \in SUBSET Item
    BY <1>2
  <2> QED BY <2>1, ItemsFinite, Zenon
<1> HIDE DEF left, k
<1>4. /\ active' \in ActiveSegment /\ active'.name = active.name
      /\ active'.items \subseteq active.items
  BY <1>0, <1>1, <1>2 DEF TypeOK, ActiveSegment
<1>5. InRewrite(k, "idle") \in CallFrame
  BY <1>3 DEF InRewrite, CallFrame
<1>6. sealed' \in Seq(Segment)
  BY <1>0, <1>1 DEF TypeOK, CallFrame
<1>7. /\ wal' \in [Names -> WalFile]
      /\ \A n \in Names : wal'[n].items \subseteq wal[n].items
      /\ \A n \in Names : ~wal'[n].exists => wal'[n].items = {}
  BY <1>0, <1>1, TruncatedStep, Zenon
<1>8. pc' = "rewrite" /\ active'.name \in Names => wal'[active'.name].exists
  <2>1. EmptyWal.exists
    BY DEF EmptyWal
  <2> QED BY <2>1, <1>0, <1>1, <1>4 DEF TypeOK
<1>9. TypeOK'
  <2>1. pc' \in Control /\ call' \in CallFrame /\ batch' \in BatchState
    BY <1>0, <1>1, <1>5, NilTypes DEF TypeOK, Control
  <2> QED BY <2>1, <1>0, <1>1, <1>4, <1>6, <1>7, Zenon DEF TypeOK
<1>10. \A x : Kept(x)' => Kept(x)
  BY <1>1, <1>4, <1>7, Zenon DEF Kept
<1>11. Up /\ Up' /\ pc' \notin {"ack", "seal", "unlink"}
  BY <1>1 DEF Up
<1>12. UNCHANGED <<nextSeq, appends>>
  BY <1>1
<1> QED BY <1>7, <1>8, <1>9, <1>10, <1>11, <1>12, FewerStep, Zenon

\* rewrite writes back what the active segment holds.
LEMMA RewriteWriteDistinct == ASSUME IdentityInv, RewriteWrite PROVE IdentityInv'
<1> USE DEF history
<1>0. TypeOK /\ PlaceInv
  BY DEF IdentityInv
<1>1. /\ pc = "rewrite" /\ wal' = [wal EXCEPT ![active.name].items = active.items]
      /\ totalLen' = totalLen - call.removed /\ pc' = call.then /\ call' = NoCall
      /\ batch' = NoBatch \/ batch' = batch
      /\ UNCHANGED <<zst, maxName, nextSeq, active, sealed, history>>
  BY Zenon DEF RewriteWrite
<1>2. pc' \in {"idle", "enforce"} /\ totalLen' \in Int /\ active.items \in SUBSET Item
  BY <1>0, <1>1 DEF TypeOK, CallFrame, ActiveSegment
<1>3. wal' \in [Names -> WalFile]
  BY <1>0, <1>1, <1>2, Zenon DEF TypeOK, WalFile
<1>4. ASSUME NEW n \in Names
      PROVE  /\ wal'[n] = wal[n]
                  \/ (n = active.name /\ wal'[n].items = active.items /\ wal'[n].exists)
  <2>1. CASE n # active.name
    BY <2>1, <1>0, <1>1 DEF TypeOK
  <2>2. CASE n = active.name
    <3>1. wal[n] \in WalFile /\ wal[n].exists
      BY <2>2, <1>0, <1>1 DEF TypeOK, PlaceInv
    <3>2. wal'[n] = [wal[n] EXCEPT !.items = active.items]
      BY <2>2, <1>0, <1>1 DEF TypeOK
    <3> QED BY <3>1, <3>2, <2>2 DEF WalFile
  <2> QED BY <2>1, <2>2
<1>5. TypeOK'
  BY <1>0, <1>1, <1>2, <1>3, NilTypes DEF TypeOK, Control
<1>6. \A x : Kept(x)' => Kept(x)
  BY <1>1, <1>4, Zenon DEF Kept
<1>7. Up /\ Up' /\ pc' \notin {"ack", "seal", "unlink", "rewrite"}
      /\ \A n \in Names : ~wal'[n].exists => wal'[n].items = {}
  BY <1>0, <1>1, <1>2, <1>4 DEF Up, PlaceInv
<1>8. UNCHANGED <<nextSeq, appends>>
  BY <1>1
<1> QED BY <1>5, <1>6, <1>7, <1>8, FewerStep, Zenon

\* EnforceCapacity only ever removes.
LEMMA EnforceDiscardDistinct == ASSUME IdentityInv, EnforceDiscard PROVE IdentityInv'
<1>0. TypeOK /\ PlaceInv
  BY DEF IdentityInv
<1>1. PICK it \in Victims : /\ DiscardActive(it) \/ DiscardSealed(it)
                            /\ discarded' = discarded \cup {it.id}
  BY Zenon DEF EnforceDiscard
<1>2. pc = "enforce" /\ UNCHANGED <<maxName, nextSeq, batch, appends, accepted, confirmed>>
  BY Zenon DEF EnforceDiscard
<1>3. discarded' \in SUBSET Ids
  <2>1. Held \in SUBSET Item
    <3>1. active.items \in SUBSET Item
          /\ \A i \in DOMAIN sealed : zst[sealed[i].name].items \in SUBSET Item
      BY <1>0, SegmentOf DEF TypeOK, ActiveSegment, ZstFile
    <3> QED BY <3>1, Zenon DEF Held
  <2>2. it \in Item
    BY <2>1 DEF Victims
  <2> QED BY <2>2, <1>0, <1>1 DEF TypeOK, Item
<1>4. CASE DiscardActive(it)
  <2>1. /\ active' = [active EXCEPT !.items = @ \ {it}]
        /\ \/ /\ wal' = [wal EXCEPT ![active.name] = EmptyWal]
              /\ pc' = "rewrite" /\ call' = InRewrite(1, "enforce")
           \/ pc' = "idle" /\ UNCHANGED <<wal, call>>
        /\ UNCHANGED <<zst, sealed, totalLen>>
    BY <1>4, Zenon DEF DiscardActive
  <2>2. /\ active' \in ActiveSegment /\ active'.name = active.name
        /\ active'.items \subseteq active.items
    BY <2>1, <1>0 DEF TypeOK, ActiveSegment
  <2>3. /\ wal' \in [Names -> WalFile]
        /\ \A n \in Names : wal'[n].items \subseteq wal[n].items
        /\ \A n \in Names : ~wal'[n].exists => wal'[n].items = {}
    BY <2>1, <1>0, TruncatedStep, Zenon
  <2>4. pc' = "rewrite" /\ active'.name \in Names => wal'[active'.name].exists
    <3>1. EmptyWal.exists
      BY DEF EmptyWal
    <3> QED BY <3>1, <2>1, <2>2, <1>0 DEF TypeOK
  <2>5. InRewrite(1, "enforce") \in CallFrame
    BY DEF InRewrite, CallFrame
  <2>6. TypeOK'
    BY <2>1, <2>2, <2>3, <2>5, <1>0, <1>2, <1>3, Zenon DEF TypeOK, Control
  <2>7. \A x : Kept(x)' => Kept(x)
    BY <2>1, <2>2, <2>3, Zenon DEF Kept
  <2>8. Up /\ Up' /\ pc' \notin {"ack", "seal", "unlink"}
    BY <2>1, <1>2 DEF Up
  <2> QED BY <2>3, <2>4, <2>6, <2>7, <2>8, <1>2, FewerStep, Zenon
<1>5. CASE DiscardSealed(it)
  <2>1. UNCHANGED <<wal, pc, active, call>> /\ totalLen' = totalLen - 1
    BY <1>5, Zenon DEF DiscardSealed
  <2>2. PICK i \in FoundAt(it) :
          LET n == sealed[i].name
              left == zst[n].items \ {it}
          IN IF left = {}
               THEN /\ zst' = [zst EXCEPT ![n] = NoZst]
                    /\ sealed' = SubSeq(sealed, 1, i - 1)
                                   \o SubSeq(sealed, i + 1, Len(sealed))
               ELSE /\ zst' = [zst EXCEPT
                         ![n] = [exists |-> TRUE, items |-> left]]
                    /\ sealed' = [sealed EXCEPT ![i] = Meta(n, left)]
    BY <1>5, Zenon DEF DiscardSealed
  <2> DEFINE n == sealed[i].name
             left == zst[n].items \ {it}
  <2>3. i \in DOMAIN sealed /\ n \in Names /\ zst[n].items \in SUBSET Item
    <3>1. i \in DOMAIN sealed
      BY DEF FoundAt, Candidates
    <3> QED BY <3>1, <1>0, SegmentOf DEF TypeOK, ZstFile
  <2>4. left \in SUBSET Item /\ left \subseteq zst[n].items
    BY <2>3
  <2>5. Meta(n, left) \in Segment
    BY <2>3, <2>4, MetaBounds, Zenon
  <2>6. zst' = [zst EXCEPT ![n] = NoZst]
          \/ zst' = [zst EXCEPT ![n] = [exists |-> TRUE, items |-> left]]
    BY <2>2, Zenon
  <2>7. sealed' = SubSeq(sealed, 1, i - 1) \o SubSeq(sealed, i + 1, Len(sealed))
          \/ sealed' = [sealed EXCEPT ![i] = Meta(n, left)]
    BY <2>2, Zenon
  <2> HIDE DEF left
  <2>8. sealed' \in Seq(Segment)
    <3>1. SubSeq(sealed, 1, i - 1) \o SubSeq(sealed, i + 1, Len(sealed)) \in Seq(Segment)
      BY <2>3, <1>0, IndexRemove, Zenon DEF TypeOK
    <3>2. [sealed EXCEPT ![i] = Meta(n, left)] \in Seq(Segment)
      <4> HIDE DEF n
      <4> QED BY <2>3, <2>5, <1>0 DEF TypeOK
    <3> QED BY <3>1, <3>2, <2>7, Zenon
  <2>9. /\ NoZst \in ZstFile /\ NoZst.items = {}
        /\ [exists |-> TRUE, items |-> left] \in ZstFile
    BY <2>4, NilTypes DEF ZstFile, NoZst
  <2>10. /\ zst' \in [Names -> ZstFile]
         /\ \A m \in Names : zst'[m].items \subseteq zst[m].items
    <3>1. CASE zst' = [zst EXCEPT ![n] = NoZst]
      BY <3>1, <2>3, <2>9, <1>0 DEF TypeOK
    <3>2. CASE zst' = [zst EXCEPT ![n] = [exists |-> TRUE, items |-> left]]
      <4>1. zst' \in [Names -> ZstFile]
            /\ \A m \in Names : zst'[m] = IF m = n THEN [exists |-> TRUE, items |-> left]
                                                   ELSE zst[m]
        BY <3>2, <2>3, <2>9, <1>0, Zenon DEF TypeOK
      <4> QED BY <4>1, <2>4
    <3> QED BY <3>1, <3>2, <2>6
  <2>11. totalLen' \in Int
    BY <2>1, <1>0 DEF TypeOK
  <2>12. TypeOK'
    BY <2>1, <2>8, <2>10, <2>11, <1>0, <1>2, <1>3, Zenon DEF TypeOK
  <2>13. \A x : Kept(x)' => Kept(x)
    BY <2>1, <2>10, Zenon DEF Kept
  <2>14. Up /\ Up' /\ pc' \notin {"ack", "seal", "unlink", "rewrite"}
         /\ \A m \in Names : ~wal'[m].exists => wal'[m].items = {}
    BY <2>1, <1>0, <1>2 DEF Up, PlaceInv
  <2> QED BY <2>12, <2>13, <2>14, <1>2, FewerStep, Zenon
<1> QED BY <1>1, <1>4, <1>5

\* recover's first loop: nextSeq is past every sealed record.
LEMMA OpenDistinct == ASSUME IdentityInv, Open PROVE IdentityInv'
<1> USE DEF disk, history
<1>0. TypeOK /\ PlaceInv /\ DistinctInv
  BY DEF IdentityInv
<1>1. /\ pc = "down" /\ pc' = "recover" /\ nextSeq' = MaxSeqOnDisk
      /\ UNCHANGED <<disk, active, call, batch, history>>
  BY DEF Open
<1>2. sealed' \in Seq(Segment) /\ totalLen' \in Int
  BY <1>0, OpenIndex
<1>3. \A n \in Names : \A it \in zst[n].items : it.seq <= appends
  BY <1>0, Zenon DEF DistinctInv, Kept
<1>4. /\ MaxSeqOnDisk \in 0 .. MaxAppends /\ MaxSeqOnDisk <= appends
      /\ \A n \in Names : \A it \in zst[n].items : it.seq <= MaxSeqOnDisk
  BY <1>0, <1>3, MaxSeqBounds, Zenon
<1>5. TypeOK'
  BY <1>0, <1>1, <1>2, <1>4, Zenon DEF TypeOK, Control
<1>6. PlaceInv'
  BY <1>0, <1>1, Zenon DEF PlaceInv, Up
<1>7. DistinctInv'
  BY <1>0, <1>1, Zenon DEF DistinctInv, Kept
<1>8. NumberInv'
  BY <1>1, <1>4, Zenon DEF NumberInv, Up
<1> QED BY <1>5, <1>6, <1>7, <1>8 DEF IdentityInv

\* The name recovery seals next has an active file.
LEMMA NextOrphan ==
  ASSUME TypeOK, OrphanNames # {}
  PROVE  Min(OrphanNames) \in Names /\ wal[Min(OrphanNames)].exists
<1>1. OrphanNames \in SUBSET Nat /\ \A x \in OrphanNames : x <= MaxSegments
  BY Numbers DEF OrphanNames, Names
<1>2. Min(OrphanNames) \in OrphanNames
  BY <1>1, MinOfNaturals, Numbers, Zenon
<1> QED BY <1>2 DEF OrphanNames

\* recover's second loop copies what it can read of an active file ...
LEMMA SealOrphanDistinct == ASSUME IdentityInv, SealOrphan PROVE IdentityInv'
<1> USE DEF memory, history
<1> DEFINE n == Min(OrphanNames)
           copy == [exists |-> TRUE, items |-> Readable(wal[n])]
<1>0. TypeOK /\ PlaceInv
  BY DEF IdentityInv
<1>1. /\ pc = "recover" /\ pc' = "orphan" /\ OrphanNames # {}
      /\ zst' = [zst EXCEPT ![n] = copy]
      /\ UNCHANGED <<wal, maxName, memory, call, batch, history>>
  BY DEF SealOrphan
<1>2. n \in Names /\ wal[n].exists
  BY <1>0, <1>1, NextOrphan
<1> HIDE DEF n
<1>3. copy.items \subseteq wal[n].items /\ copy \in ZstFile
  <2>1. wal[n].items \in SUBSET Item
    BY <1>0, <1>2 DEF TypeOK, WalFile
  <2> QED BY <2>1 DEF Readable, ZstFile
<1> HIDE DEF copy
<1>4. /\ zst' \in [Names -> ZstFile]
      /\ \A m \in Names : zst'[m] = IF m = n THEN copy ELSE zst[m]
  BY <1>0, <1>1, <1>2, <1>3, Zenon DEF TypeOK
<1>5. TypeOK'
  BY <1>0, <1>1, <1>4, Zenon DEF TypeOK, Control
<1>6. \A x : Kept(x)' => Kept(x)
  BY <1>1, <1>2, <1>3, <1>4, Zenon DEF Kept
<1>7. PlaceInv'
  BY <1>0, <1>1, Zenon DEF PlaceInv, Up, OrphanNames
<1>8. DistinctInv'
  <2>1. appends <= appends'
    BY <1>0, <1>1, Numbers
  <2> QED BY <2>1, <1>5, <1>6, NothingNew
<1>9. NumberInv'
  BY <1>1, <1>2, <1>4, Zenon DEF IdentityInv, NumberInv, Up
<1> QED BY <1>5, <1>7, <1>8, <1>9 DEF IdentityInv

\* ... and removes it, with nextSeq past what the copy holds.
LEMMA UnlinkOrphanDistinct == ASSUME IdentityInv, UnlinkOrphan PROVE IdentityInv'
<1> USE DEF memory, history
<1> DEFINE n == Min(OrphanNames)
           items == zst[n].items
           S == {nextSeq} \cup Seqs(items)
<1>0. TypeOK /\ PlaceInv /\ DistinctInv /\ NumberInv
  BY DEF IdentityInv
<1>1. /\ pc = "orphan" /\ pc' = "recover" /\ active' = active
      /\ wal' = [wal EXCEPT ![n] = NoWal]
      /\ \/ items = {} /\ UNCHANGED <<nextSeq, sealed, totalLen>>
         \/ /\ sealed' = Append(sealed, Meta(n, items))
            /\ totalLen' = totalLen + Cardinality(items)
            /\ nextSeq' = Max(S)
      /\ UNCHANGED <<zst, maxName, call, batch, history>>
  BY Zenon DEF UnlinkOrphan
<1>2. n \in Names /\ wal[n].exists /\ items \in SUBSET Item
  <2>1. OrphanNames # {}
    BY <1>0, <1>1 DEF PlaceInv
  <2>2. n \in Names /\ wal[n].exists
    BY <2>1, <1>0, NextOrphan
  <2> QED BY <2>2, <1>0 DEF TypeOK, ZstFile
<1> HIDE DEF n
<1>3. \A it \in items : it.seq \in S /\ it.seq \in Nat /\ it.seq <= appends
  <2>1. \A it \in items : it.seq <= appends
    BY <1>0, <1>2, Zenon DEF DistinctInv, Kept
  <2> QED BY <2>1, <1>2, ItemSeq DEF Seqs
<1>4. S \in SUBSET Nat /\ S # {} /\ nextSeq \in S /\ \A x \in S : x <= appends
  BY <1>0, <1>3, Numbers DEF NumberInv, Seqs
<1>5. Cardinality(items) \in Nat /\ Meta(n, items) \in Segment
  BY <1>2, ItemsFinite, MetaBounds, Zenon
<1> HIDE DEF S, items
<1>6. Max(S) \in S /\ \A x \in S : x <= Max(S)
  BY <1>0, <1>4, MaxOfBounded, Numbers, Zenon
<1>7. /\ nextSeq' \in Nat /\ nextSeq <= nextSeq' /\ nextSeq' <= appends
      /\ \A it \in items : it.seq <= nextSeq'
  <2>1. CASE items = {} /\ nextSeq' = nextSeq
    BY <2>1, <1>0, Numbers DEF NumberInv
  <2>2. CASE nextSeq' = Max(S)
    BY <2>2, <1>3, <1>4, <1>6, Zenon
  <2> QED BY <2>1, <2>2, <1>1
<1>8. sealed' \in Seq(Segment) /\ totalLen' \in Int
  <2>1. sealed \in Seq(Segment) /\ totalLen \in Int
    BY <1>0 DEF TypeOK
  <2>2. Append(sealed, Meta(n, items)) \in Seq(Segment)
    BY <2>1, <1>5
  <2>3. totalLen + Cardinality(items) \in Int
    BY <2>1, <1>5
  <2> QED BY <2>1, <2>2, <2>3, <1>1
<1>9. /\ wal' \in [Names -> WalFile]
      /\ \A m \in Names : wal'[m] = IF m = n THEN NoWal ELSE wal[m]
  BY <1>0, <1>1, NilTypes, Zenon DEF TypeOK
<1>10. TypeOK'
  <2>1. nextSeq' \in 0 .. MaxAppends
    BY <1>0, <1>7, Numbers DEF TypeOK
  <2> QED BY <2>1, <1>0, <1>1, <1>8, <1>9, Zenon DEF TypeOK, Control
<1>11. NoWal.items = {}
  BY DEF NoWal
<1>12. PlaceInv'
  BY <1>0, <1>1, <1>9, <1>11, Zenon DEF PlaceInv, Up
<1>13. DistinctInv'
  <2>1. \A x : Kept(x)' => Kept(x)
    BY <1>1, <1>9, <1>11, Zenon DEF Kept
  <2>2. appends <= appends'
    BY <1>0, <1>1, Numbers
  <2> QED BY <2>1, <2>2, <1>10, NothingNew
<1>14. NumberInv'
  <2>1. ASSUME NEW m \in Names, ~wal'[m].exists, NEW x \in zst[m].items
        PROVE  x.seq <= nextSeq'
    <3>1. CASE m = n
      BY <3>1, <2>1, <1>7 DEF items
    <3>2. CASE m # n
      <4>1. ~wal[m].exists
        BY <3>2, <2>1, <1>9
      <4>2. x.seq <= nextSeq
        BY <4>1, <1>0, <1>1, <2>1 DEF NumberInv
      <4>3. x.seq \in Nat
        BY <1>0, <2>1, KeptItem DEF Kept
      <4> QED BY <4>2, <4>3, <1>0, <1>7, Numbers
    <3> QED BY <3>1, <3>2
  <2> QED BY <2>1, <1>1, <1>7, Zenon DEF NumberInv, Up
<1> QED BY <1>10, <1>12, <1>13, <1>14 DEF IdentityInv

\* When no active file is left, nextSeq is past every record; and a crash
\* leaves the files as they are.
LEMMA OpenDoneCrashDistinct == ASSUME IdentityInv, OpenDone \/ Crash PROVE IdentityInv'
<1> USE DEF disk, memory, history
<1>0. TypeOK /\ PlaceInv /\ DistinctInv /\ NumberInv
  BY DEF IdentityInv
<1>1. CASE OpenDone
  <2>1. /\ pc = "recover" /\ pc' = "idle" /\ OrphanNames = {}
        /\ UNCHANGED <<disk, memory, call, batch, history>>
    BY <1>1 DEF OpenDone
  <2>2. TypeOK'
    BY <2>1, <1>0 DEF TypeOK, Control
  <2>3. \A n \in Names : ~wal[n].exists /\ wal[n].items = {}
    BY <2>1, <1>0 DEF PlaceInv, OrphanNames
  <2>4. active.items = {}
    BY <2>1, <1>0 DEF PlaceInv, Up, NilActive
  <2>5. \A x : Kept(x) => x.seq <= nextSeq
    BY <2>1, <2>3, <2>4, <1>0, Zenon DEF Kept, NumberInv
  <2>6. PlaceInv'
    BY <2>1, <1>0, Zenon DEF PlaceInv, Up
  <2>7. DistinctInv' /\ NumberInv'
    BY <2>1, <2>5, <1>0, Zenon DEF DistinctInv, NumberInv, Kept
  <2> QED BY <2>2, <2>6, <2>7 DEF IdentityInv
<1>2. CASE Crash
  <2>1. /\ pc' = "down" /\ nextSeq' = 0 /\ active' = NilActive /\ sealed' = <<>>
        /\ totalLen' = 0 /\ call' = NoCall /\ batch' = NoBatch
        /\ UNCHANGED <<disk, history>>
    BY <1>2, Zenon DEF Crash
  <2>2. TypeOK'
    BY <2>1, <1>0, NilTypes, BoundsAssumption DEF TypeOK, Control
  <2>3. NilActive.items = {}
    BY DEF NilActive
  <2>4. \A x : Kept(x)' => Kept(x)
    BY <2>1, <2>3, Zenon DEF Kept
  <2>5. PlaceInv'
    BY <2>1, <1>0, Zenon DEF PlaceInv, Up
  <2>6. appends <= appends' /\ nextSeq' <= appends'
    BY <2>1, <1>0, Numbers
  <2>7. DistinctInv'
    BY <2>2, <2>4, <2>6, NothingNew
  <2>8. NumberInv'
    BY <2>1, <2>6, Zenon DEF NumberInv, Up
  <2> QED BY <2>2, <2>5, <2>7, <2>8 DEF IdentityInv
<1> QED BY <1>1, <1>2

\* The file Append writes to, and the record it writes.
LEMMA AppendTarget ==
  ASSUME IdentityInv, appends < MaxAppends, NEW p \in Priorities
  PROVE  /\ \A n \in Targets : n \in Names /\ n # 0 /\ Max({maxName, n}) \in 0 .. MaxSegments
         /\ NewItem(p) \in Item /\ NewItem(p).id \in Ids
         /\ nextSeq + 1 \in 0 .. MaxAppends /\ appends + 1 \in 0 .. MaxAppends
<1>0. TypeOK /\ nextSeq <= appends
  BY DEF IdentityInv, NumberInv
<1>1. ASSUME NEW n \in Targets
      PROVE  n \in Names /\ n # 0 /\ Max({maxName, n}) \in 0 .. MaxSegments
  <2>1. n \in Names
    BY <1>0 DEF Targets, NewNames, TypeOK, ActiveSegment, Names
  <2>2. n \in Nat /\ n # 0 /\ n <= MaxSegments /\ maxName \in Nat /\ maxName <= MaxSegments
    BY <2>1, <1>0, Numbers DEF Names, TypeOK
  <2>3. {maxName, n} \in SUBSET Nat /\ {maxName, n} # {}
        /\ \A x \in {maxName, n} : x <= MaxSegments
    BY <2>2
  <2>4. Max({maxName, n}) \in {maxName, n}
    BY <2>3, <1>0, MaxOfBounded, Numbers, Zenon
  <2> QED BY <2>1, <2>2, <2>4, <1>0, Numbers
<1>2. nextSeq + 1 \in Ids /\ appends + 1 \in Ids
  BY <1>0, Numbers DEF Ids
<1>3. NewItem(p) \in Item /\ NewItem(p).id \in Ids
  BY <1>2 DEF NewItem, Item
<1>4. nextSeq + 1 \in 0 .. MaxAppends /\ appends + 1 \in 0 .. MaxAppends
  BY <1>2, Numbers, <1>0 DEF Ids
<1> QED BY <1>1, <1>3, <1>4

\* Writing a record to the active file touches no other file.
LEMMA AppendedFile ==
  ASSUME TypeOK, PlaceInv, NEW n \in Names, NEW new \in Item, NEW S \in SUBSET {new},
         wal' = [wal EXCEPT ![n] = WithRecords(@, S)]
  PROVE  /\ wal' \in [Names -> WalFile]
         /\ \A m \in Names : \A x \in wal'[m].items : x \in wal[m].items \/ x = new
         /\ \A m \in Names : ~wal'[m].exists => wal'[m].items = {}
<1>1. wal[n] \in WalFile
  BY DEF TypeOK
<1>2. /\ WithRecords(wal[n], S) \in WalFile
      /\ WithRecords(wal[n], S).exists
      /\ WithRecords(wal[n], S).items = wal[n].items \cup S
  BY <1>1 DEF WalFile, WithRecords
<1>3. /\ wal' \in [Names -> WalFile]
      /\ \A m \in Names : wal'[m] = IF m = n THEN WithRecords(wal[n], S) ELSE wal[m]
  BY <1>2, Zenon DEF TypeOK
<1> QED BY <1>2, <1>3 DEF PlaceInv

\* Append that writes its record.
LEMMA AppendItemDistinct ==
  ASSUME IdentityInv, NEW p \in Priorities, AppendItem(p)
  PROVE  IdentityInv'
<1> DEFINE it == NewItem(p)
<1>0. TypeOK /\ PlaceInv
  BY DEF IdentityInv
<1>1. PICK n \in Targets :
        /\ wal' = [wal EXCEPT ![n] = WithRecords(@, {it})]
        /\ maxName' = Max({maxName, n})
        /\ active' = [name |-> n, open |-> TRUE, items |-> active.items \cup {it}]
        /\ accepted' = accepted \cup {it.id}
        /\ pc' \in {"seal", "idle"}
  BY DEF AppendItem
<1>2. /\ pc = "idle" /\ appends < MaxAppends
      /\ nextSeq' = nextSeq + 1 /\ totalLen' = totalLen + 1
      /\ appends' = appends + 1
      /\ UNCHANGED <<zst, sealed, call, batch, confirmed, discarded>>
  BY DEF AppendItem
<1>3. /\ n \in Names /\ n # 0 /\ Max({maxName, n}) \in 0 .. MaxSegments
      /\ it \in Item /\ it.id \in Ids
      /\ nextSeq + 1 \in 0 .. MaxAppends /\ appends + 1 \in 0 .. MaxAppends
  BY <1>2, AppendTarget
<1> HIDE DEF it
<1>4. /\ wal' \in [Names -> WalFile]
      /\ \A m \in Names : \A x \in wal'[m].items : x \in wal[m].items \/ x = it
      /\ \A m \in Names : ~wal'[m].exists => wal'[m].items = {}
  BY <1>0, <1>1, <1>3, AppendedFile
<1>5. /\ active' \in ActiveSegment /\ active'.name = n
      /\ \A x \in active'.items : x \in active.items \/ x = it
  BY <1>0, <1>1, <1>3 DEF TypeOK, ActiveSegment, Names
<1>6. TypeOK'
  <2>1. totalLen' \in Int
    BY <1>0, <1>2 DEF TypeOK
  <2>2. accepted' \in SUBSET Ids
    BY <1>0, <1>1, <1>3 DEF TypeOK
  <2> QED BY <2>1, <2>2, <1>0, <1>1, <1>2, <1>3, <1>4, <1>5 DEF TypeOK, Control
<1>7. Up /\ Up' /\ pc' # "down"
  BY <1>1, <1>2 DEF Up
<1>8. \A x : Kept(x)' => Kept(x) \/ x = NewItem(p)
  BY <1>2, <1>4, <1>5, Zenon DEF Kept, it
<1>9. DistinctInv' /\ NumberInv'
  BY <1>2, <1>6, <1>7, <1>8, NewStep
<1>10. PlaceInv'
  <2>1. active'.name # 0 /\ pc' \notin {"orphan", "ack", "rewrite"}
    BY <1>1, <1>3, <1>5
  <2> QED BY <2>1, <1>4, <1>7 DEF PlaceInv
<1> QED BY <1>6, <1>9, <1>10 DEF IdentityInv

\* Append that only consumes its number.
LEMMA NumberTaken ==
  ASSUME IdentityInv, pc = "idle", appends < MaxAppends, appends' = appends + 1,
         nextSeq' = nextSeq + 1,
         UNCHANGED <<disk, pc, active, sealed, totalLen, call, batch, accepted,
                     confirmed, discarded>>
  PROVE  IdentityInv'
<1> USE DEF disk
<1>0. TypeOK /\ PlaceInv /\ nextSeq <= appends
  BY DEF IdentityInv, NumberInv
<1>1. nextSeq' \in 0 .. MaxAppends /\ appends' \in 0 .. MaxAppends
  BY <1>0, Numbers
<1>2. TypeOK'
  BY <1>0, <1>1 DEF TypeOK
<1>3. PlaceInv'
  BY <1>0, Zenon DEF PlaceInv, Up, OrphanNames
<1>4. \A x : Kept(x)' => Kept(x)
  BY Zenon DEF Kept
<1>5. Up /\ Up'
  BY DEF Up
<1>6. DistinctInv' /\ NumberInv'
  BY <1>2, <1>4, <1>5, NewStep
<1> QED BY <1>2, <1>3, <1>6 DEF IdentityInv

\* Append that fails, or dies, before its caller hears of the record.
LEMMA AppendFailsDistinct ==
  ASSUME IdentityInv, NEW p \in Priorities, AppendFails(p) \/ KilledInAppend(p)
  PROVE  IdentityInv'
<1> USE DEF disk
<1> DEFINE it == NewItem(p)
<1>0. TypeOK /\ PlaceInv
  BY DEF IdentityInv
<1>1. pc = "idle" /\ appends < MaxAppends /\ appends' = appends + 1 /\ Up
  BY Zenon DEF AppendFails, KilledInAppend, Up
<1>2. /\ \A n \in Targets : n \in Names /\ n # 0 /\ Max({maxName, n}) \in 0 .. MaxSegments
      /\ it \in Item
      /\ nextSeq + 1 \in 0 .. MaxAppends /\ appends + 1 \in 0 .. MaxAppends
  BY <1>1, AppendTarget
<1>5. CASE KilledInAppend(p)
  <2>1. PICK n \in Targets, S \in SUBSET {it} :
          /\ wal' = [wal EXCEPT ![n] = WithRecords(@, S)]
          /\ maxName' = Max({maxName, n})
    BY <1>5, Zenon DEF KilledInAppend
  <2>2. /\ pc' = "down" /\ nextSeq' = 0 /\ active' = NilActive /\ sealed' = <<>>
        /\ totalLen' = 0 /\ call' = NoCall /\ batch' = NoBatch
        /\ UNCHANGED <<zst, accepted, confirmed, discarded>>
    BY <1>5, Zenon DEF KilledInAppend
  <2> HIDE DEF it
  <2>3. /\ wal' \in [Names -> WalFile]
        /\ \A m \in Names : \A x \in wal'[m].items : x \in wal[m].items \/ x = it
        /\ \A m \in Names : ~wal'[m].exists => wal'[m].items = {}
    BY <2>1, <1>0, <1>2, AppendedFile
  <2>4. TypeOK'
    <3>1. maxName' \in 0 .. MaxSegments /\ appends' \in 0 .. MaxAppends
      BY <2>1, <1>1, <1>2
    <3> QED BY <3>1, <2>2, <2>3, <1>0, NilTypes, BoundsAssumption DEF TypeOK, Control
  <2>5. NilActive.items = {} /\ ~Up'
    BY <2>2 DEF NilActive, Up
  <2>6. \A x : Kept(x)' => Kept(x) \/ x = NewItem(p)
    BY <2>2, <2>3, <2>5, Zenon DEF Kept, it
  <2>7. DistinctInv' /\ NumberInv'
    BY <2>2, <2>4, <2>5, <2>6, <1>1, NewStep
  <2>8. PlaceInv'
    BY <2>2, <2>3, Zenon DEF PlaceInv
  <2> QED BY <2>4, <2>7, <2>8 DEF IdentityInv
<1>6. CASE AppendFails(p)
  <2>1. /\ nextSeq' = nextSeq + 1
        /\ UNCHANGED <<pc, sealed, totalLen, call, batch, accepted, confirmed, discarded>>
    BY <1>6, Zenon DEF AppendFails
  <2>2. CASE UNCHANGED <<disk, active>>
    BY <2>1, <2>2, <1>1, NumberTaken
  <2>3. CASE \E n \in Targets :
               /\ maxName' = Max({maxName, n})
               /\ active' = [active EXCEPT !.name = n, !.open = TRUE]
               /\ \/ \E S \in SUBSET {it} :
                       wal' = [wal EXCEPT ![n] = WithRecords(@, S)]
                  \/ wal' = [wal EXCEPT ![n] = WithFragment(@, nextSeq + 1)]
               /\ UNCHANGED zst
    <3>1. PICK n \in Targets :
               /\ maxName' = Max({maxName, n})
               /\ active' = [active EXCEPT !.name = n, !.open = TRUE]
               /\ \/ \E S \in SUBSET {it} :
                       wal' = [wal EXCEPT ![n] = WithRecords(@, S)]
                  \/ wal' = [wal EXCEPT ![n] = WithFragment(@, nextSeq + 1)]
               /\ UNCHANGED zst
      BY <2>3
    <3> HIDE DEF it
    <3>2. n \in Names /\ n # 0 /\ maxName' \in 0 .. MaxSegments
      BY <3>1, <1>2
    <3>3. /\ wal' \in [Names -> WalFile]
          /\ \A m \in Names : \A x \in wal'[m].items : x \in wal[m].items \/ x = it
          /\ \A m \in Names : ~wal'[m].exists => wal'[m].items = {}
      <4>1. CASE \E S \in SUBSET {it} : wal' = [wal EXCEPT ![n] = WithRecords(@, S)]
        BY <4>1, <3>2, <1>0, <1>2, AppendedFile
      <4>2. CASE wal' = [wal EXCEPT ![n] = WithFragment(@, nextSeq + 1)]
        <5> DEFINE t == IF wal[n].torn = 0 THEN nextSeq + 1 ELSE wal[n].torn
                   f == [exists |-> TRUE, items |-> wal[n].items, torn |-> t]
        <5>1. wal[n] \in WalFile
          BY <3>2, <1>0 DEF TypeOK
        <5>2. wal' = [wal EXCEPT ![n] = f]
          BY <4>2, Zenon DEF WithFragment
        <5>3. t \in 0 .. MaxAppends
          BY <5>1, <1>2 DEF WalFile
        <5> HIDE DEF t
        <5>4. f \in WalFile /\ f.exists /\ f.items = wal[n].items
          BY <5>1, <5>3 DEF WalFile
        <5> HIDE DEF f
        <5>5. /\ wal' \in [Names -> WalFile]
              /\ \A m \in Names : wal'[m] = IF m = n THEN f ELSE wal[m]
          BY <5>2, <5>4, <1>0, Zenon DEF TypeOK
        <5> QED BY <5>4, <5>5, <1>0 DEF PlaceInv
      <4> QED BY <4>1, <4>2, <3>1
    <3>4. active' \in ActiveSegment /\ active'.name = n /\ active'.items = active.items
      <4>1. active' = [name |-> n, open |-> TRUE, items |-> active.items]
        BY <3>1, <1>0, Zenon DEF TypeOK, ActiveSegment
      <4> QED BY <4>1, <3>2, <1>0 DEF TypeOK, ActiveSegment, Names
    <3>5. TypeOK'
      BY <2>1, <3>1, <3>2, <3>3, <3>4, <1>0, <1>1, <1>2 DEF TypeOK
    <3>6. Up' /\ pc' = "idle"
      BY <2>1, <1>1 DEF Up
    <3>7. \A x : Kept(x)' => Kept(x) \/ x = NewItem(p)
      BY <3>1, <3>3, <3>4, Zenon DEF Kept, it
    <3>8. DistinctInv' /\ NumberInv'
      BY <2>1, <3>5, <3>6, <3>7, <1>1, NewStep
    <3>9. PlaceInv'
      BY <3>3, <3>6 DEF PlaceInv
    <3> QED BY <3>5, <3>8, <3>9 DEF IdentityInv
  <2> QED BY <2>2, <2>3, <1>6, Zenon DEF AppendFails
<1> QED BY <1>5, <1>6

\* The empty buffer.
LEMMA InitDistinct == Init => IdentityInv
<1> SUFFICES ASSUME Init PROVE IdentityInv
  OBVIOUS
<1> USE DEF Init
<1>1. TypeOK
  BY NilTypes, BoundsAssumption DEF TypeOK, Control
<1>2. \A n \in Names : wal[n] = NoWal /\ zst[n] = NoZst
  OBVIOUS
<1>3. \A x : ~Kept(x)
  BY <1>2 DEF Kept, NoWal, NoZst, NilActive
<1>4. PlaceInv
  BY <1>2 DEF PlaceInv, NoWal, Up
<1>5. DistinctInv /\ NumberInv
  BY <1>3 DEF DistinctInv, NumberInv, Up
<1> QED BY <1>1, <1>4, <1>5 DEF IdentityInv

\* Every step of every environment.
LEMMA NextDistinct == IdentityInv /\ [Next]_vars => IdentityInv'
<1> SUFFICES ASSUME IdentityInv, [Next]_vars PROVE IdentityInv'
  OBVIOUS
<1>1. CASE Open \/ SealOrphan \/ UnlinkOrphan \/ OpenDone \/ Crash
  BY <1>1, OpenDistinct, SealOrphanDistinct, UnlinkOrphanDistinct, OpenDoneCrashDistinct
<1>2. CASE \E p \in Priorities : AppendItem(p) \/ AppendFails(p) \/ KilledInAppend(p)
  BY <1>2, AppendItemDistinct, AppendFailsDistinct
<1>3. CASE AppendClosed
  BY <1>3, NumberTaken, Zenon DEF AppendClosed
<1>4. CASE SealWrite \/ SealUnlink \/ SealFails
  BY <1>4, SealDistinct
<1>5. CASE AckSegment \/ AckActive \/ RewriteWrite \/ EnforceDiscard
  BY <1>5, AckSegmentDistinct, AckActiveDistinct, RewriteWriteDistinct, EnforceDiscardDistinct
<1>6. CASE \/ Close \/ SendOk \/ SendFails \/ AckStart \/ AckFails \/ OldestItems
           \/ EnforceStart \/ EnforceDone \/ EnforceFails \/ RewriteFails
           \/ UNCHANGED vars
  BY <1>6, QuietDistinct
<1> QED BY <1>1, <1>2, <1>3, <1>4, <1>5, <1>6 DEF Next

-----------------------------------------------------------------------------
(* The theorems. *)

\* What the buffer holds is kept.
LEMMA HeldIsKept ==
  ASSUME TypeOK, NEW x \in Held
  PROVE  Kept(x) /\ x \in Item
<1>1. \A i \in DOMAIN sealed : sealed[i].name \in Names
  BY SegmentOf, Zenon DEF TypeOK
<1>2. Kept(x)
  BY <1>1, Zenon DEF Held, Kept
<1> QED BY <1>2, KeptItem

\* The invariant of the numbers holds in every state of every environment.
THEOREM DistinctInvariance == Spec => []IdentityInv
<1>1. Init => IdentityInv
  BY InitDistinct
<1>2. IdentityInv /\ [Next]_vars => IdentityInv'
  BY NextDistinct
<1> QED BY <1>1, <1>2, PTL DEF Spec

\* Type correctness of the buffer: the variables keep their types through
\* every method, crash and recovery, whatever fails.
THEOREM TypeCorrect == Spec => []TypeOK
<1>1. IdentityInv => TypeOK
  BY DEF IdentityInv
<1> QED BY <1>1, DistinctInvariance, PTL

\* Ack and EnforceCapacity may find a record by its Seq alone
\* (backfill.go:142, capacity.go:138): no two records the buffer holds share
\* one, through any clock, torn write, failed seal or interrupted rewrite.
THEOREM SeqIsAnIdentity == Spec => []SeqIdentifiesItem
<1>1. ASSUME IdentityInv PROVE SeqIdentifiesItem
  <2>1. \A x \in Held : Kept(x)
    BY <1>1, HeldIsKept DEF IdentityInv
  <2> QED BY <2>1, <1>1, Zenon DEF IdentityInv, DistinctInv, SeqIdentifiesItem
<1> QED BY <1>1, DistinctInvariance, PTL

\* The record findDiscardVictimLocked picks is no event, and everything else
\* held is of a higher priority, or of the same and not older.
LEMMA VictimIsLowest ==
  ASSUME TypeOK, NEW it \in Victims
  PROVE  /\ it \in Held /\ it.prio # PriorityEvent
         /\ \A other \in Held :
              \/ other.prio > it.prio
              \/ other.prio = it.prio /\ other.seq >= it.seq
<1> DEFINE lines == {x \in Held : x.prio = PriorityLogLine}
           metrics == {x \in Held : x.prio = PriorityMetric}
           tier == IF lines # {} THEN lines ELSE metrics
<1>1. it \in tier /\ \A other \in tier : it.seq <= other.seq
  BY Zenon DEF Victims
<1>2. \A x \in Held : x.seq \in Nat /\ x.prio \in {0, 1, 2}
  <2>1. \A x \in Held : x \in Item
    BY HeldIsKept
  <2>2. \A x \in Item : x.seq \in Nat /\ x.prio \in {0, 1, 2}
    <3>1. \A x \in Item : x.prio \in 0 .. 2
      BY EnvironmentAssumption, Zenon DEF Item, PriorityLogLine, PriorityEvent
    <3> QED BY <3>1, ItemSeq
  <2> QED BY <2>1, <2>2
<1>3. CASE lines # {}
  <2>1. it \in Held /\ it.prio = 0 /\ \A x \in Held : x.prio = 0 => it.seq <= x.seq
    BY <1>1, <1>3 DEF PriorityLogLine
  <2> QED BY <2>1, <1>2 DEF PriorityEvent
<1>4. CASE lines = {}
  <2>1. /\ it \in Held /\ it.prio = 1 /\ \A x \in Held : x.prio = 1 => it.seq <= x.seq
        /\ \A x \in Held : x.prio # 0
    BY <1>1, <1>4 DEF PriorityLogLine, PriorityMetric
  <2> QED BY <2>1, <1>2 DEF PriorityEvent
<1> QED BY <1>3, <1>4

\* Only EnforceDiscard gives a record up.
LEMMA OnlyEnforceDiscards ==
  ASSUME [Next]_vars, discarded' # discarded
  PROVE  EnforceDiscard
<1> USE DEF history
<1>1. ~(Open \/ SealOrphan \/ UnlinkOrphan \/ OpenDone \/ Crash)
  BY DEF Open, SealOrphan, UnlinkOrphan, OpenDone, Crash
<1>2. ~\E p \in Priorities : AppendItem(p) \/ AppendFails(p) \/ KilledInAppend(p)
  BY DEF AppendItem, AppendFails, KilledInAppend
<1>3. ~(AppendClosed \/ Close \/ SealWrite \/ SealUnlink \/ SealFails)
  BY DEF AppendClosed, Close, SealWrite, SealUnlink, SealFails
<1>4. ~(OldestItems \/ SendOk \/ SendFails \/ AckStart \/ AckSegment \/ AckFails)
  BY DEF OldestItems, SendOk, SendFails, AckStart, AckSegment, AckFails
<1>5. ~(AckActive \/ RewriteWrite \/ RewriteFails)
  BY DEF AckActive, RewriteWrite, RewriteFails
<1>6. ~(EnforceStart \/ EnforceDone \/ EnforceFails \/ UNCHANGED vars)
  BY DEF EnforceStart, EnforceDone, EnforceFails, vars
<1> QED BY <1>1, <1>2, <1>3, <1>4, <1>5, <1>6, Zenon DEF Next

\* EnforceCapacity drops the lowest priority first, within it the oldest, and
\* never an event (capacity.go:20-23), judged against all the buffer holds
\* and whatever failed before.
THEOREM DiscardsTheLeast == Spec => DiscardPolicy
<1> DEFINE Least(it) == /\ it.prio # PriorityEvent
                        /\ \A other \in Held :
                             \/ other.prio > it.prio
                             \/ other.prio = it.prio /\ other.seq >= it.seq
           Policy == \A it \in Held : it.id \in discarded' \ discarded => Least(it)
<1>1. ASSUME IdentityInv, [Next]_vars PROVE Policy
  <2> SUFFICES ASSUME NEW it \in Held, it.id \in discarded' \ discarded PROVE Least(it)
    OBVIOUS
  <2> HIDE DEF Least
  <2>1. EnforceDiscard
    BY <1>1, OnlyEnforceDiscards
  <2>2. PICK v \in Victims : discarded' = discarded \cup {v.id}
    BY <2>1, Zenon DEF EnforceDiscard
  <2>3. v \in Held /\ Least(v)
    BY <1>1, VictimIsLowest DEF IdentityInv, Least
  <2>4. it.id = v.id
    BY <2>2
  <2>5. Kept(it) /\ Kept(v)
    BY <2>3, <1>1, HeldIsKept DEF IdentityInv
  <2>6. it = v
    BY <2>4, <2>5, <1>1 DEF IdentityInv, DistinctInv
  <2> QED BY <2>3, <2>6
<1>2. IdentityInv /\ [Next]_vars => [Policy]_vars
  BY <1>1
<1>3. [][Policy]_vars => DiscardPolicy
  BY PTL DEF DiscardPolicy
<1> QED BY <1>2, <1>3, DistinctInvariance, PTL DEF Spec

=============================================================================
