------------------------- MODULE AgentBufferAppend --------------------------
(***************************************************************************)
(* Append, whether it succeeds, fails or is killed before it returns, and  *)
(* the discards of EnforceCapacity preserve the inductive invariant of     *)
(* AgentBuffer.                                                            *)
(***************************************************************************)
EXTENDS AgentBufferInvariant

-----------------------------------------------------------------------------
(* The steps of Append. *)

\* The segment Append writes to is the newest one and has no sealed copy.
LEMMA NewTarget ==
  ASSUME IInv, BenignFaults, pc = "idle", active.name # 0 => active.open,
         NEW n \in Targets
  PROVE  /\ n \in Names
         /\ Max({maxName, n}) = n
         /\ ~zst[n].exists
         /\ \A m \in Names : m # n => ~wal[m].exists
         /\ \A m \in Names : n < m => Here(m) = {}
         /\ \/ active.name = n
            \/ active.name = 0 /\ n = maxName + 1 /\ ~wal[n].exists
<1> USE DEF IInv
<1>1. /\ n \in Names /\ n >= maxName /\ ~zst[n].exists
      /\ \/ active.name = n
         \/ active.name = 0 /\ n = maxName + 1 /\ ~wal[n].exists
  <2>1. CASE active.name = 0
    BY <2>1, Numbers DEF Targets, NewNames, BenignFaults
  <2>2. CASE active.name # 0
    <3>1. n = active.name /\ n = maxName /\ ~zst[n].exists
      BY <2>2 DEF Targets, ActiveInv
    <3> QED BY <3>1, <2>2, Numbers DEF TypeOK, Names, ActiveSegment
  <2> QED BY <2>1, <2>2
<1>2. Max({maxName, n}) = n
  BY <1>1, Numbers DEF Max
<1>3. ASSUME NEW m \in Names, m # n PROVE ~wal[m].exists
  BY <1>1, <1>3, Numbers DEF ActiveInv, Up
<1>4. ASSUME NEW m \in Names, n < m PROVE Here(m) = {}
  <2>1. ~wal[m].exists /\ ~zst[m].exists /\ active.name # m
    BY <1>1, <1>4, Numbers DEF FilesInv, ActiveInv
  <2> QED BY <2>1 DEF Here, FilesInv
<1> QED BY <1>1, <1>2, <1>3, <1>4

\* Append only adds a record, newer than any other, to the active segment.
LEMMA AppendItemStep ==
  ASSUME IInv, BenignFaults, NEW p \in Priorities, AppendItem(p)
  PROVE  IInv'
<1> DEFINE it == NewItem(p)
           items == active.items \cup {it}
<1> USE DEF IInv
<1>1. PICK n \in Targets :
        /\ wal' = [wal EXCEPT ![n] = WithRecords(@, {it})]
        /\ maxName' = Max({maxName, n})
        /\ active' = [name |-> n, open |-> TRUE, items |-> items]
        /\ accepted' = accepted \cup {it.id}
        /\ pc' \in {"seal", "idle"}
  BY Zenon DEF AppendItem
<1>2. /\ pc = "idle" /\ appends < MaxAppends
      /\ active.name # 0 => active.open
      /\ nextSeq' = nextSeq + 1 /\ totalLen' = totalLen + 1
      /\ appends' = appends + 1
      /\ UNCHANGED <<zst, sealed, call, batch, confirmed, discarded>>
  BY DEF AppendItem
<1>3. /\ n \in Names /\ maxName' = n
      /\ ~zst[n].exists
      /\ \A m \in Names : m # n => ~wal[m].exists
      /\ \/ active.name = n
         \/ active.name = 0 /\ n = maxName + 1 /\ ~wal[n].exists
  BY <1>1, <1>2, NewTarget
<1>4. /\ it \in Item /\ it.id = appends + 1 /\ it.seq = nextSeq + 1
      /\ it.id \in Nat /\ it.seq \in Nat
  <2>1. nextSeq + 1 \in 1 .. MaxAppends /\ appends + 1 \in 1 .. MaxAppends
    BY <1>2, Numbers DEF SeqInv
  <2> QED BY <2>1, Numbers DEF NewItem, Item, Ids
<1>5. \A m \in Names : wal'[m] =
        IF m = n
          THEN [exists |-> TRUE, items |-> wal[n].items \cup {it},
                torn |-> wal[n].torn]
          ELSE wal[m]
  BY <1>1, <1>3 DEF TypeOK, WithRecords
<1>a. active' = [name |-> n, open |-> TRUE, items |-> items] /\ pc' \in {"seal", "idle"}
  BY <1>1
<1> HIDE DEF it
<1>6. \A m \in Names : Here(m)' = IF m = n THEN Here(m) \cup {it} ELSE Here(m)
  BY <1>a, <1>2, <1>3, <1>5 DEF Here, ActiveInv, NilActive
<1>7. \A x : Live(x)' => Live(x) \/ x.id = it.id
  BY <1>1, <1>2 DEF Live
<1>8. ASSUME NEW m \in Names, NEW x \in Here(m)
      PROVE  /\ x.seq \in Nat /\ x.seq <= nextSeq /\ x.seq < it.seq
             /\ x.id \in Nat /\ x.id <= appends /\ x.id # it.id
             /\ Live(x)' => Live(x)
  <2>1. x.seq <= nextSeq /\ x.id <= appends
    BY <1>2 DEF SeqInv, Up
  <2>2. x.seq \in Nat /\ x.id \in Nat
    BY HereItems
  <2> QED BY <2>1, <2>2, <1>4, <1>7, Numbers
<1>9. \A m \in Names : n < m => Here(m) = {}
  BY <1>1, <1>2, NewTarget
<1>10. TypeOK'
  <2>1. wal' \in [Names -> WalFile]
    <3>1. WithRecords(wal[n], {it}) \in WalFile
      BY <1>3, <1>4 DEF TypeOK, WalFile, WithRecords
    <3> QED BY <3>1, <1>1, <1>3 DEF TypeOK
  <2>2. active' \in ActiveSegment
    BY <1>1, <1>3, <1>4 DEF TypeOK, ActiveSegment, Names
  <2>3. accepted' \in SUBSET Ids /\ appends' \in 0 .. MaxAppends
    BY <1>1, <1>2, <1>4, Numbers DEF TypeOK, Item
  <2>4. nextSeq' \in 0 .. MaxAppends /\ totalLen' \in Int
    BY <1>2, Numbers DEF TypeOK, SeqInv
  <2>5. pc' \in Control /\ maxName' \in 0 .. MaxSegments
    BY <1>1, <1>3, Numbers DEF Control, Names
  <2> QED BY <2>1, <2>2, <2>3, <2>4, <2>5, <1>2 DEF TypeOK
<1>11. FilesInv'
  <2> SUFFICES ASSUME NEW m \in Names
               PROVE  /\ wal'[m].torn = 0
                      /\ ~wal'[m].exists => wal'[m].items = {}
                      /\ ~zst[m].exists => zst[m].items = {}
                      /\ wal'[m].exists => m = maxName'
                      /\ zst[m].exists => m <= maxName'
                      /\ ~(wal'[m].exists /\ zst[m].exists)
    BY <1>2 DEF FilesInv
  <2>1. m # n => ~wal[m].exists
    BY <1>2, <1>3, Numbers DEF ActiveInv, Up
  <2>2. m = n => ~zst[m].exists
    BY <1>2, <1>3, Numbers DEF ActiveInv
  <2>3. zst[m].exists => m <= n
    BY <1>3, Numbers DEF FilesInv, ActiveInv
  <2> QED BY <2>1, <2>2, <2>3, <1>3, <1>5 DEF FilesInv
<1>12. ActiveInv'
  <2>1. ASSUME NEW x \in wal'[n].items, Live(x)', x # it PROVE x \in active'.items
    <3>1. x \in wal[n].items
      BY <2>1, <1>3, <1>5
    <3>2. Live(x)
      BY <2>1, <3>1, <1>3, <1>8 DEF Here
    <3>3. active.name = n
      BY <3>1, <1>3 DEF FilesInv
    <3>4. x \in active.items
      BY <3>1, <3>2, <3>3, <1>3, Numbers, Zenon DEF ActiveInv
    <3> QED BY <3>4, <1>1
  <2>2. active'.items \subseteq wal'[n].items
    BY <1>a, <1>2, <1>3, <1>5 DEF ActiveInv, NilActive
  <2>3. \A m \in Names : wal'[m].exists => m = n
    BY <1>2, <1>3, <1>5, Numbers DEF ActiveInv, Up
  <2>4. ~zst[n].exists /\ n # 0
    BY <1>2, <1>3, Numbers DEF ActiveInv
  <2> QED BY <2>1, <2>2, <2>3, <2>4, <1>a, <1>2, <1>3, <1>5 DEF ActiveInv, Up
<1>13. OrderInv'
  <2> SUFFICES ASSUME NEW k \in Names, NEW m \in Names, k < m,
                      NEW x \in Here(k)', NEW y \in Here(m)'
               PROVE  x.seq < y.seq
    BY DEF OrderInv
  <2>1. CASE k = n
    BY <2>1, <1>3, <1>6, <1>9, Numbers
  <2>2. CASE k # n /\ y = it
    BY <2>2, <1>6, <1>8
  <2>3. CASE k # n /\ y # it
    BY <2>3, <1>6 DEF OrderInv
  <2> QED BY <2>1, <2>2, <2>3
<1>14. SeqInv'
  <2>1. nextSeq' <= appends'
    BY <1>2, Numbers DEF SeqInv
  <2>2. accepted' \subseteq 1 .. appends'
    <3>1. \A x \in 1 .. appends : x \in 1 .. appends + 1
      BY Numbers
    <3>2. appends + 1 \in 1 .. appends + 1
      BY Numbers
    <3> QED BY <3>1, <3>2, <1>1, <1>2, <1>4, Zenon DEF SeqInv
  <2>3. ASSUME NEW m \in Names, NEW x \in Here(m)'
        PROVE  x.id <= appends' /\ x.seq <= appends' /\ x.seq <= nextSeq'
    <3>1. CASE x = it
      BY <3>1, <2>1, <1>2, <1>4, Numbers
    <3>2. CASE x # it
      <4>1. x.seq \in Nat /\ x.id \in Nat /\ x.seq <= nextSeq /\ x.id <= appends
        BY <3>2, <1>6, <1>8
      <4> QED BY <4>1, <2>1, <1>2, Numbers
    <3> QED BY <3>1, <3>2
  <2> QED BY <2>1, <2>2, <2>3 DEF SeqInv
<1>15. SealedInv'
  <2>1. ASSUME NEW i \in DOMAIN sealed
        PROVE  sealed[i].name \in Names /\ sealed[i].name # n
               /\ sealed[i].name <= n
    <3>1. /\ sealed[i].name \in Names /\ sealed[i].name <= maxName
          /\ ~wal[sealed[i].name].exists
      BY <1>2, SegmentOf DEF TypeOK, SealedInv, IndexOK, Up
    <3> QED BY <3>1, <1>3, Numbers DEF ActiveInv
  <2>2. ASSUME NEW m \in Names, NEW x \in zst[m].items, Live(x)' PROVE Live(x)
    BY <2>2, <1>8 DEF Here
  <2>3. Up /\ Up'
    BY <1>1, <1>2, Zenon DEF Up
  <2>4. IndexOK(sealed)'
    BY <2>1, <2>2, <2>3, <1>2, <1>3, <1>5, Zenon DEF SealedInv, IndexOK
  <2> QED
    BY <2>1, <2>2, <2>3, <2>4, <1>2, <1>3, <1>5 DEF SealedInv
<1>16. KeptInv'
  BY <1>1, Zenon DEF KeptInv
<1>17. BatchInv'
  <2>1. ASSUME NEW m \in Names, NEW x \in Here(m)', Live(x)', batch.stage # "none",
               x.seq <= batch.last
        PROVE  x \in Here(m) /\ Live(x)
    <3>1. batch.last <= nextSeq /\ batch.last \in Nat /\ nextSeq \in Nat
      BY <2>1, Numbers DEF BatchInv
    <3>2. x # it
      BY <3>1, <2>1, <1>4
    <3> QED BY <3>2, <2>1, <1>6, <1>8
  <2> QED BY <2>1, <1>1, <1>2, Numbers DEF BatchInv, Up
<1>18. DurableInv'
  <2>1. it \in Here(n)'
    BY <1>3, <1>6
  <2> QED BY <2>1, <1>1, <1>2, <1>3, <1>6 DEF DurableInv
<1> QED BY <1>10, <1>11, <1>12, <1>13, <1>14, <1>15, <1>16, <1>17, <1>18

\* Adding a record whose Append does not report success.
LEMMA AddUnacknowledged ==
  ASSUME IInv, BenignFaults, NEW p \in Priorities, NEW n \in Targets,
         NEW S \in SUBSET {NewItem(p)},
         pc = "idle", appends < MaxAppends, active.name # 0 => active.open,
         maxName' = Max({maxName, n}),
         active' = [active EXCEPT !.name = n, !.open = TRUE],
         wal' = [wal EXCEPT ![n] = WithRecords(@, S)],
         nextSeq' = nextSeq + 1, appends' = appends + 1,
         UNCHANGED <<zst, pc, sealed, totalLen, call, batch, accepted, confirmed,
                     discarded>>
  PROVE  IInv'
<1> DEFINE it == NewItem(p)
<1> USE DEF IInv
<1>1. active' = [name |-> n, open |-> TRUE, items |-> active.items]
  BY Zenon DEF TypeOK, ActiveSegment
<1>2. /\ n \in Names /\ maxName' = n
      /\ ~zst[n].exists
      /\ \A m \in Names : m # n => ~wal[m].exists
      /\ \A m \in Names : n < m => Here(m) = {}
      /\ \/ active.name = n
         \/ active.name = 0 /\ n = maxName + 1 /\ ~wal[n].exists
  BY NewTarget
<1>3. /\ it \in Item /\ it.id = appends + 1 /\ it.seq = nextSeq + 1
      /\ it.id \in Nat /\ it.seq \in Nat
  <2>1. nextSeq + 1 \in 1 .. MaxAppends /\ appends + 1 \in 1 .. MaxAppends
    BY Numbers DEF SeqInv
  <2> QED BY <2>1, Numbers DEF NewItem, Item, Ids
<1>4. \A m \in Names : wal'[m] =
        IF m = n
          THEN [exists |-> TRUE, items |-> wal[n].items \cup S,
                torn |-> wal[n].torn]
          ELSE wal[m]
  BY <1>2 DEF TypeOK, WithRecords
<1>5. TypeOK'
  <2>1. wal' \in [Names -> WalFile]
    <3>1. WithRecords(wal[n], S) \in WalFile
      BY <1>2, <1>3 DEF TypeOK, WalFile, WithRecords
    <3> QED BY <3>1, <1>2 DEF TypeOK
  <2>2. active' \in ActiveSegment
    <3>1. active.items \in SUBSET Item /\ n \in 0 .. MaxSegments
      BY <1>2 DEF TypeOK, ActiveSegment, Names
    <3> QED BY <3>1, <1>1, Zenon DEF ActiveSegment
  <2>3. nextSeq' \in 0 .. MaxAppends /\ appends' \in 0 .. MaxAppends
        /\ maxName' \in 0 .. MaxSegments
    BY <1>2, Numbers DEF SeqInv, Names
  <2> QED BY <2>1, <2>2, <2>3 DEF TypeOK
<1>x. S \subseteq {it}
  OBVIOUS
<1> HIDE DEF it
<1>6. \A m \in Names : Here(m)' = IF m = n THEN Here(m) \cup S ELSE Here(m)
  BY <1>1, <1>2, <1>4 DEF Here, ActiveInv, NilActive
<1>7. /\ \A x : Live(x)' <=> Live(x)
      /\ ~Live(it)
  <2>1. it.id \notin accepted
    BY <1>3, Numbers DEF SeqInv
  <2> QED BY <2>1 DEF Live
<1>8. ASSUME NEW m \in Names, NEW x \in Here(m)
      PROVE  /\ x.seq \in Nat /\ x.seq <= nextSeq /\ x.seq < it.seq
             /\ x.id \in Nat /\ x.id <= appends
  <2>1. x.seq <= nextSeq /\ x.id <= appends
    BY DEF SeqInv, Up
  <2>2. x.seq \in Nat /\ x.id \in Nat
    BY HereItems
  <2> QED BY <2>1, <2>2, <1>3, Numbers
<1>9. FilesInv'
  <2>1. \A m \in Names : zst[m].exists => m <= n
    BY <1>2, Numbers DEF FilesInv, ActiveInv
  <2> QED BY <2>1, <1>2, <1>4 DEF FilesInv
<1>10. ActiveInv'
  <2>1. ASSUME NEW x \in wal'[n].items, Live(x)' PROVE x \in active'.items
    <3>1. x \in wal[n].items /\ Live(x)
      BY <2>1, <1>x, <1>2, <1>4, <1>7
    <3>2. active.name = n
      BY <3>1, <1>2 DEF FilesInv
    <3> QED BY <3>1, <3>2, <1>1, <1>2, Numbers DEF ActiveInv
  <2>2. active'.items \subseteq wal'[n].items
    BY <1>1, <1>2, <1>4, Numbers DEF ActiveInv, NilActive
  <2> QED BY <2>1, <2>2, <1>1, <1>2, <1>4, Numbers DEF ActiveInv, Up
<1>11. OrderInv'
  <2> SUFFICES ASSUME NEW k \in Names, NEW m \in Names, k < m,
                      NEW x \in Here(k)', NEW y \in Here(m)'
               PROVE  x.seq < y.seq
    BY DEF OrderInv
  <2>1. CASE k = n
    BY <2>1, <1>x, <1>2, <1>6, Numbers
  <2>2. CASE k # n /\ y = it
    BY <1>x, <2>2, <1>6, <1>8
  <2>3. CASE k # n /\ y # it
    BY <1>x, <2>3, <1>6 DEF OrderInv
  <2> QED BY <2>1, <2>2, <2>3
<1>12. SeqInv'
  <2>1. nextSeq' <= appends' /\ accepted' \subseteq 1 .. appends'
    BY Numbers DEF SeqInv
  <2>2. ASSUME NEW m \in Names, NEW x \in Here(m)'
        PROVE  x.id <= appends' /\ x.seq <= appends' /\ x.seq <= nextSeq'
    <3>1. CASE x = it
      BY <3>1, <2>1, <1>3, Numbers
    <3>2. CASE x # it
      <4>1. x.seq \in Nat /\ x.id \in Nat /\ x.seq <= nextSeq /\ x.id <= appends
        BY <1>x, <3>2, <1>6, <1>8
      <4> QED BY <4>1, <2>1, Numbers
    <3> QED BY <3>1, <3>2
  <2> QED BY <2>1, <2>2 DEF SeqInv
<1>13. SealedInv'
  <2>1. ASSUME NEW i \in DOMAIN sealed
        PROVE  sealed[i].name \in Names /\ sealed[i].name # n
               /\ sealed[i].name <= n
    <3>1. /\ sealed[i].name \in Names /\ sealed[i].name <= maxName
          /\ ~wal[sealed[i].name].exists
      BY SegmentOf DEF TypeOK, SealedInv, IndexOK, Up
    <3> QED BY <3>1, <1>2, Numbers DEF ActiveInv
  <2> QED BY <2>1, <1>2, <1>4, <1>7 DEF SealedInv, IndexOK, Up
<1>14. KeptInv'
  BY DEF KeptInv
<1>15. BatchInv'
  BY <1>x, <1>6, <1>7, Numbers DEF BatchInv, Up
<1>16. DurableInv'
  BY <1>6 DEF DurableInv
<1> QED BY <1>5, <1>9, <1>10, <1>11, <1>12, <1>13, <1>14, <1>15, <1>16

\* Taking a sequence number without touching a file.
LEMMA NumberStep ==
  ASSUME IInv, pc = "idle", appends < MaxAppends, nextSeq' = nextSeq + 1,
         appends' = appends + 1,
         UNCHANGED <<disk, pc, active, sealed, totalLen, call, batch, accepted,
                     confirmed, discarded>>
  PROVE  IInv'
<1> USE DEF IInv, disk
<1>1. TypeOK'
  BY Numbers DEF TypeOK, SeqInv
<1>2. FilesInv' /\ OrderInv' /\ SealedInv' /\ DurableInv'
  BY QuietStep DEF Up
<1>3. ActiveInv' /\ KeptInv'
  BY DEF ActiveInv, KeptInv, Live, Up
<1>4. SeqInv'
  <2>1. \A m \in Names : Here(m)' = Here(m)
    BY DEF Here
  <2>2. nextSeq' <= appends' /\ accepted' \subseteq 1 .. appends'
    BY Numbers DEF SeqInv
  <2>3. ASSUME NEW m \in Names, NEW x \in Here(m)'
        PROVE  x.id <= appends' /\ x.seq <= appends' /\ x.seq <= nextSeq'
    <3>1. x.id <= appends /\ x.seq <= nextSeq /\ x.seq \in Nat /\ x.id \in Nat
      BY <2>1, <2>3, HereItems DEF SeqInv, Up
    <3> QED BY <3>1, <2>2, Numbers
  <2> QED BY <2>2, <2>3 DEF SeqInv
<1>5. BatchInv'
  BY Numbers DEF BatchInv, Here, Live, Up
<1> QED BY <1>1, <1>2, <1>3, <1>4, <1>5

\* An Append on a closed file only consumes a number.
LEMMA AppendClosedStep == ASSUME IInv, AppendClosed PROVE IInv'
  BY NumberStep DEF AppendClosed

\* A failed write leaves the disk alone or adds an unacknowledged record.
LEMMA AppendFailsStep ==
  ASSUME IInv, BenignFaults, NEW p \in Priorities, AppendFails(p)
  PROVE  IInv'
<1> DEFINE it == NewItem(p)
<1> USE DEF IInv
<1>1. CASE UNCHANGED <<disk, active>>
  BY <1>1, NumberStep, Zenon DEF AppendFails, disk
<1>2. CASE \E n \in Targets : \E S \in SUBSET {it} :
             /\ maxName' = Max({maxName, n})
             /\ active' = [active EXCEPT !.name = n, !.open = TRUE]
             /\ wal' = [wal EXCEPT ![n] = WithRecords(@, S)]
             /\ UNCHANGED zst
  <2>1. PICK n \in Targets : \E S \in SUBSET {it} :
             /\ maxName' = Max({maxName, n})
             /\ active' = [active EXCEPT !.name = n, !.open = TRUE]
             /\ wal' = [wal EXCEPT ![n] = WithRecords(@, S)]
             /\ UNCHANGED zst
    BY <1>2, Zenon
  <2>s. PICK S \in SUBSET {it} :
             /\ maxName' = Max({maxName, n})
             /\ active' = [active EXCEPT !.name = n, !.open = TRUE]
             /\ wal' = [wal EXCEPT ![n] = WithRecords(@, S)]
             /\ UNCHANGED zst
    BY <2>1, Zenon
  <2>2. /\ pc = "idle" /\ appends < MaxAppends
        /\ active.name # 0 => active.open
        /\ nextSeq' = nextSeq + 1 /\ appends' = appends + 1
        /\ UNCHANGED <<pc, sealed, totalLen, call, batch, accepted, confirmed,
                       discarded>>
    BY Zenon DEF AppendFails
  <2>3. QED BY <2>s, <2>2, AddUnacknowledged, Zenon
<1> QED BY <1>1, <1>2, Zenon DEF AppendFails, BenignFaults, disk

\* A kill inside Append: the file may be new, the record may be there.
LEMMA KilledInAppendStep ==
  ASSUME IInv, BenignFaults, NEW p \in Priorities, KilledInAppend(p)
  PROVE  IInv'
<1> DEFINE it == NewItem(p)
<1> USE DEF IInv
<1>1. PICK n \in Targets, E \in SUBSET {it} :
        /\ wal' = [wal EXCEPT ![n] = WithRecords(@, E)]
        /\ maxName' = Max({maxName, n})
  BY Zenon DEF KilledInAppend
<1>2. /\ pc = "idle" /\ appends < MaxAppends /\ appends' = appends + 1
      /\ active.name # 0 => active.open
      /\ pc' = "down" /\ nextSeq' = 0 /\ active' = NilActive /\ sealed' = <<>>
      /\ totalLen' = 0 /\ call' = NoCall /\ batch' = NoBatch
      /\ UNCHANGED <<zst, accepted, confirmed, discarded>>
  BY DEF KilledInAppend
<1>3. /\ n \in Names /\ maxName' = n
      /\ ~zst[n].exists
      /\ \A m \in Names : m # n => ~wal[m].exists
      /\ \A m \in Names : n < m => Here(m) = {}
      /\ \/ active.name = n
         \/ active.name = 0 /\ n = maxName + 1 /\ ~wal[n].exists
  BY <1>1, <1>2, NewTarget
<1>4. /\ it \in Item /\ it.id = appends + 1 /\ it.seq = nextSeq + 1
      /\ it.id \in Nat /\ it.seq \in Nat
  <2>1. nextSeq + 1 \in 1 .. MaxAppends /\ appends + 1 \in 1 .. MaxAppends
    BY <1>2, Numbers DEF SeqInv
  <2> QED BY <2>1, Numbers DEF NewItem, Item, Ids
<1>5. \A m \in Names : wal'[m] =
        IF m = n
          THEN [exists |-> TRUE, items |-> wal[n].items \cup E,
                torn |-> wal[n].torn]
          ELSE wal[m]
  BY <1>1, <1>3 DEF TypeOK, WithRecords
<1>e. E \subseteq {it}
  OBVIOUS
<1> HIDE DEF it
<1>6. TypeOK'
  <2>1. [exists |-> TRUE, items |-> wal[n].items \cup E, torn |-> wal[n].torn]
          \in WalFile
    BY <1>3, <1>4, <1>5 DEF TypeOK, WalFile
  <2>2. wal' \in [Names -> WalFile]
    <3>1. \A m \in Names : wal'[m] \in WalFile
      BY <2>1, <1>5, Zenon DEF TypeOK
    <3>2. wal' = [m \in Names |-> wal'[m]]
      BY <1>1, Zenon DEF TypeOK
    <3> QED BY <3>1, <3>2
  <2>3. appends' \in 0 .. MaxAppends /\ maxName' \in 0 .. MaxSegments
        /\ nextSeq' \in 0 .. MaxAppends
    <3>1. nextSeq' = 0 /\ appends' = appends + 1 /\ appends < MaxAppends
      BY <1>2, Zenon
    <3> QED BY <3>1, <1>3, Numbers DEF Names
  <2> QED BY <2>2, <2>3, <1>2, NilTypes DEF TypeOK, Control
<1>7. /\ \A m \in Names : Here(m)' \subseteq IF m = n THEN Here(m) \cup {it} ELSE Here(m)
      /\ \A m \in Names : Here(m) \subseteq Here(m)'
  <2>1. \A m \in Names : active.name = m => active.items \subseteq wal[m].items
    BY <1>2, Numbers DEF ActiveInv
  <2>2. zst' = zst /\ active'.name = 0 /\ \A m \in Names : m # 0
    BY <1>2, Numbers DEF NilActive
  <2>3. \A m \in Names : Here(m)' = zst[m].items \cup wal'[m].items
    BY <2>2 DEF Here
  <2>4. \A m \in Names : Here(m) = zst[m].items \cup wal[m].items
    BY <2>1 DEF Here
  <2> QED BY <2>3, <2>4, <1>5, <1>e
<1>8. ASSUME NEW m \in Names, NEW x \in Here(m)
      PROVE  /\ x.seq \in Nat /\ x.seq <= nextSeq /\ x.seq < it.seq
             /\ x.id \in Nat /\ x.id <= appends
  <2>1. x.seq <= nextSeq /\ x.id <= appends
    BY <1>2 DEF SeqInv, Up
  <2>2. x.seq \in Nat /\ x.id \in Nat
    BY HereItems
  <2> QED BY <2>1, <2>2, <1>4, Numbers
<1>9. FilesInv'
  <2>1. \A m \in Names : zst[m].exists => m <= n
    <3>1. \A m \in Names : zst[m].exists => m <= maxName
      BY Zenon DEF FilesInv
    <3>2. active.name = n => n = maxName
      BY <1>3, Numbers, Zenon DEF ActiveInv
    <3> HIDE DEF IInv
    <3>3. n \in Nat /\ maxName \in Nat /\ maxName <= n /\ \A m \in Names : m \in Nat
      <4>1. n \in Nat /\ maxName \in Nat /\ \A m \in Names : m \in Nat
        BY <1>3, Numbers, Zenon DEF IInv
      <4> QED BY <4>1, <3>2, <1>3
    <3> QED BY <3>1, <3>3
  <2>2. zst' = zst /\ confirmed' = confirmed /\ discarded' = discarded
    BY <1>2, Zenon
  <2> QED BY <2>1, <2>2, <1>3, <1>5, SMTT(20) DEF FilesInv
<1>10. ActiveInv' /\ SealedInv' /\ KeptInv' /\ BatchInv'
  <2>1. ActiveInv'
    BY <1>2, Zenon DEF ActiveInv, NilActive, Up
  <2>2. SealedInv'
    <3>1. pc' = "down" /\ sealed' = <<>>
      BY <1>2, Zenon
    <3>2. DOMAIN sealed' = {}
      BY <3>1
    <3> HIDE DEF IInv
    <3> QED BY <3>1, <3>2 DEF SealedInv, IndexOK
  <2>3. KeptInv'
    BY <1>2 DEF KeptInv
  <2>4. BatchInv'
    BY <1>2 DEF BatchInv, NoBatch, Up
  <2> QED BY <2>1, <2>2, <2>3, <2>4, Zenon
<1>11. OrderInv'
  <2> SUFFICES ASSUME NEW k \in Names, NEW m \in Names, k < m,
                      NEW x \in Here(k)', NEW y \in Here(m)'
               PROVE  x.seq < y.seq
    BY DEF OrderInv
  <2>1. CASE k = n
    BY <2>1, <1>3, <1>7, Numbers
  <2>2. CASE k # n /\ y = it
    BY <2>2, <1>7, <1>8
  <2>3. CASE k # n /\ y # it
    BY <2>3, <1>7 DEF OrderInv
  <2> QED BY <2>1, <2>2, <2>3
<1>12. SeqInv'
  <2>1. nextSeq' <= appends' /\ accepted' \subseteq 1 .. appends'
    BY <1>2, Numbers DEF SeqInv
  <2>2. ASSUME NEW m \in Names, NEW x \in Here(m)'
        PROVE  x.id <= appends' /\ x.seq <= appends'
    <3>1. nextSeq <= appends
      BY DEF SeqInv
    <3>2. CASE x = it
      BY <3>1, <3>2, <1>2, <1>4, Numbers
    <3>3. CASE x # it
      <4>1. x.seq \in Nat /\ x.id \in Nat /\ x.seq <= nextSeq /\ x.id <= appends
        BY <3>3, <1>7, <1>8
      <4> QED BY <3>1, <4>1, <1>2, Numbers
    <3> QED BY <3>2, <3>3
  <2> QED BY <2>1, <2>2, <1>2 DEF SeqInv, Up
<1>13. DurableInv'
  BY <1>2, <1>7 DEF DurableInv
<1> QED BY <1>6, <1>9, <1>10, <1>11, <1>12, <1>13

-----------------------------------------------------------------------------
(* EnforceCapacity. *)

\* A discard from the active segment removes one record, then counted.
LEMMA DiscardActiveStep ==
  ASSUME IInv, pc = "enforce", NEW it, DiscardActive(it),
         discarded' = discarded \cup {it.id},
         UNCHANGED <<maxName, nextSeq, batch, appends, accepted, confirmed>>
  PROVE  IInv'
<1> USE DEF IInv
<1> DEFINE a == active.name
           left == active.items \ {it}
<1>1. /\ it \in active.items /\ it \in Item /\ it.id \in Ids
      /\ UNCHANGED <<zst, sealed, totalLen>>
  BY DEF DiscardActive, TypeOK, ActiveSegment, Item
<1>2. a # 0 /\ a \in Names /\ a = maxName /\ wal[a].exists /\ Up
  <2>1. a # 0
    BY <1>1 DEF ActiveInv, NilActive
  <2> QED BY <2>1 DEF ActiveInv, TypeOK, ActiveSegment, Names
<1>3. /\ active'.name = a /\ active'.open = active.open /\ active'.items = left
      /\ active' \in ActiveSegment
  BY DEF DiscardActive, TypeOK, ActiveSegment
<1>4. \/ /\ active.open /\ pc' = "rewrite" /\ call' \in CallFrame
         /\ wal' = [wal EXCEPT ![a] = EmptyWal]
      \/ pc' = "idle" /\ call' = call /\ wal' = wal
  <2>1. InRewrite(1, "enforce") \in CallFrame
    BY DEF InRewrite, CallFrame
  <2> QED BY <2>1 DEF DiscardActive
<1>5. Up' /\ \A x : Live(x)' <=> Live(x) /\ x.id # it.id
  BY <1>4 DEF Up, Live
<1>6. ASSUME NEW m \in Names
      PROVE  /\ wal'[m].exists = wal[m].exists
             /\ wal'[m] = wal[m] \/ (m = a /\ active.open /\ pc' = "rewrite"
                  /\ wal'[m] = EmptyWal)
             /\ wal'[m].items \subseteq wal[m].items
             /\ wal'[m].torn = 0
  <2>1. wal[a].exists = TRUE
    BY <1>2 DEF TypeOK, WalFile
  <2>2. wal'[m] = wal[m] \/ (m = a /\ active.open /\ pc' = "rewrite"
                  /\ wal'[m] = EmptyWal)
    BY <1>4 DEF TypeOK
  <2>3. CASE wal'[m] = wal[m]
    BY <2>3 DEF FilesInv
  <2>4. CASE m = a /\ active.open /\ pc' = "rewrite" /\ wal'[m] = EmptyWal
    <3>1. wal'[m].exists = TRUE /\ wal'[m].items = {} /\ wal'[m].torn = 0
      BY <2>4 DEF EmptyWal
    <3> QED BY <3>1, <2>1, <2>4, Zenon
  <2> QED BY <2>2, <2>3, <2>4
<1>7. ASSUME NEW m \in Names
      PROVE  /\ Here(m)' \subseteq Here(m)
             /\ \A x \in Here(m) : Live(x)' => x \in Here(m)'
  <2>1. Here(m)' \subseteq Here(m)
    BY <1>1, <1>3, <1>6, Zenon DEF Here
  <2>2. ASSUME NEW x \in Here(m), Live(x)' PROVE x \in Here(m)'
    <3>1. CASE x \in zst[m].items
      BY <3>1, <1>1 DEF Here
    <3>2. CASE m = a /\ (x \in wal[m].items \/ x \in active.items)
      <4>1. x \in active.items /\ x # it
        BY <3>2, <2>2, <1>2, <1>5, Zenon DEF ActiveInv
      <4> QED BY <4>1, <3>2, <1>3, Zenon DEF Here
    <3>3. CASE m # a /\ x \in wal[m].items
      BY <3>3, <1>6 DEF Here
    <3> QED BY <2>2, <3>1, <3>2, <3>3 DEF Here
  <2> QED BY <2>1, <2>2
<1>8. TypeOK'
  <2>1. wal' \in [Names -> WalFile]
    <3>1. EmptyWal \in WalFile
      BY BoundsAssumption DEF WalFile, EmptyWal
    <3> QED BY <3>1, <1>4 DEF TypeOK
  <2>2. pc' \in Control /\ call' \in CallFrame /\ discarded' \in SUBSET Ids
    BY <1>1, <1>4, Zenon DEF TypeOK, Control
  <2> QED BY <2>1, <2>2, <1>1, <1>3 DEF TypeOK
<1>9. FilesInv'
  <2> SUFFICES ASSUME NEW n \in Names
               PROVE  /\ wal'[n].torn = 0
                      /\ ~wal'[n].exists => wal'[n].items = {}
                      /\ ~zst[n].exists => zst[n].items = {}
                      /\ wal'[n].exists => n = maxName
                      /\ zst[n].exists => n <= maxName
                      /\ wal'[n].exists /\ zst[n].exists =>
                           /\ zst[n].items \subseteq wal'[n].items
                           /\ \A x \in wal'[n].items : Live(x)' => x \in zst[n].items
    BY <1>1, Zenon DEF FilesInv
  <2>1. zst[n].exists => wal'[n] = wal[n]
    BY <1>6 DEF ActiveInv
  <2> QED BY <2>1, <1>5, <1>6, Zenon DEF FilesInv
<1>10. ActiveInv'
  <2>1. /\ wal'[a].exists
        /\ \A x \in wal'[a].items : Live(x)' => x \in left
        /\ pc' # "rewrite" => left \subseteq wal'[a].items
    BY <1>2, <1>4, <1>5, <1>6, Zenon DEF ActiveInv
  <2>2. \A n \in Names : wal'[n].exists => a = n
    BY <1>2, <1>6 DEF ActiveInv
  <2>3. pc' = "rewrite" => active.open /\ wal'[a].items = {}
    BY <1>2, <1>4 DEF TypeOK, EmptyWal
  <2>4. pc' # "seal" /\ pc' # "unlink" /\ pc' # "orphan"
    BY <1>4
  <2> QED BY <2>1, <2>2, <2>3, <2>4, <1>1, <1>2, <1>3, <1>5, Zenon DEF ActiveInv
<1>11. OrderInv'
  BY <1>7 DEF OrderInv
<1>12. DurableInv'
  BY <1>5, <1>7 DEF DurableInv, Live
<1>13. SeqInv'
  BY <1>2, <1>5, <1>7 DEF SeqInv
<1>14. SealedInv'
  <2>1. \A i \in DOMAIN sealed : sealed[i].name \in Names
    BY SegmentOf, Zenon DEF TypeOK
  <2>2. IndexOK(sealed)'
    BY <2>1, <1>1, <1>2, <1>5, <1>6, Zenon DEF SealedInv, IndexOK
  <2> QED BY <2>2, <1>1, <1>2, <1>5, <1>6 DEF SealedInv
<1>15. KeptInv'
  BY <1>4 DEF KeptInv
<1>16. BatchInv'
  BY <1>4, <1>5, <1>7, Zenon DEF BatchInv
<1> QED BY <1>8, <1>9, <1>10, <1>11, <1>12, <1>13, <1>14, <1>15, <1>16

\* Discarding a sealed record shrinks one file and replaces, or removes, its
\* index entry.
LEMMA DiscardSealedEffect ==
  ASSUME IInv, pc = "enforce", NEW it, DiscardSealed(it)
  PROVE  \E n \in Names :
           /\ it \in zst[n].items /\ ~wal[n].exists
           /\ zst' \in [Names -> ZstFile]
           /\ \A m \in Names : m # n => zst'[m] = zst[m]
           /\ zst'[n].items = zst[n].items \ {it}
           /\ ~zst'[n].exists => zst'[n].items = {}
           /\ sealed' \in Seq(Segment)
           /\ \A i, j \in DOMAIN sealed' : i < j => sealed'[i].name <= sealed'[j].name
           /\ \A i \in DOMAIN sealed' :
                \/ \E j \in DOMAIN sealed : sealed'[i] = sealed[j]
                \/ /\ sealed'[i].name = n
                   /\ \A x \in zst'[n].items : x.seq <= sealed'[i].maxSeq
           /\ zst'[n].items = {} \/ \E i \in DOMAIN sealed' : sealed'[i].name = n
           /\ \A j \in DOMAIN sealed : sealed[j].name = n
                \/ \E i \in DOMAIN sealed' : sealed'[i].name = sealed[j].name
<1> USE DEF IInv
<1>1. PICK k \in FoundAt(it) :
        LET n == sealed[k].name
            left == zst[n].items \ {it}
        IN IF left = {}
             THEN /\ zst' = [zst EXCEPT ![n] = NoZst]
                  /\ sealed' = SubSeq(sealed, 1, k - 1)
                                 \o SubSeq(sealed, k + 1, Len(sealed))
             ELSE /\ zst' = [zst EXCEPT ![n] = [exists |-> TRUE, items |-> left]]
                  /\ sealed' = [sealed EXCEPT ![k] = Meta(n, left)]
  BY Zenon DEF DiscardSealed
<1> DEFINE n == sealed[k].name
           left == zst[n].items \ {it}
           e == Meta(n, left)
<1>2. k \in DOMAIN sealed /\ it \in zst[n].items /\ sealed \in Seq(Segment)
  BY DEF FoundAt, Candidates, TypeOK
<1>3. n \in Names /\ sealed[k] \in Segment /\ ~wal[n].exists
      /\ zst[n].items \in SUBSET Item /\ left \in SUBSET Item
  <2>1. n \in Names /\ sealed[k] \in Segment
    BY <1>2, SegmentOf
  <2>2. ~wal[n].exists
    BY <1>2 DEF SealedInv, IndexOK, Up
  <2> QED BY <2>1, <2>2 DEF TypeOK, ZstFile
<1>4. \A i, j \in DOMAIN sealed : i < j => sealed[i].name <= sealed[j].name
  BY DEF SealedInv, IndexOK
<1>5. CASE left = {}
  <2>1. /\ zst' = [zst EXCEPT ![n] = NoZst]
        /\ sealed' = SubSeq(sealed, 1, k - 1) \o SubSeq(sealed, k + 1, Len(sealed))
    BY <1>1, <1>5, Zenon
  <2>2. /\ zst' \in [Names -> ZstFile] /\ zst'[n].items = {}
        /\ \A m \in Names : m # n => zst'[m] = zst[m]
    BY <2>1, <1>3, NilTypes DEF TypeOK, NoZst
  <2>3. /\ sealed' \in Seq(Segment)
        /\ \A i \in DOMAIN sealed' : \E j \in DOMAIN sealed :
             sealed'[i] = sealed[j] /\ j # k
        /\ \A i, j \in DOMAIN sealed' : i < j =>
             \E u, v \in DOMAIN sealed :
                u < v /\ sealed'[i] = sealed[u] /\ sealed'[j] = sealed[v]
        /\ \A j \in DOMAIN sealed : j # k =>
             \E i \in DOMAIN sealed' : sealed'[i] = sealed[j]
    <3> DEFINE s == SubSeq(sealed, 1, k - 1) \o SubSeq(sealed, k + 1, Len(sealed))
    <3>1. /\ s \in Seq(Segment)
          /\ \A i \in DOMAIN s : \E j \in DOMAIN sealed : s[i] = sealed[j] /\ j # k
          /\ \A i, j \in DOMAIN s : i < j =>
               \E u, v \in DOMAIN sealed : u < v /\ s[i] = sealed[u] /\ s[j] = sealed[v]
          /\ \A j \in DOMAIN sealed : j # k => \E i \in DOMAIN s : s[i] = sealed[j]
      BY <1>2, IndexRemove, Zenon
    <3>2. sealed' = s
      BY <2>1
    <3> HIDE DEF s
    <3> QED BY <3>1, <3>2
  <2>4. \A i, j \in DOMAIN sealed' : i < j => sealed'[i].name <= sealed'[j].name
    BY <2>3, <1>4
  <2>5. \A j \in DOMAIN sealed : sealed[j].name = n
                \/ \E i \in DOMAIN sealed' : sealed'[i].name = sealed[j].name
    BY <2>3
  <2>6. \A i \in DOMAIN sealed' : \E j \in DOMAIN sealed : sealed'[i] = sealed[j]
    BY <2>3
  <2>7. zst'[n].items = zst[n].items \ {it}
    BY <2>2, <1>5
  <2> QED BY <2>2, <2>3, <2>4, <2>5, <2>6, <2>7, <1>2, <1>3, ZenonT(40)
<1>6. CASE left # {}
  <2>1. /\ zst' = [zst EXCEPT ![n] = [exists |-> TRUE, items |-> left]]
        /\ sealed' = [sealed EXCEPT ![k] = e]
    BY <1>1, <1>6, Zenon
  <2>2. e \in Segment /\ e.name = n /\ \A x \in left : x.seq <= e.maxSeq
    BY <1>3, MetaBounds, Zenon
  <2> HIDE DEF e
  <2>3. /\ zst' \in [Names -> ZstFile] /\ zst'[n].items = left /\ zst'[n].exists
        /\ \A m \in Names : m # n => zst'[m] = zst[m]
    BY <2>1, <1>3 DEF TypeOK, ZstFile
  <2>4. /\ sealed' \in Seq(Segment) /\ DOMAIN sealed' = DOMAIN sealed
        /\ \A i \in DOMAIN sealed : sealed'[i] = IF i = k THEN e ELSE sealed[i]
    BY <2>1, <2>2, <1>2
  <2>5. \A i \in DOMAIN sealed : sealed'[i].name = sealed[i].name
    BY <2>2, <2>4
  <2>6. \A i, j \in DOMAIN sealed' : i < j => sealed'[i].name <= sealed'[j].name
    BY <2>4, <2>5, <1>4, Zenon
  <2>7. \A i \in DOMAIN sealed' :
                \/ \E j \in DOMAIN sealed : sealed'[i] = sealed[j]
                \/ /\ sealed'[i].name = n
                   /\ \A x \in zst'[n].items : x.seq <= sealed'[i].maxSeq
    BY <2>2, <2>3, <2>4, Zenon
  <2> QED BY <2>3, <2>4, <2>5, <2>6, <2>7, <1>2, <1>3, Zenon
<1> QED BY <1>5, <1>6, Zenon

\* A discard from a sealed file removes one record, then counted.
LEMMA DiscardSealedStep ==
  ASSUME IInv, pc = "enforce", NEW it, DiscardSealed(it),
         discarded' = discarded \cup {it.id},
         UNCHANGED <<maxName, nextSeq, batch, appends, accepted, confirmed>>
  PROVE  IInv'
<1> USE DEF IInv
<1>1. pc' = "enforce" /\ UNCHANGED <<wal, pc, active, call>>
      /\ totalLen' = totalLen - 1
  BY DEF DiscardSealed
<1>2. PICK n \in Names :
           /\ it \in zst[n].items /\ ~wal[n].exists
           /\ zst' \in [Names -> ZstFile]
           /\ \A m \in Names : m # n => zst'[m] = zst[m]
           /\ zst'[n].items = zst[n].items \ {it}
           /\ ~zst'[n].exists => zst'[n].items = {}
           /\ sealed' \in Seq(Segment)
           /\ \A i, j \in DOMAIN sealed' : i < j => sealed'[i].name <= sealed'[j].name
           /\ \A i \in DOMAIN sealed' :
                \/ \E j \in DOMAIN sealed : sealed'[i] = sealed[j]
                \/ /\ sealed'[i].name = n
                   /\ \A x \in zst'[n].items : x.seq <= sealed'[i].maxSeq
           /\ zst'[n].items = {} \/ \E i \in DOMAIN sealed' : sealed'[i].name = n
           /\ \A j \in DOMAIN sealed : sealed[j].name = n
                \/ \E i \in DOMAIN sealed' : sealed'[i].name = sealed[j].name
  BY DiscardSealedEffect, Zenon
<1>f. /\ it \in zst[n].items /\ ~wal[n].exists
      /\ zst' \in [Names -> ZstFile]
      /\ \A m \in Names : m # n => zst'[m] = zst[m]
      /\ zst'[n].items = zst[n].items \ {it}
      /\ ~zst'[n].exists => zst'[n].items = {}
  BY <1>2
<1>s. sealed' \in Seq(Segment)
  BY <1>2
<1>3. Up /\ Up' /\ \A x : Live(x)' <=> Live(x) /\ x.id # it.id
  BY <1>1 DEF Up, Live
<1>4. it \in Item /\ it.id \in Ids /\ zst[n].exists /\ n <= maxName
  <2>1. it \in Item
    BY <1>f DEF TypeOK, ZstFile
  <2> QED BY <2>1, <1>f DEF Item, FilesInv
<1>5. ASSUME NEW m \in Names
      PROVE  /\ zst'[m].items \subseteq zst[m].items
             /\ \A x \in zst[m].items : Live(x)' => x \in zst'[m].items
             /\ Here(m)' \subseteq Here(m)
             /\ \A x \in Here(m) : Live(x)' => x \in Here(m)'
  <2>1. /\ zst'[m].items \subseteq zst[m].items
        /\ \A x \in zst[m].items : Live(x)' => x \in zst'[m].items
    BY <1>f, <1>3
  <2> QED BY <2>1, <1>1, Zenon DEF Here
<1>6. TypeOK'
  <2>1. zst' \in [Names -> ZstFile]
    BY <1>f
  <2>2. totalLen' \in Int /\ discarded' \in SUBSET Ids
    BY <1>1, <1>4 DEF TypeOK
  <2> QED BY <2>1, <2>2, <1>1, <1>s DEF TypeOK
<1>7. FilesInv'
  <2>1. ASSUME NEW m \in Names PROVE
          /\ ~zst'[m].exists => zst'[m].items = {}
          /\ zst'[m].exists => m <= maxName
          /\ wal[m].exists => zst'[m] = zst[m]
    BY <1>f, <1>4, Zenon DEF FilesInv
  <2>2. wal' = wal /\ maxName' = maxName
    BY <1>1
  <2>3. ASSUME NEW m \in Names, wal[m].exists, zst'[m].exists
        PROVE  /\ zst'[m].items \subseteq wal[m].items
               /\ \A x \in wal[m].items : Live(x)' => x \in zst'[m].items
    BY <2>1, <2>3, <1>3 DEF FilesInv
  <2> QED BY <2>1, <2>2, <2>3, Zenon DEF FilesInv
<1>8. ActiveInv'
  <2>1. ASSUME active.name # 0 PROVE active.name \in Names /\ active.name # n
    <3>1. active.name \in Names /\ wal[active.name].exists
      BY <2>1 DEF ActiveInv, TypeOK, ActiveSegment, Names
    <3>2. ~wal[n].exists
      BY <1>f
    <3> QED BY <3>1, <3>2, Zenon
  <2> QED BY <2>1, <1>1, <1>f, <1>3, Zenon DEF ActiveInv, NilActive
<1>9. OrderInv'
  BY <1>5 DEF OrderInv
<1>10. DurableInv'
  BY <1>3, <1>5 DEF DurableInv, Live
<1>11. SeqInv'
  BY <1>1, <1>3, <1>5 DEF SeqInv
<1>12. SealedInv'
  <2>1. \A i \in DOMAIN sealed : sealed[i].name \in Names
    BY SegmentOf, Zenon DEF TypeOK
  <2>2. ASSUME NEW i \in DOMAIN sealed'
        PROVE  /\ sealed'[i].name <= maxName /\ ~wal[sealed'[i].name].exists
               /\ \A x \in zst'[sealed'[i].name].items :
                    Live(x)' => x.seq <= sealed'[i].maxSeq
    <3>1. CASE \E j \in DOMAIN sealed : sealed'[i] = sealed[j]
      BY <3>1, <2>1, <1>3, <1>5, Zenon DEF SealedInv, IndexOK
    <3>2. CASE /\ sealed'[i].name = n
               /\ \A x \in zst'[n].items : x.seq <= sealed'[i].maxSeq
      BY <3>2, <1>2, <1>4, Zenon
    <3> QED BY <3>1, <3>2, <1>2, Zenon
  <2>3. IndexOK(sealed)'
    BY <2>2, <1>1, <1>2, Zenon DEF IndexOK
  <2>4. ASSUME NEW m \in Names, NEW x \in zst'[m].items, Live(x)'
        PROVE  wal[m].exists \/ \E i \in DOMAIN sealed' : sealed'[i].name = m
    <3>1. CASE m = n
      BY <3>1, <2>4, <1>2, Zenon
    <3>2. CASE m # n
      <4>1. x \in zst[m].items /\ Live(x)
        BY <2>4, <1>3, <1>5, Zenon
      <4>2. wal[m].exists \/ \E j \in DOMAIN sealed : sealed[j].name = m
        BY <4>1, Zenon DEF SealedInv
      <4> QED BY <4>2, <3>2, <1>2, Zenon
    <3> QED BY <3>1, <3>2
  <2> QED BY <2>3, <2>4, <1>1, <1>3 DEF SealedInv
<1>13. KeptInv'
  BY <1>1, Zenon DEF KeptInv
<1>14. BatchInv'
  BY <1>1, <1>3, <1>5, Zenon DEF BatchInv
<1> QED BY <1>6, <1>7, <1>8, <1>9, <1>10, <1>11, <1>12, <1>13, <1>14, Zenon

\* One turn of EnforceCapacity's loop, whichever segment has the victim.
LEMMA EnforceDiscardStep == ASSUME IInv, EnforceDiscard PROVE IInv'
<1>1. PICK it \in Victims :
        /\ DiscardActive(it) \/ DiscardSealed(it)
        /\ discarded' = discarded \cup {it.id}
  BY DEF EnforceDiscard
<1>2. pc = "enforce"
      /\ UNCHANGED <<maxName, nextSeq, batch, appends, accepted, confirmed>>
  BY DEF EnforceDiscard
<1> QED BY <1>1, <1>2, DiscardActiveStep, DiscardSealedStep
=============================================================================
