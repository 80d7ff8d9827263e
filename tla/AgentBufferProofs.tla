------------------------- MODULE AgentBufferProofs --------------------------
(***************************************************************************)
(* Theorems about AgentBuffer for every value of the constants and every   *)
(* environment of BenignFaults: its invariants, the order of batches, and  *)
(* that it implements Outbox; and, where only seals fail, that the index   *)
(* and the count can be trusted.                                           *)
(***************************************************************************)
EXTENDS AgentBufferAppend, AgentBufferAck

-----------------------------------------------------------------------------
(* The theorems. *)

\* The empty buffer satisfies the inductive invariant.
LEMMA InitInvariant == Init => IInv
<1> SUFFICES ASSUME Init PROVE IInv
  OBVIOUS
<1> USE DEF Init
<1>1. TypeOK
  BY NilTypes, BoundsAssumption DEF TypeOK, Control
<1>2. \A n \in Names : wal[n] = NoWal /\ zst[n] = NoZst /\ Here(n) = {}
  BY DEF Here, NoWal, NoZst, NilActive
<1>3. FilesInv /\ ActiveInv /\ OrderInv
  BY <1>2 DEF FilesInv, ActiveInv, OrderInv, NoWal, NoZst, NilActive, Up
<1>4. SeqInv /\ SealedInv /\ KeptInv /\ BatchInv /\ DurableInv
  BY <1>2 DEF SeqInv, SealedInv, IndexOK, KeptInv, BatchInv, DurableInv, NoBatch,
     NoZst, Up
<1> QED BY <1>1, <1>3, <1>4 DEF IInv

\* Every step preserves the inductive invariant.
LEMMA NextInvariant == IInv /\ BenignFaults /\ [Next]_vars => IInv'
<1> SUFFICES ASSUME IInv, BenignFaults, [Next]_vars PROVE IInv'
  OBVIOUS
<1>1. CASE Open
  BY <1>1, OpenStep
<1>2. CASE SealOrphan
  BY <1>2, SealOrphanStep
<1>3. CASE UnlinkOrphan
  BY <1>3, UnlinkOrphanStep
<1>4. CASE OpenDone
  BY <1>4, OpenDoneStep
<1>5. CASE Crash
  BY <1>5, CrashStep
<1>6. CASE \E p \in Priorities : AppendItem(p) \/ AppendFails(p) \/ KilledInAppend(p)
  BY <1>6, AppendItemStep, AppendFailsStep, KilledInAppendStep
<1>7. CASE AppendClosed
  BY <1>7, AppendClosedStep
<1>8. CASE SealWrite
  BY <1>8, SealWriteStep
<1>9. CASE SealUnlink
  BY <1>9, SealUnlinkStep
<1>10. CASE SealFails
  BY <1>10, SealFailsStep
<1>11. CASE OldestItems
  BY <1>11, OldestItemsStep
<1>12. CASE AckSegment
  BY <1>12, AckSegmentStep
<1>13. CASE AckActive
  BY <1>13, AckActiveStep
<1>14. CASE RewriteWrite
  BY <1>14, RewriteWriteStep
<1>15. CASE EnforceDiscard
  BY <1>15, EnforceDiscardStep
<1>16. CASE Close \/ SendOk \/ SendFails \/ AckStart \/ AckFails
           \/ EnforceStart \/ EnforceDone \/ EnforceFails \/ RewriteFails
  BY <1>16, QuietSteps
<1>17. CASE UNCHANGED vars
  <2> USE <1>17 DEF IInv, vars, Here, Live, Up
  <2>1. TypeOK'
    BY DEF TypeOK
  <2>2. FilesInv' /\ ActiveInv'
    BY DEF FilesInv, ActiveInv
  <2>3. OrderInv' /\ SeqInv' /\ DurableInv'
    BY DEF OrderInv, SeqInv, DurableInv
  <2>4. SealedInv' /\ KeptInv'
    BY DEF SealedInv, KeptInv, IndexOK
  <2>5. BatchInv'
    BY DEF BatchInv
  <2> QED BY <2>1, <2>2, <2>3, <2>4, <2>5
<1> QED
  BY <1>1, <1>2, <1>3, <1>4, <1>5, <1>6, <1>7, <1>8, <1>9, <1>10, <1>11, <1>12,
     <1>13, <1>14, <1>15, <1>16, <1>17 DEF Next

\* The inductive invariant holds in every state of every benign environment.
THEOREM Invariance == BenignFaults /\ Spec => []IInv
<1> SUFFICES ASSUME BenignFaults PROVE Spec => []IInv
  OBVIOUS
<1>1. Init => IInv
  BY InitInvariant
<1>2. IInv /\ [Next]_vars => IInv'
  BY NextInvariant
<1> QED BY <1>1, <1>2, PTL DEF Spec

\* With no call under way the index covers the disk, so nothing is lost.
LEMMA InvariantNoLoss == IInv => NoLoss
<1> SUFFICES ASSUME IInv, pc = "idle", NEW x \in accepted,
                    x \notin confirmed, x \notin discarded
             PROVE  x \in IdsOf(Held)
  BY DEF NoLoss
<1>0. PICK n \in Names : \E it \in Here(n) : it.id = x
  BY DEF IInv, DurableInv
<1>1. PICK it \in Here(n) : it.id = x
  BY <1>0
<1>2. Live(it)
  BY <1>1 DEF Live
<1>3. it \in active.items \/ \E i \in DOMAIN sealed : it \in zst[sealed[i].name].items
  BY <1>1, <1>2, LiveHeld
<1>4. it \in Held
  BY <1>3, Zenon DEF Held
<1> QED BY <1>1, <1>4 DEF IdsOf

\* No record that Append reported durable (buffer.go:133-163) leaves the idle
\* buffer before a confirmed batch or EnforceCapacity took it, whatever
\* crashes and failed writes, seals and acknowledgements came before.
THEOREM RecordsAreKept == BenignFaults /\ Spec => []NoLoss
<1>1. IInv => NoLoss
  BY InvariantNoLoss
<1> QED BY <1>1, Invariance, PTL

\* The files cover every live record outside rewrite.
LEMMA InvariantCrashSafe == IInv => CrashSafe
<1> SUFFICES ASSUME IInv, pc # "rewrite", NEW x \in accepted,
                    x \notin confirmed, x \notin discarded
             PROVE  x \in IdsOf(Recoverable)
  BY DEF CrashSafe
<1>0. PICK n \in Names : \E it \in Here(n) : it.id = x
  BY DEF IInv, DurableInv
<1>1. PICK it \in Here(n) : it.id = x
  BY <1>0
<1>2. it \in zst[n].items \/ it \in wal[n].items
  BY <1>1, Numbers DEF Here, IInv, ActiveInv
<1>3. it \in wal[n].items => it \in Readable(wal[n])
  BY DEF Readable, IInv, FilesInv
<1>4. it \in Recoverable
  BY <1>2, <1>3, Zenon DEF Recoverable
<1> QED BY <1>1, <1>4 DEF IdsOf

\* A crash at any point outside rewrite's truncate-and-write window finds on
\* disk every record still to be delivered (buffer.go:130-132).
THEOREM CrashLosesNothing == BenignFaults /\ Spec => []CrashSafe
<1>1. IInv => CrashSafe
  BY InvariantCrashSafe
<1> QED BY <1>1, Invariance, PTL

\* The walk is in Seq order, so a batch is a prefix in Seq order too.
LEMMA StepOldestFirst ==
  ASSUME IInv, [Next]_vars, batch.stage = "none", batch'.stage = "sending",
         NEW it \in Held, it \notin batch'.items
  PROVE  it.seq > batch'.last
<1>1. OldestItems
  <2>1. ~UNCHANGED batch /\ batch' # NoBatch
    BY DEF NoBatch
  <2> QED
    BY <2>1, Zenon
    DEF Next, vars, Open, SealOrphan, UnlinkOrphan, OpenDone, Crash, AppendItem,
       AppendFails, KilledInAppend, AppendClosed, Close, SealWrite,
       SealUnlink, SealFails, SendOk, SendFails, AckStart, AckSegment, AckFails,
       AckActive, RewriteWrite, RewriteFails, EnforceStart, EnforceDone,
       EnforceDiscard, EnforceFails
<1>2. PICK p \in Walk :
        batch' = [stage |-> "sending", last |-> p[2].seq,
                  items |-> {q[2] : q \in WalkUpTo(p)}]
  BY <1>1, Zenon DEF OldestItems
<1>3. pc = "idle"
  BY <1>1 DEF OldestItems
<1>4. it \in active.items \/ \E i \in DOMAIN sealed : it \in zst[sealed[i].name].items
  BY Zenon DEF Held
<1>5. ~(it.seq <= p[2].seq)
  BY <1>2, <1>3, <1>4, PrefixCovers
<1>6. it \in Item /\ p[2] \in Item
  BY <1>4, WalkCases, SegmentOf DEF IInv, TypeOK, ActiveSegment, ZstFile
<1>7. it.seq \in Nat /\ p[2].seq \in Nat
  BY <1>6, ItemSeq
<1> QED BY <1>2, <1>5, <1>7

\* Backfill sends oldest first (backfill.go:34-35): whatever a batch leaves
\* in the buffer is newer than all of the batch.
THEOREM BatchesInOrder == BenignFaults /\ Spec => OldestFirst
<1>1. IInv /\ [Next]_vars =>
        [batch.stage = "none" /\ batch'.stage = "sending" =>
           \A it \in Held \ batch'.items : it.seq > batch'.last]_vars
  BY StepOldestFirst
<1> QED BY <1>1, Invariance, PTL DEF Spec, OldestFirst

-----------------------------------------------------------------------------
(* Pending, restated without the distinction between files and memory. *)

\* Under the invariant, what a restart would find is what is stored under
\* some name.
PendingIsHere ==
  \A x : x \in Pending <=> \E n \in Names : \E it \in Here(n) : it.id = x

\* No step brings back a record that was accepted before: whatever is new
\* under a name has an id not accepted yet.
NothingReappears ==
  \A n \in Names : \A it \in Here(n)' : it \in Here(n) \/ it.id \notin accepted

\* The inductive invariant makes the two descriptions of Pending agree.
LEMMA InvariantPending == IInv => PendingIsHere
<1> SUFFICES ASSUME IInv, NEW x
             PROVE  x \in Pending <=> \E n \in Names : \E it \in Here(n) : it.id = x
  BY DEF PendingIsHere
<1> DEFINE extra == IF pc = "rewrite" THEN active.items ELSE {}
<1>1. \A n \in Names : Readable(wal[n]) = wal[n].items
  BY DEF Readable, IInv, FilesInv
<1>2. x \in Pending <=> \E it \in Recoverable \cup extra : it.id = x
  BY DEF Pending, IdsOf
<1>3. \A it : it \in Recoverable <=>
        \E n \in Names : it \in zst[n].items \/ it \in Readable(wal[n])
  BY Zenon DEF Recoverable
<1>4. ASSUME NEW it \in active.items PROVE active.name \in Names
  BY DEF IInv, ActiveInv, NilActive, TypeOK, ActiveSegment, Names
<1>5. ASSUME NEW it \in Recoverable \cup extra
      PROVE  \E n \in Names : it \in Here(n)
  <2>1. CASE it \in Recoverable
    BY <2>1, <1>1, <1>3 DEF Here
  <2>2. CASE it \in extra
    BY <2>2, <1>4 DEF Here
  <2> QED BY <2>1, <2>2
<1>6. ASSUME NEW n \in Names, NEW it \in Here(n)
      PROVE  it \in Recoverable \cup extra
  <2>1. CASE it \in zst[n].items \/ it \in wal[n].items
    BY <2>1, <1>1, <1>3
  <2>2. CASE active.name = n /\ it \in active.items
    <3>1. CASE pc = "rewrite"
      BY <3>1, <2>2
    <3>2. CASE pc # "rewrite"
      <4>1. it \in wal[n].items
        BY <3>2, <2>2, Numbers DEF IInv, ActiveInv
      <4> QED BY <4>1, <2>1
    <3> QED BY <3>1, <3>2
  <2> QED BY <2>1, <2>2 DEF Here
<1> HIDE DEF extra
<1> QED BY <1>2, <1>5, <1>6

\* Steps that leave the files and the active segment alone.
LEMMA SameRecords ==
  ASSUME UNCHANGED <<wal, zst, active>>
  PROVE  NothingReappears
  BY DEF NothingReappears, Here

\* The steps that write a new record give it an id no record has had.
LEMMA NewRecords ==
  ASSUME IInv, NEW p \in Priorities,
         AppendItem(p) \/ AppendFails(p) \/ KilledInAppend(p), BenignFaults
  PROVE  NothingReappears
<1> DEFINE new == NewItem(p)
<1>1. new.id \notin accepted
  <2>1. new.id = appends + 1
    BY DEF NewItem
  <2> QED BY <2>1, Numbers DEF IInv, SeqInv
<1>2. "torn" \notin Faults
  BY DEF BenignFaults
<1> HIDE DEF new
<1>3. /\ zst' = zst
      /\ \A n \in Names : wal'[n].items \subseteq wal[n].items \cup {new}
  <2>1. CASE AppendItem(p)
    BY <2>1 DEF AppendItem, WithRecords, IInv, TypeOK, new
  <2>2. CASE AppendFails(p)
    <3>1. zst' = zst
      BY <2>2, Zenon DEF AppendFails, disk
    <3>2. \/ wal' = wal
          \/ \E n \in Targets, S \in SUBSET {new} :
               wal' = [wal EXCEPT ![n] = WithRecords(@, S)]
      BY <2>2, <1>2, Zenon DEF AppendFails, disk, new
    <3> QED BY <3>1, <3>2 DEF WithRecords, IInv, TypeOK
  <2>3. CASE KilledInAppend(p)
    <3>1. PICK n \in Targets, S \in SUBSET {new} :
            wal' = [wal EXCEPT ![n] = WithRecords(@, S)]
      BY <2>3, Zenon DEF KilledInAppend, new
    <3>2. \A m \in Names : m # n => wal'[m] = wal[m]
      BY <3>1 DEF IInv, TypeOK
    <3>3. n \in Names => wal'[n].items \subseteq wal[n].items \cup {new}
      BY <3>1 DEF IInv, TypeOK, WithRecords
    <3> QED BY <3>2, <3>3, <2>3 DEF KilledInAppend
  <2> QED BY <2>1, <2>2, <2>3
<1>4. ASSUME NEW n \in Names, active'.name = n, NEW it \in active'.items
      PROVE  it \in Here(n) \/ it = new
  <2>1. CASE AppendItem(p)
    <3>1. n \in Targets /\ active'.items = active.items \cup {new}
      BY <2>1, <1>4 DEF AppendItem, new
    <3>2. active.name = n \/ active.items = {}
      BY <3>1 DEF Targets, IInv, ActiveInv, NilActive
    <3> QED BY <3>1, <3>2, <1>4, Zenon DEF Here
  <2>2. CASE AppendFails(p)
    <3>1. active' = active \/ (n \in Targets /\ active'.items = active.items)
      BY <2>2, <1>4, Zenon DEF AppendFails, IInv, TypeOK, ActiveSegment
    <3>2. active.name = n \/ active.items = {}
      BY <3>1, <1>4 DEF Targets, IInv, ActiveInv, NilActive
    <3> QED BY <3>1, <3>2, <1>4 DEF Here
  <2>3. CASE KilledInAppend(p)
    BY <2>3, <1>4, Zenon DEF KilledInAppend, NilActive
  <2> QED BY <2>1, <2>2, <2>3
<1> QED BY <1>1, <1>3, <1>4 DEF NothingReappears, Here

\* Recovery, sealing, rewriting, acknowledging and discarding copy records
\* within a name or remove them.
LEMMA OldRecords ==
  ASSUME IInv,
         SealOrphan \/ UnlinkOrphan \/ Crash \/ SealWrite \/ SealUnlink \/ SealFails
           \/ AckSegment \/ AckActive \/ RewriteWrite \/ EnforceDiscard
  PROVE  NothingReappears
<1> USE DEF IInv
<1>0. /\ \A n \in Names : wal[n] \in WalFile /\ zst[n] \in ZstFile
      /\ active \in ActiveSegment
  BY DEF TypeOK
<1> SUFFICES /\ \A n \in Names : zst'[n].items \subseteq Here(n)
             /\ \A n \in Names : wal'[n].items \subseteq Here(n)
             /\ \/ active'.name = 0
                \/ /\ active'.name = active.name
                   /\ active'.items \subseteq active.items
  BY Numbers DEF NothingReappears, Here
<1>1. CASE SealOrphan
  <2>1. active' = active /\ wal' = wal
    BY <1>1 DEF SealOrphan, memory
  <2>2. PICK m : zst' = [zst EXCEPT ![m] = [exists |-> TRUE, items |-> Readable(wal[m])]]
    BY <1>1, Zenon DEF SealOrphan
  <2>3. \A n \in Names : zst'[n].items \subseteq Here(n)
    <3>1. \A n \in Names : n # m => zst'[n] = zst[n]
      BY <2>2 DEF TypeOK
    <3>2. m \in Names => zst'[m].items = Readable(wal[m])
      BY <2>2 DEF TypeOK
    <3>3. Readable(wal[m]) \subseteq wal[m].items
      BY DEF Readable
    <3> QED BY <3>1, <3>2, <3>3 DEF Here
  <2> QED BY <2>1, <2>3 DEF Here
<1>2. CASE UnlinkOrphan
  <2>1. zst' = zst /\ active' = active
    BY <1>2 DEF UnlinkOrphan, memory
  <2>2. wal' = [wal EXCEPT ![maxName] = NoWal]
    BY <1>2, UnlinkOrphanEffect
  <2>3. \A n \in Names : wal'[n] = wal[n] \/ wal'[n] = NoWal
    BY <2>2 DEF TypeOK
  <2> QED BY <2>1, <2>3 DEF Here, NoWal
<1>3. CASE Crash
  BY <1>3 DEF Crash, disk, NilActive, Here
<1>4. CASE SealWrite
  <2>1. wal' = wal /\ active'.name = active.name /\ active'.items = active.items
    BY <1>0, <1>4 DEF SealWrite, ActiveSegment
  <2>2. \A n \in Names : n # active.name => zst'[n] = zst[n]
    BY <1>4 DEF SealWrite, TypeOK
  <2>3. active.name \in Names => zst'[active.name].items = active.items
    BY <1>4 DEF SealWrite, TypeOK
  <2> QED BY <2>1, <2>2, <2>3 DEF Here
<1>5. CASE SealUnlink
  <2>1. zst' = zst /\ active' = NilActive
    BY <1>5 DEF SealUnlink
  <2>2. \A n \in Names : wal'[n] = wal[n] \/ wal'[n] = NoWal
    BY <1>5 DEF SealUnlink, TypeOK
  <2> QED BY <2>1, <2>2 DEF Here, NoWal, NilActive
<1>6. CASE SealFails
  <2>1. wal' = wal /\ zst' = zst
    BY <1>6 DEF SealFails, disk
  <2>2. active'.name = active.name /\ active'.items = active.items
    BY <1>0, <1>6 DEF SealFails, ActiveSegment
  <2> QED BY <2>1, <2>2 DEF Here
<1>7. CASE AckSegment
  <2>1. wal' = wal /\ active' = active
    BY <1>7, Zenon DEF AckSegment
  <2>2. \A n \in Names : zst'[n].items \subseteq zst[n].items
    BY <1>7, AckSegmentEffect, Zenon
  <2> QED BY <2>1, <2>2 DEF Here
<1>8. CASE AckActive
  <2>1. zst' = zst
    BY <1>8, Zenon DEF AckActive
  <2>2. PICK left \in SUBSET active.items :
          /\ active' = [name |-> active.name, open |-> active.open, items |-> left]
          /\ wal' = wal \/ wal' = [wal EXCEPT ![active.name] = EmptyWal]
    BY <1>8, AckActiveEffect
  <2>3. \A n \in Names : wal'[n] = wal[n] \/ wal'[n] = EmptyWal
    BY <2>2 DEF TypeOK
  <2> QED BY <2>1, <2>2, <2>3 DEF Here, EmptyWal
<1>9. CASE RewriteWrite
  <2>1. zst' = zst /\ active' = active
    BY <1>9 DEF RewriteWrite
  <2>2. \A n \in Names : n # active.name => wal'[n] = wal[n]
    BY <1>9 DEF RewriteWrite, TypeOK
  <2>3. active.name \in Names => wal'[active.name].items = active.items
    BY <1>0, <1>9 DEF RewriteWrite, TypeOK, WalFile
  <2> QED BY <2>1, <2>2, <2>3 DEF Here
<1>10. CASE EnforceDiscard
  <2>1. PICK it : DiscardActive(it) \/ DiscardSealed(it)
    BY <1>10 DEF EnforceDiscard
  <2>2. CASE DiscardActive(it)
    <3>1. zst' = zst /\ \A n \in Names : wal'[n] = wal[n] \/ wal'[n] = EmptyWal
      BY <2>2 DEF DiscardActive, TypeOK
    <3>2. active'.name = active.name /\ active'.items \subseteq active.items
      BY <1>0, <2>2 DEF DiscardActive, ActiveSegment
    <3> QED BY <3>1, <3>2 DEF Here, EmptyWal
  <2>3. CASE DiscardSealed(it)
    <3>1. pc = "enforce"
      BY <1>10 DEF EnforceDiscard
    <3>2. wal' = wal /\ active' = active
      BY <2>3 DEF DiscardSealed
    <3>3. \A n \in Names : zst'[n].items \subseteq zst[n].items
      BY <2>3, <3>1, DiscardSealedEffect, Zenon
    <3> QED BY <3>2, <3>3 DEF Here
  <2> QED BY <2>1, <2>2, <2>3
<1> QED BY <1>1, <1>2, <1>3, <1>4, <1>5, <1>6, <1>7, <1>8, <1>9, <1>10, Zenon

\* Every step of the buffer, stuttering included.
LEMMA StepRecords ==
  ASSUME IInv, BenignFaults, [Next]_vars
  PROVE  NothingReappears
<1>1. CASE \E p \in Priorities : AppendItem(p) \/ AppendFails(p) \/ KilledInAppend(p)
  BY <1>1, NewRecords
<1>2. CASE SealOrphan \/ UnlinkOrphan \/ Crash \/ SealWrite \/ SealUnlink \/ SealFails
           \/ AckSegment \/ AckActive \/ RewriteWrite \/ EnforceDiscard
  BY <1>2, OldRecords
<1>3. CASE Open \/ OpenDone \/ AppendClosed \/ Close \/ OldestItems \/ SendOk
           \/ SendFails \/ AckStart \/ AckFails \/ RewriteFails \/ EnforceStart
           \/ EnforceDone \/ EnforceFails \/ UNCHANGED vars
  BY <1>3, SameRecords DEF Open, OpenDone, AppendClosed, Close, OldestItems, SendOk,
     SendFails, AckStart, AckFails, RewriteFails, EnforceStart, EnforceDone,
     EnforceFails, vars, disk, memory
<1> QED BY <1>1, <1>2, <1>3 DEF Next

-----------------------------------------------------------------------------
(* The refinement. *)

\* A step that enters, delivers and drops nothing forgets only what was
\* delivered or dropped.
LEMMA ForgetStep ==
  ASSUME IInv', PendingIsHere, PendingIsHere', NothingReappears,
         accepted' = accepted, confirmed' = confirmed,
         discarded' \cap accepted = discarded \cap accepted
  PROVE  [Abstract!OutboxNext]_(Abstract!outboxVars)
<1> DEFINE S == (Pending \cap accepted) \ (Pending' \cap accepted)
<1>1. Pending' \cap accepted \subseteq Pending
  BY DEF PendingIsHere, NothingReappears
<1>2. ASSUME NEW x \in S PROVE x \in confirmed \cap accepted \/ x \in discarded \cap accepted
  <2>1. x \in accepted /\ ~(\E n \in Names : \E it \in Here(n)' : it.id = x)
    BY DEF PendingIsHere
  <2>2. x \in confirmed' \/ x \in discarded'
    BY <2>1 DEF IInv, DurableInv
  <2> QED BY <2>1, <2>2
<1>3. (Pending \cap accepted)' = (Pending \cap accepted) \ S
  BY <1>1
<1>4. S \in SUBSET (Pending \cap accepted)
  OBVIOUS
<1> HIDE DEF S
<1>5. Abstract!Forget(S)
  BY <1>2, <1>3 DEF Abstract!Forget
<1> QED BY <1>4, <1>5 DEF Abstract!OutboxNext

\* Only ids handed out by Append occur in batches and in the history.
HistoryInv ==
  /\ confirmed \subseteq 1 .. appends
  /\ discarded \subseteq 1 .. appends
  /\ IdsOf(batch.items) \subseteq 1 .. appends

\* What the buffer holds carries ids handed out by Append.
LEMMA HeldIds ==
  ASSUME IInv, NEW it,
         it \in active.items
           \/ \E i \in DOMAIN sealed : it \in zst[sealed[i].name].items
  PROVE  it.id \in 1 .. appends
<1>1. \E n \in Names : it \in Here(n)
  <2>1. CASE it \in active.items
    <3>1. active.name \in Names
      BY <2>1 DEF IInv, ActiveInv, NilActive, TypeOK, ActiveSegment, Names
    <3> QED BY <3>1, <2>1, Zenon DEF Here
  <2>2. CASE \E i \in DOMAIN sealed : it \in zst[sealed[i].name].items
    BY <2>2, SegmentOf, Zenon DEF Here, IInv, TypeOK
  <2> QED BY <2>1, <2>2
<1>2. it \in Item /\ it.id <= appends
  BY <1>1, HereItems, Zenon DEF IInv, SeqInv
<1> QED BY <1>2, Numbers DEF Item, Ids, IInv

\* HistoryInv is preserved by every step.
LEMMA HistoryStep ==
  ASSUME IInv, HistoryInv, [Next]_vars
  PROVE  HistoryInv'
<1> USE DEF HistoryInv
<1>1. appends \in Nat
  BY Numbers DEF IInv
<1>2. CASE OldestItems
  <2>1. PICK p \in Walk : batch'.items = {q[2] : q \in WalkUpTo(p)}
    BY <1>2 DEF OldestItems
  <2>2. \A q \in WalkUpTo(p) : q[2].id \in 1 .. appends
    BY WalkCases, HeldIds DEF WalkUpTo
  <2>3. IdsOf(batch'.items) \subseteq 1 .. appends
    BY <2>1, <2>2 DEF IdsOf
  <2> QED BY <2>3, <1>2, Zenon DEF OldestItems, history, IdsOf
<1>3. CASE EnforceDiscard
  <2>1. PICK it \in Victims : discarded' = discarded \cup {it.id}
    BY <1>3 DEF EnforceDiscard
  <2>2. it \in Held
    BY DEF Victims
  <2>3. it \in active.items \/ \E i \in DOMAIN sealed : it \in zst[sealed[i].name].items
    BY <2>2, Zenon DEF Held
  <2>4. it.id \in 1 .. appends
    BY <2>3, HeldIds
  <2> QED BY <2>1, <2>4, <1>3, Zenon DEF EnforceDiscard, IdsOf
<1>4. CASE SendOk
  <2>1. batch'.items = batch.items
    BY <1>4 DEF SendOk, IInv, TypeOK, BatchState
  <2> QED BY <2>1, <1>4 DEF SendOk, IdsOf
<1>5. CASE (UNCHANGED batch \/ batch' = NoBatch)
           /\ UNCHANGED <<confirmed, discarded>>
           /\ appends' \in {appends, appends + 1}
  <2>1. IdsOf(NoBatch.items) = {}
    BY DEF IdsOf, NoBatch
  <2>2. 1 .. appends \subseteq 1 .. appends'
    BY <1>1, <1>5
  <2> QED BY <2>1, <2>2, <1>5, Zenon DEF IdsOf
<1>6. CASE Open \/ SealOrphan \/ UnlinkOrphan \/ OpenDone \/ Crash \/ Close
           \/ SealWrite \/ SealUnlink \/ SealFails \/ SendFails \/ AckStart
           \/ AckSegment \/ AckFails \/ AckActive \/ UNCHANGED vars
  BY <1>5, <1>6, Zenon DEF Open, SealOrphan, UnlinkOrphan, OpenDone, Crash, Close,
     SealWrite, SealUnlink, SealFails, SendFails, AckStart, AckSegment, AckFails,
     AckActive, vars, history
<1>7. CASE AppendClosed \/ RewriteWrite \/ RewriteFails \/ EnforceStart \/ EnforceDone
           \/ EnforceFails \/ \E p \in Priorities :
                AppendItem(p) \/ AppendFails(p) \/ KilledInAppend(p)
  BY <1>5, <1>7, Zenon DEF AppendClosed, RewriteWrite, RewriteFails, EnforceStart,
     EnforceDone, EnforceFails, AppendItem, AppendFails, KilledInAppend, history
<1> QED BY <1>2, <1>3, <1>4, <1>6, <1>7 DEF Next

\* Append enters a new record.
LEMMA EnterStep ==
  ASSUME IInv, HistoryInv, PendingIsHere, PendingIsHere', NothingReappears,
         NEW p \in Priorities, AppendItem(p)
  PROVE  Abstract!OutboxNext
<1> DEFINE x == appends + 1
<1>1. /\ x \in Ids /\ x \notin accepted /\ x \notin confirmed /\ x \notin discarded
  BY Numbers DEF AppendItem, Ids, IInv, SeqInv, HistoryInv
<1>2. accepted' = accepted \cup {x} /\ confirmed' = confirmed /\ discarded' = discarded
      /\ zst' = zst
  BY DEF AppendItem, NewItem
<1>3. PICK n \in Targets :
        /\ wal' = [wal EXCEPT ![n] = WithRecords(@, {NewItem(p)})]
        /\ active' = [name |-> n, open |-> TRUE, items |-> active.items \cup {NewItem(p)}]
  BY Zenon DEF AppendItem
<1>4. n \in Names /\ (active.name = n \/ active.items = {})
  <2>1. CASE active.name = 0
    <3>1. active.items = {}
      BY <2>1 DEF IInv, ActiveInv, NilActive
    <3>2. n \in Names
      BY <2>1, <1>3 DEF Targets, NewNames
    <3> QED BY <3>1, <3>2
  <2>2. CASE active.name # 0
    BY <2>2, <1>3 DEF Targets, IInv, TypeOK, ActiveSegment, Names
  <2> QED BY <2>1, <2>2, Zenon
<1>5. wal'[n].items = wal[n].items \cup {NewItem(p)}
      /\ \A m \in Names : m # n => wal'[m] = wal[m]
  BY <1>3, <1>4, Zenon DEF IInv, TypeOK, WithRecords
<1>6. \A m \in Names : Here(m) \subseteq Here(m)'
  BY <1>2, <1>3, <1>4, <1>5, Zenon DEF Here
<1>7. x \in Pending'
  <2>1. NewItem(p) \in Here(n)' /\ NewItem(p).id = x
    BY <1>5 DEF Here, NewItem
  <2> QED BY <2>1, <1>4 DEF PendingIsHere
<1>8. \A y \in accepted : y \in Pending' <=> y \in Pending
  BY <1>6 DEF PendingIsHere, NothingReappears
<1> HIDE DEF x
<1>9. (Pending \cap accepted)' = (Pending \cap accepted) \cup {x}
  BY <1>2, <1>7, <1>8
<1>10. Abstract!Enter(x)
  BY <1>1, <1>2, <1>9 DEF Abstract!Enter
<1> QED BY <1>1, <1>10, Zenon DEF Abstract!OutboxNext

\* A confirmed batch delivers records and leaves every file alone.
LEMMA DeliverStep ==
  ASSUME SendOk
  PROVE  [Abstract!OutboxNext]_(Abstract!outboxVars)
<1> DEFINE S == IdsOf(batch.items) \cap accepted
<1>1. /\ accepted' = accepted /\ discarded' = discarded
      /\ confirmed' = confirmed \cup IdsOf(batch.items)
      /\ UNCHANGED <<wal, zst, active, pc>>
  BY DEF SendOk, disk, memory
<1>2. Pending' = Pending
  BY <1>1 DEF Pending, Recoverable
<1>3. Abstract!Deliver(S)
  BY <1>1, <1>2 DEF Abstract!Deliver
<1> QED BY <1>3 DEF Abstract!OutboxNext

\* EnforceCapacity drops one record, and forgets only what is accounted for.
LEMMA DropStep ==
  ASSUME IInv', PendingIsHere, PendingIsHere', NothingReappears, EnforceDiscard
  PROVE  [Abstract!OutboxNext]_(Abstract!outboxVars)
<1>1. PICK it \in Victims : discarded' = discarded \cup {it.id}
  BY DEF EnforceDiscard
<1>2. accepted' = accepted /\ confirmed' = confirmed
  BY DEF EnforceDiscard
<1>3. CASE it.id \notin accepted
  BY <1>1, <1>2, <1>3, ForgetStep
<1>4. CASE it.id \in accepted
  <2> DEFINE S == (Pending \cap accepted) \ (Pending' \cap accepted)
             x == it.id
  <2>1. Pending' \cap accepted \subseteq Pending
    BY DEF PendingIsHere, NothingReappears
  <2>2. ASSUME NEW y \in S
        PROVE  y \in confirmed \cap accepted \/ y \in discarded' \cap accepted
    <3>1. y \in accepted /\ ~(\E n \in Names : \E z \in Here(n)' : z.id = y)
      BY DEF PendingIsHere
    <3>2. y \in confirmed' \/ y \in discarded'
      BY <3>1, <1>2 DEF IInv, DurableInv
    <3> QED BY <3>1, <3>2, <1>2
  <2>3. (Pending \cap accepted)' = (Pending \cap accepted) \ S
    BY <2>1, <1>2
  <2>4. S \in SUBSET (Pending \cap accepted)
    OBVIOUS
  <2>5. (discarded \cap accepted)' = (discarded \cap accepted) \cup {x}
    BY <1>1, <1>2, <1>4
  <2> HIDE DEF S, x
  <2>6. Abstract!Drop(x, S)
    BY <2>2, <2>3, <2>5, <1>2 DEF Abstract!Drop
  <2>7. x \in accepted
    BY <1>4 DEF x
  <2> QED BY <2>4, <2>6, <2>7 DEF Abstract!OutboxNext
<1> QED BY <1>3, <1>4

\* Every step of the buffer is a step of the Outbox or changes nothing there.
LEMMA RefinementStep ==
  ASSUME BenignFaults, IInv, IInv', HistoryInv, PendingIsHere, PendingIsHere',
         [Next]_vars
  PROVE  [Abstract!OutboxNext]_(Abstract!outboxVars)
<1>0. NothingReappears
  BY StepRecords
<1>1. CASE \E p \in Priorities : AppendItem(p)
  BY <1>0, <1>1, EnterStep
<1>2. CASE SendOk
  BY <1>2, DeliverStep
<1>3. CASE EnforceDiscard
  BY <1>0, <1>3, DropStep
<1>4. CASE UNCHANGED <<accepted, confirmed, discarded>>
  BY <1>0, <1>4, ForgetStep
<1>5. CASE Open \/ SealOrphan \/ UnlinkOrphan \/ OpenDone \/ Crash \/ Close
           \/ SealWrite \/ SealUnlink \/ SealFails \/ OldestItems \/ SendFails
           \/ AckStart \/ AckSegment \/ AckFails \/ AckActive \/ UNCHANGED vars
  BY <1>4, <1>5, Zenon DEF Open, SealOrphan, UnlinkOrphan, OpenDone, Crash, Close,
     SealWrite, SealUnlink, SealFails, OldestItems, SendFails, AckStart, AckSegment,
     AckFails, AckActive, vars, history
<1>6. CASE AppendClosed \/ RewriteWrite \/ RewriteFails \/ EnforceStart \/ EnforceDone
           \/ EnforceFails \/ \E p \in Priorities : AppendFails(p) \/ KilledInAppend(p)
  BY <1>4, <1>6, Zenon DEF AppendClosed, RewriteWrite, RewriteFails, EnforceStart,
     EnforceDone, EnforceFails, AppendFails, KilledInAppend, history
<1> QED BY <1>1, <1>2, <1>3, <1>5, <1>6, Zenon DEF Next

\* The segment files implement the Outbox: through every crash, seal,
\* acknowledgement and discard a record that entered stays until it was
\* delivered or dropped (the promise of buffer.go:1-4 and backfill.go:29-37).
THEOREM Refinement == BenignFaults /\ Spec => ImplementsOutbox
<1> SUFFICES ASSUME BenignFaults PROVE Spec => ImplementsOutbox
  OBVIOUS
<1>1. Spec => []IInv
  BY Invariance, PTL
<1>2. IInv => PendingIsHere
  BY InvariantPending
<1>3. Init => HistoryInv /\ Abstract!OutboxInit
  BY DEF Init, HistoryInv, IdsOf, NoBatch, Abstract!OutboxInit
<1>4. IInv /\ HistoryInv /\ [Next]_vars => HistoryInv'
  BY HistoryStep
<1>5. IInv /\ IInv' /\ HistoryInv /\ PendingIsHere /\ PendingIsHere' /\ [Next]_vars
        => [Abstract!OutboxNext]_(Abstract!outboxVars)
  BY RefinementStep
<1> QED
  BY <1>1, <1>2, <1>3, <1>4, <1>5, PTL DEF Spec, ImplementsOutbox, Abstract!OutboxSpec

-----------------------------------------------------------------------------
(* The steps that leave the index alone. *)

\* The environments the two theorems below are about: seals may fail, and
\* nothing calls EnforceCapacity.
SealFaultsOnly == Faults \subseteq {"seal"} /\ ~Enforce

\* A step between calls that touches neither files nor index.
LEMMA QuietIndex ==
  ASSUME IndexInv, UNCHANGED <<wal, zst, active, sealed, totalLen, call>>,
         pc # "ack", pc' # "ack", pc' # "enforce",
         pc' = pc \/ (pc # "rewrite" /\ pc' # "rewrite")
  PROVE  IndexInv'
<1>1. CopiesInv'
  BY DEF IndexInv, CopiesInv
<1>2. FrameInv'
  BY DEF IndexInv, FrameInv
<1>3. ExactInv'
  BY DEF IndexInv, ExactInv, Exact
<1>4. LenInv'
  BY DEF IndexInv, LenInv
<1> QED BY <1>1, <1>2, <1>3, <1>4 DEF IndexInv

\* Moving between calls, numbering records and sending batches.
LEMMA QuietIndexSteps ==
  ASSUME IInv, IndexInv, SealFaultsOnly,
         OpenDone \/ Close \/ AppendClosed \/ OldestItems \/ SendOk \/ SendFails
  PROVE  IndexInv'
<1>1. CASE OpenDone \/ Close \/ AppendClosed \/ OldestItems
  <2>1. /\ UNCHANGED <<wal, zst, active, sealed, totalLen, call>>
        /\ pc \in {"recover", "idle"} /\ pc' \in {"idle", "seal"}
    BY <1>1 DEF OpenDone, Close, AppendClosed, OldestItems, disk, memory
  <2> QED BY <2>1, QuietIndex
<1>2. CASE SendOk \/ SendFails
  <2>1. /\ UNCHANGED <<wal, zst, active, sealed, totalLen, call>>
        /\ pc' = pc /\ batch.stage = "sending"
    BY <1>2 DEF SendOk, SendFails, disk, memory
  <2>2. pc # "ack" /\ pc # "enforce"
    BY <2>1 DEF IInv, BatchInv, IndexInv, FrameInv
  <2> QED BY <2>1, <2>2, QuietIndex
<1> QED BY <1>1, <1>2

\* Steps the environment rules out.
LEMMA RuledOut ==
  ASSUME IInv, IndexInv, SealFaultsOnly
  PROVE  /\ \A p \in Priorities : ~AppendFails(p)
         /\ ~AckFails /\ ~RewriteFails
         /\ ~EnforceStart /\ ~EnforceDone /\ ~EnforceDiscard /\ ~EnforceFails
<1>1. \A p \in Priorities : ~AppendFails(p)
  <2>1. "write" \notin Faults /\ "torn" \notin Faults
    BY DEF SealFaultsOnly
  <2> QED BY <2>1, Zenon DEF AppendFails
<1>2. ~RewriteFails /\ ~EnforceStart
  BY DEF RewriteFails, EnforceStart, SealFaultsOnly
<1>3. ~EnforceDone /\ ~EnforceDiscard /\ ~EnforceFails
  BY DEF EnforceDone, EnforceDiscard, EnforceFails, IndexInv, FrameInv
<1>4. ASSUME AckFails PROVE FALSE
  <2>1. /\ pc = "ack" /\ call.pos <= Len(sealed)
        /\ sealed[call.pos].maxSeq > batch.last /\ ~zst[sealed[call.pos].name].exists
    BY <1>4 DEF AckFails, SealFaultsOnly
  <2>2. call.pos \in DOMAIN sealed /\ call.pos >= call.pos
    <3>1. Len(sealed) \in Nat /\ call.pos \in 1 .. Len(sealed) + 1
      BY <2>1 DEF IInv, KeptInv, TypeOK
    <3> QED BY <3>1, <2>1 DEF IInv, TypeOK
  <2>3. Removed(sealed[call.pos])
    BY <2>1, <2>2, Zenon DEF IndexInv, ExactInv, Exact, Trimmed
  <2>4. sealed[call.pos].maxSeq \in Nat
    BY <2>2, IndexedNames DEF Segment
  <2> QED BY <2>1, <2>3, <2>4, Numbers DEF Removed, IInv
<1> QED BY <1>1, <1>2, <1>3, <1>4

\* The process dies, and the index with it.
LEMMA DeathIndex ==
  ASSUME pc' = "down", sealed' = <<>>, totalLen' = 0, call' = NoCall,
         active' = NilActive, zst' = zst,
         \A n \in Names : wal'[n].exists /\ zst[n].exists => zst[n].items = wal'[n].items
  PROVE  IndexInv'
<1>1. CopiesInv'
  BY DEF CopiesInv, NilActive
<1>2. FrameInv'
  BY DEF FrameInv
<1>3. ExactInv'
  BY DEF ExactInv
<1>4. LenInv'
  <2>1. Cardinality(active'.items) = 0
    BY FS_EmptySet DEF NilActive
  <2>2. /\ call'.pos = 0 /\ call'.kept = <<>> /\ call'.removed = 0
        /\ Cardinality(Slots(<<>>, 0)) = 0
    BY NoCallSlots
  <2>3. Cardinality(Slots(call'.kept, 0)) = 0 /\ Cardinality(Slots(sealed', call'.pos)) = 0
    BY <2>2
  <2> QED BY <2>1, <2>2, <2>3 DEF LenInv
<1> QED BY <1>1, <1>2, <1>3, <1>4 DEF IndexInv

\* A kill leaves the files, or adds to one that has no sealed copy.
LEMMA CrashIndex ==
  ASSUME IInv, IndexInv, SealFaultsOnly,
         Crash \/ \E p \in Priorities : KilledInAppend(p)
  PROVE  IndexInv'
<1>1. CASE Crash
  BY <1>1, DeathIndex DEF Crash, disk, IndexInv, CopiesInv
<1>2. CASE \E p \in Priorities : KilledInAppend(p)
  <2>1. PICK p \in Priorities : KilledInAppend(p)
    BY <1>2
  <2>2. PICK n \in Targets, S \in SUBSET {NewItem(p)} :
          wal' = [wal EXCEPT ![n] = WithRecords(@, S)]
    BY <2>1, Zenon DEF KilledInAppend
  <2>3. n \in Names /\ ~zst[n].exists
    <3>1. BenignFaults
      BY DEF BenignFaults, SealFaultsOnly
    <3> QED BY <3>1, <2>1, <2>2, NewTarget, Zenon DEF KilledInAppend
  <2>4. \A m \in Names : m # n => wal'[m] = wal[m]
    BY <2>2 DEF IInv, TypeOK
  <2>5. \A m \in Names : wal'[m].exists /\ zst[m].exists => zst[m].items = wal'[m].items
    BY <2>3, <2>4, Zenon DEF IndexInv, CopiesInv
  <2> QED BY <2>1, <2>5, DeathIndex DEF KilledInAppend
<1> QED BY <1>1, <1>2

\* Append counts the record it adds.
LEMMA AppendIndex ==
  ASSUME IInv, IndexInv, SealFaultsOnly, NEW p \in Priorities, AppendItem(p)
  PROVE  IndexInv'
<1> DEFINE it == NewItem(p)
           items == active.items \cup {it}
<1>1. PICK n \in Targets :
        /\ wal' = [wal EXCEPT ![n] = WithRecords(@, {it})]
        /\ active' = [name |-> n, open |-> TRUE, items |-> items]
        /\ pc' \in {"seal", "idle"}
  BY Zenon DEF AppendItem
<1>2. /\ pc = "idle" /\ (active.name # 0 => active.open)
      /\ totalLen' = totalLen + 1 /\ UNCHANGED <<zst, sealed, call>>
  BY DEF AppendItem
<1>3. /\ n \in Names /\ ~zst[n].exists
      /\ \/ active.name = n
         \/ active.name = 0 /\ ~wal[n].exists
  BY <1>2, NewTarget, Zenon DEF BenignFaults, SealFaultsOnly
<1>4. /\ \A m \in Names : m # n => wal'[m] = wal[m]
      /\ wal'[n] = WithRecords(wal[n], {it})
  BY <1>1, <1>3 DEF IInv, TypeOK
<1>5. wal[n].items = active.items
  <2>1. CASE active.name = n
    <3>1. active.open
      BY <2>1, <1>2, <1>3, Numbers DEF IInv
    <3> QED BY <2>1, <3>1, <1>2 DEF IndexInv, CopiesInv
  <2>2. CASE active.name = 0 /\ ~wal[n].exists
    <3>1. active.items = {}
      BY <2>2 DEF IInv, ActiveInv, NilActive
    <3>2. wal[n].items = {}
      BY <2>2, <1>3, Zenon DEF IInv, FilesInv
    <3> QED BY <3>1, <3>2
  <2> QED BY <2>1, <2>2, <1>3
<1>6. CopiesInv'
  <2>1. \A m \in Names : wal'[m].exists /\ zst[m].exists => zst[m].items = wal'[m].items
    BY <1>3, <1>4, Zenon DEF IndexInv, CopiesInv
  <2>2. wal'[active'.name].items = active'.items
    BY <1>1, <1>4, <1>5 DEF WithRecords
  <2> QED BY <2>1, <2>2, <1>2 DEF CopiesInv
<1>7. FrameInv'
  BY <1>1, <1>2 DEF IndexInv, FrameInv
<1>8. ExactInv'
  <2>1. pc # "ack" /\ pc' # "ack"
    BY <1>1, <1>2
  <2> QED BY <2>1, <1>2, Zenon DEF IndexInv, ExactInv, Exact
<1>9. LenInv'
  <2>1. active.items \in SUBSET Item
    BY DEF IInv, TypeOK, ActiveSegment
  <2>2. Cardinality(items) \in {Cardinality(active.items), Cardinality(active.items) + 1}
    BY <2>1, ItemsFinite, FS_AddElement
  <2>3. active'.items = items
    BY <1>1
  <2>4. LenInv
    BY DEF IndexInv
  <2> HIDE DEF items
  <2> QED BY <2>2, <2>3, <2>4, <1>2, LenTypes DEF LenInv, IInv
<1> QED BY <1>6, <1>7, <1>8, <1>9 DEF IndexInv

-----------------------------------------------------------------------------
(* Sealing and recovery. *)

\* seal writes a copy that agrees with the active file.
LEMMA SealWriteIndex == ASSUME IInv, IndexInv, SealWrite PROVE IndexInv'
<1> DEFINE a == active.name
<1>1. /\ pc = "seal" /\ pc' = "unlink" /\ active.open /\ a \in Names
      /\ UNCHANGED <<wal, sealed, totalLen, call>>
  BY Numbers DEF SealWrite, IInv, ActiveInv, TypeOK, ActiveSegment, Names
<1>2. active'.name = a /\ ~active'.open /\ active'.items = active.items
  BY DEF SealWrite, IInv, TypeOK, ActiveSegment
<1>3. /\ zst'[a] = [exists |-> TRUE, items |-> active.items]
      /\ \A m \in Names : m # a => zst'[m] = zst[m]
  BY <1>1 DEF SealWrite, IInv, TypeOK
<1>4. CopiesInv'
  <2>1. wal[a].items = active.items
    BY <1>1 DEF IndexInv, CopiesInv
  <2>2. \A m \in Names : wal[m].exists /\ zst'[m].exists => zst'[m].items = wal[m].items
    BY <2>1, <1>3 DEF IndexInv, CopiesInv
  <2> QED BY <2>2, <1>1, <1>2 DEF CopiesInv
<1>5. FrameInv'
  BY <1>1 DEF IndexInv, FrameInv
<1>6. ExactInv'
  <2>1. ASSUME NEW i \in DOMAIN sealed PROVE zst'[sealed[i].name] = zst[sealed[i].name]
    BY <1>1, <1>3, IndexedNames, Numbers DEF IInv
  <2> QED BY <2>1, <1>1 DEF IndexInv, ExactInv, Exact
<1>7. LenInv'
  BY <1>1, <1>2 DEF IndexInv, LenInv
<1> QED BY <1>4, <1>5, <1>6, <1>7 DEF IndexInv

\* A failed seal only closes the active file.
LEMMA SealFailsIndex == ASSUME IInv, IndexInv, SealFails PROVE IndexInv'
<1>1. /\ pc \in {"seal", "unlink"} /\ pc' = "idle"
      /\ UNCHANGED <<wal, zst, sealed, totalLen, call>>
  BY DEF SealFails, disk
<1>2. ~active'.open /\ active'.items = active.items
  BY DEF SealFails, IInv, TypeOK, ActiveSegment
<1>3. CopiesInv'
  BY <1>1, <1>2 DEF IndexInv, CopiesInv
<1>4. FrameInv'
  BY <1>1 DEF IndexInv, FrameInv
<1>5. ExactInv'
  BY <1>1 DEF IndexInv, ExactInv, Exact
<1>6. LenInv'
  BY <1>1, <1>2 DEF IndexInv, LenInv
<1> QED BY <1>3, <1>4, <1>5, <1>6 DEF IndexInv

\* Indexing a sealed file adds an exact entry that counts its records.
LEMMA AddEntry ==
  ASSUME TypeOK, ExactInv, pc # "ack", pc' # "ack", zst' = zst,
         NEW n \in Names, zst[n].exists,
         sealed' = Append(sealed, Meta(n, zst[n].items))
  PROVE  /\ ExactInv'
         /\ Cardinality(Slots(sealed', 0))
              = Cardinality(Slots(sealed, 0)) + Cardinality(zst[n].items)
<1> DEFINE e == Meta(n, zst[n].items)
<1>1. sealed \in Seq(Segment) /\ zst[n].items \in SUBSET Item
  BY DEF TypeOK, ZstFile
<1>2. e \in Segment /\ e.name = n /\ e.count = Cardinality(zst[n].items)
  BY <1>1, MetaBounds DEF Meta
<1> HIDE DEF e
<1>3. sealed' = Append(sealed, e) /\ Exact(e)
  BY <1>2 DEF e, Exact
<1>4. \A i \in DOMAIN sealed' : sealed'[i] = e \/ \E j \in DOMAIN sealed : sealed'[i] = sealed[j]
  BY <1>1, <1>2, <1>3
<1>5. \A i \in DOMAIN sealed' : Exact(sealed'[i])
  BY <1>3, <1>4, Zenon DEF ExactInv
<1>6. ExactInv'
  BY <1>5, Zenon DEF ExactInv, Exact
<1> QED BY <1>1, <1>2, <1>3, <1>6, SlotsAppend, Zenon

\* The records of a sealed segment move from the active count to the index.
LEMMA SealUnlinkIndex == ASSUME IInv, IndexInv, SealUnlink PROVE IndexInv'
<1> DEFINE a == active.name
<1>1. /\ pc = "unlink" /\ pc' = "idle" /\ a \in Names /\ active' = NilActive
      /\ UNCHANGED <<zst, totalLen, call>>
      /\ wal' = [wal EXCEPT ![a] = NoWal]
      /\ zst[a].exists /\ zst[a].items = active.items
  <2>1. /\ pc = "unlink" /\ pc' = "idle" /\ active' = NilActive
        /\ UNCHANGED <<zst, totalLen, call>>
        /\ wal' = [wal EXCEPT ![a] = NoWal]
    BY DEF SealUnlink
  <2>2. a # 0 /\ zst[a] = [exists |-> TRUE, items |-> active.items]
    BY <2>1 DEF IInv, ActiveInv
  <2>3. a \in 0 .. MaxSegments /\ MaxSegments \in Nat
    BY BoundsAssumption DEF IInv, TypeOK, ActiveSegment
  <2>4. a \in Names
    BY <2>2, <2>3 DEF Names
  <2> QED BY <2>1, <2>2, <2>4
<1>2. sealed' = Append(sealed, Meta(a, zst[a].items))
  BY <1>1 DEF SealUnlink
<1>3. CopiesInv'
  <2>1. \A m \in Names : wal'[m].exists => wal'[m] = wal[m]
    BY <1>1 DEF IInv, TypeOK, NoWal
  <2> QED BY <2>1, <1>1 DEF IndexInv, CopiesInv, NilActive
<1>4. FrameInv'
  BY <1>1 DEF IndexInv, FrameInv
<1>5. /\ ExactInv'
      /\ Cardinality(Slots(sealed', 0))
           = Cardinality(Slots(sealed, 0)) + Cardinality(active.items)
  BY <1>1, <1>2, AddEntry DEF IInv, IndexInv
<1>6. LenInv'
  <2>1. call = NoCall
    BY <1>1 DEF IndexInv, FrameInv
  <2>2. totalLen >= Cardinality(Slots(sealed, 0)) + Cardinality(active.items)
    BY <2>1, LenIdle DEF IInv, IndexInv
  <2>3. Cardinality(active'.items) = 0
    BY <1>1, FS_EmptySet DEF NilActive
  <2>4. /\ call'.pos = 0 /\ call'.removed = 0 /\ Cardinality(Slots(call'.kept, 0)) = 0
    BY <2>1, <1>1, NoCallSlots
  <2> QED BY <2>2, <2>3, <2>4, <1>1, <1>5, LenTypes DEF LenInv, IInv
<1> QED BY <1>3, <1>4, <1>5, <1>6 DEF IndexInv

\* recover's first loop makes an exact index and counts it.
LEMMA OpenIndexed == ASSUME IInv, IndexInv, Open PROVE IndexInv'
<1>1. /\ pc = "down" /\ pc' = "recover" /\ UNCHANGED <<wal, zst, active, call>>
  BY DEF Open, disk
<1>2. CopiesInv'
  BY <1>1 DEF IndexInv, CopiesInv
<1>3. FrameInv'
  BY <1>1 DEF IndexInv, FrameInv
<1>4. ExactInv'
  <2>1. SealedNames \in SUBSET Names
    BY DEF SealedNames
  <2>2. PICK order \in Listing(SealedNames) :
          sealed' = [i \in DOMAIN order |-> Meta(order[i], zst[order[i]].items)]
    BY DEF Open
  <2>3. \A i \in DOMAIN order : order[i] \in SealedNames
    BY <2>1, ListingCovers
  <2>4. ASSUME NEW i \in DOMAIN sealed' PROVE Exact(sealed'[i])
    <3>1. i \in DOMAIN order /\ sealed'[i] = Meta(order[i], zst[order[i]].items)
      BY <2>2
    <3>2. sealed'[i].name = order[i] /\ zst[order[i]].exists
      <4>1. \A n, S : Meta(n, S).name = n
        BY DEF Meta
      <4>2. zst[order[i]].exists
        BY <3>1, <2>3, Zenon DEF SealedNames
      <4> QED BY <4>1, <4>2, <3>1, Zenon
    <3> QED BY <3>1, <3>2 DEF Exact
  <2> QED BY <2>4, <1>1 DEF ExactInv, Exact
<1>5. LenInv'
  <2>1. Cardinality(Slots(sealed', 0)) <= totalLen'
    BY OpenCount DEF IInv
  <2>2. sealed' \in Seq(Segment) /\ totalLen' \in Int
    BY OpenIndex DEF IInv
  <2>3. Cardinality(Slots(sealed', 0)) \in Nat
    BY <2>2, SlotsFinite, Zenon
  <2>4. active = NilActive /\ call = NoCall
    <3>1. active.name = 0
      BY <1>1 DEF IInv, ActiveInv, Up
    <3> QED BY <3>1, <1>1 DEF IInv, ActiveInv, IndexInv, FrameInv
  <2>5. Cardinality(active'.items) = 0
    BY <2>4, <1>1, FS_EmptySet DEF NilActive
  <2>6. /\ call'.pos = 0 /\ call'.removed = 0 /\ Cardinality(Slots(call'.kept, 0)) = 0
    BY <2>4, <1>1, NoCallSlots
  <2> QED BY <2>1, <2>2, <2>3, <2>5, <2>6 DEF LenInv
<1> QED BY <1>2, <1>3, <1>4, <1>5 DEF IndexInv

\* Copying an orphan again writes what an earlier copy already says.
LEMMA SealOrphanIndex == ASSUME IInv, IndexInv, SealOrphan PROVE IndexInv'
<1>1. /\ pc = "recover" /\ pc' = "orphan" /\ OrphanNames # {}
      /\ UNCHANGED <<wal, active, sealed, totalLen, call>>
  BY DEF SealOrphan, memory
<1>2. PICK n \in Names : wal[n].exists
  BY <1>1 DEF OrphanNames
<1>3. Min(OrphanNames) = n
  BY <1>2, OneOrphan DEF IInv
<1>4. Readable(wal[n]) = wal[n].items
  BY <1>2 DEF IInv, FilesInv, Readable
<1>5. /\ zst'[n] = [exists |-> TRUE, items |-> wal[n].items]
      /\ \A m \in Names : m # n => zst'[m] = zst[m]
  BY <1>2, <1>3, <1>4 DEF SealOrphan, IInv, TypeOK
<1>6. CopiesInv'
  <2>1. \A m \in Names : wal[m].exists /\ zst'[m].exists => zst'[m].items = wal[m].items
    BY <1>5 DEF IndexInv, CopiesInv
  <2>2. ~active.open
    BY <1>1 DEF IInv, ActiveInv, Up
  <2> QED BY <2>1, <2>2, <1>1 DEF CopiesInv
<1>7. FrameInv'
  BY <1>1 DEF IndexInv, FrameInv
<1>8. ExactInv'
  <2>1. ASSUME NEW i \in DOMAIN sealed
        PROVE  /\ zst'[sealed[i].name].exists
               /\ zst'[sealed[i].name].items = zst[sealed[i].name].items
    <3>1. sealed[i].name \in Names /\ zst[sealed[i].name].exists
      BY <1>1, IndexedNames DEF IndexInv, ExactInv, Exact
    <3>2. CASE sealed[i].name = n
      <4>1. zst[n].items = wal[n].items
        BY <3>1, <3>2, <1>2 DEF IndexInv, CopiesInv
      <4> QED BY <4>1, <3>2, <1>5
    <3>3. CASE sealed[i].name # n
      BY <3>1, <3>3, <1>5, Zenon
    <3> QED BY <3>2, <3>3
  <2>2. \A i \in DOMAIN sealed : Exact(sealed[i])
    BY <1>1 DEF IndexInv, ExactInv
  <2>3. \A i \in DOMAIN sealed : Exact(sealed[i])'
    BY <2>1, <2>2, <1>1 DEF Exact
  <2> QED BY <2>3, <1>1 DEF ExactInv
<1>9. LenInv'
  BY <1>1 DEF IndexInv, LenInv
<1> QED BY <1>6, <1>7, <1>8, <1>9 DEF IndexInv

\* An orphan is indexed, and counted, once its copy is the only one.
LEMMA UnlinkOrphanIndex == ASSUME IInv, IndexInv, UnlinkOrphan PROVE IndexInv'
<1> DEFINE n == maxName
           items == zst[n].items
<1>1. /\ n \in Names /\ wal[n].exists /\ zst[n].exists
      /\ wal' = [wal EXCEPT ![n] = NoWal]
  BY UnlinkOrphanEffect
<1>2. /\ pc = "orphan" /\ pc' = "recover" /\ UNCHANGED <<zst, active, call>>
  BY DEF UnlinkOrphan, memory
<1>3. Min(OrphanNames) = n
  BY <1>1, OneOrphan, Zenon DEF IInv
<1>4. IF items = {}
        THEN UNCHANGED <<sealed, totalLen>>
        ELSE /\ sealed' = Append(sealed, Meta(n, items))
             /\ totalLen' = totalLen + Cardinality(items)
  BY <1>3, Zenon DEF UnlinkOrphan, memory
<1>5. CopiesInv'
  <2>1. \A m \in Names : wal'[m].exists => wal'[m] = wal[m]
    BY <1>1 DEF IInv, TypeOK, NoWal
  <2>2. ~active.open
    BY <1>2 DEF IInv, ActiveInv, Up
  <2> QED BY <2>1, <2>2, <1>2 DEF IndexInv, CopiesInv
<1>6. FrameInv'
  BY <1>2 DEF IndexInv, FrameInv
<1>7. CASE items = {}
  <2>1. ExactInv'
    BY <1>2, <1>4, <1>7, Zenon DEF IndexInv, ExactInv, Exact
  <2>2. LenInv'
    BY <1>2, <1>4, <1>7 DEF IndexInv, LenInv
  <2> QED BY <2>1, <2>2, <1>5, <1>6 DEF IndexInv
<1>8. CASE items # {}
  <2>1. /\ ExactInv'
        /\ Cardinality(Slots(sealed', 0))
             = Cardinality(Slots(sealed, 0)) + Cardinality(items)
    BY <1>1, <1>2, <1>4, <1>8, AddEntry DEF IInv, IndexInv
  <2>2. totalLen' = totalLen + Cardinality(items)
    BY <1>4, <1>8
  <2>3. call = NoCall
    BY <1>2 DEF IndexInv, FrameInv
  <2>4. totalLen >= Cardinality(Slots(sealed, 0)) + Cardinality(active.items)
    BY <2>3, LenIdle DEF IInv, IndexInv
  <2>5. Cardinality(items) \in Nat
    BY <1>1, ItemsFinite DEF IInv, TypeOK, ZstFile
  <2>6. call'.pos = 0 /\ call'.removed = 0 /\ Cardinality(Slots(call'.kept, 0)) = 0
    BY <2>3, <1>2, NoCallSlots
  <2> HIDE DEF items
  <2>7. LenInv'
    BY <2>1, <2>2, <2>4, <2>5, <2>6, <1>2, LenTypes DEF LenInv, IInv
  <2> QED BY <2>1, <2>7, <1>5, <1>6 DEF IndexInv
<1> QED BY <1>7, <1>8

-----------------------------------------------------------------------------
(* The theorems about the index. *)

\* The empty buffer.
LEMMA InitIndex == Init => IndexInv
<1> SUFFICES ASSUME Init PROVE IndexInv
  OBVIOUS
<1>1. CopiesInv /\ FrameInv /\ ExactInv
  <2>1. CopiesInv
    BY DEF Init, CopiesInv, NoWal, NilActive
  <2>2. FrameInv
    BY DEF Init, FrameInv
  <2>3. ExactInv
    BY DEF Init, ExactInv
  <2> QED BY <2>1, <2>2, <2>3
<1>2. LenInv
  <2>1. Cardinality(active.items) = 0
    BY FS_EmptySet DEF Init, NilActive
  <2>2. /\ call.pos = 0 /\ call.kept = <<>> /\ call.removed = 0 /\ sealed = <<>>
        /\ Cardinality(Slots(<<>>, 0)) = 0 /\ totalLen = 0
    BY NoCallSlots DEF Init
  <2>3. Cardinality(Slots(call.kept, 0)) = 0 /\ Cardinality(Slots(sealed, call.pos)) = 0
    BY <2>2
  <2> QED BY <2>1, <2>2, <2>3 DEF LenInv
<1> QED BY <1>1, <1>2 DEF IndexInv

\* Every step keeps the index and the count.
LEMMA NextIndex == IInv /\ IndexInv /\ SealFaultsOnly /\ [Next]_vars => IndexInv'
<1> SUFFICES ASSUME IInv, IndexInv, SealFaultsOnly, [Next]_vars PROVE IndexInv'
  OBVIOUS
<1>1. CASE Open \/ SealOrphan \/ UnlinkOrphan
  BY <1>1, OpenIndexed, SealOrphanIndex, UnlinkOrphanIndex
<1>2. CASE Crash \/ \E p \in Priorities : KilledInAppend(p)
  BY <1>2, CrashIndex
<1>3. CASE \E p \in Priorities : AppendItem(p)
  BY <1>3, AppendIndex
<1>4. CASE OpenDone \/ Close \/ AppendClosed \/ OldestItems \/ SendOk \/ SendFails
  BY <1>4, QuietIndexSteps
<1>5. CASE SealWrite \/ SealUnlink \/ SealFails
  BY <1>5, SealWriteIndex, SealUnlinkIndex, SealFailsIndex
<1>6. CASE AckStart \/ AckSegment \/ AckActive \/ RewriteWrite
  BY <1>6, AckStartIndex, AckSegmentIndex, AckActiveIndex, RewriteWriteIndex
<1>7. CASE UNCHANGED vars
  <2>1. CopiesInv' /\ FrameInv' /\ LenInv'
    BY <1>7 DEF vars, IndexInv, CopiesInv, FrameInv, LenInv
  <2>2. ExactInv'
    BY <1>7, Zenon DEF vars, IndexInv, ExactInv, Exact, Removed, Trimmed
  <2> QED BY <2>1, <2>2 DEF IndexInv
<1> QED
  BY <1>1, <1>2, <1>3, <1>4, <1>5, <1>6, <1>7, RuledOut, Zenon DEF Next

\* The index is exact and the count covers it, in every state.
THEOREM IndexInvariance == SealFaultsOnly /\ Spec => []IndexInv
<1> SUFFICES ASSUME SealFaultsOnly PROVE Spec => []IndexInv
  OBVIOUS
<1>1. Init => IndexInv
  BY InitIndex
<1>2. IInv /\ IndexInv /\ [Next]_vars => IndexInv'
  BY NextIndex
<1>3. Spec => []IInv
  <2>1. BenignFaults
    BY DEF SealFaultsOnly, BenignFaults
  <2> QED BY <2>1, Invariance
<1> QED BY <1>1, <1>2, <1>3, PTL DEF Spec

\* Between calls every entry of Buffer.sealed has its file, so oldestItems
\* never fails on a missing one (backfill.go:83-86), although recovery can
\* index a file twice and Ack removes files before it installs the new index.
THEOREM IndexedFilesExist == SealFaultsOnly /\ Spec => []SealedFilesExist
<1>1. IndexInv => SealedFilesExist
  BY Zenon DEF IndexInv, ExactInv, Exact, SealedFilesExist
<1> QED BY <1>1, IndexInvariance, PTL

\* A record held is a record counted.
LEMMA HeldIsCounted == IInv /\ IndexInv => NoStrandedItems
<1> SUFFICES ASSUME IInv, IndexInv, pc = "idle", Held # {} PROVE totalLen > 0
  BY DEF NoStrandedItems
<1>1. totalLen >= Cardinality(Slots(sealed, 0)) + Cardinality(active.items)
  BY LenIdle DEF IInv, IndexInv, FrameInv
<1>2. CASE active.items # {}
  <2>1. IsFiniteSet(active.items)
    BY ItemsFinite DEF IInv, TypeOK, ActiveSegment
  <2>2. Cardinality(active.items) # 0
    BY <2>1, <1>2, FS_EmptySet
  <2> QED BY <2>2, <1>1, LenTypes DEF IInv
<1>3. CASE active.items = {}
  <2>1. PICK i \in DOMAIN sealed : zst[sealed[i].name].items # {}
    BY <1>3, Zenon DEF Held
  <2>2. sealed[i] = Meta(sealed[i].name, zst[sealed[i].name].items)
        /\ sealed[i].name \in Names
    BY IndexedNames DEF IndexInv, ExactInv, Exact
  <2>3. zst[sealed[i].name].items \in SUBSET Item
    <3>1. zst \in [Names -> ZstFile]
      BY DEF IInv, TypeOK
    <3> QED BY <3>1, <2>2 DEF ZstFile
  <2>4. sealed[i].count = Cardinality(zst[sealed[i].name].items)
    <3>1. Meta(sealed[i].name, zst[sealed[i].name].items).count
            = Cardinality(zst[sealed[i].name].items)
      BY Zenon DEF Meta
    <3> QED BY <3>1, <2>2
  <2>5. sealed[i].count \in Nat /\ sealed[i].count # 0
    <3>1. IsFiniteSet(zst[sealed[i].name].items) /\ sealed[i].count \in Nat
      BY <2>3, <2>4, ItemsFinite, Zenon
    <3> QED BY <3>1, <2>1, <2>4, FS_EmptySet
  <2>6. <<i, 1>> \in {i} \X (1 .. sealed[i].count) /\ i >= 0
    BY <2>5 DEF IInv, TypeOK
  <2>7. Slots(sealed, 0) # {}
    BY <2>6, SlotOf, Zenon
  <2>8. Cardinality(Slots(sealed, 0)) # 0
    <3>1. IsFiniteSet(Slots(sealed, 0))
      BY SlotsFinite DEF IInv, TypeOK
    <3> QED BY <3>1, <2>7, FS_EmptySet
  <2> QED BY <2>8, <1>1, LenTypes DEF IInv
<1> QED BY <1>2, <1>3

\* Len is never 0 while the idle buffer holds a record, so Sink.Run's check
\* (sink.go:176-179) never skips the Backfill that would deliver it.
THEOREM NothingIsStranded == SealFaultsOnly /\ Spec => []NoStrandedItems
<1> SUFFICES ASSUME SealFaultsOnly PROVE Spec => []NoStrandedItems
  OBVIOUS
<1>1. IInv /\ IndexInv => NoStrandedItems
  BY HeldIsCounted
<1>2. BenignFaults
  BY DEF SealFaultsOnly, BenignFaults
<1>3. Spec => []IInv
  BY <1>2, Invariance
<1>4. Spec => []IndexInv
  BY IndexInvariance
<1> QED BY <1>1, <1>3, <1>4, PTL

=============================================================================
