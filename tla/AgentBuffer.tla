----------------------------- MODULE AgentBuffer -----------------------------
(***************************************************************************)
(* The agent's outbound write-ahead log (internal/agentbuffer): the        *)
(* segment files on disk, the Buffer that indexes them in memory, and the  *)
(* Backfill loop that sends and acknowledges batches.                      *)
(*                                                                         *)
(* Every method of Buffer runs under Buffer.mu, so two calls never         *)
(* interleave; what does interleave is a crash with the disk writes of one *)
(* call, and every call with a Backfill whose batch is on the wire.  A     *)
(* call is therefore one action per disk write (pc says where it is), and  *)
(* Backfill holds no lock between reading a batch and acknowledging it.    *)
(*                                                                         *)
(* A segment's records are kept as a set: Append numbers them in order and *)
(* every rewrite filters them in order, so file order is Seq order.        *)
(***************************************************************************)
EXTENDS Integers, Sequences, FiniteSets, FiniteSetsExt

CONSTANTS
  MaxAppends,    \* bound: calls of Append in a behaviour
  MaxSegments,   \* bound: segment names ever allocated
  SegmentItems,  \* segmentBytes, counted in records
  BatchSize,     \* BackfillOptions.BatchSize
  MaxBytes,      \* maxBytes, counted in records
  Priorities,    \* the priorities callers use
  Enforce,       \* whether the caller runs EnforceCapacity
  Faults         \* the environment faults admitted, see FaultKinds

\* "clock"   the wall clock behind ULID names steps back
\* "write"   creating or writing the active file fails, leaving no fragment
\* "torn"    a write fails (disk full) and leaves a fragment of the record
\* "seal"    writing the sealed file, or removing the active one, fails
\* "ack"     a disk operation on a sealed file fails in Ack or EnforceCapacity
\* "rewrite" a kill or an error falls between rewrite's Truncate and Write
FaultKinds == {"clock", "write", "torn", "seal", "ack", "rewrite"}

PriorityLogLine == 0
PriorityMetric == 1
PriorityEvent == 2

ASSUME BoundsAssumption ==
  /\ MaxAppends \in Nat
  /\ MaxSegments \in Nat
  /\ SegmentItems \in Nat \ {0}
  /\ BatchSize \in Nat \ {0}
  /\ MaxBytes \in Nat

ASSUME EnvironmentAssumption ==
  /\ Priorities \subseteq PriorityLogLine .. PriorityEvent
  /\ Enforce \in BOOLEAN
  /\ Faults \subseteq FaultKinds

VARIABLES
  wal,       \* disk: the uncompressed NAME.wal files
  zst,       \* disk: the sealed NAME.wal.zst files
  maxName,   \* the greatest segment name allocated so far
  pc,        \* "down", or where the call holding Buffer.mu is
  nextSeq,   \* Buffer.nextSeq
  active,    \* Buffer.active; name 0 is the nil pointer
  sealed,    \* Buffer.sealed
  totalLen,  \* Buffer.totalLen
  call,      \* the locals of the call holding Buffer.mu
  batch,     \* the Backfill in progress: stage, items read, last Seq
  appends,   \* history: number of calls of Append
  accepted,  \* history: records reported durable by write
  confirmed, \* history: records of a batch whose send succeeded
  discarded  \* history: records EnforceCapacity took out, reported or not

disk == <<wal, zst, maxName>>
memory == <<nextSeq, active, sealed, totalLen>>
history == <<appends, accepted, confirmed, discarded>>
vars == <<wal, zst, maxName, pc, nextSeq, active, sealed, totalLen, call,
          batch, appends, accepted, confirmed, discarded>>

Names == 1 .. MaxSegments
Ids == 1 .. MaxAppends
Item == [id : Ids, seq : Ids, prio : Priorities]
WalFile == [exists : BOOLEAN, items : SUBSET Item, torn : 0 .. MaxAppends]
ZstFile == [exists : BOOLEAN, items : SUBSET Item]
Segment == [name : Names, minSeq : Nat, maxSeq : Nat, count : Nat]
ActiveSegment == [name : 0 .. MaxSegments, open : BOOLEAN, items : SUBSET Item]
CallFrame == [pos : Nat, kept : Seq(Segment), removed : Nat,
              then : {"idle", "enforce"}]
BatchState == [stage : {"none", "sending", "sent"}, items : SUBSET Item,
               last : 0 .. MaxAppends]
Control == {"down", "recover", "orphan", "idle", "seal", "unlink", "ack",
            "rewrite", "enforce"}

NoWal == [exists |-> FALSE, items |-> {}, torn |-> 0]
EmptyWal == [exists |-> TRUE, items |-> {}, torn |-> 0]
NoZst == [exists |-> FALSE, items |-> {}]
NilActive == [name |-> 0, open |-> FALSE, items |-> {}]
NoCall == [pos |-> 0, kept |-> <<>>, removed |-> 0, then |-> "idle"]
NoBatch == [stage |-> "none", items |-> {}, last |-> 0]

Seqs(items) == {it.seq : it \in items}
IdsOf(items) == {it.id : it \in items}

\* The records recovery can parse: a fragment hides everything after it.
Readable(f) == {it \in f.items : f.torn = 0 \/ it.seq < f.torn}

\* Mutant of Meta: maxSeq exclusive, as if lastSeq were read before the last
\* record.
MetaExclusive(n, items) ==
  [name   |-> n,
   minSeq |-> IF items = {} THEN 0 ELSE Min(Seqs(items)),
   maxSeq |-> IF items = {} THEN 0 ELSE Max(Seqs(items)) - 1,
   count  |-> Cardinality(items)]

\* sealedSegment metadata for a file holding items.
Meta(n, items) ==
  [name   |-> n,
   minSeq |-> IF items = {} THEN 0 ELSE Min(Seqs(items)),
   maxSeq |-> IF items = {} THEN 0 ELSE Max(Seqs(items)),
   count  |-> Cardinality(items)]

\* What the buffer still holds: its sealed files and the active items.
Held ==
  (UNION {zst[sealed[i].name].items : i \in DOMAIN sealed}) \cup active.items

\* What a restart would find on disk.
Recoverable ==
  (UNION {zst[n].items : n \in Names})
    \cup (UNION {Readable(wal[n]) : n \in Names})

TypeOK ==
  /\ wal \in [Names -> WalFile]
  /\ zst \in [Names -> ZstFile]
  /\ maxName \in 0 .. MaxSegments
  /\ pc \in Control
  /\ nextSeq \in 0 .. MaxAppends
  /\ active \in ActiveSegment
  /\ sealed \in Seq(Segment)
  /\ totalLen \in Int
  /\ call \in CallFrame
  /\ batch \in BatchState
  /\ appends \in 0 .. MaxAppends
  /\ accepted \in SUBSET Ids
  /\ confirmed \in SUBSET Ids
  /\ discarded \in SUBSET Ids

Init ==
  /\ wal = [n \in Names |-> NoWal]
  /\ zst = [n \in Names |-> NoZst]
  /\ maxName = 0
  /\ pc = "down"
  /\ nextSeq = 0
  /\ active = NilActive
  /\ sealed = <<>>
  /\ totalLen = 0
  /\ call = NoCall
  /\ batch = NoBatch
  /\ appends = 0
  /\ accepted = {}
  /\ confirmed = {}
  /\ discarded = {}

-----------------------------------------------------------------------------
(* Open and recover. *)

\* Mutant of Listing: segmentFiles without its sort.
ListingUnsorted(names) ==
  {s \in [1 .. Cardinality(names) -> names] :
     \A i, j \in DOMAIN s : i # j => s[i] # s[j]}

\* The directory listing, sorted by name.
Listing(names) ==
  {s \in [1 .. Cardinality(names) -> names] :
     \A i, j \in DOMAIN s : i < j => s[i] < s[j]}

SealedNames == {n \in Names : zst[n].exists}
OrphanNames == {n \in Names : wal[n].exists}
\* Mutants of MaxSeqOnDisk: one past the greatest Seq, or the number of
\* records instead of their greatest Seq.
MaxSeqPlusOne == 1 + Max({0} \cup (UNION {Seqs(zst[n].items) : n \in Names}))
MaxSeqByCount == Cardinality(UNION {zst[n].items : n \in Names})

\* The nextSeq recover computes from the sealed files.
MaxSeqOnDisk == Max({0} \cup (UNION {Seqs(zst[n].items) : n \in Names}))

\* Mutant of Open: recover forgets to count the sealed records.
OpenUncounted ==
  /\ pc = "down"
  /\ \E order \in Listing(SealedNames) :
       sealed' = [i \in DOMAIN order |-> Meta(order[i], zst[order[i]].items)]
  /\ nextSeq' = MaxSeqOnDisk
  /\ pc' = "recover"
  /\ UNCHANGED <<disk, totalLen, active, call, batch, history>>

\* recover, first loop: index every sealed file in name order.
Open ==
  /\ pc = "down"
  /\ \E order \in Listing(SealedNames) :
       sealed' = [i \in DOMAIN order |-> Meta(order[i], zst[order[i]].items)]
  /\ totalLen' = Cardinality(UNION {{n} \X zst[n].items : n \in SealedNames})
  /\ nextSeq' = MaxSeqOnDisk
  /\ pc' = "recover"
  /\ UNCHANGED <<disk, active, call, batch, history>>

\* recover, second loop: write the sealed copy of the next orphan ...
SealOrphan ==
  /\ pc = "recover"
  /\ OrphanNames # {}
  /\ LET n == Min(OrphanNames) IN
       zst' = [zst EXCEPT ![n] = [exists |-> TRUE, items |-> Readable(wal[n])]]
  /\ pc' = "orphan"
  /\ UNCHANGED <<wal, maxName, memory, call, batch, history>>

\* ... then remove the active file and index the copy unless it is empty.
UnlinkOrphan ==
  /\ pc = "orphan"
  /\ LET n == Min(OrphanNames)
         items == zst[n].items
     IN /\ wal' = [wal EXCEPT ![n] = NoWal]
        /\ IF items = {}
             THEN UNCHANGED memory
             ELSE /\ sealed' = Append(sealed, Meta(n, items))
                  /\ totalLen' = totalLen + Cardinality(items)
                  /\ nextSeq' = Max({nextSeq} \cup Seqs(items))
                  /\ UNCHANGED active
  /\ pc' = "recover"
  /\ UNCHANGED <<zst, maxName, call, batch, history>>

OpenDone ==
  /\ pc = "recover"
  /\ OrphanNames = {}
  /\ pc' = "idle"
  /\ UNCHANGED <<disk, memory, call, batch, history>>

\* The process is killed (or exits): memory and the Backfill are gone.  A
\* kill between rewrite's Truncate and Write is the fault "rewrite".
Crash ==
  /\ pc # "down"
  /\ pc = "rewrite" => "rewrite" \in Faults
  /\ pc' = "down"
  /\ nextSeq' = 0
  /\ active' = NilActive
  /\ sealed' = <<>>
  /\ totalLen' = 0
  /\ call' = NoCall
  /\ batch' = NoBatch
  /\ UNCHANGED <<disk, history>>

-----------------------------------------------------------------------------
(* Append, and the sealing it shares with Close. *)

\* newULIDName: names grow with the wall clock, unless it may step back.
NewNames ==
  {n \in Names : /\ ~wal[n].exists /\ ~zst[n].exists
                 /\ n = maxName + 1 \/ "clock" \in Faults}

\* The segment Append writes to: the active one, or a fresh one.
Targets == IF active.name = 0 THEN NewNames ELSE {active.name}

\* The active file f, created if needed, with records S appended.
WithRecords(f, S) ==
  [exists |-> TRUE, items |-> f.items \cup S, torn |-> f.torn]

\* The active file f, created if needed, with a fragment of record seq.
WithFragment(f, seq) ==
  [exists |-> TRUE, items |-> f.items, torn |-> IF f.torn = 0 THEN seq ELSE f.torn]

NewItem(p) == [id |-> appends + 1, seq |-> nextSeq + 1, prio |-> p]

\* Append up to and including write: the record is synced and counted.  A
\* full segment goes on to seal before the call returns.
AppendItem(p) ==
  /\ pc = "idle"
  /\ appends < MaxAppends
  /\ active.name # 0 => active.open
  /\ \E n \in Targets :
       LET it == NewItem(p)
           items == active.items \cup {it}
       IN /\ wal' = [wal EXCEPT ![n] = WithRecords(@, {it})]
          /\ maxName' = Max({maxName, n})
          /\ active' = [name |-> n, open |-> TRUE, items |-> items]
          /\ accepted' = accepted \cup {it.id}
          /\ pc' = IF Cardinality(items) >= SegmentItems THEN "seal" ELSE "idle"
  /\ nextSeq' = nextSeq + 1
  /\ totalLen' = totalLen + 1
  /\ appends' = appends + 1
  /\ UNCHANGED <<zst, sealed, call, batch, confirmed, discarded>>

\* Append on an active segment whose file a failed seal closed: the write
\* fails and only the sequence number is consumed.
AppendClosed ==
  /\ pc = "idle"
  /\ appends < MaxAppends
  /\ active.name # 0 /\ ~active.open
  /\ nextSeq' = nextSeq + 1
  /\ appends' = appends + 1
  /\ UNCHANGED <<disk, pc, active, sealed, totalLen, call, batch, accepted,
                 confirmed, discarded>>

\* Append that fails: no file could be created or nothing reached it, the
\* whole line did but Sync failed ("write"), or a fragment did ("torn").  Not
\* counted either way.
AppendFails(p) ==
  /\ pc = "idle"
  /\ appends < MaxAppends
  /\ active.name # 0 => active.open
  /\ nextSeq' = nextSeq + 1
  /\ appends' = appends + 1
  /\ \/ /\ "write" \in Faults
        /\ UNCHANGED <<disk, active>>
     \/ \E n \in Targets :
          /\ maxName' = Max({maxName, n})
          /\ active' = [active EXCEPT !.name = n, !.open = TRUE]
          /\ \/ /\ "write" \in Faults
                /\ \E S \in SUBSET {NewItem(p)} :
                     wal' = [wal EXCEPT ![n] = WithRecords(@, S)]
             \/ /\ "torn" \in Faults
                /\ wal' = [wal EXCEPT ![n] = WithFragment(@, nextSeq + 1)]
          /\ UNCHANGED zst
  /\ UNCHANGED <<pc, sealed, totalLen, call, batch, accepted, confirmed,
                 discarded>>

\* The process dies inside Append: the file may have been created and the
\* line may have reached it, but the caller never heard.
KilledInAppend(p) ==
  /\ pc = "idle"
  /\ appends < MaxAppends
  /\ active.name # 0 => active.open
  /\ \E n \in Targets, S \in SUBSET {NewItem(p)} :
       /\ wal' = [wal EXCEPT ![n] = WithRecords(@, S)]
       /\ maxName' = Max({maxName, n})
  /\ appends' = appends + 1
  /\ pc' = "down"
  /\ nextSeq' = 0
  /\ active' = NilActive
  /\ sealed' = <<>>
  /\ totalLen' = 0
  /\ call' = NoCall
  /\ batch' = NoBatch
  /\ UNCHANGED <<zst, accepted, confirmed, discarded>>

\* Close: seal the active segment if there is one and its file is open.
Close ==
  /\ pc = "idle"
  /\ active.name # 0 /\ active.open
  /\ pc' = "seal"
  /\ UNCHANGED <<disk, memory, call, batch, history>>

\* Mutant of SealWrite: the active file is removed before the copy is written.
SealUnlinkFirst ==
  /\ pc = "seal"
  /\ active' = [active EXCEPT !.open = FALSE]
  /\ wal' = [wal EXCEPT ![active.name] = NoWal]
  /\ pc' = "unlink"
  /\ UNCHANGED <<zst, maxName, nextSeq, sealed, totalLen, call, batch, history>>

\* segmentWriter.seal: close the file and write the sealed copy ...
SealWrite ==
  /\ pc = "seal"
  /\ active' = [active EXCEPT !.open = FALSE]
  /\ zst' = [zst EXCEPT
       ![active.name] = [exists |-> TRUE, items |-> active.items]]
  /\ pc' = "unlink"
  /\ UNCHANGED <<wal, maxName, nextSeq, sealed, totalLen, call, batch, history>>

\* ... then remove the active file and index the copy.
SealUnlink ==
  /\ pc = "unlink"
  /\ wal' = [wal EXCEPT ![active.name] = NoWal]
  /\ sealed' = Append(sealed, Meta(active.name, active.items))
  /\ active' = NilActive
  /\ pc' = "idle"
  /\ UNCHANGED <<zst, maxName, nextSeq, totalLen, call, batch, history>>

\* seal returns an error from either step: the file is closed and the
\* segment stays active.
SealFails ==
  /\ "seal" \in Faults
  /\ pc \in {"seal", "unlink"}
  /\ active' = [active EXCEPT !.open = FALSE]
  /\ pc' = "idle"
  /\ UNCHANGED <<disk, nextSeq, sealed, totalLen, call, batch, history>>

-----------------------------------------------------------------------------
(* Backfill. *)

\* The records oldestItems walks, each with its position: the sealed files
\* in order, then the active items.
Walk ==
  (UNION {{i} \X zst[sealed[i].name].items : i \in DOMAIN sealed})
    \cup ({Len(sealed) + 1} \X active.items)

\* The records of the walk up to and including p.
WalkUpTo(p) ==
  {q \in Walk : q[1] < p[1] \/ (q[1] = p[1] /\ q[2].seq <= p[2].seq)}

\* oldestItems(BatchSize): the first records of the walk.  It reads files
\* until it has enough, and fails on a missing one: Backfill then returns
\* with nothing sent.
OldestItems ==
  /\ pc = "idle"
  /\ batch.stage = "none"
  /\ \E p \in Walk :
       /\ \A i \in DOMAIN sealed :
            i <= p[1] \/ Cardinality(Walk) < BatchSize
              => zst[sealed[i].name].exists
       /\ Cardinality(WalkUpTo(p)) = Min({BatchSize, Cardinality(Walk)})
       /\ batch' = [stage |-> "sending", last |-> p[2].seq,
                    items |-> {q[2] : q \in WalkUpTo(p)}]
  /\ UNCHANGED <<disk, pc, memory, call, history>>

SendOk ==
  /\ pc # "down"
  /\ batch.stage = "sending"
  /\ batch' = [batch EXCEPT !.stage = "sent"]
  /\ confirmed' = confirmed \cup IdsOf(batch.items)
  /\ UNCHANGED <<disk, pc, memory, call, appends, accepted, discarded>>

SendFails ==
  /\ pc # "down"
  /\ batch.stage = "sending"
  /\ batch' = NoBatch
  /\ UNCHANGED <<disk, pc, memory, call, history>>

\* Mutant of AckStart: kept starts as Buffer.sealed, not as its empty prefix.
AckStartFull ==
  /\ pc = "idle"
  /\ batch.stage = "sent"
  /\ pc' = "ack"
  /\ call' = [NoCall EXCEPT !.pos = 1, !.kept = sealed]
  /\ UNCHANGED <<disk, memory, batch, history>>

\* Ack(last Seq of the batch) takes the lock.
AckStart ==
  /\ pc = "idle"
  /\ batch.stage = "sent"
  /\ pc' = "ack"
  /\ call' = [NoCall EXCEPT !.pos = 1]
  /\ UNCHANGED <<disk, memory, batch, history>>

\* The next turn of Ack's loop, with the index kept so far.
NextTurn(kept) ==
  [pos |-> call.pos + 1, kept |-> kept, removed |-> 0, then |-> "idle"]

\* Ack's loop body for the segment at call.pos.
AckSegment ==
  /\ pc = "ack"
  /\ call.pos <= Len(sealed)
  /\ LET seg == sealed[call.pos]
         items == zst[seg.name].items
         left == {it \in items : it.seq > batch.last}
     IN \/ /\ seg.maxSeq <= batch.last
           /\ zst' = [zst EXCEPT ![seg.name] = NoZst]
           /\ totalLen' = totalLen - seg.count
           /\ call' = NextTurn(call.kept)
        \/ /\ seg.maxSeq > batch.last /\ seg.minSeq > batch.last
           /\ call' = NextTurn(Append(call.kept, seg))
           /\ UNCHANGED <<zst, totalLen>>
        \/ /\ seg.maxSeq > batch.last /\ seg.minSeq <= batch.last
           /\ zst[seg.name].exists
           /\ IF left = {}
                THEN /\ zst' = [zst EXCEPT ![seg.name] = NoZst]
                     /\ totalLen' = totalLen - seg.count
                     /\ call' = NextTurn(call.kept)
                ELSE /\ zst' = [zst EXCEPT
                          ![seg.name] = [exists |-> TRUE, items |-> left]]
                     /\ totalLen' =
                          totalLen - (Cardinality(items) - Cardinality(left))
                     /\ call' = NextTurn(Append(call.kept, Meta(seg.name, left)))
  /\ UNCHANGED <<wal, maxName, pc, nextSeq, active, sealed, batch, history>>

\* Ack returns early, on an I/O error or a sealed file that is not there:
\* Buffer.sealed keeps the entries whose files the loop already removed.
AckFails ==
  /\ pc = "ack"
  /\ call.pos <= Len(sealed)
  /\ LET seg == sealed[call.pos] IN
       /\ seg.minSeq <= batch.last
       /\ \/ "ack" \in Faults
          \/ seg.maxSeq > batch.last /\ ~zst[seg.name].exists
  /\ pc' = "idle"
  /\ call' = NoCall
  /\ batch' = NoBatch
  /\ UNCHANGED <<disk, memory, history>>

\* The locals of a caller of rewrite: how many records it dropped, and where
\* it goes on.
InRewrite(k, ret) == [pos |-> 0, kept |-> <<>>, removed |-> k, then |-> ret]

\* The tail of Ack: install kept, drop the acknowledged active items from
\* memory, and truncate the file before writing the rest back.
AckActive ==
  /\ pc = "ack"
  /\ call.pos > Len(sealed)
  /\ sealed' = call.kept
  /\ LET left == {it \in active.items : it.seq > batch.last} IN
       IF left = active.items
         THEN /\ pc' = "idle"
              /\ call' = NoCall
              /\ batch' = NoBatch
              /\ UNCHANGED <<wal, active>>
         ELSE /\ active' = [active EXCEPT !.items = left]
              /\ IF active.open
                   THEN /\ wal' = [wal EXCEPT ![active.name] = EmptyWal]
                        /\ pc' = "rewrite"
                        /\ call' =
                             InRewrite(Cardinality(active.items \ left), "idle")
                        /\ UNCHANGED batch
                   ELSE /\ pc' = "idle"
                        /\ call' = NoCall
                        /\ batch' = NoBatch
                        /\ UNCHANGED wal
  /\ UNCHANGED <<zst, maxName, nextSeq, totalLen, history>>

\* segmentWriter.rewrite after Truncate: write and sync what is left.
RewriteWrite ==
  /\ pc = "rewrite"
  /\ wal' = [wal EXCEPT ![active.name].items = active.items]
  /\ totalLen' = totalLen - call.removed
  /\ pc' = call.then
  /\ call' = NoCall
  /\ batch' = IF call.then = "idle" THEN NoBatch ELSE batch
  /\ UNCHANGED <<zst, maxName, nextSeq, active, sealed, history>>

\* rewrite's Write fails: the file stays empty and the caller returns.
RewriteFails ==
  /\ "rewrite" \in Faults
  /\ pc = "rewrite"
  /\ pc' = "idle"
  /\ call' = NoCall
  /\ batch' = IF call.then = "idle" THEN NoBatch ELSE batch
  /\ UNCHANGED <<disk, memory, history>>

-----------------------------------------------------------------------------
(* EnforceCapacity. *)

BytesHeld ==
  Cardinality(UNION {{i} \X (1 .. sealed[i].count) : i \in DOMAIN sealed})
    + Cardinality(active.items)

\* oldestTSLocked looks at the first sealed file, else at the active items.
HasOldest ==
  \/ sealed # <<>> /\ zst[sealed[1].name].items # {}
  \/ active.items # {}

\* overCapacityLocked; whether the oldest record is too old is the clock's
\* choice.
OverCapacity(aged) == BytesHeld > MaxBytes \/ (aged /\ HasOldest)

\* Mutant of Victims: the oldest record of any priority.
VictimsAny == {it \in Held : \A other \in Held : it.seq <= other.seq}

\* findDiscardVictimLocked: the oldest log line, else the oldest metric.
Victims ==
  LET of(p) == {it \in Held : it.prio = p}
      tier == IF of(PriorityLogLine) # {} THEN of(PriorityLogLine)
                                          ELSE of(PriorityMetric)
  IN {it \in tier : \A other \in tier : it.seq <= other.seq}

EnforceStart ==
  /\ Enforce
  /\ pc = "idle"
  /\ \E aged \in BOOLEAN : OverCapacity(aged)
  /\ pc' = "enforce"
  /\ UNCHANGED <<disk, memory, call, batch, history>>

EnforceDone ==
  /\ pc = "enforce"
  /\ \/ \E aged \in BOOLEAN : ~OverCapacity(aged)
     \/ Victims = {}
  /\ pc' = "idle"
  /\ UNCHANGED <<disk, memory, call, batch, history>>

\* removeItemLocked on an item of the active segment: rewrite its file, or
\* fail if a failed seal closed it.  The item is out of memory either way; on
\* an error EnforceCapacity does not return it to its caller.
DiscardActive(it) ==
  /\ it \in active.items
  /\ active' = [active EXCEPT !.items = @ \ {it}]
  /\ \/ /\ active.open
        /\ wal' = [wal EXCEPT ![active.name] = EmptyWal]
        /\ pc' = "rewrite"
        /\ call' = InRewrite(1, "enforce")
     \/ /\ ~active.open
        /\ pc' = "idle"
        /\ UNCHANGED <<wal, call>>
  /\ UNCHANGED <<zst, sealed, totalLen>>

\* The sealed entries removeItemLocked opens, in order, looking for it.
Candidates(it) ==
  {i \in DOMAIN sealed : it.seq \in sealed[i].minSeq .. sealed[i].maxSeq}

\* The entry removeItemLocked settles on: the first candidate whose file has
\* the item, provided the files of the candidates before it are there.
FoundAt(it) ==
  {i \in Candidates(it) :
     /\ it \in zst[sealed[i].name].items
     /\ \A j \in Candidates(it) :
          j < i => /\ zst[sealed[j].name].exists
                   /\ it \notin zst[sealed[j].name].items}

\* removeItemLocked on a sealed item: rewrite the file that has it, or
\* remove that file when the item was its last.
DiscardSealed(it) ==
  /\ it \notin active.items
  /\ \E i \in FoundAt(it) :
       LET n == sealed[i].name
           left == zst[n].items \ {it}
       IN IF left = {}
            THEN /\ zst' = [zst EXCEPT ![n] = NoZst]
                 /\ sealed' = SubSeq(sealed, 1, i - 1)
                                \o SubSeq(sealed, i + 1, Len(sealed))
            ELSE /\ zst' = [zst EXCEPT
                      ![n] = [exists |-> TRUE, items |-> left]]
                 /\ sealed' = [sealed EXCEPT ![i] = Meta(n, left)]
  /\ totalLen' = totalLen - 1
  /\ UNCHANGED <<wal, pc, active, call>>

\* removeItemLocked returns an error: a candidate's file is missing, no
\* candidate has the item, or rewriting or removing the file fails.
EnforceFails ==
  /\ pc = "enforce"
  /\ \E aged \in BOOLEAN : OverCapacity(aged)
  /\ \E it \in Victims :
       it \notin active.items /\ (FoundAt(it) = {} \/ "ack" \in Faults)
  /\ pc' = "idle"
  /\ UNCHANGED <<disk, memory, call, batch, history>>

EnforceDiscard ==
  /\ pc = "enforce"
  /\ \E aged \in BOOLEAN : OverCapacity(aged)
  /\ \E it \in Victims :
       /\ DiscardActive(it) \/ DiscardSealed(it)
       /\ discarded' = discarded \cup {it.id}
  /\ UNCHANGED <<maxName, nextSeq, batch, appends, accepted, confirmed>>

-----------------------------------------------------------------------------

Next ==
  \/ Open \/ SealOrphan \/ UnlinkOrphan \/ OpenDone \/ Crash
  \/ \E p \in Priorities : AppendItem(p) \/ AppendFails(p) \/ KilledInAppend(p)
  \/ AppendClosed
  \/ Close \/ SealWrite \/ SealUnlink \/ SealFails
  \/ OldestItems \/ SendOk \/ SendFails
  \/ AckStart \/ AckSegment \/ AckFails \/ AckActive
  \/ RewriteWrite \/ RewriteFails
  \/ EnforceStart \/ EnforceDone \/ EnforceDiscard
  \/ EnforceFails

Spec == Init /\ [][Next]_vars

-----------------------------------------------------------------------------
(* Properties. *)

\* No record is lost: whenever no call is under way, every record whose write
\* was reported durable is still held by the buffer, was in a batch the hub
\* confirmed, or was discarded by EnforceCapacity ("el agente no borra de su
\* buffer hasta recibir confirmacion", backfill.go:30-32).
NoLoss ==
  pc = "idle" => accepted \subseteq confirmed \cup discarded \cup IdsOf(Held)

\* A crash immediately after Append returns does not lose the record
\* (buffer.go:130-132): outside the truncate-and-write window of rewrite,
\* what recovery could read back covers every record not yet accounted for.
CrashSafe ==
  pc # "rewrite" =>
    accepted \subseteq confirmed \cup discarded \cup IdsOf(Recoverable)

\* Sink.Run skips Backfill when Len is 0 (sink.go:176-179): that must never
\* strand a record the buffer still holds.
NoStrandedItems == pc = "idle" /\ Held # {} => totalLen > 0

\* Every entry of Buffer.sealed has its file: one missing file makes
\* oldestItems, hence every Backfill, fail until the next restart
\* (backfill.go:83-86).
SealedFilesExist ==
  pc = "idle" => \A i \in DOMAIN sealed : zst[sealed[i].name].exists

\* Batches go out oldest first (backfill.go:34-35, "en orden cronologico"):
\* a record left out of a batch is newer than all of the batch.
OldestFirst ==
  [][batch.stage = "none" /\ batch'.stage = "sending" =>
       \A it \in Held \ batch'.items : it.seq > batch'.last]_vars

\* EnforceCapacity drops "lowest priority, oldest first, and never an event"
\* (capacity.go:20-23), judged against everything the buffer holds.
DiscardPolicy ==
  [][\A it \in Held : it.id \in discarded' \ discarded =>
       /\ it.prio # PriorityEvent
       /\ \A other \in Held :
            \/ other.prio > it.prio
            \/ other.prio = it.prio /\ other.seq >= it.seq]_vars

\* Ack and EnforceCapacity find a record by its Seq alone (backfill.go:142,
\* capacity.go:138), and Seqs restart after a restart with an empty buffer:
\* still no two records of the buffer may share one, whatever fails.
SeqIdentifiesItem ==
  \A it, other \in Held : it.seq = other.seq => it = other

\* The buffer as an Outbox: pending is what a restart would find, together
\* with the items rewrite is about to put back.
Pending ==
  IdsOf(Recoverable \cup (IF pc = "rewrite" THEN active.items ELSE {}))

Abstract == INSTANCE Outbox WITH
  Records <- Ids,
  entered <- accepted,
  pending <- Pending \cap accepted,
  delivered <- confirmed \cap accepted,
  dropped <- discarded \cap accepted

\* The segment files, through crashes, sealing, acknowledgement and discards,
\* implement the Outbox.
ImplementsOutbox == Abstract!OutboxSpec

=============================================================================
