------------------------ MODULE AgentBufferInvariant ------------------------
(***************************************************************************)
(* The inductive invariant of AgentBuffer, the facts its proof rests on,   *)
(* and that sealing, Open, recovery and the steps that leave the files     *)
(* alone preserve it.  It holds for every bound, segment size, batch size  *)
(* and priority set, and every environment that keeps the clock monotone,  *)
(* tears no write and does not interrupt rewrite.                          *)
(***************************************************************************)
EXTENDS AgentBuffer, FiniteSetTheorems, WellFoundedInduction, TLAPS

-----------------------------------------------------------------------------
(* The inductive invariant. *)

\* Records that still have to be delivered.
Live(it) ==
  it.id \in accepted /\ it.id \notin confirmed /\ it.id \notin discarded

\* The records stored under a name, on disk or in the active segment.
Here(n) ==
  zst[n].items \cup wal[n].items
    \cup (IF active.name = n THEN active.items ELSE {})

Up == pc \notin {"down", "recover", "orphan"}

\* Only the newest name can have an active file, and a sealed file beside it
\* is its copy.
FilesInv ==
  \A n \in Names :
    /\ wal[n].torn = 0
    /\ ~wal[n].exists => wal[n].items = {}
    /\ ~zst[n].exists => zst[n].items = {}
    /\ wal[n].exists => n = maxName
    /\ zst[n].exists => n <= maxName
    /\ wal[n].exists /\ zst[n].exists =>
         /\ zst[n].items \subseteq wal[n].items
         /\ \A it \in wal[n].items : Live(it) => it \in zst[n].items

\* The active segment mirrors its file, except inside rewrite.
ActiveInv ==
  /\ active.name = 0 => active = NilActive
  /\ active.name # 0 =>
       /\ Up
       /\ active.name = maxName
       /\ wal[active.name].exists
       /\ \A it \in wal[active.name].items : Live(it) => it \in active.items
       /\ pc # "rewrite" => active.items \subseteq wal[active.name].items
  /\ Up => \A n \in Names : wal[n].exists => active.name = n
  /\ active.open => active.name # 0 /\ ~zst[active.name].exists
  /\ pc = "seal" => active.open
  /\ pc = "unlink" =>
       /\ active.name # 0
       /\ zst[active.name] = [exists |-> TRUE, items |-> active.items]
  /\ pc = "rewrite" => active.open /\ wal[active.name].items = {}
  /\ pc = "orphan" =>
       /\ maxName # 0
       /\ wal[maxName].exists
       /\ zst[maxName] = [exists |-> TRUE, items |-> wal[maxName].items]

\* Names and sequence numbers grow together.
OrderInv ==
  \A n, m \in Names :
    n < m => \A it \in Here(n), other \in Here(m) : it.seq < other.seq

SeqInv ==
  /\ nextSeq <= appends
  /\ accepted \subseteq 1 .. appends
  /\ \A n \in Names : \A it \in Here(n) :
       /\ it.id <= appends
       /\ it.seq <= appends
       /\ Up \/ (pc # "down" /\ ~wal[n].exists) => it.seq <= nextSeq

\* A list of segments is sorted by name, bounds what it indexes from above.
IndexOK(segs) ==
  /\ \A i, j \in DOMAIN segs : i < j => segs[i].name <= segs[j].name
  /\ \A i \in DOMAIN segs :
       /\ segs[i].name <= maxName
       /\ Up => ~wal[segs[i].name].exists
       /\ \A it \in zst[segs[i].name].items :
            Live(it) => it.seq <= segs[i].maxSeq

\* Every sealed record still to be delivered is indexed, and recovery only
\* indexes files it has seen.
SealedInv ==
  /\ IndexOK(sealed)
  /\ ~Up => \A i \in DOMAIN sealed : zst[sealed[i].name].exists
  /\ pc # "down" =>
       \A n \in Names : \A it \in zst[n].items :
         Live(it) => wal[n].exists \/ \E i \in DOMAIN sealed : sealed[i].name = n

\* The same of the index Ack is building: kept, then what it has not visited.
KeptInv ==
  pc = "ack" =>
    /\ call.pos \in 1 .. Len(sealed) + 1
    /\ IndexOK(call.kept)
    /\ \A i \in DOMAIN call.kept, j \in DOMAIN sealed :
         j >= call.pos => call.kept[i].name <= sealed[j].name
    /\ \A n \in Names : \A it \in zst[n].items :
         Live(it) =>
           \/ wal[n].exists
           \/ \E i \in DOMAIN call.kept : call.kept[i].name = n
           \/ \E j \in DOMAIN sealed : j >= call.pos /\ sealed[j].name = n

\* A batch on the wire covers everything up to its last Seq: acknowledging
\* by Seq forgets nothing that was not sent.
BatchInv ==
  /\ batch.stage # "none" =>
       /\ Up
       /\ batch.last <= nextSeq
       /\ \A n \in Names : \A it \in Here(n) :
            Live(it) /\ it.seq <= batch.last => it.id \in IdsOf(batch.items)
  /\ batch.stage = "sent" => IdsOf(batch.items) \subseteq confirmed
  /\ pc = "ack" => batch.stage = "sent"

DurableInv ==
  \A x \in accepted :
    \/ x \in confirmed
    \/ x \in discarded
    \/ \E n \in Names : \E it \in Here(n) : it.id = x

IInv ==
  /\ TypeOK
  /\ FilesInv
  /\ ActiveInv
  /\ OrderInv
  /\ SeqInv
  /\ SealedInv
  /\ KeptInv
  /\ BatchInv
  /\ DurableInv

\* The environments the theorems are about.
BenignFaults == Faults \subseteq {"write", "seal", "ack"}

-----------------------------------------------------------------------------
(* Lemmas about the operators of the model. *)

\* A non-empty bounded set of naturals has a greatest element, which Max
\* returns.
LEMMA MaxOfBounded ==
  ASSUME NEW S \in SUBSET Nat, S # {}, NEW b \in Nat, \A x \in S : x <= b
  PROVE  Max(S) \in S /\ \A x \in S : x <= Max(S)
<1> DEFINE Above(x) == {y \in S : y > x}
           T == {Above(x) : x \in S}
<1>1. IsFiniteSet(S)
  BY FS_BoundedSetOfNaturals
<1>2. T \subseteq FiniteSubsetsOf(S)
  BY <1>1, FS_FiniteSubsetsOfFinite
<1>3. T # {}
  BY Zenon
<1>4. PICK t \in T : \A u \in T : ~(<<u, t>> \in StrictSubsetOrdering(S))
  <2>1. IsWellFoundedOn(StrictSubsetOrdering(S), FiniteSubsetsOf(S))
    BY FS_StrictSubsetOrderingWellFounded
  <2> QED
    BY <2>1, <1>2, <1>3, WFMin, Zenon
<1>5. PICK m \in S : t = Above(m)
  BY <1>4
<1>6. \A x \in S : x <= m
  <2> SUFFICES ASSUME NEW x \in S, x > m PROVE FALSE
    OBVIOUS
  <2>1. Above(x) \subseteq Above(m) /\ Above(x) # Above(m)
    <3>1. x \in Above(m) /\ x \notin Above(x)
      OBVIOUS
    <3>2. ASSUME NEW y \in Above(x) PROVE y \in Above(m)
      <4>1. y \in S /\ y > x
        OBVIOUS
      <4>2. y \in Nat /\ x \in Nat /\ m \in Nat
        BY <4>1
      <4> QED BY <4>1, <4>2
    <3> QED BY <3>1, <3>2, Zenon
  <2>2. <<Above(x), Above(m)>> \in StrictSubsetOrdering(S)
    BY <2>1 DEF StrictSubsetOrdering
  <2> QED BY <2>2, <1>4, <1>5, Zenon
<1> QED
  BY <1>6, Zenon DEF Max

\* A nonempty set of naturals has a least element, and Min picks it.
LEMMA MinOfNaturals ==
  ASSUME NEW S \in SUBSET Nat, S # {}, NEW b \in Nat, \A x \in S : x <= b
  PROVE  Min(S) \in S /\ \A x \in S : Min(S) <= x
<1> DEFINE R == {b - x : x \in S}
<1>1. R \in SUBSET Nat /\ R # {} /\ \A y \in R : y <= b
  <2>1. \A x \in S : x \in Nat /\ b - x \in Nat /\ b - x <= b
    OBVIOUS
  <2>2. R # {}
    BY Zenon
  <2> QED BY <2>1, <2>2
<1>2. Max(R) \in R /\ \A y \in R : y <= Max(R)
  BY <1>1, MaxOfBounded, Zenon
<1>3. PICK m \in S : Max(R) = b - m
  BY <1>2, Zenon
<1>4. ASSUME NEW x \in S PROVE m <= x
  <2>1. b - x \in R
    OBVIOUS
  <2>2. b - x <= b - m
    BY <2>1, <1>2, <1>3, Zenon
  <2>3. x \in Nat /\ m \in Nat
    OBVIOUS
  <2> QED BY <2>2, <2>3
<1> QED
  BY <1>4, Zenon DEF Min

\* There are finitely many records, whatever the bounds are.
LEMMA ItemFinite == IsFiniteSet(Item)
<1> DEFINE P == (Ids \X Ids) \X (PriorityLogLine .. PriorityEvent)
           f == [t \in P |-> [id |-> t[1][1], seq |-> t[1][2], prio |-> t[2]]]
           U == [id : Ids, seq : Ids, prio : PriorityLogLine .. PriorityEvent]
<1>1. IsFiniteSet(Ids) /\ IsFiniteSet(PriorityLogLine .. PriorityEvent)
  <2>1. 1 \in Int /\ MaxAppends \in Int /\ 0 \in Int /\ 2 \in Int
    BY BoundsAssumption
  <2>2. IsFiniteSet(1 .. MaxAppends) /\ IsFiniteSet(0 .. 2)
    BY <2>1, FS_Interval, Zenon
  <2> QED BY <2>2 DEF Ids, PriorityLogLine, PriorityEvent
<1>2. IsFiniteSet(P)
  BY <1>1, FS_Product, Zenon
<1>3. f \in Surjection(P, U)
  <2>1. f \in [P -> U]
    OBVIOUS
  <2>2. ASSUME NEW u \in U PROVE \E t \in P : f[t] = u
    <3>1. <<<<u.id, u.seq>>, u.prio>> \in P
      OBVIOUS
    <3>2. f[<<<<u.id, u.seq>>, u.prio>>] = u
      BY <3>1
    <3> QED BY <3>1, <3>2
  <2> QED BY <2>1, <2>2 DEF Surjection
<1>4. IsFiniteSet(U)
  BY <1>2, <1>3, FS_Surjection
<1>5. Item \in SUBSET U
  BY EnvironmentAssumption, Zenon DEF Item
<1> QED
  BY <1>4, <1>5, FS_Subset, Zenon

\* Hence every set of records, and its set of Seqs, is finite.
LEMMA ItemsFinite ==
  ASSUME NEW items \in SUBSET Item
  PROVE  IsFiniteSet(items) /\ Cardinality(items) \in Nat
  BY ItemFinite, FS_Subset, FS_CardinalityType

\* The metadata of a segment bounds the sequence numbers of its records.
LEMMA MetaBounds ==
  ASSUME NEW n \in Names, NEW items \in SUBSET Item
  PROVE  /\ Meta(n, items) \in Segment
         /\ Meta(n, items).name = n
         /\ \A it \in items : it.seq <= Meta(n, items).maxSeq
<1> DEFINE S == Seqs(items)
<1>1. S \in SUBSET Nat /\ \A x \in S : x <= MaxAppends
  BY BoundsAssumption DEF Seqs, Item, Ids
<1>2. CASE items = {}
  BY <1>2, ItemsFinite DEF Meta, Segment
<1>3. CASE items # {}
  <2>1. S # {}
    BY <1>3, Zenon DEF Seqs
  <2>2. Max(S) \in S /\ \A x \in S : x <= Max(S)
    BY <1>1, <2>1, MaxOfBounded, BoundsAssumption, Zenon
  <2>3. Min(S) \in S
    BY <1>1, <2>1, MinOfNaturals, BoundsAssumption, Zenon
  <2>4. \A it \in items : it.seq \in S
    BY DEF Seqs
  <2> HIDE DEF S
  <2>5. Meta(n, items) = [name |-> n, minSeq |-> Min(S), maxSeq |-> Max(S),
                          count |-> Cardinality(items)]
    BY <1>3 DEF Meta, S
  <2>6. Min(S) \in Nat /\ Max(S) \in Nat /\ Cardinality(items) \in Nat
    BY <2>2, <2>3, <1>1, ItemsFinite, Zenon
  <2> QED
    BY <2>2, <2>4, <2>5, <2>6 DEF Segment
<1> QED BY <1>2, <1>3

-----------------------------------------------------------------------------
(* Records, numbers and lists of segments. *)

\* The nil values have the types of the variables they are assigned to.
LEMMA NilTypes ==
  /\ NoWal \in WalFile
  /\ NoZst \in ZstFile
  /\ NilActive \in ActiveSegment
  /\ NoCall \in CallFrame
  /\ NoBatch \in BatchState
  BY BoundsAssumption DEF NoWal, NoZst, NilActive, NoCall, NoBatch, WalFile,
     ZstFile, ActiveSegment, CallFrame, BatchState

\* Fields of an entry of the index.
LEMMA SegmentOf ==
  ASSUME NEW segs \in Seq(Segment), NEW i \in DOMAIN segs
  PROVE  /\ i \in 1 .. Len(segs)
         /\ segs[i] \in Segment
         /\ segs[i].name \in Names
<1>1. i \in 1 .. Len(segs) /\ segs[i] \in Segment
  OBVIOUS
<1> QED BY <1>1 DEF Segment

\* The bounds and the numbers built from them are naturals.
LEMMA Numbers ==
  ASSUME TypeOK
  PROVE  /\ maxName \in Nat /\ nextSeq \in Nat /\ appends \in Nat
         /\ batch.last \in Nat /\ active.name \in Nat /\ call.pos \in Nat
         /\ MaxAppends \in Nat /\ MaxSegments \in Nat
         /\ \A n \in Names : n \in Nat /\ n # 0
  BY BoundsAssumption DEF TypeOK, BatchState, ActiveSegment, CallFrame, Names

\* Fields of a record.
LEMMA ItemSeq ==
  ASSUME NEW it \in Item
  PROVE  it.seq \in Nat /\ it.id \in Nat
  BY BoundsAssumption DEF Item, Ids

\* What is stored under a name is a set of records.
LEMMA HereItems ==
  ASSUME TypeOK, NEW n \in Names
  PROVE  /\ Here(n) \in SUBSET Item
         /\ \A it \in Here(n) : it.seq \in Nat /\ it.id \in Nat
<1>1. wal[n].items \in SUBSET Item /\ zst[n].items \in SUBSET Item
  BY DEF TypeOK, WalFile, ZstFile
<1>2. active.items \in SUBSET Item
  BY DEF TypeOK, ActiveSegment
<1>3. Here(n) \in SUBSET Item
  BY <1>1, <1>2 DEF Here
<1> QED BY <1>3, ItemSeq

\* Adding an entry for the newest name keeps an index sorted.
LEMMA IndexAppend ==
  ASSUME NEW segs \in Seq(Segment), NEW e \in Segment,
         \A i, j \in DOMAIN segs : i < j => segs[i].name <= segs[j].name,
         \A i \in DOMAIN segs : segs[i].name <= e.name
  PROVE  LET s == Append(segs, e)
         IN  /\ s \in Seq(Segment)
             /\ \A i, j \in DOMAIN s : i < j => s[i].name <= s[j].name
             /\ \A i \in DOMAIN s : s[i] = e \/ (i \in DOMAIN segs /\ s[i] = segs[i])
             /\ \E i \in DOMAIN s : s[i] = e
             /\ \A i \in DOMAIN segs : i \in DOMAIN s /\ s[i] = segs[i]
<1> DEFINE s == Append(segs, e)
<1>1. /\ s \in Seq(Segment) /\ Len(s) = Len(segs) + 1 /\ Len(segs) \in Nat
      /\ DOMAIN s = 1 .. Len(segs) + 1 /\ DOMAIN segs = 1 .. Len(segs)
      /\ s[Len(segs) + 1] = e
      /\ \A i \in 1 .. Len(segs) : s[i] = segs[i]
  OBVIOUS
<1> HIDE DEF s
<1>2. \A i \in DOMAIN s : s[i] = e \/ (i \in DOMAIN segs /\ s[i] = segs[i])
  BY <1>1
<1>3. ASSUME NEW i \in DOMAIN s, NEW j \in DOMAIN s, i < j
      PROVE  s[i].name <= s[j].name
  <2>1. i \in 1 .. Len(segs) /\ (j = Len(segs) + 1 \/ j \in 1 .. Len(segs))
    BY <1>1, <1>3
  <2> QED BY <2>1, <1>1, <1>3
<1>4. Len(segs) + 1 \in DOMAIN s
  BY <1>1
<1> QED BY <1>1, <1>2, <1>3, <1>4 DEF s

\* Removing one entry of a list of segments.
LEMMA IndexRemove ==
  ASSUME NEW segs \in Seq(Segment), NEW k \in DOMAIN segs
  PROVE  LET s == SubSeq(segs, 1, k - 1) \o SubSeq(segs, k + 1, Len(segs))
         IN  /\ s \in Seq(Segment)
             /\ \A i \in DOMAIN s : \E j \in DOMAIN segs :
                  s[i] = segs[j] /\ j # k
             /\ \A i, j \in DOMAIN s : i < j =>
                  \E u, v \in DOMAIN segs : u < v /\ s[i] = segs[u] /\ s[j] = segs[v]
             /\ \A j \in DOMAIN segs : j # k => \E i \in DOMAIN s : s[i] = segs[j]
<1> DEFINE n == Len(segs)
           l == SubSeq(segs, 1, k - 1)
           r == SubSeq(segs, k + 1, n)
           s == l \o r
           at(i) == IF i < k THEN i ELSE i + 1
<1>1. n \in Nat /\ k \in 1 .. n /\ DOMAIN segs = 1 .. n /\ k \in Nat
  OBVIOUS
<1>2. /\ l \in Seq(Segment) /\ Len(l) = k - 1
      /\ \A i \in 1 .. k - 1 : l[i] = segs[i]
  BY <1>1
<1>3. /\ r \in Seq(Segment) /\ Len(r) = n - k
      /\ \A i \in 1 .. n - k : r[i] = segs[k + i]
  BY <1>1
<1> HIDE DEF l, r
<1>4. s \in Seq(Segment) /\ Len(s) = n - 1 /\ DOMAIN s = 1 .. n - 1
  <2>1. s \in Seq(Segment) /\ Len(s) = Len(l) + Len(r) /\ DOMAIN s = 1 .. Len(s)
    <3>1. l \in Seq(Segment) /\ r \in Seq(Segment)
      BY <1>2, <1>3
    <3>2. Len(l \o r) = Len(l) + Len(r)
      BY <3>1
    <3>3. l \o r \in Seq(Segment)
      BY <3>1
    <3> QED BY <3>2, <3>3
  <2>2. Len(l) + Len(r) = n - 1
    BY <1>1, <1>2, <1>3
  <2> QED BY <2>1, <2>2
<1>5. ASSUME NEW i \in 1 .. n - 1
      PROVE  at(i) \in DOMAIN segs /\ at(i) # k /\ s[i] = segs[at(i)]
  <2>1. CASE i < k
    <3>1. i \in 1 .. k - 1 /\ s[i] = l[i]
      BY <2>1, <1>1, <1>2, <1>3
    <3> QED BY <3>1, <2>1, <1>1, <1>2
  <2>2. CASE ~(i < k)
    <3>0. i - (k - 1) \in 1 .. n - k
      BY <2>2, <1>1
    <3>1. i - (k - 1) \in 1 .. n - k /\ s[i] = r[i - (k - 1)]
      BY <3>0, <2>2, <1>1, <1>2, <1>3, SMTT(30)
    <3>2. r[i - (k - 1)] = segs[k + (i - (k - 1))] /\ k + (i - (k - 1)) = i + 1
      BY <3>1, <1>1, <1>3
    <3> QED BY <3>1, <3>2, <2>2, <1>1
  <2> QED BY <2>1, <2>2, Zenon
<1>6. ASSUME NEW i \in 1 .. n - 1, NEW j \in 1 .. n - 1, i < j PROVE at(i) < at(j)
  BY <1>1, <1>6
<1>7. ASSUME NEW j \in DOMAIN segs, j # k PROVE \E i \in 1 .. n - 1 : at(i) = j
  <2>1. CASE j < k
    <3>1. j \in 1 .. n - 1 /\ at(j) = j
      BY <2>1, <1>1
    <3> QED BY <3>1
  <2>2. CASE j > k
    <3>1. j - 1 \in 1 .. n - 1 /\ at(j - 1) = j
      BY <2>2, <1>1
    <3> QED BY <3>1
  <2> QED BY <2>1, <2>2, <1>1, <1>7
<1> HIDE DEF s, at
<1>9. ASSUME NEW i \in DOMAIN s, NEW j \in DOMAIN s, i < j
      PROVE  \E u, v \in DOMAIN segs : u < v /\ s[i] = segs[u] /\ s[j] = segs[v]
  <2>1. i \in 1 .. n - 1 /\ j \in 1 .. n - 1
    BY <1>4
  <2>2. at(i) < at(j) /\ at(i) \in DOMAIN segs /\ at(j) \in DOMAIN segs
        /\ s[i] = segs[at(i)] /\ s[j] = segs[at(j)]
    BY <2>1, <1>5, <1>6, <1>9
  <2> QED BY <2>2
<1>10. ASSUME NEW j \in DOMAIN segs, j # k PROVE \E i \in DOMAIN s : s[i] = segs[j]
  <2>1. PICK i \in 1 .. n - 1 : at(i) = j
    BY <1>7, <1>10
  <2> QED BY <2>1, <1>4, <1>5, Zenon
<1>8. /\ \A i \in DOMAIN s : \E j \in DOMAIN segs :
           s[i] = segs[j] /\ j # k
      /\ \A i, j \in DOMAIN s : i < j =>
           \E u, v \in DOMAIN segs : u < v /\ s[i] = segs[u] /\ s[j] = segs[v]
      /\ \A j \in DOMAIN segs : j # k => \E i \in DOMAIN s : s[i] = segs[j]
  BY <1>4, <1>5, <1>9, <1>10, Zenon
<1> QED BY <1>4, <1>8, Zenon DEF s, l, r

-----------------------------------------------------------------------------
(* The steps that leave the files alone. *)

\* A step of the running process that leaves the files, the active segment
\* and the index alone keeps every fact about them.
LEMMA QuietStep ==
  ASSUME IInv, Up, Up', UNCHANGED <<disk, active, sealed, accepted, discarded>>,
         confirmed \subseteq confirmed'
  PROVE  FilesInv' /\ OrderInv' /\ SealedInv' /\ DurableInv'
<1> USE DEF IInv, disk
<1>1. FilesInv'
  BY DEF FilesInv, Live
<1>2. OrderInv'
  BY DEF OrderInv, Here
<1>3. SealedInv'
  BY DEF SealedInv, IndexOK, Live, Up
<1>4. DurableInv'
  BY DEF DurableInv, Here
<1> QED BY <1>1, <1>2, <1>3, <1>4

\* Recovery ends with no active file and everything indexed.
LEMMA OpenDoneStep == ASSUME IInv, OpenDone PROVE IInv'
<1> USE DEF IInv, OpenDone, disk, memory, history
<1>1. TypeOK'
  BY DEF TypeOK, Control
<1>2. FilesInv'
  BY DEF FilesInv, Live
<1>3. \A n \in Names : ~wal[n].exists
  BY DEF OrphanNames
<1>4. ActiveInv'
  BY <1>3 DEF ActiveInv, Up
<1>5. OrderInv'
  BY DEF OrderInv, Here
<1>6. SeqInv'
  BY <1>3 DEF SeqInv, Here, Up
<1>7. SealedInv'
  <2>1. \A i \in DOMAIN sealed : sealed[i].name \in Names
    BY SegmentOf DEF TypeOK
  <2> QED BY <2>1, <1>3 DEF SealedInv, IndexOK, Live, Up
<1>8. KeptInv' /\ DurableInv'
  BY DEF KeptInv, DurableInv, Here
<1>9. BatchInv'
  BY DEF BatchInv, Up, Here, Live
<1> QED BY <1>1, <1>2, <1>4, <1>5, <1>6, <1>7, <1>8, <1>9

\* A crash outside rewrite keeps the files, hence every live record.
LEMMA CrashStep == ASSUME IInv, BenignFaults, Crash PROVE IInv'
<1> USE DEF IInv, Crash, disk, history
<1>0. pc # "rewrite"
  BY DEF BenignFaults
<1>1. TypeOK'
  BY NilTypes, BoundsAssumption DEF TypeOK, Control
<1>2. FilesInv'
  BY DEF FilesInv, Live
<1>3. ActiveInv'
  BY DEF ActiveInv, Up, NilActive
<1>4. OrderInv'
  BY DEF OrderInv, Here, NilActive, Names
<1>5. SeqInv'
  BY DEF SeqInv, Here, NilActive, Names, Up, TypeOK
<1>6. SealedInv' /\ KeptInv'
  BY DEF SealedInv, IndexOK, KeptInv
<1>7. BatchInv'
  BY DEF BatchInv, NoBatch
<1>8. DurableInv'
  <2>1. ASSUME NEW n \in Names, NEW it \in Here(n) PROVE it \in Here(n)'
    BY <1>0, <2>1 DEF Here, ActiveInv, NilActive, Names
  <2> QED BY <2>1 DEF DurableInv
<1> QED BY <1>1, <1>2, <1>3, <1>4, <1>5, <1>6, <1>7, <1>8

\* Steps that only move pc between the calls.
LEMMA QuietSteps ==
  ASSUME IInv, BenignFaults,
         Close \/ SendOk \/ SendFails \/ AckStart \/ AckFails
           \/ EnforceStart \/ EnforceDone \/ EnforceFails \/ RewriteFails
  PROVE  IInv'
<1> USE DEF IInv, disk, memory, history
<1>1. CASE Close
  <2>1. TypeOK'
    BY <1>1 DEF Close, TypeOK, Control
  <2>2. FilesInv' /\ OrderInv' /\ SealedInv' /\ DurableInv'
    BY <1>1, QuietStep, Zenon DEF Close, Up
  <2>3. ActiveInv' /\ SeqInv' /\ KeptInv' /\ BatchInv'
    BY <1>1, Zenon DEF Close, ActiveInv, SeqInv, KeptInv, BatchInv, Here, Live, Up
  <2> QED BY <2>1, <2>2, <2>3
<1>2. CASE SendOk
  <2>0. Up
    BY <1>2 DEF SendOk, BatchInv
  <2>1. TypeOK'
    <3>1. IdsOf(batch.items) \in SUBSET Ids
      BY DEF TypeOK, BatchState, IdsOf, Item
    <3>2. batch' \in BatchState
      BY <1>2 DEF SendOk, TypeOK, BatchState
    <3> QED BY <3>1, <3>2, <1>2 DEF SendOk, TypeOK
  <2>2. FilesInv' /\ OrderInv' /\ SealedInv' /\ DurableInv'
    BY <2>0, <1>2, QuietStep DEF SendOk, Up
  <2>3. ActiveInv' /\ SeqInv'
    BY <1>2 DEF SendOk, ActiveInv, SeqInv, Here, Live, Up
  <2>4. KeptInv'
    BY <1>2 DEF SendOk, KeptInv, BatchInv
  <2>5. BatchInv'
    BY <1>2 DEF SendOk, BatchInv, TypeOK, BatchState, Here, Live, Up
  <2> QED BY <2>1, <2>2, <2>3, <2>4, <2>5
<1>3. CASE SendFails
  <2>0. Up
    BY <1>3 DEF SendFails, BatchInv
  <2>1. TypeOK'
    BY <1>3, NilTypes DEF SendFails, TypeOK
  <2>2. FilesInv' /\ OrderInv' /\ SealedInv' /\ DurableInv'
    BY <2>0, <1>3, QuietStep, Zenon DEF SendFails, Up
  <2>3. ActiveInv' /\ SeqInv'
    BY <1>3 DEF SendFails, ActiveInv, SeqInv, Here, Live, Up
  <2>4. KeptInv' /\ BatchInv'
    BY <1>3, Zenon DEF SendFails, KeptInv, BatchInv, NoBatch
  <2> QED BY <2>1, <2>2, <2>3, <2>4
<1>4. CASE AckStart
  <2>0. call' = [pos |-> 1, kept |-> <<>>, removed |-> 0, then |-> "idle"]
    BY <1>4 DEF AckStart, NoCall
  <2>1. TypeOK'
    <3>1. call' \in CallFrame
      BY <2>0 DEF CallFrame
    <3> QED BY <3>1, <1>4, Zenon DEF AckStart, TypeOK, Control
  <2>2. FilesInv' /\ OrderInv' /\ SealedInv' /\ DurableInv'
    BY <1>4, QuietStep DEF AckStart, Up
  <2>3. ActiveInv' /\ SeqInv' /\ BatchInv'
    BY <1>4 DEF AckStart, ActiveInv, SeqInv, BatchInv, Here, Live, Up
  <2>4. KeptInv'
    <3>1. Len(sealed) \in Nat /\ \A j \in DOMAIN sealed : j >= 1
      BY DEF TypeOK
    <3> QED BY <3>1, <2>0, <1>4 DEF AckStart, KeptInv, SealedInv, IndexOK, Live
  <2> QED BY <2>1, <2>2, <2>3, <2>4
<1>5. CASE AckFails
  <2>1. TypeOK'
    BY <1>5, NilTypes, Zenon DEF AckFails, TypeOK, Control
  <2>2. FilesInv' /\ OrderInv' /\ SealedInv' /\ DurableInv'
    BY <1>5, QuietStep, Zenon DEF AckFails, Up
  <2>3. ActiveInv' /\ SeqInv' /\ KeptInv' /\ BatchInv'
    BY <1>5, Zenon DEF AckFails, ActiveInv, SeqInv, KeptInv, BatchInv, NoBatch, Here,
                Live, Up
  <2> QED BY <2>1, <2>2, <2>3
<1>6. CASE EnforceStart \/ EnforceDone \/ EnforceFails
  <2>1. /\ pc \in {"idle", "enforce"} /\ pc' \in {"idle", "enforce"}
        /\ UNCHANGED <<disk, memory, call, batch, history>>
    BY <1>6 DEF EnforceStart, EnforceDone, EnforceFails
  <2>2. TypeOK'
    BY <2>1 DEF TypeOK, Control
  <2>3. FilesInv' /\ OrderInv' /\ SealedInv' /\ DurableInv'
    BY <2>1, QuietStep, Zenon DEF Up
  <2>4. ActiveInv' /\ SeqInv' /\ KeptInv' /\ BatchInv'
    BY <2>1, Zenon DEF ActiveInv, SeqInv, KeptInv, BatchInv, Here, Live, Up
  <2> QED BY <2>2, <2>3, <2>4
<1>7. CASE RewriteFails
  BY <1>7 DEF RewriteFails, BenignFaults
<1> QED BY <1>1, <1>2, <1>3, <1>4, <1>5, <1>6, <1>7

-----------------------------------------------------------------------------
(* segmentWriter.seal. *)

\* seal copies the active items to the sealed file of the same name.
LEMMA SealWriteStep == ASSUME IInv, SealWrite PROVE IInv'
<1> USE DEF IInv, history
<1> DEFINE a == active.name
<1>1. /\ pc = "seal" /\ pc' = "unlink" /\ a # 0 /\ a \in Names /\ a = maxName
      /\ active.open /\ ~zst[a].exists /\ wal[a].exists
      /\ active.items \subseteq wal[a].items
      /\ \A it \in wal[a].items : Live(it) => it \in active.items
  BY DEF SealWrite, ActiveInv, TypeOK, ActiveSegment, Names
<1>2. active' = [name |-> a, open |-> FALSE, items |-> active.items]
  BY Zenon DEF SealWrite, TypeOK, ActiveSegment
<1>3. \A m \in Names :
        zst'[m] = IF m = a THEN [exists |-> TRUE, items |-> active.items] ELSE zst[m]
  BY <1>1 DEF SealWrite, TypeOK
<1>4. UNCHANGED <<wal, maxName, nextSeq, sealed, totalLen, call, batch, history>>
  BY DEF SealWrite
<1>5. \A m \in Names : Here(m)' = Here(m)
  BY <1>1, <1>2, <1>3, <1>4 DEF Here, FilesInv
<1>6. \A x : Live(x)' <=> Live(x)
  BY <1>4 DEF Live
<1>7. TypeOK'
  <2>1. active' \in ActiveSegment /\ active.items \in SUBSET Item
    BY <1>2 DEF TypeOK, ActiveSegment
  <2>2. zst' \in [Names -> ZstFile]
    BY <2>1, <1>1 DEF SealWrite, TypeOK, ZstFile
  <2> QED BY <2>1, <2>2, <1>1, <1>4 DEF TypeOK, Control
<1>8. FilesInv'
  <2> SUFFICES ASSUME NEW m \in Names
               PROVE  /\ wal[m].torn = 0
                      /\ ~wal[m].exists => wal[m].items = {}
                      /\ ~zst'[m].exists => zst'[m].items = {}
                      /\ wal[m].exists => m = maxName
                      /\ zst'[m].exists => m <= maxName
                      /\ wal[m].exists /\ zst'[m].exists =>
                           /\ zst'[m].items \subseteq wal[m].items
                           /\ \A it \in wal[m].items : Live(it) => it \in zst'[m].items
    BY <1>4, <1>6, Zenon DEF FilesInv
  <2>1. CASE m = a
    <3>1. zst'[m].exists /\ zst'[m].items = active.items /\ m <= maxName
      BY <2>1, <1>1, <1>3, Numbers
    <3> QED BY <3>1, <2>1, <1>1, Zenon DEF FilesInv
  <2>2. CASE m # a
    BY <2>2, <1>3, Zenon DEF FilesInv
  <2> QED BY <2>1, <2>2, Zenon
<1>9. ActiveInv'
  BY <1>1, <1>2, <1>3, <1>4, <1>6, Zenon DEF ActiveInv, Up
<1>10. OrderInv' /\ SeqInv' /\ DurableInv'
  <2>1. UNCHANGED <<nextSeq, wal, appends, accepted, confirmed, discarded>>
        /\ Up /\ Up'
    BY <1>1, <1>4 DEF Up
  <2>2. OrderInv'
    BY <1>5, Zenon DEF OrderInv
  <2>3. SeqInv'
    BY <2>1, <1>5, Zenon DEF SeqInv
  <2>4. DurableInv'
    BY <2>1, <1>5, Zenon DEF DurableInv
  <2> QED BY <2>2, <2>3, <2>4, Zenon
<1>11. SealedInv'
  <2>1. \A i \in DOMAIN sealed : sealed[i].name \in Names /\ sealed[i].name # a
    BY <1>1, SegmentOf DEF TypeOK, SealedInv, IndexOK, Up
  <2> QED BY <2>1, <1>1, <1>3, <1>4, <1>6 DEF SealedInv, IndexOK, Up
<1>12. KeptInv' /\ BatchInv'
  BY <1>1, <1>4, <1>5, <1>6 DEF KeptInv, BatchInv, Up
<1> QED BY <1>7, <1>8, <1>9, <1>10, <1>11, <1>12

\* A failed seal only closes the file.
LEMMA SealFailsStep == ASSUME IInv, SealFails PROVE IInv'
<1> USE DEF IInv, disk, history
<1>1. /\ pc \in {"seal", "unlink"} /\ pc' = "idle"
      /\ UNCHANGED <<disk, nextSeq, sealed, totalLen, call, batch, history>>
  BY DEF SealFails
<1>2. active' = [name |-> active.name, open |-> FALSE, items |-> active.items]
  BY Zenon DEF SealFails, TypeOK, ActiveSegment
<1>3. \A m \in Names : Here(m)' = Here(m)
  BY <1>1, <1>2 DEF Here
<1>4. TypeOK'
  <2>1. active' \in ActiveSegment
    BY <1>2 DEF TypeOK, ActiveSegment
  <2> QED BY <2>1, <1>1 DEF TypeOK, Control
<1>5. FilesInv' /\ OrderInv' /\ SeqInv' /\ DurableInv'
  BY <1>1, <1>3 DEF FilesInv, OrderInv, SeqInv, DurableInv, Live, Up
<1>6. ActiveInv'
  <2>1. active.name # 0
    BY <1>1 DEF ActiveInv
  <2> QED BY <2>1, <1>1, <1>2 DEF ActiveInv, Live, Up
<1>7. SealedInv'
  BY <1>1 DEF SealedInv, IndexOK, Live, Up
<1>8. KeptInv' /\ BatchInv'
  BY <1>1, <1>3 DEF KeptInv, BatchInv, Live, Up
<1> QED BY <1>4, <1>5, <1>6, <1>7, <1>8

\* seal then moves the segment from the active pointer to the index.
LEMMA SealUnlinkStep == ASSUME IInv, SealUnlink PROVE IInv'
<1> USE DEF IInv, history
<1> DEFINE a == active.name
           e == Meta(a, active.items)
<1>1. /\ pc = "unlink" /\ pc' = "idle" /\ a # 0 /\ a \in Names /\ a = maxName
      /\ zst[a] = [exists |-> TRUE, items |-> active.items]
      /\ \A it \in wal[a].items : Live(it) => it \in active.items
      /\ \A m \in Names : wal[m].exists => m = a
      /\ active.items \in SUBSET Item
      /\ active' = NilActive /\ sealed' = Append(sealed, e)
      /\ UNCHANGED <<zst, maxName, nextSeq, totalLen, call, batch, history>>
  BY DEF SealUnlink, ActiveInv, TypeOK, ActiveSegment, Names, Up
<1>2. \A m \in Names : wal'[m] = IF m = a THEN NoWal ELSE wal[m]
  BY <1>1 DEF SealUnlink, TypeOK
<1>3. \A m \in Names : ~wal'[m].exists /\ wal'[m].items = {} /\ wal'[m].torn = 0
  BY <1>1, <1>2 DEF NoWal, FilesInv
<1>4. \A x : Live(x)' <=> Live(x)
  BY <1>1 DEF Live
<1>5. ASSUME NEW m \in Names
      PROVE  /\ Here(m)' \subseteq Here(m)
             /\ \A x \in Here(m) : Live(x) => x \in Here(m)'
  BY <1>1, <1>2, <1>3, Numbers DEF Here, NilActive
<1>6. /\ e \in Segment /\ e.name = a
      /\ \A it \in active.items : it.seq <= e.maxSeq
  BY <1>1, MetaBounds
<1> HIDE DEF e
<1>7. /\ \A i, j \in DOMAIN sealed : i < j => sealed[i].name <= sealed[j].name
      /\ \A i \in DOMAIN sealed : sealed[i].name \in Names /\ sealed[i].name <= a
  BY <1>1, SegmentOf DEF SealedInv, IndexOK, TypeOK
<1>8. /\ sealed' \in Seq(Segment)
      /\ \A i, j \in DOMAIN sealed' : i < j => sealed'[i].name <= sealed'[j].name
      /\ \A i \in DOMAIN sealed' :
           sealed'[i] = e \/ (i \in DOMAIN sealed /\ sealed'[i] = sealed[i])
      /\ \E i \in DOMAIN sealed' : sealed'[i] = e
      /\ \A i \in DOMAIN sealed : i \in DOMAIN sealed' /\ sealed'[i] = sealed[i]
  BY <1>1, <1>6, <1>7, IndexAppend DEF TypeOK
<1>9. TypeOK'
  <2>1. wal' \in [Names -> WalFile]
    BY NilTypes, Zenon DEF SealUnlink, TypeOK
  <2> QED BY <2>1, <1>1, <1>8, NilTypes DEF TypeOK, Control
<1>10. FilesInv'
  BY <1>1, <1>3 DEF FilesInv
<1>11. ActiveInv'
  BY <1>1, <1>3 DEF ActiveInv, NilActive
<1>12. OrderInv'
  BY <1>5 DEF OrderInv
<1>13. SeqInv'
  BY <1>1, <1>5 DEF SeqInv, Up
<1>14. SealedInv'
  <2>1. IndexOK(sealed)'
    <3> SUFFICES ASSUME NEW i \in DOMAIN sealed'
                 PROVE  /\ sealed'[i].name <= maxName /\ ~wal'[sealed'[i].name].exists
                        /\ \A it \in zst[sealed'[i].name].items :
                             Live(it)' => it.seq <= sealed'[i].maxSeq
      BY <1>1, <1>8 DEF IndexOK
    <3>1. CASE sealed'[i] = e
      BY <3>1, <1>1, <1>3, <1>6, Numbers
    <3>2. CASE i \in DOMAIN sealed /\ sealed'[i] = sealed[i]
      BY <3>2, <1>1, <1>3, <1>4, <1>7 DEF SealedInv, IndexOK
    <3> QED BY <3>1, <3>2, <1>8
  <2>2. ASSUME NEW m \in Names, NEW it \in zst[m].items, Live(it)'
        PROVE  \E i \in DOMAIN sealed' : sealed'[i].name = m
    <3>1. CASE m = a
      BY <3>1, <1>6, <1>8
    <3>2. CASE m # a
      <4>1. PICK i \in DOMAIN sealed : sealed[i].name = m
        BY <3>2, <2>2, <1>1, <1>4, Zenon DEF SealedInv
      <4> QED BY <4>1, <1>8
    <3> QED BY <3>1, <3>2
  <2> QED BY <2>1, <2>2, <1>1 DEF SealedInv, Up
<1>15. KeptInv'
  BY <1>1 DEF KeptInv
<1>16. BatchInv'
  BY <1>1, <1>4, <1>5 DEF BatchInv, Up
<1>17. DurableInv'
  <2>1. UNCHANGED <<accepted, confirmed, discarded>>
    BY <1>1
  <2> QED BY <2>1, <1>5, Zenon DEF DurableInv, Live
<1> QED
  BY <1>9, <1>10, <1>11, <1>12, <1>13, <1>14, <1>15, <1>16, <1>17

-----------------------------------------------------------------------------
(* Open and recovery. *)

\* A listing of names is a sorted sequence that leaves none of them out.
LEMMA ListingCovers ==
  ASSUME NEW names \in SUBSET Names, NEW order \in Listing(names)
  PROVE  /\ Cardinality(names) \in Nat
         /\ order \in [1 .. Cardinality(names) -> names]
         /\ \A i, j \in DOMAIN order : i < j => order[i] < order[j]
         /\ \A n \in names : \E i \in DOMAIN order : order[i] = n
<1> DEFINE D == 1 .. Cardinality(names)
<1>1. IsFiniteSet(names) /\ Cardinality(names) \in Nat
  <2>1. 1 \in Int /\ MaxSegments \in Int
    BY BoundsAssumption
  <2>2. IsFiniteSet(1 .. MaxSegments)
    BY <2>1, FS_Interval
  <2> QED BY <2>2, FS_Subset, FS_CardinalityType, Zenon DEF Names
<1>2. /\ order \in [D -> names]
      /\ \A i, j \in DOMAIN order : i < j => order[i] < order[j]
  BY DEF Listing
<1>3. Cardinality(D) = Cardinality(names)
  <2>1. Cardinality(D) = IF 1 > Cardinality(names) THEN 0 ELSE Cardinality(names) - 1 + 1
    BY <1>1, FS_Interval
  <2> QED BY <2>1, <1>1
<1>4. order \in Injection(D, names)
  <2>1. ASSUME NEW i \in D, NEW j \in D, order[i] = order[j] PROVE i = j
    <3>1. i \in Nat /\ j \in Nat /\ order[i] \in Nat
      <4>1. order[i] \in 1 .. MaxSegments
        BY <1>2, Zenon DEF Names
      <4> QED BY <4>1, <1>1, BoundsAssumption
    <3>2. ~(i < j) /\ ~(j < i)
      BY <3>1, <2>1, <1>2
    <3> QED BY <3>1, <3>2
  <2> QED BY <2>1, <1>2 DEF Injection, IsInjective
<1>5. order \in Surjection(D, names)
  BY <1>1, <1>3, <1>4, FS_Injection
<1> QED BY <1>1, <1>2, <1>5 DEF Surjection

\* recover sets nextSeq to the greatest Seq of the sealed files.
LEMMA MaxSeqBounds ==
  ASSUME TypeOK, \A n \in Names : \A it \in zst[n].items : it.seq <= appends
  PROVE  /\ MaxSeqOnDisk \in 0 .. MaxAppends /\ MaxSeqOnDisk <= appends
         /\ \A n \in Names : \A it \in zst[n].items : it.seq <= MaxSeqOnDisk
<1> DEFINE S == {0} \cup (UNION {Seqs(zst[n].items) : n \in Names})
<1>1. \A n \in Names : \A it \in zst[n].items : it.seq \in Seqs(zst[n].items)
  BY DEF Seqs
<1>2. \A n \in Names : \A it \in zst[n].items : it.seq \in S
  BY <1>1
<1>3. ASSUME NEW x \in S PROVE x = 0 \/ \E n \in Names : \E it \in zst[n].items : it.seq = x
  BY Zenon DEF Seqs
<1>4. ASSUME NEW x \in S PROVE x \in Nat /\ x <= appends
  <2>1. ASSUME NEW n \in Names, NEW it \in zst[n].items
        PROVE  it.seq \in Nat /\ it.seq <= appends
    BY HereItems DEF Here
  <2> QED BY <1>3, <2>1, Numbers
<1>5. S \in SUBSET Nat /\ S # {} /\ \A x \in S : x <= appends
  <2>1. 0 \in S
    OBVIOUS
  <2> HIDE DEF S
  <2> QED BY <1>4, <2>1
<1>6. Max(S) \in S /\ \A x \in S : x <= Max(S)
  <2> HIDE DEF S
  <2> QED BY <1>5, MaxOfBounded, Numbers, Zenon
<1>7. MaxSeqOnDisk = Max(S)
  BY DEF MaxSeqOnDisk
<1> HIDE DEF S
<1>8. Max(S) \in Nat /\ Max(S) <= appends /\ appends \in 0 .. MaxAppends
  BY <1>5, <1>6, Zenon DEF TypeOK
<1>9. Max(S) \in 0 .. MaxAppends
  BY <1>8, Numbers
<1> QED BY <1>2, <1>6, <1>7, <1>8, <1>9

\* The index and the count recover makes of the sealed files.
LEMMA OpenIndex ==
  ASSUME TypeOK, Open
  PROVE  sealed' \in Seq(Segment) /\ totalLen' \in Int
<1>1. SealedNames \in SUBSET Names
  BY DEF SealedNames
<1>2. PICK order \in Listing(SealedNames) :
        sealed' = [i \in DOMAIN order |-> Meta(order[i], zst[order[i]].items)]
  BY DEF Open
<1>3. Cardinality(SealedNames) \in Nat /\ order \in [1 .. Cardinality(SealedNames) -> SealedNames]
  BY <1>1, ListingCovers
<1>4. \A n \in Names : zst[n].items \in SUBSET Item
  BY DEF TypeOK, ZstFile
<1>5. sealed' \in Seq(Segment)
  <2>1. ASSUME NEW i \in DOMAIN order PROVE Meta(order[i], zst[order[i]].items) \in Segment
    <3>1. order[i] \in Names
      BY <1>1, <1>3
    <3> QED BY <3>1, <1>4, MetaBounds
  <2>2. sealed' \in [1 .. Cardinality(SealedNames) -> Segment]
    BY <1>2, <1>3, <2>1
  <2> QED BY <2>2, <1>3
<1>6. totalLen' \in Int
  <2> DEFINE U == UNION {{n} \X zst[n].items : n \in SealedNames}
  <2>1. IsFiniteSet(Names \X Item)
    <3>1. 1 \in Int /\ MaxSegments \in Int
      BY BoundsAssumption
    <3>2. IsFiniteSet(Names)
      BY <3>1, FS_Interval DEF Names
    <3> QED BY <3>2, ItemFinite, FS_Product
  <2>2. ASSUME NEW u \in U PROVE u \in Names \X Item
    <3>1. PICK n \in SealedNames : u \in {n} \X zst[n].items
      BY Zenon
    <3>2. n \in Names /\ zst[n].items \in SUBSET Item
      BY <1>1, <1>4
    <3> QED BY <3>1, <3>2
  <2>3. totalLen' = Cardinality(U)
    BY DEF Open
  <2> HIDE DEF U
  <2>4. U \in SUBSET (Names \X Item)
    BY <2>2
  <2>5. Cardinality(U) \in Nat
    BY <2>1, <2>4, FS_Subset, FS_CardinalityType
  <2> QED BY <2>3, <2>5
<1> QED BY <1>5, <1>6

\* Recovery rebuilds an index covering every sealed file, in Seq order.
LEMMA OpenStep == ASSUME IInv, Open PROVE IInv'
<1> USE DEF IInv, disk, history
<1>1. /\ pc = "down" /\ pc' = "recover"
      /\ UNCHANGED <<wal, zst, maxName, active, call, batch, appends, accepted,
                     confirmed, discarded>>
      /\ nextSeq' = MaxSeqOnDisk
  BY DEF Open
<1>2. ~Up /\ ~Up' /\ active = NilActive /\ batch.stage = "none"
      /\ active.name = 0
  BY <1>1 DEF Up, ActiveInv, BatchInv, TypeOK, BatchState, NilActive
<1>3. \A x : Live(x)' <=> Live(x)
  BY <1>1 DEF Live
<1>4. \A n \in Names : Here(n)' = Here(n) /\ Here(n) = zst[n].items \cup wal[n].items
  BY <1>1, <1>2, Numbers DEF Here
<1>5. SealedNames \in SUBSET Names
  BY DEF SealedNames
<1>6. PICK order \in Listing(SealedNames) :
        sealed' = [i \in DOMAIN order |-> Meta(order[i], zst[order[i]].items)]
  BY DEF Open
<1>7. /\ Cardinality(SealedNames) \in Nat
      /\ order \in [1 .. Cardinality(SealedNames) -> SealedNames]
      /\ \A i, j \in DOMAIN order : i < j => order[i] < order[j]
      /\ \A n \in SealedNames : \E i \in DOMAIN order : order[i] = n
  BY <1>5, ListingCovers
<1>8. ASSUME NEW n \in Names
      PROVE  zst[n].items \in SUBSET Item /\ (zst[n].items # {} => n \in SealedNames)
             /\ (n \in SealedNames => n <= maxName)
  BY DEF TypeOK, ZstFile, FilesInv, SealedNames
<1>9. DOMAIN sealed' = DOMAIN order /\ DOMAIN order = 1 .. Cardinality(SealedNames)
  BY <1>6, <1>7
<1>10. ASSUME NEW i \in DOMAIN order
       PROVE  /\ order[i] \in SealedNames /\ order[i] \in Names
              /\ sealed'[i] = Meta(order[i], zst[order[i]].items)
              /\ sealed'[i] \in Segment /\ sealed'[i].name = order[i]
              /\ \A it \in zst[order[i]].items : it.seq <= sealed'[i].maxSeq
  <2>1. order[i] \in SealedNames /\ order[i] \in Names
    BY <1>5, <1>7
  <2>2. sealed'[i] = Meta(order[i], zst[order[i]].items)
    BY <1>6
  <2> QED BY <2>1, <2>2, <1>8, MetaBounds
<1>11. sealed' \in Seq(Segment) /\ totalLen' \in Int
  BY OpenIndex
<1>12. /\ MaxSeqOnDisk \in 0 .. MaxAppends /\ MaxSeqOnDisk <= appends
       /\ \A n \in Names : \A it \in zst[n].items : it.seq <= MaxSeqOnDisk
  <2>1. \A n \in Names : \A it \in zst[n].items : it.seq <= appends
    BY <1>4, Zenon DEF SeqInv
  <2> QED BY <2>1, MaxSeqBounds, Zenon
<1>14. TypeOK'
  BY <1>1, <1>11, <1>12, Zenon DEF TypeOK, Control
<1>15. FilesInv' /\ OrderInv' /\ DurableInv'
  <2>1. UNCHANGED <<wal, zst, maxName, accepted, confirmed, discarded>>
    BY <1>1
  <2>2. FilesInv'
    BY <2>1, <1>3, Zenon DEF FilesInv
  <2>3. OrderInv'
    BY <1>4, Zenon DEF OrderInv
  <2>4. DurableInv'
    BY <2>1, <1>4, Zenon DEF DurableInv
  <2> QED BY <2>2, <2>3, <2>4, Zenon
<1>16. ActiveInv'
  BY <1>1, <1>2, Zenon DEF ActiveInv, NilActive
<1>17. SeqInv'
  <2>1. \A n \in Names : ~wal[n].exists => wal[n].items = {}
    BY Zenon DEF FilesInv
  <2> QED BY <2>1, <1>1, <1>2, <1>4, <1>12, Zenon DEF SeqInv
<1>18. SealedInv'
  <2>1. ASSUME NEW i \in DOMAIN order, NEW j \in DOMAIN order, i < j
        PROVE  sealed'[i].name <= sealed'[j].name
    <3>1. order[i] < order[j] /\ order[i] \in Nat /\ order[j] \in Nat
      BY <2>1, <1>7, <1>10, Numbers, Zenon
    <3> QED BY <3>1, <1>10
  <2>2. IndexOK(sealed)'
    BY <2>1, <1>1, <1>2, <1>8, <1>9, <1>10, Zenon DEF IndexOK
  <2>3. ASSUME NEW n \in Names, NEW it \in zst[n].items
        PROVE  \E i \in DOMAIN sealed' : sealed'[i].name = n
    <3>1. n \in SealedNames
      BY <2>3, <1>8
    <3> QED BY <3>1, <1>7, <1>9, <1>10
  <2>4. \A i \in DOMAIN sealed' : zst[sealed'[i].name].exists
    BY <1>9, <1>10 DEF SealedNames
  <2> QED BY <2>2, <2>3, <2>4, <1>1, Zenon DEF SealedInv
<1>19. KeptInv' /\ BatchInv'
  BY <1>1, <1>2 DEF KeptInv, BatchInv
<1> QED BY <1>14, <1>15, <1>16, <1>17, <1>18, <1>19

\* Recovery has at most one orphan to seal, the newest name.
LEMMA OneOrphan ==
  ASSUME TypeOK, FilesInv, NEW m \in Names, wal[m].exists
  PROVE  Min(OrphanNames) = maxName /\ maxName = m /\ OrphanNames = {m}
<1>1. OrphanNames = {m} /\ m = maxName
  BY DEF FilesInv, OrphanNames
<1>2. OrphanNames \in SUBSET Nat /\ OrphanNames # {} /\ \A x \in OrphanNames : x <= maxName
  BY <1>1, Numbers
<1>3. Min(OrphanNames) \in OrphanNames
  BY <1>2, MinOfNaturals, Numbers, Zenon
<1> QED BY <1>1, <1>3

\* Copying an orphan to its sealed file moves no record to another name.
LEMMA SealOrphanStep == ASSUME IInv, SealOrphan PROVE IInv'
<1> USE DEF IInv, memory, history
<1>1. /\ pc = "recover" /\ pc' = "orphan" /\ OrphanNames # {}
      /\ UNCHANGED <<wal, maxName, nextSeq, active, sealed, totalLen, call, batch,
                     appends, accepted, confirmed, discarded>>
  BY DEF SealOrphan
<1>2. PICK n \in Names : wal[n].exists
  BY <1>1 DEF OrphanNames
<1>3. Min(OrphanNames) = n /\ maxName = n /\ \A m \in Names : wal[m].exists => m = n
  BY <1>2, OneOrphan DEF FilesInv
<1>4. Readable(wal[n]) = wal[n].items
  BY <1>2 DEF FilesInv, Readable
<1>5. zst' = [zst EXCEPT ![n] = [exists |-> TRUE, items |-> wal[n].items]]
  BY <1>3, <1>4 DEF SealOrphan
<1>6. /\ zst'[n] = [exists |-> TRUE, items |-> wal[n].items]
      /\ \A m \in Names : m # n => zst'[m] = zst[m]
  BY <1>2, <1>5, Zenon DEF TypeOK
<1>7. ~Up /\ ~Up' /\ active = NilActive /\ batch.stage = "none" /\ active.name = 0
  BY <1>1 DEF Up, ActiveInv, BatchInv, TypeOK, BatchState, NilActive
<1>8. \A x : Live(x)' <=> Live(x)
  BY <1>1 DEF Live
<1>9. zst[n].items \subseteq wal[n].items
  BY <1>2 DEF FilesInv
<1>10. \A m \in Names : Here(m)' = Here(m)
  BY <1>1, <1>6, <1>7, <1>9, Numbers DEF Here
<1>11. TypeOK'
  <2>1. [exists |-> TRUE, items |-> wal[n].items] \in ZstFile
    BY <1>2 DEF TypeOK, WalFile, ZstFile
  <2> QED BY <2>1, <1>1, <1>2, <1>5 DEF TypeOK, Control
<1>12. FilesInv'
  <2> SUFFICES ASSUME NEW m \in Names
               PROVE  /\ wal[m].torn = 0
                      /\ ~wal[m].exists => wal[m].items = {}
                      /\ ~zst'[m].exists => zst'[m].items = {}
                      /\ wal[m].exists => m = maxName
                      /\ zst'[m].exists => m <= maxName
                      /\ wal[m].exists /\ zst'[m].exists =>
                           /\ zst'[m].items \subseteq wal[m].items
                           /\ \A it \in wal[m].items : Live(it) => it \in zst'[m].items
    BY <1>1, <1>8 DEF FilesInv
  <2>1. CASE m = n
    <3>1. zst'[m].exists /\ zst'[m].items = wal[m].items /\ m <= maxName
      BY <2>1, <1>3, <1>6, Numbers
    <3> QED BY <3>1, <2>1, <1>3 DEF FilesInv
  <2>2. CASE m # n
    BY <2>2, <1>6, Zenon DEF FilesInv
  <2> QED BY <2>1, <2>2, Zenon
<1>13. ActiveInv'
  <2>1. maxName # 0
    BY <1>2, <1>3, Numbers
  <2> QED BY <2>1, <1>1, <1>2, <1>3, <1>6, <1>7 DEF ActiveInv, NilActive
<1>14. OrderInv' /\ DurableInv' /\ SeqInv'
  BY <1>1, <1>7, <1>10 DEF OrderInv, DurableInv, SeqInv
<1>15. SealedInv'
  <2>1. \A i \in DOMAIN sealed : sealed[i].name \in Names
    BY SegmentOf DEF TypeOK
  <2>2. ASSUME NEW i \in DOMAIN sealed, NEW it \in zst'[sealed[i].name].items, Live(it)
        PROVE  it \in zst[sealed[i].name].items
    <3>1. CASE sealed[i].name = n
      <4>1. it \in wal[n].items /\ zst[n].exists
        BY <3>1, <2>2, <1>6, <1>7 DEF SealedInv
      <4> QED BY <4>1, <3>1, <2>2, <1>2 DEF FilesInv
    <3>2. CASE sealed[i].name # n
      BY <3>2, <2>1, <2>2, <1>6, Zenon
    <3> QED BY <3>1, <3>2
  <2>3. IndexOK(sealed)'
    BY <2>1, <2>2, <1>1, <1>7, <1>8, Zenon DEF IndexOK, SealedInv
  <2>4. \A i \in DOMAIN sealed : zst'[sealed[i].name].exists
    BY <2>1, <1>6, <1>7 DEF SealedInv
  <2>5. ASSUME NEW m \in Names, NEW it \in zst'[m].items, Live(it)
        PROVE  wal[m].exists \/ \E i \in DOMAIN sealed : sealed[i].name = m
    BY <2>5, <1>1, <1>2, <1>6, Zenon DEF SealedInv
  <2> QED BY <2>3, <2>4, <2>5, <1>1, <1>8 DEF SealedInv
<1>16. KeptInv' /\ BatchInv'
  BY <1>1, <1>7, Zenon DEF KeptInv, BatchInv
<1> QED BY <1>11, <1>12, <1>13, <1>14, <1>15, <1>16

\* The effect of unlinking an orphan on the counters: nothing if its copy is
\* empty, else one more index entry.
LEMMA UnlinkOrphanEffect ==
  ASSUME IInv, UnlinkOrphan
  PROVE  /\ maxName \in Names /\ wal[maxName].exists
         /\ zst[maxName] = [exists |-> TRUE, items |-> wal[maxName].items]
         /\ wal' = [wal EXCEPT ![maxName] = NoWal]
         /\ totalLen' \in Int
         /\ nextSeq' \in Nat /\ nextSeq <= nextSeq' /\ nextSeq' <= appends
         /\ \A it \in zst[maxName].items : it.seq <= nextSeq'
         /\ \/ zst[maxName].items = {} /\ sealed' = sealed
            \/ sealed' = Append(sealed, Meta(maxName, zst[maxName].items))
<1> USE DEF IInv
<1> DEFINE n == maxName
           items == zst[n].items
           S == {nextSeq} \cup Seqs(items)
<1>1. /\ pc = "orphan" /\ n \in Names /\ wal[n].exists
      /\ zst[n] = [exists |-> TRUE, items |-> wal[n].items]
  <2>1. pc = "orphan"
    BY Zenon DEF UnlinkOrphan
  <2>2. n # 0 /\ wal[n].exists /\ zst[n] = [exists |-> TRUE, items |-> wal[n].items]
    BY <2>1, Zenon DEF ActiveInv
  <2>3. n \in 0 .. MaxSegments
    BY Zenon DEF TypeOK
  <2>4. n \in Names
    BY <2>2, <2>3, BoundsAssumption DEF Names
  <2> QED BY <2>1, <2>2, <2>4
<1>2. Min(OrphanNames) = n
  BY <1>1, OneOrphan, Zenon
<1>3. /\ wal' = [wal EXCEPT ![n] = NoWal]
      /\ IF items = {}
           THEN UNCHANGED memory
           ELSE /\ sealed' = Append(sealed, Meta(n, items))
                /\ totalLen' = totalLen + Cardinality(items)
                /\ nextSeq' = Max(S)
                /\ UNCHANGED active
  BY <1>2, Zenon DEF UnlinkOrphan
<1>4. items \in SUBSET Item /\ Cardinality(items) \in Nat /\ totalLen \in Int
  BY <1>1, ItemsFinite DEF TypeOK, ZstFile
<1>5. \A it \in items : it.seq \in S /\ it.seq \in Nat /\ it.seq <= appends
  <2>1. \A it \in items : it \in Here(n)
    BY DEF Here
  <2> QED BY <2>1, <1>1, HereItems DEF SeqInv, Seqs
<1>6. S \in SUBSET Nat /\ S # {} /\ nextSeq \in S /\ \A x \in S : x <= appends
  BY <1>5, Numbers DEF SeqInv, Seqs
<1> HIDE DEF S
<1>7. Max(S) \in S /\ \A x \in S : x <= Max(S)
  BY <1>6, MaxOfBounded, Numbers, Zenon
<1>8. CASE items = {}
  <2>1. UNCHANGED <<sealed, totalLen, nextSeq, active>>
    BY <1>3, <1>8 DEF memory
  <2>2. nextSeq \in Nat /\ nextSeq <= nextSeq /\ nextSeq <= appends
    BY Numbers DEF SeqInv
  <2> QED BY <2>1, <2>2, <1>1, <1>3, <1>4, <1>8, Zenon
<1>9. CASE items # {}
  <2>1. /\ sealed' = Append(sealed, Meta(n, items)) /\ nextSeq' = Max(S)
        /\ totalLen' = totalLen + Cardinality(items)
    BY <1>3, <1>9
  <2>2. /\ nextSeq' \in Nat /\ nextSeq <= nextSeq' /\ nextSeq' <= appends
        /\ \A it \in items : it.seq <= nextSeq'
    BY <2>1, <1>5, <1>6, <1>7, Zenon
  <2>3. totalLen' \in Int
    BY <2>1, <1>4
  <2> QED BY <2>1, <2>2, <2>3, <1>1, <1>3
<1> QED BY <1>8, <1>9, Zenon

\* Removing an orphan whose copy is written loses nothing.
LEMMA UnlinkOrphanStep == ASSUME IInv, UnlinkOrphan PROVE IInv'
<1> USE DEF IInv, history
<1> DEFINE n == maxName
           e == Meta(n, zst[n].items)
<1>1. /\ pc = "orphan" /\ pc' = "recover"
      /\ UNCHANGED <<zst, maxName, call, batch, appends, accepted, confirmed,
                     discarded>>
      /\ active' = active
  BY Zenon DEF UnlinkOrphan, memory
<1>2. /\ n \in Names /\ wal[n].exists
      /\ zst[n] = [exists |-> TRUE, items |-> wal[n].items]
      /\ wal' = [wal EXCEPT ![n] = NoWal]
      /\ totalLen' \in Int
      /\ nextSeq' \in Nat /\ nextSeq <= nextSeq' /\ nextSeq' <= appends
      /\ \A it \in zst[n].items : it.seq <= nextSeq'
      /\ \/ zst[n].items = {} /\ sealed' = sealed
         \/ sealed' = Append(sealed, e)
  BY UnlinkOrphanEffect
<1>3. \A m \in Names : wal'[m] = IF m = n THEN NoWal ELSE wal[m]
  BY <1>2, Zenon DEF TypeOK
<1>4. \A m \in Names : ~wal'[m].exists /\ wal'[m].items = {} /\ wal'[m].torn = 0
  <2>1. ~NoWal.exists /\ NoWal.items = {} /\ NoWal.torn = 0
    BY DEF NoWal
  <2>2. \A m \in Names : m # n => ~wal[m].exists /\ wal[m].items = {} /\ wal[m].torn = 0
    BY Zenon DEF FilesInv
  <2> QED BY <2>1, <2>2, <1>3, Zenon
<1>5. ~Up /\ ~Up' /\ active = NilActive /\ batch.stage = "none" /\ active.name = 0
  BY <1>1 DEF Up, ActiveInv, BatchInv, TypeOK, BatchState, NilActive
<1>6. \A x : Live(x)' <=> Live(x)
  BY <1>1, Zenon DEF Live
<1>7. ASSUME NEW m \in Names
      PROVE  Here(m)' = Here(m) /\ Here(m)' = zst[m].items
  <2>1. m # n => wal[m].items = {}
    BY <1>2, Zenon DEF FilesInv
  <2>2. zst[n].items = wal[n].items
    BY <1>2
  <2>3. wal'[m].items = {} /\ zst'[m] = zst[m] /\ active' = active /\ m # 0
        /\ active.name = 0
    BY <1>1, <1>4, <1>5, Numbers
  <2>4. Here(m)' = zst[m].items
    BY <2>3, Zenon DEF Here
  <2>5. Here(m) = zst[m].items
    BY <2>1, <2>2, <2>3, Zenon DEF Here
  <2> QED BY <2>4, <2>5, Zenon
<1>8. zst[n].items \in SUBSET Item
  BY <1>2, Zenon DEF TypeOK, ZstFile
<1>9. /\ e \in Segment /\ e.name = n
      /\ \A it \in zst[n].items : it.seq <= e.maxSeq
  BY <1>2, <1>8, MetaBounds, Zenon
<1> HIDE DEF e
<1>10. /\ \A i, j \in DOMAIN sealed : i < j => sealed[i].name <= sealed[j].name
       /\ \A i \in DOMAIN sealed : sealed[i].name \in Names /\ sealed[i].name <= n
  BY SegmentOf, Zenon DEF SealedInv, IndexOK, TypeOK
<1>11. /\ sealed' \in Seq(Segment)
       /\ \A i, j \in DOMAIN sealed' : i < j => sealed'[i].name <= sealed'[j].name
       /\ \A i \in DOMAIN sealed' :
            sealed'[i] = e \/ (i \in DOMAIN sealed /\ sealed'[i] = sealed[i])
       /\ zst[n].items = {} \/ \E i \in DOMAIN sealed' : sealed'[i] = e
       /\ \A i \in DOMAIN sealed : i \in DOMAIN sealed' /\ sealed'[i] = sealed[i]
  <2>1. CASE sealed' = sealed /\ zst[n].items = {}
    BY <2>1, <1>10, Zenon DEF TypeOK
  <2>2. CASE sealed' = Append(sealed, e)
    BY <2>2, <1>9, <1>10, IndexAppend DEF TypeOK
  <2> QED BY <2>1, <2>2, <1>2, Zenon
<1>12. TypeOK'
  <2>1. wal' \in [Names -> WalFile]
    BY <1>2, NilTypes, Zenon DEF TypeOK
  <2>2. nextSeq' \in 0 .. MaxAppends
    BY <1>2, Numbers DEF TypeOK
  <2> QED BY <2>1, <2>2, <1>1, <1>2, <1>11, Zenon DEF TypeOK, Control
<1>13. FilesInv'
  BY <1>1, <1>4, Zenon DEF FilesInv
<1>14. ActiveInv'
  BY <1>1, <1>5 DEF ActiveInv, NilActive
<1>15. OrderInv' /\ DurableInv'
  BY <1>1, <1>7 DEF OrderInv, DurableInv
<1>16. SeqInv'
  <2> SUFFICES ASSUME NEW m \in Names, NEW it \in Here(m) PROVE it.seq <= nextSeq'
    BY <1>1, <1>2, <1>7, Zenon DEF SeqInv
  <2>1. CASE m = n
    BY <2>1, <1>2, <1>7, Zenon
  <2>2. CASE m # n
    <3>1. it.seq <= nextSeq /\ it.seq \in Nat
      BY <2>2, <1>1, <1>2, HereItems, Zenon DEF SeqInv, FilesInv
    <3> QED BY <3>1, <1>2, Numbers
  <2> QED BY <2>1, <2>2, Zenon
<1>17. SealedInv'
  <2>1. ASSUME NEW i \in DOMAIN sealed'
        PROVE  /\ sealed'[i].name <= maxName
               /\ zst[sealed'[i].name].exists
               /\ \A it \in zst[sealed'[i].name].items :
                    Live(it) => it.seq <= sealed'[i].maxSeq
    <3>1. CASE sealed'[i] = e
      BY <3>1, <1>2, <1>9, Numbers
    <3>2. CASE i \in DOMAIN sealed /\ sealed'[i] = sealed[i]
      BY <3>2, <1>5, Zenon DEF SealedInv, IndexOK
    <3> QED BY <3>1, <3>2, <1>11
  <2>2. IndexOK(sealed)'
    BY <2>1, <1>1, <1>5, <1>6, <1>11 DEF IndexOK
  <2>3. ASSUME NEW m \in Names, NEW it \in zst[m].items, Live(it)
        PROVE  \E i \in DOMAIN sealed' : sealed'[i].name = m
    <3>1. CASE m = n
      BY <3>1, <2>3, <1>9, <1>11, Zenon
    <3>2. CASE m # n
      <4>1. ~wal[m].exists /\ pc # "down"
        BY <3>2, <1>1, Zenon DEF FilesInv
      <4>2. \E i \in DOMAIN sealed : sealed[i].name = m
        BY <4>1, <2>3, Zenon DEF SealedInv
      <4> QED BY <4>2, <1>11
    <3> QED BY <3>1, <3>2
  <2> QED BY <2>1, <2>2, <2>3, <1>1, <1>6, Zenon DEF SealedInv
<1>18. KeptInv' /\ BatchInv'
  BY <1>1, <1>5 DEF KeptInv, BatchInv
<1> QED BY <1>12, <1>13, <1>14, <1>15, <1>16, <1>17, <1>18, Zenon

=============================================================================
