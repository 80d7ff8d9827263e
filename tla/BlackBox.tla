------------------------------ MODULE BlackBox ------------------------------
(***************************************************************************)
(* internal/blackbox: the recorder, a memory-mapped ring of fixed-size     *)
(* samples behind a header, and Dump, which reads the file afterwards.     *)
(*                                                                         *)
(* The file exists twice: as the kernel's page cache, which outlives the   *)
(* process, and on the disk, which outlives a power loss.  Until msync the *)
(* kernel writes pages back when and in which order it likes; a sample may *)
(* span two pages, so that a slot is a pair of halves.  Sample n is the    *)
(* n-th a Record began with, and 0 the content of a preallocated slot.     *)
(* Record fills a slot and then counts it in the header: whoever reads the *)
(* file, or kills the recorder, may do so between any two of these copies. *)
(***************************************************************************)
EXTENDS Naturals, Sequences, FiniteSetsExt, Functions

CONSTANTS
  Capacities,       \* the capacities the recorder is opened with
  MaxRecorded,      \* bound on the samples recorded
  MaxBoxFaults      \* bound on process ends, power losses and failed syncs

VARIABLES
  cache,        \* the file as processes see it
  disk,         \* the file as the disk has it
  running,      \* Run is under way
  record,       \* how far Record is: "none", "half" or all of a "slot"
  recorded,     \* samples Record began with so far
  lost,         \* those of them that a kill kept from being counted
  synced,       \* samples a successful Sync covered, not overwritten since
  orderly,      \* no power loss so far
  boxFaults

boxVars == <<cache, disk, running, record, recorded, lost, synced, orderly, boxFaults>>

\* Rings have at least one slot, and there is a widest one.
ASSUME BoxAssumption ==
  Max(Capacities) \in Nat /\ \A c \in Capacities : c \in 1 .. Max(Capacities)

\* The slots of the widest ring.
Slots == 0 .. Max(Capacities) - 1

\* The header of newHeader and writeHeaderLocked: capacity and WriteIndex.  A
\* header that decodeHeader rejects has capacity 0.
NoHeader == [capacity |-> 0, index |-> 0]

Preallocated == [header |-> NoHeader, slots |-> [s \in Slots |-> <<0, 0>>]]

BoxInit ==
  /\ cache = Preallocated
  /\ disk = Preallocated
  /\ running = FALSE
  /\ record = "none"
  /\ recorded = 0
  /\ lost = {}
  /\ synced = {}
  /\ orderly = TRUE
  /\ boxFaults = 0

BoxFault == boxFaults < MaxBoxFaults /\ boxFaults' = boxFaults + 1

\* decodeHeader, and the layout check of prepareFile.
Matches(file, capacity) == file.header.capacity = capacity

\* prepareFile: a file with this capacity is resumed, any other is truncated
\* to nothing and preallocated, for writeHeaderLocked to start afresh.
prepareFile(file, capacity) ==
  IF Matches(file, capacity) THEN file
  ELSE [Preallocated EXCEPT !.header.capacity = capacity]

\* The disk may have seen a truncation or not.
Open(capacity) ==
  /\ ~running
  /\ running' = TRUE
  /\ cache' = prepareFile(cache, capacity)
  /\ IF Matches(cache, capacity)
       THEN UNCHANGED <<disk, synced>>
       ELSE disk' \in {disk, Preallocated} /\ synced' = {}
  /\ UNCHANGED <<record, recorded, lost, orderly, boxFaults>>

\* Record copies a sample into the mapping, over the oldest of a full ring:
\* the first half,
CopySample ==
  LET slot == cache.header.index % cache.header.capacity
  IN  /\ running /\ record = "none"
      /\ recorded < MaxRecorded
      /\ record' = "half"
      /\ recorded' = recorded + 1
      /\ cache' = [cache EXCEPT !.slots[slot][1] = recorded + 1]
      /\ synced' = synced \ {cache.slots[slot][1]}
      /\ UNCHANGED <<disk, running, lost, orderly, boxFaults>>

\* and the rest of it.
CopyRest ==
  LET slot == cache.header.index % cache.header.capacity
  IN  /\ running /\ record = "half"
      /\ record' = "slot"
      /\ cache' = [cache EXCEPT !.slots[slot][2] = recorded]
      /\ UNCHANGED <<disk, running, recorded, lost, synced, orderly, boxFaults>>

\* writeHeaderLocked: the header counts the sample.
writeHeaderLocked ==
  /\ running /\ record = "slot"
  /\ record' = "none"
  /\ cache' = [cache EXCEPT !.header.index = @ + 1]
  /\ UNCHANGED <<disk, running, recorded, lost, synced, orderly, boxFaults>>

Record == CopySample \/ CopyRest \/ writeHeaderLocked

\* The kernel writes one page back.
WriteBackHeader ==
  /\ disk.header # cache.header
  /\ disk' = [disk EXCEPT !.header = cache.header]
  /\ UNCHANGED <<cache, running, record, recorded, lost, synced, orderly, boxFaults>>

WriteBackHalf(slot, half) ==
  /\ disk.slots[slot][half] # cache.slots[slot][half]
  /\ disk' = [disk EXCEPT !.slots[slot][half] = cache.slots[slot][half]]
  /\ UNCHANGED <<cache, running, record, recorded, lost, synced, orderly, boxFaults>>

\* Dump of a file: the slots written, from the oldest on.
Dump(file) ==
  LET capacity == file.header.capacity
      index == file.header.index
      written == IF index > capacity THEN capacity ELSE index
      first == IF index > capacity THEN index % capacity ELSE 0
  IN  [i \in 1 .. written |-> file.slots[(first + i - 1) % capacity]]

\* The samples of a dump that are whole.
WholeSamples(file) == {r[1] : r \in {h \in Range(Dump(file)) : h[1] = h[2]}} \ {0}

\* msync is asked to start the writing and not to wait for it.
SyncAsync ==
  /\ running /\ record = "none"
  /\ synced' = WholeSamples(cache)
  /\ UNCHANGED <<cache, disk, running, record, recorded, lost, orderly, boxFaults>>

\* Sync, on the ticker of Run: every page is on the disk when it returns.
Sync ==
  /\ running /\ record = "none"
  /\ disk' = cache
  /\ synced' = WholeSamples(cache)
  /\ UNCHANGED <<cache, running, record, recorded, lost, orderly, boxFaults>>

\* A Sync that fails: Run reports it and goes on, and what was written back
\* is anyone's guess.
SyncFails ==
  /\ running /\ record = "none"
  /\ BoxFault
  /\ UNCHANGED <<cache, disk, running, record, recorded, lost, synced, orderly>>

\* The loop of Run.
Run == Record \/ Sync \/ SyncFails

\* Run is stopped and Close syncs and unmaps.
CloseRecorder ==
  /\ running /\ record = "none"
  /\ BoxFault
  /\ running' = FALSE
  /\ disk' = cache
  /\ synced' = WholeSamples(cache)
  /\ UNCHANGED <<cache, record, recorded, lost, orderly>>

\* The Record under way, if there is one, is cut short.
CutRecord ==
  /\ record' = "none"
  /\ lost' = IF record = "none" THEN lost ELSE lost \cup {recorded}

\* The agent is killed: the page cache stays.
KillRecorder ==
  /\ running
  /\ BoxFault
  /\ running' = FALSE
  /\ CutRecord
  /\ UNCHANGED <<cache, disk, recorded, synced, orderly>>

\* The host loses power.
PowerLoss ==
  /\ BoxFault
  /\ running' = FALSE
  /\ CutRecord
  /\ cache' = disk
  /\ orderly' = FALSE
  /\ UNCHANGED <<disk, recorded, synced>>

BoxNext ==
  \/ \E c \in Capacities : Open(c)
  \/ Run
  \/ WriteBackHeader
  \/ \E s \in Slots, h \in 1 .. 2 : WriteBackHalf(s, h)
  \/ CloseRecorder
  \/ KillRecorder
  \/ PowerLoss

BoxSpec == BoxInit /\ [][BoxNext]_boxVars

-----------------------------------------------------------------------------
BoxTypeOK ==
  /\ recorded \in 0 .. MaxRecorded
  /\ record \in {"none", "half", "slot"}
  /\ lost \subseteq 1 .. recorded
  /\ \A f \in {cache, disk} :
       /\ f.header.capacity \in Capacities \cup {0}
       /\ f.header.index \in 0 .. MaxRecorded
       /\ \A s \in Slots, h \in 1 .. 2 : f.slots[s][h] \in 0 .. recorded
  /\ running => cache.header.capacity # 0

\* Record has begun to overwrite the oldest sample of a full ring, and does not
\* count the new one yet, or was killed before it did.
Spoilt ==
  /\ record # "none" \/ recorded \in lost
  /\ cache.header.index >= cache.header.capacity

\* What a Sync covered and nothing has overwritten is in the dump of whatever a
\* power loss leaves on the disk, header, slots and halves of slots being
\* written back in any order; and as long as there was none, a dump taken while
\* the recorder runs or after it was killed, at whatever point of a Record, is
\* the last samples recorded, each whole, oldest first and with none missing
\* but those a kill cut short, from its second place on where a Record has
\* spoilt the first and from the first otherwise.
SyncedSurvives ==
  /\ synced \subseteq WholeSamples(disk)
  /\ orderly /\ cache.header.capacity # 0 =>
       LET dump == Dump(cache)
           first == IF Spoilt THEN 2 ELSE 1
           Following(i) == IF i < Len(dump) THEN dump[i + 1][1]
                      ELSE IF record = "none" THEN recorded + 1 ELSE recorded
       IN  \A i \in first .. Len(dump) :
             /\ dump[i][1] = dump[i][2]
             /\ dump[i][1] \in 1 .. Following(i) - 1
             /\ dump[i][1] + 1 .. Following(i) - 1 \subseteq lost
=============================================================================
