--------------------------- MODULE AgentHostProofs ---------------------------
(***************************************************************************)
(* Theorems about the components of the agent's host, for every value of   *)
(* their constants.                                                        *)
(***************************************************************************)
EXTENDS AgentFiles, Journald, JobRun, BlackBox, TLAPS

-----------------------------------------------------------------------------
(* The small files. *)

Contents == {"empty", "written", "synced", "torn"}
Replacements ==
  [path : FileNames \cup {"none"}, at : {"idle", "created", "written", "synced"}, inode : Nat]

\* The files, by their kinds.
FilesTypes ==
  /\ inode \in Seq(Contents)
  /\ name \in [FileNames -> Nat]
  /\ durable \in [FileNames -> Nat]
  /\ hostID \in [Processes -> Nat]
  /\ writer \in [Processes -> Replacements]
  /\ contended \in BOOLEAN
  /\ powerLost \in BOOLEAN

\* A process that replaces a file has an inode of its own, which holds what it
\* has done to it so far.
WritersInv ==
  /\ \A w \in Processes : writer[w].at = "idle" <=> writer[w].path = "none"
  /\ \A w \in Processes : writer[w].at # "idle" =>
       /\ writer[w].inode \in 1 .. Len(inode)
       /\ inode[writer[w].inode] = IF writer[w].at = "created" THEN "empty" ELSE writer[w].at
  /\ \A v, w \in Processes :
       v # w /\ writer[v].at # "idle" /\ writer[w].at # "idle" =>
         writer[v].inode # writer[w].inode

\* Only synced inodes have a name, in memory and on the disk.
NamesInv ==
  \A p \in FileNames :
    /\ name[p] # 0 => name[p] \in 1 .. Len(inode) /\ inode[name[p]] = "synced"
    /\ durable[p] # 0 => durable[p] \in 1 .. Len(inode) /\ inode[durable[p]] = "synced"

\* While a host_id is being created there is none, and one process creates it.
IdentityInv ==
  ~contended /\ ~powerLost =>
    /\ \A w \in Processes : hostID[w] # 0 => hostID[w] = name["host_id"]
    /\ \A w \in Processes : writer[w].path = "host_id" => name["host_id"] = 0
    /\ \A v, w \in Processes :
         writer[v].path = "host_id" /\ writer[w].path = "host_id" => v = w

FilesInv == FilesTypes /\ WritersInv /\ NamesInv /\ IdentityInv

\* A new temporary file, of any path and whatever it does to contended.
LEMMA NewTempStep ==
  ASSUME FilesInv, NEW w \in Processes, NEW path \in FileNames, path # "none",
         writer[w].at = "idle", inode' = Append(inode, "empty"),
         writer' = [writer EXCEPT ![w] =
                      [path |-> path, at |-> "created", inode |-> Len(inode) + 1]],
         UNCHANGED <<name, durable>>
  PROVE  /\ inode' \in Seq(Contents) /\ writer' \in [Processes -> Replacements]
         /\ WritersInv' /\ NamesInv'
<1>1. inode \in Seq(Contents) /\ "empty" \in Contents /\ Len(inode) \in Nat
  BY DEF FilesInv, FilesTypes, Contents
<1>2. /\ inode' \in Seq(Contents)
      /\ Len(inode') = Len(inode) + 1
      /\ inode'[Len(inode) + 1] = "empty"
      /\ \A i \in 1 .. Len(inode) : inode'[i] = inode[i]
  BY <1>1
<1>3. [path |-> path, at |-> "created", inode |-> Len(inode) + 1] \in Replacements
  <2>1. Len(inode) + 1 \in Nat
    BY <1>1
  <2> QED
    BY <2>1, Zenon DEF Replacements
<1>4. /\ writer \in [Processes -> Replacements]
      /\ writer' \in [Processes -> Replacements]
  BY <1>3 DEF FilesInv, FilesTypes
<1>5. /\ writer'[w].at = "created"
      /\ writer'[w].path = path
      /\ writer'[w].inode = Len(inode) + 1
      /\ \A v \in Processes \ {w} : writer'[v] = writer[v]
  BY <1>4
<1>6. WritersInv'
  BY <1>1, <1>2, <1>5 DEF FilesInv, WritersInv
<1>7. NamesInv'
  BY <1>1, <1>2 DEF FilesInv, NamesInv
<1> QED
  BY <1>2, <1>4, <1>6, <1>7

LEMMA CreateTempStep ==
  ASSUME FilesInv, NEW w \in Processes, NEW path \in FileNames \ {"none", "host_id"},
         CreateTemp(w, path)
  PROVE  FilesInv'
<1>1. /\ inode' \in Seq(Contents) /\ writer' \in [Processes -> Replacements]
      /\ WritersInv' /\ NamesInv'
  BY NewTempStep, Zenon DEF CreateTemp
<1>2. FilesTypes'
  BY <1>1 DEF FilesInv, FilesTypes, CreateTemp
<1>3. \A v \in Processes : writer'[v].path = "host_id" => writer[v].path = "host_id"
  BY DEF CreateTemp, FilesInv, FilesTypes
<1>4. IdentityInv'
  BY <1>3, Zenon DEF FilesInv, IdentityInv, CreateTemp
<1> QED
  BY <1>1, <1>2, <1>4 DEF FilesInv

\* A process that finds no host_id begins one.
LEMMA CreateHostIDStep ==
  ASSUME FilesInv, NEW w \in Processes, CreateHostID(w)
  PROVE  FilesInv'
<1> USE DEF CreateHostID, NewHostID
<1>1. /\ inode' \in Seq(Contents) /\ writer' \in [Processes -> Replacements]
      /\ WritersInv' /\ NamesInv'
  BY NewTempStep, FilesAssumption, Zenon
<1>2. FilesTypes'
  BY <1>1 DEF FilesInv, FilesTypes
<1>3. \A v \in Processes \ {w} : writer'[v] = writer[v]
  BY DEF FilesInv, FilesTypes
<1>4. ASSUME ~contended', ~powerLost'
      PROVE  /\ ~contended /\ ~powerLost
             /\ \A v \in Processes : writer[v].path # "host_id"
  BY <1>4, Zenon
<1>5. IdentityInv'
  BY <1>3, <1>4 DEF FilesInv, IdentityInv
<1> QED
  BY <1>1, <1>2, <1>5 DEF FilesInv

\* WriteTemp and SyncTemp: the inode and the process move on together.
LEMMA FillStep ==
  ASSUME FilesInv, NEW w \in Processes, WriteTemp(w) \/ SyncTemp(w)
  PROVE  FilesInv'
<1> DEFINE n == writer[w].inode
           to == IF writer[w].at = "created" THEN "written" ELSE "synced"
<1>1. /\ writer[w].at \in {"created", "written"}
      /\ inode' = [inode EXCEPT ![n] = to]
      /\ writer' = [writer EXCEPT ![w].at = to]
      /\ UNCHANGED <<name, durable, hostID, contended, powerLost>>
  BY DEF WriteTemp, SyncTemp
<1>2. /\ inode \in Seq(Contents) /\ writer \in [Processes -> Replacements]
      /\ to \in Contents /\ to \in {"written", "synced"}
      /\ n \in 1 .. Len(inode)
      /\ inode[n] \in {"empty", "written"}
  BY <1>1 DEF FilesInv, FilesTypes, WritersInv, Contents
<1> HIDE DEF to, n
<1>3. /\ inode' \in Seq(Contents)
      /\ Len(inode') = Len(inode)
      /\ inode'[n] = to
      /\ \A i \in 1 .. Len(inode) : i # n => inode'[i] = inode[i]
  BY <1>1, <1>2
<1>4. writer[w] \in Replacements
  BY <1>2
<1>5. [writer[w] EXCEPT !.at = to] \in Replacements
  BY <1>2, <1>4, Zenon DEF Replacements
<1>6. writer' \in [Processes -> Replacements]
  BY <1>1, <1>2, <1>5
<1>7. /\ writer'[w].at = to
      /\ writer'[w].path = writer[w].path
      /\ writer'[w].inode = n
      /\ \A v \in Processes \ {w} : writer'[v] = writer[v]
  BY <1>1, <1>2, <1>4 DEF n, Replacements
<1>8. FilesTypes'
  BY <1>1, <1>3, <1>6 DEF FilesInv, FilesTypes
<1>9. WritersInv'
  BY <1>1, <1>2, <1>3, <1>7 DEF FilesInv, WritersInv, n
<1>10. NamesInv'
  BY <1>1, <1>2, <1>3 DEF FilesInv, NamesInv
<1>11. IdentityInv'
  BY <1>1, <1>7 DEF FilesInv, IdentityInv
<1> QED
  BY <1>8, <1>9, <1>10, <1>11 DEF FilesInv

\* RenameTemp puts a synced inode in place of the name.
LEMMA RenameStep ==
  ASSUME FilesInv, NEW w \in Processes, RenameTemp(w)
  PROVE  FilesInv'
<1> DEFINE n == writer[w].inode
           path == writer[w].path
<1>1. /\ writer \in [Processes -> Replacements]
      /\ Idle \in Replacements
      /\ n \in 1 .. Len(inode)
      /\ inode[n] = "synced"
      /\ path \in FileNames
  BY FilesAssumption, Zenon DEF FilesInv, FilesTypes, WritersInv, Replacements, Idle, RenameTemp
<1>2. /\ writer' \in [Processes -> Replacements]
      /\ writer'[w] = Idle
      /\ \A v \in Processes \ {w} : writer'[v] = writer[v]
  BY <1>1 DEF RenameTemp
<1>3. /\ Idle.at = "idle"
      /\ Idle.path = "none"
  BY DEF Idle
<1>4. /\ name' \in [FileNames -> Nat]
      /\ name'[path] = n
      /\ \A p \in FileNames \ {path} : name'[p] = name[p]
  BY <1>1 DEF FilesInv, FilesTypes, RenameTemp
<1>5. /\ hostID' \in [Processes -> Nat]
      /\ path = "host_id" => hostID'[w] = n
      /\ path # "host_id" => hostID' = hostID
      /\ \A v \in Processes \ {w} : hostID'[v] = hostID[v]
  BY <1>1 DEF FilesInv, FilesTypes, RenameTemp
<1>6. UNCHANGED <<durable, inode, contended, powerLost>>
  BY DEF RenameTemp
<1> HIDE DEF n
<1>7. FilesTypes'
  BY <1>2, <1>4, <1>5, <1>6 DEF FilesInv, FilesTypes
<1>8. WritersInv'
  BY <1>2, <1>3, <1>6 DEF FilesInv, WritersInv
<1>9. NamesInv'
  BY <1>1, <1>4, <1>6 DEF FilesInv, NamesInv
<1>10. IdentityInv'
  <2>1. "host_id" \in FileNames
    BY FilesAssumption
  <2>2. CASE path = "host_id"
    BY <1>2, <1>3, <1>4, <1>5, <1>6, <2>1, <2>2 DEF FilesInv, IdentityInv
  <2>3. CASE path # "host_id"
    BY <1>2, <1>3, <1>4, <1>5, <1>6, <2>1, <2>3 DEF FilesInv, IdentityInv
  <2> QED
    BY <2>2, <2>3
<1> QED
  BY <1>7, <1>8, <1>9, <1>10 DEF FilesInv

\* A process that starts uses the host_id it finds.
LEMMA LoadHostIDStep ==
  ASSUME FilesInv, NEW w \in Processes, LoadHostID(w)
  PROVE  FilesInv'
<1>1. /\ hostID' \in [Processes -> Nat]
      /\ hostID'[w] = name["host_id"]
      /\ \A v \in Processes \ {w} : hostID'[v] = hostID[v]
  BY FilesAssumption DEF FilesInv, FilesTypes, LoadHostID
<1>2. FilesTypes' /\ WritersInv' /\ NamesInv'
  BY <1>1 DEF FilesInv, FilesTypes, WritersInv, NamesInv, LoadHostID
<1>3. IdentityInv'
  BY <1>1 DEF FilesInv, IdentityInv, LoadHostID
<1> QED
  BY <1>2, <1>3 DEF FilesInv

\* A replacement that fails, or whose process dies, is forgotten.
LEMMA StopStep ==
  ASSUME FilesInv, NEW w \in Processes, ReplaceFails(w) \/ KillProcess(w)
  PROVE  FilesInv'
<1>1. /\ writer' = [writer EXCEPT ![w] = Idle]
      /\ hostID' = hostID \/ hostID' = [hostID EXCEPT ![w] = 0]
      /\ UNCHANGED <<name, durable, inode, contended, powerLost>>
  BY DEF ReplaceFails, KillProcess
<1>2. /\ Idle \in Replacements
      /\ Idle.at = "idle"
      /\ Idle.path = "none"
  BY DEF Idle, Replacements
<1>3. /\ writer' \in [Processes -> Replacements]
      /\ writer'[w] = Idle
      /\ \A v \in Processes \ {w} : writer'[v] = writer[v]
  BY <1>1, <1>2 DEF FilesInv, FilesTypes
<1>4. /\ hostID' \in [Processes -> Nat]
      /\ \A v \in Processes : hostID'[v] # 0 => hostID'[v] = hostID[v]
  BY <1>1 DEF FilesInv, FilesTypes
<1>5. FilesTypes'
  BY <1>1, <1>3, <1>4 DEF FilesInv, FilesTypes
<1>6. WritersInv'
  BY <1>1, <1>2, <1>3 DEF FilesInv, WritersInv
<1>7. NamesInv'
  BY <1>1 DEF FilesInv, NamesInv
<1>8. IdentityInv'
  BY <1>1, <1>2, <1>3, <1>4 DEF FilesInv, IdentityInv
<1> QED
  BY <1>5, <1>6, <1>7, <1>8 DEF FilesInv

\* The disk gets a name that processes see already.
LEMMA WriteBackStep ==
  ASSUME FilesInv, NEW path \in FileNames, WriteBackName(path)
  PROVE  FilesInv'
<1>1. /\ durable' \in [FileNames -> Nat]
      /\ \A p \in FileNames : durable'[p] \in {durable[p], name[p]}
  BY DEF FilesInv, FilesTypes, WriteBackName
<1>2. FilesTypes' /\ WritersInv' /\ IdentityInv'
  BY <1>1 DEF FilesInv, FilesTypes, WritersInv, IdentityInv, WriteBackName
<1>3. NamesInv'
  BY <1>1 DEF FilesInv, NamesInv, WriteBackName
<1> QED
  BY <1>2, <1>3 DEF FilesInv

\* A power loss leaves the names of the disk, and tears nothing that is synced.
LEMMA LosePowerStep ==
  ASSUME FilesInv, NEW torn \in SUBSET (1 .. Len(inode)), LosePower(torn)
  PROVE  FilesInv'
<1>1. /\ inode' = [i \in 1 .. Len(inode) |-> IF i \in torn THEN "torn" ELSE inode[i]]
      /\ \A i \in torn : inode[i] # "synced"
      /\ name' = durable /\ durable' = durable
      /\ writer' = [w \in Processes |-> Idle]
      /\ hostID' = [w \in Processes |-> 0]
      /\ powerLost' = TRUE /\ contended' = contended
  BY DEF LosePower
<1>2. inode \in Seq(Contents) /\ "torn" \in Contents
  BY DEF FilesInv, FilesTypes, Contents
<1>3. /\ inode' \in Seq(Contents)
      /\ Len(inode') = Len(inode)
      /\ \A i \in 1 .. Len(inode) : inode[i] = "synced" => inode'[i] = "synced"
  BY <1>1, <1>2
<1>4. /\ Idle \in Replacements
      /\ Idle.at = "idle"
      /\ Idle.path = "none"
  BY DEF Idle, Replacements
<1>5. FilesTypes'
  BY <1>1, <1>3, <1>4 DEF FilesInv, FilesTypes
<1>6. WritersInv'
  BY <1>1, <1>4 DEF WritersInv
<1>7. NamesInv'
  BY <1>1, <1>3 DEF FilesInv, NamesInv
<1>8. IdentityInv'
  BY <1>1 DEF IdentityInv
<1> QED
  BY <1>5, <1>6, <1>7, <1>8 DEF FilesInv

LEMMA FilesStep == FilesInv /\ [FilesNext]_fileVars => FilesInv'
<1> SUFFICES ASSUME FilesInv, [FilesNext]_fileVars PROVE FilesInv'
  OBVIOUS
<1> USE FilesAssumption
<1>1. ASSUME NEW w \in Processes, WriteAtomic(w) PROVE FilesInv'
  BY <1>1, CreateTempStep, FillStep, RenameStep DEF WriteAtomic
<1>2. ASSUME NEW w \in Processes, persistCursor(w) PROVE FilesInv'
  BY <1>2, CreateTempStep, FillStep, RenameStep DEF persistCursor
<1>3. ASSUME NEW w \in Processes, persistHostID(w) PROVE FilesInv'
  BY <1>3, FillStep, RenameStep DEF persistHostID
<1>4. CASE UNCHANGED fileVars
  BY <1>4 DEF fileVars, FilesInv, FilesTypes, WritersInv, NamesInv, IdentityInv
<1> QED
  BY <1>1, <1>2, <1>3, <1>4, CreateHostIDStep, LoadHostIDStep, StopStep, WriteBackStep,
     LosePowerStep DEF FilesNext

LEMMA FilesStart == FilesInit => FilesInv
<1> SUFFICES ASSUME FilesInit PROVE FilesInv
  OBVIOUS
<1>1. /\ Idle \in Replacements
      /\ Idle.at = "idle"
      /\ Idle.path = "none"
  BY DEF Idle, Replacements
<1>2. FilesTypes
  <2>1. inode \in Seq(Contents)
    BY DEF FilesInit
  <2>2. contended \in BOOLEAN /\ powerLost \in BOOLEAN
    BY Zenon DEF FilesInit
  <2>3. /\ name \in [FileNames -> Nat] /\ durable \in [FileNames -> Nat]
        /\ hostID \in [Processes -> Nat] /\ writer \in [Processes -> Replacements]
    BY <1>1 DEF FilesInit
  <2> QED
    BY <2>1, <2>2, <2>3, Zenon DEF FilesTypes
<1>3. WritersInv /\ NamesInv /\ IdentityInv
  BY <1>1 DEF FilesInit, WritersInv, NamesInv, IdentityInv
<1> QED
  BY <1>2, <1>3 DEF FilesInv

LEMMA FilesInvariance == FilesSpec => []FilesInv
BY FilesStart, FilesStep, PTL DEF FilesSpec

\* Whoever reads a spool entry, the host_id or the journal cursor reads all of
\* it, whatever number of processes replace them, fail and die at whichever
\* step, and whatever a power loss tears (WriteAtomic, persistHostID,
\* persistCursor).
THEOREM FilesAreWhole == FilesSpec => []WholeFilesOnly
<1>1. FilesInv => WholeFilesOnly
  BY DEF FilesInv, NamesInv, WholeFilesOnly, ReadDir
<1> QED
  BY <1>1, FilesInvariance, PTL

\* The processes of a host work with one host_id as long as no two of them
\* created it at once and the host kept its power (LoadOrCreateHostID).
THEOREM OneIdentity == FilesSpec => []IdentityIsShared
<1>1. FilesInv => IdentityIsShared
  BY DEF FilesInv, IdentityInv, IdentityIsShared
<1> QED
  BY <1>1, FilesInvariance, PTL

-----------------------------------------------------------------------------
(* The journald collector. *)

CollectCalls ==
  [at : {"none", "read", "persist"}, lines : SUBSET Nat, last : Nat,
   ctx : {"live", "done", "seen"}]

JournalTypes ==
  /\ written \in Nat /\ position \in Nat /\ diskCursor \in Nat
  /\ collects \in [Calls -> CollectCalls]
  /\ emitted \subseteq Nat /\ skipped \subseteq Nat /\ dropped \subseteq Nat

\* The reader is ahead of every cursor; a Collect hands its lines over before
\* its cursor.
CursorsInv ==
  /\ position <= written
  /\ diskCursor <= position /\ memCursor = diskCursor
  /\ \A k \in Calls :
       /\ collects[k].last <= position
       /\ collects[k].at = "none" => collects[k].lines = {}
       /\ collects[k].at = "persist" => collects[k].lines \subseteq emitted

\* What the reader has passed over is somewhere.
PassedInv ==
  \A i \in 1 .. position :
    i \in emitted \/ i \in skipped \/ i \in dropped \/ \E k \in Calls : i \in collects[k].lines

\* As long as no Collect was cut short one runs at a time, and everything up to
\* the reader is with the sink or with it, or was skipped at a start.
UncutInv ==
  ~cut =>
    /\ \A j, k \in Calls : collects[j].at # "none" /\ collects[k].at # "none" => j = k
    /\ \A k \in Calls : collects[k].at # "none" => collects[k].ctx = "live"
    /\ \A i \in 1 .. position :
         i \in emitted \/ i \in skipped \/ \E k \in Calls : i \in collects[k].lines
    /\ \A i \in 1 .. diskCursor : i \in emitted \/ i \in skipped

JournalInv == JournalTypes /\ CursorsInv /\ PassedInv /\ UncutInv

LEMMA NoCollectFields ==
  /\ NoCollect \in CollectCalls
  /\ NoCollect.at = "none" /\ NoCollect.lines = {} /\ NoCollect.last = 0
  /\ NoCollect.ctx = "live"
BY DEF NoCollect, CollectCalls

\* A new call starts from the cursor, when no other that is waited for runs.
LEMMA StartCollectStep ==
  ASSUME JournalInv, NEW k \in Calls, StartCollect(k)
  PROVE  JournalInv'
<1> DEFINE c == [NoCollect EXCEPT !.at = "read", !.last = memCursor]
<1>1. memCursor \in Nat
  BY DEF JournalInv, JournalTypes, CursorsInv
<1>2. NoCollect \in CollectCalls
  BY NoCollectFields
<1>3. c \in CollectCalls
  BY <1>1, <1>2, Zenon DEF CollectCalls
<1>4. c.at = "read" /\ c.lines = {} /\ c.last = memCursor /\ c.ctx = "live"
  BY <1>2, NoCollectFields DEF CollectCalls
<1> HIDE DEF c
<1>5. /\ collects' \in [Calls -> CollectCalls]
      /\ collects'[k] = c
      /\ \A j \in Calls \ {k} : collects'[j] = collects[j]
  BY <1>3 DEF StartCollect, JournalInv, JournalTypes, c
<1>6. /\ UNCHANGED <<written, position, memCursor, diskCursor, emitted, skipped, dropped, cut>>
      /\ collects[k].at = "none"
      /\ \A j \in Calls : collects[j].at # "none" => collects[j].ctx # "live"
  BY DEF StartCollect
<1>7. collects[k].lines = {}
  BY <1>6 DEF JournalInv, CursorsInv
<1>8. JournalTypes'
  BY <1>5, <1>6 DEF JournalInv, JournalTypes
<1>9. CursorsInv'
  BY <1>1, <1>4, <1>5, <1>6 DEF JournalInv, JournalTypes, CursorsInv
<1>10. PassedInv'
  BY <1>5, <1>6, <1>7 DEF JournalInv, PassedInv
<1>11. UncutInv'
  BY <1>4, <1>5, <1>6, <1>7 DEF JournalInv, UncutInv
<1> QED
  BY <1>8, <1>9, <1>10, <1>11 DEF JournalInv

\* The reader's next entry goes to the call that asked.
LEMMA ReadEntryStep ==
  ASSUME JournalInv, NEW k \in Calls, ReadEntry(k)
  PROVE  JournalInv'
<1> DEFINE c == collects[k]
           ctx == IF c.ctx = "live" THEN "live" ELSE "seen"
<1>1. /\ position < written /\ position' = position + 1
      /\ c.at = "read"
      /\ UNCHANGED <<written, memCursor, diskCursor, emitted, skipped, dropped, cut>>
  BY DEF ReadEntry, NextEntry
<1>2. c \in CollectCalls /\ position + 1 \in Nat /\ ctx \in {"live", "done", "seen"}
  BY DEF JournalInv, JournalTypes
<1>3. /\ collects' \in [Calls -> CollectCalls]
      /\ collects'[k].at = "read"
      /\ collects'[k].lines = c.lines \cup {position + 1}
      /\ collects'[k].last = position + 1
      /\ collects'[k].ctx = ctx
      /\ \A j \in Calls \ {k} : collects'[j] = collects[j]
  <2> DEFINE c1 == [c EXCEPT !.lines = c.lines \cup {position + 1}]
             c2 == [c1 EXCEPT !.last = position + 1]
             c3 == [c2 EXCEPT !.ctx = ctx]
  <2>1. c1 \in CollectCalls
    <3>1. c.lines \cup {position + 1} \in SUBSET Nat
      BY <1>2 DEF CollectCalls
    <3> QED
      BY <1>2, <3>1, Zenon DEF CollectCalls
  <2>2. c3 \in CollectCalls
    <3> HIDE DEF c1, ctx
    <3>1. c2 \in CollectCalls
      BY <1>2, <2>1, Zenon DEF CollectCalls
    <3> HIDE DEF c2
    <3> QED
      BY <1>2, <3>1, Zenon DEF CollectCalls
  <2>3. /\ c3.at = "read" /\ c3.lines = c.lines \cup {position + 1}
        /\ c3.last = position + 1 /\ c3.ctx = ctx
    BY <1>1, <1>2 DEF CollectCalls
  <2>4. collects' = [collects EXCEPT ![k] = c3]
    BY <1>2, Zenon DEF ReadEntry, JournalInv, JournalTypes, CollectCalls
  <2> HIDE DEF c3
  <2> QED
    BY <2>2, <2>3, <2>4 DEF JournalInv, JournalTypes
<1> HIDE DEF c, ctx
<1>4. JournalTypes'
  BY <1>1, <1>2, <1>3 DEF JournalInv, JournalTypes
<1>5. CursorsInv'
  BY <1>1, <1>3 DEF JournalInv, JournalTypes, CursorsInv, CollectCalls
<1>6. \A i \in 1 .. position + 1 : i \in 1 .. position \/ i = position + 1
  BY DEF JournalInv, JournalTypes
<1>7. PassedInv'
  BY <1>1, <1>3, <1>6 DEF JournalInv, PassedInv, c
<1>8. UncutInv'
  BY <1>1, <1>3, <1>6 DEF JournalInv, UncutInv, c, ctx
<1> QED
  BY <1>4, <1>5, <1>7, <1>8 DEF JournalInv

\* The lines of a call go to the sink.
LEMMA EmitLinesStep ==
  ASSUME JournalInv, NEW k \in Calls, EmitLines(k)
  PROVE  JournalInv'
<1> DEFINE c == collects[k]
<1>1. /\ c.at = "read"
      /\ emitted' = emitted \cup c.lines
      /\ UNCHANGED <<written, position, memCursor, diskCursor, skipped, dropped, cut>>
  BY DEF EmitLines
<1>2. c \in CollectCalls
  BY DEF JournalInv, JournalTypes
<1>3. [c EXCEPT !.at = "persist"] \in CollectCalls
  BY <1>2, Zenon DEF CollectCalls
<1>4. /\ collects' \in [Calls -> CollectCalls]
      /\ collects'[k].at = "persist"
      /\ collects'[k].lines = c.lines
      /\ collects'[k].last = c.last
      /\ collects'[k].ctx = c.ctx
      /\ \A j \in Calls \ {k} : collects'[j] = collects[j]
  BY <1>2, <1>3 DEF EmitLines, JournalInv, JournalTypes, CollectCalls
<1> HIDE DEF c
<1>5. JournalTypes'
  BY <1>1, <1>2, <1>4, Zenon DEF JournalInv, JournalTypes, CollectCalls
<1>6. CursorsInv'
  BY <1>1, <1>4 DEF JournalInv, CursorsInv, c
<1>7. PassedInv'
  BY <1>1, <1>4 DEF JournalInv, PassedInv, c
<1>8. UncutInv'
  BY <1>1, <1>4 DEF JournalInv, UncutInv, c
<1> QED
  BY <1>5, <1>6, <1>7, <1>8 DEF JournalInv

\* A call returns after its lines were handed over, and the cursor moves to its
\* last entry or stays.
LEMMA ReturnStep ==
  ASSUME JournalInv, NEW k \in Calls, PersistCursor(k) \/ PersistFails(k)
  PROVE  JournalInv'
<1> DEFINE c == collects[k]
<1>1. /\ c.at = "persist"
      /\ \/ diskCursor' = c.last /\ memCursor' = c.last
         \/ UNCHANGED <<diskCursor, memCursor>>
      /\ collects' = [collects EXCEPT ![k] = NoCollect]
      /\ UNCHANGED <<written, position, emitted, skipped, dropped, cut>>
  BY DEF PersistCursor, PersistFails
<1>2. /\ collects' \in [Calls -> CollectCalls]
      /\ collects'[k] = NoCollect
      /\ \A j \in Calls \ {k} : collects'[j] = collects[j]
  BY <1>1, NoCollectFields DEF JournalInv, JournalTypes
<1>3. c.lines \subseteq emitted /\ c.last <= position /\ c.last \in Nat
  BY <1>1 DEF JournalInv, JournalTypes, CursorsInv, CollectCalls
<1>4. JournalTypes'
  BY <1>1, <1>2, <1>3 DEF JournalInv, JournalTypes
<1>5. CursorsInv'
  BY <1>1, <1>2, <1>3, NoCollectFields DEF JournalInv, JournalTypes, CursorsInv
<1>6. PassedInv'
  BY <1>1, <1>2, <1>3, NoCollectFields DEF JournalInv, PassedInv
<1>7. UncutInv'
  <2> SUFFICES ASSUME ~cut'
               PROVE UncutInv'
    BY Zenon DEF UncutInv
  <2>1. ~cut
    BY <1>1
  <2>2. \A j \in Calls \ {k} : collects[j].at = "none" /\ collects[j].lines = {}
    BY <1>1, <2>1 DEF JournalInv, UncutInv, CursorsInv
  <2>3. \A i \in 1 .. position : i \in emitted \/ i \in skipped
    BY <1>3, <2>1, <2>2 DEF JournalInv, UncutInv
  <2>4. \A i \in 1 .. diskCursor' : i \in 1 .. position
    BY <1>1, <1>3 DEF JournalInv, JournalTypes, CursorsInv
  <2> QED
    BY <1>1, <1>2, <2>2, <2>3, <2>4, NoCollectFields DEF UncutInv
<1> QED
  BY <1>4, <1>5, <1>6, <1>7 DEF JournalInv

\* A call is cut short: its timeout, or its return without the lines it holds.
LEMMA CutStep ==
  ASSUME JournalInv, NEW k \in Calls, Abandon(k) \/ ReadStops(k) \/ EntryFails(k)
  PROVE  JournalInv'
<1> DEFINE c == collects[k]
<1>1. CASE Abandon(k)
  <2>1. c \in CollectCalls
    BY DEF JournalInv, JournalTypes
  <2>2. [c EXCEPT !.ctx = "done"] \in CollectCalls
    BY <2>1, Zenon DEF CollectCalls
  <2>3. /\ collects' \in [Calls -> CollectCalls]
        /\ \A j \in Calls : /\ collects'[j].at = collects[j].at
                            /\ collects'[j].lines = collects[j].lines
                            /\ collects'[j].last = collects[j].last
    BY <1>1, <2>1, <2>2 DEF Abandon, JournalInv, JournalTypes, CollectCalls
  <2>4. /\ UNCHANGED <<written, position, memCursor, diskCursor, emitted, skipped, dropped>>
        /\ cut'
    BY <1>1 DEF Abandon
  <2> QED
    BY <2>3, <2>4 DEF JournalInv, JournalTypes, CursorsInv, PassedInv, UncutInv
<1>2. CASE ReadStops(k) \/ EntryFails(k)
  <2>1. /\ collects' \in [Calls -> CollectCalls]
        /\ collects'[k] = NoCollect
        /\ \A j \in Calls \ {k} : collects'[j] = collects[j]
    BY <1>2, NoCollectFields DEF ReadStops, EntryFails, JournalInv, JournalTypes
  <2>2. /\ UNCHANGED <<written, memCursor, diskCursor, emitted, skipped>>
        /\ cut'
        /\ \/ position' = position /\ dropped' = dropped \cup c.lines
           \/ /\ position < written /\ position' = position + 1
              /\ dropped' = dropped \cup c.lines \cup {position + 1}
    BY <1>2, Zenon DEF ReadStops, EntryFails, NextEntry
  <2>3. c.lines \subseteq Nat /\ position \in Nat /\ written \in Nat
    BY DEF JournalInv, JournalTypes, CollectCalls
  <2> HIDE DEF c
  <2>4. JournalTypes'
    <3>1. position' \in Nat /\ position + 1 \in Nat
      BY <2>2, <2>3
    <3>2. dropped \subseteq Nat
      BY DEF JournalInv, JournalTypes
    <3>3. dropped' \subseteq Nat
      BY <2>2, <2>3, <3>1, <3>2, Zenon
    <3> QED
      BY <2>1, <2>2, <3>1, <3>3, Zenon DEF JournalInv, JournalTypes
  <2>5. CursorsInv'
    <3>1. /\ position <= position' /\ position' <= written /\ position' \in Nat
          /\ diskCursor \in Nat /\ diskCursor <= position'
      BY <2>2, <2>3 DEF JournalInv, JournalTypes, CursorsInv
    <3>2. \A j \in Calls : collects[j].last \in Nat /\ collects[j].last <= position'
      BY <2>3, <3>1 DEF JournalInv, JournalTypes, CursorsInv, CollectCalls
    <3> QED
      BY <2>1, <2>2, <3>1, <3>2, NoCollectFields DEF JournalInv, CursorsInv
  <2>6. PassedInv'
    <3>1. \A i \in 1 .. position' : i \in 1 .. position \/ i \in dropped'
      BY <2>2, <2>3
    <3>2. dropped \subseteq dropped' /\ c.lines \subseteq dropped'
      BY <2>2, Zenon
    <3> QED
      BY <2>1, <2>2, <3>1, <3>2, Zenon DEF JournalInv, PassedInv, c
  <2>7. UncutInv'
    BY <2>2 DEF UncutInv
  <2> QED
    BY <2>4, <2>5, <2>6, <2>7 DEF JournalInv
<1> QED
  BY <1>1, <1>2

\* A new start reads on behind the persisted cursor, or from the tail.
LEMMA RestartJournalStep ==
  ASSUME JournalInv, RestartJournal
  PROVE  JournalInv'
<1>1. /\ dropped' = dropped \cup UNION {collects[k].lines \cap 1 .. diskCursor : k \in Calls}
      /\ memCursor' = diskCursor
      /\ diskCursor = 0 => /\ position' = written
                          /\ skipped' = skipped \cup (1 .. written \ emitted)
      /\ diskCursor # 0 => position' = diskCursor /\ skipped' = skipped
      /\ collects' = [k \in Calls |-> NoCollect]
      /\ UNCHANGED <<written, diskCursor, emitted, cut>>
  BY DEF RestartJournal, OpenAt
<1>2. \A k \in Calls : collects'[k] = NoCollect
  BY <1>1
<1>3. JournalTypes'
  <2>1. dropped' \subseteq Nat
    BY <1>1, Zenon DEF JournalInv, JournalTypes, CollectCalls
  <2>2. position' \in Nat
    BY <1>1 DEF JournalInv, JournalTypes
  <2>3. skipped \subseteq Nat /\ 1 .. written \subseteq Nat
    BY DEF JournalInv, JournalTypes
  <2>4. skipped' \subseteq Nat
    BY <1>1, <2>3, Zenon
  <2> QED
    BY <1>1, <2>1, <2>2, <2>4, NoCollectFields, Zenon DEF JournalInv, JournalTypes
<1>4. CursorsInv'
  BY <1>1, <1>2, NoCollectFields DEF JournalInv, JournalTypes, CursorsInv
<1>5. skipped \subseteq skipped' /\ emitted' = emitted /\ dropped \subseteq dropped'
  <2>1. skipped \subseteq skipped'
    BY <1>1
  <2> QED
    BY <1>1, <2>1, Zenon
<1>6. CASE diskCursor = 0
  <2>1. \A i \in 1 .. position' : i \in emitted' \/ i \in skipped'
    BY <1>1, <1>6
  <2>2. \A i \in 1 .. diskCursor' : FALSE
    BY <1>1, <1>6
  <2>3. PassedInv' /\ UncutInv'
    BY <1>2, <2>1, <2>2, NoCollectFields DEF PassedInv, UncutInv
  <2> QED
    BY <1>3, <1>4, <2>3 DEF JournalInv
<1>7. CASE diskCursor # 0
  <2>1. position' = diskCursor /\ \A i \in 1 .. diskCursor : i \in 1 .. position
    BY <1>1, <1>7 DEF JournalInv, JournalTypes, CursorsInv
  <2>2. PassedInv'
    <3> SUFFICES ASSUME NEW i \in 1 .. position'
                 PROVE  i \in emitted' \/ i \in skipped' \/ i \in dropped'
      BY Zenon DEF PassedInv
    <3>1. i \in emitted \/ i \in skipped \/ i \in dropped \/ \E k \in Calls : i \in collects[k].lines
      BY <2>1, Zenon DEF JournalInv, PassedInv
    <3>2. ASSUME NEW k \in Calls, i \in collects[k].lines
          PROVE  i \in dropped'
      <4>1. i \in collects[k].lines \cap 1 .. diskCursor
        BY <2>1, <3>2
      <4> QED
        BY <1>1, <4>1, Zenon
    <3> QED
      BY <1>5, <3>1, <3>2, Zenon
  <2>3. UncutInv'
    <3>1. ~cut => \A i \in 1 .. diskCursor : i \in emitted \/ i \in skipped
      BY DEF JournalInv, UncutInv
    <3> QED
      BY <1>1, <1>2, <1>5, <2>1, <3>1, NoCollectFields DEF UncutInv
  <2> QED
    BY <1>3, <1>4, <2>2, <2>3 DEF JournalInv
<1> QED
  BY <1>6, <1>7

LEMMA JournalStep == JournalInv /\ [JournalNext]_journalVars => JournalInv'
<1> SUFFICES ASSUME JournalInv, [JournalNext]_journalVars PROVE JournalInv'
  OBVIOUS
<1>1. CASE WriteEntry
  <2>1. /\ written' = written + 1
        /\ UNCHANGED <<position, memCursor, diskCursor, collects, emitted, skipped, dropped, cut>>
    BY <1>1 DEF WriteEntry
  <2>2. JournalTypes' /\ CursorsInv'
    BY <2>1 DEF JournalInv, JournalTypes, CursorsInv
  <2>3. PassedInv' /\ UncutInv'
    BY <2>1, Zenon DEF JournalInv, PassedInv, UncutInv
  <2> QED BY <2>2, <2>3 DEF JournalInv
<1>2. CASE UNCHANGED journalVars
  BY <1>2 DEF journalVars, JournalInv, JournalTypes, CursorsInv, PassedInv, UncutInv
<1> QED
  BY <1>1, <1>2, StartCollectStep, ReadEntryStep, EmitLinesStep, ReturnStep, CutStep,
     RestartJournalStep DEF JournalNext

LEMMA JournalStart == JournalInit => JournalInv
<1> SUFFICES ASSUME JournalInit PROVE JournalInv
  OBVIOUS
<1>1. JournalTypes
  BY NoCollectFields DEF JournalInit, JournalTypes
<1>2. CursorsInv /\ PassedInv /\ UncutInv
  BY NoCollectFields DEF JournalInit, CursorsInv, PassedInv, UncutInv
<1> QED
  BY <1>1, <1>2 DEF JournalInv

\* The journald cursor passes over no entry that is not with the sink, with a
\* Collect under way, dropped by one cut short or skipped by a restart that found
\* no cursor; and as long as none was cut short everything behind the cursor is
\* with the sink or was skipped so, through crashes and failures to save it, for
\* any number of concurrent Collect calls.
THEOREM CursorIsHonest == JournalSpec => []LostOnlyWhenCutShort
<1>1. JournalInv => LostOnlyWhenCutShort
  <2> SUFFICES ASSUME JournalInv PROVE LostOnlyWhenCutShort
    OBVIOUS
  <2>1. \A i \in 1 .. diskCursor : i \in 1 .. position
    BY DEF JournalInv, JournalTypes, CursorsInv
  <2>2. \A i \in 1 .. diskCursor :
          i \in emitted \cup skipped \cup dropped \cup UNION {collects[k].lines : k \in Calls}
    BY <2>1, Zenon DEF JournalInv, PassedInv
  <2>3. ~cut => \A i \in 1 .. diskCursor : i \in emitted \cup skipped
    BY DEF JournalInv, UncutInv
  <2> QED
    BY <2>2, <2>3, Zenon DEF LostOnlyWhenCutShort
<1> QED
  BY <1>1, JournalStart, JournalStep, PTL DEF JournalSpec

-----------------------------------------------------------------------------
(* bitacora-run. *)

\* How a command can have ended: with a code, or by a signal.
Endings == {e \in [alive : {FALSE}, code : Int, signal : Nat] :
              IF e.signal = 0 THEN e.code \in 0 .. 255 ELSE e.code = -1}

\* What bitacora-run exits with, once it is decided.
ExitDecided ==
  /\ copied => exit = CommandsExit
  /\ ~timedOut => (job.status \in {"success", "warning"} <=> exit = 0)

JobInv ==
  /\ child = Alive \/ child \in Endings
  /\ timedOut \in BOOLEAN
  /\ phase = "start" => job = NoJob
  /\ phase = "instrument" => ~child.alive /\ ExitDecided
  /\ phase = "over" => job = NoJob \/ (~child.alive /\ ExitDecided)

LEMMA JobEndings ==
  /\ Alive.alive /\ \A e \in Endings : ~e.alive
  /\ Ending(-1, SIGKILL) \in Endings
  /\ Ending(-1, SIGTERM) \in Endings
  /\ \A code \in Codes : Ending(code, 0) \in Endings
<1>1. Alive.alive /\ \A e \in Endings : ~e.alive
  BY Zenon DEF Alive, Endings
<1>2. ASSUME NEW code \in Int, NEW signal \in Nat,
             IF signal = 0 THEN code \in 0 .. 255 ELSE code = -1
      PROVE  Ending(code, signal) \in Endings
  <2>1. Ending(code, signal) \in [alive : {FALSE}, code : Int, signal : Nat]
    BY Zenon DEF Ending
  <2>2. Ending(code, signal).code = code /\ Ending(code, signal).signal = signal
    BY DEF Ending
  <2> QED
    BY <1>2, <2>1, <2>2, Zenon DEF Endings
<1> QED
  BY <1>1, <1>2, JobAssumption

\* buildJob decides the exit code by how the command ended and what became of
\* its output.
LEMMA BuildJobStep ==
  ASSUME JobInv, NEW out, NEW err, NEW all \in BOOLEAN, buildJob(out, err, all)
  PROVE  ExitDecided'
<1> DEFINE code == applyExitState(all)
           errors == For(out, err)
<1>1. /\ child \in Endings
      /\ child' = child /\ timedOut' = timedOut /\ copied' = all
      /\ exit' = exitCodeFor(code)
      /\ job'.status = statusFor(code, errors)
  BY JobEndings DEF buildJob, JobInv
<1>2. /\ child.signal \in Nat /\ child.code \in Int
      /\ child.signal = 0 => child.code \in 0 .. 255
  BY <1>1 DEF Endings
<1>3. \/ code = child.code
      \/ ~all /\ code = -1 /\ child.signal = 0
  BY DEF applyExitState
<1> HIDE DEF code, errors
<1>4. ~timedOut =>
        (statusFor(code, errors) \in {"success", "warning"} <=> child.signal = 0 /\ code = 0)
  BY DEF statusFor
<1>5. CASE child.signal # 0
  <2>1. exit' = 128 + child.signal /\ exit' # 0
    BY <1>1, <1>2, <1>5 DEF exitCodeFor
  <2> QED
    BY <1>1, <1>2, <1>4, <1>5, <2>1 DEF ExitDecided, CommandsExit
<1>6. CASE child.signal = 0
  <2>1. exit' = (256 + code) % 256
    BY <1>1, <1>6 DEF exitCodeFor
  <2>2. CASE code = child.code
    <3>1. exit' = child.code
      BY <1>2, <1>6, <2>1, <2>2
    <3> QED
      BY <1>1, <1>2, <1>4, <1>6, <2>2, <3>1 DEF ExitDecided, CommandsExit
  <2>3. CASE ~all /\ code = -1
    <3>1. exit' = 255
      BY <2>1, <2>3
    <3> QED
      BY <1>1, <1>4, <2>3, <3>1 DEF ExitDecided
  <2> QED
    BY <1>3, <2>2, <2>3
<1> QED
  BY <1>5, <1>6

LEMMA JobStep == JobInv /\ [JobNext]_jobVars => JobInv'
<1> SUFFICES ASSUME JobInv, [JobNext]_jobVars PROVE JobInv'
  OBVIOUS
<1>1. CASE UsageError \/ StartFails
  BY <1>1, Zenon DEF UsageError, StartFails, JobInv
<1>2. CASE Starts
  BY <1>2 DEF Starts, StartCommand, JobInv
<1>3. ASSUME NEW end \in Endings, CommandEnds(end) \/ TermTakes(end)
      PROVE  JobInv'
  BY <1>3, JobEndings DEF CommandEnds, TermTakes, JobInv
<1>4. ASSUME NEW late \in BOOLEAN, Terminate(late) PROVE JobInv'
  BY <1>4 DEF Terminate, JobInv
<1>5. CASE terminateGracefully
  BY <1>5, JobEndings DEF terminateGracefully, JobInv
<1>6. ASSUME NEW out \in Streams, NEW err \in Streams, NEW all \in BOOLEAN,
             buildJob(out, err, all)
      PROVE  JobInv'
  BY <1>6, BuildJobStep, Zenon DEF buildJob, JobInv
<1>7. ASSUME NEW agent, NEW spooled, instrument(agent, spooled) PROVE JobInv'
  BY <1>7 DEF instrument, JobInv, ExitDecided, CommandsExit
<1>8. CASE UNCHANGED jobVars
  BY <1>8 DEF jobVars, JobInv, ExitDecided, CommandsExit
<1> QED
  BY <1>1, <1>2, <1>3, <1>4, <1>5, <1>6, <1>7, <1>8, JobEndings, Zenon DEF JobNext

\* A command whose output could be passed on has its own exit code propagated by
\* bitacora-run (exitCodeFor), 128 and the signal when one ended it, for whatever
\* commands, output, timeouts and signals; and the Job agrees with the exit.
THEOREM ExitCode == JobSpec => []ExitIsTheCommands
<1>1. JobInit => JobInv
  <2> SUFFICES ASSUME JobInit PROVE JobInv
    OBVIOUS
  <2>1. phase = "start" /\ child = Alive /\ timedOut \in BOOLEAN /\ job = NoJob
    BY Zenon DEF JobInit
  <2> QED
    BY <2>1 DEF JobInv
<1>2. JobInv => ExitIsTheCommands
  BY DEF JobInv, ExitDecided, ExitIsTheCommands
<1> QED
  BY <1>1, <1>2, JobStep, PTL DEF JobSpec

-----------------------------------------------------------------------------
(* The black box. *)

LEMMA DivMod ==
  ASSUME NEW c \in Nat \ {0}, NEW x \in Nat
  PROVE  /\ x \div c \in Nat
         /\ x % c \in 0 .. c - 1
         /\ x = c * (x \div c) + (x % c)
OBVIOUS

LEMMA ModSmall ==
  ASSUME NEW c \in Nat \ {0}, NEW x \in 0 .. c - 1
  PROVE  x % c = x
OBVIOUS

LEMMA ModUnique ==
  ASSUME NEW c \in Nat \ {0}, NEW q \in Nat, NEW r \in 0 .. c - 1
  PROVE  (c * q + r) % c = r
OBVIOUS

\* A whole turn of the ring ends where it began.
LEMMA ModTurn ==
  ASSUME NEW c \in Nat \ {0}, NEW x \in Nat
  PROVE  (x + c) % c = x % c
<1> DEFINE q == x \div c
           r == x % c
<1>1. q \in Nat /\ r \in 0 .. c - 1 /\ x = c * q + r
  BY DivMod, Zenon
<1> HIDE DEF q, r
<1>2. x + c = c * (q + 1) + r
  BY <1>1
<1>3. (c * (q + 1) + r) % c = r
  <2>1. q + 1 \in Nat
    BY <1>1
  <2> QED
    BY <1>1, <2>1, ModUnique, Zenon
<1> QED
  BY <1>2, <1>3 DEF r

\* Less than a turn does not.
LEMMA ModApart ==
  ASSUME NEW c \in Nat \ {0}, NEW x \in Nat, NEW y \in Nat, x < y, y < x + c
  PROVE  x % c # y % c
<1> SUFFICES ASSUME x % c = y % c PROVE FALSE
  OBVIOUS
<1> DEFINE q == x \div c
           p == y \div c
<1>1. /\ q \in Nat /\ p \in Nat
      /\ x = c * q + (x % c)
      /\ y = c * p + (y % c)
      /\ x % c \in 0 .. c - 1
  BY DivMod, Zenon
<1> HIDE DEF q, p
<1>2. y - x = c * p - c * q
  BY <1>1
<1>3. y - x = c * (p - q)
  BY <1>1, <1>2
<1>4. CASE p - q >= 1
  <2>1. c * (p - q) >= c
    BY <1>1, <1>4
  <2> QED
    BY <1>3, <2>1
<1>5. CASE p - q <= 0
  <2>1. c * (p - q) <= 0
    BY <1>1, <1>5
  <2> QED
    BY <1>3, <2>1
<1> QED
  BY <1>1, <1>4, <1>5

\* Going on from where a number stands in the ring.
LEMMA ModOn ==
  ASSUME NEW c \in Nat \ {0}, NEW x \in Nat, NEW y \in Nat
  PROVE  ((x % c) + y) % c = (x + y) % c
<1> DEFINE q == x \div c
           r == x % c
           p == (r + y) \div c
           t == (r + y) % c
<1>1. q \in Nat /\ r \in 0 .. c - 1 /\ x = c * q + r
  BY DivMod, Zenon
<1>2. r + y \in Nat
  BY <1>1
<1>3. p \in Nat /\ t \in 0 .. c - 1 /\ r + y = c * p + t
  BY <1>2, DivMod, Zenon
<1> HIDE DEF q, r, p, t
<1>4. x + y = c * (q + p) + t
  BY <1>1, <1>3
<1>5. (c * (q + p) + t) % c = t
  <2>1. q + p \in Nat
    BY <1>1, <1>3
  <2> QED
    BY <1>3, <2>1, ModUnique, Zenon
<1> QED
  BY <1>4, <1>5 DEF r, t

Headers == [capacity : Capacities \cup {0}, index : Nat]
BoxFiles == [header : Headers, slots : [Slots -> Nat \X Nat]]

BoxTypes ==
  /\ cache \in BoxFiles /\ disk \in BoxFiles
  /\ record \in {"none", "half", "slot"}
  /\ recorded \in Nat
  /\ lost \subseteq Nat /\ synced \subseteq Nat
  /\ orderly \in BOOLEAN
  /\ record # "none" => running
  /\ running => cache.header.capacity # 0

\* The slot the next sample goes to.
SlotAt(file) == file.header.index % file.header.capacity

\* A file has the whole sample s in the slot k, and a dump shows it.
Holds(file, k, s) ==
  /\ k < file.header.capacity
  /\ k < file.header.index
  /\ file.slots[k] = <<s, s>>

\* What was synced is in the same slot of the mapping and of the disk, and not
\* in the one a Record is filling.
SyncedInv ==
  \A s \in synced :
    /\ s # 0
    /\ cache.header.capacity # 0
    /\ disk.header.capacity = cache.header.capacity
    /\ \E k \in Slots : /\ Holds(cache, k, s) /\ Holds(disk, k, s)
                        /\ record = "none" \/ k # SlotAt(cache)

\* How far the Record under way is, and which samples were cut short.
FillInv ==
  /\ \A l \in lost : l <= recorded
  /\ record # "none" =>
       /\ recorded # 0 /\ recorded \notin lost
       /\ cache.slots[SlotAt(cache)][1] = recorded
  /\ record = "slot" => cache.slots[SlotAt(cache)][2] = recorded

\* The samples from .. n - 1 of a ring of c slots are whole and in order, and
\* below top; what is missing in between is gone.
InOrder(slots, c, from, n, top, gone) ==
  \A j \in Nat : from <= j /\ j < n =>
    LET this == slots[j % c]
        next == IF j + 1 < n THEN slots[(j + 1) % c][1] ELSE top
    IN  /\ this[1] = this[2] /\ 1 <= this[1] /\ this[1] < next
        /\ \A l \in Nat : this[1] < l /\ l < next => l \in gone

\* The sample after the last one counted.
Top == IF record = "none" THEN recorded + 1 ELSE recorded

\* The first place of the ring that no Record has begun to overwrite.
From == cache.header.index - cache.header.capacity + (IF Spoilt THEN 1 ELSE 0)

\* Without a power loss the ring holds the last samples at their places.
RingInv ==
  orderly /\ cache.header.capacity # 0 =>
    InOrder(cache.slots, cache.header.capacity, From, cache.header.index, Top, lost)

BoxInv == BoxTypes /\ SyncedInv /\ FillInv /\ RingInv

\* The dump of a ring of c slots into which n samples were written.
LEMMA DumpOf ==
  ASSUME NEW file \in BoxFiles, file.header.capacity # 0
  PROVE  LET c == file.header.capacity
             n == file.header.index
             w == IF n > c THEN c ELSE n
             f == IF n > c THEN n % c ELSE 0
         IN  /\ c \in Nat \ {0} /\ n \in Nat /\ w \in Nat /\ f \in 0 .. c - 1
             /\ w <= c /\ w <= n /\ (w = c \/ (w = n /\ f = 0))
             /\ 0 .. c - 1 \subseteq Slots
             /\ Dump(file) = [i \in 1 .. w |-> file.slots[(f + i - 1) % c]]
             /\ Range(Dump(file)) = {file.slots[(f + i - 1) % c] : i \in 1 .. w}
<1> DEFINE c == file.header.capacity
           n == file.header.index
           w == IF n > c THEN c ELSE n
           f == IF n > c THEN n % c ELSE 0
<1>1. c \in Capacities /\ n \in Nat
  BY DEF BoxFiles, Headers
<1>2. c \in Nat \ {0} /\ 0 .. c - 1 \subseteq Slots
  BY <1>1, BoxAssumption DEF Slots
<1>3. n % c \in 0 .. c - 1
  BY <1>1, <1>2, DivMod, Zenon
<1>4. Dump(file) = [i \in 1 .. w |-> file.slots[(f + i - 1) % c]]
  BY Zenon DEF Dump
<1> HIDE DEF c, n
<1>5. /\ w \in Nat /\ f \in 0 .. c - 1
      /\ w <= c /\ w <= n /\ (w = c \/ (w = n /\ f = 0))
  BY <1>1, <1>2, <1>3
<1>6. Range(Dump(file)) = {file.slots[(f + i - 1) % c] : i \in 1 .. w}
  <2> DEFINE g == [i \in 1 .. w |-> file.slots[(f + i - 1) % c]]
  <2>1. \A i \in 1 .. w : g[i] = file.slots[(f + i - 1) % c]
    BY Zenon
  <2>2. DOMAIN g = 1 .. w
    BY Zenon
  <2>3. Dump(file) = g
    BY <1>4
  <2> HIDE DEF w, f, g
  <2> QED
    BY <2>1, <2>2, <2>3 DEF Range
<1> QED
  BY <1>1, <1>2, <1>4, <1>5, <1>6, Zenon DEF c, n

\* A dump shows the slots that were written, wherever it begins.
LEMMA DumpHolds ==
  ASSUME NEW file \in BoxFiles, file.header.capacity # 0, NEW s \in Nat
  PROVE  s \in WholeSamples(file) <=> s # 0 /\ \E k \in Slots : Holds(file, k, s)
<1> DEFINE c == file.header.capacity
           n == file.header.index
           w == IF n > c THEN c ELSE n
           f == IF n > c THEN n % c ELSE 0
           At(i) == (f + i - 1) % c
<1>1. /\ c \in Nat \ {0} /\ n \in Nat /\ w \in Nat /\ f \in 0 .. c - 1
      /\ w <= c /\ w <= n /\ (w = c \/ (w = n /\ f = 0))
      /\ 0 .. c - 1 \subseteq Slots
      /\ Range(Dump(file)) = {file.slots[At(i)] : i \in 1 .. w}
  BY DumpOf
<1> HIDE DEF c, n, w, f
<1>2. ASSUME NEW i \in 1 .. w
      PROVE  At(i) \in 0 .. c - 1 /\ At(i) < n
  <2>1. f + i - 1 \in Nat
    BY <1>1
  <2>2. At(i) \in 0 .. c - 1
    BY <1>1, <2>1, DivMod
  <2>3. CASE w = n /\ f = 0
    <3>1. f + i - 1 \in 0 .. c - 1 /\ f + i - 1 < n
      BY <1>1, <2>3
    <3>2. At(i) = f + i - 1
      BY <1>1, <3>1, ModSmall
    <3> QED
      BY <3>1, <3>2
  <2>4. CASE w = c
    BY <1>1, <2>2, <2>4
  <2> QED
    BY <1>1, <2>2, <2>3, <2>4
<1>3. ASSUME NEW k \in 0 .. c - 1, k < n
      PROVE  \E i \in 1 .. w : At(i) = k
  <2>1. CASE k >= f
    <3>1. k - f + 1 \in 1 .. w
      BY <1>1, <1>3, <2>1
    <3>2. f + (k - f + 1) - 1 = k
      BY <1>1
    <3>3. k % c = k
      BY <1>1, ModSmall
    <3> QED
      BY <3>1, <3>2, <3>3
  <2>2. CASE k < f
    <3>1. k - f + c + 1 \in 1 .. w
      BY <1>1, <2>2
    <3>2. f + (k - f + c + 1) - 1 = k + c
      BY <1>1
    <3>3. (k + c) % c = k
      <4>1. k \in Nat
        BY <1>1
      <4>2. (k + c) % c = k % c
        BY <1>1, <4>1, ModTurn, Zenon
      <4> QED
        BY <1>1, <4>2, ModSmall
    <3> QED
      BY <3>1, <3>2, <3>3
  <2> QED
    BY <1>1, <2>1, <2>2
<1>4. \A k \in Slots : file.slots[k] \in Nat \X Nat
  BY DEF BoxFiles
<1>5. s \in WholeSamples(file) <=>
        s # 0 /\ \E i \in 1 .. w : file.slots[At(i)][1] = s /\ file.slots[At(i)][2] = s
  <2> HIDE DEF At
  <2> QED
    BY <1>1, Zenon DEF WholeSamples
<1>6. ASSUME NEW k \in Slots
      PROVE  file.slots[k] = <<s, s>> <=> file.slots[k][1] = s /\ file.slots[k][2] = s
  BY <1>4
<1>7. ASSUME NEW k \in Slots
      PROVE  Holds(file, k, s) <=> k \in 0 .. c - 1 /\ k < n /\ file.slots[k] = <<s, s>>
  BY <1>1, BoxAssumption DEF Holds, c, n, Slots
<1> HIDE DEF At
<1>8. ASSUME NEW i \in 1 .. w, file.slots[At(i)][1] = s, file.slots[At(i)][2] = s
      PROVE  \E k \in Slots : Holds(file, k, s)
  <2>1. At(i) \in 0 .. c - 1 /\ At(i) < n /\ At(i) \in Slots
    BY <1>1, <1>2
  <2> QED
    BY <1>6, <1>7, <1>8, <2>1, Zenon
<1>9. ASSUME NEW k \in Slots, Holds(file, k, s)
      PROVE  \E i \in 1 .. w : file.slots[At(i)][1] = s /\ file.slots[At(i)][2] = s
  <2>1. k \in 0 .. c - 1 /\ k < n /\ file.slots[k][1] = s /\ file.slots[k][2] = s
    BY <1>6, <1>7, <1>9, Zenon
  <2> QED
    BY <1>3, <2>1, Zenon
<1> QED
  BY <1>5, <1>8, <1>9, Zenon

\* The fields of a file.
LEMMA FileFields ==
  ASSUME NEW file \in BoxFiles
  PROVE  /\ file.header \in Headers
         /\ file.header.capacity \in Capacities \cup {0} /\ file.header.index \in Nat
         /\ file.slots \in [Slots -> Nat \X Nat]
BY DEF BoxFiles, Headers

\* What prepareFile starts afresh with.
LEMMA FreshFile ==
  /\ Preallocated \in BoxFiles
  /\ Preallocated.header.capacity = 0 /\ Preallocated.header.index = 0
  /\ \A c \in Capacities :
       /\ [Preallocated EXCEPT !.header.capacity = c] \in BoxFiles
       /\ [Preallocated EXCEPT !.header.capacity = c].header.capacity = c
       /\ [Preallocated EXCEPT !.header.capacity = c].header.index = 0
<1>1. NoHeader \in Headers
  BY Zenon DEF NoHeader, Headers
<1>2. [s \in Slots |-> <<0, 0>>] \in [Slots -> Nat \X Nat]
  OBVIOUS
<1>3. Preallocated \in BoxFiles
  BY <1>1, <1>2, Zenon DEF Preallocated, BoxFiles
<1>4. Preallocated.header.capacity = 0 /\ Preallocated.header.index = 0
  BY DEF Preallocated, NoHeader
<1>5. ASSUME NEW c \in Capacities
      PROVE  /\ [Preallocated EXCEPT !.header.capacity = c] \in BoxFiles
             /\ [Preallocated EXCEPT !.header.capacity = c].header.capacity = c
             /\ [Preallocated EXCEPT !.header.capacity = c].header.index = 0
  <2>1. Preallocated.header \in Headers
    BY <1>3, FileFields
  <2>2. [Preallocated.header EXCEPT !.capacity = c] \in Headers
    BY <2>1, Zenon DEF Headers
  <2> DEFINE h == [Preallocated.header EXCEPT !.capacity = c]
  <2>3. h.capacity = c /\ h.index = 0
    BY <1>4, <2>1 DEF Headers
  <2>4. [Preallocated EXCEPT !.header.capacity = c] = [Preallocated EXCEPT !.header = h]
    OBVIOUS
  <2> HIDE DEF h
  <2>5. [Preallocated EXCEPT !.header = h] \in BoxFiles
    BY <1>3, <2>2, Zenon DEF BoxFiles, h
  <2>6. [Preallocated EXCEPT !.header = h].header = h
    BY <1>3 DEF BoxFiles
  <2> QED
    BY <2>3, <2>4, <2>5, <2>6, Zenon
<1> QED
  BY <1>3, <1>4, <1>5

\* Opening resumes the file, or starts a new one and promises nothing of the old.
LEMMA OpenBoxStep ==
  ASSUME BoxInv, NEW capacity \in Capacities, Open(capacity)
  PROVE  BoxInv'
<1>1. CASE Matches(cache, capacity)
  <2>1. cache' = cache /\ UNCHANGED <<disk, synced, record, recorded, lost, orderly>>
    BY <1>1 DEF Open, prepareFile
  <2>2. cache.header.capacity # 0 /\ running'
    BY <1>1, BoxAssumption DEF Matches, Open
  <2> QED
    BY <2>1, <2>2, Zenon DEF BoxInv, BoxTypes, SyncedInv, FillInv, RingInv, Holds, SlotAt, Top,
                             From, Spoilt
<1>2. CASE ~Matches(cache, capacity)
  <2>1. /\ cache' = [Preallocated EXCEPT !.header.capacity = capacity]
        /\ disk' = disk \/ disk' = Preallocated
        /\ running' /\ record = "none"
        /\ synced' = {} /\ UNCHANGED <<record, recorded, lost, orderly>>
    BY <1>2 DEF Open, prepareFile, BoxInv, BoxTypes
  <2>2. /\ cache' \in BoxFiles
        /\ cache'.header.capacity = capacity
        /\ cache'.header.index = 0
    BY <2>1, FreshFile
  <2>3. capacity \in Nat \ {0}
    BY BoxAssumption
  <2>4. BoxTypes'
    BY <2>1, <2>2, <2>3, FreshFile DEF BoxInv, BoxTypes
  <2>5. SyncedInv'
    BY <2>1 DEF SyncedInv
  <2>6. FillInv'
    BY <2>1 DEF BoxInv, FillInv
  <2>7. RingInv'
    BY <2>2 DEF RingInv, InOrder
  <2> QED
    BY <2>4, <2>5, <2>6, <2>7 DEF BoxInv
<1> QED
  BY <1>1, <1>2

\* A ring stays in order when less of it is looked at...
LEMMA LessSeen ==
  ASSUME NEW old, NEW new, NEW c \in Nat \ {0}, NEW n \in Nat,
         NEW from \in Int, NEW from2 \in Int, from <= from2,
         NEW top, NEW gone,
         \A j \in Nat : from2 <= j /\ j < n => new[j % c] = old[j % c],
         InOrder(old, c, from, n, top, gone)
  PROVE  InOrder(new, c, from2, n, top, gone)
<1> SUFFICES ASSUME NEW j \in Nat, from2 <= j, j < n
             PROVE  LET this == new[j % c]
                        next == IF j + 1 < n THEN new[(j + 1) % c][1] ELSE top
                    IN  /\ this[1] = this[2] /\ 1 <= this[1] /\ this[1] < next
                        /\ \A l \in Nat : this[1] < l /\ l < next => l \in gone
  BY Zenon DEF InOrder
<1>1. from <= j /\ j + 1 \in Nat /\ from2 <= j + 1
  OBVIOUS
<1>2. new[j % c] = old[j % c] /\ (j + 1 < n => new[(j + 1) % c] = old[(j + 1) % c])
  BY <1>1, Zenon
<1> QED
  BY <1>1, <1>2, Zenon DEF InOrder

\* ... or when more is gone.
LEMMA MoreGone ==
  ASSUME NEW slots, NEW c \in Nat \ {0}, NEW n \in Nat, NEW from \in Int,
         NEW top \in Nat, NEW top2 \in Nat, top <= top2,
         NEW gone, NEW gone2, gone \subseteq gone2,
         \A l \in Nat : top <= l /\ l < top2 => l \in gone2,
         \A k \in 0 .. c - 1 : slots[k] \in Nat \X Nat,
         InOrder(slots, c, from, n, top, gone)
  PROVE  InOrder(slots, c, from, n, top2, gone2)
<1> SUFFICES ASSUME NEW j \in Nat, from <= j, j < n
             PROVE  LET this == slots[j % c]
                        next == IF j + 1 < n THEN slots[(j + 1) % c][1] ELSE top2
                    IN  /\ this[1] = this[2] /\ 1 <= this[1] /\ this[1] < next
                        /\ \A l \in Nat : this[1] < l /\ l < next => l \in gone2
  BY Zenon DEF InOrder
<1> DEFINE this == slots[j % c]
           next == IF j + 1 < n THEN slots[(j + 1) % c][1] ELSE top
           next2 == IF j + 1 < n THEN slots[(j + 1) % c][1] ELSE top2
<1>1. /\ this[1] = this[2] /\ 1 <= this[1] /\ this[1] < next
      /\ \A l \in Nat : this[1] < l /\ l < next => l \in gone
  BY Zenon DEF InOrder
<1>2. j % c \in 0 .. c - 1
  BY DivMod, Zenon
<1>3. this[1] \in Nat
  BY <1>2
<1>4. next2 = next \/ (next = top /\ next2 = top2)
  BY Zenon
<1> HIDE DEF this, next, next2
<1>5. CASE next2 = next
  <2>1. \A l \in Nat : this[1] < l /\ l < next2 => l \in gone2
    BY <1>1, <1>5, Zenon
  <2> QED
    BY <1>1, <1>5, <2>1, Zenon DEF this, next2
<1>6. CASE next = top /\ next2 = top2
  <2>1. this[1] = this[2] /\ 1 <= this[1] /\ this[1] < next2
    BY <1>1, <1>3, <1>6
  <2>2. ASSUME NEW l \in Nat, this[1] < l, l < next2 PROVE l \in gone2
    <3>1. CASE l < top
      BY <1>1, <1>6, <2>2, <3>1, Zenon
    <3>2. CASE top <= l
      BY <1>6, <2>2, <3>2, Zenon
    <3> QED
      BY <3>1, <3>2
  <2> QED
    BY <2>1, <2>2, Zenon DEF this, next2
<1> QED
  BY <1>4, <1>5, <1>6

\* What Record finds.
LEMMA RingFacts ==
  ASSUME BoxInv, running
  PROVE  LET c == cache.header.capacity
             n == cache.header.index
         IN  /\ c \in Nat \ {0} /\ n \in Nat
             /\ 0 .. c - 1 \subseteq Slots
             /\ SlotAt(cache) \in 0 .. c - 1 /\ SlotAt(cache) \in Slots
             /\ cache.slots \in [Slots -> Nat \X Nat]
             /\ From \in Int
<1> DEFINE c == cache.header.capacity
           n == cache.header.index
<1>1. /\ cache \in BoxFiles /\ c # 0
      /\ cache.slots \in [Slots -> Nat \X Nat]
      /\ n \in Nat
  BY FileFields DEF BoxInv, BoxTypes
<1>2. c \in Capacities
  BY <1>1, FileFields
<1>3. c \in Nat \ {0} /\ 0 .. c - 1 \subseteq Slots
  BY <1>2, BoxAssumption DEF Slots
<1>4. n % c \in 0 .. c - 1
  BY <1>1, <1>3, DivMod
<1>5. From \in Int
  BY <1>1, <1>3 DEF From
<1> QED
  BY <1>1, <1>3, <1>4, <1>5, Zenon DEF SlotAt

\* What copying a half of a sample does to the mapping.
LEMMA CopyEffect ==
  ASSUME BoxInv, running, NEW half \in 1 .. 2, NEW v \in Nat,
         cache' = [cache EXCEPT !.slots[SlotAt(cache)][half] = v]
  PROVE  LET k0 == SlotAt(cache)
         IN  /\ cache' \in BoxFiles
             /\ cache'.header = cache.header
             /\ cache'.slots[k0][half] = v
             /\ \A h \in 1 .. 2 : h # half => cache'.slots[k0][h] = cache.slots[k0][h]
             /\ \A k \in Slots \ {k0} : cache'.slots[k] = cache.slots[k]
<1> DEFINE k0 == SlotAt(cache)
           pair == [cache.slots[k0] EXCEPT ![half] = v]
           slots == [cache.slots EXCEPT ![k0] = pair]
<1>1. k0 \in Slots /\ cache.slots \in [Slots -> Nat \X Nat] /\ cache \in BoxFiles
  BY RingFacts DEF BoxInv, BoxTypes
<1>2. cache' = [cache EXCEPT !.slots = slots]
  OBVIOUS
<1> HIDE DEF k0
<1>3. pair \in Nat \X Nat /\ pair[half] = v
      /\ \A h \in 1 .. 2 : h # half => pair[h] = cache.slots[k0][h]
  BY <1>1
<1> HIDE DEF pair
<1>4. /\ slots \in [Slots -> Nat \X Nat] /\ slots[k0] = pair
      /\ \A k \in Slots \ {k0} : slots[k] = cache.slots[k]
  BY <1>1, <1>3
<1> HIDE DEF slots
<1>5. cache' \in BoxFiles
  BY <1>1, <1>2, <1>4, Zenon DEF BoxFiles
<1>6. cache'.header = cache.header /\ cache'.slots = slots
  BY <1>1, <1>2 DEF BoxFiles
<1> QED
  BY <1>3, <1>4, <1>5, <1>6, Zenon DEF k0

\* While a Record is under way the slot it fills is none of those the ring
\* counts on.
LEMMA ApartFromFilled ==
  ASSUME NEW c \in Nat \ {0}, NEW n \in Nat,
         NEW j \in Nat, n - c + (IF n >= c THEN 1 ELSE 0) <= j, j < n
  PROVE  j % c # n % c
<1>1. n < j + c
  OBVIOUS
<1> QED
  BY <1>1, ModApart, Zenon

\* Record copies a half: the oldest sample of a full ring, and the promise to
\* keep it, are gone, and the others stay where they are.
LEMMA CopyStep == ASSUME BoxInv, CopySample \/ CopyRest PROVE BoxInv'
<1> DEFINE c == cache.header.capacity
           n == cache.header.index
           k0 == SlotAt(cache)
<1>1. running /\ UNCHANGED <<disk, running, lost, orderly>>
  BY DEF CopySample, CopyRest
<1>2. /\ c \in Nat \ {0} /\ n \in Nat
      /\ 0 .. c - 1 \subseteq Slots /\ k0 \in 0 .. c - 1 /\ k0 \in Slots
      /\ cache.slots \in [Slots -> Nat \X Nat]
      /\ From \in Int
  BY <1>1, RingFacts, Zenon
<1>3. recorded \in Nat /\ recorded + 1 \in Nat
  BY DEF BoxInv, BoxTypes
<1>4. /\ record' # "none" /\ recorded' \in Nat
      /\ \/ /\ record = "none" /\ record' = "half" /\ recorded' = recorded + 1
            /\ synced' = synced \ {cache.slots[k0][1]}
            /\ cache' = [cache EXCEPT !.slots[k0][1] = recorded + 1]
         \/ /\ record = "half" /\ record' = "slot" /\ recorded' = recorded
            /\ synced' = synced
            /\ cache' = [cache EXCEPT !.slots[k0][2] = recorded]
  BY <1>3 DEF CopySample, CopyRest, SlotAt
<1>5. /\ cache' \in BoxFiles
      /\ cache'.header = cache.header
      /\ \A k \in Slots \ {k0} : cache'.slots[k] = cache.slots[k]
  BY <1>1, <1>3, <1>4, CopyEffect
<1>6. SlotAt(cache') = k0 /\ SlotAt(cache)' = k0
  BY <1>5 DEF SlotAt
<1> HIDE DEF k0
<1>7. BoxTypes'
  <2>1. synced' \subseteq Nat /\ lost' \subseteq Nat
    BY <1>1, <1>4, Zenon DEF BoxInv, BoxTypes
  <2>2. record' \in {"none", "half", "slot"} /\ cache'.header.capacity # 0
    BY <1>2, <1>4, <1>5
  <2> QED
    BY <1>1, <1>4, <1>5, <2>1, <2>2, Zenon DEF BoxInv, BoxTypes
<1>8. SyncedInv'
  <2> SUFFICES ASSUME NEW s \in synced'
               PROVE  /\ s # 0
                      /\ cache'.header.capacity # 0
                      /\ disk'.header.capacity = cache'.header.capacity
                      /\ \E k \in Slots : /\ Holds(cache', k, s) /\ Holds(disk', k, s)
                                          /\ k # k0
    BY <1>6, Zenon DEF SyncedInv, Holds, SlotAt
  <2>1. s \in synced
    BY <1>4
  <2>2. s # 0 /\ c # 0 /\ disk.header.capacity = c
    BY <2>1 DEF BoxInv, SyncedInv
  <2>3. PICK k \in Slots : /\ Holds(cache, k, s) /\ Holds(disk, k, s)
                           /\ record = "none" \/ k # k0
    BY <2>1 DEF BoxInv, SyncedInv, k0
  <2>4. k # k0
    <3>1. CASE record = "none"
      <4>1. s # cache.slots[k0][1]
        BY <1>4, <3>1
      <4> QED
        BY <2>3, <4>1 DEF Holds
    <3>2. CASE record # "none"
      BY <2>3, <3>2
    <3> QED
      BY <3>1, <3>2
  <2>5. Holds(cache', k, s)
    BY <1>5, <2>3, <2>4, Zenon DEF Holds
  <2> QED
    BY <1>1, <1>5, <2>2, <2>3, <2>4, <2>5, Zenon
<1>9. FillInv'
  <2>1. CASE record = "none" /\ record' = "half" /\ recorded' = recorded + 1
             /\ cache' = [cache EXCEPT !.slots[k0][1] = recorded + 1]
    <3>1. cache'.slots[k0][1] = recorded + 1
      BY <1>1, <1>3, <2>1, CopyEffect DEF k0
    <3>2. \A l \in lost : l \in Nat /\ l <= recorded
      BY DEF BoxInv, BoxTypes, FillInv
    <3> QED
      BY <1>1, <1>3, <1>6, <2>1, <3>1, <3>2 DEF FillInv
  <2>2. CASE record = "half" /\ record' = "slot" /\ recorded' = recorded
             /\ cache' = [cache EXCEPT !.slots[k0][2] = recorded]
    <3>1. cache'.slots[k0][2] = recorded /\ cache'.slots[k0][1] = cache.slots[k0][1]
      BY <1>1, <1>3, <2>2, CopyEffect DEF k0
    <3>2. /\ \A l \in lost : l <= recorded
          /\ recorded # 0 /\ recorded \notin lost /\ cache.slots[k0][1] = recorded
      BY <2>2 DEF BoxInv, FillInv, k0
    <3> QED
      BY <1>1, <1>6, <2>2, <3>1, <3>2 DEF FillInv
  <2> QED
    BY <1>4, <2>1, <2>2
<1>10. RingInv'
  <2> SUFFICES ASSUME orderly
               PROVE  InOrder(cache'.slots, c, From', n, Top', lost)
    BY <1>1, <1>5 DEF RingInv
  <2>1. InOrder(cache.slots, c, From, n, Top, lost)
    BY <1>2, Zenon DEF BoxInv, RingInv
  <2>2. Top' = Top /\ Top \in Nat
    BY <1>3, <1>4 DEF Top
  <2>3. From' = n - c + (IF n >= c THEN 1 ELSE 0)
    BY <1>4, <1>5 DEF From, Spoilt
  <2>4. From \in {n - c, n - c + (IF n >= c THEN 1 ELSE 0)}
    BY <1>2 DEF From, Spoilt
  <2>5. From' \in Int /\ From <= From'
    BY <1>2, <2>3, <2>4
  <2>6. ASSUME NEW j \in Nat, From' <= j, j < n
        PROVE  cache'.slots[j % c] = cache.slots[j % c]
    <3>1. k0 = n % c
      BY DEF k0, SlotAt
    <3> HIDE DEF c, n
    <3>2. j % c # k0
      BY <1>2, <2>3, <2>6, <3>1, ApartFromFilled, Zenon
    <3>3. j % c \in Slots
      BY <1>2, DivMod
    <3> QED
      BY <1>5, <3>2, <3>3
  <2>7. c \in Nat \ {0} /\ n \in Nat /\ From \in Int
    BY <1>2, Zenon
  <2>8. \A j \in Nat : From' <= j /\ j < n => cache'.slots[j % c] = cache.slots[j % c]
    BY <2>6, Zenon
  <2> HIDE DEF c, n
  <2>9. InOrder(cache'.slots, c, From', n, Top, lost)
    BY <2>1, <2>5, <2>7, <2>8, LessSeen, Zenon
  <2> QED
    BY <2>2, <2>9, Zenon
<1> QED
  BY <1>7, <1>8, <1>9, <1>10 DEF BoxInv

\* The header counts the sample the slot has.
LEMMA CountStep == ASSUME BoxInv, writeHeaderLocked PROVE BoxInv'
<1> DEFINE c == cache.header.capacity
           n == cache.header.index
           k0 == SlotAt(cache)
           header == [cache.header EXCEPT !.index = n + 1]
<1>1. /\ running /\ record = "slot" /\ record' = "none"
      /\ cache' = [cache EXCEPT !.header = header]
      /\ UNCHANGED <<disk, running, recorded, lost, synced, orderly>>
  BY DEF writeHeaderLocked
<1>2. /\ c \in Nat \ {0} /\ n \in Nat /\ n + 1 \in Nat
      /\ 0 .. c - 1 \subseteq Slots /\ k0 \in 0 .. c - 1 /\ k0 \in Slots
      /\ cache.slots \in [Slots -> Nat \X Nat]
      /\ cache \in BoxFiles /\ cache.header \in Headers
      /\ recorded \in Nat
  <2>1. /\ c \in Nat \ {0} /\ n \in Nat
        /\ 0 .. c - 1 \subseteq Slots /\ k0 \in 0 .. c - 1 /\ k0 \in Slots
        /\ cache.slots \in [Slots -> Nat \X Nat]
    BY <1>1, RingFacts, Zenon
  <2>2. cache \in BoxFiles /\ cache.header \in Headers /\ recorded \in Nat
    BY FileFields DEF BoxInv, BoxTypes
  <2> HIDE DEF c, n, k0
  <2> QED
    BY <2>1, <2>2
<1>3. header \in Headers
  BY <1>2, Zenon DEF Headers
<1>4. header.capacity = c /\ header.index = n + 1
  BY <1>2 DEF Headers
<1> HIDE DEF header
<1>5. cache' \in BoxFiles
  BY <1>1, <1>2, <1>3, Zenon DEF BoxFiles
<1>6. cache'.header = header /\ cache'.slots = cache.slots
  BY <1>1, <1>2 DEF BoxFiles
<1>7. BoxTypes'
  <2>1. cache'.header.capacity # 0
    BY <1>2, <1>4, <1>6
  <2> QED
    BY <1>1, <1>5, <2>1, Zenon DEF BoxInv, BoxTypes
<1>8. SyncedInv'
  <2> SUFFICES ASSUME NEW s \in synced
               PROVE  /\ s # 0
                      /\ cache'.header.capacity # 0
                      /\ disk.header.capacity = cache'.header.capacity
                      /\ \E k \in Slots : Holds(cache', k, s) /\ Holds(disk, k, s)
    BY <1>1, Zenon DEF SyncedInv, Holds
  <2>1. s # 0 /\ c # 0 /\ disk.header.capacity = c
    BY DEF BoxInv, SyncedInv
  <2>2. PICK k \in Slots : Holds(cache, k, s) /\ Holds(disk, k, s)
    BY DEF BoxInv, SyncedInv
  <2>3. k < n + 1
    <3>1. k \in Int /\ k < n
      BY <2>2 DEF Slots, Holds
    <3> QED
      BY <1>2, <3>1
  <2>4. Holds(cache', k, s)
    BY <1>4, <1>6, <2>2, <2>3, Zenon DEF Holds
  <2> QED
    BY <1>4, <1>6, <2>1, <2>2, <2>4, Zenon
<1>9. FillInv'
  BY <1>1 DEF BoxInv, FillInv
<1>10. RingInv'
  <2> SUFFICES ASSUME orderly
               PROVE  InOrder(cache.slots, c, From', n + 1, Top', lost)
    BY <1>1, <1>4, <1>6 DEF RingInv
  <2>1. InOrder(cache.slots, c, From, n, Top, lost)
    BY <1>2, Zenon DEF BoxInv, RingInv
  <2>2. /\ recorded # 0 /\ recorded \notin lost
        /\ cache.slots[k0][1] = recorded /\ cache.slots[k0][2] = recorded
    BY <1>1 DEF BoxInv, FillInv
  <2>3. Top = recorded /\ Top' = recorded + 1
    BY <1>1 DEF Top
  <2>4. From = n - c + (IF n >= c THEN 1 ELSE 0)
    BY <1>1 DEF From, Spoilt
  <2>5. From' = n + 1 - c
    BY <1>1, <1>2, <1>4, <1>6, <2>2 DEF From, Spoilt
  <2>6. k0 = n % c
    BY DEF k0, SlotAt
  <2> HIDE DEF c, n, k0
  <2> SUFFICES ASSUME NEW j \in Nat, From' <= j, j < n + 1
               PROVE  LET this == cache.slots[j % c]
                          next == IF j + 1 < n + 1 THEN cache.slots[(j + 1) % c][1] ELSE recorded + 1
                      IN  /\ this[1] = this[2] /\ 1 <= this[1] /\ this[1] < next
                          /\ \A l \in Nat : this[1] < l /\ l < next => l \in lost
    BY <2>3, Zenon DEF InOrder
  <2>7. CASE j = n
    <3>1. cache.slots[j % c][1] = recorded /\ cache.slots[j % c][2] = recorded
      BY <2>2, <2>6, <2>7
    <3>2. ~(j + 1 < n + 1)
      BY <1>2, <2>7
    <3>3. 1 <= recorded /\ recorded < recorded + 1
          /\ \A l \in Nat : recorded < l /\ l < recorded + 1 => l \in lost
      BY <1>2, <2>2
    <3> QED
      BY <3>1, <3>2, <3>3, Zenon
  <2>8. CASE j < n
    <3> DEFINE this == cache.slots[j % c]
               next == IF j + 1 < n THEN cache.slots[(j + 1) % c][1] ELSE recorded
    <3>1. From <= j
      BY <1>2, <2>4, <2>5, <2>8
    <3>2. /\ this[1] = this[2] /\ 1 <= this[1] /\ this[1] < next
          /\ \A l \in Nat : this[1] < l /\ l < next => l \in lost
      BY <2>1, <2>3, <2>8, <3>1, Zenon DEF InOrder
    <3>3. j + 1 < n + 1
      BY <1>2, <2>8
    <3>4. next = cache.slots[(j + 1) % c][1]
      <4>1. CASE j + 1 < n
        BY <4>1
      <4>2. CASE ~(j + 1 < n)
        <5>1. j + 1 = n
          BY <1>2, <2>8, <4>2
        <5> QED
          BY <2>2, <2>6, <4>2, <5>1, Zenon
      <4> QED
        BY <4>1, <4>2
    <3> HIDE DEF this, next
    <3> QED
      BY <3>2, <3>3, <3>4, Zenon DEF this
  <2>9. j = n \/ j < n
    BY <1>2
  <2> QED
    BY <2>7, <2>8, <2>9, Zenon
<1> QED
  BY <1>7, <1>8, <1>9, <1>10 DEF BoxInv

\* What depends on the mapping alone stays with it.
LEMMA MappingKept ==
  ASSUME BoxInv, UNCHANGED <<cache, record, recorded, lost, orderly>>
  PROVE  FillInv' /\ RingInv'
BY Zenon DEF BoxInv, FillInv, RingInv, SlotAt, Top, From, Spoilt

\* The kernel writes pages back in any order: a synced slot is the same on both
\* sides and stays so.
LEMMA WriteBackHeaderStep == ASSUME BoxInv, WriteBackHeader PROVE BoxInv'
<1>1. disk' = [disk EXCEPT !.header = cache.header]
      /\ UNCHANGED <<cache, running, record, recorded, lost, synced, orderly>>
  BY DEF WriteBackHeader
<1>2. cache.header \in Headers /\ disk \in BoxFiles
  BY FileFields DEF BoxInv, BoxTypes
<1>3. disk' \in BoxFiles
  BY <1>1, <1>2, Zenon DEF BoxFiles
<1>4. disk'.header = cache.header /\ disk'.slots = disk.slots
  BY <1>1, <1>2 DEF BoxFiles
<1>5. BoxTypes' /\ FillInv' /\ RingInv'
  BY <1>1, <1>3, MappingKept, Zenon DEF BoxInv, BoxTypes
<1>6. SyncedInv'
  BY <1>1, <1>4, Zenon DEF BoxInv, SyncedInv, Holds, SlotAt
<1> QED
  BY <1>5, <1>6 DEF BoxInv

LEMMA WriteBackHalfStep ==
  ASSUME BoxInv, NEW slot \in Slots, NEW half \in 1 .. 2, WriteBackHalf(slot, half)
  PROVE  BoxInv'
<1> DEFINE pair == [disk.slots[slot] EXCEPT ![half] = cache.slots[slot][half]]
           slots == [disk.slots EXCEPT ![slot] = pair]
<1>1. /\ disk \in BoxFiles
      /\ disk.slots \in [Slots -> Nat \X Nat] /\ cache.slots \in [Slots -> Nat \X Nat]
  BY FileFields DEF BoxInv, BoxTypes
<1>2. /\ disk' = [disk EXCEPT !.slots = slots]
      /\ disk.slots[slot][half] # cache.slots[slot][half]
      /\ UNCHANGED <<cache, running, record, recorded, lost, synced, orderly>>
  BY DEF WriteBackHalf
<1>3. pair \in Nat \X Nat
  BY <1>1
<1> HIDE DEF pair
<1>4. slots \in [Slots -> Nat \X Nat] /\ \A k \in Slots \ {slot} : slots[k] = disk.slots[k]
  BY <1>1, <1>3
<1> HIDE DEF slots
<1>5. disk' \in BoxFiles
  BY <1>1, <1>2, <1>4, Zenon DEF BoxFiles
<1>6. disk'.header = disk.header /\ disk'.slots = slots
  BY <1>1, <1>2 DEF BoxFiles
<1>7. BoxTypes' /\ FillInv' /\ RingInv'
  BY <1>2, <1>5, MappingKept, Zenon DEF BoxInv, BoxTypes
<1>8. SyncedInv'
  <2>1. ASSUME NEW k \in Slots, NEW s, Holds(disk, k, s), Holds(cache, k, s)
        PROVE  Holds(disk', k, s)
    <3>1. k # slot
      BY <1>2, <2>1 DEF Holds
    <3> QED
      BY <1>4, <1>6, <2>1, <3>1, Zenon DEF Holds
  <2>2. ASSUME NEW k \in Slots, NEW s PROVE Holds(cache, k, s)' <=> Holds(cache, k, s)
    BY <1>2, Zenon DEF Holds
  <2>3. SlotAt(cache)' = SlotAt(cache)
    BY <1>2, Zenon DEF SlotAt
  <2> QED
    BY <1>2, <1>6, <2>1, <2>2, <2>3, Zenon DEF BoxInv, SyncedInv
<1> QED
  BY <1>7, <1>8 DEF BoxInv

\* A Sync or a Close leaves the same file on both sides.
LEMMA SyncStep == ASSUME BoxInv, Sync \/ CloseRecorder PROVE BoxInv'
<1>1. /\ running /\ record = "none"
      /\ disk' = cache /\ synced' = WholeSamples(cache)
      /\ UNCHANGED <<cache, record, recorded, lost, orderly>>
  BY DEF Sync, CloseRecorder
<1>2. cache \in BoxFiles /\ cache.header.capacity # 0
  BY <1>1 DEF BoxInv, BoxTypes
<1>3. WholeSamples(cache) \subseteq Nat
  <2> DEFINE c == cache.header.capacity
             n == cache.header.index
             w == IF n > c THEN c ELSE n
             f == IF n > c THEN n % c ELSE 0
  <2>1. /\ c \in Nat \ {0} /\ w \in Nat /\ f \in 0 .. c - 1
        /\ 0 .. c - 1 \subseteq Slots
        /\ Range(Dump(cache)) = {cache.slots[(f + i - 1) % c] : i \in 1 .. w}
    BY <1>2, DumpOf, Zenon
  <2> HIDE DEF c, w, f
  <2>2. ASSUME NEW i \in 1 .. w PROVE (f + i - 1) % c \in Slots
    <3>1. f + i - 1 \in Nat
      BY <2>1
    <3> QED
      BY <2>1, <3>1, DivMod
  <2>3. \A i \in 1 .. w : cache.slots[(f + i - 1) % c] \in Nat \X Nat
    BY <1>2, <2>2, FileFields
  <2>4. \A h \in Range(Dump(cache)) : h[1] \in Nat
    BY <2>1, <2>3, Zenon
  <2> QED
    BY <2>4, Zenon DEF WholeSamples
<1>4. BoxTypes' /\ FillInv' /\ RingInv'
  <2>1. (running' => cache'.header.capacity # 0) /\ (record' # "none" => running')
    BY <1>1, <1>2
  <2> QED
    BY <1>1, <1>3, <2>1, MappingKept, Zenon DEF BoxInv, BoxTypes
<1>5. SyncedInv'
  <2> SUFFICES ASSUME NEW s \in WholeSamples(cache)
               PROVE  s # 0 /\ \E k \in Slots : Holds(cache, k, s)
    BY <1>1, <1>2 DEF SyncedInv, Holds
  <2> QED
    BY <1>2, <1>3, DumpHolds
<1> QED
  BY <1>4, <1>5 DEF BoxInv

\* What is cut short is not counted: the slot it was to fill is spoilt.
LEMMA KillRecorderStep == ASSUME BoxInv, KillRecorder PROVE BoxInv'
<1> DEFINE c == cache.header.capacity
           n == cache.header.index
<1>1. /\ running /\ running' = FALSE /\ record' = "none"
      /\ lost' = IF record = "none" THEN lost ELSE lost \cup {recorded}
      /\ UNCHANGED <<cache, disk, recorded, synced, orderly>>
  BY DEF KillRecorder, CutRecord
<1>2. lost \subseteq Nat /\ recorded \in Nat /\ \A l \in lost : l <= recorded
  BY DEF BoxInv, BoxTypes, FillInv
<1>3. /\ lost' \subseteq Nat /\ lost \subseteq lost'
      /\ \A l \in lost' : l <= recorded
  BY <1>1, <1>2
<1>4. BoxTypes'
  BY <1>1, <1>3, Zenon DEF BoxInv, BoxTypes
<1>5. SyncedInv'
  BY <1>1, Zenon DEF BoxInv, SyncedInv, Holds
<1>6. FillInv'
  BY <1>1, <1>3 DEF FillInv
<1>7. RingInv'
  <2> SUFFICES ASSUME orderly
               PROVE  InOrder(cache.slots, c, From', n, Top', lost')
    BY <1>1 DEF RingInv
  <2>1. /\ c \in Nat \ {0} /\ n \in Nat
        /\ 0 .. c - 1 \subseteq Slots
        /\ cache.slots \in [Slots -> Nat \X Nat]
        /\ From \in Int
    BY <1>1, RingFacts, Zenon
  <2>2. InOrder(cache.slots, c, From, n, Top, lost)
    BY <2>1, Zenon DEF BoxInv, RingInv
  <2>3. Spoilt' <=> Spoilt
    <3>1. (record # "none" \/ recorded \in lost) <=> (record' # "none" \/ recorded' \in lost')
      BY <1>1
    <3> QED
      BY <1>1, <3>1, Zenon DEF Spoilt
  <2>4. From' = From
    BY <1>1, <2>3 DEF From
  <2>5. /\ Top \in Nat /\ Top' \in Nat /\ Top <= Top'
        /\ \A l \in Nat : Top <= l /\ l < Top' => l \in lost'
    BY <1>1, <1>2 DEF Top
  <2>6. \A k \in 0 .. c - 1 : cache.slots[k] \in Nat \X Nat
    BY <2>1
  <2> HIDE DEF c, n
  <2>7. InOrder(cache.slots, c, From, n, Top', lost')
    BY <1>3, <2>1, <2>2, <2>5, <2>6, MoreGone, Zenon
  <2> QED
    BY <2>4, <2>7, Zenon
<1> QED
  BY <1>4, <1>5, <1>6, <1>7 DEF BoxInv

LEMMA PowerLossStep == ASSUME BoxInv, PowerLoss PROVE BoxInv'
<1>1. /\ cache' = disk /\ UNCHANGED <<disk, recorded, synced>>
      /\ orderly' = FALSE /\ running' = FALSE /\ record' = "none"
      /\ lost' = IF record = "none" THEN lost ELSE lost \cup {recorded}
  BY DEF PowerLoss, CutRecord
<1>2. lost \subseteq Nat /\ recorded \in Nat /\ \A l \in lost : l <= recorded
  BY DEF BoxInv, BoxTypes, FillInv
<1>3. lost' \subseteq Nat /\ \A l \in lost' : l <= recorded
  BY <1>1, <1>2
<1>4. BoxTypes' /\ RingInv'
  BY <1>1, <1>3, Zenon DEF BoxInv, BoxTypes, RingInv
<1>5. SyncedInv'
  BY <1>1, Zenon DEF BoxInv, SyncedInv, Holds
<1>6. FillInv'
  BY <1>1, <1>3 DEF FillInv
<1> QED
  BY <1>4, <1>5, <1>6 DEF BoxInv

LEMMA BoxStep == BoxInv /\ [BoxNext]_boxVars => BoxInv'
<1> SUFFICES ASSUME BoxInv, [BoxNext]_boxVars PROVE BoxInv'
  OBVIOUS
<1>1. CASE SyncFails \/ UNCHANGED boxVars
  <2>1. UNCHANGED <<cache, disk, running, record, recorded, lost, synced, orderly>>
    BY <1>1, Zenon DEF SyncFails, boxVars
  <2>2. BoxTypes' /\ SyncedInv'
    BY <2>1, Zenon DEF BoxInv, BoxTypes, SyncedInv, Holds, SlotAt
  <2> QED
    BY <2>1, <2>2, MappingKept, Zenon DEF BoxInv
<1> QED
  BY <1>1, OpenBoxStep, CopyStep, CountStep, SyncStep, WriteBackHeaderStep, WriteBackHalfStep,
     KillRecorderStep, PowerLossStep DEF BoxNext, Run, Record

LEMMA BoxStart == BoxInit => BoxInv
<1> SUFFICES ASSUME BoxInit PROVE BoxInv
  OBVIOUS
<1>1. cache.header.capacity = 0 /\ cache \in BoxFiles /\ disk \in BoxFiles
  BY FreshFile DEF BoxInit
<1>2. BoxTypes
  BY <1>1, Zenon DEF BoxInit, BoxTypes
<1>3. SyncedInv /\ RingInv
  BY <1>1 DEF BoxInit, SyncedInv, RingInv
<1>4. FillInv
  BY DEF BoxInit, FillInv
<1> QED
  BY <1>2, <1>3, <1>4 DEF BoxInv

\* The places of a dump are those of the ring, from its oldest sample on.
LEMMA DumpPlaces ==
  ASSUME NEW file \in BoxFiles, file.header.capacity # 0
  PROVE  LET c == file.header.capacity
             n == file.header.index
             w == Len(Dump(file))
         IN  /\ c \in Nat \ {0} /\ n \in Nat /\ w \in Nat
             /\ w <= n /\ w <= c /\ (w = c \/ (w = n /\ n < c))
             /\ \A i \in 1 .. w : Dump(file)[i] = file.slots[(n - w + i - 1) % c]
<1> DEFINE c == file.header.capacity
           n == file.header.index
           w == IF n > c THEN c ELSE n
           f == IF n > c THEN n % c ELSE 0
<1>1. /\ c \in Nat \ {0} /\ n \in Nat /\ w \in Nat /\ f \in 0 .. c - 1
      /\ w <= c /\ w <= n
      /\ Dump(file) = [k \in 1 .. w |-> file.slots[(f + k - 1) % c]]
  BY DumpOf, Zenon
<1>2. (n <= c /\ w = n /\ f = 0) \/ (n > c /\ f = n % c /\ w = c)
  BY <1>1
<1> HIDE DEF c, n, w, f
<1>3. Len(Dump(file)) = w /\ \A i \in 1 .. w : Dump(file)[i] = file.slots[(f + i - 1) % c]
  <2>1. Len(Dump(file)) = w
    BY <1>1
  <2> QED
    BY <1>1, <2>1, Zenon
<1>4. w = c \/ (w = n /\ n < c)
  BY <1>1, <1>2
<1>5. ASSUME NEW i \in 1 .. w PROVE (f + i - 1) % c = (n - w + i - 1) % c
  <2> DEFINE j == n - w + i - 1
  <2>1. CASE n <= c /\ w = n /\ f = 0
    BY <1>1, <2>1
  <2>2. CASE n > c /\ f = n % c /\ w = c
    <3>1. i - 1 \in Nat /\ f + i - 1 = f + (i - 1) /\ n + (i - 1) = j + c /\ j \in Nat
      BY <1>1, <2>2
    <3>2. (f + (i - 1)) % c = (n + (i - 1)) % c
      BY <1>1, <2>2, <3>1, ModOn, Zenon
    <3>3. (j + c) % c = j % c
      BY <1>1, <3>1, ModTurn
    <3> QED
      BY <3>1, <3>2, <3>3
  <2> QED
    BY <1>2, <2>1, <2>2
<1>6. \A i \in 1 .. w : Dump(file)[i] = file.slots[(n - w + i - 1) % c]
  BY <1>3, <1>5, Zenon
<1> QED
  BY <1>1, <1>3, <1>4, <1>6 DEF c, n

\* What the invariant says of the dump of the mapping.
LEMMA DumpInOrder ==
  ASSUME BoxInv, orderly, cache.header.capacity # 0,
         NEW i \in (IF Spoilt THEN 2 ELSE 1) .. Len(Dump(cache))
  PROVE  LET dump == Dump(cache)
             next == IF i < Len(dump) THEN dump[i + 1][1] ELSE Top
         IN  /\ dump[i][1] = dump[i][2]
             /\ dump[i][1] \in 1 .. next - 1
             /\ dump[i][1] + 1 .. next - 1 \subseteq lost
<1> DEFINE c == cache.header.capacity
           n == cache.header.index
           w == Len(Dump(cache))
           j == n - w + i - 1
           this == cache.slots[j % c]
           next == IF j + 1 < n THEN cache.slots[(j + 1) % c][1] ELSE Top
<1>1. /\ cache \in BoxFiles /\ recorded \in Nat
      /\ cache.slots \in [Slots -> Nat \X Nat]
  BY FileFields DEF BoxInv, BoxTypes
<1>2. /\ c \in Nat \ {0} /\ n \in Nat /\ w \in Nat
      /\ w <= n /\ w <= c /\ (w = c \/ (w = n /\ n < c))
      /\ \A k \in 1 .. w : Dump(cache)[k] = cache.slots[(n - w + k - 1) % c]
  BY <1>1, DumpPlaces, Zenon
<1>3. InOrder(cache.slots, c, From, n, Top, lost)
  BY Zenon DEF BoxInv, RingInv
<1>4. From = n - c + (IF Spoilt THEN 1 ELSE 0) /\ Top \in Nat
  BY <1>1 DEF From, Top
<1>5. 0 .. c - 1 \subseteq Slots
  BY <1>1, DumpOf, Zenon
<1> HIDE DEF c, n, w
<1>6. i \in 1 .. w /\ (Spoilt => i >= 2)
  <2>1. i \in (IF Spoilt THEN 2 ELSE 1) .. w
    BY Zenon DEF w
  <2> QED
    BY <1>2, <2>1
<1>7. j \in Nat /\ From <= j /\ j < n /\ (j + 1 < n <=> i < w)
  BY <1>2, <1>4, <1>6
<1>8. Dump(cache)[i] = this
  BY <1>2, <1>6, Zenon
<1>9. i < w => Dump(cache)[i + 1] = cache.slots[(j + 1) % c]
  <2> SUFFICES ASSUME i < w PROVE Dump(cache)[i + 1] = cache.slots[(j + 1) % c]
    OBVIOUS
  <2>1. i + 1 \in 1 .. w /\ n - w + (i + 1) - 1 = j + 1
    BY <1>2, <1>6
  <2> QED
    BY <1>2, <2>1, Zenon
<1>10. /\ this[1] = this[2] /\ 1 <= this[1] /\ this[1] < next
       /\ \A l \in Nat : this[1] < l /\ l < next => l \in lost
  BY <1>3, <1>7, Zenon DEF InOrder
<1>11. this[1] \in Nat /\ next \in Nat
  <2>1. ASSUME NEW k \in Nat PROVE cache.slots[k % c][1] \in Nat
    <3>1. k % c \in Slots
      BY <1>2, <1>5, DivMod
    <3> QED
      BY <1>1, <3>1
  <2>2. j + 1 \in Nat
    BY <1>7
  <2> HIDE DEF j
  <2> QED
    BY <1>4, <1>7, <2>1, <2>2
<1>12. next = IF i < w THEN Dump(cache)[i + 1][1] ELSE Top
  BY <1>7, <1>9, Zenon
<1> HIDE DEF this, next
<1>13. this[1] \in 1 .. next - 1 /\ this[1] + 1 .. next - 1 \subseteq lost
  <2>1. \A l \in this[1] + 1 .. next - 1 : l \in Nat /\ this[1] < l /\ l < next
    BY <1>11
  <2>2. this[1] + 1 .. next - 1 \subseteq lost
    BY <1>10, <2>1, Zenon
  <2>3. this[1] \in 1 .. next - 1
    BY <1>10, <1>11
  <2> QED
    BY <2>2, <2>3
<1> QED
  BY <1>8, <1>10, <1>12, <1>13, Zenon DEF w

\* A sample a Sync covered and nothing has overwritten is in the dump of what a
\* power loss leaves, whichever pages the kernel wrote back; and while there was
\* none the dump is the last samples, whole and in order, but for the first
\* place of a full ring when a Record is, or was killed, on its way, for rings of
\* any capacity (Recorder.Record, Recorder.Sync and Dump).
THEOREM BlackBoxSurvives == BoxSpec => []SyncedSurvives
<1>1. BoxInv => SyncedSurvives
  <2> SUFFICES ASSUME BoxInv PROVE SyncedSurvives
    OBVIOUS
  <2>1. ASSUME NEW s \in synced PROVE s \in WholeSamples(disk)
    <3>1. s \in Nat /\ disk \in BoxFiles
      BY DEF BoxInv, BoxTypes
    <3>2. s # 0 /\ disk.header.capacity # 0 /\ \E k \in Slots : Holds(disk, k, s)
      BY DEF BoxInv, SyncedInv
    <3> QED
      BY <3>1, <3>2, DumpHolds
  <2>2. ASSUME orderly, cache.header.capacity # 0,
               NEW i \in (IF Spoilt THEN 2 ELSE 1) .. Len(Dump(cache))
        PROVE  LET dump == Dump(cache)
                   next == IF i < Len(dump) THEN dump[i + 1][1] ELSE Top
               IN  /\ dump[i][1] = dump[i][2]
                   /\ dump[i][1] \in 1 .. next - 1
                   /\ dump[i][1] + 1 .. next - 1 \subseteq lost
    BY <2>2, DumpInOrder, Zenon
  <2> QED
    BY <2>1, <2>2, Zenon DEF SyncedSurvives, Top
<1> QED
  BY <1>1, BoxStart, BoxStep, PTL DEF BoxSpec
=============================================================================
