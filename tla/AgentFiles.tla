----------------------------- MODULE AgentFiles -----------------------------
(***************************************************************************)
(* The small files of the agent's host: the spool entries helpers write    *)
(* (internal/spool), the host_id (internal/schema) and the cursor of the   *)
(* journald collector.                                                     *)
(*                                                                         *)
(* A file is replaced by writing a temporary file, syncing it and renaming *)
(* it.  The rename is not synced: after a power loss the directory holds   *)
(* the old name or the new one, and a file whose content was not synced    *)
(* may be there with part of it.  An inode is the number of its creation,  *)
(* 0 is no file.                                                           *)
(***************************************************************************)
EXTENDS Naturals, Sequences

CONSTANTS
  FileNames,    \* the files, "spool", "host_id" and "cursor" among them
  Processes,    \* the processes that replace them
  MaxInodes, MaxFileFaults

ASSUME FilesAssumption == {"spool", "host_id", "cursor"} \subseteq FileNames

VARIABLES
  name,         \* path -> inode, as processes see it
  durable,      \* path -> inode, as the disk has it
  inode,        \* sequence: what each inode holds
  writer,       \* where each process is in replacing which file
  hostID,       \* process -> the host_id it works with
  contended,    \* two processes were creating the host_id at once
  powerLost,    \* the host has lost power
  fileFaults

fileVars == <<name, durable, inode, writer, hostID, contended, powerLost, fileFaults>>

Idle == [path |-> "none", at |-> "idle", inode |-> 0]

FilesInit ==
  /\ name = [p \in FileNames |-> 0]
  /\ durable = [p \in FileNames |-> 0]
  /\ inode = <<>>
  /\ writer = [w \in Processes |-> Idle]
  /\ hostID = [w \in Processes |-> 0]
  /\ contended = FALSE
  /\ powerLost = FALSE
  /\ fileFaults = 0

FileFault == fileFaults < MaxFileFaults /\ fileFaults' = fileFaults + 1

\* The first half of each replacement: the directory is there, and CreateTemp
\* makes a file of its own.
CreateTemp(w, path) ==
  /\ writer[w].at = "idle"
  /\ Len(inode) < MaxInodes
  /\ inode' = Append(inode, "empty")
  /\ writer' = [writer EXCEPT ![w] = [path |-> path, at |-> "created", inode |-> Len(inode) + 1]]
  /\ UNCHANGED <<name, durable, hostID, contended, powerLost, fileFaults>>

WriteTemp(w) ==
  /\ writer[w].at = "created"
  /\ inode' = [inode EXCEPT ![writer[w].inode] = "written"]
  /\ writer' = [writer EXCEPT ![w].at = "written"]
  /\ UNCHANGED <<name, durable, hostID, contended, powerLost, fileFaults>>

SyncTemp(w) ==
  /\ writer[w].at = "written"
  /\ inode' = [inode EXCEPT ![writer[w].inode] = "synced"]
  /\ writer' = [writer EXCEPT ![w].at = "synced"]
  /\ UNCHANGED <<name, durable, hostID, contended, powerLost, fileFaults>>

RenameTemp(w) ==
  /\ writer[w].at = "synced"
  /\ name' = [name EXCEPT ![writer[w].path] = writer[w].inode]
  /\ hostID' = IF writer[w].path = "host_id" THEN [hostID EXCEPT ![w] = writer[w].inode] ELSE hostID
  /\ writer' = [writer EXCEPT ![w] = Idle]
  /\ UNCHANGED <<durable, inode, contended, powerLost, fileFaults>>

\* The file is renamed as soon as it is written.
RenameUnsynced(w) ==
  /\ writer[w].at = "written"
  /\ name' = [name EXCEPT ![writer[w].path] = writer[w].inode]
  /\ writer' = [writer EXCEPT ![w] = Idle]
  /\ UNCHANGED <<durable, inode, hostID, contended, powerLost, fileFaults>>

WriteAtomicUnsynced(w) ==
  \/ CreateTemp(w, "spool")
  \/ writer[w].path = "spool" /\ (WriteTemp(w) \/ RenameUnsynced(w))

\* spool.WriteAtomic, of a helper or of jobwriter.
WriteAtomic(w) ==
  \/ CreateTemp(w, "spool")
  \/ writer[w].path = "spool" /\ (WriteTemp(w) \/ SyncTemp(w) \/ RenameTemp(w))

\* persistCursor.
persistCursor(w) ==
  \/ CreateTemp(w, "cursor")
  \/ writer[w].path = "cursor" /\ (WriteTemp(w) \/ SyncTemp(w) \/ RenameTemp(w))

\* The temporary file of a host_id, maybe while another process has one.
NewHostID(w) ==
  /\ writer[w].at = "idle"
  /\ Len(inode) < MaxInodes
  /\ inode' = Append(inode, "empty")
  /\ writer' = [writer EXCEPT ![w] = [path |-> "host_id", at |-> "created",
                                      inode |-> Len(inode) + 1]]
  /\ contended' = (contended \/ \E v \in Processes : writer[v].path = "host_id")
  /\ UNCHANGED <<name, durable, hostID, powerLost, fileFaults>>

\* Every start makes a new identity.
CreateHostIDAlways(w) == hostID[w] = 0 /\ NewHostID(w)

\* LoadOrCreateHostID: what is there is used, and when nothing is there a new
\* one is made ...
LoadHostID(w) ==
  /\ writer[w].at = "idle"
  /\ hostID[w] = 0
  /\ name["host_id"] # 0
  /\ hostID' = [hostID EXCEPT ![w] = name["host_id"]]
  /\ UNCHANGED <<name, durable, inode, writer, contended, powerLost, fileFaults>>

CreateHostID(w) ==
  /\ hostID[w] = 0
  /\ name["host_id"] = 0
  /\ NewHostID(w)

\* ... and saved by persistHostID.
persistHostID(w) ==
  writer[w].path = "host_id" /\ (WriteTemp(w) \/ SyncTemp(w) \/ RenameTemp(w))

\* A step fails: the temporary file is removed and the error returned.
ReplaceFails(w) ==
  /\ writer[w].at # "idle"
  /\ FileFault
  /\ writer' = [writer EXCEPT ![w] = Idle]
  /\ UNCHANGED <<name, durable, inode, hostID, contended, powerLost>>

\* The disk gets the directory.
WriteBackName(path) ==
  /\ durable[path] # name[path]
  /\ durable' = [durable EXCEPT ![path] = name[path]]
  /\ UNCHANGED <<name, inode, writer, hostID, contended, powerLost, fileFaults>>

\* One process dies.
KillProcess(w) ==
  /\ FileFault
  /\ writer' = [writer EXCEPT ![w] = Idle]
  /\ hostID' = [hostID EXCEPT ![w] = 0]
  /\ UNCHANGED <<name, durable, inode, contended, powerLost>>

\* The host loses power: what was not synced may be torn.
LosePower(torn) ==
  /\ FileFault
  /\ torn \subseteq {i \in 1 .. Len(inode) : inode[i] # "synced"}
  /\ inode' = [i \in 1 .. Len(inode) |-> IF i \in torn THEN "torn" ELSE inode[i]]
  /\ name' = durable
  /\ writer' = [w \in Processes |-> Idle]
  /\ hostID' = [w \in Processes |-> 0]
  /\ powerLost' = TRUE
  /\ UNCHANGED <<durable, contended>>

FilesNext ==
  \/ \E w \in Processes : WriteAtomic(w)
  \/ \E w \in Processes : persistCursor(w)
  \/ \E w \in Processes : LoadHostID(w)
  \/ \E w \in Processes : CreateHostID(w)
  \/ \E w \in Processes : persistHostID(w)
  \/ \E w \in Processes : ReplaceFails(w)
  \/ \E p \in FileNames : WriteBackName(p)
  \/ \E w \in Processes : KillProcess(w)
  \/ \E torn \in SUBSET (1 .. Len(inode)) : LosePower(torn)

FilesSpec == FilesInit /\ [][FilesNext]_fileVars

\* spool.ReadDir: the entries that parse.
ReadDir == {p \in FileNames : name[p] # 0 /\ inode[name[p]] \in {"written", "synced"}}

-----------------------------------------------------------------------------
FilesTypeOK ==
  /\ name \in [FileNames -> 0 .. Len(inode)]
  /\ durable \in [FileNames -> 0 .. Len(inode)]
  /\ hostID \in [Processes -> 0 .. Len(inode)]

\* Whoever reads a replaced file reads all of it, whichever process died or
\* power loss came between the steps of whichever writers.
WholeFilesOnly == \A p \in FileNames : name[p] # 0 => p \in ReadDir

\* Every process works with the host_id of the file, through failed and killed
\* creations, as long as no two processes were creating it at once and the host
\* kept its power.
IdentityIsShared ==
  ~contended /\ ~powerLost =>
    \A w \in Processes : hostID[w] # 0 => hostID[w] = name["host_id"]
=============================================================================
