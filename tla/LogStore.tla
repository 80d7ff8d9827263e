------------------------------ MODULE LogStore ------------------------------
(***************************************************************************)
(* internal/logstore: lines gather in a memory buffer per (host, source)   *)
(* and become a compressed block, a payload file and then a metadata       *)
(* sidecar.  Append and Flush run on the goroutine of each ingest request; *)
(* the lock covers the buffers but not the writing of a block.             *)
(***************************************************************************)
EXTENDS Naturals, FiniteSets

CONSTANTS
  Lines,      \* log lines, each of them appended at most once
  KeyOf,      \* [Lines -> (host, source) pair of the line]
  Writers,    \* goroutines that use the store
  MaxLines,   \* maxBytes, in lines
  MaxAge,     \* maxAge, in ticks of the clock
  MaxClock,   \* bound on the clock
  MaxLogFaults \* bound on failed writes and crashes

Keys == {KeyOf[l] : l \in Lines}

NoKey == "none"

VARIABLES
  clock,     \* Store.now
  buffers,   \* Store.buffers: the lines of each key and firstAt
  writer,    \* what each goroutine is doing
  blocks,    \* the blocks begun: their lines, which of their files exist
  taken,     \* the lines Append accepted
  lost,      \* lines gone with a failed write or a crash
  logFaults

logVars == <<clock, buffers, writer, blocks, taken, lost, logFaults>>

Empty == [lines |-> {}, firstAt |-> 0]

Idle == [at |-> "idle", key |-> NoKey, lines |-> {}]

LogInit ==
  /\ clock = 0
  /\ buffers = [k \in Keys |-> Empty]
  /\ writer = [w \in Writers |-> Idle]
  /\ blocks = {}
  /\ taken = {}
  /\ lost = {}
  /\ logFaults = 0

Tick ==
  /\ clock < MaxClock
  /\ clock' = clock + 1
  /\ UNCHANGED <<buffers, writer, blocks, taken, lost, logFaults>>

\* Store.Append up to its unlock: the line joins the buffer of its key (a new
\* buffer starts its age now), and the goroutine decides whether to flush.
\* Only an Append looks at the age: no timer does.
AppendLine(w, l) ==
  LET k   == KeyOf[l]
      buf == [lines   |-> buffers[k].lines \cup {l},
              firstAt |-> IF buffers[k].lines = {} THEN clock ELSE buffers[k].firstAt]
      shouldFlush == \/ Cardinality(buf.lines) >= MaxLines
                     \/ clock - buf.firstAt >= MaxAge
  IN  /\ writer[w] = Idle
      /\ l \notin taken
      /\ taken' = taken \cup {l}
      /\ buffers' = [buffers EXCEPT ![k] = buf]
      /\ writer' = IF shouldFlush
                     THEN [writer EXCEPT ![w] = [Idle EXCEPT !.at = "flush", !.key = k]]
                     ELSE writer
      /\ UNCHANGED <<clock, blocks, lost, logFaults>>

\* The buffer stays in the map until its block is written.
FlushKeepingBuffer(w) ==
  /\ writer[w].at = "flush"
  /\ LET buf == buffers[writer[w].key]
     IN  IF buf.lines = {}
           THEN writer' = [writer EXCEPT ![w] = Idle]
           ELSE writer' = [writer EXCEPT ![w].at = "payload", ![w].lines = buf.lines]
  /\ UNCHANGED <<clock, buffers, blocks, taken, lost, logFaults>>

\* Flush under the lock: whoever comes first takes the whole buffer out of
\* the map; a second Flush for the same key finds nothing to do.
Flush(w) ==
  /\ writer[w].at = "flush"
  /\ LET k == writer[w].key
     IN  IF buffers[k].lines = {}
           THEN /\ writer' = [writer EXCEPT ![w] = Idle]
                /\ UNCHANGED buffers
           ELSE /\ writer' = [writer EXCEPT ![w].at = "payload",
                                            ![w].lines = buffers[k].lines]
                /\ buffers' = [buffers EXCEPT ![k] = Empty]
  /\ UNCHANGED <<clock, blocks, taken, lost, logFaults>>

\* The sidecar goes first, the payload after it.
WritePayloadAfterMeta(w) ==
  /\ writer[w].at = "payload"
  /\ blocks' = blocks \cup {[lines |-> writer[w].lines, payload |-> FALSE, meta |-> TRUE]}
  /\ writer' = [writer EXCEPT ![w].at = "meta"]
  /\ UNCHANGED <<clock, buffers, taken, lost, logFaults>>

\* writeBlock, first half: the compressed lines under a new id.  writeAtomic
\* leaves no partial file under the final name.
WritePayload(w) ==
  /\ writer[w].at = "payload"
  /\ blocks' = blocks \cup {[lines |-> writer[w].lines, payload |-> TRUE, meta |-> FALSE]}
  /\ writer' = [writer EXCEPT ![w].at = "meta"]
  /\ UNCHANGED <<clock, buffers, taken, lost, logFaults>>

\* writeBlock, second half: the metadata sidecar.
WriteMeta(w) ==
  /\ writer[w].at = "meta"
  /\ blocks' = {IF b.lines = writer[w].lines
                  THEN [b EXCEPT !.payload = TRUE, !.meta = TRUE] ELSE b : b \in blocks}
  /\ writer' = [writer EXCEPT ![w] = Idle]
  /\ UNCHANGED <<clock, buffers, taken, lost, logFaults>>

LogFault ==
  /\ logFaults < MaxLogFaults
  /\ logFaults' = logFaults + 1

\* Creating the directory or a file fails: Flush returns the error, and the
\* lines it had taken out of the map are in no buffer any more.
WriteFails(w) ==
  /\ writer[w].at \in {"payload", "meta"}
  /\ LogFault
  /\ lost' = IF writer[w].at = "payload" THEN lost \cup writer[w].lines ELSE lost
  /\ writer' = [writer EXCEPT ![w] = Idle]
  /\ UNCHANGED <<clock, buffers, blocks, taken>>

\* The hub stops or dies; it has no shutdown path that flushes the buffers.
CrashHub ==
  /\ LogFault
  /\ lost' = lost \cup (UNION {buffers[k].lines : k \in Keys})
        \cup (UNION {writer[w].lines : w \in {v \in Writers : writer[v].at = "payload"}})
  /\ buffers' = [k \in Keys |-> Empty]
  /\ writer' = [w \in Writers |-> Idle]
  /\ UNCHANGED <<clock, blocks, taken>>

\* ScanIndex walks the directory: what has both files is a block, what has
\* one of them an orphan.
ScanIndex ==
  [Blocks         |-> {b \in blocks : b.payload /\ b.meta},
   OrphanPayloads |-> {b \in blocks : b.payload /\ ~b.meta},
   OrphanMeta     |-> {b \in blocks : b.meta /\ ~b.payload}]

\* FlushAll, one key after the other, on a goroutine of its own.
FlushAll(w) ==
  /\ writer[w] = Idle
  /\ \E k \in Keys :
       /\ buffers[k].lines # {}
       /\ writer' = [writer EXCEPT ![w] = [Idle EXCEPT !.at = "flush", !.key = k]]
  /\ UNCHANGED <<clock, buffers, blocks, taken, lost, logFaults>>

LogNext ==
  \/ Tick
  \/ \E w \in Writers :
       \/ \E l \in Lines : AppendLine(w, l)
       \/ Flush(w)
       \/ FlushAll(w)
       \/ WritePayload(w)
       \/ WriteMeta(w)
       \/ WriteFails(w)
  \/ CrashHub

LogSpec == LogInit /\ [][LogNext]_logVars

-----------------------------------------------------------------------------
LogTypeOK ==
  /\ clock \in 0 .. MaxClock
  /\ buffers \in [Keys -> [lines : SUBSET Lines, firstAt : 0 .. MaxClock]]
  /\ writer \in [Writers -> [at : {"idle", "flush", "payload", "meta"},
                             key : Keys \cup {NoKey}, lines : SUBSET Lines]]
  /\ blocks \subseteq [lines : SUBSET Lines, payload : BOOLEAN, meta : BOOLEAN]
  /\ taken \subseteq Lines
  /\ lost \subseteq Lines
  /\ logFaults \in 0 .. MaxLogFaults

\* The places a line can be in: a buffer, the hands of a goroutine that has
\* not written it yet, a block, or lost.
Places(l) ==
  {<<"buffer", k>> : k \in {k \in Keys : l \in buffers[k].lines}}
    \cup {<<"writer", w>> : w \in {w \in Writers :
                                     writer[w].at = "payload" /\ l \in writer[w].lines}}
    \cup {<<"block", b>> : b \in {b \in blocks : l \in b.lines}}
    \cup {<<"lost", x>> : x \in lost \cap {l}}

\* However the Appends and Flushes of several requests interleave around the
\* unlocked writing of a block, every accepted line is in exactly one place:
\* no race writes it into two blocks or drops it between buffer and file.
LineInOnePlace ==
  \A l \in taken : Cardinality(Places(l)) = 1

\* What index.go calls a well-formed store survives a crash in the middle of
\* a block in one direction: a sidecar always has its payload, so ScanIndex
\* may find an unindexed payload but never a block it cannot read.
NoOrphanMeta == ScanIndex.OrphanMeta = {}
=============================================================================
