------------------------------ MODULE Journald ------------------------------
(***************************************************************************)
(* internal/collector/journald: a Collect reads journal entries from where *)
(* the reader stands, hands them to the sink as log lines and then         *)
(* persists the cursor of the last one; a start of the agent seeks to the  *)
(* persisted cursor.                                                       *)
(*                                                                         *)
(* The runtime abandons a Collect that runs too long, so that two of them  *)
(* may share the reader and the cursor.  An entry is its place among those *)
(* written since the agent was first started, which seeks to the tail; the *)
(* cursor of an entry is the entry.                                        *)
(***************************************************************************)
EXTENDS Naturals, FiniteSets, FiniteSetsExt

CONSTANTS
  NumEntries,           \* bound on the entries of the journal
  MaxEntriesPerCollect, \* maxEntriesPerCollect
  Calls,                \* Collect calls that can run at once
  MaxJournalFaults      \* bound on crashes, read errors and timeouts

VARIABLES
  written,      \* entries the journal holds so far
  position,     \* the entry the reader returned last
  memCursor,    \* Collector.cursor
  diskCursor,   \* the cursor file
  collects,     \* the Collect calls under way
  emitted,      \* entries handed to the sink
  skipped,      \* entries a seek to the tail left out
  dropped,      \* entries a Collect read and never handed to the sink
  cut,          \* some Collect was abandoned or stopped by an error
  journalFaults

journalVars == <<written, position, memCursor, diskCursor, collects, emitted,
                 skipped, dropped, cut, journalFaults>>

NoCollect == [at |-> "none", lines |-> {}, last |-> 0, ctx |-> "live"]

JournalInit ==
  /\ written = 0
  /\ position = 0
  /\ memCursor = 0
  /\ diskCursor = 0
  /\ collects = [k \in Calls |-> NoCollect]
  /\ emitted = {}
  /\ skipped = {}
  /\ dropped = {}
  /\ cut = FALSE
  /\ journalFaults = 0

JournalFault ==
  /\ journalFaults < MaxJournalFaults
  /\ journalFaults' = journalFaults + 1

\* systemd appends an entry.
WriteEntry ==
  /\ written < NumEntries
  /\ written' = written + 1
  /\ UNCHANGED <<position, memCursor, diskCursor, collects, emitted, skipped, dropped, cut, journalFaults>>

\* openSystemdJournal seeks behind the cursor, or to the tail without one.
OpenAt(cursor) == IF cursor = 0 THEN written ELSE cursor

\* The runtime starts a Collect, once the one before has returned or been
\* abandoned.
StartCollect(k) ==
  /\ collects[k].at = "none"
  /\ \A j \in Calls : collects[j].at # "none" => collects[j].ctx # "live"
  /\ collects' = [collects EXCEPT ![k] = [NoCollect EXCEPT !.at = "read", !.last = memCursor]]
  /\ UNCHANGED <<written, position, memCursor, diskCursor, emitted, skipped, dropped, cut, journalFaults>>

\* Reader.Next moves the one reader all calls share.
NextEntry == position < written /\ position' = position + 1

\* The cursor is saved with every entry.
ReadEntryPersisting(k) ==
  /\ collects[k].at = "read"
  /\ Cardinality(collects[k].lines) < MaxEntriesPerCollect
  /\ collects[k].ctx # "seen"
  /\ NextEntry
  /\ diskCursor' = position + 1
  /\ collects' = [collects EXCEPT ![k].lines = @ \cup {position + 1}, ![k].last = position + 1,
                                  ![k].ctx = IF @ = "live" THEN "live" ELSE "seen"]
  /\ UNCHANGED <<written, memCursor, emitted, skipped, dropped, cut, journalFaults>>

\* A call that was abandoned looks at its context before each entry: it reads
\* one more at most.
ReadEntry(k) ==
  /\ collects[k].at = "read"
  /\ Cardinality(collects[k].lines) < MaxEntriesPerCollect
  /\ collects[k].ctx # "seen"
  /\ NextEntry
  /\ collects' = [collects EXCEPT ![k].lines = @ \cup {position + 1}, ![k].last = position + 1,
                                  ![k].ctx = IF @ = "live" THEN "live" ELSE "seen"]
  /\ UNCHANGED <<written, memCursor, diskCursor, emitted, skipped, dropped, cut, journalFaults>>

\* Nothing more to read, or the limit: the lines go to the sink.
EmitLines(k) ==
  /\ collects[k].at = "read"
  /\ \/ position = written /\ collects[k].ctx # "seen"
     \/ Cardinality(collects[k].lines) = MaxEntriesPerCollect
  /\ emitted' = emitted \cup collects[k].lines
  /\ collects' = [collects EXCEPT ![k].at = "persist"]
  /\ UNCHANGED <<written, position, memCursor, diskCursor, skipped, dropped, cut, journalFaults>>

\* persistCursor replaces the file in one rename; a Collect that read nothing
\* new, or that finds its cursor already there, writes nothing.
PersistCursor(k) ==
  /\ collects[k].at = "persist"
  /\ IF collects[k].last # 0 /\ collects[k].last # memCursor
       THEN /\ diskCursor' = collects[k].last
            /\ memCursor' = collects[k].last
       ELSE UNCHANGED <<diskCursor, memCursor>>
  /\ collects' = [collects EXCEPT ![k] = NoCollect]
  /\ UNCHANGED <<written, position, emitted, skipped, dropped, cut, journalFaults>>

\* The cursor file cannot be written.
PersistFails(k) ==
  /\ collects[k].at = "persist"
  /\ JournalFault
  /\ collects' = [collects EXCEPT ![k] = NoCollect]
  /\ UNCHANGED <<written, position, memCursor, diskCursor, emitted, skipped, dropped, cut>>

\* The timeout: the runtime stops waiting for k.
Abandon(k) ==
  /\ collects[k].at # "none"
  /\ collects[k].ctx = "live"
  /\ JournalFault
  /\ cut' = TRUE
  /\ collects' = [collects EXCEPT ![k].ctx = "done"]
  /\ UNCHANGED <<written, position, memCursor, diskCursor, emitted, skipped, dropped>>

\* A Collect that sees its context done, or that the journal gives an error,
\* returns without the lines it holds.
ReadStops(k) ==
  /\ collects[k].at = "read"
  /\ IF collects[k].ctx = "live" THEN JournalFault ELSE UNCHANGED journalFaults
  /\ cut' = TRUE
  /\ dropped' = dropped \cup collects[k].lines
  /\ collects' = [collects EXCEPT ![k] = NoCollect]
  /\ UNCHANGED <<written, position, memCursor, diskCursor, emitted, skipped>>

\* Next moves on to an entry that GetEntry then cannot read: the entry goes the
\* way of the lines at hand.
EntryFails(k) ==
  /\ collects[k].at = "read"
  /\ Cardinality(collects[k].lines) < MaxEntriesPerCollect
  /\ collects[k].ctx # "seen"
  /\ NextEntry
  /\ JournalFault
  /\ cut' = TRUE
  /\ dropped' = dropped \cup collects[k].lines \cup {position + 1}
  /\ collects' = [collects EXCEPT ![k] = NoCollect]
  /\ UNCHANGED <<written, memCursor, diskCursor, emitted, skipped>>

\* The agent dies and starts: Init reads the cursor file and seeks behind it,
\* past what another call has let the cursor run over; as long as no cursor was
\* ever saved it seeks to the tail, past whatever the sink has not got.
RestartJournal ==
  /\ JournalFault
  /\ dropped' = dropped \cup UNION {collects[k].lines \cap 1 .. diskCursor : k \in Calls}
  /\ memCursor' = diskCursor
  /\ position' = OpenAt(diskCursor)
  /\ skipped' = IF diskCursor = 0 THEN skipped \cup (1 .. written \ emitted) ELSE skipped
  /\ collects' = [k \in Calls |-> NoCollect]
  /\ UNCHANGED <<written, diskCursor, emitted, cut>>

JournalNext ==
  \/ WriteEntry
  \/ \E k \in Calls : StartCollect(k)
  \/ \E k \in Calls : ReadEntry(k)
  \/ \E k \in Calls : EmitLines(k)
  \/ \E k \in Calls : PersistCursor(k)
  \/ \E k \in Calls : PersistFails(k)
  \/ \E k \in Calls : Abandon(k)
  \/ \E k \in Calls : ReadStops(k)
  \/ \E k \in Calls : EntryFails(k)
  \/ RestartJournal

JournalSpec == JournalInit /\ [][JournalNext]_journalVars

-----------------------------------------------------------------------------
JournalTypeOK ==
  /\ written \in 0 .. NumEntries
  /\ position \in 0 .. written
  /\ {memCursor, diskCursor} \subseteq 0 .. written
  /\ \A k \in Calls : collects[k].lines \subseteq 1 .. written

\* The persisted cursor passes over an entry only when the entry was handed to
\* the sink, is in the hands of a Collect under way, was dropped by one that did
\* not finish, or was skipped by a restart that found no cursor file; and as
\* long as no Collect was cut short, by its timeout or by an error, the last of
\* these is the only loss: a crash, or a failure to save the cursor, loses what
\* was written before the first cursor was saved, and nothing afterwards.
LostOnlyWhenCutShort ==
  LET passed == 1 .. diskCursor
  IN  /\ passed \subseteq emitted \cup skipped \cup dropped
                           \cup UNION {collects[k].lines : k \in Calls}
      /\ ~cut => passed \subseteq emitted \cup skipped
=============================================================================
