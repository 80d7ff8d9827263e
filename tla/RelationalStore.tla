--------------------------- MODULE RelationalStore ---------------------------
(***************************************************************************)
(* internal/storage, the SQLite backend: one database per month, opened    *)
(* when first used, one goroutine that runs every write, and callers that  *)
(* hand it a closure and wait for its answer or for their own context.     *)
(***************************************************************************)
EXTENDS Naturals, FiniteSets

CONSTANTS
  Events,        \* event ids
  MonthOf,       \* [Events -> Months]: monthKey of the event's own timestamp
  Inventories,   \* reports of one (host, kind)
  Months,
  Callers,       \* goroutines that write
  MaxCalls,      \* bound on the writes of each caller
  MaxStoreFaults \* bound on crashes and failed statements

VARIABLES
  caller,    \* what each caller is doing
  writerAt,  \* the writer goroutine
  isClosed,  \* closeCh is closed
  opened,    \* the months in SQLiteStore.dbs, and invDB
  stored,    \* rows of the events tables
  indexed,   \* rows of the events_fts tables
  inventory, \* the row of the inventories table, or Nothing
  acked,     \* writes some caller was told succeeded
  cut,       \* events whose second statement did not run
  storeFaults

storeVars == <<caller, writerAt, isClosed, opened, stored, indexed,
               inventory, acked, cut, storeFaults>>

Writes == Events \cup Inventories

Nothing == "nothing"

InventoryFile == "inventory.db"

Resting == [at |-> "idle", n |-> 0, req |-> Nothing, reply |-> "none"]

Selecting == [at |-> "select", by |-> "nobody", n |-> 0, req |-> Nothing]

StoreInit ==
  /\ caller = [c \in Callers |-> Resting]
  /\ writerAt = Selecting
  /\ isClosed = FALSE
  /\ opened = {}
  /\ stored = {}
  /\ indexed = {}
  /\ inventory = Nothing
  /\ acked = {}
  /\ cut = {}
  /\ storeFaults = 0

StoreFault ==
  /\ storeFaults < MaxStoreFaults
  /\ storeFaults' = storeFaults + 1

-----------------------------------------------------------------------------
(* Writes *)

\* InsertEvent and UpsertInventory build their closure and call enqueueWrite.
Enqueue(c, r) ==
  /\ caller[c].at = "idle"
  /\ caller[c].n < MaxCalls
  /\ caller' = [caller EXCEPT ![c] = [at |-> "offer", n |-> @.n + 1, req |-> r,
                                      reply |-> "none"]]
  /\ UNCHANGED <<writerAt, isClosed, opened, stored, indexed, inventory,
                 acked, cut, storeFaults>>

\* enqueueWrite returns as soon as the writer has the closure.
HandOverAnswered(c) ==
  /\ caller[c].at = "offer"
  /\ writerAt.at = "select"
  /\ caller' = [caller EXCEPT ![c].at = "wait", ![c].reply = "ok"]
  /\ writerAt' = [at |-> "row", by |-> c, n |-> caller[c].n, req |-> caller[c].req]
  /\ UNCHANGED <<isClosed, opened, stored, indexed, inventory, acked, cut, storeFaults>>

\* writeCh has no buffer: the offer and the writer's receive are one step.
HandOver(c) ==
  /\ caller[c].at = "offer"
  /\ writerAt.at = "select"
  /\ caller' = [caller EXCEPT ![c].at = "wait"]
  /\ writerAt' = [at |-> "row", by |-> c, n |-> caller[c].n, req |-> caller[c].req]
  /\ UNCHANGED <<isClosed, opened, stored, indexed, inventory, acked, cut, storeFaults>>

\* The caller's context ends, before or after the writer took its write; the
\* writer runs the closure with a context of its own.
GiveUp(c) ==
  /\ caller[c].at \in {"offer", "wait"}
  /\ caller' = [caller EXCEPT ![c] = [Resting EXCEPT !.n = caller[c].n]]
  /\ UNCHANGED <<writerAt, isClosed, opened, stored, indexed, inventory,
                 acked, cut, storeFaults>>

\* enqueueWrite sees closeCh while it offers.
OfferRefused(c) ==
  /\ caller[c].at = "offer"
  /\ isClosed
  /\ caller' = [caller EXCEPT ![c] = [Resting EXCEPT !.n = caller[c].n]]
  /\ UNCHANGED <<writerAt, isClosed, opened, stored, indexed, inventory,
                 acked, cut, storeFaults>>

\* Without the buffer the writer waits for someone to receive.
AnswerUnbuffered(result) ==
  LET c == writerAt.by
  IN  /\ caller[c].at = "wait" /\ caller[c].n = writerAt.n
      /\ caller' = [caller EXCEPT ![c].reply = result]
      /\ writerAt' = Selecting

\* The done channel has room for one answer, so the writer never waits for a
\* caller that left, and an answer never reaches a later call.
Answer(result) ==
  LET c == writerAt.by
  IN  /\ caller' = IF caller[c].at = "wait" /\ caller[c].n = writerAt.n
                     THEN [caller EXCEPT ![c].reply = result] ELSE caller
      /\ writerAt' = Selecting

\* A database is opened and migrated when it is first used, and cached.
monthDB(month) == opened' = opened \cup {month}

inventoryDB == opened' = opened \cup {InventoryFile}

\* The first statement of insertEvent: an id that is there already is left as
\* it is, and that is all.
WriteRow ==
  /\ writerAt.at = "row" /\ writerAt.req \in Events
  /\ monthDB(MonthOf[writerAt.req])
  /\ stored' = stored \cup {writerAt.req}
  /\ IF writerAt.req \in stored
       THEN Answer("ok")
       ELSE writerAt' = [writerAt EXCEPT !.at = "fts"] /\ UNCHANGED caller
  /\ UNCHANGED <<isClosed, indexed, inventory, acked, cut, storeFaults>>

\* A host's inventory of a kind is one row: what comes last replaces it.
UpsertInventory ==
  /\ writerAt.at = "row" /\ writerAt.req \in Inventories
  /\ inventoryDB
  /\ inventory' = writerAt.req
  /\ Answer("ok")
  /\ UNCHANGED <<isClosed, stored, indexed, acked, cut, storeFaults>>

\* The second statement of insertEvent, in a transaction of its own.
WriteIndex ==
  /\ writerAt.at = "fts"
  /\ indexed' = indexed \cup {writerAt.req}
  /\ Answer("ok")
  /\ UNCHANGED <<isClosed, opened, stored, inventory, acked, cut, storeFaults>>

\* A statement fails; the one before it stays committed.
StatementFails ==
  /\ writerAt.at \in {"row", "fts"}
  /\ StoreFault
  /\ cut' = IF writerAt.at = "fts" THEN cut \cup {writerAt.req} ELSE cut
  /\ Answer("err")
  /\ UNCHANGED <<isClosed, opened, stored, indexed, inventory, acked>>

Receive(c) ==
  /\ caller[c].at = "wait"
  /\ caller[c].reply # "none"
  /\ acked' = IF caller[c].reply = "ok" THEN acked \cup {caller[c].req} ELSE acked
  /\ caller' = [caller EXCEPT ![c] = [Resting EXCEPT !.n = caller[c].n]]
  /\ UNCHANGED <<writerAt, isClosed, opened, stored, indexed, inventory, cut, storeFaults>>

\* Close: the writer sees closeCh the next time it selects; Close waits for
\* it before it closes the databases.
CloseStore ==
  /\ ~isClosed
  /\ isClosed' = TRUE
  /\ UNCHANGED <<caller, writerAt, opened, stored, indexed, inventory,
                 acked, cut, storeFaults>>

WriterStops ==
  /\ isClosed
  /\ writerAt.at = "select"
  /\ writerAt' = [Selecting EXCEPT !.at = "stopped"]
  /\ UNCHANGED <<caller, isClosed, opened, stored, indexed, inventory, acked, cut, storeFaults>>

\* The hub dies and comes back: no month is open until something uses it.
StoreRestart ==
  /\ StoreFault
  /\ cut' = IF writerAt.at = "fts" THEN cut \cup {writerAt.req} ELSE cut
  /\ caller' = [c \in Callers |-> [Resting EXCEPT !.n = caller[c].n]]
  /\ writerAt' = Selecting
  /\ isClosed' = FALSE
  /\ opened' = {}
  /\ UNCHANGED <<stored, indexed, inventory, acked>>

-----------------------------------------------------------------------------
(* Queries *)

\* A query opens and migrates every month it touches.
ListEvents(months) ==
  /\ writerAt.at # "stopped"
  /\ opened' = opened \cup months
  /\ UNCHANGED <<caller, writerAt, isClosed, stored, indexed, inventory,
                 acked, cut, storeFaults>>

GetInventory ==
  /\ writerAt.at # "stopped"
  /\ inventoryDB
  /\ UNCHANGED <<caller, writerAt, isClosed, stored, indexed, inventory,
                 acked, cut, storeFaults>>

\* SearchEventTitles of a word every title has: the indexed rows of the
\* months opened since the hub started.
SearchEventTitles == {e \in stored \cap indexed : MonthOf[e] \in opened}

StoreWriter == WriteRow \/ UpsertInventory \/ WriteIndex \/ WriterStops

StoreNext ==
  \/ \E c \in Callers :
       \/ \E r \in Writes : Enqueue(c, r)
       \/ HandOver(c)
       \/ GiveUp(c)
       \/ OfferRefused(c)
       \/ Receive(c)
  \/ StoreWriter
  \/ StatementFails
  \/ CloseStore
  \/ StoreRestart
  \/ ListEvents(Months)
  \/ GetInventory

StoreSpec == StoreInit /\ [][StoreNext]_storeVars

-----------------------------------------------------------------------------
StoreTypeOK ==
  /\ caller \in [Callers -> [at : {"idle", "offer", "wait"}, n : 0 .. MaxCalls,
                             req : Writes \cup {Nothing}, reply : {"none", "ok", "err"}]]
  /\ writerAt.at \in {"select", "row", "fts", "stopped"}
  /\ opened \subseteq Months \cup {InventoryFile}
  /\ stored \subseteq Events
  /\ indexed \subseteq stored
  /\ inventory \in Inventories \cup {Nothing}
  /\ acked \subseteq Writes
  /\ cut \subseteq Events
  /\ storeFaults \in 0 .. MaxStoreFaults

\* A write a caller was told succeeded has been made, whoever gave up or
\* closed the store meanwhile: the row is there, and found by its title in an
\* opened month unless a failure between the two statements cut the index off.
\* Such an event no retry repairs, because its row is already there.
AckedIsStored ==
  /\ \A e \in acked \cap Events :
       e \in stored /\ (MonthOf[e] \in opened => e \in SearchEventTitles \cup cut)
  /\ acked \cap Inventories # {} => inventory # Nothing
  /\ \A e \in stored \ indexed : e \in cut \/ (writerAt.at = "fts" /\ writerAt.req = e)

\* Every call returns, with the answer, a refusal or its context's end: a
\* caller that left keeps the writer from nobody else, and Close leaves no one
\* waiting.
EveryCallReturns ==
  \A c \in Callers : caller[c].at # "idle" ~> caller[c].at = "idle"
=============================================================================
