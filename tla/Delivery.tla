------------------------------ MODULE Delivery ------------------------------
(***************************************************************************)
(* From the agent's sink to the hub's stores: the flush loop of            *)
(* agentbuffer.Sink, the batches of agentbuffer.TransportSender, the       *)
(* exchange between transport.Client and transport.Server, and the         *)
(* writes of ingestreceiver.Receiver.  The agent's buffer is the module    *)
(* Outbox, which AgentBuffer is shown to implement.                        *)
(*                                                                         *)
(* Items are numbered in the order the sink appends them, so the number    *)
(* of an item is its sequence number.  A connection that breaks cancels    *)
(* the request's context at the hub but does not stop its handler: the     *)
(* handler of a lost request runs beside the handler of its retry.         *)
(*                                                                         *)
(* Of the buffer's files two things are kept.  Recovery indexes the newest *)
(* segment twice when the agent died while sealing it, so that Backfill    *)
(* meets its items a second time.  And Ack works through the segments one  *)
(* by one: an error on the way leaves the index of the segments stale      *)
(* until the agent starts again.                                           *)
(***************************************************************************)
EXTENDS Naturals, FiniteSets, FiniteSetsExt

CONSTANTS
  NumItems,    \* how many items the collectors hand to the sink
  KindOf,      \* [1..NumItems -> Kinds]
  BatchSize,   \* FlushOptions.BatchSize
  MinBackoff,
  MaxBackoff,
  MaxFaults    \* bound: how many times something goes wrong

\* Backfill puts its default in place of a batch size that is not positive.
ASSUME DeliveryAssumption ==
  /\ {NumItems, BatchSize, MaxFaults} \subseteq Nat
  /\ BatchSize # 0

\* The agent runs with the defaults, of which the first is the smaller.
ASSUME BackoffAssumption ==
  /\ {MinBackoff, MaxBackoff} \subseteq Nat
  /\ MinBackoff <= MaxBackoff

Kinds == {"metric", "event", "log", "inventory"}

Items == 1 .. NumItems

BatchIds == 1 .. (NumItems + MaxFaults)

\* Where an item stands in the index: place i is item i the first time,
\* place NumItems + i the second.
Places == 1 .. 2 * NumItems

ItemAt(p) == IF p > NumItems THEN p - NumItems ELSE p

ItemsAt(S) == {ItemAt(p) : p \in S}

VARIABLES
  entered, pending, delivered, dropped,  \* the buffer on disk, as Outbox has it
  walk,       \* the places oldestItems goes through
  index,      \* how the index stands: Buffer.totalLen and Buffer.sealed
  doubled,    \* a recovery has indexed a segment twice (history)
  flushCh,    \* the one-slot channel of Sink holds a token
  loop,       \* where Sink.Run stands
  backoff,    \* the delay after the next failure
  nextId,     \* ulid.Make: the number of batches made so far
  inflight,   \* the batch the client waits for, 0 when none
  batch,      \* batch[id].places, its handler's phase, todo and gone
  seen,       \* MemoryIdempotencyStore.seen
  rows,       \* the copies of each item its store has safely
  logMem,     \* the copies of each line in logstore's memory buffers
  discarded,  \* items a store refused, or lines lost with a memory buffer
  faults      \* how many faults happened

agentVars == <<flushCh, loop, backoff, nextId, inflight>>
hubVars   == <<seen, rows, logMem, discarded>>
boxVars   == <<entered, pending, delivered, dropped>>
indexVars == <<walk, index, doubled>>
deliveryVars == <<boxVars, indexVars, agentVars, hubVars, batch, faults>>

\* "sound": Len is right.  "high": it may be more than oldestItems finds.
\* "low": it may be 0 with items to find.  "gone": Buffer.sealed starts with
\* segments whose files are removed.
IndexStates == {"sound", "high", "low", "gone"}

Box == INSTANCE Outbox WITH Records <- Items

NoBatch == [places |-> {}, phase |-> "none", todo |-> {}, gone |-> FALSE]

\* A request whose handler has returned, or that never had one.
Over(b) == [NoBatch EXCEPT !.places = b.places, !.phase = "done"]

DeliveryInit ==
  /\ entered = {}
  /\ pending = {}
  /\ delivered = {}
  /\ dropped = {}
  /\ walk = {}
  /\ index = "sound"
  /\ doubled = FALSE
  /\ flushCh = FALSE
  /\ loop = "select"
  /\ backoff = MinBackoff
  /\ nextId = 0
  /\ inflight = 0
  /\ batch = [id \in BatchIds |-> NoBatch]
  /\ seen = {}
  /\ rows = [i \in Items |-> 0]
  /\ logMem = [i \in Items |-> 0]
  /\ discarded = {}
  /\ faults = 0

Fault ==
  /\ faults < MaxFaults
  /\ faults' = faults + 1

-----------------------------------------------------------------------------
(* The agent *)

\* Gauge, Event, LogLines, Inventory: append the item, then TriggerFlush,
\* which never blocks.  A failed Append leaves nothing behind but a log line.
SinkAppend ==
  /\ entered # Items
  /\ LET i == Cardinality(entered) + 1
     IN  /\ entered' = entered \cup {i}
         /\ pending' = pending \cup {i}
         /\ walk' = walk \cup {IF \E p \in walk : p > NumItems THEN NumItems + i ELSE i}
  /\ flushCh' = TRUE
  /\ UNCHANGED <<delivered, dropped, index, doubled, loop, backoff, nextId, inflight,
                 hubVars, batch, faults>>

\* Sink.Run goes on to Backfill, or finds Len() = 0.
Flush ==
  /\ walk # {} \/ index # "sound"
  /\ loop' = "backfill"
  /\ UNCHANGED backoff

NothingToFlush ==
  /\ walk = {} \/ index = "low"
  /\ backoff' = MinBackoff
  /\ UNCHANGED loop

\* A tick of the ticker does not look at the buffer.
WakeOnTokenOnly(fromChannel) ==
  /\ loop = "select"
  /\ fromChannel => flushCh
  /\ flushCh' = (flushCh /\ ~fromChannel)
  /\ IF fromChannel THEN Flush \/ NothingToFlush
                    ELSE backoff' = MinBackoff /\ UNCHANGED loop
  /\ UNCHANGED <<boxVars, indexVars, nextId, inflight, hubVars, batch, faults>>

\* The loop wakes on its ticker or on the channel (the token is taken); an
\* empty buffer resets the backoff.
Wake(fromChannel) ==
  /\ loop = "select"
  /\ fromChannel => flushCh
  /\ flushCh' = (flushCh /\ ~fromChannel)
  /\ Flush \/ NothingToFlush
  /\ UNCHANGED <<boxVars, indexVars, nextId, inflight, hubVars, batch, faults>>

\* oldestItems: the first BatchSize places of S.
Oldest(S) ==
  {p \in S : Cardinality({q \in S : q < p}) < BatchSize}

\* One batch id for the life of the agent.
ItemsToSameBatch(S) ==
  /\ nextId' = 1
  /\ batch' = [batch EXCEPT ![1] = [NoBatch EXCEPT !.places = S, !.phase = "sent"]]

\* Every call of TransportSender makes a batch with an id of its own.
ItemsToBatch(S) ==
  /\ nextId' = nextId + 1
  /\ batch' = [batch EXCEPT ![nextId + 1] =
                 [NoBatch EXCEPT !.places = S, !.phase = "sent"]]

\* The delay doubles without a limit.
FailedUncapped ==
  /\ loop' = "waiting"
  /\ backoff' = 2 * backoff

\* Sink.Run after an error of Backfill: it will wait, and twice as long the
\* next time.
Failed ==
  /\ loop' = "waiting"
  /\ backoff' = Min({2 * backoff, MaxBackoff})

\* One turn of Backfill's loop up to the call of the sender, or its end.  A
\* segment whose file is not there fails it.
BackfillSend ==
  /\ loop = "backfill"
  /\ \/ /\ index = "gone"
        /\ Failed
        /\ UNCHANGED <<nextId, inflight, batch>>
     \/ /\ index # "gone" /\ walk = {}
        /\ loop' = "select"
        /\ backoff' = MinBackoff
        /\ UNCHANGED <<nextId, inflight, batch>>
     \/ /\ index # "gone" /\ walk # {}
        /\ ItemsToBatch(Oldest(walk))
        /\ inflight' = nextId'
        /\ loop' = "sending"
        /\ UNCHANGED backoff
  /\ UNCHANGED <<boxVars, indexVars, flushCh, hubVars, faults>>

\* After the wait, which jitter keeps at no more than the backoff, the loop
\* triggers itself.
WaitOver ==
  /\ loop = "waiting"
  /\ loop' = "select"
  /\ flushCh' = TRUE
  /\ UNCHANGED <<boxVars, indexVars, backoff, nextId, inflight, hubVars, batch, faults>>

\* What Ack(items[len(items)-1].Seq) is about: the last item of a batch is the
\* one at its last place, which need not be the newest.
Acked(S) == {i \in Items : \E p \in S : i <= ItemAt(p) /\ \A q \in S : q <= p}

\* The items that Ack is removing.
Acking == IF loop = "acking" THEN Acked(batch[inflight].places) ELSE {}

\* The places of other items.
Without(S) == {p \in walk : ItemAt(p) \notin S}

\* Ack keeps the last item of the batch.
AckAllButLast ==
  /\ loop = "acking"
  /\ LET most == {i \in Acking : \E j \in Acking : i < j}
     IN  pending' = pending \ most /\ walk' = Without(most)
  /\ loop' = "backfill"
  /\ inflight' = 0
  /\ UNCHANGED <<entered, delivered, dropped, index, doubled, flushCh, backoff, nextId,
                 hubVars, batch, faults>>

\* Ack empties the buffer, with what was appended after the batch was read.
AckEverything ==
  /\ loop = "acking"
  /\ pending' = {}
  /\ walk' = {}
  /\ loop' = "backfill"
  /\ inflight' = 0
  /\ UNCHANGED <<entered, delivered, dropped, index, doubled, flushCh, backoff, nextId,
                 hubVars, batch, faults>>

\* Ack removes every item up to the last of the confirmed batch.
Ack ==
  /\ loop = "acking"
  /\ pending' = pending \ Acking
  /\ walk' = Without(Acking)
  /\ loop' = "backfill"
  /\ inflight' = 0
  /\ UNCHANGED <<entered, delivered, dropped, index, doubled, flushCh, backoff, nextId,
                 hubVars, batch, faults>>

\* How far Ack got with the files when it stopped: it goes through the segments
\* from the oldest on.
Removed(k) == {i \in Acking : i <= k}

\* Ack returns an error, so that Backfill fails after the hub confirmed.
AckFails(k) ==
  /\ loop = "acking"
  /\ Fault
  /\ Failed
  /\ inflight' = 0
  /\ pending' = pending \ Removed(k)
     \* the first segment: nothing has happened
  /\ \/ pending' = pending /\ UNCHANGED <<walk, index>>
     \* a later one: Buffer.sealed still has those whose files are removed
     \/ /\ pending' # pending
        /\ Acking \cap pending' # {} \/ index # "sound"
        /\ index' = "gone"
        /\ UNCHANGED walk
     \* the active one, once the sealed ones are done: its items are out of
     \* memory, on disk they may still be
     \/ /\ walk' = Without(Acking)
        /\ index' = IF index = "sound" THEN "high" ELSE index
     \* the second time round of a segment indexed twice, of which the first
     \* has rewritten the file
     \/ /\ index # "sound" /\ Acking \cap pending' = {}
        /\ walk' = Without(Acking)
        /\ index' = "low"
  /\ UNCHANGED <<entered, delivered, dropped, doubled, flushCh, nextId, hubVars, batch>>

\* The agent is stopped or dies, maybe in the middle of Ack, and starts again.
\* Its buffer is on disk; if it died while sealing, recover finds the segment,
\* the items after k, under both its names.
RestartAgent(done, k) ==
  /\ Fault
  /\ pending' = pending \ Removed(done)
  /\ LET twice == {i \in pending' : i > k}
     IN  /\ walk' = pending' \cup {NumItems + i : i \in twice}
         /\ index' = IF twice = {} THEN "sound" ELSE "high"
         /\ doubled' = (doubled \/ twice # {})
  /\ flushCh' = FALSE
  /\ loop' = "select"
  /\ backoff' = MinBackoff
  /\ inflight' = 0
  /\ batch' = [id \in BatchIds |->
                 IF id = inflight /\ batch[id].phase # "done"
                   THEN [batch[id] EXCEPT !.gone = TRUE]
                   ELSE batch[id]]
  /\ UNCHANGED <<entered, delivered, dropped, nextId, hubVars>>

\* The client got no answer: the connection broke before, during or after
\* the hub's work.  A request that never arrived has no handler.
BreakConnection(arrived) ==
  /\ loop = "sending"
  /\ ~arrived => batch[inflight].phase = "sent"
  /\ Fault
  /\ Failed
  /\ inflight' = 0
  /\ batch' = IF arrived THEN [batch EXCEPT ![inflight].gone = TRUE]
                         ELSE [batch EXCEPT ![inflight] = Over(@)]
  /\ UNCHANGED <<boxVars, indexVars, flushCh, nextId, hubVars>>

-----------------------------------------------------------------------------
(* The hub *)

\* What of a batch ReceiveBatch writes: its inventories it does not touch.
Written(S) == {p \in S : KindOf[ItemAt(p)] # "inventory"}

\* A batch that is in `seen` already was ingested before.
MarkSeen(id) == seen' = seen \cup {id}

\* handleIngest up to the call of the receiver: the token is looked up, the
\* id marked as seen; a seen id is answered at once; ReceiveBatch refuses a
\* cancelled context.
HandleIngest(id) ==
  /\ batch[id].phase = "sent"
  /\ MarkSeen(id)
  /\ batch' = [batch EXCEPT
       ![id].phase = IF id \in seen THEN "answer"
                     ELSE IF batch[id].gone THEN "refused" ELSE "receiving",
       ![id].todo = IF id \in seen THEN {} ELSE Written(batch[id].places)]
  /\ UNCHANGED <<boxVars, indexVars, agentVars, rows, logMem, discarded, faults>>

\* The token store fails: the batch is refused before it is marked.
AuthError(id) ==
  /\ batch[id].phase = "sent"
  /\ Fault
  /\ batch' = [batch EXCEPT ![id].phase = "refused"]
  /\ UNCHANGED <<boxVars, indexVars, agentVars, hubVars>>

Rank(i) == CASE KindOf[i] = "metric" -> 1 [] KindOf[i] = "event" -> 2 [] OTHER -> 3

\* ReceiveBatch writes the metrics, then the events, then the log lines,
\* each in the order of the batch.
NextPlace(S) ==
  CHOOSE p \in S : \A q \in S \ {p} :
    \/ Rank(ItemAt(p)) < Rank(ItemAt(q))
    \/ Rank(ItemAt(p)) = Rank(ItemAt(q)) /\ p < q

\* A metric or an event reaches its store; one that is already there is left
\* as it is (the event's id conflicts, the sample has the same timestamp).
StoreRow(i) ==
  /\ KindOf[i] \in {"metric", "event"}
  /\ rows' = [rows EXCEPT ![i] = 1]
  /\ UNCHANGED <<logMem, discarded, faults>>

\* A log line is buffered in memory; past the size or the age limit the
\* buffer becomes a block on disk.
StoreLine(i, full) ==
  LET mem == [logMem EXCEPT ![i] = @ + 1]
  IN  /\ KindOf[i] = "log"
      /\ logMem' = IF full THEN [j \in Items |-> 0] ELSE mem
      /\ rows' = IF full THEN [j \in Items |-> rows[j] + mem[j]] ELSE rows
      /\ UNCHANGED <<discarded, faults>>

\* The store returns an error, which ReceiveBatch logs and skips.  Of an
\* event whose request is gone the write may go either way.  A block that
\* cannot be written takes the whole memory buffer with it.
StoreFails(id, i) ==
  /\ IF batch[id].gone /\ KindOf[i] = "event" THEN UNCHANGED faults ELSE Fault
  /\ IF KindOf[i] = "log"
       THEN /\ discarded' = discarded \cup {i} \cup {j \in Items : logMem[j] > 0}
            /\ logMem' = [j \in Items |-> 0]
       ELSE discarded' = discarded \cup {i} /\ UNCHANGED logMem
  /\ UNCHANGED rows

ReceiveItem(id) ==
  /\ batch[id].phase = "receiving"
  /\ batch[id].todo # {}
  /\ LET p == NextPlace(batch[id].todo)
     IN  /\ \/ StoreRow(ItemAt(p))
            \/ \E full \in BOOLEAN : StoreLine(ItemAt(p), full)
            \/ StoreFails(id, ItemAt(p))
         /\ batch' = [batch EXCEPT ![id].todo = @ \ {p}]
  /\ UNCHANGED <<boxVars, indexVars, agentVars, seen>>

ReceiveDone(id) ==
  /\ batch[id].phase = "receiving"
  /\ batch[id].todo = {}
  /\ batch' = [batch EXCEPT ![id].phase = "answer"]
  /\ UNCHANGED <<boxVars, indexVars, agentVars, hubVars, faults>>

\* The handler returns.  Of a client that still waits, a 200 confirms the
\* batch and anything else fails the send.
Respond(id) ==
  /\ batch[id].phase \in {"answer", "refused"}
  /\ batch' = [batch EXCEPT ![id] = Over(@)]
  /\ IF inflight # id
       THEN UNCHANGED <<boxVars, loop, backoff, inflight>>
       ELSE IF batch[id].phase = "answer"
       THEN /\ delivered' = delivered \cup ItemsAt(batch[id].places)
            /\ loop' = "acking"
            /\ UNCHANGED <<entered, pending, dropped, backoff, inflight>>
       ELSE /\ Failed
            /\ inflight' = 0
            /\ UNCHANGED boxVars
  /\ UNCHANGED <<indexVars, flushCh, nextId, hubVars, faults>>

\* The hub stops or dies and starts again: handlers, the seen ids and the
\* log lines in memory go with it (nothing flushes the log store).
RestartHub ==
  /\ Fault
  /\ seen' = {}
  /\ discarded' = discarded \cup {i \in Items : logMem[i] > 0}
  /\ logMem' = [i \in Items |-> 0]
  /\ batch' = [id \in BatchIds |->
                 IF batch[id].phase = "none" THEN batch[id]
                 ELSE Over(batch[id])]
  /\ IF loop = "sending"
       THEN Failed /\ inflight' = 0
       ELSE UNCHANGED <<loop, backoff, inflight>>
  /\ UNCHANGED <<boxVars, indexVars, flushCh, nextId, rows>>

-----------------------------------------------------------------------------
AgentStep ==
  \/ \E fromChannel \in BOOLEAN : Wake(fromChannel)
  \/ BackfillSend
  \/ WaitOver
  \/ Ack

HubStep ==
  \E id \in BatchIds :
    HandleIngest(id) \/ ReceiveItem(id) \/ ReceiveDone(id) \/ Respond(id)

Faults ==
  \/ \E k \in 0 .. NumItems : AckFails(k)
  \/ \E done, k \in 0 .. NumItems : RestartAgent(done, k)
  \/ \E arrived \in BOOLEAN : BreakConnection(arrived)
  \/ \E id \in BatchIds : AuthError(id)
  \/ RestartHub

DeliveryNext == SinkAppend \/ AgentStep \/ HubStep \/ Faults

\* The agent's loop has a ticker and every wait ends; a handler that runs
\* goes on to its end.  Nothing is assumed of appends or of faults.
DeliverySpec ==
  /\ DeliveryInit /\ [][DeliveryNext]_deliveryVars
  /\ WF_deliveryVars(AgentStep)
  /\ \A id \in BatchIds :
       WF_deliveryVars(HandleIngest(id) \/ ReceiveItem(id)
                       \/ ReceiveDone(id) \/ Respond(id))
-----------------------------------------------------------------------------
(* Properties *)

\* Every variable holds a value of its kind, and a batch is in flight exactly
\* while the flush loop waits for its answer or acknowledges it.
DeliveryTypeOK ==
  /\ entered \subseteq Items
  /\ pending \subseteq entered
  /\ delivered \subseteq entered
  /\ dropped = {}
  /\ walk \subseteq Places
  /\ index \in IndexStates
  /\ doubled \in BOOLEAN
  /\ flushCh \in BOOLEAN
  /\ loop \in {"select", "backfill", "sending", "acking", "waiting"}
  /\ backoff \in MinBackoff .. MaxBackoff
  /\ nextId \in 0 .. NumItems + MaxFaults
  /\ inflight \in 0 .. nextId
  /\ (inflight = 0) = (loop \notin {"sending", "acking"})
  /\ batch \in [BatchIds -> [places : SUBSET Places,
                             phase : {"none", "sent", "receiving", "answer",
                                      "refused", "done"},
                             todo : SUBSET Places, gone : BOOLEAN]]
  /\ seen \subseteq BatchIds
  /\ rows \in [Items -> Nat]
  /\ logMem \in [Items -> Nat]
  /\ discarded \subseteq Items
  /\ faults \in 0 .. MaxFaults

\* An item the agent was told the hub has was written to its store or to the
\* log store's memory, or the hub gave it up: it is never confirmed by a
\* handler that had not yet got to it.  What the hub gives up afterwards, the
\* lines lost with its memory, the agent does not learn.  Inventories are the
\* exception: ReceiveBatch has no branch for them.
ConfirmedWasWritten ==
  \A i \in delivered :
    KindOf[i] # "inventory" => rows[i] + logMem[i] > 0 \/ i \in discarded

\* As long as no recovery has indexed a segment twice, every copy of an item
\* beyond the first was paid for by a fault: without one, Ack and the next
\* batch never overlap.
CopiesBoundedByFaults ==
  ~doubled => \A i \in Items : rows[i] + logMem[i] <= 1 + faults


\* The flush loop, the exchange and every fault are steps the buffer's
\* promise allows: an item leaves the buffer only after the hub confirmed it.
DeliveryImplementsOutbox == Box!OutboxSpec

\* Whatever entered the buffer is confirmed in the end, once faults stop, unless
\* a failed Ack has left the index stale and the agent is not started again.
EverythingIsDelivered ==
  \A i \in Items :
    i \in entered ~> (i \in delivered \/ [](index \in {"low", "gone"}))
=============================================================================
