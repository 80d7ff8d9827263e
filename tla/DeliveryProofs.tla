---------------------------- MODULE DeliveryProofs ----------------------------
(***************************************************************************)
(* What is delivered to the hub, for any number of items of any kinds, any *)
(* batch size and any number of faults: what the agent was told the hub    *)
(* has is in a store, in the log store's memory or was given up there, a   *)
(* copy beyond the first costs a fault unless a segment was indexed twice, *)
(* and the agent's loop, the exchange and the hub together implement       *)
(* Outbox.                                                                 *)
(***************************************************************************)
EXTENDS Delivery, FiniteSetTheorems, WellFoundedInduction, TLAPS

Phases == {"none", "sent", "receiving", "answer", "refused", "done"}

Batch == [places : SUBSET Places, phase : Phases, todo : SUBSET Places, gone : BOOLEAN]

Flying == loop \in {"sending", "acking"}

\* The items the sink appended are the first ones.
DTypes ==
  /\ \E n \in 0 .. NumItems : entered = 1 .. n
  /\ pending \subseteq entered
  /\ delivered \subseteq entered
  /\ dropped = {}
  /\ walk \subseteq Places
  /\ ItemsAt(walk) \subseteq entered
  /\ index \in IndexStates
  /\ doubled \in BOOLEAN
  /\ nextId \in Nat
  /\ inflight \in 0 .. nextId
  /\ (inflight = 0) <=> ~Flying
  /\ batch \in [BatchIds -> Batch]
  /\ seen \subseteq 1 .. nextId
  /\ rows \in [Items -> Nat]
  /\ logMem \in [Items -> Nat]

\* The hub has done with i what it will do.
Held(i) == rows[i] + logMem[i] > 0 \/ i \in discarded

\* An id is used once, so that a batch found in `seen` has been through
\* ReceiveBatch; a handler about to answer has held every item it writes.
BatchInv ==
  \A id \in BatchIds :
    /\ id > nextId => batch[id].phase = "none"
    /\ batch[id].phase = "sent" => id \notin seen
    /\ ItemsAt(batch[id].places) \subseteq entered
    /\ batch[id].phase = "receiving" =>
         \A p \in Written(batch[id].places) : p \in batch[id].todo \/ Held(ItemAt(p))
    /\ batch[id].phase = "answer" =>
         \A p \in Written(batch[id].places) : Held(ItemAt(p))

\* What is on disk is in the index, or was delivered and could not be removed.
\* An item the index has a second time, and that is no newer than one it has a
\* first time, it has a first time too.  Of an index that can be read the items
\* are on disk.
WalkInv ==
  /\ \A i \in pending : i \in delivered \/ i \in ItemsAt(walk)
  /\ \A p, q \in walk :
       p <= NumItems /\ q > NumItems /\ ItemAt(q) <= p => ItemAt(q) \in walk
  /\ index # "gone" => ItemsAt(walk) \subseteq pending
  /\ Flying => index # "gone"

\* What Ack will remove is in the batch under way or was delivered before, and
\* the batch was confirmed before Ack begins.
FlightInv ==
  /\ inflight \in BatchIds =>
       \A i \in pending \cap Acked(batch[inflight].places) :
         i \in delivered \/ i \in ItemsAt(batch[inflight].places)
  /\ loop = "acking" =>
       inflight \in BatchIds /\ ItemsAt(batch[inflight].places) \subseteq delivered

DInv == DTypes /\ BatchInv /\ WalkInv /\ FlightInv /\ ConfirmedWasWritten

-----------------------------------------------------------------------------
\* Items are numbers, and a set of them is finite.
LEMMA ItemsFinite ==
  ASSUME NEW S \in SUBSET Items
  PROVE  IsFiniteSet(S) /\ Cardinality(S) \in Nat /\ S \subseteq Nat
<1>1. IsFiniteSet(Items)
  BY DeliveryAssumption, FS_Interval DEF Items
<1>2. IsFiniteSet(S)
  BY <1>1, FS_Subset
<1> QED BY <1>2, FS_CardinalityType, DeliveryAssumption DEF Items

\* So is a set of places, each of which has an item.
LEMMA PlacesFinite ==
  ASSUME NEW S \in SUBSET Places
  PROVE  IsFiniteSet(S) /\ Cardinality(S) \in Nat /\ S \subseteq Nat
<1>1. IsFiniteSet(Places)
  BY DeliveryAssumption, FS_Interval DEF Places
<1>2. IsFiniteSet(S)
  BY <1>1, FS_Subset
<1> QED BY <1>2, FS_CardinalityType, DeliveryAssumption DEF Places

LEMMA PlaceFacts ==
  /\ NumItems \in Nat /\ Items \subseteq Nat /\ Places \subseteq Nat
  /\ \A p \in Places : ItemAt(p) \in Items
  /\ \A i \in Items : /\ i \in Places /\ ItemAt(i) = i /\ i <= NumItems
                      /\ NumItems + i \in Places /\ ItemAt(NumItems + i) = i
                      /\ NumItems + i > NumItems
  /\ \A p \in Places : p <= NumItems => p \in Items
  BY DeliveryAssumption DEF Items, Places, ItemAt

\* A place comes before another unless its item is newer, or it is the second of
\* its item and the other a first one.
LEMMA PlaceOrder ==
  ASSUME NEW p \in Places, NEW q \in Places, ItemAt(q) <= ItemAt(p), ~(q <= p)
  PROVE  p <= NumItems /\ q > NumItems /\ ItemAt(p) = p
  BY DeliveryAssumption DEF Places, ItemAt

\* Backfill takes the oldest items: nothing older is left behind.
LEMMA OldestIsDownward ==
  ASSUME NEW S \in SUBSET Places, NEW j \in Oldest(S), NEW i \in S, i <= j
  PROVE  i \in Oldest(S)
<1> DEFINE Before(k) == {x \in S : x < k}
<1>1. i \in Nat /\ j \in S /\ j \in Nat /\ S \subseteq Nat
  BY PlacesFinite DEF Oldest
<1>2. Before(i) \subseteq Before(j)
  <2> SUFFICES ASSUME NEW x \in S, x < i PROVE x < j
    OBVIOUS
  <2> QED BY <1>1
<1>3. IsFiniteSet(Before(j)) /\ Cardinality(Before(j)) \in Nat
  BY PlacesFinite
<1>4. Cardinality(Before(i)) <= Cardinality(Before(j)) /\ Cardinality(Before(i)) \in Nat
  BY <1>2, <1>3, FS_Subset, PlacesFinite
<1>5. Cardinality(Before(j)) < BatchSize
  BY DEF Oldest
<1>6. Cardinality(Before(i)) < BatchSize
  BY <1>3, <1>4, <1>5, DeliveryAssumption
<1> QED BY <1>6 DEF Oldest

\* Ack after a batch of the oldest removes from the disk what the batch had, and
\* what was delivered before.
LEMMA AckedIsOldest ==
  ASSUME DInv, NEW i \in pending, i \in Acked(Oldest(walk))
  PROVE  i \in delivered \/ i \in ItemsAt(Oldest(walk))
<1>1. walk \in SUBSET Places /\ Oldest(walk) \subseteq walk
  BY DEF DInv, DTypes, Oldest
<1>2. PICK p \in Oldest(walk) : i <= ItemAt(p)
  BY DEF Acked
<1>3. CASE i \in delivered
  BY <1>3
<1>4. CASE i \in ItemsAt(walk)
  <2>1. PICK q \in walk : ItemAt(q) = i
    BY <1>4, Zenon DEF ItemsAt
  <2>2. p \in Places /\ q \in Places /\ p \in walk
    BY <1>1
  <2>3. CASE q <= p
    <3>1. q \in Oldest(walk)
      BY <1>1, <2>3, OldestIsDownward
    <3> QED BY <2>1, <3>1, Zenon DEF ItemsAt
  <2>4. CASE ~(q <= p)
    <3>1. p <= NumItems /\ q > NumItems /\ ItemAt(p) = p
      BY <1>2, <2>1, <2>2, <2>4, PlaceOrder
    <3>2. ItemAt(q) \in walk /\ ItemAt(q) <= p
      BY <1>2, <2>1, <2>2, <3>1, Zenon DEF DInv, WalkInv
    <3>3. i \in Oldest(walk)
      BY <1>1, <2>1, <3>2, OldestIsDownward
    <3>4. ItemAt(i) = i
      BY <2>1, <2>2, PlaceFacts
    <3> QED BY <3>3, <3>4, Zenon DEF ItemsAt
  <2> QED BY <2>3, <2>4
<1> QED BY <1>3, <1>4, Zenon DEF DInv, WalkInv

\* The sink appends the next number, after every place of the index.
LEMMA AppendIsNext ==
  ASSUME DTypes, SinkAppend
  PROVE  \E n \in 0 .. NumItems - 1 :
           /\ entered = 1 .. n
           /\ entered' = 1 .. n + 1
           /\ pending' = pending \cup {n + 1}
           /\ walk' = walk \cup {IF \E p \in walk : p > NumItems THEN NumItems + (n + 1)
                                                             ELSE n + 1}
           /\ n + 1 \in Items
<1>1. PICK n \in 0 .. NumItems : entered = 1 .. n
  BY DEF DTypes
<1>2. n \in Nat /\ n # NumItems
  BY <1>1, DeliveryAssumption DEF SinkAppend, Items
<1>3. Cardinality(1 .. n) = n
  BY <1>2, FS_Interval
<1>4. /\ entered' = (1 .. n) \cup {n + 1} /\ pending' = pending \cup {n + 1}
      /\ walk' = walk \cup {IF \E p \in walk : p > NumItems THEN NumItems + (n + 1) ELSE n + 1}
  BY <1>1, <1>3, Zenon DEF SinkAppend
<1>5. (1 .. n) \cup {n + 1} = 1 .. n + 1
  BY <1>2
<1>6. n \in 0 .. NumItems - 1 /\ n + 1 \in Items
  BY <1>2, DeliveryAssumption DEF Items
<1> QED BY <1>1, <1>4, <1>5, <1>6, Zenon

-----------------------------------------------------------------------------
\* What ReceiveBatch does to the stores: what was held stays held, and the item
\* it wrote is held.
LEMMA StoreStep ==
  ASSUME DTypes, NEW id \in BatchIds, NEW i,
         StoreRow(i) \/ (\E full \in BOOLEAN : StoreLine(i, full)) \/ StoreFails(id, i)
  PROVE  /\ rows' \in [Items -> Nat] /\ logMem' \in [Items -> Nat]
         /\ \A j \in Items : Held(j) => Held(j)'
         /\ i \in Items => Held(i)'
<1>0. rows \in [Items -> Nat] /\ logMem \in [Items -> Nat]
  BY DEF DTypes
<1>1. CASE StoreRow(i)
  <2>1. /\ rows' = [j \in Items |-> IF j = i THEN 1 ELSE rows[j]]
        /\ logMem' = logMem /\ discarded' = discarded
    BY <1>0, <1>1, Zenon DEF StoreRow
  <2> QED BY <1>0, <2>1 DEF Held
<1>2. CASE \E full \in BOOLEAN : StoreLine(i, full)
  <2>1. PICK full \in BOOLEAN : StoreLine(i, full)
    BY <1>2
  <2>2. PICK mem : mem = [logMem EXCEPT ![i] = @ + 1]
    BY Zenon
  <2>4. mem = [j \in Items |-> IF j = i THEN logMem[i] + 1 ELSE logMem[j]]
    BY <1>0, <2>2, Zenon
  <2>5. /\ mem \in [Items -> Nat]
        /\ \A j \in Items : mem[j] >= logMem[j]
        /\ i \in Items => mem[i] > 0
    BY <1>0, <2>4
  <2>3. /\ logMem' = IF full THEN [j \in Items |-> 0] ELSE mem
        /\ rows' = IF full THEN [j \in Items |-> rows[j] + mem[j]] ELSE rows
        /\ discarded' = discarded
    BY <2>1, <2>2 DEF StoreLine
  <2> QED BY <1>0, <2>5, <2>3 DEF Held
<1>3. CASE StoreFails(id, i)
  <2>1. rows' = rows /\ logMem' \in [Items -> Nat]
    BY <1>0, <1>3 DEF StoreFails
  <2>2. i \in discarded' /\ discarded \subseteq discarded'
    BY <1>3, Zenon DEF StoreFails
  <2>3. \A j \in Items : logMem'[j] = logMem[j] \/ j \in discarded' \/ logMem[j] = 0
    BY <1>0, <1>3 DEF StoreFails
  <2> QED BY <1>0, <2>1, <2>2, <2>3 DEF Held
<1> QED BY <1>1, <1>2, <1>3

\* No step undoes what the hub did with an item.
LEMMA HeldGrows ==
  ASSUME DTypes, DeliveryNext
  PROVE  /\ rows' \in [Items -> Nat] /\ logMem' \in [Items -> Nat]
         /\ \A i \in Items : Held(i) => Held(i)'
<1>0. rows \in [Items -> Nat] /\ logMem \in [Items -> Nat]
  BY DEF DTypes
<1>1. CASE \E id \in BatchIds : ReceiveItem(id)
  BY <1>1, StoreStep, Zenon DEF ReceiveItem
<1>2. CASE RestartHub
  <2>1. rows' = rows /\ logMem' \in [Items -> Nat]
    BY <1>2 DEF RestartHub
  <2>2. discarded \subseteq discarded' /\ \A j \in Items : logMem[j] > 0 => j \in discarded'
    BY <1>2 DEF RestartHub
  <2> QED BY <1>0, <2>1, <2>2 DEF Held
<1>3. CASE UNCHANGED <<rows, logMem, discarded>>
  BY <1>0, <1>3 DEF Held
<1>4. CASE \/ SinkAppend \/ AgentStep \/ (\E k \in 0 .. NumItems : AckFails(k))
           \/ (\E done, k \in 0 .. NumItems : RestartAgent(done, k))
           \/ \E arrived \in BOOLEAN : BreakConnection(arrived)
  BY <1>3, <1>4, Zenon DEF SinkAppend, AgentStep, Wake, BackfillSend, WaitOver, Ack, AckFails,
     RestartAgent, BreakConnection, hubVars
<1>5. CASE \E id \in BatchIds : HandleIngest(id) \/ ReceiveDone(id) \/ Respond(id) \/ AuthError(id)
  BY <1>3, <1>5, Zenon DEF HandleIngest, ReceiveDone, Respond, AuthError, hubVars
<1> QED BY <1>1, <1>2, <1>4, <1>5, Zenon DEF DeliveryNext, HubStep, Faults

-----------------------------------------------------------------------------
(* One lemma per action that the invariant has something to say about. *)

LEMMA SinkAppendStep == ASSUME DInv, SinkAppend PROVE DInv'
<1> USE DEF DInv
<1>1. PICK n \in 0 .. NumItems - 1 :
        /\ entered = 1 .. n /\ entered' = 1 .. n + 1
        /\ pending' = pending \cup {n + 1}
        /\ walk' = walk \cup {IF \E p \in walk : p > NumItems THEN NumItems + (n + 1)
                                                          ELSE n + 1}
        /\ n + 1 \in Items
  BY AppendIsNext
<1>2. UNCHANGED <<delivered, dropped, index, doubled, loop, nextId, inflight, batch, seen,
                  rows, logMem, discarded>>
  BY DEF SinkAppend, hubVars
<1>3. n \in Nat /\ n + 1 \in 0 .. NumItems /\ entered \subseteq entered' /\ n + 1 \in entered'
  BY <1>1, DeliveryAssumption
<1>4. PICK new \in Places :
        /\ new = IF \E p \in walk : p > NumItems THEN NumItems + (n + 1) ELSE n + 1
        /\ walk' = walk \cup {new} /\ ItemAt(new) = n + 1
  BY <1>1, PlaceFacts, Zenon
<1>5. ItemsAt(walk') = ItemsAt(walk) \cup {n + 1}
  BY <1>4, Zenon DEF ItemsAt
<1>6. DTypes'
  <2>1. walk' \subseteq Places /\ ItemsAt(walk') \subseteq entered'
    BY <1>3, <1>4, <1>5 DEF DTypes
  <2>2. (inflight' = 0) <=> ~Flying'
    BY <1>2 DEF DTypes, Flying
  <2> QED BY <1>1, <1>2, <1>3, <2>1, <2>2 DEF DTypes
<1>7. BatchInv'
  BY <1>2, <1>3 DEF BatchInv, Held, Written
<1>8. FlightInv'
  <2>1. ASSUME NEW id \in BatchIds PROVE n + 1 \notin Acked(batch[id].places)
    <3>1. \A p \in batch[id].places : ItemAt(p) \in 1 .. n
      BY <1>1 DEF BatchInv, ItemsAt
    <3>2. \A p \in batch[id].places : ~(n + 1 <= ItemAt(p))
      BY <1>3, <3>1
    <3> QED BY <3>2, Zenon DEF Acked
  <2> QED BY <1>1, <1>2, <2>1, Zenon DEF FlightInv
<1>9. WalkInv'
  <2>1. \A i \in pending' : i \in delivered' \/ i \in ItemsAt(walk')
    BY <1>1, <1>2, <1>5, Zenon DEF WalkInv
  <2>2. ASSUME NEW p \in walk', NEW q \in walk', p <= NumItems, q > NumItems, ItemAt(q) <= p
        PROVE  ItemAt(q) \in walk'
    <3>1. walk \subseteq Places /\ p \in Places /\ q \in Places
      BY <1>4 DEF DTypes
    <3>2. ItemAt(p) = p /\ p \in Nat
      BY <2>2, <3>1, PlaceFacts
    <3>3. \A x \in walk : ItemAt(x) \in 1 .. n
      BY <1>1 DEF DTypes, ItemsAt
    <3>4. CASE p \in walk /\ q \in walk
      BY <1>4, <2>2, <3>4, Zenon DEF WalkInv
    <3>5. CASE q = new
      <4>1. p \in walk => p <= n
        BY <3>2, <3>3, <1>3
      <4>2. ItemAt(q) = n + 1 /\ (p = new => ItemAt(q) = p)
        BY <1>4, <3>2, <3>5, Zenon
      <4>3. p = new
        BY <1>3, <1>4, <2>2, <3>2, <4>1, <4>2
      <4> QED BY <4>2, <4>3, <1>4, Zenon
    <3>6. CASE p = new /\ q \in walk
      <4>1. new = NumItems + (n + 1)
        BY <1>4, <2>2, <3>6, Zenon
      <4>2. new > NumItems
        BY <1>3, <4>1, PlaceFacts
      <4> QED BY <2>2, <3>6, <4>2, <3>2, PlaceFacts
    <3> QED BY <1>4, <3>4, <3>5, <3>6
  <2>3. index' # "gone" => ItemsAt(walk') \subseteq pending'
    BY <1>1, <1>2, <1>5 DEF WalkInv
  <2>4. Flying' => index' # "gone"
    BY <1>2, Zenon DEF WalkInv, Flying
  <2> QED BY <2>1, <2>2, <2>3, <2>4, Zenon DEF WalkInv
<1>10. ConfirmedWasWritten'
  BY <1>2 DEF ConfirmedWasWritten
<1> QED BY <1>6, <1>7, <1>8, <1>9, <1>10

\* The index stays as it is while nothing is appended or removed.
LEMMA WalkSame ==
  ASSUME DInv, UNCHANGED <<pending, indexVars>>, delivered \subseteq delivered',
         Flying' => Flying \/ index # "gone"
  PROVE  WalkInv'
  BY Zenon DEF DInv, WalkInv, indexVars

\* Steps that only move the loop, or end what was in flight.
LEMMA LoopStep ==
  ASSUME DInv,
         UNCHANGED <<entered, pending, delivered, dropped, indexVars, nextId, batch, hubVars>>,
         \/ UNCHANGED <<loop, inflight>>
         \/ inflight' = 0 /\ ~Flying'
  PROVE  DInv'
<1> USE DEF DInv, hubVars
<1>0. UNCHANGED <<walk, index, doubled>>
  BY DEF indexVars
<1>1. DTypes'
  BY <1>0 DEF DTypes, Flying
<1>2. BatchInv'
  BY DEF BatchInv, Held, Written
<1>3. FlightInv'
  BY DEF FlightInv, BatchIds, Flying
<1>4. ConfirmedWasWritten'
  BY DEF ConfirmedWasWritten
<1>5. Flying' => Flying
  BY Zenon DEF Flying
<1>6. WalkInv'
  BY <1>5, WalkSame, Zenon
<1> QED BY <1>1, <1>2, <1>3, <1>4, <1>6

\* What Ack removes, the hub has confirmed.
LEMMA AckedWasDelivered ==
  ASSUME DInv, NEW i \in pending, i \in Acking
  PROVE  i \in delivered
<1>1. loop = "acking" /\ i \in Acked(batch[inflight].places)
  BY Zenon DEF Acking
<1>2. inflight \in BatchIds /\ ItemsAt(batch[inflight].places) \subseteq delivered
  BY <1>1 DEF DInv, FlightInv
<1> QED BY <1>1, <1>2 DEF DInv, FlightInv

\* The index after an Ack that went through, or failed: it forgets what Ack was
\* to remove, or it is as it was, stale if anything was removed.
LEMMA WalkAcked ==
  ASSUME DInv, NEW R \in SUBSET Acking, pending' = pending \ R, delivered' = delivered,
         ~Flying', loop = "acking",
         \/ walk' = walk /\ (index' = "gone" \/ (pending' = pending /\ index' = index))
         \/ walk' = Without(Acking)
  PROVE  WalkInv' /\ walk' \subseteq walk
<1> USE DEF DInv
<1>1. walk \subseteq Places /\ index # "gone"
  BY DEF DTypes, WalkInv, Flying
<1>2. CASE walk' = walk /\ (index' = "gone" \/ (pending' = pending /\ index' = index))
  <2>1. index' # "gone" => ItemsAt(walk) \subseteq pending'
    BY <1>2, Zenon DEF WalkInv
  <2>2. \A i \in pending' : i \in pending
    OBVIOUS
  <2> QED BY <1>2, <2>1, <2>2, Zenon DEF WalkInv
<1>3. CASE walk' = Without(Acking)
  <2>1. ASSUME NEW i \in pending' PROVE i \in delivered \/ i \in ItemsAt(walk')
    <3>1. CASE i \in Acking
      BY <3>1, AckedWasDelivered
    <3>2. CASE i \notin Acking
      <4>1. CASE i \in delivered
        BY <4>1
      <4>2. CASE \E p \in walk : ItemAt(p) = i
        BY <1>3, <3>2, <4>2, Zenon DEF Without, ItemsAt
      <4> QED BY <4>1, <4>2, Zenon DEF WalkInv, ItemsAt
    <3> QED BY <3>1, <3>2
  <2>2. ASSUME NEW p \in walk', NEW q \in walk', p <= NumItems, q > NumItems, ItemAt(q) <= p
        PROVE  ItemAt(q) \in walk'
    <3>1. p \in walk /\ q \in walk /\ ItemAt(q) \notin Acking
      BY <1>3, Zenon DEF Without
    <3>2. ItemAt(q) \in walk /\ ItemAt(q) \in Items
      BY <1>1, <2>2, <3>1, PlaceFacts, Zenon DEF WalkInv
    <3>3. ItemAt(ItemAt(q)) = ItemAt(q)
      BY <3>2, PlaceFacts
    <3> QED BY <1>3, <3>1, <3>2, <3>3, Zenon DEF Without
  <2>3. ItemsAt(walk') \subseteq pending'
    <3> SUFFICES ASSUME NEW p \in walk' PROVE ItemAt(p) \in pending'
      BY Zenon DEF ItemsAt
    <3>1. p \in walk /\ ItemAt(p) \notin Acking
      BY <1>3, Zenon DEF Without
    <3>2. ItemAt(p) \in pending
      BY <1>1, <3>1 DEF WalkInv, ItemsAt
    <3> QED BY <3>1, <3>2
  <2>4. walk' \subseteq walk
    BY <1>3 DEF Without
  <2> QED BY <2>1, <2>2, <2>3, <2>4, Zenon DEF WalkInv
<1> QED BY <1>2, <1>3

\* The end of Ack, whichever way.
LEMMA AckEnds ==
  ASSUME DInv, NEW R \in SUBSET Acking, pending' = pending \ R, loop = "acking",
         loop' \in {"backfill", "waiting"}, inflight' = 0, index' \in IndexStates,
         UNCHANGED <<entered, delivered, dropped, doubled, nextId, hubVars, batch>>,
         \/ walk' = walk /\ (index' = "gone" \/ (pending' = pending /\ index' = index))
         \/ walk' = Without(Acking)
  PROVE  DInv'
<1> USE DEF DInv
<1>1. ~Flying'
  BY DEF Flying
<1>2. WalkInv' /\ walk' \subseteq walk
  BY <1>1, WalkAcked, Zenon
<1>3. UNCHANGED <<seen, rows, logMem, discarded>>
  BY DEF hubVars
<1>4. walk' \subseteq Places /\ ItemsAt(walk') \subseteq entered'
  BY <1>2, Zenon DEF DTypes, ItemsAt
<1>5. DTypes'
  <2>1. inflight' \in 0 .. nextId' /\ ((inflight' = 0) <=> ~Flying')
    BY <1>1 DEF DTypes
  <2> QED BY <1>3, <1>4, <2>1 DEF DTypes
<1>6. BatchInv'
  BY <1>3 DEF BatchInv, Held, Written
<1>7. FlightInv'
  BY DEF FlightInv, BatchIds
<1>8. ConfirmedWasWritten'
  BY <1>3 DEF ConfirmedWasWritten
<1> QED BY <1>2, <1>5, <1>6, <1>7, <1>8

LEMMA AckStep == ASSUME DInv, Ack \/ \E k \in 0 .. NumItems : AckFails(k) PROVE DInv'
<1>1. CASE Ack
  <2>1. /\ pending' = pending \ Acking /\ walk' = Without(Acking)
        /\ loop = "acking" /\ loop' = "backfill" /\ inflight' = 0 /\ index' \in IndexStates
        /\ UNCHANGED <<entered, delivered, dropped, doubled, nextId, hubVars, batch>>
    BY <1>1 DEF Ack, DInv, DTypes
  <2> QED BY <2>1, AckEnds, Zenon
<1>2. CASE \E k \in 0 .. NumItems : AckFails(k)
  <2>1. PICK k : AckFails(k)
    BY <1>2
  <2>2. PICK R : R = Removed(k)
    BY Zenon
  <2>3. R \in SUBSET Acking /\ pending' = pending \ R
    BY <2>1, <2>2, Zenon DEF AckFails, Removed
  <2>4. /\ loop = "acking" /\ loop' = "waiting" /\ inflight' = 0
        /\ UNCHANGED <<entered, delivered, dropped, doubled, nextId, hubVars, batch>>
        /\ \/ walk' = walk /\ (index' = "gone" \/ (pending' = pending /\ index' = index))
           \/ walk' = Without(Acking)
    BY <2>1, Zenon DEF AckFails, Failed
  <2>5. index' \in {index, "gone", "high", "low"}
    BY <2>1, Zenon DEF AckFails
  <2>6. index' \in IndexStates
    BY <2>5 DEF IndexStates, DInv, DTypes
  <2> QED BY <2>3, <2>4, <2>6, AckEnds, Zenon
<1> QED BY <1>1, <1>2

LEMMA BackfillSendStep == ASSUME DInv, BackfillSend PROVE DInv'
<1> USE DEF DInv
<1>1. CASE index = "gone" \/ walk = {}
  <2>1. UNCHANGED <<boxVars, indexVars, nextId, inflight, batch, hubVars>>
    BY <1>1, Zenon DEF BackfillSend
  <2>2. inflight = 0 /\ ~Flying'
    BY <1>1 DEF DTypes, Flying, BackfillSend, Failed
  <2> QED BY <2>1, <2>2, LoopStep, Zenon DEF boxVars
<1>2. CASE index # "gone" /\ walk # {}
  <2> DEFINE S == Oldest(walk)
             new == [NoBatch EXCEPT !.places = S, !.phase = "sent"]
  <2>1. /\ nextId' = nextId + 1 /\ inflight' = nextId + 1 /\ loop' = "sending"
        /\ batch' = [batch EXCEPT ![nextId + 1] = new]
    BY <1>2, Zenon DEF BackfillSend, ItemsToBatch
  <2>2. /\ UNCHANGED <<entered, pending, delivered, dropped, seen, rows, logMem, discarded>>
        /\ UNCHANGED <<walk, index, doubled>>
    BY DEF BackfillSend, boxVars, hubVars, indexVars
  <2>3. S \subseteq walk /\ S \in SUBSET Places /\ ItemsAt(S) \subseteq entered
    <3>1. S \subseteq walk /\ S \in SUBSET Places
      BY DEF Oldest, DTypes
    <3> HIDE DEF S
    <3> QED BY <3>1, Zenon DEF ItemsAt, DTypes
  <2>4. new \in Batch /\ new.places = S /\ new.phase = "sent"
    BY <2>3, Zenon DEF NoBatch, Batch, Phases
  <2>5. nextId \in Nat /\ batch \in [BatchIds -> Batch]
    BY DEF DTypes
  <2>6. \A i \in pending \cap Acked(S) : i \in delivered \/ i \in ItemsAt(S)
    BY AckedIsOldest
  <2> HIDE DEF S, new
  <2>7. /\ batch' \in [BatchIds -> Batch]
        /\ \A id \in BatchIds : batch'[id] = IF id = nextId + 1 THEN new ELSE batch[id]
    BY <2>1, <2>4, <2>5, Zenon
  <2>8. DTypes'
    <3>1. /\ nextId' \in Nat /\ inflight' \in 0 .. nextId' /\ seen' \subseteq 1 .. nextId'
          /\ ((inflight' = 0) <=> ~Flying')
      BY <2>1, <2>2, <2>5 DEF DTypes, Flying
    <3> QED BY <2>2, <2>7, <3>1, Zenon DEF DTypes
  <2>9. BatchInv'
    <3> SUFFICES ASSUME NEW id \in BatchIds
                 PROVE  /\ id > nextId' => batch'[id].phase = "none"
                        /\ batch'[id].phase = "sent" => id \notin seen'
                        /\ ItemsAt(batch'[id].places) \subseteq entered'
                        /\ batch'[id].phase = "receiving" =>
                             \A p \in Written(batch'[id].places) :
                               p \in batch'[id].todo \/ Held(ItemAt(p))'
                        /\ batch'[id].phase = "answer" =>
                             \A p \in Written(batch'[id].places) : Held(ItemAt(p))'
      BY Zenon DEF BatchInv, Written
    <3>1. CASE id = nextId + 1
      <4>1. id \notin seen
        BY <3>1, <2>5 DEF DTypes
      <4>2. batch'[id] = new /\ ~(id > nextId') /\ seen' = seen
        BY <3>1, <2>1, <2>2, <2>5, <2>7
      <4> QED BY <4>1, <4>2, <2>2, <2>3, <2>4
    <3>2. CASE id # nextId + 1
      <4>1. id \in Nat /\ batch'[id] = batch[id] /\ (id > nextId' => id > nextId)
        BY <3>2, <2>1, <2>5, <2>7, DeliveryAssumption DEF BatchIds
      <4>2. \A i : Held(i)' <=> Held(i)
        BY <2>2, Zenon DEF Held
      <4> QED BY <4>1, <4>2, <2>2, Zenon DEF BatchInv
    <3> QED BY <3>1, <3>2
  <2>10. FlightInv'
    BY <2>1, <2>2, <2>4, <2>6, <2>7, Zenon DEF FlightInv
  <2>11. ConfirmedWasWritten'
    BY <2>2 DEF ConfirmedWasWritten
  <2>12. WalkInv'
    BY <1>2, <2>2, WalkSame, Zenon DEF indexVars
  <2> QED BY <2>8, <2>9, <2>10, <2>11, <2>12
<1> QED BY <1>1, <1>2

\* A handler goes on as it was, is over, or refuses: the others and what the
\* batches hold are left alone.
LEMMA BatchesEnd ==
  ASSUME DInv,
         UNCHANGED <<entered, nextId>>, seen' \subseteq seen,
         batch' \in [BatchIds -> Batch],
         \A id \in BatchIds :
           /\ batch'[id].places = batch[id].places
           /\ \/ batch'[id].phase = batch[id].phase /\ batch'[id].todo = batch[id].todo
              \/ batch'[id].phase \in {"refused", "done"} /\ batch[id].phase # "none",
         \A i \in Items : Held(i) => Held(i)'
  PROVE  BatchInv'
<1> SUFFICES ASSUME NEW id \in BatchIds
             PROVE  /\ id > nextId' => batch'[id].phase = "none"
                    /\ batch'[id].phase = "sent" => id \notin seen'
                    /\ ItemsAt(batch'[id].places) \subseteq entered'
                    /\ batch'[id].phase = "receiving" =>
                         \A p \in Written(batch'[id].places) :
                           p \in batch'[id].todo \/ Held(ItemAt(p))'
                    /\ batch'[id].phase = "answer" =>
                         \A p \in Written(batch'[id].places) : Held(ItemAt(p))'
  BY Zenon DEF BatchInv, Written
<1>1. batch[id] \in Batch /\ \A p \in Written(batch[id].places) : ItemAt(p) \in Items
  BY PlaceFacts DEF DInv, DTypes, Batch, Written
<1>2. CASE batch'[id].phase = batch[id].phase /\ batch'[id].todo = batch[id].todo
  BY <1>1, <1>2, Zenon DEF DInv, BatchInv
<1>3. CASE batch'[id].phase \in {"refused", "done"} /\ batch[id].phase # "none"
  BY <1>1, <1>3 DEF DInv, BatchInv
<1> QED BY <1>2, <1>3

\* Of a batch in flight the items stay what they were.
LEMMA FlightKept ==
  ASSUME DInv, UNCHANGED <<pending, delivered>>,
         \A id \in BatchIds : batch'[id].places = batch[id].places,
         UNCHANGED <<loop, inflight>> \/ (inflight' = 0 /\ ~Flying')
  PROVE  FlightInv'
<1>1. 0 \notin BatchIds
  BY DEF BatchIds
<1> QED BY <1>1, Zenon DEF DInv, FlightInv, Flying

\* The hub keeps what the agent was told it has.
LEMMA ConfirmedKept ==
  ASSUME DInv, \A i \in Items : Held(i) => Held(i)',
         delivered' = delivered
  PROVE  ConfirmedWasWritten'
<1>1. delivered \subseteq Items
  BY DeliveryAssumption DEF DInv, DTypes, Items
<1> QED BY <1>1 DEF DInv, ConfirmedWasWritten, Held

LEMMA FaultStep ==
  ASSUME DInv, DeliveryNext,
         \/ \E arrived \in BOOLEAN : BreakConnection(arrived)
         \/ (\E id \in BatchIds : AuthError(id)) \/ RestartHub
  PROVE  DInv'
<1> USE DEF DInv
<1>1. /\ rows' \in [Items -> Nat] /\ logMem' \in [Items -> Nat]
      /\ \A i \in Items : Held(i) => Held(i)'
  BY HeldGrows
<1>2. batch \in [BatchIds -> Batch]
  BY DEF DTypes
<1>3. /\ UNCHANGED <<entered, pending, delivered, dropped, nextId, indexVars>>
      /\ seen' \subseteq seen
  BY DEF BreakConnection, AuthError, RestartHub, boxVars, hubVars, agentVars
<1>4. UNCHANGED <<loop, inflight>> \/ (inflight' = 0 /\ ~Flying')
  BY DEF BreakConnection, AuthError, RestartHub, Failed, agentVars, Flying
<1>5. /\ batch' \in [BatchIds -> Batch]
      /\ \A id \in BatchIds :
           /\ batch'[id].places = batch[id].places
           /\ \/ batch'[id].phase = batch[id].phase /\ batch'[id].todo = batch[id].todo
              \/ batch'[id].phase \in {"refused", "done"} /\ batch[id].phase # "none"
  <2>1. CASE \E arrived \in BOOLEAN : BreakConnection(arrived)
    <3>1. CASE BreakConnection(TRUE)
      BY <3>1, <1>2 DEF BreakConnection, Batch
    <3>2. CASE BreakConnection(FALSE)
      BY <3>2, <1>2, Zenon DEF BreakConnection, Batch, Over, NoBatch, Phases
    <3> QED BY <2>1, <3>1, <3>2, Zenon
  <2>2. CASE \E id \in BatchIds : AuthError(id)
    BY <2>2, <1>2 DEF AuthError, Batch, Phases
  <2>3. CASE RestartHub
    BY <2>3, <1>2, Zenon DEF RestartHub, Batch, Over, NoBatch, Phases
  <2> QED BY <2>1, <2>2, <2>3
<1>6. DTypes'
  <2>1. UNCHANGED <<walk, index, doubled>>
    BY <1>3 DEF indexVars
  <2>2. inflight' \in 0 .. nextId' /\ ((inflight' = 0) <=> ~Flying') /\ seen' \subseteq 1 .. nextId'
    BY <1>3, <1>4 DEF DTypes, Flying
  <2> QED BY <1>1, <1>3, <1>5, <2>1, <2>2, Zenon DEF DTypes
<1>7. BatchInv'
  BY <1>1, <1>3, <1>5, BatchesEnd
<1>8. FlightInv'
  BY <1>3, <1>4, <1>5, FlightKept
<1>9. ConfirmedWasWritten'
  BY <1>1, <1>3, ConfirmedKept
<1>10. WalkInv'
  <2>1. Flying' => Flying
    BY <1>4, Zenon DEF Flying
  <2> QED BY <1>3, <2>1, WalkSame, Zenon
<1> QED BY <1>6, <1>7, <1>8, <1>9, <1>10

\* A restart indexes what is on disk, all of it once and the newest maybe twice.
LEMMA WalkFound ==
  ASSUME DInv, NEW done, NEW k, RestartAgent(done, k)
  PROVE  /\ WalkInv' /\ ItemsAt(walk') \subseteq pending' /\ pending' \subseteq pending
         /\ walk' \subseteq Places
<1> DEFINE twice == {i \in pending' : i > k}
<1>1. /\ pending' = pending \ Removed(done)
      /\ walk' = pending' \cup {NumItems + i : i \in twice}
      /\ loop' = "select"
  BY Zenon DEF RestartAgent
<1>2. pending \subseteq Items
  BY DeliveryAssumption DEF DInv, DTypes, Items
<1>3. pending' \subseteq Items /\ twice \subseteq pending'
  BY <1>1, <1>2
<1> HIDE DEF twice
<1>4. \A p \in walk' : \/ p \in pending' /\ ItemAt(p) = p /\ p <= NumItems /\ p \in Places
                       \/ /\ ItemAt(p) \in pending' /\ p \in Places /\ p > NumItems
  <2>1. ASSUME NEW i \in twice
        PROVE  ItemAt(NumItems + i) \in pending' /\ NumItems + i \in Places /\ NumItems + i > NumItems
    <3>1. i \in Items /\ i \in pending'
      BY <1>3
    <3> QED BY <3>1, PlaceFacts, Zenon
  <2>2. ASSUME NEW i \in pending' PROVE ItemAt(i) = i /\ i <= NumItems /\ i \in Places
    BY <1>3, PlaceFacts
  <2> QED BY <1>1, <2>1, <2>2, Zenon
<1>5. ItemsAt(walk') \subseteq pending' /\ walk' \subseteq Places
  BY <1>4, Zenon DEF ItemsAt
<1>6. \A i \in pending' : i \in ItemsAt(walk')
  <2> SUFFICES ASSUME NEW i \in pending' PROVE \E p \in walk' : i = ItemAt(p)
    BY Zenon DEF ItemsAt
  <2>1. ItemAt(i) = i
    BY <1>3, PlaceFacts
  <2> QED BY <1>1, <2>1, Zenon
<1>7. \A q \in walk' : ItemAt(q) \in walk'
  BY <1>1, <1>4, Zenon
<1>8. ~Flying'
  BY <1>1 DEF Flying
<1> QED BY <1>1, <1>5, <1>6, <1>7, <1>8, Zenon DEF WalkInv

LEMMA RestartAgentStep ==
  ASSUME DInv, DeliveryNext, NEW done, NEW k, RestartAgent(done, k)
  PROVE  DInv'
<1> USE DEF DInv
<1>1. /\ rows' \in [Items -> Nat] /\ logMem' \in [Items -> Nat]
      /\ \A i \in Items : Held(i) => Held(i)'
  BY HeldGrows
<1>2. batch \in [BatchIds -> Batch]
  BY DEF DTypes
<1>3. /\ UNCHANGED <<entered, delivered, dropped, nextId, hubVars>>
      /\ inflight' = 0 /\ loop' = "select"
  BY DEF RestartAgent
<1>4. /\ WalkInv' /\ ItemsAt(walk') \subseteq pending' /\ pending' \subseteq pending
      /\ walk' \subseteq Places
  BY WalkFound, Zenon
<1>5. /\ batch' \in [BatchIds -> Batch]
      /\ \A id \in BatchIds :
           /\ batch'[id].places = batch[id].places
           /\ batch'[id].phase = batch[id].phase /\ batch'[id].todo = batch[id].todo
  BY <1>2, Zenon DEF RestartAgent, Batch
<1>6. index' \in IndexStates /\ doubled' \in BOOLEAN
  <2>1. index' \in {"sound", "high"}
    BY Zenon DEF RestartAgent
  <2>2. doubled' \in BOOLEAN
    BY Zenon DEF RestartAgent
  <2> QED BY <2>1, <2>2 DEF IndexStates
<1>7. DTypes'
  <2>1. inflight' \in 0 .. nextId' /\ ((inflight' = 0) <=> ~Flying') /\ seen' \subseteq 1 .. nextId'
    BY <1>3 DEF DTypes, Flying, hubVars
  <2>2. /\ entered' = entered /\ delivered' = delivered /\ dropped' = dropped /\ nextId' = nextId
        /\ pending' \subseteq entered' /\ ItemsAt(walk') \subseteq entered'
    BY <1>3, <1>4 DEF DTypes
  <2> QED BY <1>1, <1>4, <1>5, <1>6, <2>1, <2>2, Zenon DEF DTypes
<1>8. BatchInv'
  BY <1>1, <1>3, <1>5, BatchesEnd DEF hubVars
<1>9. FlightInv'
  BY <1>3 DEF FlightInv, BatchIds
<1>10. ConfirmedWasWritten'
  BY <1>1, <1>3, ConfirmedKept
<1> QED BY <1>4, <1>7, <1>8, <1>9, <1>10

\* The handler of one batch moves on, and its items stay the same.
LEMMA HandlerStep ==
  ASSUME DInv, NEW id \in BatchIds, NEW b \in Batch,
         UNCHANGED <<entered, pending, dropped, indexVars, nextId>>,
         batch' = [batch EXCEPT ![id] = b],
         b.places = batch[id].places, batch[id].phase # "none", b.phase # "sent",
         b.phase = "receiving" =>
           \A p \in Written(b.places) : p \in b.todo \/ Held(ItemAt(p))',
         b.phase = "answer" => \A p \in Written(b.places) : Held(ItemAt(p))',
         seen' \subseteq seen \cup {id},
         rows' \in [Items -> Nat], logMem' \in [Items -> Nat],
         \A i \in Items : Held(i) => Held(i)',
         \/ UNCHANGED <<delivered, loop, inflight>>
         \/ UNCHANGED delivered /\ inflight' = 0 /\ ~Flying'
         \/ /\ delivered' = delivered \cup ItemsAt(b.places) /\ inflight = id /\ inflight' = id
            /\ loop' = "acking" /\ batch[id].phase = "answer"
  PROVE  DInv'
<1> USE DEF DInv
<1>1. batch \in [BatchIds -> Batch] /\ nextId \in Nat /\ id \in Nat /\ id > 0
  BY DeliveryAssumption DEF DTypes, BatchIds
<1>2. \A k \in BatchIds : batch'[k] = IF k = id THEN b ELSE batch[k]
  BY <1>1
<1>3. id <= nextId /\ ItemsAt(b.places) \subseteq entered
  <2>1. ~(id > nextId)
    BY Zenon DEF BatchInv
  <2>2. id <= nextId
    BY <1>1, <2>1
  <2>3. ItemsAt(b.places) \subseteq entered
    BY Zenon DEF BatchInv
  <2> QED BY <2>2, <2>3
<1>4. DTypes'
  <2>1. seen' \subseteq 1 .. nextId'
    BY <1>1, <1>3 DEF DTypes
  <2>2. batch' \in [BatchIds -> Batch]
    BY <1>1, <1>2
  <2>3. inflight' \in 0 .. nextId' /\ ((inflight' = 0) <=> ~Flying')
    BY <1>1, <1>3, SMTT(30) DEF DTypes, Flying
  <2>4. delivered' \subseteq entered'
    <3>1. delivered \subseteq entered
      BY DEF DTypes
    <3> QED BY <1>3, <3>1
  <2>5. UNCHANGED <<walk, index, doubled>>
    BY DEF indexVars
  <2>6. nextId' \in Nat
    BY <1>1
  <2> QED BY <2>1, <2>2, <2>3, <2>4, <2>5, <2>6, Zenon DEF DTypes
<1>5. BatchInv'
  <2> SUFFICES ASSUME NEW k \in BatchIds
               PROVE  /\ k > nextId' => batch'[k].phase = "none"
                      /\ batch'[k].phase = "sent" => k \notin seen'
                      /\ ItemsAt(batch'[k].places) \subseteq entered'
                      /\ batch'[k].phase = "receiving" =>
                           \A p \in Written(batch'[k].places) :
                             p \in batch'[k].todo \/ Held(ItemAt(p))'
                      /\ batch'[k].phase = "answer" =>
                           \A p \in Written(batch'[k].places) : Held(ItemAt(p))'
    BY Zenon DEF BatchInv, Written
  <2>1. CASE k = id
    <3>1. batch'[k] = b /\ ~(k > nextId')
      BY <2>1, <1>1, <1>2, <1>3
    <3> QED BY <2>1, <3>1, <1>3, Zenon
  <2>2. CASE k # id
    <3>1. batch'[k] = batch[k] /\ \A p \in Written(batch[k].places) : ItemAt(p) \in Items
      BY <2>2, <1>1, <1>2, PlaceFacts DEF Written, Batch
    <3>2. k \notin seen => k \notin seen'
      BY <2>2
    <3> QED BY <3>1, <3>2, Zenon DEF BatchInv
  <2> QED BY <2>1, <2>2
<1>6. FlightInv'
  <2>1. \A k \in BatchIds : batch'[k].places = batch[k].places
    BY <1>2
  <2>2. CASE UNCHANGED delivered
    BY <2>1, <2>2, FlightKept DEF FlightInv, Flying
  <2>3. CASE delivered' = delivered \cup ItemsAt(b.places) /\ inflight = id /\ inflight' = id
    BY <2>1, <2>3, Zenon DEF FlightInv
  <2> QED BY <2>2, <2>3
<1>7. ConfirmedWasWritten'
  <2>1. CASE UNCHANGED delivered
    BY <2>1, ConfirmedKept
  <2>2. CASE delivered' = delivered \cup ItemsAt(b.places) /\ batch[id].phase = "answer"
    <3>1. \A i \in delivered : KindOf[i] # "inventory" => Held(i) /\ i \in Items
      BY DeliveryAssumption DEF DTypes, Items, ConfirmedWasWritten, Held
    <3>2. ASSUME NEW p \in b.places, KindOf[ItemAt(p)] # "inventory"
          PROVE  Held(ItemAt(p)) /\ ItemAt(p) \in Items
      <4>1. p \in Places
        BY DEF Batch
      <4>2. p \in Written(batch[id].places)
        BY <3>2, Zenon DEF Written
      <4> QED BY <2>2, <4>1, <4>2, PlaceFacts, Zenon DEF BatchInv
    <3>3. \A i \in delivered' : KindOf[i] # "inventory" => Held(i)'
      BY <2>2, <3>1, <3>2, Zenon DEF ItemsAt
    <3> QED BY <3>3 DEF ConfirmedWasWritten, Held
  <2> QED BY <2>1, <2>2
<1>8. WalkInv'
  <2>1. delivered \subseteq delivered'
    OBVIOUS
  <2>2. Flying' => Flying
    BY <1>1 DEF DTypes, Flying
  <2> QED BY <2>1, <2>2, WalkSame, Zenon
<1> QED BY <1>4, <1>5, <1>6, <1>7, <1>8

LEMMA HandleIngestStep ==
  ASSUME DInv, DeliveryNext, NEW id \in BatchIds, HandleIngest(id)
  PROVE  DInv'
<1> DEFINE b == [batch[id] EXCEPT
                   !.phase = IF id \in seen THEN "answer"
                             ELSE IF batch[id].gone THEN "refused" ELSE "receiving",
                   !.todo = IF id \in seen THEN {} ELSE Written(batch[id].places)]
<1>1. batch[id] \in Batch /\ batch[id].phase = "sent" /\ id \notin seen
  BY DEF DInv, DTypes, BatchInv, HandleIngest
<1>2. batch' = [batch EXCEPT ![id] = b]
  BY Zenon DEF HandleIngest
<1>3. /\ b \in Batch /\ b.places = batch[id].places
      /\ b.phase \in {"refused", "receiving"} /\ b.todo = Written(b.places)
  BY <1>1, Zenon DEF Batch, Phases, Written
<1> HIDE DEF b
<1>4. /\ UNCHANGED <<entered, pending, delivered, dropped, indexVars, nextId, loop, inflight>>
      /\ seen' = seen \cup {id}
  BY DEF HandleIngest, MarkSeen, boxVars, agentVars
<1> QED BY <1>1, <1>2, <1>3, <1>4, HeldGrows, HandlerStep, Zenon DEF DInv

LEMMA ReceiveItemStep ==
  ASSUME DInv, DeliveryNext, NEW id \in BatchIds, ReceiveItem(id)
  PROVE  DInv'
<1>1. batch[id] \in Batch /\ batch[id].phase = "receiving"
  BY DEF DInv, DTypes, ReceiveItem
<1>2. PICK p : /\ batch' = [batch EXCEPT ![id].todo = @ \ {p}]
               /\ \/ StoreRow(ItemAt(p)) \/ (\E full \in BOOLEAN : StoreLine(ItemAt(p), full))
                  \/ StoreFails(id, ItemAt(p))
  BY Zenon DEF ReceiveItem
<1> DEFINE b == [batch[id] EXCEPT !.todo = @ \ {p}]
<1>3. batch' = [batch EXCEPT ![id] = b]
  BY <1>2
<1>4. b \in Batch /\ b.places = batch[id].places /\ b.phase = "receiving"
      /\ b.todo = batch[id].todo \ {p} /\ batch[id].places \subseteq Places
  BY <1>1 DEF Batch
<1> HIDE DEF b
<1>5. /\ rows' \in [Items -> Nat] /\ logMem' \in [Items -> Nat]
      /\ \A j \in Items : Held(j) => Held(j)'
      /\ ItemAt(p) \in Items => Held(ItemAt(p))'
  <2>1. PICK i : i = ItemAt(p)
    BY Zenon
  <2>2. StoreRow(i) \/ (\E full \in BOOLEAN : StoreLine(i, full)) \/ StoreFails(id, i)
    BY <1>2, <2>1, Zenon
  <2>3. /\ rows' \in [Items -> Nat] /\ logMem' \in [Items -> Nat]
        /\ \A j \in Items : Held(j) => Held(j)'
        /\ i \in Items => Held(i)'
    BY <2>2, StoreStep, Zenon DEF DInv
  <2> QED BY <2>1, <2>3, Zenon DEF Held
<1>6. \A q \in Written(b.places) : q \in b.todo \/ Held(ItemAt(q))'
  <2> SUFFICES ASSUME NEW q \in Written(b.places) PROVE q \in b.todo \/ Held(ItemAt(q))'
    OBVIOUS
  <2>1. ItemAt(q) \in Items
    BY <1>4, PlaceFacts DEF Written
  <2>2. q \in batch[id].todo \/ Held(ItemAt(q))
    BY <1>1, <1>4, Zenon DEF DInv, BatchInv
  <2>3. CASE q = p
    BY <1>5, <2>1, <2>3, Zenon
  <2>4. CASE q # p /\ q \in batch[id].todo
    BY <1>4, <2>4
  <2>5. CASE Held(ItemAt(q))
    BY <1>5, <2>1, <2>5, Zenon
  <2> QED BY <2>2, <2>3, <2>4, <2>5, Zenon
<1>7. UNCHANGED <<entered, pending, delivered, dropped, indexVars, nextId, loop, inflight, seen>>
  BY DEF ReceiveItem, boxVars, agentVars
<1> QED BY <1>1, <1>3, <1>4, <1>5, <1>6, <1>7, HandlerStep, Zenon

LEMMA ReceiveDoneStep ==
  ASSUME DInv, DeliveryNext, NEW id \in BatchIds, ReceiveDone(id)
  PROVE  DInv'
<1> DEFINE b == [batch[id] EXCEPT !.phase = "answer"]
<1>1. batch[id] \in Batch /\ batch[id].phase = "receiving" /\ batch[id].todo = {}
  BY DEF DInv, DTypes, ReceiveDone
<1>2. batch' = [batch EXCEPT ![id] = b]
  BY DEF ReceiveDone
<1>3. b \in Batch /\ b.places = batch[id].places /\ b.phase = "answer"
  BY <1>1 DEF Batch, Phases
<1> HIDE DEF b
<1>4. /\ UNCHANGED <<entered, pending, delivered, dropped, indexVars, nextId, loop, inflight, seen>>
      /\ UNCHANGED <<rows, logMem, discarded>>
  BY DEF ReceiveDone, boxVars, agentVars, hubVars
<1>5. \A p \in Written(b.places) : Held(ItemAt(p))'
  <2>1. \A p \in Written(b.places) : Held(ItemAt(p))
    BY <1>1, <1>3, Zenon DEF DInv, BatchInv
  <2> QED BY <1>4, <2>1, Zenon DEF Held
<1> QED BY <1>1, <1>2, <1>3, <1>4, <1>5, HeldGrows, HandlerStep, Zenon DEF DInv

LEMMA RespondStep ==
  ASSUME DInv, DeliveryNext, NEW id \in BatchIds, Respond(id)
  PROVE  DInv'
<1> DEFINE b == Over(batch[id])
<1>1. batch[id] \in Batch /\ batch[id].phase \in {"answer", "refused"}
  BY DEF DInv, DTypes, Respond
<1>2. batch' = [batch EXCEPT ![id] = b]
  BY DEF Respond
<1>3. b \in Batch /\ b.places = batch[id].places /\ b.phase = "done"
  BY <1>1, Zenon DEF Batch, Phases, Over, NoBatch
<1> HIDE DEF b
<1>4. UNCHANGED <<entered, pending, dropped, indexVars, nextId, seen>>
  BY DEF Respond, boxVars, hubVars
<1>5. \/ UNCHANGED <<delivered, loop, inflight>>
      \/ UNCHANGED delivered /\ inflight' = 0 /\ ~Flying'
      \/ /\ delivered' = delivered \cup ItemsAt(b.places) /\ inflight = id /\ inflight' = id
         /\ loop' = "acking" /\ batch[id].phase = "answer"
  BY <1>3 DEF Respond, Failed, Flying, boxVars
<1> QED BY <1>1, <1>2, <1>3, <1>4, <1>5, HeldGrows, HandlerStep, Zenon DEF DInv

-----------------------------------------------------------------------------
\* Every step keeps the invariant.
LEMMA DeliveryStep == ASSUME DInv, [DeliveryNext]_deliveryVars PROVE DInv'
<1>1. CASE SinkAppend
  BY <1>1, SinkAppendStep
<1>2. CASE BackfillSend
  BY <1>2, BackfillSendStep
<1>3. CASE Ack \/ \E k \in 0 .. NumItems : AckFails(k)
  BY <1>3, AckStep
<1>4. CASE (\E fromChannel \in BOOLEAN : Wake(fromChannel)) \/ WaitOver
  <2>1. UNCHANGED <<entered, pending, delivered, dropped, indexVars, nextId, batch, hubVars>>
    BY <1>4 DEF Wake, WaitOver, boxVars
  <2>2. UNCHANGED <<loop, inflight>> \/ (inflight' = 0 /\ ~Flying')
    BY <1>4 DEF Wake, Flush, NothingToFlush, WaitOver, DInv, DTypes, Flying
  <2> QED BY <2>1, <2>2, LoopStep
<1>5. CASE DeliveryNext /\ Faults
  <2>1. CASE \E done, k \in 0 .. NumItems : RestartAgent(done, k)
    BY <1>5, <2>1, RestartAgentStep, Zenon
  <2> QED BY <1>3, <1>5, <2>1, FaultStep, Zenon DEF Faults
<1>6. CASE DeliveryNext /\ HubStep
  BY <1>6, HandleIngestStep, ReceiveItemStep, ReceiveDoneStep, RespondStep, Zenon DEF HubStep
<1>7. CASE UNCHANGED deliveryVars
  <2>1. /\ UNCHANGED <<entered, pending, delivered, dropped, indexVars, nextId, batch, hubVars>>
        /\ UNCHANGED <<loop, inflight>>
    BY <1>7, Zenon DEF deliveryVars, boxVars, agentVars
  <2> QED BY <2>1, LoopStep
<1> QED BY <1>1, <1>2, <1>3, <1>4, <1>5, <1>6, <1>7, Zenon DEF DeliveryNext, AgentStep

\* It holds at the start, with an empty buffer and no batch.
LEMMA DeliveryStart == ASSUME DeliveryInit PROVE DInv
<1> USE DEF DeliveryInit, NoBatch
<1>1. DTypes
  <2>1. 1 .. 0 = {} /\ 0 \in 0 .. NumItems
    BY DeliveryAssumption
  <2>2. NoBatch \in Batch
    BY DEF Batch, Phases
  <2>3. batch \in [BatchIds -> Batch]
    BY <2>2, Zenon
  <2>4. rows \in [Items -> Nat] /\ logMem \in [Items -> Nat]
    <3>1. 0 \in Nat
      OBVIOUS
    <3> QED BY <3>1, Zenon
  <2>5. \E n \in 0 .. NumItems : entered = 1 .. n
    BY <2>1, Zenon
  <2>6. nextId \in Nat /\ inflight \in 0 .. nextId
    OBVIOUS
  <2>7. (inflight = 0) <=> ~Flying
    BY Zenon DEF Flying
  <2>8. walk \subseteq Places /\ ItemsAt(walk) \subseteq entered /\ doubled \in BOOLEAN
    BY Zenon DEF ItemsAt
  <2>9. index \in IndexStates
    BY DEF IndexStates
  <2> QED BY <2>3, <2>4, <2>5, <2>6, <2>7, <2>8, <2>9, Zenon DEF DTypes
<1>2. BatchInv
  BY Zenon DEF BatchInv, ItemsAt
<1>3. FlightInv
  BY DEF FlightInv, BatchIds
<1>4. ConfirmedWasWritten
  BY DEF ConfirmedWasWritten
<1>5. WalkInv
  BY Zenon DEF WalkInv, ItemsAt, Flying
<1> QED BY <1>1, <1>2, <1>3, <1>4, <1>5 DEF DInv

\* Whatever the agent was told the hub has, receiver.go has written, has in the
\* log store's memory or has given up: a batch is answered only after its last
\* item, and a batch found in idempotency.go's map has been through ReceiveBatch.
THEOREM Confirmed == DeliverySpec => []ConfirmedWasWritten
<1>1. DeliveryInit => DInv
  BY DeliveryStart
<1>2. DInv /\ [DeliveryNext]_deliveryVars => DInv'
  BY DeliveryStep
<1>3. DInv => ConfirmedWasWritten
  BY DEF DInv
<1> QED BY <1>1, <1>2, <1>3, PTL DEF DeliverySpec

-----------------------------------------------------------------------------
(* The refinement of Outbox. *)

\* The sink's Append is the Outbox's Enter.
LEMMA EnterStep == ASSUME DInv, SinkAppend PROVE Box!OutboxNext
<1>1. PICK n \in 0 .. NumItems - 1 :
        /\ entered = 1 .. n /\ entered' = 1 .. n + 1
        /\ pending' = pending \cup {n + 1} /\ n + 1 \in Items
  BY AppendIsNext DEF DInv
<1>2. n \in Nat /\ entered' = entered \cup {n + 1} /\ n + 1 \notin entered
  BY <1>1, DeliveryAssumption
<1>3. UNCHANGED <<delivered, dropped>>
  BY DEF SinkAppend
<1>4. Box!Enter(n + 1)
  BY <1>1, <1>2, <1>3 DEF Box!Enter
<1> QED BY <1>1, <1>4 DEF Box!OutboxNext

\* Of what Ack is to remove, whatever part goes was confirmed before.
LEMMA ForgetStep ==
  ASSUME DInv, NEW R \in SUBSET Acking, pending' = pending \ R,
         UNCHANGED <<entered, delivered, dropped>>
  PROVE  Box!OutboxNext
<1>1. PICK S : S = pending \cap R
  BY Zenon
<1>2. pending' = pending \ S /\ S \in SUBSET pending
  BY <1>1
<1>3. S \subseteq delivered
  BY <1>1, AckedWasDelivered
<1>4. Box!Forget(S)
  BY <1>2, <1>3 DEF Box!Forget
<1> QED BY <1>2, <1>4 DEF Box!OutboxNext

\* A 200 to a waiting client delivers its batch.
LEMMA DeliverStep ==
  ASSUME DInv, NEW id \in BatchIds, Respond(id)
  PROVE  [Box!OutboxNext]_(Box!outboxVars)
<1>1. CASE UNCHANGED boxVars
  BY <1>1 DEF boxVars, Box!outboxVars
<1>2. CASE delivered' = delivered \cup ItemsAt(batch[id].places)
           /\ UNCHANGED <<entered, pending, dropped>>
  <2>1. Box!Deliver(ItemsAt(batch[id].places))
    BY <1>2 DEF Box!Deliver
  <2>2. ItemsAt(batch[id].places) \in SUBSET entered
    BY DEF DInv, BatchInv
  <2> QED BY <2>1, <2>2 DEF Box!OutboxNext
<1> QED BY <1>1, <1>2 DEF Respond

LEMMA OutboxStep ==
  ASSUME DInv, [DeliveryNext]_deliveryVars
  PROVE  [Box!OutboxNext]_(Box!outboxVars)
<1>1. CASE SinkAppend
  BY <1>1, EnterStep
<1>2. CASE \/ Ack \/ (\E k \in 0 .. NumItems : AckFails(k))
           \/ \E done, k \in 0 .. NumItems : RestartAgent(done, k)
  <2>1. PICK R : /\ pending' = pending \ R /\ R \subseteq Acking
                 /\ UNCHANGED <<entered, delivered, dropped>>
    <3>1. CASE Ack
      BY <3>1, Zenon DEF Ack
    <3>2. CASE \E k \in 0 .. NumItems : AckFails(k)
      BY <3>2, Zenon DEF AckFails, Removed
    <3>3. CASE \E done, k \in 0 .. NumItems : RestartAgent(done, k)
      BY <3>3, Zenon DEF RestartAgent, Removed
    <3> QED BY <1>2, <3>1, <3>2, <3>3
  <2> QED BY <2>1, ForgetStep
<1>3. CASE \E id \in BatchIds : Respond(id)
  BY <1>3, DeliverStep
<1>4. CASE UNCHANGED boxVars
  BY <1>4 DEF boxVars, Box!outboxVars
<1>5. CASE (\E fromChannel \in BOOLEAN : Wake(fromChannel)) \/ BackfillSend \/ WaitOver
  BY <1>4, <1>5, Zenon DEF Wake, BackfillSend, WaitOver
<1>6. CASE \E id \in BatchIds : HandleIngest(id) \/ ReceiveItem(id) \/ ReceiveDone(id)
  BY <1>4, <1>6, Zenon DEF HandleIngest, ReceiveItem, ReceiveDone
<1>7. CASE Faults
  BY <1>2, <1>4, <1>7, Zenon DEF Faults, BreakConnection, AuthError, RestartHub
<1>8. CASE UNCHANGED deliveryVars
  BY <1>4, <1>8, Zenon DEF deliveryVars
<1> QED BY <1>1, <1>2, <1>3, <1>5, <1>6, <1>7, <1>8, Zenon DEF DeliveryNext, AgentStep, HubStep

\* The flush loop of sink.go, Backfill and the hub's answers implement Outbox:
\* an item leaves the buffer only after the hub confirmed it, whichever requests
\* are lost, retried or handled twice and whoever restarts.
THEOREM DeliveryRefinement == DeliverySpec => DeliveryImplementsOutbox
<1>1. DeliveryInit => DInv /\ Box!OutboxInit
  BY DeliveryStart, Zenon DEF DeliveryInit, Box!OutboxInit
<1>2. DInv /\ [DeliveryNext]_deliveryVars => DInv'
  BY DeliveryStep
<1>3. DInv /\ [DeliveryNext]_deliveryVars => [Box!OutboxNext]_(Box!outboxVars)
  BY OutboxStep
<1> QED BY <1>1, <1>2, <1>3, PTL DEF DeliverySpec, DeliveryImplementsOutbox, Box!OutboxSpec

-----------------------------------------------------------------------------
(* What a fault may cost. *)

\* The index, and with it every batch, has each item once at most: the place of
\* an item is its number.
Plain ==
  /\ walk \subseteq Items
  /\ \A id \in BatchIds : batch[id].places \subseteq Items /\ batch[id].todo \subseteq Items

PlainOK == ~doubled => Plain

\* A batch that may still write i, or whose refusal the client has not seen.
Carries(id, i) ==
  \/ batch[id].phase = "sent" /\ i \in batch[id].places
  \/ batch[id].phase = "receiving" /\ i \in batch[id].todo
  \/ batch[id].phase = "refused" /\ inflight = id /\ i \in batch[id].places

Carriers(i) == {id \in BatchIds : Carries(id, i)}

\* The agent will put i into a batch that it has not made yet.
Unsent(i) ==
  \/ i \notin entered
  \/ i \in pending /\ (inflight # 0 => i \notin batch[inflight].places)

\* Every copy of i there is or may come from what is under way.
Bounded(i) ==
  rows[i] + logMem[i] + Cardinality(Carriers(i)) + (IF Unsent(i) THEN 1 ELSE 0)
    <= 1 + faults

\* The batch the client waits for has items, all of them in the buffer, and a
\* handler that does not find its client gone.
WaitedInv ==
  /\ \A id \in BatchIds : batch[id].gone => inflight # id
  /\ inflight # 0 => /\ inflight \in BatchIds
                     /\ batch[inflight].places # {}
                     /\ ItemsAt(batch[inflight].places) \subseteq pending

\* The client waits for a batch that no fault has met.
Trying == inflight # 0 /\ batch[inflight].phase # "refused"

\* Every batch that is over emptied the buffer by an item or met a fault, so
\* that ids never run out.
SpentInv ==
  nextId <= Cardinality(entered \ pending) + faults + (IF Trying THEN 1 ELSE 0)

\* The variables DTypes leaves out.
RestTypes ==
  /\ flushCh \in BOOLEAN
  /\ loop \in {"select", "backfill", "sending", "acking", "waiting"}
  /\ backoff \in MinBackoff .. MaxBackoff
  /\ discarded \subseteq Items
  /\ faults \in 0 .. MaxFaults

CostInv ==
  /\ RestTypes
  /\ PlainOK
  /\ WaitedInv
  /\ SpentInv
  /\ ~doubled => \A i \in Items : Bounded(i)

\* What every step keeps, whatever it costs.
Onward == RestTypes' /\ PlainOK' /\ (doubled => doubled')

-----------------------------------------------------------------------------
\* The batches that carry an item are finitely many.
LEMMA CarriersFinite ==
  ASSUME NEW i
  PROVE  IsFiniteSet(Carriers(i)) /\ Cardinality(Carriers(i)) \in Nat
<1>1. IsFiniteSet(BatchIds)
  <2>1. 1 \in Int /\ NumItems + MaxFaults \in Int
    BY DeliveryAssumption
  <2> QED BY <2>1, FS_Interval, Zenon DEF BatchIds
<1>2. Carriers(i) \subseteq BatchIds
  BY DEF Carriers
<1> QED BY <1>1, <1>2, FS_Subset, FS_CardinalityType

\* What a step may do to the account of an item: nothing, meet a fault, turn a
\* batch that carries it into a copy, end such a batch, or make one.
Accounted(i) ==
  \/ /\ Carriers(i)' \subseteq Carriers(i)
     /\ (rows[i] + logMem[i])' <= rows[i] + logMem[i]
     /\ faults' >= faults
     /\ (Unsent(i)' => Unsent(i)) \/ faults' = faults + 1
  \/ \E id \in Carriers(i) :
       /\ Carriers(i)' \subseteq Carriers(i) \ {id}
       /\ faults' >= faults
       /\ \/ /\ (rows[i] + logMem[i])' <= rows[i] + logMem[i] + 1
             /\ Unsent(i)' => Unsent(i)
          \/ (rows[i] + logMem[i])' <= rows[i] + logMem[i]
  \/ /\ \E id : Carriers(i)' = Carriers(i) \cup {id}
     /\ (rows[i] + logMem[i])' <= rows[i] + logMem[i]
     /\ faults' >= faults
     /\ Unsent(i) /\ ~Unsent(i)'

\* The sizes of two finite sets, one of which is made from the other.
LEMMA SetSizes ==
  ASSUME NEW C, NEW E, IsFiniteSet(C), IsFiniteSet(E)
  PROVE  /\ Cardinality(C) \in Nat /\ Cardinality(E) \in Nat
         /\ E \subseteq C => Cardinality(E) <= Cardinality(C)
         /\ (\E x \in C : E \subseteq C \ {x}) => Cardinality(E) <= Cardinality(C) - 1
         /\ (\E x : E = C \cup {x}) => Cardinality(E) <= Cardinality(C) + 1
<1> DEFINE n == Cardinality(C)
           m == Cardinality(E)
<1>1. n \in Nat /\ m \in Nat
  BY FS_CardinalityType
<1>2. E \subseteq C => m <= n
  BY FS_Subset
<1>3. ASSUME NEW x \in C, E \subseteq C \ {x} PROVE m <= n - 1
  <2>1. IsFiniteSet(C \ {x}) /\ Cardinality(C \ {x}) = n - 1
    BY FS_RemoveElement
  <2> QED BY <1>3, <2>1, FS_Subset
<1>4. ASSUME NEW x, E = C \cup {x} PROVE m <= n + 1
  <2>1. Cardinality(C \cup {x}) = IF x \in C THEN n ELSE n + 1
    BY FS_AddElement
  <2> QED BY <1>4, <2>1, <1>1
<1> QED BY <1>1, <1>2, <1>3, <1>4, Zenon

\* A step that accounts for the item keeps the bound on its copies.
LEMMA AccountStep ==
  ASSUME NEW i \in Items, DTypes, DTypes', faults \in Nat, faults' \in Nat,
         Bounded(i), Accounted(i)
  PROVE  Bounded(i)'
<1>1. rows[i] + logMem[i] \in Nat /\ (rows[i] + logMem[i])' \in Nat
  BY DEF DTypes
<1>2. IsFiniteSet(BatchIds)
  BY DeliveryAssumption, FS_Interval DEF BatchIds
<1>3. Carriers(i) \subseteq BatchIds /\ Carriers(i)' \subseteq BatchIds
  BY Zenon DEF Carriers
<1>4. IsFiniteSet(Carriers(i)) /\ IsFiniteSet(Carriers(i)')
  BY <1>2, <1>3, FS_Subset
<1>5. PICK C, E, c, d, u, v :
        /\ C = Carriers(i) /\ E = Carriers(i)'
        /\ c = rows[i] + logMem[i] /\ d = (rows[i] + logMem[i])'
        /\ u = (IF Unsent(i) THEN 1 ELSE 0) /\ v = (IF Unsent(i)' THEN 1 ELSE 0)
  BY Zenon
<1>6. u \in 0 .. 1 /\ v \in 0 .. 1 /\ c + Cardinality(C) + u <= 1 + faults
  BY <1>5 DEF Bounded
<1>7. /\ (Unsent(i)' => Unsent(i)) => v <= u
      /\ Unsent(i) /\ ~Unsent(i)' => u = 1 /\ v = 0
  BY <1>5
<1>8. c \in Nat /\ d \in Nat /\ IsFiniteSet(C) /\ IsFiniteSet(E)
  BY <1>1, <1>4, <1>5, Zenon
<1>9. faults <= faults'
  BY DEF Accounted
<1>10. \/ d <= c /\ E \subseteq C /\ (v <= u \/ faults' = faults + 1)
       \/ \E x \in C : E \subseteq C \ {x} /\ (d <= c \/ (d <= c + 1 /\ v <= u))
       \/ d <= c /\ (\E x : E = C \cup {x}) /\ u = 1 /\ v = 0
  BY <1>5, <1>7, Zenon DEF Accounted
<1>11. d + Cardinality(E) + v <= 1 + faults'
  <2>1. PICK f \in Nat, g \in Nat, n \in Nat, m \in Nat :
          f = faults /\ g = faults' /\ n = Cardinality(C) /\ m = Cardinality(E)
    BY <1>8, SetSizes, Zenon
  <2>2. /\ E \subseteq C => m <= n
        /\ (\E x \in C : E \subseteq C \ {x}) => m <= n - 1
        /\ (\E x : E = C \cup {x}) => m <= n + 1
    BY <2>1, <1>8, SetSizes, Zenon
  <2>3. \/ d <= c /\ m <= n /\ (v <= u \/ g = f + 1)
        \/ m <= n - 1 /\ (d <= c \/ (d <= c + 1 /\ v <= u))
        \/ d <= c /\ m <= n + 1 /\ u = 1 /\ v = 0
    BY <2>1, <2>2, <1>10, Zenon
  <2>4. c + n + u <= 1 + f /\ f <= g
    BY <2>1, <1>6, <1>9, Zenon
  <2>5. d + m + v <= 1 + g
    BY <2>3, <2>4, <1>6, <1>8
  <2> QED BY <2>1, <2>5, Zenon
<1> QED BY <1>5, <1>11 DEF Bounded

\* Of some places one is the first.
LEMMA LeastPlace ==
  ASSUME NEW S \in SUBSET Places, S # {}
  PROVE  \E p \in S : \A q \in S : p <= q
<1> DEFINE Before(x) == {y \in S : y < x}
           befores == {Before(x) : x \in S}
<1>1. befores \subseteq FiniteSubsetsOf(S) /\ befores # {}
  <2>1. IsFiniteSet(S)
    BY PlacesFinite
  <2>2. befores \subseteq FiniteSubsetsOf(S)
    BY <2>1, FS_FiniteSubsetsOfFinite
  <2> QED BY <2>2, Zenon
<1>2. PICK u \in befores : \A v \in befores : ~(<<v, u>> \in StrictSubsetOrdering(S))
  <2>1. IsFiniteSet(S)
    BY PlacesFinite
  <2> QED BY <1>1, <2>1, FS_StrictSubsetOrderingWellFounded, WFMin, Zenon
<1>3. PICK m \in S : u = Before(m)
  OBVIOUS
<1>4. S \subseteq Nat
  BY PlacesFinite
<1>5. ASSUME NEW x \in S, x < m PROVE FALSE
  <2>1. x \in Before(m) /\ x \notin Before(x)
    BY <1>4, <1>5
  <2>2. ASSUME NEW y \in Before(x) PROVE y \in Before(m)
    <3>1. y \in Nat /\ x \in Nat /\ m \in Nat /\ y \in S /\ y < x
      BY <1>4
    <3> QED BY <3>1, <1>5
  <2>3. <<Before(x), Before(m)>> \in StrictSubsetOrdering(S)
    BY <2>1, <2>2, Zenon DEF StrictSubsetOrdering
  <2> QED BY <1>2, <1>3, <2>3, Zenon
<1>6. \A x \in S : m <= x
  BY <1>4, <1>5
<1> QED BY <1>6

\* And one is the last.
LEMMA GreatestPlace ==
  ASSUME NEW S \in SUBSET Places, S # {}
  PROVE  \E p \in S : \A q \in S : q <= p
<1> DEFINE Mirror(p) == 2 * NumItems + 1 - p
           M == {Mirror(p) : p \in S}
<1>1. \A p \in S : p \in Nat /\ Mirror(p) \in Places /\ Mirror(p) \in Nat
  BY DeliveryAssumption DEF Places
<1>2. M \in SUBSET Places /\ M # {}
  BY <1>1, Zenon
<1>3. PICK m \in M : \A x \in M : m <= x
  BY <1>2, LeastPlace
<1>4. PICK p \in S : m = Mirror(p)
  BY <1>3
<1>5. ASSUME NEW q \in S PROVE q <= p
  <2>1. Mirror(p) <= Mirror(q)
    BY <1>3, <1>4
  <2> QED BY <2>1, <1>1, DeliveryAssumption
<1> QED BY <1>5

\* The next item ReceiveBatch writes is one of those left.
LEMMA NextIsLeft ==
  ASSUME NEW S \in SUBSET Places, S # {}
  PROVE  NextPlace(S) \in S
<1> DEFINE R(p) == Rank(ItemAt(p))
           T == {p \in S : \A q \in S : R(p) <= R(q)}
<1>1. \A p \in S : R(p) \in 1 .. 3 /\ p \in Nat
  <2>1. \A p \in S : p \in Nat
    BY PlaceFacts
  <2>2. \A i : Rank(i) \in 1 .. 3
    BY DEF Rank
  <2> QED BY <2>1, <2>2, Zenon
<1> HIDE DEF R
<1>2. T # {}
  <2>1. CASE \E p \in S : R(p) = 1
    BY <2>1, <1>1
  <2>2. CASE (\A p \in S : R(p) # 1) /\ \E p \in S : R(p) = 2
    BY <2>2, <1>1
  <2>3. CASE \A p \in S : R(p) # 1 /\ R(p) # 2
    BY <2>3, <1>1
  <2> QED BY <2>1, <2>2, <2>3
<1>3. PICK p \in T : \A q \in T : p <= q
  <2>1. T \in SUBSET Places
    OBVIOUS
  <2> QED BY <1>2, <2>1, LeastPlace
<1>4. ASSUME NEW q \in S \ {p}
      PROVE  R(p) < R(q) \/ (R(p) = R(q) /\ p < q)
  <2>1. R(p) <= R(q) /\ R(p) \in Nat /\ R(q) \in Nat
    BY <1>1, <1>3
  <2>2. CASE R(q) = R(p)
    <3>1. q \in T
      BY <2>2, <1>3
    <3> QED BY <3>1, <2>2, <1>1, <1>3
  <2> QED BY <2>1, <2>2
<1> QED BY <1>3, <1>4, Zenon DEF NextPlace, R

-----------------------------------------------------------------------------
\* A step that adds nothing to the buffer and makes no id keeps the accounts, if
\* it keeps the account of every item and ends a try only by a fault.
LEMMA CostStep ==
  ASSUME DInv, DInv', CostInv, Onward, WaitedInv',
         UNCHANGED <<entered, nextId>>, pending' \subseteq pending,
         (faults' = faults /\ (Trying => Trying')) \/ faults' = faults + 1,
         ~doubled' => \A i \in Items : Accounted(i)
  PROVE  CostInv'
<1>1. faults \in Nat /\ faults' \in Nat
  BY DeliveryAssumption DEF CostInv, Onward, RestTypes
<1>2. ~doubled' => \A i \in Items : Bounded(i)'
  BY <1>1, AccountStep, Zenon DEF CostInv, DInv, Onward
<1>3. SpentInv'
  <2>1. PICK S, E : S = entered \ pending /\ E = entered' \ pending'
    BY Zenon
  <2>2. S \in SUBSET Items /\ E \in SUBSET Items /\ S \subseteq E
    BY <2>1, DeliveryAssumption DEF DInv, DTypes, Items
  <2>3. Cardinality(S) \in Nat /\ Cardinality(E) \in Nat /\ nextId \in Nat
    BY <2>2, ItemsFinite DEF DInv, DTypes
  <2>4. Cardinality(S) <= Cardinality(E)
    BY <2>2, ItemsFinite, FS_Subset
  <2>5. nextId <= Cardinality(S) + faults + (IF Trying THEN 1 ELSE 0)
    BY <2>1 DEF CostInv, SpentInv
  <2>6. nextId <= Cardinality(E) + faults' + (IF Trying' THEN 1 ELSE 0)
    BY <1>1, <2>3, <2>4, <2>5
  <2> QED BY <2>1, <2>6, Zenon DEF SpentInv
<1> QED BY <1>2, <1>3 DEF CostInv, Onward

\* Of a batch that still has the items it had, no more may come than before.
LEMMA StillCarried ==
  ASSUME DInv, NEW i \in Items,
         inflight' = inflight \/ inflight' = 0,
         \A id \in BatchIds :
           /\ batch'[id].places = batch[id].places
           /\ \/ batch'[id].phase \in {"done", "answer"}
              \/ batch'[id].phase = batch[id].phase /\ batch'[id].todo \subseteq batch[id].todo
              \/ batch'[id].phase = "refused" /\ batch[id].phase = "sent"
              \/ /\ batch'[id].phase = "receiving" /\ batch[id].phase = "sent"
                 /\ batch'[id].todo \subseteq batch[id].places
  PROVE  Carriers(i)' \subseteq Carriers(i)
<1> SUFFICES ASSUME NEW id \in BatchIds, Carries(id, i)' PROVE Carries(id, i)
  BY DEF Carriers
<1>1. inflight' = id => inflight = id
  BY DEF BatchIds
<1> QED BY <1>1, Zenon DEF Carries

\* As long as the client waits for the same batch the same items are unsent.
LEMMA StillSent ==
  ASSUME WaitedInv, NEW i \in Items, UNCHANGED <<entered, pending, inflight>>,
         \A id \in BatchIds : batch'[id].places = batch[id].places
  PROVE  Unsent(i)' => Unsent(i)
  BY Zenon DEF Unsent, WaitedInv

\* The batch the client waits for stays one that has items in the buffer.
LEMMA StillWaited ==
  ASSUME DInv, WaitedInv,
         \A id \in BatchIds : batch'[id].places = batch[id].places,
         \/ inflight' = 0
         \/ /\ inflight' = inflight /\ pending' = pending
            /\ \A id \in BatchIds : batch'[id].gone => batch[id].gone
  PROVE  WaitedInv'
<1>1. 0 \notin BatchIds
  BY DEF BatchIds
<1>2. CASE inflight' = 0
  BY <1>1, <1>2, Zenon DEF WaitedInv
<1>3. CASE /\ inflight' = inflight /\ pending' = pending
           /\ \A id \in BatchIds : batch'[id].gone => batch[id].gone
  BY <1>3, Zenon DEF WaitedInv
<1> QED BY <1>2, <1>3

\* Steps that leave the exchange alone, and the failure of Ack.
LEMMA QuietCost ==
  ASSUME DInv, DInv', CostInv, Onward,
         UNCHANGED <<entered, nextId, batch, rows, logMem>>,
         \/ UNCHANGED <<pending, inflight, faults>>
         \/ pending' \subseteq pending /\ inflight' = 0 /\ faults' = faults + 1
  PROVE  CostInv'
<1>1. WaitedInv'
  BY StillWaited, Zenon DEF CostInv
<1>2. faults \in Nat
  BY DeliveryAssumption DEF CostInv, RestTypes
<1>3. (faults' = faults /\ (Trying => Trying')) \/ faults' = faults + 1
  BY Zenon DEF Trying
<1>4. ASSUME NEW i \in Items PROVE Accounted(i)
  <2>1. Carriers(i)' \subseteq Carriers(i)
    BY StillCarried, Zenon
  <2>2. (rows[i] + logMem[i])' <= rows[i] + logMem[i]
    BY DEF DInv, DTypes
  <2>3. (Unsent(i)' => Unsent(i)) \/ faults' = faults + 1
    BY StillSent, Zenon DEF CostInv
  <2>4. faults' >= faults
    BY <1>2
  <2> QED BY <2>1, <2>2, <2>3, <2>4, Zenon DEF Accounted
<1>5. pending' \subseteq pending
  OBVIOUS
<1> QED BY <1>1, <1>3, <1>4, <1>5, CostStep

\* A restart of either side, a broken connection and a refused token cost a
\* fault, and no handler writes more for them.
LEMMA FaultCost ==
  ASSUME DInv, DInv', CostInv, Onward,
         \/ (\E done, k \in 0 .. NumItems : RestartAgent(done, k))
         \/ (\E arrived \in BOOLEAN : BreakConnection(arrived))
         \/ (\E id \in BatchIds : AuthError(id)) \/ RestartHub
  PROVE  CostInv'
<1>1. batch \in [BatchIds -> Batch] /\ rows \in [Items -> Nat] /\ logMem \in [Items -> Nat]
  BY DEF DInv, DTypes
<1>2. /\ UNCHANGED <<entered, nextId, rows>> /\ faults' = faults + 1
      /\ pending' = pending \/ (pending' \subseteq pending /\ inflight' = 0)
  BY DEF RestartAgent, BreakConnection, AuthError, RestartHub, boxVars, hubVars, agentVars, Fault
<1>3. logMem' = logMem \/ logMem' = [i \in Items |-> 0]
  BY Zenon DEF RestartAgent, BreakConnection, AuthError, RestartHub, hubVars
<1>4. /\ inflight' = inflight \/ inflight' = 0
      /\ \A id \in BatchIds :
           /\ batch'[id].places = batch[id].places
           /\ inflight' = inflight => (batch'[id].gone => batch[id].gone)
           /\ \/ batch'[id].phase = "done"
              \/ batch'[id].phase = batch[id].phase /\ batch'[id].todo = batch[id].todo
              \/ batch'[id].phase = "refused" /\ batch[id].phase = "sent"
  <2>1. CASE \E done, k \in 0 .. NumItems : RestartAgent(done, k)
    <3>1. ASSUME NEW id \in BatchIds
          PROVE  /\ batch'[id].places = batch[id].places
                 /\ batch'[id].phase = batch[id].phase /\ batch'[id].todo = batch[id].todo
                 /\ id # inflight => batch'[id].gone = batch[id].gone
      BY <2>1, <1>1, Zenon DEF RestartAgent, Batch
    <3>2. inflight' = 0 /\ 0 \notin BatchIds
      BY <2>1 DEF RestartAgent, BatchIds
    <3> QED BY <3>1, <3>2, Zenon
  <2>2. CASE \E arrived \in BOOLEAN : BreakConnection(arrived)
    <3>0. inflight' = 0 /\ inflight # 0
      BY <2>2 DEF BreakConnection, DInv, DTypes, Flying
    <3>1. CASE BreakConnection(TRUE)
      BY <3>0, <3>1, <1>1 DEF BreakConnection, Batch
    <3>2. CASE BreakConnection(FALSE)
      BY <3>0, <3>2, <1>1, Zenon DEF BreakConnection, Batch, Over, NoBatch
    <3> QED BY <2>2, <3>1, <3>2, Zenon
  <2>3. CASE \E id \in BatchIds : AuthError(id)
    BY <2>3, <1>1 DEF AuthError, Batch, agentVars
  <2>4. CASE RestartHub
    <3>1. inflight' = inflight \/ inflight' = 0
      BY <2>4 DEF RestartHub
    <3> QED BY <3>1, <2>4, <1>1, Zenon DEF RestartHub, Batch, Over, NoBatch
  <2> QED BY <2>1, <2>2, <2>3, <2>4
<1>5. WaitedInv'
  BY <1>2, <1>4, StillWaited, Zenon DEF CostInv
<1>6. ASSUME NEW i \in Items PROVE Accounted(i)
  <2>1. Carriers(i)' \subseteq Carriers(i)
    <3>1. \A id \in BatchIds :
            batch'[id].todo = batch[id].todo => batch'[id].todo \subseteq batch[id].todo
      BY Zenon
    <3> QED BY <3>1, <1>4, StillCarried, Zenon
  <2>2. (rows[i] + logMem[i])' <= rows[i] + logMem[i]
    BY <1>1, <1>2, <1>3
  <2>3. faults' >= faults
    BY <1>2, DeliveryAssumption DEF CostInv, RestTypes
  <2> QED BY <2>1, <2>2, <2>3, <1>2, Zenon DEF Accounted
<1>7. pending' \subseteq pending
  BY <1>2
<1> QED BY <1>2, <1>5, <1>6, <1>7, CostStep

\* Marking a batch as seen and handing it to the receiver, or finding that its
\* client is gone.
LEMMA HandleIngestCost ==
  ASSUME DInv, DInv', CostInv, Onward, NEW id \in BatchIds, HandleIngest(id)
  PROVE  CostInv'
<1>1. /\ batch \in [BatchIds -> Batch] /\ batch[id].phase = "sent" /\ id \notin seen
      /\ UNCHANGED <<entered, pending, nextId, inflight, rows, logMem, faults>>
  BY DEF DInv, DTypes, BatchInv, HandleIngest, boxVars, agentVars
<1>2. /\ \A k \in BatchIds : k # id => batch'[k] = batch[k]
      /\ batch'[id].places = batch[id].places /\ batch'[id].gone = batch[id].gone
      /\ batch'[id].todo = Written(batch[id].places)
      /\ batch'[id].phase = IF batch[id].gone THEN "refused" ELSE "receiving"
  <2>1. batch[id] \in Batch
    BY <1>1
  <2>2. \A k \in BatchIds : k # id => batch'[k] = batch[k]
    BY <1>1 DEF HandleIngest
  <2>3. batch'[id] = [batch[id] EXCEPT
          !.phase = IF batch[id].gone THEN "refused" ELSE "receiving",
          !.todo = Written(batch[id].places)]
    BY <1>1, Zenon DEF HandleIngest
  <2> QED BY <2>1, <2>2, <2>3, Zenon DEF Batch
<1>3. Written(batch[id].places) \subseteq batch[id].places
  BY DEF Written
<1>4. \A k \in BatchIds :
        /\ batch'[k].places = batch[k].places /\ batch'[k].gone = batch[k].gone
        /\ \/ batch'[k].phase = batch[k].phase /\ batch'[k].todo \subseteq batch[k].todo
           \/ batch'[k].phase = "refused" /\ batch[k].phase = "sent"
           \/ /\ batch'[k].phase = "receiving" /\ batch[k].phase = "sent"
              /\ batch'[k].todo \subseteq batch[k].places
  BY <1>1, <1>2, <1>3
<1>5. WaitedInv'
  BY <1>1, <1>4, StillWaited, Zenon DEF CostInv
<1>6. Trying => Trying'
  BY <1>1, <1>2, Zenon DEF Trying, CostInv, WaitedInv
<1>7. ASSUME NEW i \in Items PROVE Accounted(i)
  <2>1. Carriers(i)' \subseteq Carriers(i)
    BY <1>1, <1>4, StillCarried, Zenon
  <2>2. Unsent(i)' => Unsent(i)
    BY <1>1, <1>4, StillSent, Zenon DEF CostInv
  <2>3. (rows[i] + logMem[i])' <= rows[i] + logMem[i] /\ faults' >= faults
    BY <1>1, DeliveryAssumption DEF DInv, DTypes, CostInv, RestTypes
  <2> QED BY <2>1, <2>2, <2>3, Zenon DEF Accounted
<1> QED BY <1>1, <1>5, <1>6, <1>7, CostStep

\* A write makes one copy at most of the item it takes from the batch, and none
\* of any other: a block on disk takes the lines out of memory.
LEMMA StoreCost ==
  ASSUME DTypes, faults \in Nat, NEW id \in BatchIds, NEW i \in Items, NEW j \in Items,
         StoreRow(i) \/ (\E full \in BOOLEAN : StoreLine(i, full)) \/ StoreFails(id, i)
  PROVE  /\ faults' = faults \/ faults' = faults + 1
         /\ (rows[j] + logMem[j])' <= rows[j] + logMem[j] + (IF j = i THEN 1 ELSE 0)
<1>0. rows \in [Items -> Nat] /\ logMem \in [Items -> Nat]
  BY DEF DTypes
<1>1. CASE StoreRow(i)
  BY <1>0, <1>1 DEF StoreRow
<1>2. CASE StoreLine(i, TRUE)
  <2>1. rows'[j] = rows[j] + [logMem EXCEPT ![i] = @ + 1][j] /\ logMem'[j] = 0
    BY <1>0, <1>2 DEF StoreLine
  <2> QED BY <1>0, <1>2, <2>1 DEF StoreLine
<1>3. CASE StoreLine(i, FALSE)
  BY <1>0, <1>3 DEF StoreLine
<1>4. CASE StoreFails(id, i)
  <2>1. rows' = rows /\ (logMem' = logMem \/ logMem' = [k \in Items |-> 0])
    BY <1>4, Zenon DEF StoreFails
  <2>2. faults' = faults \/ faults' = faults + 1
    BY <1>4, Zenon DEF StoreFails, Fault
  <2> QED BY <1>0, <2>1, <2>2
<1> QED BY <1>1, <1>2, <1>3, <1>4

LEMMA ReceiveItemCost ==
  ASSUME DInv, DInv', CostInv, Onward, NEW id \in BatchIds, ReceiveItem(id)
  PROVE  CostInv'
<1>1. /\ batch \in [BatchIds -> Batch] /\ batch[id].phase = "receiving"
      /\ batch[id].todo # {} /\ batch[id].todo \in SUBSET Places
      /\ UNCHANGED <<entered, pending, nextId, inflight, doubled>>
  BY DEF DInv, DTypes, Batch, ReceiveItem, boxVars, agentVars, indexVars
<1>2. PICK p, i : /\ p = NextPlace(batch[id].todo) /\ i = ItemAt(p)
                  /\ batch' = [batch EXCEPT ![id].todo = @ \ {p}]
                  /\ \/ StoreRow(i) \/ (\E full \in BOOLEAN : StoreLine(i, full))
                     \/ StoreFails(id, i)
  BY Zenon DEF ReceiveItem
<1>3. p \in batch[id].todo /\ i \in Items
  BY <1>1, <1>2, NextIsLeft, PlaceFacts
<1>4. faults \in Nat
  BY DeliveryAssumption DEF CostInv, RestTypes
<1>5. \A k \in BatchIds :
        /\ batch'[k].places = batch[k].places /\ batch'[k].gone = batch[k].gone
        /\ batch'[k].phase = batch[k].phase
        /\ batch'[k].todo = IF k = id THEN batch[k].todo \ {p} ELSE batch[k].todo
  BY <1>1, <1>2 DEF Batch
<1>6. WaitedInv'
  BY <1>1, <1>5, StillWaited, Zenon DEF CostInv
<1>7. Trying => Trying'
  BY <1>1, <1>5, Zenon DEF Trying, CostInv, WaitedInv
<1>8. (faults' = faults \/ faults' = faults + 1) /\ faults' >= faults
  BY <1>2, <1>3, <1>4, StoreCost DEF DInv
<1>9. ASSUME ~doubled, NEW j \in Items PROVE Accounted(j)
  <2>0. p = i
    BY <1>2, <1>3, <1>9, PlaceFacts DEF CostInv, PlainOK, Plain
  <2>1. Carriers(j)' \subseteq Carriers(j)
    <3>1. \A k \in BatchIds : batch'[k].todo \subseteq batch[k].todo
      BY <1>5
    <3> QED BY <1>1, <1>5, <3>1, StillCarried, Zenon
  <2>2. Unsent(j)' => Unsent(j)
    BY <1>1, <1>5, StillSent, Zenon DEF CostInv
  <2>3. (rows[j] + logMem[j])' <= rows[j] + logMem[j] + (IF j = i THEN 1 ELSE 0)
    BY <1>2, <1>3, <1>4, StoreCost DEF DInv
  <2>4. CASE j = i
    <3>1. id \in Carriers(j)
      BY <1>1, <1>3, <2>0, <2>4 DEF Carriers, Carries
    <3>2. id \notin Carriers(j)'
      <4>1. batch'[id].phase = "receiving" /\ j \notin batch'[id].todo
        BY <1>1, <1>5, <2>0, <2>4
      <4> QED BY <4>1 DEF Carriers, Carries
    <3>3. Carriers(j)' \subseteq Carriers(j) \ {id}
      BY <2>1, <3>2
    <3>4. (rows[j] + logMem[j])' <= rows[j] + logMem[j] + 1
      BY <2>3, <2>4
    <3> QED BY <3>1, <3>3, <3>4, <2>2, <1>8, Zenon DEF Accounted
  <2>5. CASE j # i
    <3>1. (rows[j] + logMem[j])' <= rows[j] + logMem[j]
      BY <2>3, <2>5 DEF DInv, DTypes
    <3> QED BY <3>1, <2>1, <2>2, <1>8, Zenon DEF Accounted
  <2> QED BY <2>4, <2>5
<1>10. pending' \subseteq pending /\ (~doubled' => \A j \in Items : Accounted(j))
  BY <1>1, <1>9
<1> QED BY <1>1, <1>6, <1>7, <1>8, <1>10, CostStep

LEMMA ReceiveDoneCost ==
  ASSUME DInv, DInv', CostInv, Onward, NEW id \in BatchIds, ReceiveDone(id)
  PROVE  CostInv'
<1>1. /\ batch \in [BatchIds -> Batch] /\ batch[id].phase = "receiving"
      /\ UNCHANGED <<entered, pending, nextId, inflight, rows, logMem, faults>>
  BY DEF DInv, DTypes, ReceiveDone, boxVars, agentVars, hubVars
<1>2. \A k \in BatchIds :
        /\ batch'[k].places = batch[k].places /\ batch'[k].gone = batch[k].gone
        /\ batch'[k].todo = batch[k].todo
        /\ batch'[k].phase = IF k = id THEN "answer" ELSE batch[k].phase
  BY <1>1 DEF Batch, ReceiveDone
<1>3. WaitedInv'
  BY <1>1, <1>2, StillWaited, Zenon DEF CostInv
<1>4. Trying => Trying'
  <2>1. \A k \in BatchIds : batch[k].phase # "refused" => batch'[k].phase # "refused"
    BY <1>2
  <2> QED BY <1>1, <2>1, Zenon DEF Trying, CostInv, WaitedInv
<1>5. ASSUME NEW i \in Items PROVE Accounted(i)
  <2>1. Carriers(i)' \subseteq Carriers(i)
    <3>1. \A k \in BatchIds :
            /\ batch'[k].places = batch[k].places /\ batch'[k].todo \subseteq batch[k].todo
            /\ batch'[k].phase = "answer" \/ batch'[k].phase = batch[k].phase
      BY <1>2
    <3> QED BY <1>1, <3>1, StillCarried, Zenon
  <2>2. Unsent(i)' => Unsent(i)
    BY <1>1, <1>2, StillSent, Zenon DEF CostInv
  <2>3. (rows[i] + logMem[i])' <= rows[i] + logMem[i] /\ faults' >= faults
    BY <1>1, DeliveryAssumption DEF DInv, DTypes, CostInv, RestTypes
  <2> QED BY <2>1, <2>2, <2>3, Zenon DEF Accounted
<1> QED BY <1>1, <1>3, <1>4, <1>5, CostStep

\* The end of a handler: of a refused batch its client still waited for, the
\* items go back to those that will be sent.
LEMMA RespondCost ==
  ASSUME DInv, DInv', CostInv, Onward, NEW id \in BatchIds, Respond(id)
  PROVE  CostInv'
<1>1. /\ batch \in [BatchIds -> Batch] /\ batch[id].phase \in {"answer", "refused"}
      /\ UNCHANGED <<entered, pending, nextId, rows, logMem, faults>>
  BY DEF DInv, DTypes, Respond, boxVars, hubVars
<1>2. \/ inflight' = inflight /\ (inflight = id => batch[id].phase = "answer")
      \/ inflight' = 0 /\ inflight = id /\ batch[id].phase = "refused"
  BY <1>1 DEF Respond
<1>3. \A k \in BatchIds :
        /\ batch'[k].places = batch[k].places /\ (batch'[k].gone => batch[k].gone)
        /\ IF k = id THEN batch'[k].phase = "done"
                     ELSE batch'[k].phase = batch[k].phase /\ batch'[k].todo = batch[k].todo
  BY <1>1, Zenon DEF Batch, Respond, Over, NoBatch
<1>4. WaitedInv'
  BY <1>1, <1>2, <1>3, StillWaited, Zenon DEF CostInv
<1>5. Trying => Trying'
  <2>1. \A k \in BatchIds : batch[k].phase # "refused" => batch'[k].phase # "refused"
    BY <1>3
  <2> QED BY <1>2, <2>1, Zenon DEF Trying, CostInv, WaitedInv
<1>6. faults' >= faults
  BY <1>1, DeliveryAssumption DEF CostInv, RestTypes
<1>7. ASSUME NEW i \in Items PROVE Accounted(i)
  <2>1. Carriers(i)' \subseteq Carriers(i)
    <3>1. \A k \in BatchIds :
            /\ batch'[k].places = batch[k].places
            /\ \/ batch'[k].phase = "done"
               \/ batch'[k].phase = batch[k].phase /\ batch'[k].todo \subseteq batch[k].todo
      BY <1>3
    <3> QED BY <1>2, <3>1, StillCarried, Zenon
  <2>2. (rows[i] + logMem[i])' <= rows[i] + logMem[i]
    BY <1>1 DEF DInv, DTypes
  <2>3. CASE inflight' = inflight
    <3>1. Unsent(i)' => Unsent(i)
      BY <2>3, <1>1, <1>3, StillSent, Zenon DEF CostInv
    <3> QED BY <3>1, <2>1, <2>2, <1>6, Zenon DEF Accounted
  <2>4. CASE inflight = id /\ batch[id].phase = "refused" /\ i \in batch[id].places
    <3>1. id \in Carriers(i)
      BY <2>4 DEF Carriers, Carries
    <3>2. batch'[id].phase = "done"
      BY <1>3
    <3>3. id \notin Carriers(i)'
      BY <3>2 DEF Carriers, Carries
    <3>4. Carriers(i)' \subseteq Carriers(i) \ {id}
      BY <2>1, <3>3
    <3> QED BY <3>1, <3>4, <2>2, <1>6, Zenon DEF Accounted
  <2>5. CASE inflight = id /\ i \notin batch[id].places
    <3>1. Unsent(i)' => Unsent(i)
      BY <2>5, <1>1, Zenon DEF Unsent
    <3> QED BY <3>1, <2>1, <2>2, <1>6, Zenon DEF Accounted
  <2> QED BY <1>2, <2>3, <2>4, <2>5, Zenon
<1> QED BY <1>1, <1>4, <1>5, <1>7, CostStep

\* An append counts its item before and after.
LEMMA SinkAppendCost ==
  ASSUME DInv, DInv', CostInv, Onward, SinkAppend
  PROVE  CostInv'
<1>1. UNCHANGED <<nextId, inflight, batch, rows, logMem, faults, doubled>>
  BY DEF SinkAppend, hubVars
<1>2. PICK n \in 0 .. NumItems - 1 :
        /\ entered = 1 .. n /\ entered' = 1 .. n + 1
        /\ pending' = pending \cup {n + 1} /\ n + 1 \in Items
  BY AppendIsNext DEF DInv
<1>3. n \in Nat /\ entered' = entered \cup {n + 1} /\ n + 1 \notin entered
  BY <1>2, DeliveryAssumption
<1>4. entered' \ pending' = entered \ pending
  BY <1>2, <1>3
<1>5. WaitedInv'
  BY <1>1, <1>2 DEF CostInv, WaitedInv
<1>6. SpentInv'
  BY <1>1, <1>4, Zenon DEF CostInv, SpentInv, Trying
<1>7. ASSUME NEW i \in Items PROVE Accounted(i)
  <2>1. Carriers(i)' = Carriers(i)
    BY <1>1, Zenon DEF Carriers, Carries
  <2>2. Unsent(i)' => Unsent(i)
    BY <1>1, <1>2, <1>3 DEF Unsent
  <2>3. (rows[i] + logMem[i])' <= rows[i] + logMem[i] /\ faults' >= faults
    BY <1>1, DeliveryAssumption DEF DInv, DTypes, CostInv, RestTypes
  <2> QED BY <2>1, <2>2, <2>3 DEF Accounted
<1>8. faults \in Nat /\ faults' \in Nat
  BY <1>1, DeliveryAssumption DEF CostInv, RestTypes
<1>9. ~doubled' => \A i \in Items : Bounded(i)'
  BY <1>1, <1>7, <1>8, AccountStep, Zenon DEF CostInv, DInv
<1> QED BY <1>5, <1>6, <1>9 DEF CostInv, Onward

\* Ack empties the buffer by the batch it confirms, of which nothing will be
\* sent again.
LEMMA AckCost ==
  ASSUME DInv, DInv', CostInv, Onward, Ack
  PROVE  CostInv'
<1>1. /\ UNCHANGED <<entered, nextId, batch, rows, logMem, faults, doubled>>
      /\ inflight' = 0 /\ inflight # 0 /\ loop = "acking"
  BY DEF Ack, hubVars, DInv, DTypes, Flying
<1>2. PICK S \in SUBSET Places :
        S = batch[inflight].places /\ S # {} /\ ItemsAt(S) \subseteq pending
  <2>1. /\ inflight \in BatchIds /\ batch[inflight].places # {}
        /\ ItemsAt(batch[inflight].places) \subseteq pending
    BY <1>1, Zenon DEF CostInv, WaitedInv
  <2>2. batch[inflight].places \in SUBSET Places
    BY <2>1 DEF DInv, DTypes, Batch
  <2> QED BY <2>1, <2>2, Zenon
<1>3. pending' = pending \ Acked(S)
  BY <1>1, <1>2, Zenon DEF Ack, Acking
<1>4. pending \subseteq entered /\ entered \in SUBSET Items /\ entered \subseteq Nat
  BY DeliveryAssumption DEF DInv, DTypes, Items
<1>5. PICK p \in S : \A q \in S : q <= p
  BY <1>2, GreatestPlace
<1>6. ItemAt(p) \in pending /\ ItemAt(p) \in Acked(S)
  <2>1. ItemAt(p) \in pending
    BY <1>2, Zenon DEF ItemsAt
  <2>2. ItemAt(p) \in Items /\ ItemAt(p) <= ItemAt(p)
    <3>1. p \in Places
      BY <1>2
    <3>2. ItemAt(p) \in Items /\ ItemAt(p) \in Nat
      BY <3>1, PlaceFacts
    <3> QED BY <3>2
  <2> QED BY <1>5, <2>1, <2>2, Zenon DEF Acked
<1>7. WaitedInv'
  <2>1. 0 \notin BatchIds
    BY DEF BatchIds
  <2> QED BY <1>1, <2>1 DEF WaitedInv
<1>8. SpentInv'
  <2>1. PICK x : x = ItemAt(p) /\ x \in pending /\ x \notin pending'
    BY <1>3, <1>6
  <2>2. (entered \ pending) \cup {x} \subseteq entered \ pending'
    BY <1>3, <1>4, <2>1
  <2>3. /\ IsFiniteSet(entered \ pending) /\ Cardinality(entered \ pending) \in Nat
        /\ IsFiniteSet(entered \ pending') /\ Cardinality(entered \ pending') \in Nat
    BY <1>4, ItemsFinite
  <2>4. Cardinality((entered \ pending) \cup {x}) = Cardinality(entered \ pending) + 1
    BY <2>1, <2>3, FS_AddElement
  <2>5. Cardinality((entered \ pending) \cup {x}) <= Cardinality(entered \ pending')
    BY <2>2, <2>3, FS_Subset
  <2>6. nextId <= Cardinality(entered \ pending) + faults + (IF Trying THEN 1 ELSE 0)
    BY DEF CostInv, SpentInv
  <2>7. ~Trying' /\ nextId \in Nat /\ faults \in Nat
    BY <1>1, DeliveryAssumption DEF Trying, DInv, DTypes, CostInv, RestTypes
  <2>8. nextId <= Cardinality(entered \ pending') + faults
    BY <2>3, <2>4, <2>5, <2>6, <2>7
  <2>9. nextId' <= Cardinality(entered' \ pending') + faults' + 0
    BY <1>1, <2>3, <2>7, <2>8
  <2> QED BY <2>7, <2>9 DEF SpentInv
<1>9. ASSUME ~doubled, NEW i \in Items PROVE Accounted(i)
  <2>1. Carriers(i)' \subseteq Carriers(i)
    BY <1>1, StillCarried, Zenon
  <2>2. Unsent(i)' => Unsent(i)
    <3>1. i \in S => i \in Acked(S)
      <4>1. S \subseteq Items
        BY <1>1, <1>2, <1>9, Zenon DEF CostInv, PlainOK, Plain, WaitedInv
      <4>2. ItemAt(p) = p
        BY <4>1, <1>5, PlaceFacts
      <4>3. i \in S => i <= ItemAt(p)
        BY <1>5, <4>2
      <4> QED BY <1>5, <4>3, Zenon DEF Acked
    <3> QED BY <1>1, <1>2, <1>3, <3>1, Zenon DEF Unsent
  <2>3. (rows[i] + logMem[i])' <= rows[i] + logMem[i] /\ faults' >= faults
    BY <1>1, DeliveryAssumption DEF DInv, DTypes, CostInv, RestTypes
  <2> QED BY <2>1, <2>2, <2>3, Zenon DEF Accounted
<1>10. faults \in Nat /\ faults' \in Nat
  BY <1>1, DeliveryAssumption DEF CostInv, RestTypes
<1>11. ~doubled' => \A i \in Items : Bounded(i)'
  BY <1>1, <1>9, <1>10, AccountStep, Zenon DEF CostInv, DInv
<1> QED BY <1>7, <1>8, <1>11 DEF CostInv, Onward

\* A buffer that holds items has an oldest one, so that no batch is empty.
LEMMA OldestIsSome ==
  ASSUME NEW S \in SUBSET Places, S # {}
  PROVE  Oldest(S) # {}
<1>1. \A x \in S : x \in Nat
  BY PlaceFacts
<1>2. PICK i \in S : \A j \in S : i <= j
  BY LeastPlace
<1>3. {j \in S : j < i} = {}
  <2>1. \A j \in S : ~(j < i)
    BY <1>1, <1>2
  <2> QED BY <2>1, Zenon
<1>4. Cardinality({j \in S : j < i}) < BatchSize
  BY <1>3, FS_EmptySet, DeliveryAssumption
<1> QED BY <1>4 DEF Oldest

\* Making a batch: there is an id left for it, and it takes the place of the
\* promise to send its items.
LEMMA BackfillCost ==
  ASSUME DInv, DInv', CostInv, Onward, BackfillSend,
         index # "gone", walk # {}
  PROVE  CostInv'
<1> DEFINE S == Oldest(walk)
           new == [NoBatch EXCEPT !.places = S, !.phase = "sent"]
<1>0. PICK w : w = nextId + 1
  BY Zenon
<1>1. /\ nextId' = w /\ inflight' = w
      /\ batch' = [batch EXCEPT ![w] = new]
      /\ UNCHANGED <<entered, pending, rows, logMem, faults, doubled>>
  BY <1>0, Zenon DEF BackfillSend, ItemsToBatch, boxVars, hubVars, indexVars
<1>2. inflight = 0
  BY DEF BackfillSend, DInv, DTypes, Flying
<1>3. pending \in SUBSET Items /\ pending \subseteq entered /\ entered \in SUBSET Items
  BY DeliveryAssumption DEF DInv, DTypes, Items
<1>4. S \subseteq walk /\ ItemsAt(S) \subseteq pending /\ S # {}
  <2>1. walk \in SUBSET Places /\ ItemsAt(walk) \subseteq pending
    BY DEF DInv, DTypes, WalkInv
  <2>2. S # {}
    BY <2>1, OldestIsSome
  <2>3. S \subseteq walk
    BY DEF Oldest
  <2> HIDE DEF S
  <2> QED BY <2>1, <2>2, <2>3, Zenon DEF ItemsAt
<1>5. new.places = S /\ new.phase = "sent" /\ ~new.gone
  BY Zenon DEF NoBatch
<1> HIDE DEF S, new
<1>6. /\ nextId \in Nat /\ faults \in Nat /\ MaxFaults \in Nat /\ NumItems \in Nat
      /\ faults <= MaxFaults /\ batch \in [BatchIds -> Batch]
  BY DeliveryAssumption DEF DInv, DTypes, CostInv, RestTypes
<1>7. /\ Cardinality(entered \ pending) \in Nat
      /\ nextId <= Cardinality(entered \ pending) + faults
  <2>1. Cardinality(entered \ pending) \in Nat
    BY <1>3, ItemsFinite
  <2>2. nextId <= Cardinality(entered \ pending) + faults + (IF Trying THEN 1 ELSE 0)
    BY DEF CostInv, SpentInv
  <2>3. ~Trying
    BY <1>2 DEF Trying
  <2> QED BY <1>6, <2>1, <2>2, <2>3
<1>8. w \in BatchIds
  <2>1. PICK x \in pending : x \in Items
    <3>1. PICK p : p \in S
      BY <1>4
    <3>2. ItemAt(p) \in pending
      BY <1>4, <3>1, Zenon DEF ItemsAt
    <3> QED BY <1>3, <3>2
  <2>2. IsFiniteSet(Items) /\ Cardinality(Items) = NumItems
    BY <1>6, FS_Interval DEF Items
  <2>3. /\ IsFiniteSet(Items \ {x}) /\ Cardinality(Items \ {x}) = NumItems - 1
    BY <2>1, <2>2, FS_RemoveElement
  <2>4. entered \ pending \subseteq Items \ {x}
    BY <1>3, <2>1
  <2>5. Cardinality(entered \ pending) <= NumItems - 1
    BY <2>3, <2>4, FS_Subset
  <2> QED BY <1>0, <1>6, <1>7, <2>5 DEF BatchIds
<1>9. /\ batch'[w] = new
      /\ \A id \in BatchIds : id # w => batch'[id] = batch[id]
  BY <1>1, <1>6, <1>8
<1>10. WaitedInv'
  <2>1. w # 0 /\ inflight' = w
    BY <1>0, <1>1, <1>6
  <2> QED BY <2>1, <1>1, <1>4, <1>5, <1>8, <1>9, Zenon DEF WaitedInv
<1>11. SpentInv'
  <2>1. inflight' # 0
    BY <1>0, <1>1, <1>6
  <2>2. Trying'
    BY <2>1, <1>1, <1>5, <1>9, Zenon DEF Trying
  <2>3. w <= Cardinality(entered \ pending) + faults + 1
    BY <1>6, <1>7, <1>0
  <2> QED BY <1>1, <2>2, <2>3 DEF SpentInv
<1>12. ASSUME ~doubled, NEW i \in Items PROVE Accounted(i)
  <2>1. (rows[i] + logMem[i])' <= rows[i] + logMem[i] /\ faults' >= faults
    BY <1>1, <1>6 DEF DInv, DTypes
  <2>2. \A id \in BatchIds : id # w => (Carries(id, i)' <=> Carries(id, i))
    <3>1. ASSUME NEW id \in BatchIds, id # w, batch[id].phase = "refused",
                 i \in batch[id].places
          PROVE  inflight' # id /\ inflight # id
      BY <3>1, <1>1, <1>2 DEF BatchIds
    <3> QED BY <1>9, <3>1, Zenon DEF Carries
  <2>3. ~Carries(w, i)
    <3>1. w > nextId
      BY <1>0, <1>6
    <3>2. batch[w].phase = "none"
      BY <1>8, <3>1 DEF DInv, BatchInv
    <3> QED BY <3>2 DEF Carries
  <2>4. Carries(w, i)' <=> i \in S
    BY <1>1, <1>5, <1>9 DEF Carries
  <2>5. CASE i \in S
    <3>1. Carriers(i)' = Carriers(i) \cup {w}
      BY <2>2, <2>3, <2>4, <2>5, <1>8, Zenon DEF Carriers
    <3>2. i \in pending /\ Unsent(i)
      <4>1. ItemAt(i) = i
        BY PlaceFacts
      <4>2. i \in pending
        BY <1>4, <2>5, <4>1, Zenon DEF ItemsAt
      <4> QED BY <1>2, <4>2, Zenon DEF Unsent
    <3>3. ~Unsent(i)'
      <4>1. i \in entered' /\ inflight' # 0 /\ batch'[inflight'].places = S
        BY <3>2, <1>0, <1>1, <1>3, <1>5, <1>6, <1>9
      <4> QED BY <4>1, <2>5 DEF Unsent
    <3> QED BY <3>1, <3>2, <3>3, <2>1, Zenon DEF Accounted
  <2>6. CASE i \notin S
    <3>1. Carriers(i)' \subseteq Carriers(i)
      BY <2>2, <2>3, <2>4, <2>6, Zenon DEF Carriers
    <3>2. Unsent(i)' => Unsent(i)
      BY <1>1, <1>2, Zenon DEF Unsent
    <3> QED BY <3>1, <3>2, <2>1, Zenon DEF Accounted
  <2> QED BY <2>5, <2>6
<1>13. faults' \in Nat
  BY <1>1, <1>6
<1>14. ~doubled' => \A i \in Items : Bounded(i)'
  BY <1>1, <1>6, <1>12, <1>13, AccountStep, Zenon DEF CostInv, DInv
<1> QED BY <1>10, <1>11, <1>14 DEF CostInv, Onward

-----------------------------------------------------------------------------
\* A failure doubles the delay up to the largest.
LEMMA FailedBackoff ==
  ASSUME RestTypes, Failed
  PROVE  loop' = "waiting" /\ backoff' \in MinBackoff .. MaxBackoff
<1>1. backoff \in Nat /\ 2 * backoff \in Nat /\ MaxBackoff \in Nat /\ MinBackoff \in Nat
      /\ MinBackoff <= backoff /\ MinBackoff <= MaxBackoff
  BY BackoffAssumption DEF RestTypes
<1>2. backoff' = Min({2 * backoff, MaxBackoff}) /\ loop' = "waiting"
  BY DEF Failed
<1>3. backoff' = IF 2 * backoff <= MaxBackoff THEN 2 * backoff ELSE MaxBackoff
  BY <1>1, <1>2 DEF Min
<1> QED BY <1>1, <1>2, <1>3

LEMMA RestStep ==
  ASSUME DInv, RestTypes, [DeliveryNext]_deliveryVars
  PROVE  RestTypes'
<1> USE DEF RestTypes
<1>0. /\ MinBackoff \in MinBackoff .. MaxBackoff
      /\ faults' = faults \/ Fault => faults' \in 0 .. MaxFaults
  BY BackoffAssumption, DeliveryAssumption DEF Fault
<1>1. CASE SinkAppend \/ Ack \/ WaitOver \/ UNCHANGED deliveryVars
  BY <1>1 DEF SinkAppend, Ack, WaitOver, deliveryVars, agentVars, hubVars
<1>2. CASE (\E fromChannel \in BOOLEAN : Wake(fromChannel)) \/ BackfillSend
  <2>1. UNCHANGED <<faults, discarded>> /\ flushCh' \in BOOLEAN
    BY <1>2, Zenon DEF Wake, BackfillSend, hubVars
  <2>2. \/ /\ backoff' = backoff \/ backoff' = MinBackoff
           /\ loop' \in {loop, "select", "backfill", "sending"}
        \/ Failed
    BY <1>2, Zenon DEF Wake, Flush, NothingToFlush, BackfillSend
  <2> QED BY <1>0, <2>1, <2>2, FailedBackoff
<1>3. CASE (\E k \in 0 .. NumItems : AckFails(k)) \/ (\E arrived \in BOOLEAN : BreakConnection(arrived))
  <2>1. Failed /\ Fault /\ UNCHANGED <<flushCh, discarded>>
    BY <1>3, Zenon DEF AckFails, BreakConnection, hubVars
  <2> QED BY <1>0, <2>1, FailedBackoff
<1>4. CASE \E done, k \in 0 .. NumItems : RestartAgent(done, k)
  BY <1>0, <1>4 DEF RestartAgent, hubVars
<1>5. CASE \E id \in BatchIds : AuthError(id)
  <2>1. Fault /\ UNCHANGED <<flushCh, loop, backoff, discarded>>
    BY <1>5, Zenon DEF AuthError, hubVars, agentVars
  <2> QED BY <1>0, <2>1
<1>6. CASE RestartHub
  <2>1. Fault /\ UNCHANGED flushCh /\ discarded' \subseteq Items
    BY <1>6 DEF RestartHub
  <2>2. Failed \/ UNCHANGED <<loop, backoff>>
    BY <1>6 DEF RestartHub
  <2> QED BY <1>0, <2>1, <2>2, FailedBackoff
<1>7. CASE \E id \in BatchIds : HandleIngest(id) \/ ReceiveDone(id)
  <2>1. UNCHANGED <<flushCh, loop, backoff, discarded, faults>>
    BY <1>7, Zenon DEF HandleIngest, ReceiveDone, agentVars, hubVars
  <2> QED BY <2>1
<1>8. CASE \E id \in BatchIds : ReceiveItem(id)
  <2>1. PICK id \in BatchIds : ReceiveItem(id)
    BY <1>8
  <2>2. /\ UNCHANGED <<flushCh, loop, backoff>>
        /\ batch[id].todo # {} /\ batch[id].todo \in SUBSET Places
    BY <2>1 DEF ReceiveItem, agentVars, DInv, DTypes, Batch
  <2>3. PICK i \in Items :
          StoreRow(i) \/ (\E full \in BOOLEAN : StoreLine(i, full)) \/ StoreFails(id, i)
    <3>1. PICK p : /\ p = NextPlace(batch[id].todo)
                   /\ \/ StoreRow(ItemAt(p)) \/ (\E full \in BOOLEAN : StoreLine(ItemAt(p), full))
                      \/ StoreFails(id, ItemAt(p))
      BY <2>1, Zenon DEF ReceiveItem
    <3>2. ItemAt(p) \in Items
      BY <2>2, <3>1, NextIsLeft, PlaceFacts
    <3> QED BY <3>1, <3>2, Zenon
  <2>4. discarded' \subseteq Items
    BY <2>3 DEF StoreRow, StoreLine, StoreFails
  <2>5. faults' = faults \/ Fault
    BY <2>3, Zenon DEF StoreRow, StoreLine, StoreFails
  <2> QED BY <1>0, <2>2, <2>4, <2>5
<1>9. CASE \E id \in BatchIds : Respond(id)
  <2>1. UNCHANGED <<flushCh, discarded, faults>>
    BY <1>9, Zenon DEF Respond, hubVars
  <2>2. UNCHANGED <<loop, backoff>> \/ (loop' = "acking" /\ UNCHANGED backoff) \/ Failed
    BY <1>9, Zenon DEF Respond
  <2> QED BY <2>1, <2>2, FailedBackoff
<1> QED BY <1>1, <1>2, <1>3, <1>4, <1>5, <1>6, <1>7, <1>8, <1>9, Zenon
      DEF DeliveryNext, AgentStep, HubStep, Faults

\* An item gets a second place only when a recovery indexes a segment twice.
LEMMA PlainStep ==
  ASSUME PlainOK, doubled => doubled', Plain /\ ~doubled' => walk' \subseteq Items,
         \A id \in BatchIds :
           /\ batch'[id].places \subseteq batch[id].places \cup walk
           /\ batch'[id].todo \subseteq batch[id].todo \cup batch[id].places
  PROVE  PlainOK' /\ (doubled => doubled')
<1> SUFFICES ASSUME ~doubled' PROVE Plain'
  BY DEF PlainOK
<1>1. Plain
  BY DEF PlainOK
<1> QED BY <1>1 DEF Plain

\* The batches a step makes or changes have places of the index.
LEMMA BatchPlaces ==
  ASSUME DInv, [DeliveryNext]_deliveryVars, NEW id \in BatchIds
  PROVE  /\ batch'[id].places \subseteq batch[id].places \cup walk
         /\ batch'[id].todo \subseteq batch[id].todo \cup batch[id].places
<1>1. batch \in [BatchIds -> Batch] /\ batch[id] \in Batch
  BY DEF DInv, DTypes
<1>2. CASE batch' = batch
  BY <1>2
<1>3. CASE BackfillSend
  <2>1. batch' = batch \/ ItemsToBatch(Oldest(walk))
    BY <1>3, Zenon DEF BackfillSend
  <2>2. CASE ItemsToBatch(Oldest(walk))
    <3>1. PICK new : /\ new = [NoBatch EXCEPT !.places = Oldest(walk), !.phase = "sent"]
                     /\ batch' = [batch EXCEPT ![nextId + 1] = new]
      BY <2>2, Zenon DEF ItemsToBatch
    <3>2. new.places \subseteq walk /\ new.todo = {}
      BY <3>1 DEF NoBatch, Oldest
    <3>3. batch'[id] = batch[id] \/ batch'[id] = new
      BY <1>1, <3>1, Zenon
    <3> QED BY <3>2, <3>3
  <2> QED BY <1>2, <2>1, <2>2
<1>4. CASE \E k \in BatchIds : HandleIngest(k)
  <2>1. PICK k \in BatchIds : HandleIngest(k)
    BY <1>4
  <2>2. batch'[id] = batch[id] \/ (/\ batch'[id].places = batch[id].places
                                 /\ batch'[id].todo \in {{}, Written(batch[id].places)})
    BY <1>1, <2>1, Zenon DEF HandleIngest, Batch
  <2> QED BY <2>2 DEF Written
<1>5. CASE \E k \in BatchIds : ReceiveItem(k)
  <2>1. PICK k, p : batch' = [batch EXCEPT ![k].todo = @ \ {p}]
    BY <1>5, Zenon DEF ReceiveItem
  <2> QED BY <1>1, <2>1 DEF Batch
<1>6. CASE \E k \in BatchIds : ReceiveDone(k) \/ AuthError(k)
  BY <1>1, <1>6 DEF ReceiveDone, AuthError, Batch
<1>7. CASE \/ (\E k \in BatchIds : Respond(k)) \/ RestartHub
           \/ (\E arrived \in BOOLEAN : BreakConnection(arrived))
           \/ (\E done, k \in 0 .. NumItems : RestartAgent(done, k))
  <2>1. /\ batch'[id].places = batch[id].places
        /\ batch'[id].todo = batch[id].todo \/ batch'[id].todo = {}
    <3>1. Over(batch[id]).places = batch[id].places /\ Over(batch[id]).todo = {}
      BY Zenon DEF Over, NoBatch
    <3>2. [batch[id] EXCEPT !.gone = TRUE].places = batch[id].places
          /\ [batch[id] EXCEPT !.gone = TRUE].todo = batch[id].todo
      BY <1>1, Zenon DEF Batch
    <3>3. batch'[id] \in {batch[id], Over(batch[id]), [batch[id] EXCEPT !.gone = TRUE]}
      BY <1>1, <1>7, Zenon DEF Respond, RestartHub, BreakConnection, RestartAgent
    <3> QED BY <3>1, <3>2, <3>3, Zenon
  <2> QED BY <2>1
<1>8. CASE \/ SinkAppend \/ Ack \/ (\E k \in 0 .. NumItems : AckFails(k)) \/ WaitOver
           \/ (\E fromChannel \in BOOLEAN : Wake(fromChannel)) \/ UNCHANGED deliveryVars
  BY <1>2, <1>8, Zenon DEF SinkAppend, Ack, AckFails, WaitOver, Wake, deliveryVars
<1> QED BY <1>3, <1>4, <1>5, <1>6, <1>7, <1>8, Zenon
      DEF DeliveryNext, AgentStep, HubStep, Faults

LEMMA PlainKept ==
  ASSUME DInv, PlainOK, [DeliveryNext]_deliveryVars
  PROVE  PlainOK' /\ (doubled => doubled')
<1>1. \A id \in BatchIds :
        /\ batch'[id].places \subseteq batch[id].places \cup walk
        /\ batch'[id].todo \subseteq batch[id].todo \cup batch[id].places
  BY BatchPlaces
<1>2. CASE SinkAppend
  <2>1. ASSUME Plain PROVE walk' \subseteq Items
    <3>1. PICK n : /\ n + 1 \in Items
                   /\ walk' = walk \cup {IF \E p \in walk : p > NumItems THEN NumItems + (n + 1)
                                                                       ELSE n + 1}
      BY <1>2, AppendIsNext DEF DInv
    <3>2. walk \subseteq Items /\ ~\E p \in walk : p > NumItems
      BY <2>1, DeliveryAssumption DEF Plain, Items
    <3> QED BY <3>1, <3>2
  <2>2. doubled' = doubled
    BY <1>2 DEF SinkAppend
  <2> QED BY <1>1, <2>1, <2>2, PlainStep
<1>3. CASE \E done, k \in 0 .. NumItems : RestartAgent(done, k)
  <2>1. PICK done, k : RestartAgent(done, k)
    BY <1>3
  <2>2. PICK twice : /\ walk' = pending' \cup {NumItems + i : i \in twice}
                     /\ doubled' = (doubled \/ twice # {})
    BY <2>1, Zenon DEF RestartAgent
  <2>3. pending' \subseteq Items
    <3>1. pending \subseteq Items
      BY DeliveryAssumption DEF DInv, DTypes, Items
    <3> QED BY <2>1, <3>1 DEF RestartAgent
  <2>4. (doubled => doubled') /\ (~doubled' => walk' \subseteq Items)
    BY <2>2, <2>3
  <2> QED BY <1>1, <2>4, PlainStep
<1>4. CASE UNCHANGED indexVars
  <2>1. doubled' = doubled /\ walk' = walk
    BY <1>4 DEF indexVars
  <2> QED BY <1>1, <2>1, PlainStep DEF Plain
<1>5. CASE Ack \/ (\E k \in 0 .. NumItems : AckFails(k))
  <2>1. doubled' = doubled /\ walk' \subseteq walk
    <3>1. doubled' = doubled /\ (walk' = walk \/ walk' = Without(Acking))
      BY <1>5, Zenon DEF Ack, AckFails
    <3> QED BY <3>1 DEF Without
  <2> QED BY <1>1, <2>1, PlainStep DEF Plain
<1>6. CASE \/ BackfillSend \/ WaitOver \/ (\E fromChannel \in BOOLEAN : Wake(fromChannel))
           \/ HubStep \/ RestartHub \/ (\E arrived \in BOOLEAN : BreakConnection(arrived))
           \/ (\E id \in BatchIds : AuthError(id)) \/ UNCHANGED deliveryVars
  BY <1>4, <1>6, Zenon DEF BackfillSend, WaitOver, Wake, HubStep, HandleIngest, ReceiveItem,
     ReceiveDone, Respond, RestartHub, BreakConnection, AuthError, deliveryVars
<1> QED BY <1>2, <1>3, <1>5, <1>6, Zenon DEF DeliveryNext, AgentStep, Faults

\* Every step keeps the accounts.
LEMMA CostKept == ASSUME DInv, CostInv, [DeliveryNext]_deliveryVars PROVE CostInv'
<1>1. DInv' /\ Onward
  BY DeliveryStep, RestStep, PlainKept DEF CostInv, Onward
<1>2. CASE SinkAppend
  BY <1>1, <1>2, SinkAppendCost
<1>3. CASE BackfillSend /\ index # "gone" /\ walk # {}
  BY <1>1, <1>3, BackfillCost
<1>4. CASE Ack
  BY <1>1, <1>4, AckCost
<1>5. CASE \/ (\E fromChannel \in BOOLEAN : Wake(fromChannel)) \/ WaitOver
           \/ (BackfillSend /\ (index = "gone" \/ walk = {}))
           \/ UNCHANGED deliveryVars
  <2>1. UNCHANGED <<entered, pending, nextId, batch, rows, logMem, inflight, faults>>
    BY <1>5, Zenon DEF Wake, WaitOver, BackfillSend, deliveryVars, boxVars, agentVars, hubVars
  <2> QED BY <1>1, <2>1, QuietCost
<1>6. CASE \E k \in 0 .. NumItems : AckFails(k)
  <2>1. /\ UNCHANGED <<entered, nextId, batch, rows, logMem>>
        /\ pending' \subseteq pending /\ inflight' = 0 /\ faults' = faults + 1
    BY <1>6 DEF AckFails, hubVars, Fault
  <2> QED BY <1>1, <2>1, QuietCost
<1>7. CASE Faults
  BY <1>1, <1>6, <1>7, FaultCost, Zenon DEF Faults
<1>8. CASE HubStep
  BY <1>1, <1>8, HandleIngestCost, ReceiveItemCost, ReceiveDoneCost, RespondCost, Zenon
    DEF HubStep
<1> QED BY <1>2, <1>3, <1>4, <1>5, <1>7, <1>8, Zenon DEF DeliveryNext, AgentStep

LEMMA CostStart == ASSUME DeliveryInit PROVE CostInv
<1> USE DEF DeliveryInit, NoBatch
<1>1. RestTypes
  <2>1. backoff \in MinBackoff .. MaxBackoff /\ faults \in 0 .. MaxFaults
    BY BackoffAssumption, DeliveryAssumption
  <2> QED BY <2>1, Zenon DEF RestTypes
<1>2. WaitedInv
  BY DEF WaitedInv
<1>3. SpentInv
  <2>1. Cardinality(entered \ pending) = 0
    BY FS_EmptySet
  <2>2. ~Trying /\ nextId = 0 /\ faults = 0
    BY DEF Trying
  <2> QED BY <2>1, <2>2 DEF SpentInv
<1>4. ASSUME NEW i \in Items PROVE Bounded(i)
  <2>1. Carriers(i) = {}
    BY DEF Carriers, Carries
  <2>2. Cardinality(Carriers(i)) = 0
    BY <2>1, FS_EmptySet
  <2>3. rows[i] = 0 /\ logMem[i] = 0 /\ faults = 0
    OBVIOUS
  <2> QED BY <2>2, <2>3 DEF Bounded
<1>5. PlainOK
  BY DEF PlainOK, Plain
<1> QED BY <1>1, <1>2, <1>3, <1>4, <1>5 DEF CostInv

LEMMA CostInvariance == DeliverySpec => [](DInv /\ CostInv)
<1>1. DeliveryInit => DInv /\ CostInv
  BY DeliveryStart, CostStart
<1>2. DInv /\ CostInv /\ [DeliveryNext]_deliveryVars => DInv' /\ CostInv'
  BY DeliveryStep, CostKept
<1> QED BY <1>1, <1>2, PTL DEF DeliverySpec

\* As long as recover has not indexed a segment twice, a line or row is in the
\* hub's stores more than once only for faults: each copy beyond the first has
\* one of its own, whichever requests are lost, handled beside their retry or
\* refused, and wherever Ack fails or is cut short (transportsender.go makes a
\* new batch of the same items, which idempotency.go does not know).
THEOREM CopiesCostFaults == DeliverySpec => []CopiesBoundedByFaults
<1>1. DInv /\ CostInv => CopiesBoundedByFaults
  <2> SUFFICES ASSUME DInv, CostInv, ~doubled, NEW i \in Items
               PROVE  rows[i] + logMem[i] <= 1 + faults
    BY DEF CopiesBoundedByFaults
  <2>1. /\ rows[i] + logMem[i] \in Nat /\ faults \in Nat
        /\ Cardinality(Carriers(i)) \in Nat
    BY CarriersFinite, DeliveryAssumption DEF DInv, DTypes, CostInv, RestTypes
  <2>2. Bounded(i)
    BY DEF CostInv
  <2> QED BY <2>1, <2>2 DEF Bounded
<1> QED BY <1>1, CostInvariance, PTL

\* The types of the exchange, and that it needs no more ids than items and
\* faults: no batch of Backfill is made for nothing.
THEOREM DeliveryTypes == DeliverySpec => []DeliveryTypeOK
<1>1. DInv /\ CostInv => DeliveryTypeOK
  <2> SUFFICES ASSUME DInv, CostInv PROVE DeliveryTypeOK
    OBVIOUS
  <2>1. entered \in SUBSET Items /\ pending \subseteq entered /\ delivered \subseteq entered
        /\ dropped = {} /\ rows \in [Items -> Nat] /\ logMem \in [Items -> Nat]
    BY DeliveryAssumption DEF DInv, DTypes, Items
  <2>2. nextId \in 0 .. NumItems + MaxFaults
    <3>1. /\ nextId \in Nat /\ faults \in Nat /\ faults <= MaxFaults
          /\ NumItems \in Nat /\ MaxFaults \in Nat
      BY DeliveryAssumption DEF DInv, DTypes, CostInv, RestTypes
    <3>2. nextId <= Cardinality(entered \ pending) + faults + (IF Trying THEN 1 ELSE 0)
      BY DEF CostInv, SpentInv
    <3>3. IsFiniteSet(Items) /\ Cardinality(Items) = NumItems
      BY <3>1, FS_Interval DEF Items
    <3>4. CASE Trying
      <4>1. PICK x \in pending : x \in Items
        <5>1. /\ batch[inflight].places # {}
              /\ ItemsAt(batch[inflight].places) \subseteq pending
          BY <3>4, Zenon DEF CostInv, WaitedInv, Trying
        <5>2. pending # {}
          BY <5>1, Zenon DEF ItemsAt
        <5> QED BY <2>1, <5>2
      <4>2. /\ IsFiniteSet(Items \ {x}) /\ Cardinality(Items \ {x}) = NumItems - 1
        BY <4>1, <3>3, FS_RemoveElement
      <4>3. Cardinality(entered \ pending) <= NumItems - 1 /\ Cardinality(entered \ pending) \in Nat
        BY <2>1, <4>1, <4>2, FS_Subset, ItemsFinite
      <4> QED BY <3>1, <3>2, <3>4, <4>3
    <3>5. CASE ~Trying
      <4>1. Cardinality(entered \ pending) <= NumItems /\ Cardinality(entered \ pending) \in Nat
        BY <2>1, <3>3, FS_Subset, ItemsFinite
      <4> QED BY <3>1, <3>2, <3>5, <4>1
    <3> QED BY <3>4, <3>5
  <2>3. inflight \in 0 .. nextId /\ (inflight = 0) = (loop \notin {"sending", "acking"})
    BY DEF DInv, DTypes, Flying
  <2>4. batch \in [BatchIds -> [places : SUBSET Places,
                                phase : {"none", "sent", "receiving", "answer",
                                         "refused", "done"},
                                todo : SUBSET Places, gone : BOOLEAN]]
    BY DEF DInv, DTypes, Batch, Phases
  <2>5. seen \subseteq BatchIds
    BY <2>2, DeliveryAssumption DEF DInv, DTypes, BatchIds
  <2>6. walk \subseteq Places /\ index \in IndexStates /\ doubled \in BOOLEAN
    BY DEF DInv, DTypes
  <2> QED BY <2>1, <2>2, <2>3, <2>4, <2>5, <2>6, Zenon DEF DeliveryTypeOK, CostInv, RestTypes
<1> QED BY <1>1, CostInvariance, PTL
===============================================================================
