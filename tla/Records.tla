------------------------------- MODULE Records -------------------------------
(***************************************************************************)
(* What becomes of one record between a collector and a reader at the hub: *)
(* agentbuffer.Sink completes it, transportsender.go packs it,             *)
(* ingestreceiver unpacks it, internal/schema validates it for its store,  *)
(* and the event store reads it back from its columns.                     *)
(*                                                                         *)
(* A time counts tenths of a millisecond from the Unix epoch; Zero, far    *)
(* before it, is time.Time{}.  The text of a fingerprint is <<"text", t>>, *)
(* and the JSON of a value <<"json", value>>.                              *)
(***************************************************************************)
EXTENDS Integers, Sequences

CONSTANTS
  Times,        \* times a collector may set
  Now,          \* Sink.Now()
  HostID,       \* Sink.HostID
  Labels        \* the labels metrics may carry

VARIABLES
  stage,        \* how far the record has come
  input,        \* the record as the collector handed it over
  record        \* the record as it is at this stage

recordVars == <<stage, input, record>>

Zero == -100
Filled(value, unset, default) == IF value = unset THEN default ELSE value

\* UnixMilli, and time.UnixMilli back.
UnixMilli(t) == t \div 10
FromUnixMilli(ms) == 10 * ms

EventRecords ==
  [kind : {"event"}, id : {"", "e"}, host : {"", "other"}, ts : {Zero} \cup Times,
   received : {Zero} \cup Times,
   source : {"", "kernel"}, type : {"kernel.oom", "oom"}, severity : {"warn", "loud"}, title : {"", "t"},
   attrs : {{"unit"}}, refs : {{}, {"block"}}, schema : {0, 1},
   fingerprint : {<<"text", "">>, <<"text", "sha256">>}]

MetricRecords ==
  [kind : {"metric"}, name : {"bitacora_ratio", "bitacora_bytes", "bitacora", "bytes"},
   value : {0, 1, 2}, labels : SUBSET Labels]

LineRecords ==
  [kind : {"log"}, host : {"", "other"}, source : {"", "journald"}, ts : {Zero} \cup Times]

InventoryRecords ==
  [kind : {"inventory"}, host : {"", "other"}, ts : {Zero} \cup Times, schema : {0, 1},
   ids : {{}, {"share"}}]

Nothing == [kind |-> "none"]

RecordsInit ==
  /\ stage = "none"
  /\ input = Nothing
  /\ record = Nothing

\* A collector hands a record to the sink.
Collect(r) ==
  /\ stage = "none"
  /\ stage' = "collected"
  /\ input' = r
  /\ record' = r

-----------------------------------------------------------------------------
\* Sink.Gauge stamps a metric, the others fill what the collector left open.
Gauge(m) == [kind |-> "metric", name |-> m.name, value |-> m.value, labels |-> m.labels,
             host |-> HostID, ts |-> Now]

SinkEvent(e) == [e EXCEPT !.host = Filled(@, "", HostID), !.ts = Filled(@, Zero, Now),
                          !.schema = Filled(@, 0, 1)]

SinkLogLine(l) == [l EXCEPT !.host = Filled(@, "", HostID), !.ts = Filled(@, Zero, Now),
                            !.source = Filled(@, "", "collector")]

SinkInventory(i) == [i EXCEPT !.host = Filled(@, "", HostID), !.ts = Filled(@, Zero, Now),
                              !.schema = Filled(@, 0, 1)]

Accept ==
  /\ stage = "collected"
  /\ stage' = "buffered"
  /\ record' = CASE input.kind = "metric"    -> Gauge(input)
                 [] input.kind = "event"     -> SinkEvent(input)
                 [] input.kind = "log"       -> SinkLogLine(input)
                 [] input.kind = "inventory" -> SinkInventory(input)
  /\ UNCHANGED input

\* The messages of proto/: times in milliseconds, and 0 for a receive time that
\* is not set.
metricToProto(m) == [m EXCEPT !.ts = UnixMilli(@)]

eventToProto(e) ==
  [e EXCEPT !.ts = UnixMilli(@), !.received = IF @ = Zero THEN 0 ELSE UnixMilli(@)]

logLineToProto(l) == [l EXCEPT !.ts = UnixMilli(@)]

inventoryToProto(i) == [i EXCEPT !.ts = UnixMilli(@)]

Pack ==
  /\ stage = "buffered"
  /\ stage' = "sent"
  /\ record' = CASE record.kind = "metric"    -> metricToProto(record)
                 [] record.kind = "event"     -> eventToProto(record)
                 [] record.kind = "log"       -> logLineToProto(record)
                 [] record.kind = "inventory" -> inventoryToProto(record)
  /\ UNCHANGED input

-----------------------------------------------------------------------------
protoToMetric(m) == [m EXCEPT !.ts = FromUnixMilli(@)]

\* The receive time is unpacked whether it was set or not.
protoToEventAlways(e) == [e EXCEPT !.ts = FromUnixMilli(@), !.received = FromUnixMilli(@)]

protoToEvent(e) ==
  [e EXCEPT !.ts = FromUnixMilli(@), !.received = IF @ = 0 THEN Zero ELSE FromUnixMilli(@)]

protoToLogLine(l) == [l EXCEPT !.ts = FromUnixMilli(@)]

\* validateLabels: a container's id only with its name, and short.
validateLabels(labels) ==
  /\ "container_id" \in labels => "container_name" \in labels
  /\ labels \cap {"pid", "path", "long container_id", "ip value", "path value"} = {}

ValidMetric(m) ==
  /\ m.host # ""
  /\ m.name \in {"bitacora_ratio", "bitacora_bytes"}
  /\ m.name = "bitacora_ratio" => m.value \in 0 .. 1
  /\ m.ts # Zero
  /\ validateLabels(m.labels)

ValidEvent(e) ==
  /\ e.id # "" /\ e.host # "" /\ e.ts # Zero
  /\ e.source # ""
  /\ e.type = "kernel.oom"
  /\ e.severity = "warn"
  /\ e.title # ""
  /\ e.schema >= 1

ValidLogLine(l) == l.host # "" /\ l.source # "" /\ l.ts # Zero

\* ReceiveBatch unpacks and stores metrics, events and lines, and leaves out
\* what its store refuses; it does not look at inventories.
Receive ==
  /\ stage = "sent"
  /\ LET r == CASE record.kind = "metric" -> protoToMetric(record)
                [] record.kind = "event"  -> protoToEvent(record)
                [] record.kind = "log"    -> protoToLogLine(record)
                [] OTHER                  -> record
         stored == CASE r.kind = "metric" -> ValidMetric(r)
                     [] r.kind = "event"  -> ValidEvent(r)
                     [] r.kind = "log"    -> ValidLogLine(r)
                     [] OTHER             -> FALSE
     IN  /\ record' = r
         /\ stage' = IF stored THEN "stored" ELSE "refused"
  /\ UNCHANGED input

JSON(value) == <<"json", value>>

\* Unmarshal's error is dropped: what is not JSON leaves the field empty.
Unmarshal(text) == IF text[1] = "json" THEN text[2] ELSE {}

\* insertEvent: the row, whose columns are named; {} is NULL.
insertEvent(e) ==
  [id |-> e.id, ts |-> UnixMilli(e.ts),
   ts_received |-> IF e.received = Zero THEN {} ELSE {UnixMilli(e.received)},
   host_id |-> e.host, source |-> e.source, type |-> e.type, severity |-> e.severity, title |-> e.title,
   attrs_json |-> JSON(e.attrs), fingerprint |-> e.fingerprint,
   log_refs_json |-> JSON(e.refs), schema |-> e.schema]

\* scanEvents takes the columns in another order than the queries name them:
\* the fingerprint comes where it expects log_refs_json, and the other way
\* round.
scanEvents(row) ==
  [kind |-> "event", id |-> row.id, host |-> row.host_id, ts |-> FromUnixMilli(row.ts),
   received |-> IF row.ts_received = {} THEN Zero
                ELSE FromUnixMilli(CHOOSE ms \in row.ts_received : TRUE),
   source |-> row.source, type |-> row.type,
   severity |-> row.severity, title |-> row.title, attrs |-> Unmarshal(row.attrs_json),
   refs |-> Unmarshal(row.fingerprint), fingerprint |-> row.log_refs_json,
   schema |-> row.schema]

\* toLabels: a sample carries its name and host as labels.
toLabels(m) == [m EXCEPT !.labels = @ \cup {"__name__", "host_id"}]

Read ==
  /\ stage = "stored"
  /\ record.kind \in {"event", "metric"}
  /\ stage' = "read"
  /\ record' = IF record.kind = "event" THEN scanEvents(insertEvent(record)) ELSE toLabels(record)
  /\ UNCHANGED input

RecordsNext ==
  \/ \E r \in EventRecords \cup MetricRecords \cup LineRecords \cup InventoryRecords : Collect(r)
  \/ Accept \/ Pack \/ Receive \/ Read

RecordsSpec == RecordsInit /\ [][RecordsNext]_recordVars

-----------------------------------------------------------------------------
RecordsTypeOK ==
  /\ stage \in {"none", "collected", "buffered", "sent", "stored", "refused", "read"}
  /\ record.kind = input.kind

\* A record a collector handed over is refused by the hub only for what the
\* collector itself got wrong, never for what the sink, the wire or a narrowed
\* time did to it; and one that is read again has the values of the collector,
\* its times cut to milliseconds and an unset receive time still unset, but for
\* an event's fingerprint and log references.
RecordsSurvive ==
  /\ input.kind = "event" =>
       /\ stage = "refused" => \/ input.id = "" \/ input.title = "" \/ input.source = ""
                               \/ input.type = "oom" \/ input.severity = "loud"
       /\ stage = "read" =>
            /\ \A f \in {"id", "source", "type", "severity", "title", "attrs"} : record[f] = input[f]
            /\ record.host = Filled(input.host, "", HostID)
            /\ input.ts # Zero => record.ts \in input.ts - 9 .. input.ts
            /\ (record.received = Zero) <=> (input.received = Zero)
            /\ record.received \in input.received - 9 .. input.received
  /\ input.kind = "metric" =>
       /\ stage = "refused" => \/ input.name \in {"bitacora", "bytes"}
                               \/ input.name = "bitacora_ratio" /\ input.value > 1
                               \/ ~validateLabels(input.labels)
       /\ stage = "read" => record.value = input.value /\ input.labels \subseteq record.labels
  /\ input.kind = "log" => stage # "refused"

\* What ADR-0006 says of the fingerprint, a stable hash that equal failures
\* share: an event read from the store has the fingerprint it was stored with.
FingerprintSurvives ==
  stage = "read" /\ input.kind = "event" => record.fingerprint = input.fingerprint
=============================================================================
