----------------------------- MODULE HubQueries -----------------------------
(***************************************************************************)
(* The reads of the hub: the months an event query attaches               *)
(* (internal/storage, monthsBetween and ListEvents), averaging raw samples *)
(* into buckets (internal/metricstore, Downsample) and the memory series   *)
(* of /v1/summary (internal/hubapi), whose inputs are read one after       *)
(* another while the receiver goes on appending.                           *)
(*                                                                         *)
(* A date is a month and a day of a calendar as uneven as the real one.    *)
(***************************************************************************)
EXTENDS Naturals, Sequences, FiniteSets, FiniteSetsExt, SequencesExt, Functions

CONSTANTS
  MonthLength,   \* days of each month, <<n, ...>>
  Width,         \* BucketWidth
  Memory,        \* what the memory metrics can read
  MaxSamples     \* bound on the instants sampled

VARIABLES
  query,       \* the range asked for, and the date of an event in the store
  instant,     \* the time of the next sample
  totals,      \* bitacora_memory_total_bytes, instant -> value
  availables,  \* bitacora_memory_available_bytes
  coarse,      \* the downsampled series, bucket -> <<sum, count>>
  nextWindow,  \* where the next window to downsample starts
  summary      \* the handler of /v1/summary

queryVars == <<query, instant, totals, availables, coarse, nextWindow, summary>>

MonthNumbers == DOMAIN MonthLength

Dates == UNION {{[m |-> m, d |-> d] : d \in 1 .. MonthLength[m]} : m \in MonthNumbers}

Leq(a, b) == a.m < b.m \/ (a.m = b.m /\ a.d <= b.d)

NoSummary == [at |-> "idle", since |-> 0, total |-> <<>>, used |-> <<>>, available |-> <<>>]

\* No samples yet.
None == [i \in {} |-> 0]

NoQuery == [from |-> [m |-> 1, d |-> 1], to |-> [m |-> 1, d |-> 1],
            event |-> [m |-> 1, d |-> 1]]

QueryInit ==
  /\ query = NoQuery
  /\ instant = 0
  /\ totals = None
  /\ availables = None
  /\ coarse = None
  /\ nextWindow = 0
  /\ summary = NoSummary

\* The query of events reads nothing the others write: it is looked at by
\* itself.
Sampling == query = NoQuery

AskEvents(from, to, event) ==
  /\ Sampling /\ instant = 0 /\ totals = None /\ summary = NoSummary
  /\ query' = [from |-> from, to |-> to, event |-> event]
  /\ UNCHANGED <<instant, totals, availables, coarse, nextWindow, summary>>

-----------------------------------------------------------------------------
\* time.AddDate(0, 1, 0): the same day of the next month, and days that month
\* does not have run over into the one after it.
AddMonth(a) ==
  IF a.m + 1 \in MonthNumbers /\ a.d > MonthLength[a.m + 1]
    THEN [m |-> a.m + 2, d |-> a.d - MonthLength[a.m + 1]]
    ELSE [m |-> a.m + 1, d |-> a.d]

\* The dates the loop of monthsBetween visits: from, one month on, two ...
Steps(from) ==
  LET step[n \in 0 .. Cardinality(MonthNumbers)] ==
        IF n = 0 THEN from ELSE AddMonth(step[n - 1])
  IN  {step[n] : n \in 0 .. Cardinality(MonthNumbers)}

\* The loop without the month of the last day.
MonthsLoopOnly(from, to) ==
  IF ~Leq(from, to) THEN {} ELSE {a.m : a \in {a \in Steps(from) : Leq(a, to)}}

monthsBetween(from, to) ==
  IF ~Leq(from, to) THEN {}
  ELSE {a.m : a \in {a \in Steps(from) : Leq(a, to)}} \cup {to.m}

\* ListEvents returns the rows of the attached months that are in the range.
Listed(q) ==
  /\ q.event.m \in monthsBetween(q.from, q.to)
  /\ Leq(q.from, q.event)
  /\ Leq(q.event, q.to)

-----------------------------------------------------------------------------
With(f, x, v) == [y \in DOMAIN f \cup {x} |-> IF y = x THEN v ELSE f[y]]

\* Store.Query is inclusive at both ends.
Query(series, from, to) == Restrict(series, DOMAIN series \cap from .. to)

\* Store.Append of the samples of one collection, which reach the hub in the
\* order the collector emitted them: another request may be served between.
\* Each carries the time Sink.Gauge was called at, so the second may be later.
AppendTotal(v) ==
  /\ Sampling
  /\ instant < MaxSamples
  /\ instant \notin DOMAIN totals
  /\ totals' = With(totals, instant, v)
  /\ UNCHANGED <<query, instant, availables, coarse, nextWindow, summary>>

AppendAvailable(v, later) ==
  /\ Sampling
  /\ instant \in DOMAIN totals
  /\ v <= totals[instant]
  /\ availables' = With(availables, instant + later, v)
  /\ instant' = instant + later + 1
  /\ UNCHANGED <<query, totals, coarse, nextWindow, summary>>

\* A collection the agent dropped leaves a gap.
SkipInstant ==
  /\ Sampling
  /\ instant < MaxSamples
  /\ instant \notin DOMAIN totals
  /\ instant' = instant + 1
  /\ UNCHANGED <<query, totals, availables, coarse, nextWindow, summary>>

BucketOf(t) == Width * (t \div Width)

SumOf(series) == FoldFunction(LAMBDA x, y : x + y, 0, series)

\* The mean is kept as a sum and a count.
Bucket(series, b) ==
  LET own == Restrict(series, {t \in DOMAIN series : BucketOf(t) = b})
  IN  <<SumOf(own), Cardinality(DOMAIN own)>>

\* Appending to the coarse store ends at the first bucket it refuses, one that
\* is not after the last one there.
AppendInOrder(dst, series, buckets) ==
  FoldLeft(LAMBDA r, b : IF r.refused \/ \E x \in DOMAIN r.dst : x >= b
                           THEN [r EXCEPT !.refused = TRUE]
                           ELSE [r EXCEPT !.dst = With(@, b, Bucket(series, b))],
           [dst |-> dst, refused |-> FALSE], buckets).dst

\* Buckets in the order a map gives them: here, the last one first.
DownsampleUnsorted(from, to) ==
  LET series == Query(availables, from, to)
      buckets == {BucketOf(t) : t \in DOMAIN series}
  IN  AppendInOrder(coarse, series, Reverse(SetToSortSeq(buckets, <)))

Downsample(from, to) ==
  LET series == Query(availables, from, to)
      buckets == {BucketOf(t) : t \in DOMAIN series}
  IN  AppendInOrder(coarse, series, SetToSortSeq(buckets, <))

\* A caller that downsamples one window after another, each a number of whole
\* buckets that have passed, ending just before the next one.
DownsampleWindow(buckets) ==
  /\ Sampling
  /\ nextWindow + buckets * Width <= instant
  /\ coarse' = Downsample(nextWindow, nextWindow + buckets * Width - 1)
  /\ nextWindow' = nextWindow + buckets * Width
  /\ UNCHANGED <<query, instant, totals, availables, summary>>

-----------------------------------------------------------------------------
\* handleSummary reads the total first ...
SummaryReadsTotal ==
  /\ Sampling
  /\ summary.at = "idle"
  /\ summary' = [NoSummary EXCEPT !.at = "total", !.since = instant, !.total = totals]
  /\ UNCHANGED <<query, instant, totals, availables, coarse, nextWindow>>

Minus(a, b) == IF a < b THEN 0 ELSE a - b

\* The last total stands for all of them.
MemoryUsedByLatest(tot, av) ==
  IF tot = None \/ av = None THEN None
  ELSE [t \in DOMAIN av |-> Minus(tot[Max(DOMAIN tot)], av[t])]

\* memoryUsedSeries: a point for every available one, against the total of its
\* own instant or else the last total.
memoryUsedSeries(tot, av) ==
  IF tot = None \/ av = None THEN None
  ELSE [t \in DOMAIN av |->
          Minus(IF t \in DOMAIN tot THEN tot[t] ELSE tot[Max(DOMAIN tot)], av[t])]

\* ... and the available series later; the window ends at the time the
\* request came, which an instant just sampled may share.
SummaryAnswers ==
  /\ summary.at = "total"
  /\ LET av == Query(availables, 0, summary.since)
     IN  summary' = [summary EXCEPT !.at = "answered", !.available = av,
                                    !.used = memoryUsedSeries(summary.total, av)]
  /\ UNCHANGED <<query, instant, totals, availables, coarse, nextWindow>>

QueryNext ==
  \/ \E from, to, event \in Dates : AskEvents(from, to, event)
  \/ \E v \in Memory : AppendTotal(v)
  \/ \E v \in Memory, later \in 0 .. 1 : AppendAvailable(v, later)
  \/ SkipInstant
  \/ \E n \in 1 .. 2 : DownsampleWindow(n)
  \/ SummaryReadsTotal
  \/ SummaryAnswers

QuerySpec == QueryInit /\ [][QueryNext]_queryVars

-----------------------------------------------------------------------------
QueryTypeOK ==
  /\ instant \in 0 .. MaxSamples + 1
  /\ \A t \in DOMAIN availables : {t, t - 1} \cap DOMAIN totals # {}
  /\ summary.at \in {"idle", "total", "answered"}

\* A query that starts on a day every month has returns an event of its range
\* whichever month file holds it.  (One that starts later can step over a
\* short month: AddDate from the 31st of January is in March.)
ListFindsItsRange ==
  (\A m \in MonthNumbers : query.from.d <= MonthLength[m]) =>
    (Listed(query) <=> Leq(query.from, query.event) /\ Leq(query.event, query.to))

\* After any series of windows, every bucket they covered holds the mean of
\* all its raw samples and an empty one holds nothing: no bucket is refused by
\* the store and none is averaged in part.
CoarseIsExact ==
  /\ DOMAIN coarse = {BucketOf(t) : t \in {t \in DOMAIN availables : t < nextWindow}}
  /\ \A b \in DOMAIN coarse : coarse[b] = Bucket(availables, b)

\* A summary whose two memory series were read at different times still gives
\* every available point its used one, from the total of the same instant
\* whenever that total was stored when the request began.
UsedMatchesAvailable ==
  summary.at = "answered" /\ summary.total # None =>
    /\ DOMAIN summary.used = DOMAIN summary.available
    /\ \A t \in DOMAIN summary.used :
         t \in DOMAIN summary.total =>
           summary.used[t] + summary.available[t] = summary.total[t]

\* What the reads compute is exact: see the two above.
ReadsAreExact == CoarseIsExact /\ UsedMatchesAvailable
=============================================================================
