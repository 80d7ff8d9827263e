------------------------------- MODULE MCHub --------------------------------
(***************************************************************************)
(* The components of the hub, for model checking.  They share no state, so *)
(* a behaviour looks at one of them (`focus`) and the others rest in their *)
(* initial state: what is explored is the sum of their state spaces.       *)
(***************************************************************************)
EXTENDS Naturals, FiniteSets, LogStore, RelationalStore, Alerting, HubAccess

CONSTANTS
  RuleDir, Builtin, Messages, Groups, Sources, CPUDirs, CPUs, MinSamples,
  MaxLinesSeen,
  MonthLength, Width, Memory, MaxSamples,
  Times, Now, HostID, Labels

VARIABLES
  focus,
  countByCore, total, flagged, emitted, lines,
  query, instant, totals, availables, coarse, nextWindow, summary,
  stage, input, record

Faults == INSTANCE FaultEvents
Reads == INSTANCE HubQueries
Recs == INSTANCE Records

faultVars == <<countByCore, total, flagged, emitted, lines>>
queryVars == <<query, instant, totals, availables, coarse, nextWindow, summary>>
recordVars == <<stage, input, record>>

vars == <<focus, logVars, storeVars, alertVars, accessVars, faultVars, queryVars, recordVars>>

Init ==
  /\ focus \in {"logs", "rows", "alerts", "access", "faults", "reads", "records"}
  /\ LogInit
  /\ StoreInit
  /\ AlertInit
  /\ AccessInit
  /\ Faults!FaultInit
  /\ Reads!QueryInit
  /\ Recs!RecordsInit

\* The components other than the relational store rest.
RowsOnly ==
  /\ focus = "rows"
  /\ UNCHANGED <<focus, logVars, alertVars, accessVars, faultVars, queryVars, recordVars>>

Next ==
  \/ /\ focus = "logs" /\ LogNext
     /\ UNCHANGED <<focus, storeVars, alertVars, accessVars, faultVars, queryVars, recordVars>>
  \/ RowsOnly /\ StoreNext
  \/ /\ focus = "alerts" /\ AlertNext
     /\ UNCHANGED <<focus, logVars, storeVars, accessVars, faultVars, queryVars, recordVars>>
  \/ /\ focus = "access" /\ AccessNext
     /\ UNCHANGED <<focus, logVars, storeVars, alertVars, faultVars, queryVars, recordVars>>
  \/ /\ focus = "faults" /\ Faults!FaultNext
     /\ UNCHANGED <<focus, logVars, storeVars, alertVars, accessVars, queryVars, recordVars>>
  \/ /\ focus = "reads" /\ Reads!QueryNext
     /\ UNCHANGED <<focus, logVars, storeVars, alertVars, accessVars, faultVars, recordVars>>
  \/ /\ focus = "records" /\ Recs!RecordsNext
     /\ UNCHANGED <<focus, logVars, storeVars, alertVars, accessVars, faultVars, queryVars>>

\* The scheduler runs the writer goroutine and a caller that can go on.  Go
\* serves the senders of a channel in the order they came: a caller whose
\* request can be taken again and again is not passed over for ever.
Fairness ==
  /\ WF_vars(RowsOnly /\ StoreWriter)
  /\ \A c \in Callers :
       /\ WF_vars(RowsOnly /\ (Receive(c) \/ OfferRefused(c)))
       /\ SF_vars(RowsOnly /\ HandOver(c))

Spec == Init /\ [][Next]_vars /\ Fairness

-----------------------------------------------------------------------------
\* Every variable of the component looked at holds a value of its kind.
HubTypeOK ==
  /\ focus = "logs" => LogTypeOK
  /\ focus = "rows" => StoreTypeOK
  /\ focus = "alerts" => AlertTypeOK
  /\ focus = "access" => AccessTypeOK
  /\ focus = "faults" => Faults!FaultTypeOK
  /\ focus = "reads" => Reads!QueryTypeOK
  /\ focus = "records" => Recs!RecordsTypeOK

\* The properties of the components, whose modules state them in full.  Those
\* of LogStore, RelationalStore, Alerting and HubAccess are checked as they
\* stand.

\* A flagged core's share of the faults is implausible by a plain count.
FlaggedIsSignificant == focus = "faults" => Faults!FlaggedIsSignificant

\* ListEvents finds an event of its range in whichever month it is.
ListFindsItsRange == focus = "reads" => Reads!ListFindsItsRange

\* Downsampled means and the memory series are exact.
ReadsAreExact == focus = "reads" => Reads!ReadsAreExact

\* A record keeps its values from the collector to the reader.
RecordsSurvive == focus = "records" => Recs!RecordsSurvive

-----------------------------------------------------------------------------
\* The values of the constants.

\* Two buffers, one of which can fill up.
TwoKeys == [l \in {"a", "b", "c", "d"} |-> IF l = "d" THEN "k2" ELSE "k1"]

OneMonth == [e \in {"e1"} |-> "jan"]

\* A route for every severity and one for the critical ones.
TwoRoutes == <<{}, {"critical"}>>

\* A rules directory: a rule for the out-of-memory killer, a file that is no
\* rule, and the rule for segfaults, whose expression would fit both messages.
Rule(id, match, type, enrich, fields) ==
  [id |-> id, source |-> "kernel", match |-> match, type |-> type, severity |-> "error",
   enrich |-> enrich, fields |-> fields]

TwoRules ==
  << [yaml |-> TRUE, rule |-> Rule("oom", {"oom"}, "kernel.oom", <<>>, {})],
     [yaml |-> FALSE, rule |-> Rule("", {}, "", <<>>, {})],
     [yaml |-> TRUE,
      rule |-> Rule("kernel-segfault", {"oom", "segfault"}, "kernel.segfault",
                    <<"cpu_from_context", "core_from_cpu">>, {"comm", "cpu"})] >>

CapturedBy ==
  [m \in {"oom", "segfault", "other"} |->
     IF m = "oom" THEN [comm |-> "a"] ELSE [comm |-> "a", pid |-> "1"]]

\* Two CPUs of one core, one of them offline; a CPU that says no core; a core
\* that is offline.
Dir(core, online) == [core_id |-> core, online |-> online]

FiveCPUs ==
  [cpu0 |-> Dir("core0", ""), cpu1 |-> Dir("core1", "1"), cpu2 |-> Dir("", "1"),
   cpu3 |-> Dir("core0", "0"), cpu4 |-> Dir("core4", "0")]

\* A short month between two longer ones, as February is.
UnevenMonths == <<4, 3, 4, 2>>
=============================================================================
