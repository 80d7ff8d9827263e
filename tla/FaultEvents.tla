---------------------------- MODULE FaultEvents ----------------------------
(***************************************************************************)
(* internal/extraction and internal/faultcluster: a log line becomes at    *)
(* most one event, the event of a segfault learns the CPU when the process *)
(* is still there to be asked, and the tracker flags a physical core whose *)
(* share of the faults is implausible if all active cores were alike.      *)
(*                                                                         *)
(* A message is a class of messages; what a rule matches is the set of     *)
(* classes its regular expression accepts.  Probabilities are exact: they  *)
(* are kept as numerators over (active cores)^n.                           *)
(***************************************************************************)
EXTENDS Naturals, Sequences, FiniteSets, FiniteSetsExt, SequencesExt, Functions

CONSTANTS
  RuleDir,       \* the files of the rules directory, in filename order
  Builtin,       \* the names of the enrichers there are
  Messages,      \* message classes
  Groups,        \* message class -> what its named groups capture
  Sources,       \* LogLine.Source
  CPUDirs,       \* logical CPU -> what its directory under /sys says
  CPUs,          \* what /proc/<pid>/stat may say
  MinSamples,    \* MinSamples
  MaxLinesSeen   \* bound on the log lines processed

VARIABLES
  countByCore, total, flagged, \* Tracker
  emitted,                     \* the hw.cpu_fault_cluster events
  lines                        \* how many lines were processed

faultVars == <<countByCore, total, flagged, emitted, lines>>

\* ReadTopology: a CPU without a core_id is its own core, and one without an
\* online file is online.
Topology ==
  [core |-> [c \in DOMAIN CPUDirs |->
               IF CPUDirs[c].core_id = "" THEN c ELSE CPUDirs[c].core_id],
   online |-> [c \in DOMAIN CPUDirs |-> CPUDirs[c].online \in {"", "1"}]]

Cores == Range(Topology.core)

\* Cores with an online logical CPU.
ActiveCores == {Topology.core[c] : c \in {c \in DOMAIN CPUDirs : Topology.online[c]}}

FaultInit ==
  /\ countByCore = [c \in Cores |-> 0]
  /\ total = 0
  /\ flagged = {}
  /\ emitted = {}
  /\ lines = 0

-----------------------------------------------------------------------------
Validate(rule) ==
  /\ "" \notin {rule.id, rule.type, rule.severity}
  /\ rule.match # {}
  /\ ToSet(rule.enrich) \subseteq Builtin

\* LoadDir: what is not a .yaml file is passed over, one bad rule refuses them
\* all.
LoadDir ==
  LET yaml == SelectSeq(RuleDir, LAMBDA f : f.yaml)
  IN  IF \E i \in DOMAIN yaml : ~Validate(yaml[i].rule) THEN <<>>
      ELSE [i \in DOMAIN yaml |-> yaml[i].rule]

With(attrs, k, v) == [x \in DOMAIN attrs \cup {k} |-> IF x = k THEN v ELSE attrs[x]]

\* The processor field of /proc/<pid>/stat, if the process is still there.
cpuFromContext(attrs, alive, cpu) ==
  IF "pid" \in DOMAIN attrs /\ alive THEN With(attrs, "cpu", cpu) ELSE attrs

coreFromCPU(attrs) ==
  IF /\ "cpu" \in DOMAIN attrs
     /\ attrs.cpu \in DOMAIN CPUDirs
     /\ CPUDirs[attrs.cpu].core_id # ""
    THEN With(attrs, "core_id", CPUDirs[attrs.cpu].core_id)
    ELSE attrs

\* The enrichers of a rule run in the order the rule lists them.
Enrich(rule, attrs, alive, cpu) ==
  FoldLeft(LAMBDA as, name : CASE name = "cpu_from_context" -> cpuFromContext(as, alive, cpu)
                               [] name = "core_from_cpu" -> coreFromCPU(as)
                               [] OTHER -> as,
           attrs, rule.enrich)

\* fingerprint: the fields the rule names, else all of them; a field that is
\* missing hashes as the empty string.
fingerprint(rule, attrs) ==
  <<rule.type, [f \in (IF rule.fields = {} THEN DOMAIN attrs ELSE rule.fields) |->
                  IF f \in DOMAIN attrs THEN attrs[f] ELSE ""]>>

buildEvent(rule, attrs) ==
  [type |-> rule.type, attrs |-> attrs, fingerprint |-> fingerprint(rule, attrs)]

\* Engine.Process: the first rule whose source and expression fit makes the
\* event; the others are not looked at.
Process(source, message, alive, cpu) ==
  LET rules == LoadDir
      fits == {i \in DOMAIN rules : /\ rules[i].source \in {"", source}
                                    /\ message \in rules[i].match}
      first == rules[Min(fits)]
  IN  IF fits = {} THEN {}
      ELSE {buildEvent(first, Enrich(first, Groups[message], alive, cpu))}

-----------------------------------------------------------------------------
\* The terms of the sum, each from the one before, over cores^n.
Terms(n, cores) ==
  LET term[i \in 0 .. n] ==
        IF i = 0 THEN (cores - 1) ^ n
        ELSE (term[i - 1] * (n - i + 1)) \div (i * (cores - 1))
  IN  term

\* The tail without its first term.
UpperTailOpen(n, k, cores) ==
  IF cores = 1 THEN 1
  ELSE FoldFunctionOnSet(LAMBDA x, y : x + y, 0, Terms(n, cores), (k + 1) .. n)

\* upperTailPValue: P(X >= k) of Binomial(n, 1/cores), times cores^n.  Exact
\* where the code has float64: its rounding, and math.Pow going to 0 for large
\* n, are left out.
UpperTail(n, k, cores) ==
  IF cores = 1 THEN 1
  ELSE FoldFunctionOnSet(LAMBDA x, y : x + y, 0, Terms(n, cores), k .. n)

\* Below MaxPValue, 1%.
Implausible(n, k, cores) == 100 * UpperTail(n, k, cores) < cores ^ n

\* Tracker.Observe: a CPU without a core is not counted; a core is flagged
\* once.
Observed(cpu) ==
  IF cpu \notin DOMAIN CPUDirs
    THEN UNCHANGED <<countByCore, total, flagged, emitted>>
    ELSE LET core == Topology.core[cpu]
             k == countByCore[core] + 1
             flags == /\ core \notin flagged
                      /\ k >= MinSamples
                      /\ ActiveCores # {}
                      /\ Implausible(total + 1, k, Cardinality(ActiveCores))
         IN  /\ countByCore' = [countByCore EXCEPT ![core] = k]
             /\ total' = total + 1
             /\ flagged' = IF flags THEN flagged \cup {core} ELSE flagged
             /\ emitted' = IF flags
                             THEN emitted \cup {[core |-> core, k |-> k, n |-> total + 1]}
                             ELSE emitted

\* A line is read, and the CPU of the segfault event it gives goes to the
\* tracker (external: the packages' callers).
Line(source, message, alive, cpu) ==
  /\ lines < MaxLinesSeen
  /\ lines' = lines + 1
  /\ LET faults == {e \in Process(source, message, alive, cpu) :
                     e.type = "kernel.segfault" /\ "cpu" \in DOMAIN e.attrs}
     IN  IF faults = {} THEN UNCHANGED <<countByCore, total, flagged, emitted>>
         ELSE Observed((CHOOSE e \in faults : TRUE).attrs.cpu)

FaultNext ==
  \E s \in Sources, m \in Messages, alive \in BOOLEAN, cpu \in CPUs : Line(s, m, alive, cpu)

FaultSpec == FaultInit /\ [][FaultNext]_faultVars

-----------------------------------------------------------------------------
FaultTypeOK ==
  /\ countByCore \in [Cores -> 0 .. MaxLinesSeen]
  /\ total \in 0 .. lines
  /\ flagged \subseteq Cores
  /\ lines \in 0 .. MaxLinesSeen

\* The ways n faults can fall on the active cores, counted one by one.
WaysWithAtLeast(n, k) ==
  LET core == CHOOSE c \in ActiveCores : TRUE
  IN  {f \in [1 .. n -> ActiveCores] : Cardinality({i \in 1 .. n : f[i] = core}) >= k}

\* A core is reported once, with the counts of that moment, and then in fewer
\* than one in a hundred of all the ways those faults could have fallen would
\* one given core have had as many: the recurrence of binomial.go against a
\* plain count.
FlaggedIsSignificant ==
  /\ \A a, b \in emitted : a.core = b.core => a = b
  /\ \A e \in emitted :
       100 * Cardinality(WaysWithAtLeast(e.n, e.k)) < Cardinality(ActiveCores) ^ e.n
=============================================================================
