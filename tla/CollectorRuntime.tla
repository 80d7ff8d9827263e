-------------------------- MODULE CollectorRuntime --------------------------
(***************************************************************************)
(* internal/collector and internal/capabilities: what the host has decides *)
(* which collectors start; each runs in a loop on its own ticker, every    *)
(* Collect in a goroutine of its own, with a timeout that abandons it, an  *)
(* error backoff, and an end after three timeouts in a row.                *)
(*                                                                         *)
(* A Collect that was abandoned goes on running: nothing stops it but its  *)
(* own look at the context, which it may never take.                       *)
(***************************************************************************)
EXTENDS Naturals, FiniteSets, Functions

CONSTANTS
  Collectors,           \* the registered collectors
  Requires,             \* collector -> the capabilities it needs
  Capabilities,         \* capabilities.All
  Probes,               \* capability -> the facts about the host any one of
                        \* which shows it: a path that exists, a directory with
                        \* entries, a kind of mount, the operator's word
  DegradedImpact,       \* the capabilities whose absence is reported
  MaxConsecutiveTimeouts, MaxBackoffMultiplier,
  MaxErrorCount,        \* bound on the consecutive errors
  MaxAbandoned          \* bound on the abandoned Collects that still run

VARIABLES
  manifest,     \* what Detect found
  loop,         \* where each runLoop is
  call,         \* the Collect a loop waits for: "none", "running", "ok", "error"
  abandoned,    \* Collects that timed out and have not returned
  errorCount,   \* consecutiveErrors
  timeoutCount, \* consecutiveTimeouts
  multiplier,   \* of the interval of the current ticker
  reported,     \* collectors an agent.collector_disabled event was emitted for
  closing       \* Runtime.Close was called

runtimeVars == <<manifest, loop, call, abandoned, errorCount, timeoutCount,
                 multiplier, reported, closing>>

RuntimeInit ==
  /\ manifest = [available |-> {}, degraded |-> {}]
  /\ loop = [c \in Collectors |-> "registered"]
  /\ call = [c \in Collectors |-> "none"]
  /\ abandoned = [c \in Collectors |-> 0]
  /\ errorCount = [c \in Collectors |-> 0]
  /\ timeoutCount = [c \in Collectors |-> 0]
  /\ multiplier = [c \in Collectors |-> 1]
  /\ reported = {}
  /\ closing = FALSE

detectOne(host, cap) == Probes[cap] \cap host # {}

Detect(host) ==
  LET available == {cap \in Capabilities : detectOne(host, cap)}
  IN  [available |-> available, degraded |-> DegradedImpact \ available]

\* firstMissing, whatever the order of Requires().
Missing(c, available) == Requires[c] \ available

\* Registry.Resolve: a collector that lacks a capability, or whose Init fails,
\* is disabled.
Resolve(available, initFails) ==
  {c \in Collectors : Missing(c, available) # {} \/ c \in initFails}

EmitDisabledEvents(disabled) == reported' = disabled

Start(disabled) ==
  loop' = [c \in Collectors |-> IF c \in disabled THEN "off" ELSE "waiting"]

\* main, on a host of which these facts hold, up to where the agent waits for
\* its signal.
Boot(host, initFails) ==
  /\ \A c \in Collectors : loop[c] = "registered"
  /\ manifest' = Detect(host)
  /\ LET disabled == Resolve(manifest'.available, initFails)
     IN  EmitDisabledEvents(disabled) /\ Start(disabled)
  /\ UNCHANGED <<call, abandoned, errorCount, timeoutCount, multiplier, closing>>

\* The ticker of c fires and runLoop calls collectOnce.
TickLoop(c) ==
  /\ loop[c] = "waiting"
  /\ abandoned[c] < MaxAbandoned
  /\ loop' = [loop EXCEPT ![c] = "collecting"]
  /\ call' = [call EXCEPT ![c] = "running"]
  /\ UNCHANGED <<manifest, abandoned, errorCount, timeoutCount, multiplier, reported, closing>>

\* Collect returns, or panics and is recovered; the channel is buffered, so
\* the goroutine ends whether or not anyone listens.
CollectReturns(c, result) ==
  /\ call[c] = "running"
  /\ call' = [call EXCEPT ![c] = result]
  /\ UNCHANGED <<manifest, loop, abandoned, errorCount, timeoutCount, multiplier, reported, closing>>

AbandonedReturns(c) ==
  /\ abandoned[c] > 0
  /\ abandoned' = [abandoned EXCEPT ![c] = @ - 1]
  /\ UNCHANGED <<manifest, loop, call, errorCount, timeoutCount, multiplier, reported, closing>>

\* The multiplier doubles for ever.
BackoffUncapped(n) == 2 ^ n

\* The multiplier after n errors in a row.
Backoff(n) == IF 2 ^ n >= MaxBackoffMultiplier THEN MaxBackoffMultiplier ELSE 2 ^ n

\* Beyond this many errors the backoff no longer changes.
Capped(n) == IF n > MaxErrorCount THEN MaxErrorCount ELSE n

\* runLoop takes an answer of Collect.
LoopTakes(c) ==
  /\ loop[c] = "collecting"
  /\ call[c] \in {"ok", "error"}
  /\ loop' = [loop EXCEPT ![c] = "waiting"]
  /\ call' = [call EXCEPT ![c] = "none"]
  /\ timeoutCount' = [timeoutCount EXCEPT ![c] = 0]
  /\ LET n == IF call[c] = "ok" THEN 0 ELSE Capped(errorCount[c] + 1)
     IN  /\ errorCount' = [errorCount EXCEPT ![c] = n]
         /\ multiplier' = [multiplier EXCEPT ![c] = Backoff(n)]
  /\ UNCHANGED <<manifest, abandoned, reported, closing>>

\* The loop waits for Collect whatever its context says.
LoopTimesOutNever(c) == FALSE /\ UNCHANGED runtimeVars

\* collectOnce gives up, on its timeout or because the runtime is closing: the
\* third time in a row ends the loop.
LoopTimesOut(c) ==
  /\ loop[c] = "collecting"
  /\ timeoutCount' = [timeoutCount EXCEPT ![c] = @ + 1]
  /\ loop' = [loop EXCEPT ![c] =
                IF timeoutCount[c] + 1 >= MaxConsecutiveTimeouts THEN "disabled" ELSE "waiting"]
  /\ call' = [call EXCEPT ![c] = "none"]
  /\ abandoned' = [abandoned EXCEPT ![c] = IF call[c] = "running" THEN @ + 1 ELSE @]
  /\ UNCHANGED <<manifest, errorCount, multiplier, reported, closing>>

\* Runtime.Close cancels the context ...
CloseRuntime ==
  /\ ~closing
  /\ \A c \in Collectors : loop[c] # "registered"
  /\ closing' = TRUE
  /\ UNCHANGED <<manifest, loop, call, abandoned, errorCount, timeoutCount, multiplier, reported>>

\* ... which each loop sees at its select, unless a tick is taken first.
LoopStops(c) ==
  /\ closing
  /\ loop[c] = "waiting"
  /\ loop' = [loop EXCEPT ![c] = "stopped"]
  /\ UNCHANGED <<manifest, call, abandoned, errorCount, timeoutCount, multiplier, reported, closing>>

RuntimeNext ==
  \/ \E host \in SUBSET UNION Range(Probes), off \in SUBSET Collectors : Boot(host, off)
  \/ \E c \in Collectors : TickLoop(c)
  \/ \E c \in Collectors, r \in {"ok", "error"} : CollectReturns(c, r)
  \/ \E c \in Collectors : AbandonedReturns(c)
  \/ \E c \in Collectors : LoopTakes(c)
  \/ \E c \in Collectors : LoopTimesOut(c)
  \/ CloseRuntime
  \/ \E c \in Collectors : LoopStops(c)

\* What the scheduler, the timers and a cancelled context see to: a loop that
\* waits for a Collect does not wait for ever.  A Collect need never return.
LoopProgress(c) == LoopTakes(c) \/ LoopTimesOut(c)

Ended(c) == loop[c] \in {"off", "disabled", "stopped"}

-----------------------------------------------------------------------------
RuntimeTypeOK ==
  /\ loop \in [Collectors -> {"registered", "off", "waiting", "collecting", "disabled", "stopped"}]
  /\ call \in [Collectors -> {"none", "running", "ok", "error"}]
  /\ abandoned \in [Collectors -> 0 .. MaxAbandoned]
  /\ errorCount \in [Collectors -> 0 .. MaxErrorCount]
  /\ timeoutCount \in [Collectors -> 0 .. MaxConsecutiveTimeouts]
  /\ multiplier \in [Collectors -> 1 .. MaxBackoffMultiplier]
  /\ manifest \in [available : SUBSET Capabilities, degraded : SUBSET Capabilities]
  /\ reported = {c \in Collectors : loop[c] = "off"}

\* Close waits for every loop: each one ends, even while a Collect hangs that
\* ignores its context.
CloseReturns == closing ~> \A c \in Collectors : Ended(c)
=============================================================================
