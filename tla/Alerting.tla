------------------------------ MODULE Alerting ------------------------------
(***************************************************************************)
(* internal/alerting and internal/notify: a rule with a hysteresis         *)
(* threshold and a `for`, its alert's state machine, silences, and the     *)
(* router that hands a notification to the routes that want it under one   *)
(* shared token bucket.  A second rule is driven by a deadman tracker.     *)
(*                                                                         *)
(* One goroutine evaluates the rules: Manager.Evaluate advances an alert   *)
(* outside its lock.                                                       *)
(***************************************************************************)
EXTENDS Naturals, Sequences, FiniteSets, FiniteSetsExt

CONSTANTS
  Values,        \* what the metric can read
  FireAbove, ResolveBelow,
  ForDuration,   \* how long the condition must hold
  ExpectEvery, Grace, \* the deadman's
  Routes,        \* <<route, ...>>, each a set of severities it takes
  Severity,      \* of both rules
  Burst, Refill, \* the bucket's size, and its tokens per tick
  MaxTime,       \* bound on the clock
  MaxSilences    \* bound on the silences created

ASSUME AlertAssumption ==
  /\ {ForDuration, Burst, Refill, MaxTime, Len(Routes)} \subseteq Nat
  /\ DOMAIN Routes = 1 .. Len(Routes)

Rules == {"threshold", "deadman"}

VARIABLES
  time,        \* now
  alerts,      \* Manager.alerts
  trueSince,   \* since when every evaluation of a rule found it true
  silences,    \* SilenceStore.silences
  made,        \* how many silences were created
  lastSeen,    \* DeadmanTracker.lastSeen, 0 when never
  seenAt,      \* every time the deadman observed
  tokens,      \* of the router's limiter
  sent         \* how many notifications the routes were handed, all together

alertVars == <<time, alerts, trueSince, silences, made, lastSeen, seenAt,
               tokens, sent>>

NewAlert == [state |-> "inactive", pendingSince |-> 0, firingSince |-> 0, heldSince |-> 0]

Never == MaxTime + 1

AlertInit ==
  /\ time = 1
  /\ alerts = [r \in Rules |-> NewAlert]
  /\ trueSince = [r \in Rules |-> Never]
  /\ silences = {}
  /\ made = 0
  /\ lastSeen = 0
  /\ seenAt = {}
  /\ tokens = Burst
  /\ sent = 0

\* HysteresisThreshold.ConditionTrue: an alert that is pending or firing
\* stays true until the value is below ResolveBelow.
ConditionTrue(value, wasActive) ==
  IF wasActive THEN ~(value < ResolveBelow) ELSE value > FireAbove

\* DeadmanTracker.Overdue: nothing seen yet is not overdue.
Overdue == lastSeen # 0 /\ time - lastSeen > ExpectEvery + Grace

\* A dip below the condition does not send a pending alert back.
EvaluateForThroughDips(a, cond) ==
  CASE a.state \in {"inactive", "resolved"} /\ cond ->
         [a EXCEPT !.state = "pending", !.pendingSince = time]
    [] a.state = "pending" /\ cond /\ time - a.pendingSince >= ForDuration ->
         [a EXCEPT !.state = "firing", !.firingSince = time]
    [] a.state = "firing" /\ ~cond -> [a EXCEPT !.state = "resolved"]
    [] OTHER -> a

\* Alert.EvaluateFor, the state machine.
EvaluateFor(a, cond) ==
  CASE a.state \in {"inactive", "resolved"} /\ cond ->
         [a EXCEPT !.state = IF ForDuration = 0 THEN "firing" ELSE "pending",
                   !.pendingSince = time,
                   !.firingSince = IF ForDuration = 0 THEN time ELSE @]
    [] a.state = "pending" /\ ~cond -> [a EXCEPT !.state = "inactive"]
    [] a.state = "pending" /\ cond /\ time - a.pendingSince >= ForDuration ->
         [a EXCEPT !.state = "firing", !.firingSince = time]
    [] a.state = "firing" /\ ~cond -> [a EXCEPT !.state = "resolved"]
    [] OTHER -> a

\* EvaluateFor returns true for a fresh firing or resolved state only.
Transitioned(a, b) == a.state # b.state /\ b.state \in {"firing", "resolved"}

\* A silence is in force from its start up to but not at its end, and covers
\* what its matchers name.
Active(s) == s.startsAt <= time /\ time < s.endsAt

Matches(s, r) == s.matchers # {} /\ s.matchers \subseteq {r, Severity}

Silenced(r) == \E s \in silences : Active(s) /\ Matches(s, r)

\* The routes Router.Dispatch finds interested, in order.
Matching == {i \in DOMAIN Routes : Routes[i] = {} \/ Severity \in Routes[i]}

\* NewRouter has a limiter unless rate and burst are both zero.
Limited == Burst > 0 \/ Refill > 0

\* The bucket is asked once for a notification, not once for each route.
DispatchOnOneToken ==
  IF tokens = 0
    THEN UNCHANGED <<tokens, sent>>
    ELSE /\ sent' = sent + Cardinality(Matching)
         /\ tokens' = tokens - 1

\* The routes the tokens suffice for.
Affordable == {i \in Matching : Cardinality({j \in Matching : j < i}) < tokens}

\* Router.Dispatch: each route in turn takes a token or is skipped, if there is
\* a limiter; what its notifier then returns only adds to the errors, and stops
\* no other route.
Dispatch ==
  IF Limited
    THEN /\ sent' = sent + Cardinality(Affordable)
         /\ tokens' = tokens - Cardinality(Affordable)
    ELSE /\ sent' = sent + Cardinality(Matching)
         /\ UNCHANGED tokens

\* Manager.Evaluate, and the notification its caller sends.
Evaluate(r, cond) ==
  LET a == alerts[r]
      b == EvaluateFor(a, cond)
      since == IF ~cond THEN Never ELSE Min({trueSince[r], time})
  IN  /\ alerts' = [alerts EXCEPT ![r] =
                      IF b.state = "firing" /\ a.state # "firing"
                        THEN [b EXCEPT !.heldSince = since] ELSE b]
      /\ trueSince' = [trueSince EXCEPT ![r] = since]
      /\ IF Transitioned(a, b) /\ ~Silenced(r)
           THEN Dispatch
           ELSE UNCHANGED <<tokens, sent>>
      /\ UNCHANGED <<time, silences, made, lastSeen, seenAt>>

EvaluateThreshold(value) ==
  Evaluate("threshold",
           ConditionTrue(value, alerts["threshold"].state \in {"pending", "firing"}))

EvaluateDeadman == Evaluate("deadman", Overdue)

\* DeadmanTracker.Observe of a signal that may arrive late.
Observe(t) ==
  /\ t \in 1 .. time
  /\ lastSeen' = IF t > lastSeen THEN t ELSE lastSeen
  /\ seenAt' = seenAt \cup {t}
  /\ UNCHANGED <<time, alerts, trueSince, silences, made, tokens, sent>>

\* NewSilence: none that does not end after it starts.
NewSilence(matchers, startsAt, endsAt) ==
  IF endsAt > startsAt
  THEN {[matchers |-> matchers, startsAt |-> startsAt, endsAt |-> endsAt]} ELSE {}

AddSilence(s) ==
  /\ made < MaxSilences
  /\ made' = made + 1
  /\ silences' = silences \cup {s}
  /\ UNCHANGED <<time, alerts, trueSince, lastSeen, seenAt, tokens, sent>>

RemoveSilence(s) ==
  /\ s \in silences
  /\ silences' = silences \ {s}
  /\ UNCHANGED <<time, alerts, trueSince, made, lastSeen, seenAt, tokens, sent>>

\* Tokens are earned without a limit.
AlertTickUncapped ==
  /\ time < MaxTime
  /\ time' = time + 1
  /\ tokens' = tokens + Refill
  /\ UNCHANGED <<alerts, trueSince, silences, made, lastSeen, seenAt, sent>>

\* Time passes and the limiter earns tokens, up to its burst.
AlertTick ==
  /\ time < MaxTime
  /\ time' = time + 1
  /\ tokens' = Min({Burst, tokens + Refill})
  /\ UNCHANGED <<alerts, trueSince, silences, made, lastSeen, seenAt, sent>>

AlertNext ==
  \/ AlertTick
  \/ \E v \in Values : EvaluateThreshold(v)
  \/ EvaluateDeadman
  \/ \E t \in 1 .. MaxTime : Observe(t)
  \/ \E m \in {{"threshold"}, {}}, t \in 1 .. MaxTime :
       \E s \in NewSilence(m, time, t) : AddSilence(s)
  \/ \E s \in silences : RemoveSilence(s)

AlertSpec == AlertInit /\ [][AlertNext]_alertVars

-----------------------------------------------------------------------------
AlertTypeOK ==
  /\ time \in 1 .. MaxTime
  /\ alerts \in [Rules -> [state : {"inactive", "pending", "firing", "resolved"},
                           pendingSince : 0 .. MaxTime, firingSince : 0 .. MaxTime,
                           heldSince : 0 .. Never]]
  /\ trueSince \in [Rules -> 1 .. Never]
  /\ lastSeen \in 0 .. MaxTime
  /\ tokens \in 0 .. Burst

\* An alert fires only after every evaluation over at least `for` found its
\* condition true, a dip in between sending it back to the start; and the
\* deadman's condition is about the latest signal, in whatever order the
\* signals came.
FiringIsJustified ==
  /\ \A r \in Rules :
       alerts[r].state = "firing" =>
         alerts[r].firingSince - alerts[r].heldSince >= ForDuration
  /\ lastSeen = Max(seenAt \cup {0})

\* The hard ceiling of ADR-0009: whatever the alerts do, all routes together
\* are never handed more than the burst and what was earned since, if the router
\* was given a limit at all.
CeilingHolds == Limited => sent <= Burst + Refill * (time - 1)
=============================================================================
