------------------------------- MODULE Outbox --------------------------------
(***************************************************************************)
(* What the agent's buffer promises its callers, with no files, sequence   *)
(* numbers or crashes: a record that entered stays pending until it was    *)
(* delivered to the hub or dropped for lack of room.  A restart is a       *)
(* stuttering step, so it can lose nothing.                                *)
(***************************************************************************)
CONSTANT Records

VARIABLES
  entered,    \* the records Append took responsibility for
  pending,    \* those a restart would find
  delivered,  \* those in a batch the hub confirmed
  dropped     \* those given up to stay within the capacity

outboxVars == <<entered, pending, delivered, dropped>>

OutboxInit ==
  /\ entered = {}
  /\ pending = {}
  /\ delivered = {}
  /\ dropped = {}

Enter(x) ==
  /\ x \notin entered
  /\ entered' = entered \cup {x}
  /\ pending' = pending \cup {x}
  /\ UNCHANGED <<delivered, dropped>>

Deliver(S) ==
  /\ delivered' = delivered \cup S
  /\ UNCHANGED <<entered, pending, dropped>>

\* Only what was delivered or dropped may stop being pending.
Forget(S) ==
  /\ S \subseteq delivered \cup dropped
  /\ pending' = pending \ S
  /\ UNCHANGED <<entered, delivered, dropped>>

Drop(x, S) ==
  /\ dropped' = dropped \cup {x}
  /\ S \subseteq delivered \cup dropped'
  /\ pending' = pending \ S
  /\ UNCHANGED <<entered, delivered>>

OutboxNext ==
  \/ \E x \in Records : Enter(x)
  \/ \E S \in SUBSET entered : Deliver(S)
  \/ \E S \in SUBSET pending : Forget(S)
  \/ \E x \in entered, S \in SUBSET pending : Drop(x, S)

OutboxSpec == OutboxInit /\ [][OutboxNext]_outboxVars

=============================================================================
