---------------------------- MODULE MCAgentBuffer ----------------------------
(***************************************************************************)
(* Small instances of AgentBuffer.  The bounds are chosen so that a        *)
(* segment fills and is sealed, a batch ends inside a segment, and a       *)
(* restart finds sealed files and an orphan at the same time.              *)
(***************************************************************************)
EXTENDS AgentBuffer

\* Without EnforceCapacity the priorities play no part.
OnePriority == {PriorityMetric}

\* A priority that may be dropped and one that may not.
LogsAndEvents == {PriorityLogLine, PriorityEvent}

=============================================================================
