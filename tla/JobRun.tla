------------------------------- MODULE JobRun -------------------------------
(***************************************************************************)
(* cmd/bitacora-run, internal/execwrap, internal/runstats and              *)
(* internal/jobwriter: a command is started, waited for or terminated, its *)
(* output read for statistics, and a Job handed to the agent's socket or   *)
(* to the spool.                                                           *)
(*                                                                         *)
(* A line of output is 0 when the extractor of the tool has no use for it, *)
(* and otherwise 1 more than the number of errors it reports.              *)
(***************************************************************************)
EXTENDS Integers, Sequences, Functions

CONSTANTS
  Tools,        \* what argv[0] may be
  Codes,        \* exit codes of the command
  Streams,      \* what it may have written to an output
  SIGTERM, SIGKILL

ASSUME JobAssumption == Codes \subseteq 0 .. 255 /\ {SIGTERM, SIGKILL} \subseteq Nat \ {0}

VARIABLES
  tool, timeout,    \* argv[0], and whether --timeout was given
  held,             \* a descendant keeps the output open for good
  deaf,             \* the command ignores SIGTERM
  phase,            \* where bitacora-run is
  child,            \* "alive", or how it ended
  timedOut,         \* Result.TimedOut
  copied,           \* all the output reached where it is passed on to
  job,              \* the Job
  place,            \* where the Job went
  exit              \* exit code of bitacora-run

jobVars == <<tool, timeout, held, deaf, phase, child, timedOut, copied, job, place, exit>>

\* An exit code or a signal number, and what copying the output came to.
Alive == [alive |-> TRUE, code |-> 0, signal |-> 0]
Ending(code, signal) == [alive |-> FALSE, code |-> code, signal |-> signal]

NoJob == [status |-> "none", code |-> 0, errors |-> 0]

JobInit ==
  /\ tool = ""
  /\ timeout = FALSE
  /\ held = FALSE
  /\ deaf = FALSE
  /\ phase = "start"
  /\ child = Alive
  /\ timedOut = FALSE
  /\ copied = TRUE
  /\ job = NoJob
  /\ place = "none"
  /\ exit = -1

\* run: flags that do not parse, no job name or no command.
UsageError ==
  /\ phase = "start"
  /\ phase' = "over"
  /\ exit' = 2
  /\ UNCHANGED <<tool, timeout, held, deaf, child, timedOut, copied, job, place>>

\* Run: Start fails and bitacora-run exits with 1, with no Job.
StartFails ==
  /\ phase = "start"
  /\ phase' = "over"
  /\ exit' = 1
  /\ UNCHANGED <<tool, timeout, held, deaf, child, timedOut, copied, job, place>>

\* Run starts the command, whatever it is like, and a goroutine that waits for
\* it.
StartCommand(argv0, limited, inherits, ignores) ==
  /\ phase = "start"
  /\ phase' = "wait"
  /\ tool' = argv0
  /\ timeout' = limited
  /\ held' = inherits
  /\ deaf' = ignores
  /\ UNCHANGED <<child, timedOut, copied, job, place, exit>>

\* The command ends by itself or by somebody's signal.
CommandEnds(end) ==
  /\ phase \notin {"start", "over"}
  /\ child.alive
  /\ child' = end
  /\ UNCHANGED <<tool, timeout, held, deaf, phase, timedOut, copied, job, place, exit>>

\* select takes the timeout or the cancelled context, be Wait ready or not:
\* terminateGracefully sends SIGTERM.
Terminate(late) ==
  /\ phase = "wait"
  /\ late => timeout
  /\ timedOut' = late
  /\ phase' = "grace"
  /\ UNCHANGED <<tool, timeout, held, deaf, child, copied, job, place, exit>>

\* A command that does not ignore SIGTERM dies of it or exits.
TermTakes(end) ==
  /\ phase = "grace"
  /\ ~deaf
  /\ child.alive
  /\ child' = end
  /\ UNCHANGED <<tool, timeout, held, deaf, phase, timedOut, copied, job, place, exit>>

\* The grace period is over and nobody asks again.
TerminateOnce ==
  /\ phase = "grace"
  /\ phase' = "kill"
  /\ UNCHANGED <<tool, timeout, held, deaf, child, timedOut, copied, job, place, exit>>

\* terminateGracefully: the grace period is over and SIGKILL is sent.
terminateGracefully ==
  /\ phase = "grace"
  /\ phase' = "kill"
  /\ child' = IF child.alive THEN Ending(-1, SIGKILL) ELSE child
  /\ UNCHANGED <<tool, timeout, held, deaf, timedOut, copied, job, place, exit>>

\* applyExitState: a Wait that failed to copy the output of a command that
\* exited with 0 leaves -1.
applyExitState(all) ==
  IF child.signal = 0 /\ child.code = 0 /\ ~all THEN -1 ELSE child.code

\* Extract of the extractors: the last tally, the error lines of stderr, the
\* sum of the error rows, nothing.
LastTally(lines) ==
  LET found == SelectSeq(lines, LAMBDA l : l > 0)
  IN  IF found = <<>> THEN 0 ELSE found[Len(found)] - 1
ErrorLines(lines) == Len(SelectSeq(lines, LAMBDA l : l > 1))
ErrorRows(lines) == FoldFunction(LAMBDA l, sum : IF l > 0 THEN sum + l - 1 ELSE sum, 0, lines)
Generic == 0

\* For, and the errors of the statistics.
For(out, err) ==
  CASE tool = "rclone"   -> LastTally(out \o err)
    [] tool = "rsync"    -> ErrorLines(err)
    [] tool = "snapraid" -> ErrorRows(out \o err)
    [] OTHER             -> Generic

statusFor(code, errors) ==
  IF timedOut THEN "timeout"
  ELSE IF child.signal # 0 THEN "killed"
  ELSE IF code # 0 THEN "failed"
  ELSE IF errors > 0 THEN "warning"
  ELSE "success"

\* The exit code whatever the signal.
exitCodeOnly(code) == (256 + code) % 256

\* exitCodeFor, as the caller of bitacora-run sees it: a byte, -1 being 255.
exitCodeFor(code) ==
  IF child.signal > 0 THEN 128 + child.signal ELSE (256 + code) % 256

\* buildJob, once Wait has returned: the command is gone and nobody holds its
\* output.
buildJob(out, err, all) ==
  LET code == applyExitState(all)
      errors == For(out, err)
  IN  /\ phase \in {"wait", "grace", "kill"}
      /\ ~child.alive
      /\ ~held
      /\ phase' = "instrument"
      /\ copied' = all
      /\ job' = [status |-> statusFor(code, errors), code |-> code, errors |-> errors]
      /\ exit' = exitCodeFor(code)
      /\ UNCHANGED <<tool, timeout, held, deaf, child, timedOut, place>>

\* writeSocket: the agent answers and takes the whole job within the deadlines.
writeSocket(agent) == agent = "takes it"

\* Writer.Write: the socket, else the spool, else nowhere.
WriteJob(agent, spooled) ==
  CASE writeSocket(agent) -> "socket"
    [] ~writeSocket(agent) /\ spooled -> "spool"
    [] OTHER -> "lost"

\* An error or a panic on the way is printed and forgotten.
instrument(agent, spooled) ==
  /\ phase = "instrument"
  /\ phase' = "over"
  /\ place' = WriteJob(agent, spooled)
  /\ UNCHANGED <<tool, timeout, held, deaf, child, timedOut, copied, job, exit>>

Starts == \E t \in Tools, l, i, d \in BOOLEAN : StartCommand(t, l, i, d)

JobNext ==
  \/ UsageError
  \/ StartFails
  \/ Starts
  \/ \E code \in Codes : CommandEnds(Ending(code, 0))
  \/ CommandEnds(Ending(-1, SIGKILL))
  \/ \E late \in BOOLEAN : Terminate(late)
  \/ TermTakes(Ending(-1, SIGTERM))
  \/ \E code \in Codes : TermTakes(Ending(code, 0))
  \/ terminateGracefully
  \/ \E out, err \in Streams, all \in BOOLEAN : buildJob(out, err, all)
  \/ \E agent \in {"takes it", "is gone", "is stuck"}, spooled \in BOOLEAN : instrument(agent, spooled)

JobSpec == JobInit /\ [][JobNext]_jobVars

\* The timers and the kernel see to these; the command itself promises nothing.
JobProgress ==
  \/ UsageError \/ StartFails \/ Starts
  \/ terminateGracefully
  \/ \E out, err \in Streams, all \in BOOLEAN : buildJob(out, err, all)
  \/ \E agent \in {"takes it", "is gone", "is stuck"}, spooled \in BOOLEAN : instrument(agent, spooled)

-----------------------------------------------------------------------------
JobTypeOK ==
  /\ phase \in {"start", "wait", "grace", "kill", "instrument", "over"}
  /\ job.status \in {"none", "timeout", "killed", "failed", "warning", "success"}
  /\ place \in {"none", "socket", "spool", "lost"}
  /\ exit \in -1 .. 255

\* What the command ended with, as a shell gives it.
CommandsExit == IF child.signal > 0 THEN 128 + child.signal ELSE child.code

\* However its end, the timeout and the signals interleave, a command whose
\* output could be passed on has its own exit code propagated, 128 and the
\* signal when one ended it; and, output or not, the Job says success or warning
\* exactly when bitacora-run exits with 0, unless it says that time ran out.
ExitIsTheCommands ==
  phase = "over" /\ job # NoJob =>
    /\ copied => exit = CommandsExit
    /\ ~timedOut => (job.status \in {"success", "warning"} <=> exit = 0)

\* What the package comment of bitacora-run says: it always propagates the exit
\* code of a command it ran (exitCodeFor), whatever else fails.
AlwaysPropagates == phase = "over" /\ job # NoJob => exit = CommandsExit

\* A command that is timed out or interrupted is over some time later, even
\* one that ignores SIGTERM, unless a descendant of it keeps the output open.
RunReturns == phase \in {"grace", "kill"} ~> (phase = "over" \/ held)
=============================================================================
