---------------------------- MODULE CommandRunner ----------------------------
(***************************************************************************)
(* A command of the agent on a POSIX host: the shell and a process it left *)
(* in the background write to a pseudo-terminal, the runner polls it,      *)
(* kills the shell at the deadline, reads what is left and reports.        *)
(* (tools/exec_process.py, tools/shell_execute.py)                         *)
(*                                                                         *)
(* Bytes arrive in order, so the model counts them.  A terminal nobody     *)
(* holds open is ready for select and reads as an error (Linux) or as      *)
(* empty (macOS).                                                          *)
(***************************************************************************)
EXTENDS Naturals

CONSTANTS
    CaptureLimit,  \* _MAX_CAPTURE_BYTES
    MaxOutput      \* bound on what the processes write

ASSUME CommandRunnerAssumption == CaptureLimit \in Nat /\ MaxOutput \in Nat

VARIABLES
    theShell,     \* running, or exited with 0, with 1, or killed
    child,        \* background process: none, running, ended
    wrote,        \* bytes written so far
    terminal,     \* bytes waiting in the terminal
    captured,     \* bytes captured
    runner,       \* where run_streaming_command_posix is
    expired,      \* has the timeout passed?
    report,       \* what the tool reported
    idleRounds    \* rounds of the loop begun after everything was over (history)

runnerVars == <<theShell, child, wrote, terminal, captured, runner, expired, report, idleRounds>>

NoReport == [status |-> "none"]
ShellExited == theShell # "running"
TerminalHeld == theShell = "running" \/ child = "running"
Over == ~TerminalHeld /\ terminal = 0
MinOf(a, b) == IF a < b THEN a ELSE b

RunnerInit ==
    /\ theShell = "running"
    /\ child = "none"
    /\ wrote = 0 /\ terminal = 0 /\ captured = 0
    /\ runner = [pc |-> "check", ready |-> FALSE, timedOut |-> FALSE]
    /\ expired = FALSE
    /\ report = NoReport
    /\ idleRounds = 0

RunnerAt(pc) == runner.pc = pc
RunnerTo(pc) == runner' = [runner EXCEPT !.pc = pc]
-----------------------------------------------------------------------------
(* The command. *)

WriteOutput ==
    /\ TerminalHeld /\ wrote < MaxOutput /\ ~RunnerAt("done")
    /\ wrote' = wrote + 1 /\ terminal' = terminal + 1
    /\ UNCHANGED <<theShell, child, captured, runner, expired, report, idleRounds>>

StartChild ==
    /\ theShell = "running" /\ child = "none"
    /\ child' = "running"
    /\ UNCHANGED <<theShell, wrote, terminal, captured, runner, expired, report, idleRounds>>

ChildEnds ==
    /\ child = "running"
    /\ child' = "ended"
    /\ UNCHANGED <<theShell, wrote, terminal, captured, runner, expired, report, idleRounds>>

ShellExits ==
    /\ theShell = "running"
    /\ theShell' \in {"exit 0", "exit 1"}
    /\ UNCHANGED <<child, wrote, terminal, captured, runner, expired, report, idleRounds>>

Expire ==
    /\ ~expired /\ ~RunnerAt("done")
    /\ expired' = TRUE
    /\ UNCHANGED <<theShell, child, wrote, terminal, captured, runner, report, idleRounds>>
-----------------------------------------------------------------------------
(* run_streaming_command_posix. *)

(* process.kill() ends the shell, not what it started. *)
CheckDeadline ==
    /\ RunnerAt("check")
    /\ IF expired
       THEN /\ theShell' = IF theShell = "running" THEN "killed" ELSE theShell
            /\ runner' = [runner EXCEPT !.pc = "drain", !.timedOut = TRUE]
            /\ UNCHANGED idleRounds
       ELSE /\ RunnerTo("select")
            /\ idleRounds' = IF Over THEN MinOf(idleRounds + 1, 2) ELSE 0
            /\ UNCHANGED theShell
    /\ UNCHANGED <<child, wrote, terminal, captured, expired, report>>

Readable == terminal > 0 \/ ~TerminalHeld

Select ==
    /\ RunnerAt("select")
    /\ runner' = [runner EXCEPT !.ready = Readable, !.pc = IF Readable THEN "read" ELSE "poll"]
    /\ UNCHANGED <<theShell, child, wrote, terminal, captured, expired, report, idleRounds>>

(* captured.extend(chunk[:remaining]) *)
Captured(n) == MinOf(captured + n, CaptureLimit)

TakeBytes(n) ==
    /\ captured' = Captured(n)
    /\ terminal' = terminal - n

(* One read of up to a chunk; an error or an empty read takes nothing. *)
Read ==
    /\ RunnerAt("read")
    /\ IF terminal > 0 THEN \E n \in 1..terminal : TakeBytes(n)
                       ELSE UNCHANGED <<captured, terminal>>
    /\ RunnerTo("poll")
    /\ UNCHANGED <<theShell, child, wrote, expired, report, idleRounds>>

(* The loop is left only when select had found nothing to read. *)
Poll ==
    /\ RunnerAt("poll")
    /\ RunnerTo(IF ShellExited /\ ~runner.ready THEN "drain" ELSE "check")
    /\ UNCHANGED <<theShell, child, wrote, terminal, captured, expired, report, idleRounds>>

(* Mutant: the loop that reads the rest is left out.                       *)
SkipDrainMutant == TRUE

(* The second loop reads until the terminal is closed by all who hold it.  *)
Drained == Over

Drain ==
    /\ RunnerAt("drain") /\ terminal > 0
    /\ \E n \in 1..terminal : TakeBytes(n)
    /\ UNCHANGED <<theShell, child, wrote, runner, expired, report, idleRounds>>

(* process.wait() and the status the tool makes of it. *)
Report ==
    /\ RunnerAt("drain") /\ Drained /\ ShellExited
    /\ report' = [status |-> IF runner.timedOut THEN "timeout"
                             ELSE IF theShell = "exit 0" THEN "success" ELSE "error",
                  marked |-> captured > CaptureLimit]
    /\ RunnerTo("done")
    /\ UNCHANGED <<theShell, child, wrote, terminal, captured, expired, idleRounds>>

RunnerNext ==
    \/ WriteOutput \/ StartChild \/ ChildEnds \/ ShellExits \/ Expire
    \/ CheckDeadline \/ Select \/ Read \/ Poll \/ Drain \/ Report

RunnerSpec == RunnerInit /\ [][RunnerNext]_runnerVars
-----------------------------------------------------------------------------
Reported == report # NoReport

(* What is reported holds all that the command and its children wrote, up  *)
(* to the limit, also what was written between the last poll and the exit. *)
OutputComplete == Reported => captured = MinOf(wrote, CaptureLimit)

(* Commands are killed if they exceed the timeout (docs/tool-system.md:    *)
(* 128): one that was over for two rounds of the loop before the deadline  *)
(* is not reported as timed out.                                           *)
TimedOutOnlyWhenLate == report.status = "timeout" => idleRounds < 2

(* Output that was cut at the limit carries the marker that says so.       *)
CutOutputIsMarked == Reported => (wrote > CaptureLimit => report.marked)
=============================================================================
