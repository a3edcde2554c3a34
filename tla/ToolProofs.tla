----------------------------- MODULE ToolProofs -----------------------------
(***************************************************************************)
(* Theorems about what tools do to the machine, one component after the    *)
(* other: the output of a command is reported as a whole, the processes    *)
(* that tools start stay in their sandbox, the changes of files can be     *)
(* undone, a call of an MCP server returns the answer to its request, and  *)
(* a patch does to a file what its hunks mean.                             *)
(***************************************************************************)
EXTENDS CommandRunner, ToolRuntime, Rollback, McpStdio, PatchApply, SequenceTheorems,
        FiniteSetTheorems, NaturalsInduction, WellFoundedInduction, TLAPS

-----------------------------------------------------------------------------
(* CommandRunner, for every limit and every amount of output: nothing is   *)
(* lost between the terminal, the polling loop and the one that reads on.  *)

(* What was captured is what was read, up to the limit. *)
BytesAccounted ==
    /\ wrote \in Nat /\ terminal \in 0..wrote
    /\ captured = MinOf(wrote - terminal, CaptureLimit)

(* After the report nobody is left who could write, and nothing to read. *)
ReportIsLast == Reported => Over

CaptureInv == BytesAccounted /\ ReportIsLast

(* Reading in any portions, with what exceeds the limit thrown away each   *)
(* time, captures the same as reading at once.                             *)
LEMMA PortionsAddUp ==
    ASSUME CaptureLimit \in Nat, BytesAccounted, NEW n \in 1..terminal, TakeBytes(n),
           wrote' = wrote
    PROVE  BytesAccounted'
  BY DEF BytesAccounted, TakeBytes, Captured, MinOf

LEMMA CaptureInit == CommandRunnerAssumption /\ RunnerInit => CaptureInv
  BY DEF CommandRunnerAssumption, RunnerInit, CaptureInv, BytesAccounted, ReportIsLast,
         Reported, NoReport, MinOf

LEMMA CaptureStep ==
    ASSUME CommandRunnerAssumption, CaptureInv, [RunnerNext]_runnerVars
    PROVE  CaptureInv'
<1> USE DEF CommandRunnerAssumption, CaptureInv
<1> USE DEF ReportIsLast, Reported, Over, TerminalHeld
<1>1. CASE WriteOutput
  BY <1>1 DEF WriteOutput, BytesAccounted, MinOf
<1>2. CASE StartChild
  BY <1>2 DEF StartChild, BytesAccounted, MinOf
<1>3. CASE ChildEnds
  BY <1>3 DEF ChildEnds, BytesAccounted, MinOf
<1>4. CASE ShellExits
  BY <1>4 DEF ShellExits, BytesAccounted, MinOf
<1>5. CASE Expire
  BY <1>5 DEF Expire, BytesAccounted, MinOf
<1>6. CASE CheckDeadline
  BY <1>6 DEF CheckDeadline, BytesAccounted, MinOf
<1>7. CASE Select
  BY <1>7 DEF Select, BytesAccounted, MinOf
<1>8. CASE Read
  <2>1. CASE terminal > 0
    <3>1. PICK n \in 1..terminal : TakeBytes(n)
      BY <1>8, <2>1 DEF Read
    <3>2. BytesAccounted'
      BY <1>8, <3>1, PortionsAddUp DEF Read
    <3> QED
      BY <1>8, <2>1, <3>2 DEF Read
  <2>2. CASE ~(terminal > 0)
    BY <1>8, <2>2 DEF Read, BytesAccounted, MinOf
  <2> QED
    BY <2>1, <2>2
<1>9. CASE Poll
  BY <1>9 DEF Poll, BytesAccounted, MinOf
<1>10. CASE Drain
  <2>1. PICK n \in 1..terminal : TakeBytes(n)
    BY <1>10 DEF Drain
  <2>2. BytesAccounted'
    BY <1>10, <2>1, PortionsAddUp DEF Drain
  <2> QED
    BY <1>10, <2>2 DEF Drain
<1>11. CASE Report
  BY <1>11 DEF Report, Drained, ShellExited, BytesAccounted, MinOf
<1>12. CASE UNCHANGED runnerVars
  BY <1>12 DEF runnerVars, BytesAccounted, MinOf
<1> QED
  BY <1>1, <1>2, <1>3, <1>4, <1>5, <1>6, <1>7, <1>8, <1>9, <1>10, <1>11, <1>12
  DEF RunnerNext

(* Whatever the limit and however the output, the exit of the shell, its   *)
(* child and the deadline interleave, the report holds all that was        *)
(* written, up to the limit (run_streaming_command_posix).                 *)
THEOREM OutputReportedWhole ==
    ASSUME CommandRunnerAssumption
    PROVE  RunnerSpec => []OutputComplete
<1>1. RunnerInit => CaptureInv
  BY CaptureInit
<1>2. CaptureInv /\ [RunnerNext]_runnerVars => CaptureInv'
  BY CaptureStep
<1>3. CaptureInv => OutputComplete
  BY DEF CommandRunnerAssumption, CaptureInv, BytesAccounted, ReportIsLast, OutputComplete, Over
<1> QED
  BY <1>1, <1>2, <1>3, PTL DEF RunnerSpec
-----------------------------------------------------------------------------
(* ToolRuntime, for every set of servers, of directories and of settings,  *)
(* any number of /config commands, failed starts and changes of session.   *)

(* A launch as Launch makes it, under a backend that was not refused.      *)
Proper(l) ==
    /\ l = Launch(l.backend, l.policy)
    /\ ~Refused(l.backend)
    /\ l # NoLaunch

(* What the manager would start a server as.                               *)
ManagersLaunch == Launch(manager_.backend, manager_.policy)

(* A server that runs was started under the policy the manager has, since  *)
(* a change of policy closes all of them.                                  *)
ManagerInv ==
    /\ manager_ = [backend |-> manager_.backend, policy |-> manager_.policy,
                   servers |-> manager_.servers]
    /\ ~Refused(manager_.backend)
    /\ manager_.servers = [s \in Servers |-> manager_.servers[s]]
    /\ \A s \in Servers : manager_.servers[s] \in {NoLaunch, ManagersLaunch}

(* The controller's tools were built with the manager's policy, unless a   *)
(* build broke off after the manager had taken the new one.                *)
ControllerInv ==
    controller_ # NoController =>
        /\ Proper(controller_.launch)
        /\ broken = 0 => controller_.launch = ManagersLaunch

ProcessInv == process_.tool = "shell_execute" => Proper(process_.launch)

ToolRuntimeInv ==
    /\ ManagerInv /\ ControllerInv /\ ProcessInv
    /\ broken \in Nat
    /\ turn_ => controller_ # NoController
-----------------------------------------------------------------------------
(* A wrapper confines what it starts: this is where an explicit backend    *)
(* that is missing must be refused and not replaced by no wrapper.         *)
LEMMA ProperIsContained ==
    ASSUME NEW l, Proper(l), NEW dir
    PROVE  Contained(l, dir)
  BY DEF Proper, Contained, Launch, Reach, Refused, Unavailable, Resolved

LEMMA LaunchIsProper ==
    ASSUME NEW b, NEW p, ~Refused(b)
    PROVE  Proper(Launch(b, p))
  BY DEF Proper, Launch, NoLaunch

(* A manager whose running servers were all started under its policy.      *)
Consistent(m) ==
    /\ m = [backend |-> m.backend, policy |-> m.policy, servers |-> m.servers]
    /\ m.servers = [s \in Servers |-> m.servers[s]]
    /\ \A s \in Servers : m.servers[s] \in {NoLaunch, Launch(m.backend, m.policy)}

LEMMA UpdateIsConsistent ==
    ASSUME NEW m, Consistent(m), NEW b, NEW p
    PROVE  /\ Consistent(UpdatedManager(m, b, p))
           /\ UpdatedManager(m, b, p).backend = b
           /\ UpdatedManager(m, b, p).policy = p
<1>1. CASE SamePolicy(m, b, p)
  BY <1>1 DEF UpdatedManager, SamePolicy
<1>2. CASE ~SamePolicy(m, b, p)
  <2>1. UpdatedManager(m, b, p) =
          [backend |-> b, policy |-> p, servers |-> [s \in Servers |-> NoLaunch]]
    BY <1>2 DEF UpdatedManager
  <2> QED
    BY <2>1 DEF Consistent
<1> QED
  BY <1>1, <1>2

LEMMA StartKeepsConsistent ==
    ASSUME NEW m, Consistent(m), NEW up
    PROVE  /\ Consistent(Started(m, up))
           /\ Started(m, up).backend = m.backend
           /\ Started(m, up).policy = m.policy
<1> DEFINE servers == [s \in Servers |->
        IF s \in up /\ m.servers[s] = NoLaunch THEN Launch(m.backend, m.policy) ELSE m.servers[s]]
<1>1. Started(m, up) = [backend |-> m.backend, policy |-> m.policy, servers |-> servers]
  BY DEF Started, Consistent
<1>2. \A s \in Servers : servers[s] \in {NoLaunch, Launch(m.backend, m.policy)}
  BY DEF Consistent
<1> HIDE DEF servers
<1>3. servers = [s \in Servers |-> servers[s]]
  BY DEF servers
<1> QED
  BY <1>1, <1>2, <1>3 DEF Consistent
-----------------------------------------------------------------------------
LEMMA ToolRuntimeInvInit == ToolRuntimeInit => ToolRuntimeInv
<1> SUFFICES ASSUME ToolRuntimeInit PROVE ToolRuntimeInv
  OBVIOUS
<1>1. ManagerInv
  BY DEF ToolRuntimeInit, ManagerInv, ManagersLaunch, Refused, Unavailable, Resolved
<1> QED
  BY <1>1 DEF ToolRuntimeInit, ToolRuntimeInv, ControllerInv, ProcessInv, NoProcess

LEMMA SetConfigKeeps ==
    ASSUME ToolRuntimeInv, NEW key, NEW value, SetConfig(key, value)
    PROVE  ToolRuntimeInv'
<1>1. UNCHANGED <<sandboxes, controller_, manager_, process_, broken>> /\ ~turn_'
  BY DEF SetConfig
<1> QED
  BY <1>1 DEF ToolRuntimeInv, ManagerInv, ManagersLaunch, ControllerInv, ProcessInv, Proper,
     Launch, Refused, Unavailable

(* What a build, whether it goes through or not, leaves behind.            *)
LEMMA BuildOutcome ==
    ASSUME ToolRuntimeInv, NEW ok \in BOOLEAN, BuildTools(ok), UNCHANGED sandboxes
    PROVE  /\ ManagerInv'
           /\ broken' \in Nat
           /\ ok => ~Refused(settings.backend)
           /\ ok => ManagersLaunch' = Launch(settings.backend, Policy(settings))
           /\ ~ok /\ broken' = 0 => UNCHANGED <<manager_, broken>>
           /\ ok => UNCHANGED broken
<1> DEFINE m == UpdatedManager(manager_, settings.backend, Policy(settings))
<1>1. /\ Consistent(m) /\ m.backend = settings.backend /\ m.policy = Policy(settings)
  <2>1. Consistent(manager_)
    BY DEF ToolRuntimeInv, ManagerInv, ManagersLaunch, Consistent
  <2> QED
    BY <2>1, UpdateIsConsistent
<1> HIDE DEF m
<1>2. CASE Refused(settings.backend)
  <2>1. ~ok /\ UNCHANGED <<manager_, broken>>
    BY <1>2 DEF BuildTools
  <2> QED
    BY <2>1 DEF ToolRuntimeInv, ManagerInv, ManagersLaunch, Launch, Refused, Unavailable
<1>3. CASE ~Refused(settings.backend)
  <2>1. PICK up \in {Servers} \union SUBSET Servers : manager_' = Started(m, up)
    BY <1>3 DEF BuildTools, m
  <2>2. /\ Consistent(manager_') /\ manager_'.backend = settings.backend
        /\ manager_'.policy = Policy(settings)
    BY <1>1, <2>1, StartKeepsConsistent
  <2>3. ManagerInv' /\ ManagersLaunch' = Launch(settings.backend, Policy(settings))
    BY <1>3, <2>2 DEF ManagerInv, ManagersLaunch, Consistent, Launch, Refused, Unavailable
  <2>4. broken' \in Nat /\ (ok => UNCHANGED broken) /\ (~ok => broken' = broken + 1)
    BY <1>3 DEF BuildTools, ToolRuntimeInv
  <2> QED
    BY <1>3, <2>3, <2>4 DEF ToolRuntimeInv
<1> QED
  BY <1>2, <1>3

LEMMA DispatchKeeps ==
    ASSUME ToolRuntimeInv, DispatchTurn
    PROVE  ToolRuntimeInv'
<1> DEFINE launch == Launch(settings.backend, Policy(settings))
<1>1. UNCHANGED <<settings, sandboxes, process_>>
  BY DEF DispatchTurn
<1>2. ProcessInv'
  BY <1>1 DEF ToolRuntimeInv, ProcessInv, Proper, Launch, Refused, Unavailable
<1>3. CASE controller_.key # ControllerKey \/ Refreshes
  <2>1. PICK ok \in BOOLEAN :
          /\ BuildTools(ok)
          /\ controller_' = IF ~ok THEN controller_
                            ELSE Settled(ControllerKey, launch,
                                         IF controller_.key # ControllerKey THEN settings.mode
                                                                            ELSE controller_.posture)
          /\ turn_' = ok
    BY <1>3 DEF DispatchTurn
  <2>2. /\ ManagerInv' /\ broken' \in Nat
        /\ ok => ~Refused(settings.backend) /\ ManagersLaunch' = launch
        /\ ~ok /\ broken' = 0 => UNCHANGED <<manager_, broken>>
    BY <1>1, <2>1, BuildOutcome
  <2>3. CASE ok
    <3>1. controller_'.launch = launch /\ controller_' # NoController
      BY <2>1, <2>3 DEF Settled, NoController
    <3>2. Proper(controller_.launch)'
      BY <1>1, <2>2, <2>3, <3>1, LaunchIsProper DEF Proper, Launch, Refused, Unavailable
    <3> QED
      BY <1>2, <2>1, <2>2, <2>3, <3>1, <3>2 DEF ToolRuntimeInv, ControllerInv
  <2>4. CASE ~ok
    <3>1. UNCHANGED controller_ /\ ~turn_'
      BY <2>1, <2>4
    <3>2. ControllerInv'
      BY <1>1, <2>2, <2>4, <3>1
      DEF ToolRuntimeInv, ControllerInv, ManagersLaunch, Proper, Launch, Refused, Unavailable
    <3> QED
      BY <1>2, <2>2, <3>1, <3>2 DEF ToolRuntimeInv
  <2> QED
    BY <2>3, <2>4
<1>4. CASE ~(controller_.key # ControllerKey \/ Refreshes)
  <2>1. UNCHANGED <<controller_, manager_, broken>> /\ turn_' = TRUE
    BY <1>4 DEF DispatchTurn
  <2>2. controller_ # NoController
    BY <1>4 DEF NoController, ControllerKey
  <2> QED
    BY <1>1, <1>2, <2>1, <2>2 DEF ToolRuntimeInv, ManagerInv, ManagersLaunch, ControllerInv, Proper,
       Launch, Refused, Unavailable
<1> QED
  BY <1>3, <1>4

LEMMA RunShellKeeps ==
    ASSUME ToolRuntimeInv, RunShell
    PROVE  ToolRuntimeInv'
<1>1. /\ controller_ # NoController
      /\ process_' = [tool |-> "shell_execute", launch |-> controller_.launch, dir |-> Workspace]
      /\ UNCHANGED <<settings, sandboxes, controller_, manager_, broken, turn_>>
  BY DEF ToolRuntimeInv, RunShell, MayRun
<1>2. ProcessInv'
  BY <1>1 DEF ToolRuntimeInv, ControllerInv, ProcessInv, Proper, Launch, Refused, Unavailable
<1> QED
  BY <1>1, <1>2 DEF ToolRuntimeInv, ManagerInv, ManagersLaunch, ControllerInv, Proper,
     Launch, Refused, Unavailable

LEMMA RunUnwrappedKeeps ==
    ASSUME ToolRuntimeInv, RunUnwrapped
    PROVE  ToolRuntimeInv'
<1>1. /\ process_'.tool # "shell_execute"
      /\ UNCHANGED <<settings, sandboxes, controller_, manager_, broken, turn_>>
  BY DEF RunUnwrapped
<1> QED
  BY <1>1 DEF ToolRuntimeInv, ManagerInv, ManagersLaunch, ControllerInv, ProcessInv, Proper,
     Launch, Refused, Unavailable

LEMMA CallServerKeeps ==
    ASSUME ToolRuntimeInv, NEW s \in Servers, CallServer(s)
    PROVE  ToolRuntimeInv'
<1>1. /\ manager_' = Started(manager_, {s})
      /\ UNCHANGED <<settings, sandboxes, controller_, process_, broken, turn_>>
  BY DEF CallServer
<1>2. Consistent(manager_)
  BY DEF ToolRuntimeInv, ManagerInv, ManagersLaunch, Consistent
<1>3. /\ Consistent(manager_') /\ manager_'.backend = manager_.backend
      /\ manager_'.policy = manager_.policy
  BY <1>1, <1>2, StartKeepsConsistent
<1>4. ManagersLaunch' = ManagersLaunch
  BY <1>1, <1>3 DEF ManagersLaunch, Launch, Unavailable
<1>5. ManagerInv'
  BY <1>1, <1>3 DEF ToolRuntimeInv, ManagerInv, ManagersLaunch, Consistent, Launch, Refused, Unavailable
<1> QED
  BY <1>1, <1>4, <1>5 DEF ToolRuntimeInv, ControllerInv, ProcessInv, Proper,
     Launch, Refused, Unavailable

LEMMA SwitchSessionKeeps ==
    ASSUME ToolRuntimeInv, SwitchSession
    PROVE  ToolRuntimeInv'
<1>1. /\ controller_' = NoController /\ turn_' = FALSE
      /\ manager_' = [backend |-> manager_.backend, policy |-> manager_.policy,
                      servers |-> [s \in Servers |-> NoLaunch]]
      /\ UNCHANGED <<settings, sandboxes, process_, broken>>
  BY DEF SwitchSession, ToolRuntimeInv, ManagerInv
<1>2. ManagerInv'
  BY <1>1 DEF ToolRuntimeInv, ManagerInv, ManagersLaunch, Refused, Unavailable
<1> QED
  BY <1>1, <1>2 DEF ToolRuntimeInv, ControllerInv, ProcessInv, Proper,
     Launch, Refused, Unavailable

LEMMA ToolRuntimeInvStep ==
    ASSUME ToolRuntimeInv, [ToolRuntimeNext]_toolRuntimeVars
    PROVE  ToolRuntimeInv'
<1>1. CASE UNCHANGED toolRuntimeVars
  BY <1>1 DEF toolRuntimeVars, ToolRuntimeInv, ManagerInv, ManagersLaunch, ControllerInv,
     ProcessInv, Proper, Launch, Refused, Unavailable
<1> QED
  BY <1>1, SetConfigKeeps, DispatchKeeps, RunShellKeeps, RunUnwrappedKeeps, CallServerKeeps,
     SwitchSessionKeeps
  DEF ToolRuntimeNext

(* No command of shell_execute and no MCP server escapes its sandbox, and  *)
(* servers and shell agree on it while no start has failed: for every      *)
(* platform, every choice of settings, roots and servers, and across       *)
(* failing builds and changes of the session (build_tool_router,           *)
(* update_exec_policy, wrap_command_for_os_sandbox).  The other tools'     *)
(* processes are not wrapped, and the theorem says nothing of them.        *)
THEOREM ProcessesContained == ToolRuntimeSpec => []ToolProcessesContained
<1>1. ToolRuntimeInit => ToolRuntimeInv
  BY ToolRuntimeInvInit
<1>2. ToolRuntimeInv /\ [ToolRuntimeNext]_toolRuntimeVars => ToolRuntimeInv'
  BY ToolRuntimeInvStep
<1>3. ToolRuntimeInv => ToolProcessesContained
  <2> SUFFICES ASSUME ToolRuntimeInv PROVE ToolProcessesContained
    OBVIOUS
  <2>1. ASSUME NEW s \in Servers, manager_.servers[s] # NoLaunch
        PROVE  /\ broken = 0 /\ controller_ # NoController =>
                    manager_.servers[s] = controller_.launch
               /\ Contained(manager_.servers[s], ServerDir)
    <3>1. manager_.servers[s] = ManagersLaunch /\ ~Refused(manager_.backend)
      BY <2>1 DEF ToolRuntimeInv, ManagerInv
    <3>2. Contained(manager_.servers[s], ServerDir)
      BY <3>1, LaunchIsProper, ProperIsContained DEF ManagersLaunch
    <3> QED
      BY <3>1, <3>2 DEF ToolRuntimeInv, ControllerInv
  <2>2. process_.tool = "shell_execute" => Contained(process_.launch, process_.dir)
    BY ProperIsContained DEF ToolRuntimeInv, ProcessInv
  <2> QED
    BY <2>1, <2>2 DEF ToolProcessesContained
<1> QED
  BY <1>1, <1>2, <1>3, PTL DEF ToolRuntimeSpec
-----------------------------------------------------------------------------
(* Rollback, for every set of files and every number of changes and undos: *)
(* the log on disk is a part of what the manager of the agent has, and the *)
(* oldest entry of a file has the content that the session found.          *)

EntryType == [file : Files, action : {"created", "modified"}, backup : Nat \X Files, at : Nat]
HookType == [pc : {"running", "succeeded"}, file : Files, existed : BOOLEAN,
             backup : Nat \X Files, before : Nat]
ChangeType == [at : Nat, file : Files, before : Nat]

RollbackTypeOK ==
    /\ workspace \in [Files -> Nat]
    /\ backups \in [DOMAIN backups -> Nat]
    /\ logged \in Seq(EntryType)
    /\ entries \in Seq(EntryType)
    /\ torn \in BOOLEAN
    /\ hook \in {NoHook, Logging, NoManager} \union HookType
    /\ written \in Nat
    /\ changes \subseteq ChangeType

(* A tool call is at work. *)
HookPending == hook \notin {NoHook, Logging, NoManager}

(* What the log was given is what the agent's manager has, or less. *)
LoggedIsPrefix ==
    /\ Len(logged) <= Len(entries)
    /\ \A i \in 1 .. Len(logged) : logged[i] = entries[i]

(* A backup bears the number of its entry; one that is needed is there. *)
BackupsNumbered ==
    \A i \in 1 .. Len(entries) :
        /\ entries[i].backup = <<i, entries[i].file>>
        /\ entries[i].action = "modified" => entries[i].backup \in DOMAIN backups

(* The entries are in the order of their changes. *)
EntriesInOrder ==
    /\ \A i \in 1 .. Len(entries) : entries[i].at <= written + 2
    /\ \A i, j \in 1 .. Len(entries) : i < j => entries[i].at < entries[j].at

(* The entry that the pending hook will make. *)
HookBackup ==
    HookPending =>
        /\ hook.backup = <<Len(entries) + 1, hook.file>>
        /\ hook.existed => hook.backup \in DOMAIN backups /\ backups[hook.backup] = hook.before
        /\ ~ hook.existed => hook.before = NoFile

HookIsNewest ==
    hook.pc = "succeeded" =>
        /\ workspace[hook.file] <= written + 2
        /\ \A i \in 1 .. Len(entries) : entries[i].at < workspace[hook.file]

ChangesLogged ==
    \A c \in changes :
        \E i \in 1 .. Len(logged) :
            entries[i].at = c.at /\ entries[i].file = c.file /\ Restored(entries[i]) = c.before

(* The oldest entry of a file has the content the session found. *)
NoEntryBelow(n, f) == \A j \in 1 .. n : entries[j].file # f

OldestHasOriginal ==
    ~ disturbed =>
        /\ \A i \in 1 .. Len(entries) :
               NoEntryBelow(i - 1, entries[i].file) => Restored(entries[i]) = Original[entries[i].file]
        /\ HookPending /\ NoEntryBelow(Len(entries), hook.file) =>
               hook.before = Original[hook.file]

(* A file without an entry in the log is as the session found it. *)
UnloggedUntouched ==
    ~ disturbed =>
        \A f \in Files :
            NoEntryBelow(Len(logged), f) /\ ~ (hook.pc = "succeeded" /\ hook.file = f) =>
                workspace[f] = Original[f]

UndoInv ==
    /\ RollbackTypeOK /\ LoggedIsPrefix /\ BackupsNumbered /\ EntriesInOrder
    /\ HookBackup /\ HookIsNewest /\ ChangesLogged
    /\ OldestHasOriginal /\ UnloggedUntouched

LEMMA UndoInvInit == RollbackInit => UndoInv
<1> SUFFICES ASSUME RollbackInit PROVE UndoInv
  OBVIOUS
<1>1. Original \in [Files -> Nat]
  BY DEF Original, NoFile
<1>2. RollbackTypeOK
  <2>1. workspace \in [Files -> Nat] /\ hook = NoHook /\ torn \in BOOLEAN /\ written \in Nat
    BY <1>1 DEF RollbackInit
  <2>2. backups \in [DOMAIN backups -> Nat]
    BY DEF RollbackInit
  <2>3. logged \in Seq(EntryType) /\ entries \in Seq(EntryType)
    BY DEF RollbackInit
  <2>4. changes \subseteq ChangeType
    BY DEF RollbackInit
  <2> QED
    BY <2>1, <2>2, <2>3, <2>4 DEF RollbackTypeOK
<1>3. NoHook.pc = "idle" /\ (hook = NoHook => ~ HookPending)
  BY DEF NoHook, HookPending
<1> QED
  BY <1>1, <1>2, <1>3 DEF RollbackInit, UndoInv, LoggedIsPrefix, BackupsNumbered, EntriesInOrder,
     HookBackup, HookIsNewest, ChangesLogged, OldestHasOriginal, UnloggedUntouched

(* A hook is a record with the fields of a pending rollback, or none. *)
LEMMA HookStates ==
  ASSUME RollbackTypeOK
  PROVE  /\ ~ HookPending <=> hook.pc \in {"idle", "logging", "no_manager"}
         /\ HookPending => hook \in HookType /\ hook.pc \in {"running", "succeeded"}
BY DEF RollbackTypeOK, HookType, HookPending, NoHook, Logging, NoManager

(* A backup that is made leaves what older entries restore as it is. *)
LEMMA PreActionStep ==
  ASSUME UndoInv, NEW f \in Files, PreAction(f)
  PROVE  UndoInv'
<1> USE DEF UndoInv
<1> DEFINE b == BackupName(f)
<1>1. b = <<Len(entries) + 1, f>> /\ b \in Nat \X Files
  BY DEF BackupName, RollbackTypeOK
<1>2. /\ UNCHANGED <<workspace, logged, torn, entries, written, changes, disturbed>>
      /\ hook = NoHook
      /\ hook' = [pc |-> "running", file |-> f, existed |-> Exists(f),
                  backup |-> b, before |-> workspace[f]]
      /\ Exists(f) => backups' = [n \in DOMAIN backups \cup {b} |->
                                     IF n = b THEN workspace[f] ELSE backups[n]]
      /\ ~ Exists(f) => backups' = backups
  BY DEF PreAction
<1> HIDE DEF b
<1>h. /\ HookPending' /\ hook'.pc = "running" /\ hook'.file = f /\ hook'.backup = b
      /\ hook'.before = workspace[f] /\ hook'.existed = Exists(f)
  BY <1>2 DEF NoHook, Logging, NoManager, HookPending
<1>t. Exists(f) \in BOOLEAN /\ workspace[f] \in Nat
  BY DEF Exists, RollbackTypeOK
<1>3. hook' \in HookType
  BY <1>1, <1>2, <1>t DEF HookType
<1>4. backups' \in [DOMAIN backups' -> Nat]
  BY <1>2, <1>t DEF RollbackTypeOK
<1>5. RollbackTypeOK'
  BY <1>2, <1>3, <1>4 DEF RollbackTypeOK
<1>6. DOMAIN backups \subseteq DOMAIN backups'
  BY <1>2, <1>t
<1>7. ASSUME NEW i \in 1 .. Len(entries)
      PROVE  /\ entries[i].backup # b
             /\ entries[i].action = "modified" => entries[i].backup \in DOMAIN backups
             /\ entries[i] \in EntryType
  <2>1. entries[i].backup = <<i, entries[i].file>> /\ i # Len(entries) + 1
    BY DEF BackupsNumbered, RollbackTypeOK
  <2>2. entries[i] \in EntryType
    BY DEF RollbackTypeOK
  <2> QED
    BY <1>1, <2>1, <2>2 DEF BackupsNumbered
<1>8. ASSUME NEW i \in 1 .. Len(entries)
      PROVE  Restored(entries[i])' = Restored(entries[i])
  <2>1. CASE entries[i].action = "created"
    BY <1>2, <2>1 DEF Restored
  <2>2. CASE entries[i].action # "created"
    <3>1. entries[i].backup \in DOMAIN backups /\ entries[i].backup # b
      BY <1>7, <2>2 DEF EntryType
    <3>2. backups'[entries[i].backup] = backups[entries[i].backup]
      BY <1>2, <1>t, <3>1
    <3> QED
      BY <1>2, <2>2, <3>2 DEF Restored
  <2> QED
    BY <2>1, <2>2
<1>9. LoggedIsPrefix' /\ EntriesInOrder'
  BY <1>2 DEF LoggedIsPrefix, EntriesInOrder
<1>10. BackupsNumbered'
  BY <1>2, <1>6 DEF BackupsNumbered
<1>11. HookBackup'
  <2>1. hook'.existed => b \in DOMAIN backups' /\ backups'[b] = workspace[f]
    BY <1>2, <1>h
  <2>2. ~ hook'.existed => workspace[f] = NoFile
    BY <1>h DEF Exists
  <2> QED
    BY <1>1, <1>2, <1>h, <2>1, <2>2 DEF HookBackup
<1>12. HookIsNewest'
  BY <1>h DEF HookIsNewest
<1>13. ChangesLogged'
  <2>1. 1 .. Len(logged) \subseteq 1 .. Len(entries)
    BY DEF LoggedIsPrefix, RollbackTypeOK
  <2> QED
    BY <1>2, <1>8, <2>1 DEF ChangesLogged
<1>14. ASSUME ~ disturbed, NoEntryBelow(Len(entries), f)
       PROVE  workspace[f] = Original[f]
  <2>1. NoEntryBelow(Len(logged), f)
    BY <1>14 DEF NoEntryBelow, LoggedIsPrefix, RollbackTypeOK
  <2>2. hook.pc # "succeeded"
    BY <1>2 DEF NoHook
  <2> QED
    BY <1>14, <2>1, <2>2 DEF UnloggedUntouched
<1>15. OldestHasOriginal'
  <2>1. ASSUME ~ disturbed', NEW i \in 1 .. Len(entries'), NoEntryBelow(i - 1, entries[i].file)'
        PROVE  Restored(entries[i])' = Original[entries'[i].file]
    <3>1. NoEntryBelow(i - 1, entries[i].file)
      BY <1>2, <2>1 DEF NoEntryBelow
    <3> QED
      BY <1>2, <1>8, <2>1, <3>1 DEF OldestHasOriginal
  <2>2. ASSUME ~ disturbed', NoEntryBelow(Len(entries), hook.file)'
        PROVE  hook'.before = Original[hook'.file]
    <3>1. NoEntryBelow(Len(entries), f)
      BY <1>2, <1>h, <2>2 DEF NoEntryBelow
    <3> QED
      BY <1>2, <1>h, <1>14, <2>2, <3>1
  <2> QED
    BY <2>1, <2>2 DEF OldestHasOriginal
<1>16. UnloggedUntouched'
  <2>1. hook.pc # "succeeded"
    BY <1>2 DEF NoHook
  <2>2. SUFFICES ASSUME ~ disturbed', NEW g \in Files, NoEntryBelow(Len(logged), g)'
                 PROVE  workspace'[g] = Original[g]
    BY DEF UnloggedUntouched
  <2>3. NoEntryBelow(Len(logged), g)
    BY <1>2, <2>2 DEF NoEntryBelow
  <2> QED
    BY <1>2, <2>1, <2>2, <2>3 DEF UnloggedUntouched
<1> QED
  BY <1>5, <1>9, <1>10, <1>11, <1>12, <1>13, <1>15, <1>16

LEMMA EntryFacts ==
  ASSUME UndoInv, NEW i \in 1 .. Len(entries)
  PROVE  /\ entries[i] \in EntryType
         /\ Restored(entries[i]) \in Nat
<1>1. entries[i] \in EntryType
  BY DEF UndoInv, RollbackTypeOK
<1>2. CASE entries[i].action = "created"
  BY <1>1, <1>2 DEF Restored, NoFile
<1>3. CASE entries[i].action = "modified"
  <2>1. entries[i].backup \in DOMAIN backups
    BY <1>3 DEF UndoInv, BackupsNumbered
  <2> QED
    BY <1>1, <1>3, <2>1 DEF Restored, UndoInv, RollbackTypeOK
<1> QED
  BY <1>1, <1>2, <1>3 DEF EntryType

(* The tool has written: the new content is newer than every entry. *)
LEMMA ToolWritesStep ==
  ASSUME UndoInv, ToolWrites
  PROVE  UndoInv'
<1> USE DEF UndoInv
<1>1. HookPending /\ hook \in HookType /\ hook.pc = "running"
  BY HookStates DEF ToolWrites
<1>2. /\ HookPending' /\ hook' \in HookType /\ hook'.pc = "succeeded"
      /\ hook'.file = hook.file /\ hook'.backup = hook.backup
      /\ hook'.before = hook.before /\ hook'.existed = hook.existed
  BY <1>1 DEF ToolWrites, HookType, HookPending, NoHook, Logging, NoManager
<1>3. /\ written' = written + 1 /\ written \in Nat /\ hook.file \in Files
      /\ workspace' = [workspace EXCEPT ![hook.file] = written + 3]
      /\ UNCHANGED <<backups, logged, torn, entries, changes, disturbed>>
  <2>1. written' = written + 1 /\ written \in Nat /\ 2 + written' = written + 3
    BY DEF ToolWrites, RollbackTypeOK
  <2> QED
    BY <1>1, <2>1 DEF ToolWrites, Write, NewContent, HookType
<1>4. RollbackTypeOK'
  BY <1>2, <1>3 DEF RollbackTypeOK
<1>5. LoggedIsPrefix' /\ BackupsNumbered'
  BY <1>3 DEF LoggedIsPrefix, BackupsNumbered
<1>6. ASSUME NEW i \in 1 .. Len(entries)
      PROVE  entries[i].at \in Nat /\ entries[i].at <= written + 2
  BY EntryFacts DEF EntryType, EntriesInOrder
<1>7. EntriesInOrder'
  <2>1. \A i \in 1 .. Len(entries) : entries[i].at <= written' + 2
    BY <1>3, <1>6
  <2>2. \A i, j \in 1 .. Len(entries) : i < j => entries[i].at < entries[j].at
    BY DEF EntriesInOrder
  <2> QED
    BY <1>3, <2>1, <2>2 DEF EntriesInOrder
<1>8. HookBackup'
  BY <1>1, <1>2, <1>3 DEF HookBackup
<1>9. HookIsNewest'
  <2>1. workspace'[hook'.file] = written + 3
    BY <1>2, <1>3 DEF RollbackTypeOK
  <2> QED
    BY <1>3, <1>6, <2>1 DEF HookIsNewest
<1>10. ChangesLogged'
  BY <1>3 DEF ChangesLogged, Restored
<1>11. OldestHasOriginal'
  BY <1>1, <1>2, <1>3 DEF OldestHasOriginal, NoEntryBelow, Restored
<1>12. UnloggedUntouched'
  BY <1>1, <1>2, <1>3 DEF UnloggedUntouched, NoEntryBelow, RollbackTypeOK
<1> QED
  BY <1>4, <1>5, <1>7, <1>8, <1>9, <1>10, <1>11, <1>12

LEMMA ToolFailsStep ==
  ASSUME UndoInv, ToolFails
  PROVE  UndoInv'
<1> USE DEF UndoInv
<1>1. HookPending /\ hook \in HookType /\ hook.pc = "running"
  BY HookStates DEF ToolFails
<1>2. /\ hook' = NoHook /\ hook'.pc = "idle" /\ ~ HookPending'
      /\ UNCHANGED <<backups, logged, torn, entries, written, changes>>
  BY DEF ToolFails, NoHook, HookPending
<1>3. workspace' \in [Files -> Nat]
  BY <1>1 DEF ToolFails, Write, Partial, RollbackTypeOK
<1>4. disturbed' \/ (~ disturbed' /\ UNCHANGED <<workspace, disturbed>>)
  BY DEF ToolFails
<1>5. RollbackTypeOK'
  BY <1>2, <1>3 DEF RollbackTypeOK
<1>6. LoggedIsPrefix' /\ BackupsNumbered' /\ EntriesInOrder' /\ HookBackup' /\ HookIsNewest'
  BY <1>2 DEF LoggedIsPrefix, BackupsNumbered, EntriesInOrder, HookBackup, HookIsNewest
<1>7. ChangesLogged'
  BY <1>2 DEF ChangesLogged, Restored
<1>8. OldestHasOriginal'
  BY <1>2, <1>4 DEF OldestHasOriginal, NoEntryBelow, Restored
<1>9. UnloggedUntouched'
  BY <1>1, <1>2, <1>4 DEF UnloggedUntouched, NoEntryBelow
<1> QED
  BY <1>5, <1>6, <1>7, <1>8, <1>9

(* The user writes a file, during a tool call or between two. *)
LEMMA UserEditsStep ==
  ASSUME UndoInv, NEW f \in Files, UserEdits(f)
  PROVE  UndoInv'
<1> USE DEF UndoInv
<1>1. /\ written' = written + 1 /\ written \in Nat /\ disturbed'
      /\ workspace' = [workspace EXCEPT ![f] = written + 3]
      /\ UNCHANGED <<backups, logged, torn, entries, hook, changes>>
  <2>1. written' = written + 1 /\ written \in Nat /\ 2 + written' = written + 3
    BY DEF UserEdits, RollbackTypeOK
  <2> QED
    BY <2>1 DEF UserEdits, Write, NewContent
<1>2. RollbackTypeOK'
  BY <1>1 DEF RollbackTypeOK
<1>3. LoggedIsPrefix' /\ BackupsNumbered' /\ HookBackup'
  BY <1>1 DEF LoggedIsPrefix, BackupsNumbered, HookBackup, HookPending
<1>4. ASSUME NEW i \in 1 .. Len(entries)
      PROVE  entries[i].at \in Nat /\ entries[i].at <= written + 2
  BY EntryFacts DEF EntryType, EntriesInOrder
<1>5. EntriesInOrder'
  BY <1>1, <1>4 DEF EntriesInOrder
<1>6. HookIsNewest'
  <2>1. SUFFICES ASSUME hook.pc = "succeeded"
                 PROVE  /\ workspace'[hook.file] <= written' + 2
                        /\ \A i \in 1 .. Len(entries) : entries[i].at < workspace'[hook.file]
    BY <1>1 DEF HookIsNewest
  <2>2. hook.file \in Files
    BY <2>1, HookStates DEF HookType
  <2>3. CASE hook.file = f
    <3>1. workspace'[hook.file] = written + 3
      BY <1>1, <2>2, <2>3 DEF RollbackTypeOK
    <3> QED
      BY <1>1, <1>4, <3>1
  <2>4. CASE hook.file # f
    <3>1. workspace'[hook.file] = workspace[hook.file] /\ workspace[hook.file] \in Nat
      BY <1>1, <2>2, <2>4 DEF RollbackTypeOK
    <3>2. /\ workspace[hook.file] <= written + 2
          /\ \A i \in 1 .. Len(entries) : entries[i].at < workspace[hook.file]
      BY <2>1 DEF HookIsNewest
    <3> QED
      BY <1>1, <3>1, <3>2
  <2> QED
    BY <2>3, <2>4
<1>7. ChangesLogged'
  BY <1>1 DEF ChangesLogged, Restored
<1>8. OldestHasOriginal' /\ UnloggedUntouched'
  BY <1>1 DEF OldestHasOriginal, UnloggedUntouched
<1> QED
  BY <1>2, <1>3, <1>5, <1>6, <1>7, <1>8

(* The new entry restores what was there before its change; what an undo   *)
(* took from the log since comes back with it.                             *)
LEMMA PostActionStep ==
  ASSUME UndoInv, PostAction
  PROVE  UndoInv'
<1> USE DEF UndoInv
<1> DEFINE e == Entry
           n == Len(entries)
<1>1. HookPending /\ hook \in HookType /\ hook.pc = "succeeded"
  BY HookStates DEF PostAction
<1>2. /\ hook' = Logging /\ hook'.pc = "logging" /\ ~ HookPending' /\ torn' = TRUE
      /\ entries' = Append(entries, e) /\ logged' = entries'
      /\ changes' = changes \cup {[at |-> e.at, file |-> hook.file, before |-> hook.before]}
      /\ UNCHANGED <<workspace, backups, written, disturbed>>
  BY DEF PostAction, RewriteLog, Logging, HookPending
<1>3. /\ e \in EntryType /\ e.file = hook.file /\ e.backup = hook.backup
      /\ e.at = workspace[hook.file]
      /\ e.action = IF hook.existed THEN "modified" ELSE "created"
  BY <1>1 DEF Entry, EntryType, HookType, RollbackTypeOK
<1>4. n \in Nat /\ hook.file \in Files /\ e.at \in Nat /\ written \in Nat
  BY <1>1, <1>3 DEF RollbackTypeOK, HookType, EntryType
<1>b. /\ hook.backup = <<n + 1, hook.file>>
      /\ hook.existed => hook.backup \in DOMAIN backups /\ backups[hook.backup] = hook.before
      /\ ~ hook.existed => hook.before = NoFile
  BY <1>1 DEF HookBackup
<1>5. Restored(e) = hook.before
  BY <1>3, <1>b DEF Restored
<1> HIDE DEF e
<1>6. /\ entries' \in Seq(EntryType) /\ Len(entries') = n + 1 /\ entries'[n + 1] = e
      /\ \A i \in 1 .. n : entries'[i] = entries[i]
  BY <1>2, <1>3 DEF RollbackTypeOK
<1> HIDE DEF n
<1>n. n = Len(entries)
  BY DEF n
<1>7. RollbackTypeOK'
  <2>1. [at |-> e.at, file |-> hook.file, before |-> hook.before] \in ChangeType
    BY <1>1, <1>4 DEF ChangeType, HookType
  <2> QED
    BY <1>2, <1>6, <2>1 DEF RollbackTypeOK
<1>8. LoggedIsPrefix'
  BY <1>2, <1>4, <1>6 DEF LoggedIsPrefix
<1>9. BackupsNumbered'
  <2>1. e.backup = <<n + 1, e.file>> /\ (e.action = "modified" => e.backup \in DOMAIN backups)
    BY <1>3, <1>b
  <2>2. SUFFICES ASSUME NEW i \in 1 .. n + 1
                 PROVE  /\ entries'[i].backup = <<i, entries'[i].file>>
                        /\ entries'[i].action = "modified" => entries'[i].backup \in DOMAIN backups
    BY <1>2, <1>6 DEF BackupsNumbered
  <2>3. CASE i = n + 1
    BY <1>6, <2>1, <2>3
  <2>4. CASE i \in 1 .. n
    BY <1>6, <1>n, <2>4 DEF BackupsNumbered
  <2> QED
    BY <1>4, <2>3, <2>4
<1>10. /\ e.at <= written + 2
       /\ \A i \in 1 .. n : entries[i].at \in Nat /\ entries[i].at < e.at
  BY <1>1, <1>3, <1>n, EntryFacts DEF HookIsNewest, EntryType
<1>11. EntriesInOrder'
  <2>1. ASSUME NEW i \in 1 .. n + 1 PROVE entries'[i].at <= written + 2
    <3>1. CASE i = n + 1
      BY <1>6, <1>10, <3>1
    <3>2. CASE i \in 1 .. n
      BY <1>6, <1>n, <3>2 DEF EntriesInOrder
    <3> QED
      BY <1>4, <3>1, <3>2
  <2>2. ASSUME NEW i \in 1 .. n + 1, NEW j \in 1 .. n + 1, i < j
        PROVE  entries'[i].at < entries'[j].at
    <3>1. i \in 1 .. n /\ entries'[i] = entries[i]
      BY <1>4, <1>6, <2>2
    <3>2. CASE j = n + 1
      BY <1>6, <1>10, <3>1, <3>2
    <3>3. CASE j \in 1 .. n
      BY <1>6, <1>n, <2>2, <3>1, <3>3 DEF EntriesInOrder
    <3> QED
      BY <1>4, <3>2, <3>3
  <2> QED
    BY <1>2, <1>6, <2>1, <2>2 DEF EntriesInOrder
<1>12. HookBackup' /\ HookIsNewest'
  BY <1>2 DEF HookBackup, HookIsNewest
<1>13. ASSUME NEW x PROVE Restored(x)' = Restored(x)
  BY <1>2 DEF Restored
<1>14. ChangesLogged'
  <2>1. ASSUME NEW c \in changes
        PROVE  \E i \in 1 .. n + 1 : /\ entries'[i].at = c.at /\ entries'[i].file = c.file
                                     /\ Restored(entries'[i]) = c.before
    <3>1. PICK i \in 1 .. Len(logged) :
            entries[i].at = c.at /\ entries[i].file = c.file /\ Restored(entries[i]) = c.before
      BY <2>1 DEF ChangesLogged
    <3>2. i \in 1 .. n /\ i \in 1 .. n + 1
      BY <1>4, <1>n DEF LoggedIsPrefix, RollbackTypeOK
    <3>3. entries'[i] = entries[i]
      BY <1>6, <3>2
    <3> QED
      BY <3>1, <3>2, <3>3
  <2>2. ASSUME NEW c \in changes' \ changes
        PROVE  \E i \in 1 .. n + 1 : /\ entries'[i].at = c.at /\ entries'[i].file = c.file
                                     /\ Restored(entries'[i]) = c.before
    <3>1. c.at = e.at /\ c.file = e.file /\ c.before = hook.before
      BY <1>2, <1>3, <2>2
    <3>2. n + 1 \in 1 .. n + 1
      BY <1>4
    <3> QED
      BY <1>5, <1>6, <3>1, <3>2
  <2>3. Len(logged') = n + 1
    BY <1>2, <1>6
  <2>4. \A c \in changes' :
          \E i \in 1 .. n + 1 : /\ entries'[i].at = c.at /\ entries'[i].file = c.file
                                /\ Restored(entries'[i]) = c.before
    BY <2>1, <2>2
  <2> QED
    BY <1>2, <2>3, <2>4 DEF ChangesLogged, Restored
<1>15. OldestHasOriginal'
  <2>1. SUFFICES ASSUME ~ disturbed, NEW i \in 1 .. n + 1,
                        \A j \in 1 .. i - 1 : entries'[j].file # entries'[i].file
                 PROVE  Restored(entries'[i]) = Original[entries'[i].file]
    BY <1>2, <1>6, <1>13 DEF OldestHasOriginal, NoEntryBelow, Restored
  <2>2. CASE i \in 1 .. n
    <3>1. entries'[i] = entries[i] /\ \A j \in 1 .. i - 1 : entries'[j] = entries[j]
      BY <1>4, <1>6, <2>2
    <3>2. NoEntryBelow(i - 1, entries[i].file)
      BY <2>1, <3>1 DEF NoEntryBelow
    <3> QED
      BY <1>n, <2>1, <2>2, <3>1, <3>2 DEF OldestHasOriginal
  <2>3. CASE i = n + 1
    <3>1. \A j \in 1 .. n : entries[j].file # hook.file
      BY <1>3, <1>4, <1>6, <2>1, <2>3
    <3>2. hook.before = Original[hook.file]
      BY <1>1, <1>n, <2>1, <3>1 DEF OldestHasOriginal, NoEntryBelow
    <3> QED
      BY <1>3, <1>5, <1>6, <2>3, <3>2
  <2> QED
    BY <1>4, <2>2, <2>3
<1>16. UnloggedUntouched'
  <2>1. SUFFICES ASSUME ~ disturbed, NEW f \in Files, \A j \in 1 .. n + 1 : entries'[j].file # f
                 PROVE  workspace[f] = Original[f]
    BY <1>2, <1>6 DEF UnloggedUntouched, NoEntryBelow
  <2>2. f # hook.file
    BY <1>3, <1>4, <1>6, <2>1
  <2>3. NoEntryBelow(Len(logged), f)
    BY <1>4, <1>6, <1>n, <2>1 DEF NoEntryBelow, LoggedIsPrefix, RollbackTypeOK
  <2> QED
    BY <2>1, <2>2, <2>3 DEF UnloggedUntouched
<1> QED
  BY <1>7, <1>8, <1>9, <1>11, <1>12, <1>14, <1>15, <1>16

(* A new manager knows the entries on disk, in the same places. *)
LEMMA LogReadStep ==
  ASSUME UndoInv, hook' = NoHook, entries' = logged,
         UNCHANGED <<workspace, backups, logged, torn, written, changes>>,
         disturbed' \/ (~ disturbed /\ hook.pc # "succeeded")
  PROVE  UndoInv'
<1> USE DEF UndoInv
<1>1. hook'.pc = "idle" /\ ~ HookPending'
  BY DEF NoHook, HookPending
<1>2. Len(logged) \in Nat /\ Len(logged) <= Len(entries) /\ Len(entries) \in Nat
  BY DEF LoggedIsPrefix, RollbackTypeOK
<1>3. \A i \in 1 .. Len(logged) : i \in 1 .. Len(entries) /\ entries'[i] = entries[i]
  BY <1>2 DEF LoggedIsPrefix
<1>4. RollbackTypeOK' /\ LoggedIsPrefix'
  BY <1>2 DEF RollbackTypeOK, LoggedIsPrefix
<1>5. BackupsNumbered'
  BY <1>3 DEF BackupsNumbered
<1>6. EntriesInOrder'
  BY <1>3 DEF EntriesInOrder
<1>7. HookBackup' /\ HookIsNewest'
  BY <1>1 DEF HookBackup, HookIsNewest
<1>8. ChangesLogged'
  BY <1>3 DEF ChangesLogged, Restored
<1>9. ASSUME NEW f, NEW k \in 0 .. Len(logged), NoEntryBelow(k, f)'
      PROVE  NoEntryBelow(k, f)
  <2>1. \A j \in 1 .. k : j \in 1 .. Len(logged)
    BY <1>2
  <2> QED
    BY <1>3, <1>9, <2>1 DEF NoEntryBelow
<1>10. OldestHasOriginal'
  <2>1. SUFFICES ASSUME ~ disturbed, NEW i \in 1 .. Len(logged),
                        NoEntryBelow(i - 1, entries[i].file)'
                 PROVE  Restored(entries[i])' = Original[entries'[i].file]
    BY <1>1 DEF OldestHasOriginal
  <2>2. i - 1 \in 0 .. Len(logged) /\ i \in 1 .. Len(entries) /\ entries'[i] = entries[i]
    BY <1>2, <1>3
  <2>3. NoEntryBelow(i - 1, entries[i].file)
    <3>1. \A j \in 1 .. i - 1 : j \in 1 .. Len(logged)
      BY <1>2
    <3> QED
      BY <1>3, <2>1, <2>2, <3>1 DEF NoEntryBelow
  <2> QED
    BY <2>1, <2>2, <2>3 DEF OldestHasOriginal, Restored
<1>11. UnloggedUntouched'
  <2>1. SUFFICES ASSUME ~ disturbed', NEW f \in Files, NoEntryBelow(Len(logged), f)'
                 PROVE  workspace'[f] = Original[f]
    BY DEF UnloggedUntouched
  <2>2. NoEntryBelow(Len(logged), f)
    BY <1>3, <2>1 DEF NoEntryBelow
  <2> QED
    BY <2>1, <2>2 DEF UnloggedUntouched
<1> QED
  BY <1>4, <1>5, <1>6, <1>7, <1>8, <1>10, <1>11

(* Nothing changes but the log's state and where the hook is. *)
LEMMA RestStep ==
  ASSUME UndoInv, hook' \in {NoHook, NoManager}, torn' \in BOOLEAN,
         UNCHANGED <<workspace, backups, logged, entries, written, changes>>,
         disturbed' \/ (~ disturbed /\ hook.pc # "succeeded")
  PROVE  UndoInv'
<1>1. ~ HookPending' /\ hook'.pc \in {"idle", "no_manager"}
  BY DEF HookPending, NoHook, NoManager
<1> QED
  BY <1>1 DEF UndoInv, RollbackTypeOK, LoggedIsPrefix, BackupsNumbered, EntriesInOrder,
     HookBackup, HookIsNewest, ChangesLogged, OldestHasOriginal, UnloggedUntouched,
     NoEntryBelow, Restored

(* The undone entries go, newest first; the oldest that went of a file     *)
(* says what the file holds now.                                           *)
LEMMA LogCutStep ==
  ASSUME UndoInv, NEW m \in 0 .. Len(logged),
         hook = NoHook, hook' = Logging, torn' = TRUE,
         UNCHANGED <<backups, entries, written, disturbed>>,
         logged' = SubSeq(logged, 1, m),
         changes' = {c \in changes : \A i \in m + 1 .. Len(logged) : logged[i].at # c.at},
         DOMAIN workspace' = Files, workspace' = [f \in Files |-> workspace'[f]],
         \A f \in Files :
            \/ /\ workspace'[f] = workspace[f]
               /\ \A i \in m + 1 .. Len(logged) : logged[i].file # f
            \/ \E i \in m + 1 .. Len(logged) :
                  /\ logged[i].file = f /\ workspace'[f] = Restored(logged[i])
                  /\ \A j \in m + 1 .. i - 1 : logged[j].file # f
  PROVE  UndoInv'
<1> USE DEF UndoInv
<1>1. hook.pc = "idle" /\ hook'.pc = "logging" /\ ~ HookPending'
  BY DEF NoHook, Logging, HookPending
<1>2. Len(logged) \in Nat /\ Len(logged) <= Len(entries) /\ Len(entries) \in Nat /\ m \in Nat
  BY DEF LoggedIsPrefix, RollbackTypeOK
<1>3. /\ logged' \in Seq(EntryType) /\ Len(logged') = m
      /\ \A i \in 1 .. m : logged'[i] = logged[i]
  BY <1>2 DEF RollbackTypeOK
<1>4. \A i \in 1 .. Len(logged) : i \in 1 .. Len(entries) /\ logged[i] = entries[i]
  BY <1>2 DEF LoggedIsPrefix
<1>5. ASSUME NEW f \in Files PROVE workspace'[f] \in Nat
  <2>1. ASSUME NEW i \in m + 1 .. Len(logged) PROVE Restored(logged[i]) \in Nat
    <3>1. i \in 1 .. Len(logged)
      BY <1>2
    <3> QED
      BY <1>4, <3>1, EntryFacts
  <2>2. workspace[f] \in Nat
    BY DEF RollbackTypeOK
  <2> QED
    BY <2>1, <2>2
<1>6. RollbackTypeOK'
  <2>1. workspace' \in [Files -> Nat]
    BY <1>5
  <2>2. changes' \subseteq changes
    OBVIOUS
  <2> QED
    BY <1>3, <2>1, <2>2 DEF RollbackTypeOK
<1>7. LoggedIsPrefix'
  BY <1>2, <1>3, <1>4 DEF LoggedIsPrefix
<1>8. BackupsNumbered' /\ EntriesInOrder' /\ HookBackup' /\ HookIsNewest'
  BY <1>1 DEF BackupsNumbered, EntriesInOrder, HookBackup, HookIsNewest
<1>9. ChangesLogged'
  <2>1. SUFFICES ASSUME NEW c \in changes'
                 PROVE  \E i \in 1 .. m : /\ entries[i].at = c.at /\ entries[i].file = c.file
                                          /\ Restored(entries[i]) = c.before
    BY <1>3 DEF ChangesLogged, Restored
  <2>2. PICK i \in 1 .. Len(logged) :
          entries[i].at = c.at /\ entries[i].file = c.file /\ Restored(entries[i]) = c.before
    BY <2>1 DEF ChangesLogged
  <2>3. ~ (i \in m + 1 .. Len(logged))
    BY <1>4, <2>1, <2>2
  <2>4. i \in 1 .. m
    BY <1>2, <2>2, <2>3
  <2> QED
    BY <2>2, <2>4
<1>10. OldestHasOriginal'
  BY <1>1 DEF OldestHasOriginal, NoEntryBelow, Restored
<1>11. UnloggedUntouched'
  <2>1. SUFFICES ASSUME ~ disturbed, NEW f \in Files, \A j \in 1 .. m : entries[j].file # f
                 PROVE  workspace'[f] = Original[f]
    BY <1>3 DEF UnloggedUntouched, NoEntryBelow
  <2>2. CASE \A i \in m + 1 .. Len(logged) : logged[i].file # f
    <3>1. workspace'[f] = workspace[f]
      BY <2>2
    <3>2. \A j \in 1 .. Len(logged) : j \in 1 .. m \/ j \in m + 1 .. Len(logged)
      BY <1>2
    <3>3. NoEntryBelow(Len(logged), f)
      BY <1>4, <2>1, <2>2, <3>2 DEF NoEntryBelow
    <3> QED
      BY <1>1, <2>1, <3>1, <3>3 DEF UnloggedUntouched
  <2>3. CASE ~ \A i \in m + 1 .. Len(logged) : logged[i].file # f
    <3>1. PICK i \in m + 1 .. Len(logged) :
             /\ logged[i].file = f /\ workspace'[f] = Restored(logged[i])
             /\ \A j \in m + 1 .. i - 1 : logged[j].file # f
      BY <2>3
    <3>2. i \in 1 .. Len(logged) /\ i \in 1 .. Len(entries) /\ entries[i] = logged[i]
      BY <1>2, <1>4, <3>1
    <3>3. \A j \in 1 .. i - 1 : j \in 1 .. m \/ (j \in m + 1 .. i - 1 /\ j \in 1 .. Len(logged))
      BY <1>2, <3>1
    <3>4. NoEntryBelow(i - 1, f)
      BY <1>4, <2>1, <3>1, <3>3 DEF NoEntryBelow
    <3> QED
      BY <2>1, <3>1, <3>2, <3>4 DEF OldestHasOriginal
  <2> QED
    BY <2>2, <2>3
<1> QED
  BY <1>6, <1>7, <1>8, <1>9, <1>10, <1>11

LEMMA UndoLastStep ==
  ASSUME UndoInv, UndoLast
  PROVE  UndoInv'
<1> USE DEF UndoInv
<1> DEFINE n == Len(logged)
           m == n - 1
<1>1. /\ hook = NoHook /\ logged # <<>>
      /\ hook' = Logging /\ torn' = TRUE
      /\ UNCHANGED <<backups, entries, written, disturbed>>
      /\ workspace' = [workspace EXCEPT ![logged[n].file] = Restored(logged[n])]
      /\ logged' = SubSeq(logged, 1, m)
      /\ changes' = {c \in changes : c.at # logged[n].at}
  BY DEF UndoLast, CanUndo, RewriteLog, Write, Last, Front
<1>2. n \in Nat /\ n > 0 /\ logged \in Seq(EntryType)
  BY <1>1 DEF RollbackTypeOK
<1>3. m \in 0 .. n /\ m + 1 = n /\ n \in 1 .. n
  BY <1>2
<1>4. logged[n].file \in Files
  <2>1. logged[n] \in EntryType
    BY <1>2, <1>3
  <2> QED
    BY <2>1 DEF EntryType
<1> HIDE DEF m
<1>5. m + 1 .. n = {n} /\ m + 1 .. n - 1 = {}
  BY <1>2, <1>3
<1>6. changes' = {c \in changes : \A i \in m + 1 .. n : logged[i].at # c.at}
  BY <1>1, <1>5
<1>7. workspace' = [f \in Files |-> workspace'[f]] /\ DOMAIN workspace' = Files
  BY <1>1 DEF RollbackTypeOK
<1>8. \A f \in Files :
        \/ workspace'[f] = workspace[f] /\ \A i \in m + 1 .. n : logged[i].file # f
        \/ \E i \in m + 1 .. n : /\ logged[i].file = f /\ workspace'[f] = Restored(logged[i])
                                 /\ \A j \in m + 1 .. i - 1 : logged[j].file # f
  <2>1. SUFFICES ASSUME NEW f \in Files
                 PROVE  \/ workspace'[f] = workspace[f] /\ logged[n].file # f
                        \/ logged[n].file = f /\ workspace'[f] = Restored(logged[n])
    BY <1>5
  <2> QED
    BY <1>1, <1>4 DEF RollbackTypeOK
<1> HIDE DEF UndoInv
<1> QED
  BY <1>1, <1>3, <1>6, <1>7, <1>8, LogCutStep

\* A nonempty set of numbers has a least element.
LEMMA OldestExists ==
  ASSUME NEW log, log \in Seq(EntryType), NEW f, NEW k \in 1 .. Len(log), log[k].file = f
  PROVE  LET i == Oldest(log, f)
         IN  i \in 1 .. Len(log) /\ log[i].file = f /\ \A j \in 1 .. i - 1 : log[j].file # f
<1> DEFINE S == {i \in 1 .. Len(log) : log[i].file = f}
           R == OpToRel(<, Nat)
<1>1. S \subseteq Nat /\ k \in S
  OBVIOUS
<1>2. IsWellFoundedOn(R, Nat)
  BY NatLessThanWellFounded
<1>3. \A x, y \in Nat : y < x => <<y, x>> \in R
  BY DEF OpToRel
<1> HIDE DEF R, S
<1>4. PICK i \in S : \A j \in S : ~ (<<j, i>> \in R)
  BY <1>1, <1>2, WFMin
<1>5. \A j \in S : ~ (j < i)
  BY <1>1, <1>3, <1>4
<1> USE DEF S
<1>6. i \in DOMAIN log /\ log[i].file = f /\ DOMAIN log = 1 .. Len(log)
  BY <1>4
<1>7. \A j \in 1 .. i - 1 : log[j].file # f
  <2>1. \A j \in 1 .. i - 1 : j \in 1 .. Len(log) /\ j < i
    BY <1>4
  <2> QED
    BY <1>5, <2>1
<1> HIDE DEF S
<1> QED
  BY <1>6, <1>7 DEF Oldest

LEMMA UndoAllStep ==
  ASSUME UndoInv, UndoAll
  PROVE  UndoInv'
<1> USE DEF UndoInv
<1> DEFINE n == Len(logged)
<1>1. PICK m \in 0 .. n - 1 :
        LET taken == SubSeq(logged, m + 1, n)
        IN  /\ workspace' = RestoreAll(taken)
            /\ logged' = SubSeq(logged, 1, m)
            /\ changes' = {c \in changes : \A i \in 1 .. Len(taken) : taken[i].at # c.at}
  BY DEF UndoAll, RewriteLog
<1> DEFINE taken == SubSeq(logged, m + 1, n)
<1>2. /\ hook = NoHook /\ hook' = Logging /\ torn' = TRUE
      /\ UNCHANGED <<backups, entries, written, disturbed>>
  BY DEF UndoAll, CanUndo, RewriteLog
<1>3. n \in Nat /\ m \in Nat /\ m < n /\ logged \in Seq(EntryType)
  BY DEF RollbackTypeOK
<1>4. /\ taken \in Seq(EntryType) /\ Len(taken) = n - m
      /\ \A i \in 1 .. n - m : taken[i] = logged[m + i]
  BY <1>3
<1>5. /\ workspace' = RestoreAll(taken) /\ logged' = SubSeq(logged, 1, m)
      /\ changes' = {c \in changes : \A i \in 1 .. Len(taken) : taken[i].at # c.at}
  BY <1>1
<1> HIDE DEF taken
<1>6. \A i \in m + 1 .. n : i - m \in 1 .. n - m /\ taken[i - m] = logged[i]
  BY <1>3, <1>4
<1>7. \A i \in 1 .. n - m : m + i \in m + 1 .. n
  BY <1>3
<1>8. changes' = {c \in changes : \A i \in m + 1 .. n : logged[i].at # c.at}
  <2>1. ASSUME NEW c
        PROVE  (\A i \in 1 .. Len(taken) : taken[i].at # c.at)
                  <=> (\A i \in m + 1 .. n : logged[i].at # c.at)
    BY <1>4, <1>6, <1>7
  <2> QED
    BY <1>5, <2>1
<1>9. /\ DOMAIN workspace' = Files /\ workspace' = [f \in Files |-> workspace'[f]]
  BY <1>5 DEF RestoreAll
<1>10. ASSUME NEW f \in Files
       PROVE  \/ /\ workspace'[f] = workspace[f]
                 /\ \A i \in m + 1 .. n : logged[i].file # f
              \/ \E i \in m + 1 .. n :
                    /\ logged[i].file = f /\ workspace'[f] = Restored(logged[i])
                    /\ \A j \in m + 1 .. i - 1 : logged[j].file # f
  <2>1. DOMAIN taken = 1 .. n - m
    BY <1>3, <1>4
  <2>2. CASE \E k \in DOMAIN taken : taken[k].file = f
    <3> DEFINE i == Oldest(taken, f)
    <3>1. i \in 1 .. n - m /\ taken[i].file = f /\ \A j \in 1 .. i - 1 : taken[j].file # f
      <4>1. PICK k \in 1 .. Len(taken) : taken[k].file = f
        BY <2>2, <1>4, <2>1
      <4>2. Len(taken) = n - m /\ taken \in Seq(EntryType)
        BY <1>4
      <4> QED
        BY <4>1, <4>2, OldestExists
    <3>2. workspace'[f] = Restored(taken[i])
      BY <1>5, <2>2 DEF RestoreAll
    <3> HIDE DEF i
    <3>3. m + i \in m + 1 .. n /\ taken[i] = logged[m + i]
      BY <1>4, <1>7, <3>1
    <3>4. ASSUME NEW j \in m + 1 .. (m + i) - 1 PROVE logged[j].file # f
      <4>1. j \in m + 1 .. n /\ j - m \in 1 .. i - 1
        BY <1>3, <3>1
      <4> QED
        BY <1>6, <3>1, <4>1
    <3> QED
      BY <3>1, <3>2, <3>3, <3>4
  <2>3. CASE ~ \E k \in DOMAIN taken : taken[k].file = f
    <3>1. workspace'[f] = workspace[f]
      BY <1>5, <2>3 DEF RestoreAll
    <3> QED
      BY <1>6, <2>1, <2>3, <3>1
  <2> QED
    BY <2>2, <2>3
<1>11. m \in 0 .. n
  BY <1>3
<1> HIDE DEF n
<1>12. n = Len(logged)
  BY DEF n
<1> HIDE DEF UndoInv
<1> QED
  BY <1>2, <1>5, <1>8, <1>9, <1>10, <1>11, <1>12, LogCutStep

(* A copy that fails spoils a file that has an entry in the log. *)
LEMMA UndoFailsStep ==
  ASSUME UndoInv, UndoFails
  PROVE  UndoInv'
<1> USE DEF UndoInv
<1> DEFINE n == Len(logged)
<1>1. /\ hook = NoHook /\ logged # <<>>
      /\ UNCHANGED <<backups, logged, torn, entries, hook, written, changes, disturbed>>
  BY DEF UndoFails, CanUndo
<1>2. n \in 1 .. n /\ n \in 1 .. Len(entries) /\ logged[n] = entries[n]
  BY <1>1 DEF RollbackTypeOK, LoggedIsPrefix
<1>3. logged[n] \in EntryType /\ Restored(logged[n]) \in Nat
  BY <1>2, EntryFacts
<1>4. PICK content \in {workspace[logged[n].file], Partial, Restored(logged[n])} :
        workspace' = [workspace EXCEPT ![logged[n].file] = content]
  BY DEF UndoFails, Write, Last
<1>5. logged[n].file \in Files /\ content \in Nat
  BY <1>3, <1>4 DEF EntryType, Partial, RollbackTypeOK
<1>6. ~ HookPending /\ ~ HookPending' /\ hook.pc = "idle"
  BY <1>1 DEF HookPending, NoHook
<1>7. RollbackTypeOK'
  BY <1>1, <1>4, <1>5 DEF RollbackTypeOK
<1>8. /\ LoggedIsPrefix' /\ BackupsNumbered' /\ EntriesInOrder' /\ HookBackup' /\ HookIsNewest'
      /\ ChangesLogged' /\ OldestHasOriginal'
  BY <1>1, <1>6 DEF LoggedIsPrefix, BackupsNumbered, EntriesInOrder, HookBackup, HookIsNewest,
     ChangesLogged, OldestHasOriginal, NoEntryBelow, Restored
<1>9. UnloggedUntouched'
  <2>1. SUFFICES ASSUME ~ disturbed, NEW f \in Files, NoEntryBelow(n, f)
                 PROVE  workspace'[f] = Original[f]
    BY <1>1 DEF UnloggedUntouched, NoEntryBelow
  <2>2. f # logged[n].file
    BY <1>2, <2>1 DEF NoEntryBelow
  <2>3. workspace'[f] = workspace[f]
    BY <1>4, <2>2 DEF RollbackTypeOK
  <2> QED
    BY <1>6, <2>1, <2>3 DEF UnloggedUntouched
<1> QED
  BY <1>7, <1>8, <1>9

LEMMA UndoInvStep ==
  ASSUME UndoInv, [RollbackNext]_rollbackVars
  PROVE  UndoInv'
<1>1. CASE \E f \in Files : PreAction(f) \/ UserEdits(f)
  BY <1>1, PreActionStep, UserEditsStep
<1>2. CASE ToolWrites \/ ToolFails \/ PostAction
  BY <1>2, ToolWritesStep, ToolFailsStep, PostActionStep
<1>3. CASE NewController
  <2>1. hook' = NoHook /\ hook.pc # "succeeded" /\ UNCHANGED disturbed
    BY <1>3 DEF NewController, NoHook
  <2>2. disturbed' \/ (~ disturbed /\ hook.pc # "succeeded")
    BY <2>1
  <2> QED
    BY <1>3, <2>1, <2>2, LogReadStep DEF NewController
<1>4. CASE Restart
  <2>1. disturbed' \/ (~ disturbed /\ hook.pc # "succeeded")
    BY <1>4 DEF Restart
  <2>2. CASE torn
    <3>1. /\ hook' = NoManager /\ torn' \in BOOLEAN
          /\ UNCHANGED <<workspace, backups, logged, entries, written, changes>>
      BY <1>4, <2>2 DEF Restart, UndoInv, RollbackTypeOK
    <3> QED
      BY <2>1, <3>1, RestStep
  <2>3. CASE ~ torn
    <3>1. /\ hook' = NoHook /\ entries' = logged
          /\ UNCHANGED <<workspace, backups, logged, torn, written, changes>>
      BY <1>4, <2>3 DEF Restart
    <3> QED
      BY <2>1, <3>1, LogReadStep
  <2> QED
    BY <2>2, <2>3
<1>5. CASE UndoLast \/ UndoAll \/ UndoFails
  BY <1>5, UndoLastStep, UndoAllStep, UndoFailsStep
<1>6. CASE LogWritten
  <2>1. hook.pc # "succeeded" /\ hook' = NoHook /\ torn' \in BOOLEAN
    BY <1>6 DEF LogWritten, Logging
  <2>2. UNCHANGED <<workspace, backups, logged, entries, written, changes, disturbed>>
    BY <1>6 DEF LogWritten
  <2>3. disturbed' \/ (~ disturbed /\ hook.pc # "succeeded")
    BY <2>1, <2>2
  <2> QED
    BY <2>1, <2>2, <2>3, RestStep
<1>7. CASE UNCHANGED rollbackVars
  BY <1>7 DEF rollbackVars, UndoInv, RollbackTypeOK, LoggedIsPrefix, BackupsNumbered, EntriesInOrder,
     HookBackup, HookIsNewest, HookPending, ChangesLogged, OldestHasOriginal, UnloggedUntouched,
     NoEntryBelow, Restored
<1> QED
  BY <1>1, <1>2, <1>3, <1>4, <1>5, <1>6, <1>7 DEF RollbackNext

LEMMA UndoInvHolds == RollbackSpec => []UndoInv
<1>1. UndoInv /\ [RollbackNext]_rollbackVars => UndoInv'
  BY UndoInvStep
<1> QED
  BY UndoInvInit, <1>1, PTL DEF RollbackSpec

(* Every change a tool made and nobody undid can be undone, unless the     *)
(* process ended with a log that does not parse: its entry is in the log,  *)
(* or with the agent's manager while the log is torn, in order, and the    *)
(* backup it names still has the content from before the change, for every *)
(* set of files and every number of changes, undos, failed copies and log  *)
(* writes, and crashes (safety/rollback.py, safety/layer.py).              *)
THEOREM ChangesUndoable == RollbackSpec => []EveryChangeUndoable
<1>1. UndoInv => EveryChangeUndoable
  <2> SUFFICES ASSUME UndoInv PROVE EveryChangeUndoable
    OBVIOUS
  <2>1. \A i \in 1 .. Len(logged) : i \in 1 .. Len(entries) /\ logged[i] = entries[i]
    BY DEF UndoInv, LoggedIsPrefix, RollbackTypeOK
  <2>2. CASE torn
    <3>1. \A c \in changes :
             \E i \in 1 .. Len(entries) :
                /\ entries[i].at = c.at /\ entries[i].file = c.file
                /\ Restored(entries[i]) = c.before
      BY <2>1 DEF UndoInv, ChangesLogged
    <3>2. \A i, j \in 1 .. Len(entries) : i < j => entries[i].at < entries[j].at
      BY DEF UndoInv, EntriesInOrder
    <3> QED
      BY <2>2, <3>1, <3>2 DEF EveryChangeUndoable
  <2>3. CASE ~ torn
    <3>1. \A c \in changes :
             \E i \in 1 .. Len(logged) :
                /\ logged[i].at = c.at /\ logged[i].file = c.file
                /\ Restored(logged[i]) = c.before
      BY <2>1 DEF UndoInv, ChangesLogged
    <3>2. \A i, j \in 1 .. Len(logged) : i < j => logged[i].at < logged[j].at
      BY <2>1 DEF UndoInv, EntriesInOrder
    <3> QED
      BY <2>3, <3>1, <3>2 DEF EveryChangeUndoable
  <2> QED
    BY <2>2, <2>3
<1> QED
  BY UndoInvHolds, <1>1, PTL

(* Undoing everything takes the workspace back to where the session found  *)
(* it, unless somebody else touched the files, whatever was undone, came   *)
(* back to the log or failed before (RollbackManager.undo_all).            *)
THEOREM UndoAllRestores == RollbackSpec => UndoAllRestoresWorkspace
<1>1. UndoInv /\ UndoInv' /\ [RollbackNext]_rollbackVars =>
         [UndoAll /\ logged' = <<>> /\ ~disturbed => workspace' = Original]_rollbackVars
  <2> SUFFICES ASSUME UndoInv', UndoAll, logged' = <<>>, ~ disturbed
               PROVE  workspace' = Original
    OBVIOUS
  <2>1. hook' = Logging /\ ~ disturbed' /\ Len(logged') = 0
    BY DEF UndoAll, CanUndo, RewriteLog
  <2>2. hook'.pc = "logging"
    BY <2>1 DEF Logging
  <2>3. \A f \in Files : workspace'[f] = Original[f]
    BY <2>1, <2>2 DEF UndoInv, UnloggedUntouched, NoEntryBelow
  <2>4. workspace' \in [Files -> Nat]
    BY DEF UndoInv, RollbackTypeOK
  <2> QED
    BY <2>3, <2>4 DEF Original
<1> QED
  BY UndoInvHolds, <1>1, PTL DEF RollbackSpec, UndoAllRestoresWorkspace
-----------------------------------------------------------------------------
(* McpStdio, for any number of threads and servers: every message that     *)
(* bears the number a call waits for comes from that call.                 *)

Methods == {"initialize", "initialized", "tools/list", "tools/call"}
Senders == Callers \cup {"server"}
Points == {"idle", "start", "spawn", "write", "read", "reading", "asking", "stderr", "joining",
           "returned", "asking http", "again"}
Results == {"none", "ok", "failed", "raised", "timed out"}
Answers == {NoAnswerTo} \cup (Senders \X Nat)
RequestType == [id : Nat, method : Methods, by : Senders]
LineType == [id : Nat, by : Senders,
             kind : {"result", "error", "elicitation", "notification", "rubbish"}]
ServerType == [alive : BOOLEAN, requests : Seq(RequestType), out : Seq(LineType)]
CallType == [pc : Points, todo : Seq(Methods), id : Nat, from : Nat, asked : Nat,
             result : Results, answers : Answers]

McpTypeOK ==
    /\ server \in Seq(ServerType)
    /\ process \in 0 .. Len(server)
    /\ requestId \in Nat
    /\ call \in [Callers -> CallType]

(* What a pipe holds, on its way to the server and back. *)
Items(s) == {s[i] : i \in 1 .. Len(s)}
MessagesIn(srv) == Items(srv.requests) \cup Items(srv.out)

(* The handshake is never the last message of a call. *)
MoreToSend(todo) == \A i \in 1 .. Len(todo) : todo[i] = "initialized" => i < Len(todo)

(* A call at work knows what to send; one that reads has a pipe to read;   *)
(* one that returned an answer has the one it asked for.                   *)
CallInv(c) ==
    /\ call[c].pc \in {"start", "spawn", "write", "read", "reading", "asking"} =>
           call[c].todo # <<>>
    /\ MoreToSend(call[c].todo)
    /\ call[c].pc \in {"reading", "joining"} => call[c].from \in 1 .. Len(server)
    /\ call[c].result = "ok" => call[c].pc = "returned" /\ call[c].answers = <<c, call[c].id>>

Waits(c) == call[c].pc \in {"read", "reading"}

(* The number a call waits for was given out, and every message that bears *)
(* it comes from this call.                                                *)
OwnAnswers(c) ==
    Waits(c) =>
        /\ call[c].id \in 1 .. requestId
        /\ \A p \in 1 .. Len(server) : \A m \in MessagesIn(server[p]) :
               m.id = call[c].id => m.by = c

NumbersGiven ==
    \A p \in 1 .. Len(server) : \A m \in MessagesIn(server[p]) : m.id <= requestId

McpInv ==
    /\ McpTypeOK /\ NumbersGiven
    /\ \A c \in Callers : CallInv(c) /\ OwnAnswers(c)

LEMMA ItemsOfTail ==
  ASSUME NEW S, NEW s \in Seq(S), s # <<>>
  PROVE  Tail(s) \in Seq(S) /\ Items(Tail(s)) \subseteq Items(s) /\ Head(s) \in Items(s)
<1>1. Len(s) \in Nat /\ Len(s) > 0 /\ 1 \in 1 .. Len(s)
  OBVIOUS
<1>2. /\ Tail(s) \in Seq(S) /\ Len(Tail(s)) = Len(s) - 1
      /\ \A i \in 1 .. Len(s) - 1 : Tail(s)[i] = s[i + 1]
  BY <1>1
<1>3. \A i \in 1 .. Len(s) - 1 : i + 1 \in 1 .. Len(s)
  BY <1>1
<1> QED
  BY <1>1, <1>2, <1>3 DEF Items

LEMMA ItemsOfAppend ==
  ASSUME NEW S, NEW s \in Seq(S), NEW x \in S
  PROVE  Append(s, x) \in Seq(S) /\ Items(Append(s, x)) \subseteq Items(s) \cup {x}
<1>1. /\ Append(s, x) \in Seq(S) /\ Len(Append(s, x)) = Len(s) + 1
      /\ \A i \in 1 .. Len(s) : Append(s, x)[i] = s[i]
      /\ Append(s, x)[Len(s) + 1] = x /\ Len(s) \in Nat
  OBVIOUS
<1>2. \A i \in 1 .. Len(s) + 1 : i \in 1 .. Len(s) \/ i = Len(s) + 1
  BY <1>1
<1> QED
  BY <1>1, <1>2 DEF Items

LEMMA NoItems == Items(<<>>) = {}
<1>1. Len(<<>>) = 0
  OBVIOUS
<1> QED
  BY <1>1 DEF Items

LEMMA MoreAfterFirst ==
  ASSUME NEW todo \in Seq(Methods), todo # <<>>, MoreToSend(todo)
  PROVE  /\ MoreToSend(Tail(todo)) /\ Tail(todo) \in Seq(Methods)
         /\ Head(todo) = "initialized" \/ Len(todo) > 1 => Tail(todo) # <<>>
<1>1. /\ Len(todo) \in Nat /\ Len(todo) > 0 /\ 1 \in 1 .. Len(todo) /\ Head(todo) = todo[1]
      /\ Tail(todo) \in Seq(Methods) /\ Len(Tail(todo)) = Len(todo) - 1
      /\ \A i \in 1 .. Len(todo) - 1 : Tail(todo)[i] = todo[i + 1]
  OBVIOUS
<1>2. MoreToSend(Tail(todo))
  <2>1. SUFFICES ASSUME NEW i \in 1 .. Len(todo) - 1, todo[i + 1] = "initialized"
                 PROVE  i < Len(todo) - 1
    BY <1>1 DEF MoreToSend
  <2>2. i + 1 \in 1 .. Len(todo)
    BY <1>1
  <2>3. i + 1 < Len(todo)
    BY <2>1, <2>2 DEF MoreToSend
  <2> QED
    BY <1>1, <2>3
<1>3. ASSUME Head(todo) = "initialized" \/ Len(todo) > 1 PROVE Len(todo) > 1
  BY <1>1, <1>3 DEF MoreToSend
<1> QED
  BY <1>1, <1>2, <1>3

LEMMA MoreAfterHandshake ==
  ASSUME NEW todo \in Seq(Methods), todo # <<>>, MoreToSend(todo),
         NEW t, t = <<"initialize", "initialized">> \o todo
  PROVE  t \in Seq(Methods) /\ t # <<>> /\ MoreToSend(t)
<1>1. <<"initialize", "initialized">> \in Seq(Methods)
  BY DEF Methods
<1>2. Len(todo) \in Nat /\ Len(todo) > 0
  OBVIOUS
<1>3. t \in Seq(Methods) /\ Len(t) = 2 + Len(todo)
  BY <1>1, <1>2
<1>4. \A i \in 1 .. Len(todo) + 2 : i > 2 => t[i] = todo[i - 2]
  BY <1>1, <1>2
<1>5. MoreToSend(t)
  <2>1. SUFFICES ASSUME NEW i \in 1 .. Len(todo) + 2, t[i] = "initialized"
                 PROVE  i < Len(todo) + 2
    BY <1>2, <1>3 DEF MoreToSend
  <2>2. CASE i > 2
    <3>1. i - 2 \in 1 .. Len(todo) /\ todo[i - 2] = "initialized"
      BY <1>2, <1>4, <2>1, <2>2
    <3>2. i - 2 < Len(todo)
      BY <3>1 DEF MoreToSend
    <3> QED
      BY <1>2, <3>2
  <2>3. CASE ~ (i > 2)
    BY <1>2, <2>3
  <2> QED
    BY <2>2, <2>3
<1> QED
  BY <1>2, <1>3, <1>5

LEMMA NothingToSend == MoreToSend(<<>>)
<1>1. Len(<<>>) = 0
  OBVIOUS
<1> QED
  BY <1>1 DEF MoreToSend

LEMMA NoCallTyped == NoCall \in CallType
<1>1. <<>> \in Seq(Methods) /\ NoAnswerTo \in Answers /\ "idle" \in Points /\ "none" \in Results
  BY DEF Answers, Points, Results
<1> QED
  BY <1>1 DEF NoCall, CallType, None

LEMMA McpInvInit == McpInit => McpInv
<1> SUFFICES ASSUME McpInit PROVE McpInv
  OBVIOUS
<1>1. server = <<>> /\ Len(server) = 0
  BY DEF McpInit
<1>2. NoCall \in CallType
  BY NoCallTyped
<1>3. McpTypeOK
  BY <1>1, <1>2 DEF McpInit, McpTypeOK, None
<1>4. NumbersGiven
  BY <1>1 DEF NumbersGiven
<1>5. \A c \in Callers : CallInv(c) /\ OwnAnswers(c)
  BY NothingToSend DEF McpInit, NoCall, CallInv, OwnAnswers, Waits
<1> QED
  BY <1>3, <1>4, <1>5 DEF McpInv

(* A step that writes no request: what the pipes hold was there before or  *)
(* answers what was, and calls that move wait for nothing new.             *)
PipesKept ==
    /\ requestId' = requestId
    /\ server' \in Seq(ServerType)
    /\ process' \in 0 .. Len(server')
    /\ Len(server) <= Len(server')
    /\ \A p \in 1 .. Len(server') : \A m \in MessagesIn(server'[p]) :
          \/ m.id = 0
          \/ /\ p \in 1 .. Len(server)
             /\ \E o \in MessagesIn(server[p]) : o.id = m.id /\ o.by = m.by

CallsKept ==
    /\ call' \in [Callers -> CallType]
    /\ \A d \in Callers :
          \/ call'[d] = call[d]
          \/ CallInv(d)' /\ (Waits(d)' => Waits(d) /\ call'[d].id = call[d].id)

LEMMA NothingAsked ==
  ASSUME McpInv, PipesKept, CallsKept
  PROVE  McpInv'
<1> USE DEF McpInv
<1>1. McpTypeOK'
  BY DEF McpTypeOK, PipesKept, CallsKept
<1>2. NumbersGiven'
  BY DEF NumbersGiven, McpTypeOK, PipesKept
<1>3. Len(server) \in Nat /\ Len(server') \in Nat /\ 1 .. Len(server) \subseteq 1 .. Len(server')
  BY DEF McpTypeOK, PipesKept
<1>4. ASSUME NEW d \in Callers PROVE CallInv(d)'
  <2>1. CASE call'[d] = call[d]
    <3>1. CallInv(d)
      OBVIOUS
    <3> QED
      BY <1>3, <2>1, <3>1 DEF CallInv
  <2> QED
    BY <2>1 DEF CallsKept
<1>5. ASSUME NEW d \in Callers PROVE OwnAnswers(d)'
  <2>1. SUFFICES ASSUME Waits(d)'
                 PROVE  /\ call'[d].id \in 1 .. requestId'
                        /\ \A p \in 1 .. Len(server') : \A m \in MessagesIn(server'[p]) :
                               m.id = call'[d].id => m.by = d
    BY DEF OwnAnswers
  <2>2. Waits(d) /\ call'[d].id = call[d].id
    BY <2>1 DEF Waits, CallsKept
  <2>3. /\ call[d].id \in 1 .. requestId
        /\ \A p \in 1 .. Len(server) : \A m \in MessagesIn(server[p]) :
               m.id = call[d].id => m.by = d
    BY <2>2 DEF OwnAnswers
  <2>4. call[d].id # 0
    BY <2>3 DEF McpTypeOK
  <2> QED
    BY <2>2, <2>3, <2>4 DEF PipesKept
<1> QED
  BY <1>1, <1>2, <1>4, <1>5

LEMMA PipesUnchanged ==
  ASSUME McpTypeOK, UNCHANGED <<server, process, requestId>>
  PROVE  PipesKept
<1>1. Len(server) \in Nat
  BY DEF McpTypeOK
<1> QED
  BY <1>1 DEF McpTypeOK, PipesKept

\* A record of a pipe takes the place of another.
LEMMA PipeReplaced ==
  ASSUME McpTypeOK, NEW p \in 1 .. Len(server), NEW s \in ServerType,
         server' = [server EXCEPT ![p] = s]
  PROVE  /\ server' \in Seq(ServerType) /\ Len(server') = Len(server)
         /\ server'[p] = s /\ \A q \in 1 .. Len(server) : q # p => server'[q] = server[q]
         /\ Len(server) \in Nat
BY DEF McpTypeOK

\* Its messages are the old ones, answers to them, or bear no number.
LEMMA PipesKeep ==
  ASSUME McpTypeOK, NEW p \in 1 .. Len(server), NEW s \in ServerType,
         server' = [server EXCEPT ![p] = s], requestId' = requestId,
         process' \in {process, None},
         \A m \in MessagesIn(s) :
             m.id = 0 \/ \E o \in MessagesIn(server[p]) : o.id = m.id /\ o.by = m.by
  PROVE  PipesKept
<1>1. /\ server' \in Seq(ServerType) /\ Len(server') = Len(server)
      /\ server'[p] = s /\ \A q \in 1 .. Len(server) : q # p => server'[q] = server[q]
      /\ Len(server) \in Nat
  BY PipeReplaced
<1>2. process' \in 0 .. Len(server')
  BY <1>1 DEF McpTypeOK, None
<1>3. ASSUME NEW q \in 1 .. Len(server'), NEW m \in MessagesIn(server'[q])
      PROVE  \/ m.id = 0
             \/ /\ q \in 1 .. Len(server)
                /\ \E o \in MessagesIn(server[q]) : o.id = m.id /\ o.by = m.by
  BY <1>1, <1>3
<1> QED
  BY <1>1, <1>2, <1>3 DEF PipesKept

LEMMA TakeLineKeeps ==
  ASSUME McpTypeOK, NEW c \in Callers, call[c].from \in 1 .. Len(server), HasLine(c),
         TakeLine(c), UNCHANGED <<process, requestId>>
  PROVE  PipesKept /\ Line(c) \in MessagesIn(server[call[c].from]) /\ Line(c) \in LineType
<1> DEFINE p == call[c].from
           s == [server[p] EXCEPT !.out = Tail(@)]
<1>1. server[p] \in ServerType /\ server[p].out # <<>> /\ server[p].out \in Seq(LineType)
  <2>1. server[p] \in ServerType
    BY DEF McpTypeOK
  <2> QED
    BY <2>1 DEF HasLine, ServerType
<1>2. /\ Tail(server[p].out) \in Seq(LineType)
      /\ Items(Tail(server[p].out)) \subseteq Items(server[p].out)
      /\ Head(server[p].out) \in Items(server[p].out)
      /\ Head(server[p].out) \in LineType
  BY <1>1, ItemsOfTail
<1>3. s \in ServerType /\ s.requests = server[p].requests /\ s.out = Tail(server[p].out)
  BY <1>1, <1>2 DEF ServerType
<1>4. server' = [server EXCEPT ![p] = s]
  BY DEF TakeLine
<1>5. MessagesIn(s) \subseteq MessagesIn(server[p])
  BY <1>2, <1>3 DEF MessagesIn
<1> HIDE DEF s
<1>6. PipesKept
  BY <1>3, <1>4, <1>5, PipesKeep
<1> QED
  BY <1>2, <1>6 DEF Line, MessagesIn

LEMMA KillKeeps ==
  ASSUME McpTypeOK, NEW p \in 0 .. Len(server), Kill(p), process' \in {process, None},
         requestId' = requestId
  PROVE  PipesKept
<1>1. CASE p = None
  <2>1. server' = server
    BY <1>1 DEF Kill
  <2>2. process' \in 0 .. Len(server) /\ Len(server) \in Nat
    BY DEF McpTypeOK, None
  <2> QED
    BY <2>1, <2>2 DEF PipesKept, McpTypeOK
<1>2. CASE p # None
  <2> DEFINE s == [server[p] EXCEPT !.alive = FALSE, !.requests = <<>>]
  <2>1. p \in 1 .. Len(server)
    BY <1>2 DEF None, McpTypeOK
  <2>2. server[p] \in ServerType
    BY <2>1 DEF McpTypeOK
  <2>2a. <<>> \in Seq(RequestType) /\ FALSE \in BOOLEAN
    OBVIOUS
  <2>3. s \in ServerType /\ s.requests = <<>> /\ s.out = server[p].out
    BY <2>2, <2>2a DEF ServerType
  <2>4. server' = [server EXCEPT ![p] = s]
    BY <1>2, <2>1, <2>2 DEF Kill, McpTypeOK, ServerType
  <2>5. MessagesIn(s) \subseteq MessagesIn(server[p])
    BY <2>3, NoItems DEF MessagesIn
  <2> HIDE DEF s
  <2> QED
    BY <2>1, <2>3, <2>4, <2>5, PipesKeep
<1> QED
  BY <1>1, <1>2

LEMMA GoKeeps ==
  ASSUME McpTypeOK, NEW c \in Callers, NEW pc \in Points, Go(c, pc)
  PROVE  /\ call' \in [Callers -> CallType]
         /\ \A d \in Callers : d # c => call'[d] = call[d]
         /\ call'[c] = [call[c] EXCEPT !.pc = pc] /\ call'[c].pc = pc
         /\ call'[c].todo = call[c].todo /\ call'[c].id = call[c].id
         /\ call'[c].from = call[c].from /\ call'[c].result = call[c].result
<1>1. call[c] \in CallType /\ call' = [call EXCEPT ![c] = [call[c] EXCEPT !.pc = pc]]
  BY DEF McpTypeOK, Go
<1>2. [call[c] EXCEPT !.pc = pc] \in CallType
  BY <1>1 DEF CallType
<1> QED
  BY <1>1, <1>2 DEF McpTypeOK, CallType

\* A call that goes on to a point at which it waits for nothing new.
LEMMA GoesOn ==
  ASSUME McpInv, NEW c \in Callers, NEW pc \in Points, Go(c, pc),
         call[c].pc # "returned",
         pc \in {"start", "spawn", "write", "read", "reading", "asking"} => call[c].todo # <<>>,
         pc \in {"reading", "joining"} => call[c].from \in 1 .. Len(server'),
         pc \in {"read", "reading"} => Waits(c)
  PROVE  CallsKept
<1>1. McpTypeOK /\ CallInv(c)
  BY DEF McpInv
<1>2. /\ call' \in [Callers -> CallType]
      /\ \A d \in Callers : d # c => call'[d] = call[d]
      /\ call'[c].pc = pc
      /\ call'[c].todo = call[c].todo /\ call'[c].id = call[c].id
      /\ call'[c].from = call[c].from /\ call'[c].result = call[c].result
  BY <1>1, GoKeeps
<1>3. call[c].result # "ok"
  BY <1>1 DEF CallInv
<1>4. CallInv(c)'
  BY <1>1, <1>2, <1>3 DEF CallInv
<1>5. Waits(c)' => Waits(c)
  BY <1>2 DEF Waits
<1> QED
  BY <1>2, <1>4, <1>5 DEF CallsKept

LEMMA CallReturns ==
  ASSUME McpTypeOK, NEW c \in Callers, NEW result \in Results,
         NEW request \in Answers, Return(c, result, request),
         result = "ok" => request = <<c, call[c].id>>
  PROVE  CallsKept
<1> DEFINE r == [call[c] EXCEPT !.pc = "returned", !.todo = <<>>, !.result = result,
                                !.answers = request]
<1>1. call[c] \in CallType /\ call' = [call EXCEPT ![c] = r]
  BY DEF McpTypeOK, Return, CallType
<1>2. /\ r \in CallType /\ r.pc = "returned" /\ r.result = result /\ r.answers = request
      /\ r.id = call[c].id /\ r.todo = <<>>
  <2>1. <<>> \in Seq(Methods) /\ "returned" \in Points
    BY DEF Points
  <2> QED
    BY <1>1, <2>1 DEF CallType
<1> HIDE DEF r
<1>3. /\ call' \in [Callers -> CallType] /\ call'[c] = r
      /\ \A d \in Callers : d # c => call'[d] = call[d]
  BY <1>1, <1>2 DEF McpTypeOK
<1>4. CallInv(c)'
  BY <1>2, <1>3, NothingToSend DEF CallInv
<1>5. ~ Waits(c)'
  BY <1>2, <1>3 DEF Waits
<1> QED
  BY <1>3, <1>4, <1>5 DEF CallsKept

\* One message of a call is done; the next may be written.
LEMMA NextMessage ==
  ASSUME McpTypeOK, NEW c \in Callers, CallInv(c), call[c].pc # "returned",
         Tail(call[c].todo) \in Seq(Methods), Tail(call[c].todo) # <<>>,
         MoreToSend(Tail(call[c].todo)),
         call' = [call EXCEPT ![c].pc = "start", ![c].todo = Tail(@)]
  PROVE  CallsKept
<1> DEFINE t == Tail(call[c].todo)
           r == [call[c] EXCEPT !.pc = "start", !.todo = t]
<1>1. call[c] \in CallType /\ call[c].result # "ok"
  BY DEF McpTypeOK, CallInv
<1>2. call' = [call EXCEPT ![c] = r]
  BY <1>1 DEF CallType, McpTypeOK
<1> HIDE DEF t
<1>t. t \in Seq(Methods) /\ t # <<>> /\ MoreToSend(t)
  BY DEF t
<1>p. "start" \in Points
  BY DEF Points
<1>3. /\ r \in CallType /\ r.pc = "start" /\ r.todo = t /\ r.result = call[c].result
  BY <1>1, <1>t, <1>p DEF CallType
<1> HIDE DEF r
<1>4. /\ call' \in [Callers -> CallType] /\ call'[c] = r
      /\ \A d \in Callers : d # c => call'[d] = call[d]
  BY <1>2, <1>3 DEF McpTypeOK
<1>5. CallInv(c)' /\ ~ Waits(c)'
  BY <1>1, <1>t, <1>3, <1>4 DEF CallInv, Waits
<1> QED
  BY <1>4, <1>5 DEF CallsKept

LEMMA CallStep ==
  ASSUME McpInv, NEW c \in Callers, ListTools(c) \/ CallTool(c)
  PROVE  McpInv'
<1>0. McpTypeOK
  BY DEF McpInv
<1>1. PICK method \in Methods \ {"initialized"} : Call(c, method)
  BY DEF ListTools, CallTool, Methods
<1> DEFINE r == [NoCall EXCEPT !.pc = "start", !.todo = <<method>>]
<1>2. r \in CallType /\ r.pc = "start" /\ r.result = "none" /\ r.todo = <<method>>
  <2>1. <<method>> \in Seq(Methods) /\ "start" \in Points /\ NoCall.result = "none"
    BY DEF Points, NoCall
  <2> QED
    BY <2>1, NoCallTyped DEF CallType
<1>3. call' = [call EXCEPT ![c] = r]
  BY <1>1 DEF Call
<1>4. r.todo # <<>> /\ MoreToSend(r.todo)
  <2>1. method # "initialized"
    BY <1>1
  <2> QED
    BY <1>2, <2>1 DEF MoreToSend
<1> HIDE DEF r
<1>5. CallsKept
  <2>1. /\ call' \in [Callers -> CallType] /\ call'[c] = r
        /\ \A d \in Callers : d # c => call'[d] = call[d]
    BY <1>0, <1>2, <1>3 DEF McpTypeOK
  <2>2. CallInv(c)' /\ ~ Waits(c)'
    BY <1>2, <1>4, <2>1 DEF CallInv, Waits
  <2> QED
    BY <2>1, <2>2 DEF CallsKept
<1>6. UNCHANGED <<server, process, requestId>>
  BY DEF ListTools, CallTool
<1> QED
  BY <1>0, <1>5, <1>6, PipesUnchanged, NothingAsked

LEMMA StartStep ==
  ASSUME McpInv, NEW c \in Callers, Start(c)
  PROVE  McpInv'
<1>1. McpTypeOK /\ CallInv(c)
  BY DEF McpInv
<1>2. call[c].pc = "start" /\ call[c].todo # <<>>
  BY <1>1 DEF Start, McpAt, CallInv
<1>3. PICK pc \in {"spawn", "write"} : Go(c, pc)
  BY DEF Start
<1>4. pc \in Points /\ pc \notin {"read", "reading", "joining"}
  BY <1>3 DEF Points
<1>5. CallsKept
  BY <1>2, <1>3, <1>4, GoesOn
<1>6. UNCHANGED <<server, process, requestId>>
  BY DEF Start
<1> QED
  BY <1>1, <1>5, <1>6, PipesUnchanged, NothingAsked

(* A new process has empty pipes. *)
LEMMA SpawnStep ==
  ASSUME McpInv, NEW c \in Callers, Spawn(c)
  PROVE  McpInv'
<1>0. McpTypeOK /\ CallInv(c)
  BY DEF McpInv
<1> DEFINE s == [alive |-> TRUE, requests |-> <<>>, out |-> <<>>]
<1>1. s \in ServerType /\ server \in Seq(ServerType) /\ server' = Append(server, s)
  BY <1>0 DEF Spawn, ServerType, McpTypeOK
<1>2. MessagesIn(s) = {}
  BY NoItems DEF MessagesIn
<1> HIDE DEF s
<1>3. /\ server' \in Seq(ServerType) /\ Len(server') = Len(server) + 1 /\ Len(server) \in Nat
      /\ server'[Len(server) + 1] = s
      /\ \A p \in 1 .. Len(server) : server'[p] = server[p]
  BY <1>1
<1>4. \A p \in 1 .. Len(server') : p \in 1 .. Len(server) \/ p = Len(server) + 1
  BY <1>3
<1>5. PipesKept
  <2>1. ASSUME NEW p \in 1 .. Len(server'), NEW m \in MessagesIn(server'[p])
        PROVE  /\ p \in 1 .. Len(server)
               /\ \E o \in MessagesIn(server[p]) : o.id = m.id /\ o.by = m.by
    <3>1. p \in 1 .. Len(server)
      BY <1>2, <1>3, <1>4
    <3> QED
      BY <1>3, <3>1
  <2>2. process' \in 0 .. Len(server') /\ Len(server) <= Len(server') /\ requestId' = requestId
    BY <1>3 DEF Spawn
  <2> QED
    BY <1>3, <2>1, <2>2 DEF PipesKept
<1> DEFINE t == <<"initialize", "initialized">> \o call[c].todo
           r == [call[c] EXCEPT !.pc = "start", !.todo = t]
<1>6. call[c] \in CallType /\ call[c].todo \in Seq(Methods) /\ call[c].pc = "spawn"
  BY <1>0 DEF McpTypeOK, CallType, Spawn, McpAt
<1>7. t \in Seq(Methods) /\ t # <<>> /\ MoreToSend(t)
  <2>1. call[c].todo # <<>> /\ MoreToSend(call[c].todo)
    BY <1>0, <1>6 DEF CallInv
  <2> QED
    BY <1>6, <2>1, MoreAfterHandshake
<1>8. call' = [call EXCEPT ![c] = r]
  BY <1>0, <1>6 DEF Spawn, CallType, McpTypeOK
<1> HIDE DEF t
<1>p. "start" \in Points
  BY DEF Points
<1>9. /\ r \in CallType /\ r.pc = "start" /\ r.todo = t /\ r.result = call[c].result
  BY <1>6, <1>7, <1>p DEF CallType
<1> HIDE DEF r
<1>10. CallsKept
  <2>1. /\ call' \in [Callers -> CallType] /\ call'[c] = r
        /\ \A d \in Callers : d # c => call'[d] = call[d]
    BY <1>0, <1>8, <1>9 DEF McpTypeOK
  <2>2. r.result # "ok"
    BY <1>0, <1>6, <1>9 DEF CallInv
  <2>3. CallInv(c)' /\ ~ Waits(c)'
    BY <1>7, <1>9, <2>1, <2>2 DEF CallInv, Waits
  <2> QED
    BY <2>1, <2>3 DEF CallsKept
<1> QED
  BY <1>5, <1>10, NothingAsked

(* A request takes the next number, which no other call waits for and no   *)
(* message bears.                                                          *)
LEMMA RequestWritten ==
  ASSUME McpInv, NEW c \in Callers, NEW method \in Methods,
         process \in 1 .. Len(server), requestId' = requestId + 1, process' = process,
         server' = [server EXCEPT ![process].requests =
                       Append(@, [id |-> requestId', method |-> method, by |-> c])],
         call[c].pc = "write",
         call' = [call EXCEPT ![c].pc = "read", ![c].id = requestId']
  PROVE  McpInv'
<1> USE DEF McpInv
<1>0. McpTypeOK /\ requestId \in Nat /\ requestId' = requestId + 1 /\ Len(server) \in Nat
  BY DEF McpTypeOK
<1> DEFINE q == [id |-> requestId', method |-> method, by |-> c]
           srv == server[process]
           s == [srv EXCEPT !.requests = Append(@, q)]
<1>1. srv \in ServerType /\ q \in RequestType /\ q.id = requestId + 1 /\ q.by = c
  BY <1>0 DEF McpTypeOK, RequestType, Senders
<1>2. server' = [server EXCEPT ![process] = s]
  OBVIOUS
<1> HIDE DEF q
<1>3. /\ s \in ServerType /\ s.out = srv.out
      /\ Items(s.requests) \subseteq Items(srv.requests) \cup {q}
  <2>1. srv.requests \in Seq(RequestType)
    BY <1>1 DEF ServerType
  <2>2. /\ Append(srv.requests, q) \in Seq(RequestType)
        /\ Items(Append(srv.requests, q)) \subseteq Items(srv.requests) \cup {q}
    BY <1>1, <2>1, ItemsOfAppend
  <2> HIDE DEF srv
  <2>3. s \in ServerType /\ s.out = srv.out /\ s.requests = Append(srv.requests, q)
    BY <1>1, <2>2 DEF ServerType
  <2> QED
    BY <2>2, <2>3
<1> HIDE DEF s
<1>4. /\ server' \in Seq(ServerType) /\ Len(server') = Len(server) /\ server'[process] = s
      /\ \A p \in 1 .. Len(server) : p # process => server'[p] = server[p]
  BY <1>0, <1>2, <1>3, PipeReplaced
<1>5. ASSUME NEW p \in 1 .. Len(server), NEW m \in MessagesIn(server'[p])
      PROVE  m \in MessagesIn(server[p]) \/ m = q
  <2>0. MessagesIn(s) \subseteq MessagesIn(srv) \cup {q}
    BY <1>3 DEF MessagesIn
  <2>1. CASE p = process
    BY <1>4, <1>5, <2>0, <2>1
  <2>2. CASE p # process
    BY <1>4, <1>5, <2>2
  <2> QED
    BY <2>1, <2>2
<1> DEFINE r == [call[c] EXCEPT !.pc = "read", !.id = requestId + 1]
<1>6. call[c] \in CallType /\ call' = [call EXCEPT ![c] = r]
  BY <1>0 DEF McpTypeOK, CallType
<1>7. /\ r \in CallType /\ r.pc = "read" /\ r.id = requestId + 1 /\ r.todo = call[c].todo
      /\ r.result = call[c].result
  <2>1. "read" \in Points /\ requestId + 1 \in Nat
    BY <1>0 DEF Points
  <2> QED
    BY <1>6, <2>1 DEF CallType
<1> HIDE DEF r
<1>8. /\ call' \in [Callers -> CallType] /\ call'[c] = r
      /\ \A d \in Callers : d # c => call'[d] = call[d]
  BY <1>0, <1>6, <1>7 DEF McpTypeOK
<1>9. McpTypeOK'
  BY <1>0, <1>4, <1>8 DEF McpTypeOK
<1>10. ASSUME NEW p \in 1 .. Len(server), NEW m \in MessagesIn(server[p])
       PROVE  m.id \in Nat /\ m.id <= requestId
  <2>1. server[p] \in ServerType
    BY DEF McpTypeOK
  <2>2. m \in RequestType \/ m \in LineType
    BY <2>1 DEF MessagesIn, Items, ServerType
  <2> QED
    BY <2>2 DEF RequestType, LineType, NumbersGiven
<1>11. NumbersGiven'
  <2>1. SUFFICES ASSUME NEW p \in 1 .. Len(server), NEW m \in MessagesIn(server'[p])
                 PROVE  m.id <= requestId + 1
    BY <1>0, <1>4 DEF NumbersGiven
  <2>2. CASE m = q
    BY <1>0, <1>1, <2>2
  <2>3. CASE m \in MessagesIn(server[p])
    BY <1>0, <1>10, <2>3
  <2> QED
    BY <1>5, <2>2, <2>3
<1>12. ASSUME NEW d \in Callers PROVE CallInv(d)'
  <2>1. CASE d = c
    <3>1. call[c].todo # <<>> /\ call[c].result # "ok" /\ MoreToSend(call[c].todo)
      BY DEF CallInv
    <3> QED
      BY <1>7, <1>8, <2>1, <3>1 DEF CallInv
  <2>2. CASE d # c
    BY <1>4, <1>8, <2>2 DEF CallInv
  <2> QED
    BY <2>1, <2>2
<1>13. ASSUME NEW d \in Callers PROVE OwnAnswers(d)'
  <2>1. CASE d = c
    <3>1. ASSUME NEW p \in 1 .. Len(server), NEW m \in MessagesIn(server'[p]),
                 m.id = requestId + 1
          PROVE  m.by = c
      <4>1. ~ (m \in MessagesIn(server[p]))
        BY <1>0, <1>10, <3>1
      <4> QED
        BY <1>1, <1>5, <4>1
    <3>2. requestId + 1 \in 1 .. requestId + 1
      BY <1>0
    <3> QED
      <4>1. call'[c].id = requestId + 1 /\ requestId' = requestId + 1
        BY <1>0, <1>7, <1>8
      <4>2. \A p \in 1 .. Len(server') : \A m \in MessagesIn(server'[p]) :
               m.id = call'[c].id => m.by = c
        BY <1>4, <3>1, <4>1
      <4>3. call'[c].id \in 1 .. requestId'
        BY <3>2, <4>1
      <4> QED
        BY <2>1, <4>2, <4>3 DEF OwnAnswers
  <2>2. CASE d # c
    <3>1. SUFFICES ASSUME Waits(d)
                   PROVE  /\ call[d].id \in 1 .. requestId + 1
                          /\ \A p \in 1 .. Len(server) : \A m \in MessagesIn(server'[p]) :
                                 m.id = call[d].id => m.by = d
      BY <1>0, <1>4, <1>8, <2>2 DEF OwnAnswers, Waits
    <3>2. /\ call[d].id \in 1 .. requestId
          /\ \A p \in 1 .. Len(server) : \A m \in MessagesIn(server[p]) :
                 m.id = call[d].id => m.by = d
      BY <3>1 DEF OwnAnswers
    <3>3. call[d].id \in 1 .. requestId + 1 /\ call[d].id # q.id
      BY <1>0, <1>1, <3>2
    <3> QED
      BY <1>5, <3>2, <3>3
  <2> QED
    BY <2>1, <2>2
<1> QED
  BY <1>9, <1>11, <1>12, <1>13

(* The number of a message that could not be written is gone. *)
LEMMA NumberLost ==
  ASSUME McpInv, UNCHANGED <<server, process>>, requestId' \in {requestId, requestId + 1},
         CallsKept
  PROVE  McpInv'
<1> USE DEF McpInv
<1>1. requestId \in Nat /\ requestId' \in Nat /\ requestId <= requestId'
  BY DEF McpTypeOK
<1>2. McpTypeOK'
  BY <1>1 DEF McpTypeOK, CallsKept
<1>3. ASSUME NEW p \in 1 .. Len(server), NEW m \in MessagesIn(server[p])
      PROVE  m.id \in Nat /\ m.id <= requestId
  <2>1. server[p] \in ServerType
    BY DEF McpTypeOK
  <2>2. m \in RequestType \/ m \in LineType
    BY <2>1 DEF MessagesIn, Items, ServerType
  <2> QED
    BY <2>2 DEF RequestType, LineType, NumbersGiven
<1>4. NumbersGiven'
  BY <1>1, <1>3 DEF NumbersGiven
<1>5. ASSUME NEW d \in Callers PROVE CallInv(d)'
  <2>1. CASE call'[d] = call[d]
    BY <2>1 DEF CallInv
  <2> QED
    BY <2>1 DEF CallsKept
<1>6. ASSUME NEW d \in Callers PROVE OwnAnswers(d)'
  <2>1. SUFFICES ASSUME Waits(d)' PROVE OwnAnswers(d)'
    BY DEF OwnAnswers
  <2>2. Waits(d) /\ call'[d].id = call[d].id
    BY <2>1 DEF Waits, CallsKept
  <2>3. call[d].id \in 1 .. requestId'
    BY <1>1, <2>2 DEF OwnAnswers
  <2> QED
    BY <2>2, <2>3 DEF OwnAnswers
<1> QED
  BY <1>2, <1>4, <1>5, <1>6

LEMMA WriteStep ==
  ASSUME McpInv, NEW c \in Callers, WriteMessage(c)
  PROVE  McpInv'
<1>0. McpTypeOK /\ CallInv(c)
  BY DEF McpInv
<1> DEFINE method == Head(call[c].todo)
<1>1. call[c].pc = "write" /\ process' = process /\ requestId' \in {requestId, requestId + 1}
  BY DEF WriteMessage, McpAt
<1>2. call[c] \in CallType /\ call[c].todo \in Seq(Methods) /\ call[c].todo # <<>>
  BY <1>0, <1>1 DEF McpTypeOK, CallType, CallInv
<1>3. method \in Methods /\ Tail(call[c].todo) \in Seq(Methods)
  BY <1>2
<1>4. CASE process = None \/ ~ server[process].alive
  <2>1. server' = server /\ \E result \in {"failed", "raised"} : Return(c, result, NoAnswerTo)
    BY <1>4 DEF WriteMessage
  <2>2. PICK result \in {"failed", "raised"} : Return(c, result, NoAnswerTo)
    BY <2>1
  <2>3. result \in Results /\ result # "ok"
    BY <2>2 DEF Results
  <2>3a. NoAnswerTo \in Answers
    BY DEF Answers
  <2>4. CallsKept
    BY <1>0, <2>2, <2>3, <2>3a, CallReturns
  <2> QED
    BY <1>1, <2>1, <2>4, NumberLost
<1>5. CASE process # None /\ server[process].alive /\ method = "initialized"
  <2>1. /\ server' = server /\ requestId' = requestId
        /\ call' = [call EXCEPT ![c].pc = "start", ![c].todo = Tail(@)]
    BY <1>5 DEF WriteMessage
  <2>2. Tail(call[c].todo) # <<>> /\ MoreToSend(Tail(call[c].todo))
    BY <1>0, <1>2, <1>5, MoreAfterFirst DEF CallInv
  <2>3. CallsKept
    BY <1>0, <1>1, <1>2, <1>3, <2>1, <2>2, NextMessage
  <2> QED
    BY <1>0, <1>1, <2>1, <2>3, PipesUnchanged, NothingAsked
<1>6. CASE process # None /\ server[process].alive /\ method # "initialized"
  <2>1. process \in 1 .. Len(server)
    BY <1>0, <1>6 DEF McpTypeOK, None
  <2>2. /\ requestId' = requestId + 1
        /\ server' = [server EXCEPT ![process].requests =
                         Append(@, [id |-> requestId', method |-> method, by |-> c])]
        /\ call' = [call EXCEPT ![c].pc = "read", ![c].id = requestId']
    BY <1>6 DEF WriteMessage
  <2> HIDE DEF method
  <2> QED
    BY <1>1, <1>3, <2>1, <2>2, RequestWritten
<1> QED
  BY <1>4, <1>5, <1>6

\* A call moves to a point at which it waits for nothing new.
LEMMA CallMoves ==
  ASSUME McpInv, NEW c \in Callers, NEW r \in CallType, call' = [call EXCEPT ![c] = r],
         r.pc \in {"start", "spawn", "write", "read", "reading", "asking"} => r.todo # <<>>,
         MoreToSend(r.todo),
         r.pc \in {"reading", "joining"} => r.from \in 1 .. Len(server'),
         r.result = "ok" => r.pc = "returned" /\ r.answers = <<c, r.id>>,
         r.pc \in {"read", "reading"} => Waits(c) /\ r.id = call[c].id
  PROVE  CallsKept
<1>1. call \in [Callers -> CallType]
  BY DEF McpInv, McpTypeOK
<1>2. /\ call' \in [Callers -> CallType] /\ call'[c] = r
      /\ \A d \in Callers : d # c => call'[d] = call[d]
  BY <1>1
<1>3. CallInv(c)' /\ (Waits(c)' => Waits(c) /\ call'[c].id = call[c].id)
  BY <1>2 DEF CallInv, Waits
<1> QED
  BY <1>2, <1>3 DEF CallsKept

\* A call that ends without an answer it could return.
LEMMA CallFails ==
  ASSUME McpInv, NEW c \in Callers, NEW result \in {"failed", "raised", "timed out"},
         Return(c, result, NoAnswerTo)
  PROVE  CallsKept
<1>1. result \in Results /\ result # "ok" /\ NoAnswerTo \in Answers
  BY DEF Results, Answers
<1> QED
  BY <1>1, CallReturns DEF McpInv

LEMMA ReadLineStep ==
  ASSUME McpInv, NEW c \in Callers, ReadLine(c)
  PROVE  McpInv'
<1>1. McpTypeOK /\ CallInv(c) /\ call[c].pc = "read" /\ call[c] \in CallType
  BY DEF McpInv, McpTypeOK, ReadLine, McpAt
<1>2. PipesKept
  BY <1>1, PipesUnchanged DEF ReadLine
<1>3. CASE process = None
  <2>1. Return(c, "failed", NoAnswerTo)
    BY <1>3 DEF ReadLine
  <2> QED
    BY <1>2, <2>1, CallFails, NothingAsked
<1>4. CASE process # None
  <2> DEFINE r == [call[c] EXCEPT !.pc = "reading", !.from = process]
  <2>1. call' = [call EXCEPT ![c] = r]
    BY <1>1, <1>4 DEF ReadLine, McpTypeOK, CallType
  <2>2. process \in 1 .. Len(server') /\ process \in Nat /\ "reading" \in Points
    BY <1>1, <1>4 DEF McpTypeOK, None, ReadLine, Points
  <2>3. /\ r \in CallType /\ r.pc = "reading" /\ r.from = process /\ r.todo = call[c].todo
        /\ r.id = call[c].id /\ r.result = call[c].result
    BY <1>1, <2>2 DEF CallType
  <2> HIDE DEF r
  <2>4. r.todo # <<>> /\ MoreToSend(r.todo) /\ r.result # "ok" /\ Waits(c)
    BY <1>1, <2>3 DEF CallInv, Waits
  <2>5. CallsKept
    BY <2>1, <2>2, <2>3, <2>4, CallMoves
  <2> QED
    BY <1>2, <2>5, NothingAsked
<1> QED
  BY <1>3, <1>4

LEMMA ReadOtherStep ==
  ASSUME McpInv, NEW c \in Callers, ReadOther(c)
  PROVE  McpInv'
<1>1. McpTypeOK /\ CallInv(c) /\ call[c].pc = "reading" /\ call[c] \in CallType
  BY DEF McpInv, McpTypeOK, ReadOther, McpAt
<1>2. call[c].from \in 1 .. Len(server) /\ call[c].todo # <<>>
  BY <1>1 DEF CallInv
<1>3. PipesKept
  BY <1>1, <1>2, TakeLineKeeps DEF ReadOther
<1>4. CASE Return(c, "raised", NoAnswerTo)
  BY <1>3, <1>4, CallFails, NothingAsked
<1>5. CASE Go(c, "read")
  <2>1. "read" \in Points /\ Waits(c)
    BY <1>1 DEF Points, Waits
  <2>2. CallsKept
    BY <1>1, <1>2, <1>5, <2>1, GoesOn
  <2> QED
    BY <1>3, <2>2, NothingAsked
<1> QED
  BY <1>4, <1>5 DEF ReadOther

(* The response bears the number the call waits for, so it answers what    *)
(* this call wrote.                                                        *)
LEMMA ReadResponseStep ==
  ASSUME McpInv, NEW c \in Callers, ReadResponse(c)
  PROVE  McpInv'
<1>1. McpTypeOK /\ CallInv(c) /\ OwnAnswers(c) /\ call[c].pc = "reading" /\ call[c] \in CallType
  BY DEF McpInv, McpTypeOK, ReadResponse, McpAt
<1>2. call[c].from \in 1 .. Len(server) /\ call[c].todo # <<>> /\ MoreToSend(call[c].todo)
  BY <1>1 DEF CallInv
<1>3. PipesKept /\ Line(c) \in MessagesIn(server[call[c].from]) /\ Line(c) \in LineType
  BY <1>1, <1>2, TakeLineKeeps DEF ReadResponse
<1>4. Line(c).id = call[c].id
  BY DEF ReadResponse, IsResponse
<1>5. Line(c).by = c
  BY <1>1, <1>2, <1>3, <1>4 DEF OwnAnswers, Waits
<1>6. Answered(c) = <<c, call[c].id>> /\ Answered(c) \in Answers
  BY <1>1, <1>4, <1>5 DEF Answered, Answers, Senders, CallType
<1>7. call[c].todo \in Seq(Methods)
  BY <1>1 DEF CallType
<1>8. CASE Return(c, "failed", Answered(c))
  <2>1. "failed" \in Results /\ "failed" # "ok"
    BY DEF Results
  <2>2. CallsKept
    BY <1>1, <1>6, <1>8, <2>1, CallReturns
  <2> QED
    BY <1>3, <2>2, NothingAsked
<1>9. CASE Return(c, "ok", Answered(c))
  <2>1. "ok" \in Results
    BY DEF Results
  <2>2. CallsKept
    BY <1>1, <1>6, <1>9, <2>1, CallReturns
  <2> QED
    BY <1>3, <2>2, NothingAsked
<1>10. CASE /\ Len(call[c].todo) > 1
            /\ call' = [call EXCEPT ![c].pc = "start", ![c].todo = Tail(@)]
  <2>1. /\ Tail(call[c].todo) \in Seq(Methods) /\ Tail(call[c].todo) # <<>>
        /\ MoreToSend(Tail(call[c].todo))
    BY <1>2, <1>7, <1>10, MoreAfterFirst
  <2>2. CallsKept
    BY <1>1, <1>10, <2>1, NextMessage
  <2> QED
    BY <1>3, <2>2, NothingAsked
<1>11. CASE call' = [call EXCEPT ![c].pc = "asking", ![c].asked = @ + 1]
  <2> DEFINE r == [call[c] EXCEPT !.pc = "asking", !.asked = @ + 1]
  <2>1. call' = [call EXCEPT ![c] = r]
    BY <1>1, <1>11 DEF McpTypeOK, CallType
  <2>a. call[c].asked \in Nat
    BY <1>1 DEF CallType
  <2>2. "asking" \in Points /\ call[c].asked + 1 \in Nat
    BY <2>a DEF Points
  <2>3. r \in CallType /\ r.pc = "asking" /\ r.todo = call[c].todo /\ r.result = call[c].result
    BY <1>1, <2>2 DEF CallType
  <2> HIDE DEF r
  <2>4. r.result # "ok"
    BY <1>1, <2>3 DEF CallInv
  <2>5. CallsKept
    BY <1>2, <2>1, <2>3, <2>4, CallMoves
  <2> QED
    BY <1>3, <2>5, NothingAsked
<1> QED
  BY <1>8, <1>9, <1>10, <1>11 DEF ReadResponse

LEMMA OperatorStep ==
  ASSUME McpInv, NEW c \in Callers, OperatorAnswers(c) \/ HttpOperatorAnswers(c)
  PROVE  McpInv'
<1>1. McpTypeOK /\ CallInv(c)
  BY DEF McpInv
<1>2. PipesKept
  BY <1>1, PipesUnchanged DEF OperatorAnswers, HttpOperatorAnswers
<1>3. CASE Return(c, "failed", NoAnswerTo)
  BY <1>2, <1>3, CallFails, NothingAsked
<1>4. CASE OperatorAnswers(c) /\ Go(c, "start")
  <2>1. call[c].pc = "asking" /\ call[c].todo # <<>> /\ "start" \in Points
    BY <1>1, <1>4 DEF OperatorAnswers, McpAt, CallInv, Points
  <2>2. CallsKept
    BY <1>4, <2>1, GoesOn
  <2> QED
    BY <1>2, <2>2, NothingAsked
<1>5. CASE HttpOperatorAnswers(c) /\ Go(c, "again")
  <2>1. call[c].pc = "asking http" /\ "again" \in Points
    BY <1>5 DEF HttpOperatorAnswers, McpAt, Points
  <2>2. CallsKept
    BY <1>5, <2>1, GoesOn
  <2> QED
    BY <1>2, <2>2, NothingAsked
<1> QED
  BY <1>3, <1>4, <1>5 DEF OperatorAnswers, HttpOperatorAnswers

LEMMA EndOfStreamStep ==
  ASSUME McpInv, NEW c \in Callers, ReadEof(c) \/ ReadStderr(c)
  PROVE  McpInv'
<1>1. McpTypeOK /\ CallInv(c) /\ call[c] \in CallType
  BY DEF McpInv, McpTypeOK
<1>2. PipesKept
  BY <1>1, PipesUnchanged DEF ReadEof, ReadStderr
<1>3. CASE Return(c, "failed", NoAnswerTo)
  BY <1>2, <1>3, CallFails, NothingAsked
<1>4. CASE ReadEof(c) /\ process # None
  <2> DEFINE r == [call[c] EXCEPT !.pc = "stderr", !.from = process]
  <2>1. call' = [call EXCEPT ![c] = r] /\ call[c].pc = "reading"
    BY <1>1, <1>4 DEF ReadEof, McpTypeOK, CallType, McpAt
  <2>2. process \in Nat /\ "stderr" \in Points
    BY <1>1 DEF McpTypeOK, Points
  <2>3. r \in CallType /\ r.pc = "stderr" /\ r.todo = call[c].todo /\ r.result = call[c].result
    BY <1>1, <2>2 DEF CallType
  <2> HIDE DEF r
  <2>4. MoreToSend(r.todo) /\ r.result # "ok"
    BY <1>1, <2>1, <2>3 DEF CallInv
  <2>5. CallsKept
    BY <2>1, <2>3, <2>4, CallMoves
  <2> QED
    BY <1>2, <2>5, NothingAsked
<1> QED
  BY <1>3, <1>4 DEF ReadEof, ReadStderr

LEMMA TimeOutStep ==
  ASSUME McpInv, NEW c \in Callers, TimeOut(c)
  PROVE  McpInv'
<1>1. McpTypeOK /\ CallInv(c) /\ call[c].pc = "reading"
  BY DEF McpInv, TimeOut, McpAt
<1>2. process \in 0 .. Len(server) /\ Len(server) \in Nat
  BY <1>1 DEF McpTypeOK
<1>3. PipesKept
  BY <1>1, <1>2, KillKeeps DEF TimeOut
<1>4. call[c].from \in 1 .. Len(server')
  BY <1>1, <1>2, <1>3 DEF CallInv, PipesKept
<1>5. "joining" \in Points /\ Go(c, "joining")
  BY DEF Points, TimeOut
<1>6. CallsKept
  BY <1>1, <1>4, <1>5, GoesOn
<1> QED
  BY <1>3, <1>6, NothingAsked

LEMMA JoinedStep ==
  ASSUME McpInv, NEW c \in Callers, Joined(c)
  PROVE  McpInv'
<1>1. McpTypeOK /\ CallInv(c) /\ call[c].pc = "joining"
  BY DEF McpInv, Joined, McpAt
<1>2. call[c].from \in 1 .. Len(server)
  BY <1>1 DEF CallInv
<1>3. PipesKept
  <2>1. CASE HasLine(c)
    BY <1>1, <1>2, <2>1, TakeLineKeeps DEF Joined
  <2>2. CASE ~ HasLine(c)
    BY <1>1, <2>2, PipesUnchanged DEF Joined
  <2> QED
    BY <2>1, <2>2
<1>4. CallsKept
  BY CallFails DEF Joined
<1> QED
  BY <1>3, <1>4, NothingAsked

LEMMA HttpRequestStep ==
  ASSUME McpInv, NEW c \in Callers, HttpRequest(c)
  PROVE  McpInv'
<1>1. McpTypeOK /\ CallInv(c) /\ requestId' = requestId + 1 /\ requestId \in Nat
  BY DEF McpInv, McpTypeOK, HttpRequest
<1>2. UNCHANGED <<server, process>>
  BY DEF HttpRequest
<1> DEFINE a == [NoCall EXCEPT !.id = requestId', !.answers = <<c, requestId'>>]
           asking == [a EXCEPT !.pc = "asking http", !.asked = 1]
           done == [a EXCEPT !.pc = "returned", !.result = "ok"]
<1>3. CASE \E result \in {"failed", "timed out"} : Return(c, result, NoAnswerTo)
  <2>1. CallsKept
    BY <1>3, CallFails
  <2> QED
    BY <1>1, <1>2, <2>1, NumberLost
<1>4. a \in CallType /\ a.todo = <<>> /\ a.id = requestId' /\ a.answers = <<c, requestId'>>
      /\ a.result = "none"
  <2>1. <<c, requestId'>> \in Answers /\ requestId' \in Nat
    BY <1>1 DEF Answers, Senders
  <2>2. NoCall \in CallType /\ NoCall.todo = <<>> /\ NoCall.result = "none"
    BY NoCallTyped DEF NoCall
  <2> QED
    BY <2>1, <2>2 DEF CallType
<1>5. MoreToSend(<<>>)
  BY NothingToSend
<1> HIDE DEF a
<1>6. CASE call' = [call EXCEPT ![c] = asking]
  <2>1. "asking http" \in Points /\ 1 \in Nat
    BY DEF Points
  <2>2. /\ asking \in CallType /\ asking.pc = "asking http" /\ asking.todo = <<>>
        /\ asking.result = "none"
    BY <1>4, <2>1 DEF CallType
  <2> HIDE DEF asking
  <2>3. CallsKept
    BY <1>5, <1>6, <2>2, CallMoves
  <2> QED
    BY <1>1, <1>2, <2>3, NumberLost
<1>7. CASE call' = [call EXCEPT ![c] = done]
  <2>1. "returned" \in Points /\ "ok" \in Results
    BY DEF Points, Results
  <2>2. /\ done \in CallType /\ done.pc = "returned" /\ done.todo = <<>>
        /\ done.answers = <<c, done.id>>
    BY <1>4, <2>1 DEF CallType
  <2> HIDE DEF done
  <2>3. CallsKept
    BY <1>5, <1>7, <2>2, CallMoves
  <2> QED
    BY <1>1, <1>2, <2>3, NumberLost
<1>8. CASE Return(c, "failed", NoAnswerTo)
  BY <1>3, <1>8
<1> QED
  BY <1>3, <1>6, <1>7, <1>8 DEF HttpRequest, a

LEMMA CloseStep ==
  ASSUME McpInv, CloseClient
  PROVE  McpInv'
<1>1. McpTypeOK /\ process \in 0 .. Len(server)
  BY DEF McpInv, McpTypeOK
<1>2. PipesKept
  BY <1>1, KillKeeps DEF CloseClient
<1>3. CallsKept
  BY <1>1 DEF CallsKept, CloseClient, McpTypeOK
<1> QED
  BY <1>2, <1>3, NothingAsked

(* The server answers what it read; what it says by itself has no number.  *)
LEMMA ServerStep ==
  ASSUME McpInv, NEW p \in 1 .. Len(server), ServerAnswers(p) \/ ServerNoise(p) \/ ServerDies(p)
  PROVE  McpInv'
<1>1. McpTypeOK /\ server[p] \in ServerType
  BY DEF McpInv, McpTypeOK
<1>2. UNCHANGED <<process, requestId, call>>
  BY DEF ServerAnswers, ServerNoise, ServerDies
<1>3. CallsKept
  BY <1>1, <1>2 DEF CallsKept, McpTypeOK
<1>4. /\ server[p].requests \in Seq(RequestType) /\ server[p].out \in Seq(LineType)
      /\ server[p].alive \in BOOLEAN
  BY <1>1 DEF ServerType
<1>5. CASE ServerAnswers(p)
  <2> DEFINE q == Head(server[p].requests)
  <2>1. server[p].requests # <<>>
    BY <1>5 DEF ServerAnswers
  <2>2. /\ Tail(server[p].requests) \in Seq(RequestType)
        /\ Items(Tail(server[p].requests)) \subseteq Items(server[p].requests)
        /\ q \in Items(server[p].requests) /\ q \in RequestType
    BY <1>4, <2>1, ItemsOfTail
  <2>3. PICK kind \in {"result", "error", "elicitation"} :
           server' = [Say(p, [id |-> q.id, kind |-> kind, by |-> q.by])
                         EXCEPT ![p].requests = Tail(@)]
    BY <1>5 DEF ServerAnswers
  <2> DEFINE l == [id |-> q.id, kind |-> kind, by |-> q.by]
             s == [server[p] EXCEPT !.out = Append(@, l), !.requests = Tail(@)]
  <2>4. l \in LineType /\ l.id = q.id /\ l.by = q.by
    BY <2>2 DEF LineType, RequestType
  <2>5. server' = [server EXCEPT ![p] = s]
    BY <1>1, <2>3 DEF Say, McpTypeOK, ServerType
  <2> HIDE DEF l, q
  <2>6. /\ Append(server[p].out, l) \in Seq(LineType)
        /\ Items(Append(server[p].out, l)) \subseteq Items(server[p].out) \cup {l}
    BY <1>4, <2>4, ItemsOfAppend
  <2>7. /\ s \in ServerType /\ s.out = Append(server[p].out, l)
        /\ s.requests = Tail(server[p].requests)
    BY <1>1, <2>2, <2>6 DEF ServerType
  <2> HIDE DEF s
  <2>8. \A m \in MessagesIn(s) :
           m.id = 0 \/ \E o \in MessagesIn(server[p]) : o.id = m.id /\ o.by = m.by
    BY <2>2, <2>4, <2>6, <2>7 DEF MessagesIn
  <2>9. PipesKept
    BY <1>1, <1>2, <2>5, <2>7, <2>8, PipesKeep
  <2> QED
    BY <1>3, <2>9, NothingAsked
<1>6. CASE ServerNoise(p)
  <2>1. PICK kind \in {"notification", "rubbish"} :
           server' = Say(p, [id |-> 0, kind |-> kind, by |-> "server"])
    BY <1>6 DEF ServerNoise
  <2> DEFINE l == [id |-> 0, kind |-> kind, by |-> "server"]
             s == [server[p] EXCEPT !.out = Append(@, l)]
  <2>2. l \in LineType /\ l.id = 0
    BY DEF LineType, Senders
  <2>3. server' = [server EXCEPT ![p] = s]
    BY <1>1, <2>1 DEF Say, McpTypeOK, ServerType
  <2> HIDE DEF l
  <2>4. /\ Append(server[p].out, l) \in Seq(LineType)
        /\ Items(Append(server[p].out, l)) \subseteq Items(server[p].out) \cup {l}
    BY <1>4, <2>2, ItemsOfAppend
  <2>5. /\ s \in ServerType /\ s.out = Append(server[p].out, l)
        /\ s.requests = server[p].requests
    BY <1>1, <2>4 DEF ServerType
  <2> HIDE DEF s
  <2>6. \A m \in MessagesIn(s) :
           m.id = 0 \/ \E o \in MessagesIn(server[p]) : o.id = m.id /\ o.by = m.by
    BY <2>2, <2>4, <2>5 DEF MessagesIn
  <2>7. PipesKept
    BY <1>1, <1>2, <2>3, <2>5, <2>6, PipesKeep
  <2> QED
    BY <1>3, <2>7, NothingAsked
<1>7. CASE ServerDies(p)
  <2>1. p \in 0 .. Len(server) /\ Kill(p)
    BY <1>1, <1>7 DEF ServerDies, McpTypeOK
  <2>2. PipesKept
    BY <1>1, <1>2, <2>1, KillKeeps
  <2> QED
    BY <1>3, <2>2, NothingAsked
<1> QED
  BY <1>5, <1>6, <1>7

LEMMA McpInvStep == McpInv /\ [McpNext]_mcpVars => McpInv'
<1> SUFFICES ASSUME McpInv, [McpNext]_mcpVars PROVE McpInv'
  OBVIOUS
<1>1. ASSUME NEW c \in Callers,
             \/ ListTools(c) \/ CallTool(c) \/ Start(c) \/ Spawn(c) \/ WriteMessage(c)
             \/ ReadLine(c) \/ ReadOther(c) \/ ReadResponse(c) \/ OperatorAnswers(c)
             \/ ReadEof(c) \/ ReadStderr(c) \/ TimeOut(c) \/ Joined(c)
             \/ HttpRequest(c) \/ HttpOperatorAnswers(c)
      PROVE  McpInv'
  BY <1>1, CallStep, StartStep, SpawnStep, WriteStep, ReadLineStep, ReadOtherStep,
     ReadResponseStep, OperatorStep, EndOfStreamStep, TimeOutStep, JoinedStep, HttpRequestStep
<1>2. CASE CloseClient
  BY <1>2, CloseStep
<1>3. ASSUME NEW p \in DOMAIN server, ServerAnswers(p) \/ ServerNoise(p) \/ ServerDies(p)
      PROVE  McpInv'
  <2>1. p \in 1 .. Len(server)
    BY DEF McpInv, McpTypeOK
  <2> QED
    BY <1>3, <2>1, ServerStep
<1>4. CASE UNCHANGED mcpVars
  BY <1>4 DEF mcpVars, McpInv, McpTypeOK, NumbersGiven, CallInv, OwnAnswers, Waits
<1> QED
  BY <1>1, <1>2, <1>3, <1>4 DEF McpNext

(* A call of an MCP tool that returns, returns the answer to the request   *)
(* this very call wrote last: whatever parallel calls share its pipe,      *)
(* however many of its servers were replaced, and whatever late answers or *)
(* noise are read on the way, for any number of threads, with every        *)
(* transport (mcp/client.py request, _reset_process_after_failure).        *)
THEOREM AnswersOwned == McpSpec => []AnswerIsForItsCall
<1>1. McpInit => McpInv
  BY McpInvInit
<1>2. McpInv /\ [McpNext]_mcpVars => McpInv'
  BY McpInvStep
<1>3. McpInv => AnswerIsForItsCall
  BY DEF McpInv, CallInv, AnswerIsForItsCall
<1> QED
  BY <1>1, <1>2, <1>3, PTL DEF McpSpec

-----------------------------------------------------------------------------
(* PatchApply, for files and hunks of any size.  The prover has no         *)
(* induction over data: what a definition by recursion gives is shown by   *)
(* its values step by step, and the smallest number at which they would    *)
(* differ from others.                                                     *)

LEMMA LeastExists ==
  ASSUME NEW S, S \subseteq Nat, S # {}
  PROVE  \E m \in S : \A j \in S : m <= j
<1> DEFINE R == OpToRel(<, Nat)
<1>1. IsWellFoundedOn(R, Nat)
  BY NatLessThanWellFounded
<1>2. \A x, y \in Nat : y < x => <<y, x>> \in R
  BY DEF OpToRel
<1> HIDE DEF R
<1>3. PICK m \in S : \A j \in S : ~ (<<j, m>> \in R)
  BY <1>1, WFMin
<1>4. \A j \in S : ~ (j < m)
  BY <1>2, <1>3
<1>5. \A j \in S : j \in Nat /\ m \in Nat
  OBVIOUS
<1> QED
  BY <1>4, <1>5

Agree(f, g, a, n) == \A k \in a .. n : f[k] = g[k]
AgreeStepwise(f, g, a, n) ==
    \A k \in a .. n : (k # a => f[k - 1] = g[k - 1]) => f[k] = g[k]

LEMMA OneIteration ==
  ASSUME NEW a \in Nat, NEW n \in Nat, NEW f, NEW g, AgreeStepwise(f, g, a, n)
  PROVE  Agree(f, g, a, n)
<1> DEFINE Bad == {k \in a .. n : f[k] # g[k]}
<1>1. SUFFICES ASSUME Bad # {} PROVE FALSE
  BY DEF Agree
<1>2. Bad \subseteq Nat
  OBVIOUS
<1>3. PICK m \in Bad : \A j \in Bad : m <= j
  BY <1>1, <1>2, LeastExists
<1>4. m \in a .. n /\ f[m] # g[m]
  OBVIOUS
<1>5. m # a => m - 1 \in a .. n /\ ~ (m <= m - 1)
  BY <1>4
<1>6. m # a => m - 1 \notin Bad
  BY <1>3, <1>5
<1>7. m # a => f[m - 1] = g[m - 1]
  BY <1>5, <1>6
<1> QED
  BY <1>4, <1>7 DEF AgreeStepwise

Flattens(f, seqs, n) ==
    f = [i \in 1 .. n |-> IF i = 1 THEN seqs[i] ELSE f[i - 1] \o seqs[i]]

LEMMA FlattenIs ==
  ASSUME NEW seqs, NEW n \in Nat \ {0}, Len(seqs) = n, NEW f, Flattens(f, seqs, n)
  PROVE  FlattenSeq(seqs) = f[n]
<1> DEFINE t == CHOOSE r : Flattens(r, seqs, n)
<1>0. Flattens(t, seqs, n) /\ FlattenSeq(seqs) = t[n]
  BY DEF FlattenSeq, Flattens
<1> HIDE DEF t
<1>1. PICK c : Flattens(c, seqs, n) /\ FlattenSeq(seqs) = c[n]
  BY <1>0
<1>2. FlattenSeq(seqs) = c[n]
  BY <1>1
<1>3. AgreeStepwise(c, f, 1, n)
  <2> SUFFICES ASSUME NEW k \in 1 .. n, k # 1 => c[k - 1] = f[k - 1] PROVE c[k] = f[k]
    BY DEF AgreeStepwise
  <2>1. c[k] = IF k = 1 THEN seqs[k] ELSE c[k - 1] \o seqs[k]
    BY <1>1 DEF Flattens
  <2>2. f[k] = IF k = 1 THEN seqs[k] ELSE f[k - 1] \o seqs[k]
    BY DEF Flattens
  <2> QED
    BY <2>1, <2>2
<1>4. 1 \in Nat /\ n \in Nat
  OBVIOUS
<1>5. Agree(c, f, 1, n)
  BY <1>3, <1>4, OneIteration, Zenon
<1> QED
  BY <1>2, <1>5 DEF Agree

-----------------------------------------------------------------------------
(* What is found in a text and what is put into it.                        *)

LEMMA LinesJoin ==
  ASSUME NEW x \in Seq(Lines), NEW y \in Seq(Lines), NEW z \in Seq(Lines)
  PROVE  (x \o y) \o z = x \o (y \o z)
OBVIOUS

LEMMA LinesConcat ==
  ASSUME NEW x \in Seq(Lines), NEW y \in Seq(Lines)
  PROVE  /\ x \o y \in Seq(Lines) /\ Len(x \o y) = Len(x) + Len(y)
         /\ \A j \in 1 .. Len(x) : (x \o y)[j] = x[j]
         /\ \A j \in 1 .. Len(y) : (x \o y)[Len(x) + j] = y[j]
OBVIOUS

LEMMA LinesSub ==
  ASSUME NEW t \in Seq(Lines), NEW a \in 0 .. Len(t), NEW b \in a .. Len(t)
  PROVE  /\ SubSeq(t, a + 1, b) \in Seq(Lines) /\ Len(SubSeq(t, a + 1, b)) = b - a
         /\ \A k \in 1 .. b - a : SubSeq(t, a + 1, b)[k] = t[a + k]
OBVIOUS

LEMMA LinesAdjacent ==
  ASSUME NEW t \in Seq(Lines), NEW a \in 0 .. Len(t), NEW b \in a .. Len(t),
         NEW c \in b .. Len(t)
  PROVE  SubSeq(t, a + 1, b) \o SubSeq(t, b + 1, c) = SubSeq(t, a + 1, c)
<1>1. a + 1 \in 1 .. Len(t) + 1 /\ b \in (a + 1) - 1 .. Len(t) /\ c \in b .. Len(t)
  OBVIOUS
<1> QED
  BY <1>1, ConcatAdjacentSubSeq

\* Two texts with the same lines.
LEMMA SameLines ==
  ASSUME NEW x \in Seq(Lines), NEW y \in Seq(Lines), Len(x) = Len(y),
         \A k \in 1 .. Len(x) : x[k] = y[k]
  PROVE  x = y
OBVIOUS

\* A part of a text, put in by itself.
LEMMA SplicedIs ==
  ASSUME NEW t \in Seq(Lines), NEW p \in 0 .. Len(t), NEW d \in Nat, p + d <= Len(t),
         NEW a \in Seq(Lines)
  PROVE  /\ Spliced(t, p, d, a) \in Seq(Lines)
         /\ Len(Spliced(t, p, d, a)) = (Len(t) - d) + Len(a)
         /\ \A k \in 1 .. p : Spliced(t, p, d, a)[k] = t[k]
         /\ \A k \in 1 .. Len(a) : Spliced(t, p, d, a)[p + k] = a[k]
         /\ \A k \in (p + d) + 1 .. Len(t) : Spliced(t, p, d, a)[(k - d) + Len(a)] = t[k]
<1> DEFINE x == SubSeq(t, 1, p)
           z == SubSeq(t, p + d + 1, Len(t))
           xa == x \o a
           s == xa \o z
           n == Len(t)
           m == Len(a)
<1>1. n \in Nat /\ m \in Nat /\ p \in Nat
  OBVIOUS
<1>2. x \in Seq(Lines) /\ Len(x) = p /\ \A k \in 1 .. p : x[k] = t[k]
  OBVIOUS
<1>3. z \in Seq(Lines) /\ Len(z) = n - (p + d) /\ \A k \in 1 .. n - (p + d) : z[k] = t[p + d + k]
  OBVIOUS
<1>4. s = Spliced(t, p, d, a)
  BY DEF Spliced
<1> HIDE DEF x, z, n, m, xa
<1>5. /\ xa \in Seq(Lines) /\ Len(xa) = p + m
      /\ \A k \in 1 .. p : xa[k] = x[k]
      /\ \A k \in 1 .. m : xa[p + k] = a[k]
  BY <1>2, LinesConcat, Zenon DEF xa, m
<1> HIDE DEF s
<1>6. /\ s \in Seq(Lines) /\ Len(s) = (p + m) + (n - (p + d))
      /\ \A k \in 1 .. p + m : s[k] = xa[k]
      /\ \A k \in 1 .. n - (p + d) : s[(p + m) + k] = z[k]
  <2>1. xa \in Seq(Lines) /\ z \in Seq(Lines)
    BY <1>3, <1>5
  <2>2. /\ s \in Seq(Lines) /\ Len(s) = Len(xa) + Len(z)
        /\ \A k \in 1 .. Len(xa) : s[k] = xa[k]
        /\ \A k \in 1 .. Len(z) : s[Len(xa) + k] = z[k]
    BY <2>1, LinesConcat, Zenon DEF s
  <2> QED
    BY <1>3, <1>5, <2>2
<1>7. Len(s) = (n - d) + m
  BY <1>1, <1>6
<1>8. ASSUME NEW k \in 1 .. p PROVE s[k] = t[k]
  <2>1. k \in 1 .. p + m
    BY <1>1
  <2> QED
    BY <1>2, <1>5, <1>6, <2>1
<1>9. ASSUME NEW k \in 1 .. m PROVE s[p + k] = a[k]
  <2>1. p + k \in 1 .. p + m
    BY <1>1
  <2> QED
    BY <1>5, <1>6, <2>1
<1>10. ASSUME NEW k \in (p + d) + 1 .. n PROVE s[(k - d) + m] = t[k]
  <2>1. k - (p + d) \in 1 .. n - (p + d) /\ (p + m) + (k - (p + d)) = (k - d) + m
        /\ (p + d) + (k - (p + d)) = k
    BY <1>1
  <2> QED
    BY <1>3, <1>6, <2>1
<1> QED
  BY <1>4, <1>6, <1>7, <1>8, <1>9, <1>10 DEF m, n

\* The lines of a text x that is t with a part put in.
SplicedText(x, t, p, d, a) ==
    /\ x \in Seq(Lines)
    /\ Len(x) = (Len(t) - d) + Len(a)
    /\ \A k \in 1 .. p : x[k] = t[k]
    /\ \A k \in 1 .. Len(a) : x[p + k] = a[k]
    /\ \A k \in (p + d) + 1 .. Len(t) : x[(k - d) + Len(a)] = t[k]

LEMMA SplicedIsText ==
  ASSUME NEW t \in Seq(Lines), NEW p \in 0 .. Len(t), NEW d \in Nat, p + d <= Len(t),
         NEW a \in Seq(Lines)
  PROVE  SplicedText(Spliced(t, p, d, a), t, p, d, a)
<1> DEFINE x == Spliced(t, p, d, a)
<1>1. /\ x \in Seq(Lines)
      /\ Len(x) = (Len(t) - d) + Len(a)
      /\ \A k \in 1 .. p : x[k] = t[k]
      /\ \A k \in 1 .. Len(a) : x[p + k] = a[k]
      /\ \A k \in (p + d) + 1 .. Len(t) : x[(k - d) + Len(a)] = t[k]
  BY SplicedIs
<1> HIDE DEF x
<1>2. SplicedText(x, t, p, d, a)
  BY <1>1, Zenon DEF SplicedText
<1> QED
  BY <1>2 DEF x

\* Lines that stay may be counted to what is put in.
CountsKept(t, f, b, d, x, a) == Spliced(t, f, b + d, x \o a) = Spliced(t, f + b, d, a)

LEMMA SplicedKept ==
  ASSUME NEW t \in Seq(Lines), NEW f \in 0 .. Len(t), NEW b \in Nat, NEW d \in Nat,
         f + b + d <= Len(t), NEW x \in Seq(Lines), NEW a \in Seq(Lines),
         x = SubSeq(t, f + 1, f + b)
  PROVE  CountsKept(t, f, b, d, x, a)
<1> DEFINE u == SubSeq(t, 1, f)
           z == SubSeq(t, f + (b + d) + 1, Len(t))
<1>1. f \in Nat /\ Len(t) \in Nat /\ f + (b + d) + 1 = (f + b) + d + 1
      /\ 0 \in 0 .. Len(t) /\ f \in 0 .. Len(t) /\ f + b \in f .. Len(t) /\ 0 + 1 = 1
  OBVIOUS
<1>2. u \o x = SubSeq(t, 1, f + b)
  BY <1>1, LinesAdjacent
<1>3. u \in Seq(Lines)
  OBVIOUS
<1>4. u \o (x \o a) = SubSeq(t, 1, f + b) \o a
  <2>1. (u \o x) \o a = u \o (x \o a)
    BY <1>3, LinesJoin, Zenon
  <2> QED
    BY <1>2, <2>1
<1>5. Spliced(t, f, b + d, x \o a) = (u \o (x \o a)) \o z
  BY Zenon DEF Spliced
<1>6. Spliced(t, f + b, d, a) = (SubSeq(t, 1, f + b) \o a) \o z
  BY <1>1 DEF Spliced
<1> HIDE DEF u, z
<1> QED
  BY <1>4, <1>5, <1>6 DEF CountsKept

\* Two parts may be put in in either order.
EitherOrder(t, p, d, a, q, e, b) ==
    Spliced(Spliced(t, p, d, a), (q - d) + Len(a), e, b) = Spliced(Spliced(t, q, e, b), p, d, a)

LEMMA SplicedTwice ==
  ASSUME NEW t \in Seq(Lines), NEW p \in 0 .. Len(t), NEW d \in Nat, NEW a \in Seq(Lines),
         NEW q \in 0 .. Len(t), NEW e \in Nat, NEW b \in Seq(Lines),
         p + d <= q, q + e <= Len(t)
  PROVE  EitherOrder(t, p, d, a, q, e, b)
<1> DEFINE n == Len(t)
           la == Len(a)
           lb == Len(b)
           r == Spliced(t, p, d, a)
           s == Spliced(t, q, e, b)
           q2 == (q - d) + la
           v == Spliced(r, q2, e, b)
           w == Spliced(s, p, d, a)
<1>1. n \in Nat /\ la \in Nat /\ lb \in Nat /\ p \in Nat /\ q \in Nat
  OBVIOUS
<1>2. p + d <= n
  BY <1>1
<1> HIDE DEF n, la, lb
<1>3. /\ r \in Seq(Lines) /\ Len(r) = (n - d) + la
      /\ \A k \in 1 .. p : r[k] = t[k]
      /\ \A k \in 1 .. la : r[p + k] = a[k]
      /\ \A k \in (p + d) + 1 .. n : r[(k - d) + la] = t[k]
  <2>1. SplicedText(r, t, p, d, a)
    BY <1>2, SplicedIsText, Zenon DEF n
  <2> HIDE DEF r
  <2> QED
    BY <2>1, Zenon DEF SplicedText, n, la
<1>4. /\ s \in Seq(Lines) /\ Len(s) = (n - e) + lb
      /\ \A k \in 1 .. q : s[k] = t[k]
      /\ \A k \in 1 .. lb : s[q + k] = b[k]
      /\ \A k \in (q + e) + 1 .. n : s[(k - e) + lb] = t[k]
  <2>1. SplicedText(s, t, q, e, b)
    BY SplicedIsText, Zenon
  <2> HIDE DEF s
  <2> QED
    BY <2>1, Zenon DEF SplicedText, n, lb
<1> HIDE DEF r, s
<1>5. q2 \in 0 .. Len(r) /\ q2 + e <= Len(r)
  BY <1>1, <1>3 DEF n
<1>6. /\ v \in Seq(Lines) /\ Len(v) = (Len(r) - e) + lb
      /\ \A k \in 1 .. q2 : v[k] = r[k]
      /\ \A k \in 1 .. lb : v[q2 + k] = b[k]
      /\ \A k \in (q2 + e) + 1 .. Len(r) : v[(k - e) + lb] = r[k]
  <2> HIDE DEF q2
  <2>1. r \in Seq(Lines) /\ e \in Nat /\ b \in Seq(Lines)
    BY <1>3
  <2>2. SplicedText(v, r, q2, e, b)
    BY <2>1, <1>5, SplicedIsText, Zenon DEF v
  <2> HIDE DEF v
  <2> QED
    BY <2>2, Zenon DEF SplicedText, lb
<1>7. p \in 0 .. Len(s) /\ p + d <= Len(s)
  BY <1>1, <1>4 DEF n
<1>8. /\ w \in Seq(Lines) /\ Len(w) = (Len(s) - d) + la
      /\ \A k \in 1 .. p : w[k] = s[k]
      /\ \A k \in 1 .. la : w[p + k] = a[k]
      /\ \A k \in (p + d) + 1 .. Len(s) : w[(k - d) + la] = s[k]
  <2>1. s \in Seq(Lines) /\ d \in Nat /\ a \in Seq(Lines)
    BY <1>4
  <2>2. SplicedText(w, s, p, d, a)
    BY <2>1, <1>7, SplicedIsText, Zenon DEF w
  <2> HIDE DEF w
  <2> QED
    BY <2>2, Zenon DEF SplicedText, la
<1> HIDE DEF v, w
<1>9. Len(v) = Len(w)
  BY <1>1, <1>3, <1>4, <1>6, <1>8
<1>10. ASSUME NEW k \in 1 .. Len(v) PROVE v[k] = w[k]
  <2>0. k \in Nat /\ k >= 1 /\ k <= (((n - d) + la) - e) + lb
    BY <1>1, <1>3, <1>6
  <2>1. CASE k <= p
    <3>1. k \in 1 .. p /\ k \in 1 .. q2 /\ k \in 1 .. q
      BY <1>1, <2>0, <2>1
    <3> QED
      BY <1>3, <1>4, <1>6, <1>8, <3>1
  <2>2. CASE k > p /\ k <= p + la
    <3>1. k - p \in 1 .. la /\ p + (k - p) = k /\ k \in 1 .. q2
      BY <1>1, <2>0, <2>2
    <3>2. v[k] = a[k - p]
      BY <1>3, <1>6, <3>1
    <3>3. w[k] = a[k - p]
      BY <1>8, <3>1
    <3> QED
      BY <3>2, <3>3
  <2>3. CASE k > p + la /\ k <= q2
    <3> DEFINE i == (k - la) + d
    <3>1. /\ i \in (p + d) + 1 .. n /\ i \in 1 .. q /\ (i - d) + la = k /\ k \in 1 .. q2
          /\ i \in (p + d) + 1 .. Len(s)
      BY <1>1, <1>4, <2>0, <2>3 DEF n
    <3>2. v[k] = t[i]
      BY <1>3, <1>6, <3>1
    <3>3. w[k] = t[i]
      BY <1>4, <1>8, <3>1
    <3> QED
      BY <3>2, <3>3
  <2>4. CASE k > q2 /\ k <= q2 + lb
    <3> DEFINE i == k - q2
    <3>1. /\ i \in 1 .. lb /\ q2 + i = k /\ q + i \in (p + d) + 1 .. Len(s)
          /\ ((q + i) - d) + la = k
      <4>1. q + e <= n
        BY DEF n
      <4>2. Len(s) = (n - e) + lb
        BY <1>4
      <4> HIDE DEF n
      <4>3. i \in 1 .. lb /\ q2 + i = k
        BY <1>1, <2>0, <2>4
      <4>4. q + i \in (p + d) + 1 .. Len(s) /\ ((q + i) - d) + la = k
        <5> HIDE DEF i
        <5> QED
          BY <1>1, <2>0, <4>1, <4>2, <4>3
      <4> QED
        BY <4>3, <4>4
    <3>2. v[k] = b[i]
      BY <1>6, <3>1
    <3>3. w[k] = b[i]
      BY <1>4, <1>8, <3>1
    <3> QED
      BY <3>2, <3>3
  <2>5. CASE k > q2 + lb
    <3> DEFINE j == (k - lb) + e
               i == (j - la) + d
    <3>1. /\ j \in (q2 + e) + 1 .. Len(r) /\ (j - e) + lb = k
          /\ i \in (p + d) + 1 .. n /\ (i - d) + la = j
          /\ i \in (q + e) + 1 .. n
          /\ (i - e) + lb \in (p + d) + 1 .. Len(s)
          /\ (((i - e) + lb) - d) + la = k
      BY <1>1, <1>3, <1>4, <2>0, <2>5
    <3>2. v[k] = t[i]
      <4> HIDE DEF i, j
      <4>1. v[(j - e) + lb] = r[j] /\ r[(i - d) + la] = t[i]
        BY <1>3, <1>6, <3>1
      <4> QED
        BY <3>1, <4>1
    <3>3. w[k] = t[i]
      BY <1>4, <1>8, <3>1
    <3> QED
      BY <3>2, <3>3
  <2>6. q2 \in Int /\ k \in Int
    BY <1>1, <2>0
  <2> HIDE DEF q2
  <2> QED
    BY <1>1, <2>1, <2>2, <2>3, <2>4, <2>5, <2>6
<1>11. v = w
  BY <1>6, <1>8, <1>9, <1>10, SameLines
<1> QED
  BY <1>11 DEF v, w, r, s, la, EitherOrder

LEMMA MinIs ==
  ASSUME NEW S, S \subseteq Nat, S # {}
  PROVE  Min(S) \in S /\ \A j \in S : Min(S) <= j
BY LeastExists DEF Min

LEMMA MinIsOnly ==
  ASSUME NEW S, S \subseteq Nat, NEW x \in S, \A j \in S : x <= j
  PROVE  Min(S) = x
<1>1. Min(S) \in S /\ Min(S) <= x /\ x <= Min(S)
  BY MinIs
<1>2. Min(S) \in Nat /\ x \in Nat
  BY <1>1
<1> QED
  BY <1>1, <1>2

LEMMA OnlyMatch ==
  ASSUME NEW S, IsFiniteSet(S), Cardinality(S) = 1, NEW x \in S
  PROVE  S = {x}
BY FS_Singleton

LEMMA MatchesAre ==
  ASSUME NEW l, NEW e, Len(l) \in Nat, Len(e) \in Nat
  PROVE  /\ CandidateMatches(l, e) \subseteq Nat /\ IsFiniteSet(CandidateMatches(l, e))
         /\ \A k : k \in CandidateMatches(l, e) <=>
               /\ k \in 1 .. (Len(l) - Len(e)) + 1
               /\ SubSeq(l, k, (k + Len(e)) - 1) = e
<1> DEFINE n == (Len(l) - Len(e)) + 1
<1>1. n \in Int
  OBVIOUS
<1>2. IsFiniteSet(1 .. n)
  <2> HIDE DEF n
  <2> QED
    BY <1>1, FS_Interval
<1>3. CandidateMatches(l, e) \subseteq 1 .. n
  BY DEF CandidateMatches
<1>4. CandidateMatches(l, e) \subseteq Nat
  <2> HIDE DEF n
  <2> QED
    BY <1>1, <1>3
<1>5. \A k : k \in CandidateMatches(l, e) <=>
               /\ k \in 1 .. (Len(l) - Len(e)) + 1
               /\ SubSeq(l, k, (k + Len(e)) - 1) = e
  BY DEF CandidateMatches
<1>6. IsFiniteSet(CandidateMatches(l, e))
  <2> HIDE DEF n
  <2> QED
    BY <1>2, <1>3, FS_Subset
<1> QED
  BY <1>4, <1>5, <1>6

LEMMA ChosenOne ==
  ASSUME NEW x, NEW at
  PROVE  ChosenMatches({x}, at) = {x} /\ ChosenMatches({}, at) = {}
<1>1. Cardinality({x}) = 1
  BY FS_Singleton
<1>2. ChosenMatches({x}, at) = {x}
  BY <1>1 DEF ChosenMatches
<1>3. ChosenMatches({}, at) = {}
  BY DEF ChosenMatches
<1> QED
  BY <1>2, <1>3

LEMMA ApplyLands ==
  ASSUME NEW state, state.ok, NEW op, op.old # << >>, NEW f \in Nat, NEW new,
         \/ /\ CandidateMatches(state.lines, op.old) = {f + 1}
            /\ new = op.new
         \/ /\ CandidateMatches(state.lines, op.old) = {}
            /\ CandidateMatches(Stripped(state.lines), Stripped(op.old)) = {f + 1}
            /\ new = ReindentReplacement(op.new, SubSeq(state.lines, f + 1, f + Len(op.old)), op.old)
  PROVE  ApplyOperation(state, op)
           = [ok |-> TRUE, lines |-> Spliced(state.lines, f, Len(op.old), new),
              cursor |-> f + Len(new)]
<1> DEFINE lines == state.lines
           at == ResolveAnchorIndex(lines, op.anchors, state.cursor)
           exact == CandidateMatches(lines, op.old)
           chosen == ChosenMatches(IF exact # {} THEN exact
                                   ELSE CandidateMatches(Stripped(lines), Stripped(op.old)), at)
           start == Min(chosen) - 1
           matched == SubSeq(lines, start + 1, start + Len(op.old))
           put == IF exact # {} THEN op.new ELSE ReindentReplacement(op.new, matched, op.old)
<1>1. chosen = {f + 1}
  BY ChosenOne
<1>2. start = f
  <2>1. Min({f + 1}) = f + 1
    BY MinIsOnly
  <2> HIDE DEF chosen
  <2> QED
    BY <1>1, <2>1
<1>3. put = new
  <2> HIDE DEF start
  <2> QED
    BY <1>2
<1>4. ApplyOperation(state, op)
        = [ok |-> TRUE, lines |-> Spliced(lines, start, Len(op.old), put),
           cursor |-> CursorAfter(start, op.old, put)]
  <2>1. chosen # {}
    BY <1>1
  <2> HIDE DEF chosen
  <2> QED
    BY <2>1 DEF ApplyOperation, chosen
<1> HIDE DEF start, put
<1> QED
  BY <1>2, <1>3, <1>4 DEF CursorAfter

LEMMA ApplyFails ==
  ASSUME NEW state, state.ok, NEW op, op.old # << >>,
         CandidateMatches(state.lines, op.old) = {},
         CandidateMatches(Stripped(state.lines), Stripped(op.old)) = {}
  PROVE  ApplyOperation(state, op) = FailedPatch
<1> DEFINE at == ResolveAnchorIndex(state.lines, op.anchors, state.cursor)
<1>1. ChosenMatches({}, at) = {}
  BY ChosenOne
<1> HIDE DEF at
<1> QED
  BY <1>1 DEF ApplyOperation, at

LEMMA ApplyAdds ==
  ASSUME NEW state, state.ok, NEW op, op.old = << >>,
         NEW f, f = ResolveAnchorIndex(state.lines, op.anchors, state.cursor)
  PROVE  ApplyOperation(state, op)
           = [ok |-> TRUE, lines |-> Spliced(state.lines, f, 0, op.new),
              cursor |-> f + Len(op.new)]
BY DEF ApplyOperation, CursorAfter

LEMMA ApplyStopped ==
  ASSUME NEW op
  PROVE  ApplyOperation(FailedPatch, op) = FailedPatch
BY DEF ApplyOperation, FailedPatch

\* The line an anchor leads to.
Anchored(lines, anchor, at) == {k \in at + 1 .. Len(lines) : lines[k].word = anchor}
AnchorsOf(h) == IF h.anchor = NoAnchor THEN << >> ELSE <<h.anchor>>
LeadsTo(lines, anchor, at) ==
    IF Anchored(lines, anchor, at) = {} THEN at ELSE Min(Anchored(lines, anchor, at))

LEMMA AnchorLeads ==
  ASSUME NEW lines \in Seq(Lines), NEW at \in Nat, NEW h
  PROVE  ResolveAnchorIndex(lines, AnchorsOf(h), at) = LeadsTo(lines, h.anchor, at)
<1>1. CASE h.anchor = NoAnchor
  <2>1. ResolveAnchorIndex(lines, << >>, at) = at
    <3> DEFINE Body(g) == g = [k \in 0 .. 0 |->
                                 IF k = 0 THEN at ELSE AnchorFrom(lines, << >>[k], g[k - 1])]
               c == CHOOSE g : Body(g)
    <3>1. ResolveAnchorIndex(lines, << >>, at) = c[0]
      BY DEF ResolveAnchorIndex
    <3>2. Body([k \in 0 .. 0 |-> at])
      OBVIOUS
    <3>3. Body(c)
      BY <3>2, Zenon
    <3> HIDE DEF c
    <3>4. c[0] = at
      BY <3>3
    <3> QED
      BY <3>1, <3>4
  <2>2. Anchored(lines, h.anchor, at) = {}
    <3>1. ASSUME NEW k \in 1 .. Len(lines) PROVE lines[k].word # NoAnchor
      <4>1. lines[k] \in Lines
        OBVIOUS
      <4>2. \A l \in Lines : l.word # NoAnchor
        BY DEF Lines
      <4> QED
        BY <4>1, <4>2, Zenon
    <3> QED
      BY <1>1, <3>1 DEF Anchored
  <2> QED
    BY <1>1, <2>1, <2>2 DEF AnchorsOf, LeadsTo
<1>2. CASE h.anchor # NoAnchor
  <2> DEFINE a == <<h.anchor>>
             r == AnchorFrom(lines, h.anchor, at)
             Body(g) == g = [k \in 0 .. Len(a) |->
                               IF k = 0 THEN at ELSE AnchorFrom(lines, a[k], g[k - 1])]
             c == CHOOSE g : Body(g)
  <2>1. ResolveAnchorIndex(lines, a, at) = c[Len(a)]
    BY Zenon DEF ResolveAnchorIndex
  <2>2. Len(a) = 1 /\ a[1] = h.anchor
    OBVIOUS
  <2> HIDE DEF a
  <2>3. Body([k \in 0 .. Len(a) |-> IF k = 0 THEN at ELSE r])
    <3> DEFINE g == [k \in 0 .. Len(a) |-> IF k = 0 THEN at ELSE r]
    <3>1. ASSUME NEW k \in 0 .. Len(a), k # 0 PROVE AnchorFrom(lines, a[k], g[k - 1]) = r
      <4>1. k = 1 /\ g[k - 1] = at
        BY <2>2, <3>1
      <4> HIDE DEF g
      <4> QED
        BY <2>2, <4>1
    <3> QED
      BY <3>1, Zenon
  <2>4. Body(c)
    BY <2>3, Zenon
  <2> HIDE DEF c
  <2>5. c[1] = AnchorFrom(lines, a[1], c[0]) /\ c[0] = at
    BY <2>2, <2>4
  <2>6. r = LeadsTo(lines, h.anchor, at)
    BY DEF AnchorFrom, LeadsTo, Anchored
  <2> HIDE DEF r
  <2>7. ResolveAnchorIndex(lines, a, at) = LeadsTo(lines, h.anchor, at)
    BY <2>1, <2>2, <2>5, <2>6 DEF r
  <2> QED
    BY <1>2, <2>7 DEF AnchorsOf, a
<1> QED
  BY <1>1, <1>2

\* Lines as they are written in a patch.
Shifted(lines, style) == [k \in DOMAIN lines |-> Written(lines[k], style)]

LEMMA WrittenIs ==
  ASSUME NEW l \in Lines, NEW style
  PROVE  /\ Written(l, style) \in Lines /\ Written(l, style).word = l.word
         /\ Written(l, style) = Blank <=> l = Blank
         /\ style # "shifted" \/ l = Blank => Written(l, style) = l
         /\ style = "shifted" /\ l # Blank
              => /\ Written(l, style).indent = l.indent + 1
                 /\ \A i : [Written(l, style) EXCEPT !.indent = i] = [l EXCEPT !.indent = i]
<1>1. CASE style = "shifted" /\ l # Blank
  <2>1. Written(l, style) = [l EXCEPT !.indent = l.indent + 1]
    BY <1>1 DEF Written
  <2>2. l.indent \in Nat /\ l.indent + 1 # 0 /\ l.indent + 1 \in Nat
    BY DEF Lines
  <2>3. [l EXCEPT !.indent = l.indent + 1] # Blank
    BY <2>2 DEF Lines, Blank
  <2>4. [l EXCEPT !.indent = l.indent + 1] \in Lines
    BY <2>2 DEF Lines
  <2>5. /\ [l EXCEPT !.indent = l.indent + 1].word = l.word
        /\ [l EXCEPT !.indent = l.indent + 1].indent = l.indent + 1
        /\ \A i : [[l EXCEPT !.indent = l.indent + 1] EXCEPT !.indent = i] = [l EXCEPT !.indent = i]
    BY DEF Lines
  <2> QED
    BY <1>1, <2>1, <2>3, <2>4, <2>5
<1>2. CASE ~ (style = "shifted" /\ l # Blank)
  <2>1. Written(l, style) = l
    BY <1>2 DEF Written
  <2> QED
    BY <1>2, <2>1
<1> QED
  BY <1>1, <1>2

LEMMA ShiftedIs ==
  ASSUME NEW x \in Seq(Lines), NEW style
  PROVE  /\ Shifted(x, style) \in Seq(Lines) /\ Len(Shifted(x, style)) = Len(x)
         /\ \A k \in 1 .. Len(x) : Shifted(x, style)[k] = Written(x[k], style)
<1>1. \A k \in 1 .. Len(x) : Written(x[k], style) \in Lines
  BY WrittenIs
<1>2. DOMAIN x = 1 .. Len(x) /\ Len(x) \in Nat
  OBVIOUS
<1>3. Shifted(x, style) = [k \in 1 .. Len(x) |-> Written(x[k], style)]
  BY <1>2 DEF Shifted
<1> QED
  BY <1>1, <1>2, <1>3

LEMMA ShiftedSame ==
  ASSUME NEW x \in Seq(Lines), NEW style,
         style # "shifted" \/ \A k \in 1 .. Len(x) : x[k] = Blank
  PROVE  Shifted(x, style) = x
<1>1. ASSUME NEW k \in 1 .. Len(x) PROVE Shifted(x, style)[k] = x[k]
  <2>1. x[k] \in Lines
    OBVIOUS
  <2>2. Written(x[k], style) = x[k]
    BY <2>1, WrittenIs
  <2> QED
    BY <2>2, ShiftedIs
<1>2. Shifted(x, style) \in Seq(Lines) /\ Len(Shifted(x, style)) = Len(x)
  BY ShiftedIs
<1> QED
  BY <1>1, <1>2, SameLines

JoinsShifted(x, y, style) == Shifted(x \o y, style) = Shifted(x, style) \o Shifted(y, style)

LEMMA ShiftedJoins ==
  ASSUME NEW x \in Seq(Lines), NEW y \in Seq(Lines), NEW style
  PROVE  JoinsShifted(x, y, style)
<1> DEFINE u == x \o y
           a == Shifted(x, style)
           b == Shifted(y, style)
           c == Shifted(u, style)
           d == a \o b
<1>1. /\ u \in Seq(Lines) /\ Len(u) = Len(x) + Len(y)
      /\ \A j \in 1 .. Len(x) : u[j] = x[j]
      /\ \A j \in 1 .. Len(y) : u[Len(x) + j] = y[j]
  BY LinesConcat
<1>2. /\ a \in Seq(Lines) /\ Len(a) = Len(x) /\ \A k \in 1 .. Len(x) : a[k] = Written(x[k], style)
      /\ b \in Seq(Lines) /\ Len(b) = Len(y) /\ \A k \in 1 .. Len(y) : b[k] = Written(y[k], style)
  BY ShiftedIs
<1> HIDE DEF a, b, u
<1>3. c \in Seq(Lines) /\ Len(c) = Len(u) /\ \A k \in 1 .. Len(u) : c[k] = Written(u[k], style)
  BY <1>1, ShiftedIs
<1>4. /\ d \in Seq(Lines) /\ Len(d) = Len(a) + Len(b)
      /\ \A j \in 1 .. Len(a) : d[j] = a[j]
      /\ \A j \in 1 .. Len(b) : d[Len(a) + j] = b[j]
  BY <1>2, LinesConcat, Zenon
<1>5. Len(x) \in Nat /\ Len(y) \in Nat
  OBVIOUS
<1> HIDE DEF c, d
<1>6. ASSUME NEW k \in 1 .. Len(c) PROVE c[k] = d[k]
  <2>1. k \in 1 .. Len(u)
    BY <1>3
  <2>2. CASE k <= Len(x)
    <3>1. k \in 1 .. Len(x)
      BY <1>1, <1>5, <2>1, <2>2
    <3> QED
      BY <1>1, <1>2, <1>3, <1>4, <2>1, <3>1
  <2>3. CASE ~ (k <= Len(x))
    <3>1. k - Len(x) \in 1 .. Len(y) /\ Len(x) + (k - Len(x)) = k
      BY <1>1, <1>5, <2>1, <2>3
    <3>2. c[k] = Written(y[k - Len(x)], style)
      BY <1>1, <1>3, <2>1, <3>1
    <3>3. d[k] = Written(y[k - Len(x)], style)
      BY <1>2, <1>4, <3>1
    <3> QED
      BY <3>2, <3>3
  <2> QED
    BY <2>2, <2>3
<1>7. Len(c) = Len(d)
  BY <1>1, <1>2, <1>3, <1>4
<1>8. c = d
  BY <1>3, <1>4, <1>6, <1>7, SameLines
<1> QED
  BY <1>8 DEF c, d, a, b, u, JoinsShifted

LEMMA StrippedIs ==
  ASSUME NEW x \in Seq(Lines)
  PROVE  /\ Stripped(x) \in Seq(STRING) /\ Len(Stripped(x)) = Len(x)
         /\ \A k \in 1 .. Len(x) : Stripped(x)[k] = x[k].word
<1>1. \A k \in 1 .. Len(x) : x[k].word \in STRING
  <2>1. \A l \in Lines : l.word \in STRING
    BY DEF Lines
  <2> QED
    BY <2>1
<1>2. DOMAIN x = 1 .. Len(x) /\ Len(x) \in Nat
  OBVIOUS
<1>3. Stripped(x) = [k \in 1 .. Len(x) |-> x[k].word]
  BY <1>2 DEF Stripped
<1> QED
  BY <1>1, <1>2, <1>3

LEMMA SameWords ==
  ASSUME NEW x \in Seq(STRING), NEW y \in Seq(STRING), Len(x) = Len(y),
         \A k \in 1 .. Len(x) : x[k] = y[k]
  PROVE  x = y
OBVIOUS

LEMMA StrippedShifted ==
  ASSUME NEW x \in Seq(Lines), NEW style
  PROVE  Stripped(Shifted(x, style)) = Stripped(x)
<1> DEFINE w == Shifted(x, style)
           a == Stripped(w)
           b == Stripped(x)
<1>1. w \in Seq(Lines) /\ Len(w) = Len(x) /\ \A k \in 1 .. Len(x) : w[k] = Written(x[k], style)
  BY ShiftedIs
<1>2. \A k \in 1 .. Len(x) : Written(x[k], style).word = x[k].word
  BY WrittenIs
<1> HIDE DEF w
<1>3. /\ a \in Seq(STRING) /\ Len(a) = Len(w) /\ \A k \in 1 .. Len(w) : a[k] = w[k].word
      /\ b \in Seq(STRING) /\ Len(b) = Len(x) /\ \A k \in 1 .. Len(x) : b[k] = x[k].word
  BY <1>1, StrippedIs
<1> HIDE DEF a, b
<1>4. a = b
  BY <1>1, <1>2, <1>3, SameWords
<1> QED
  BY <1>4 DEF a, b, w

\* What matches a text matches it without its indentation.
LEMMA StrippedMatches ==
  ASSUME NEW l \in Seq(Lines), NEW e \in Seq(Lines)
  PROVE  CandidateMatches(l, e) \subseteq CandidateMatches(Stripped(l), Stripped(e))
<1> SUFFICES ASSUME NEW k \in CandidateMatches(l, e)
             PROVE  k \in CandidateMatches(Stripped(l), Stripped(e))
  OBVIOUS
<1> DEFINE n == Len(e)
           m == Len(l)
           s == Stripped(l)
           t == Stripped(e)
           u == SubSeq(s, k, (k + n) - 1)
<1>1. n \in Nat /\ m \in Nat
  OBVIOUS
<1>2. k \in 1 .. (m - n) + 1 /\ SubSeq(l, k, (k + n) - 1) = e
  BY <1>1, MatchesAre
<1>3. \A j \in 1 .. n : e[j] = l[(k + j) - 1] /\ (k + j) - 1 \in 1 .. m
  <2>1. k \in Nat /\ k >= 1 /\ (k + n) - 1 <= m /\ (k + n) - 1 \in Int
    BY <1>1, <1>2
  <2>2. \A j \in 1 .. n : SubSeq(l, k, (k + n) - 1)[j] = l[(k + j) - 1]
    BY <2>1
  <2> QED
    BY <1>1, <1>2, <2>1, <2>2
<1>4. /\ s \in Seq(STRING) /\ Len(s) = m /\ \A j \in 1 .. m : s[j] = l[j].word
      /\ t \in Seq(STRING) /\ Len(t) = n /\ \A j \in 1 .. n : t[j] = e[j].word
  BY StrippedIs
<1> HIDE DEF s, t, n, m
<1>5. k \in Nat /\ k >= 1 /\ (k + n) - 1 <= m /\ (k + n) - 1 \in Int /\ (k + n) - 1 >= k - 1
  BY <1>1, <1>2
<1>6. u \in Seq(STRING) /\ Len(u) = n /\ \A j \in 1 .. n : u[j] = s[(k + j) - 1]
  BY <1>1, <1>4, <1>5
<1> HIDE DEF u
<1>7. u = t
  <2>1. ASSUME NEW j \in 1 .. n PROVE u[j] = t[j]
    <3>1. u[j] = s[(k + j) - 1] /\ (k + j) - 1 \in 1 .. m
      BY <1>3, <1>6
    <3>2. s[(k + j) - 1] = l[(k + j) - 1].word
      BY <1>4, <3>1
    <3>3. t[j] = e[j].word /\ e[j] = l[(k + j) - 1]
      BY <1>3, <1>4
    <3> QED
      BY <3>1, <3>2, <3>3
  <2> QED
    BY <1>4, <1>6, <2>1, SameWords
<1>8. k \in 1 .. (Len(s) - Len(t)) + 1 /\ SubSeq(s, k, (k + Len(t)) - 1) = t
  BY <1>2, <1>4, <1>7 DEF u
<1>9. Len(s) \in Nat /\ Len(t) \in Nat
  BY <1>1, <1>4
<1> QED
  BY <1>8, <1>9, MatchesAre DEF s, t

\* The shift of a hunk is undone where its lines are found without it.
LEMMA Reindented ==
  ASSUME NEW x \in Seq(Lines), NEW y \in Seq(Lines), Aligned(x, y)
  PROVE  ReindentReplacement(Shifted(y, "shifted"), x, Shifted(x, "shifted")) = y
<1> DEFINE v == Shifted(x, "shifted")
           w == Shifted(y, "shifted")
           base == IF KnownIn(v) = {} THEN 0 ELSE x[Min(KnownIn(v))].indent
           low == Min(IndentsOf(w))
           r == ReindentReplacement(w, x, v)
<1>1. /\ v \in Seq(Lines) /\ Len(v) = Len(x) /\ w \in Seq(Lines) /\ Len(w) = Len(y)
      /\ \A k \in 1 .. Len(x) : v[k] = Written(x[k], "shifted")
      /\ \A k \in 1 .. Len(y) : w[k] = Written(y[k], "shifted")
  BY ShiftedIs
<1>2. /\ \A k \in 1 .. Len(x) : v[k] = Blank <=> x[k] = Blank
      /\ \A k \in 1 .. Len(y) : w[k] = Blank <=> y[k] = Blank
      /\ \A k \in 1 .. Len(y) : y[k] # Blank =>
           /\ w[k].indent = y[k].indent + 1
           /\ \A i : [w[k] EXCEPT !.indent = i] = [y[k] EXCEPT !.indent = i]
  <2>1. (\A k \in 1 .. Len(x) : x[k] \in Lines) /\ \A k \in 1 .. Len(y) : y[k] \in Lines
    OBVIOUS
  <2> HIDE DEF v, w
  <2>2. ASSUME NEW k \in 1 .. Len(x) PROVE v[k] = Blank <=> x[k] = Blank
    BY <1>1, <2>1, WrittenIs
  <2>3. ASSUME NEW k \in 1 .. Len(y)
        PROVE  /\ w[k] = Blank <=> y[k] = Blank
               /\ y[k] # Blank =>
                    /\ w[k].indent = y[k].indent + 1
                    /\ \A i : [w[k] EXCEPT !.indent = i] = [y[k] EXCEPT !.indent = i]
    <3>1. w[k] = Written(y[k], "shifted") /\ y[k] \in Lines
      BY <1>1, <2>1
    <3> QED
      <4> DEFINE z == Written(y[k], "shifted")
      <4>1. /\ z = Blank <=> y[k] = Blank
            /\ y[k] # Blank =>
                 /\ z.indent = y[k].indent + 1
                 /\ \A i : [z EXCEPT !.indent = i] = [y[k] EXCEPT !.indent = i]
        BY <3>1, WrittenIs, Zenon
      <4>2. w[k] = z
        BY <3>1
      <4> HIDE DEF z
      <4> QED
        BY <4>1, <4>2, Zenon
  <2> QED
    BY <2>2, <2>3
<1>3. r = [k \in DOMAIN w |-> IF w[k] = Blank THEN Blank
                              ELSE [w[k] EXCEPT !.indent = (base + w[k].indent) - low]]
  BY Zenon DEF ReindentReplacement, KnownIn, IndentsOf
<1> HIDE DEF v, w
<1>4. KnownIn(v) = KnownIn(x) /\ KnownIn(w) = KnownIn(y)
  BY <1>1, <1>2 DEF KnownIn
<1>5. KnownIn(y) \subseteq 1 .. Len(y) /\ DOMAIN w = 1 .. Len(y)
  BY <1>1 DEF KnownIn
<1>6. ASSUME NEW k \in 1 .. Len(y), y[k] # Blank
      PROVE  /\ base \in Nat /\ low \in Nat /\ low = base + 1 /\ y[k].indent \in Nat
  <2>1. k \in KnownIn(y)
    BY <1>6 DEF KnownIn
  <2>2. \A j \in 1 .. Len(y) : y[j].indent \in Nat
    <3>1. \A l \in Lines : l.indent \in Nat
      BY DEF Lines
    <3> QED
      BY <3>1
  <2>3. IndentsOf(y) \subseteq Nat /\ IndentsOf(y) # {}
    BY <1>5, <2>1, <2>2 DEF IndentsOf
  <2> DEFINE m == Min(IndentsOf(y))
  <2>4. m \in IndentsOf(y) /\ \A j \in IndentsOf(y) : m <= j
    BY <2>3, MinIs
  <2>5. base = m
    <3> HIDE DEF m
    <3> QED
      BY <1>4, <2>3 DEF Aligned, m
  <2>6. \A j \in KnownIn(y) : w[j].indent = y[j].indent + 1
    BY <1>2, <1>5 DEF KnownIn
  <2>7. low = m + 1
    <3> HIDE DEF m
    <3>1. m \in Nat
      BY <2>3, <2>4
    <3>2. PICK j \in KnownIn(y) : m = y[j].indent
      BY <2>4 DEF IndentsOf
    <3>3. m + 1 \in IndentsOf(w)
      BY <1>4, <2>6, <3>2 DEF IndentsOf
    <3>4. ASSUME NEW i \in IndentsOf(w) PROVE i \in Nat /\ m + 1 <= i
      <4>1. PICK l \in KnownIn(y) : i = w[l].indent
        BY <1>4 DEF IndentsOf
      <4>2. i = y[l].indent + 1 /\ y[l].indent \in IndentsOf(y)
        BY <2>6, <4>1 DEF IndentsOf
      <4>3. m <= y[l].indent /\ y[l].indent \in Nat
        BY <2>3, <2>4, <4>2
      <4> QED
        BY <3>1, <4>2, <4>3
    <3> QED
      BY <3>3, <3>4, MinIsOnly
  <2>8. m \in Nat
    BY <2>3, <2>4
  <2> HIDE DEF m, low, base
  <2> QED
    BY <2>2, <2>5, <2>7, <2>8
<1> HIDE DEF low, base, r
<1>7. ASSUME NEW k \in 1 .. Len(y) PROVE r[k] = y[k]
  <2>1. CASE y[k] = Blank
    BY <1>2, <1>3, <1>5, <2>1
  <2>2. CASE y[k] # Blank
    <3> DEFINE i == (base + w[k].indent) - low
    <3>1. w[k].indent = y[k].indent + 1 /\ i = y[k].indent
      <4>1. w[k].indent = y[k].indent + 1
        BY <1>2, <2>2, Zenon
      <4>2. base \in Nat /\ low \in Nat /\ low = base + 1 /\ y[k].indent \in Nat
        BY <1>6, <2>2
      <4> DEFINE old == y[k].indent
                 new == w[k].indent
      <4>3. new = old + 1 /\ old \in Nat
        BY <4>1, <4>2, Zenon
      <4> HIDE DEF old, new
      <4>4. new = old + 1 /\ (base + new) - low = old
        BY <4>2, <4>3
      <4> QED
        BY <4>4, Zenon DEF old, new
    <3> HIDE DEF i
    <3>2. r[k] = [w[k] EXCEPT !.indent = i]
      BY <1>2, <1>3, <1>5, <2>2 DEF i
    <3>3. [w[k] EXCEPT !.indent = i] = [y[k] EXCEPT !.indent = i]
      BY <1>2, <2>2
    <3>4. [y[k] EXCEPT !.indent = y[k].indent] = y[k]
      <4>1. \A l \in Lines : [l EXCEPT !.indent = l.indent] = l
        BY DEF Lines
      <4> QED
        BY <4>1
    <3> QED
      BY <3>1, <3>2, <3>3, <3>4
  <2> QED
    BY <2>1, <2>2
<1>8. r = [k \in 1 .. Len(y) |-> r[k]]
  BY <1>3, <1>5
<1>9. y = [k \in 1 .. Len(y) |-> y[k]]
  OBVIOUS
<1>10. r = y
  BY <1>7, <1>8, <1>9
<1> QED
  BY <1>10 DEF r, v, w

-----------------------------------------------------------------------------
(* What the parser makes of a patch: it goes through the raw lines one by  *)
(* one, so that what it makes of two parts is put together.                *)

Marks == {"-", "+", "space", "bare"}
RawLine ==
    [mark : Marks \union {"@@"}, is : Lines \union Anchors \union {NoAnchor}]
    \union {[mark |-> "***"]}

PState(o, a, u, v) == [ops |-> o, anchors |-> a, old |-> u, new |-> v]

Walks(f, p, s) ==
    f = [k \in 0 .. Len(s) |-> IF k = 0 THEN p ELSE ParseRaw(f[k - 1], s[k])]
WalksTo(f, p, s, q) ==
    f[0] = p /\ f[Len(s)] = q /\ \A k \in 1 .. Len(s) : f[k] = ParseRaw(f[k - 1], s[k])
ParsesTo(p, s, q) == \E f : WalksTo(f, p, s, q)

LEMMA ParsesToIs ==
  ASSUME NEW p, NEW s \in Seq(RawLine), NEW q, ParsesTo(p, s, q)
  PROVE  ParseLines(p, s) = q
<1> DEFINE n == Len(s)
           t == CHOOSE r : Walks(r, p, s)
<1>0. n \in Nat
  OBVIOUS
<1>1. PICK f : WalksTo(f, p, s, q)
  BY DEF ParsesTo
<1> DEFINE g == [k \in 0 .. Len(s) |-> f[k]]
<1>2. Walks(g, p, s)
  <2>1. ASSUME NEW k \in 0 .. n
        PROVE  g[k] = IF k = 0 THEN p ELSE ParseRaw(g[k - 1], s[k])
    <3>1. CASE k = 0
      BY <1>1, <3>1 DEF WalksTo
    <3>2. CASE k # 0
      <4>1. k \in 1 .. n /\ k - 1 \in 0 .. n
        BY <1>0, <3>2
      <4>2. g[k] = f[k] /\ g[k - 1] = f[k - 1]
        BY <4>1
      <4> HIDE DEF g
      <4> QED
        BY <1>1, <3>2, <4>1, <4>2 DEF WalksTo
    <3> QED
      BY <3>1, <3>2
  <2> QED
    BY <2>1 DEF Walks
<1>3. Walks(t, p, s) /\ ParseLines(p, s) = t[n]
  <2>1. ParseLines(p, s) = t[n]
    BY Zenon DEF ParseLines, Walks
  <2>2. Walks(t, p, s)
    <3> HIDE DEF g
    <3> QED
      BY <1>2, Zenon
  <2> QED
    BY <2>1, <2>2
<1> HIDE DEF t
<1>4. AgreeStepwise(t, g, 0, n)
  <2> SUFFICES ASSUME NEW k \in 0 .. n, k # 0 => t[k - 1] = g[k - 1] PROVE t[k] = g[k]
    BY DEF AgreeStepwise
  <2>1. t[k] = IF k = 0 THEN p ELSE ParseRaw(t[k - 1], s[k])
    BY <1>3 DEF Walks
  <2> HIDE DEF g
  <2>2. g[k] = IF k = 0 THEN p ELSE ParseRaw(g[k - 1], s[k])
    BY <1>2 DEF Walks
  <2> QED
    BY <2>1, <2>2
<1>5. Agree(t, g, 0, n)
  <2> HIDE DEF g, n
  <2>1. 0 \in Nat
    OBVIOUS
  <2> QED
    BY <1>0, <1>4, <2>1, OneIteration, Zenon
<1>6. g[n] = q
  BY <1>0, <1>1 DEF WalksTo
<1> QED
  BY <1>0, <1>3, <1>5, <1>6 DEF Agree

LEMMA RawsConcat ==
  ASSUME NEW x \in Seq(RawLine), NEW y \in Seq(RawLine)
  PROVE  /\ x \o y \in Seq(RawLine) /\ Len(x \o y) = Len(x) + Len(y)
         /\ \A j \in 1 .. Len(x) : (x \o y)[j] = x[j]
         /\ \A j \in 1 .. Len(y) : (x \o y)[Len(x) + j] = y[j]
OBVIOUS

LEMMA ParsesJoin ==
  ASSUME NEW p, NEW x \in Seq(RawLine), NEW q, NEW y \in Seq(RawLine), NEW r,
         ParsesTo(p, x, q), ParsesTo(q, y, r)
  PROVE  x \o y \in Seq(RawLine) /\ ParsesTo(p, x \o y, r)
<1> DEFINE m == Len(x)
           n == Len(y)
           s == x \o y
<1>1. m \in Nat /\ n \in Nat
  OBVIOUS
<1>2. /\ s \in Seq(RawLine) /\ Len(s) = m + n
      /\ \A j \in 1 .. m : s[j] = x[j]
      /\ \A j \in 1 .. n : s[m + j] = y[j]
  BY RawsConcat
<1>3. PICK f : WalksTo(f, p, x, q)
  BY DEF ParsesTo
<1>4. PICK g : WalksTo(g, q, y, r)
  BY DEF ParsesTo
<1>5. /\ f[0] = p /\ f[m] = q /\ g[0] = q /\ g[n] = r
      /\ \A k \in 1 .. m : f[k] = ParseRaw(f[k - 1], x[k])
      /\ \A k \in 1 .. n : g[k] = ParseRaw(g[k - 1], y[k])
  BY <1>3, <1>4 DEF WalksTo
<1> HIDE DEF m, n, s
<1> DEFINE h == [k \in 0 .. m + n |-> IF k <= m THEN f[k] ELSE g[k - m]]
<1>6. \A k \in 0 .. m : h[k] = f[k]
  BY <1>1
<1>7. \A k \in 0 .. n : h[m + k] = g[k]
  <2> SUFFICES ASSUME NEW k \in 0 .. n PROVE h[m + k] = g[k]
    OBVIOUS
  <2>1. m + k \in 0 .. m + n /\ (m + k) - m = k /\ (m + k <= m <=> k = 0) /\ m + 0 = m
    BY <1>1
  <2> QED
    BY <1>5, <2>1
<1> HIDE DEF h
<1>8. h[0] = p /\ h[m + n] = r
  <2>1. 0 \in 0 .. m /\ n \in 0 .. n
    BY <1>1
  <2> QED
    BY <1>5, <1>6, <1>7, <2>1
<1>9. ASSUME NEW k \in 1 .. m + n PROVE h[k] = ParseRaw(h[k - 1], s[k])
  <2>1. CASE k <= m
    <3>1. k \in 1 .. m /\ k \in 0 .. m /\ k - 1 \in 0 .. m
      BY <1>1, <2>1
    <3>2. h[k] = f[k] /\ h[k - 1] = f[k - 1] /\ s[k] = x[k] /\ f[k] = ParseRaw(f[k - 1], x[k])
      BY <1>2, <1>5, <1>6, <3>1
    <3> QED
      BY <3>2
  <2>2. CASE ~ (k <= m)
    <3> DEFINE j == k - m
    <3>1. j \in 1 .. n /\ j \in 0 .. n /\ j - 1 \in 0 .. n /\ m + j = k /\ m + (j - 1) = k - 1
      BY <1>1, <2>2
    <3> HIDE DEF j
    <3>2. h[m + j] = g[j] /\ h[m + (j - 1)] = g[j - 1] /\ s[m + j] = y[j]
          /\ g[j] = ParseRaw(g[j - 1], y[j])
      BY <1>2, <1>5, <1>7, <3>1
    <3> QED
      BY <3>1, <3>2
  <2> QED
    BY <2>1, <2>2
<1>10. WalksTo(h, p, s, r)
  BY <1>2, <1>8, <1>9 DEF WalksTo
<1> QED
  BY <1>2, <1>10 DEF ParsesTo, s

LEMMA ParsesOne ==
  ASSUME NEW p, NEW r \in RawLine
  PROVE  <<r>> \in Seq(RawLine) /\ ParsesTo(p, <<r>>, ParseRaw(p, r))
<1> DEFINE s == <<r>>
           q == ParseRaw(p, r)
           f == [k \in 0 .. 1 |-> IF k = 0 THEN p ELSE q]
<1>1. s \in Seq(RawLine) /\ Len(s) = 1 /\ s[1] = r
  OBVIOUS
<1>2. f[0] = p /\ f[1] = q
  OBVIOUS
<1> HIDE DEF s, f
<1>3. WalksTo(f, p, s, q)
  BY <1>1, <1>2 DEF WalksTo
<1>4. ParsesTo(p, s, q)
  BY <1>3, Zenon DEF ParsesTo
<1> QED
  BY <1>1, <1>4 DEF s

LEMMA OneMore ==
  ASSUME NEW u \in Seq(Lines), NEW s \in Seq(Lines), NEW k \in 1 .. Len(s)
  PROVE  Append(u \o SubSeq(s, 1, k - 1), s[k]) = u \o SubSeq(s, 1, k)
<1>1. k \in Nat /\ k - 1 \in Nat /\ s[k] \in Lines
  OBVIOUS
<1>2. SubSeq(s, 1, k) = Append(SubSeq(s, 1, k - 1), s[k])
  OBVIOUS
<1>3. SubSeq(s, 1, k - 1) \in Seq(Lines)
  OBVIOUS
<1> QED
  BY <1>1, <1>2, <1>3

\* A run of lines with the same mark.
RunState(o, a, u, v, mark, s, k) ==
    PState(o, a, IF mark = "+" THEN u ELSE u \o SubSeq(s, 1, k),
                 IF mark = "-" THEN v ELSE v \o SubSeq(s, 1, k))
AfterRun(o, a, u, v, mark, s) ==
    PState(o, a, IF mark = "+" THEN u ELSE u \o s, IF mark = "-" THEN v ELSE v \o s)

LEMMA RunStep ==
  ASSUME NEW o, NEW a, NEW u \in Seq(Lines), NEW v \in Seq(Lines), NEW mark \in Marks,
         NEW s \in Seq(Lines), NEW k \in 1 .. Len(s)
  PROVE  RunState(o, a, u, v, mark, s, k)
           = ParseRaw(RunState(o, a, u, v, mark, s, k - 1), [mark |-> mark, is |-> s[k]])
<1> DEFINE b == SubSeq(s, 1, k - 1)
           c == SubSeq(s, 1, k)
<1>1. Append(u \o b, s[k]) = u \o c /\ Append(v \o b, s[k]) = v \o c
  BY OneMore
<1> HIDE DEF b, c
<1>2. /\ RunState(o, a, u, v, mark, s, k)
           = PState(o, a, IF mark = "+" THEN u ELSE u \o c, IF mark = "-" THEN v ELSE v \o c)
      /\ RunState(o, a, u, v, mark, s, k - 1)
           = PState(o, a, IF mark = "+" THEN u ELSE u \o b, IF mark = "-" THEN v ELSE v \o b)
  BY DEF RunState, b, c
<1> DEFINE ub == u \o b
           vb == v \o b
<1>6. Append(ub, s[k]) = u \o c /\ Append(vb, s[k]) = v \o c
  BY <1>1
<1>7. /\ RunState(o, a, u, v, mark, s, k - 1)
           = PState(o, a, IF mark = "+" THEN u ELSE ub, IF mark = "-" THEN v ELSE vb)
  BY <1>2
<1> HIDE DEF ub, vb
<1> DEFINE l == s[k]
<1>8. Append(ub, l) = u \o c /\ Append(vb, l) = v \o c
  BY <1>6
<1> DEFINE uc == u \o c
           vc == v \o c
<1>9. RunState(o, a, u, v, mark, s, k)
           = PState(o, a, IF mark = "+" THEN u ELSE uc, IF mark = "-" THEN v ELSE vc)
  BY <1>2
<1>10. Append(ub, l) = uc /\ Append(vb, l) = vc
  BY <1>8
<1> HIDE DEF l, uc, vc
<1>3. CASE mark = "-"
  <2>1. ParseRaw(PState(o, a, ub, v), [mark |-> "-", is |-> l]) = PState(o, a, Append(ub, l), v)
    BY DEF ParseRaw, PState
  <2> QED
    BY <1>7, <1>9, <1>10, <1>3, <2>1 DEF l
<1>4. CASE mark = "+"
  <2>1. ParseRaw(PState(o, a, u, vb), [mark |-> "+", is |-> l]) = PState(o, a, u, Append(vb, l))
    BY DEF ParseRaw, PState
  <2> QED
    BY <1>7, <1>9, <1>10, <1>4, <2>1 DEF l
<1>5. CASE mark \in {"space", "bare"}
  <2>1. ParseRaw(PState(o, a, ub, vb), [mark |-> mark, is |-> l])
          = PState(o, a, Append(ub, l), Append(vb, l))
    BY <1>5 DEF ParseRaw, PState
  <2> QED
    BY <1>7, <1>9, <1>10, <1>5, <2>1 DEF l
<1> QED
  BY <1>3, <1>4, <1>5 DEF Marks

LEMMA RawLinesAre ==
  ASSUME NEW l \in Seq(Lines), NEW mark \in Marks, NEW style
  PROVE  /\ RawLines(l, mark, style) \in Seq(RawLine)
         /\ Len(RawLines(l, mark, style)) = Len(l)
         /\ \A k \in 1 .. Len(l) :
              RawLines(l, mark, style)[k] = [mark |-> mark, is |-> Shifted(l, style)[k]]
<1>1. DOMAIN l = 1 .. Len(l) /\ Len(l) \in Nat
  OBVIOUS
<1>2. \A k \in 1 .. Len(l) : Shifted(l, style)[k] = Written(l[k], style)
                             /\ Shifted(l, style)[k] \in Lines
  BY ShiftedIs
<1>3. ASSUME NEW k \in 1 .. Len(l)
      PROVE  [mark |-> mark, is |-> Written(l[k], style)] \in RawLine
  <2> DEFINE w == Written(l[k], style)
  <2>1. w \in Lines
    BY <1>2
  <2> HIDE DEF w
  <2>2. [mark |-> mark, is |-> w] \in
          [mark : Marks \union {"@@"}, is : Lines \union Anchors \union {NoAnchor}]
    BY <2>1
  <2> QED
    BY <2>2 DEF RawLine, w
<1>4. RawLines(l, mark, style)
        = [k \in 1 .. Len(l) |-> [mark |-> mark, is |-> Written(l[k], style)]]
  BY <1>1 DEF RawLines
<1> DEFINE r == [k \in 1 .. Len(l) |-> [mark |-> mark, is |-> Written(l[k], style)]]
<1>5. r \in Seq(RawLine) /\ Len(r) = Len(l)
  BY <1>1, <1>3
<1>6. \A k \in 1 .. Len(l) : r[k] = [mark |-> mark, is |-> Shifted(l, style)[k]]
  BY <1>2
<1> HIDE DEF r
<1>7. RawLines(l, mark, style) = r
  BY <1>4 DEF r
<1> QED
  BY <1>5, <1>6, <1>7

LEMMA ParsesRun ==
  ASSUME NEW o, NEW a, NEW u \in Seq(Lines), NEW v \in Seq(Lines), NEW mark \in Marks,
         NEW l \in Seq(Lines), NEW style
  PROVE  /\ RawLines(l, mark, style) \in Seq(RawLine)
         /\ ParsesTo(PState(o, a, u, v), RawLines(l, mark, style),
                     AfterRun(o, a, u, v, mark, Shifted(l, style)))
<1> DEFINE s == Shifted(l, style)
           r == RawLines(l, mark, style)
           n == Len(l)
           p == PState(o, a, u, v)
           q == AfterRun(o, a, u, v, mark, s)
           f == [k \in 0 .. n |-> RunState(o, a, u, v, mark, s, k)]
<1>1. s \in Seq(Lines) /\ Len(s) = n /\ n \in Nat
  BY ShiftedIs
<1>2. /\ r \in Seq(RawLine) /\ Len(r) = n
      /\ \A k \in 1 .. n : r[k] = [mark |-> mark, is |-> s[k]]
  BY RawLinesAre
<1> HIDE DEF s, r, n
<1>3. f[0] = p
  <2>1. SubSeq(s, 1, 0) = << >> /\ u \o << >> = u /\ v \o << >> = v
    BY <1>1
  <2>2. f[0] = RunState(o, a, u, v, mark, s, 0)
    BY <1>1
  <2> HIDE DEF f
  <2> QED
    BY <2>1, <2>2 DEF RunState
<1>4. f[n] = q
  <2>1. SubSeq(s, 1, n) = s
    BY <1>1
  <2>2. f[n] = RunState(o, a, u, v, mark, s, n)
    BY <1>1
  <2> HIDE DEF f
  <2> QED
    BY <2>1, <2>2 DEF RunState, AfterRun
<1>5. ASSUME NEW k \in 1 .. n PROVE f[k] = ParseRaw(f[k - 1], r[k])
  <2>1. k \in 0 .. n /\ k - 1 \in 0 .. n /\ k \in 1 .. Len(s)
    BY <1>1
  <2>2. f[k] = RunState(o, a, u, v, mark, s, k) /\ f[k - 1] = RunState(o, a, u, v, mark, s, k - 1)
    BY <2>1
  <2> HIDE DEF f
  <2>3. RunState(o, a, u, v, mark, s, k)
          = ParseRaw(RunState(o, a, u, v, mark, s, k - 1), [mark |-> mark, is |-> s[k]])
    BY <1>1, <2>1, RunStep
  <2> QED
    BY <1>2, <2>2, <2>3
<1> HIDE DEF f, p, q
<1>6. WalksTo(f, p, r, q)
  BY <1>2, <1>3, <1>4, <1>5 DEF WalksTo
<1>7. ParsesTo(p, r, q)
  BY <1>6, Zenon DEF ParsesTo
<1> QED
  BY <1>2, <1>7 DEF p, q, r, s

-----------------------------------------------------------------------------
(* The operation of a hunk.                                                *)

StyleMark(style) == IF style = "bare" THEN "bare" ELSE "space"
OldOf(t, h, style) == Shifted(KeptLines(t, h), style) \o Shifted(DroppedLines(t, h), style)
NewOf(t, h, style) == Shifted(KeptLines(t, h), style) \o Shifted(h.add, style)
OpOf(t, h, style) ==
    [anchors |-> AnchorsOf(h), old |-> OldOf(t, h, style), new |-> NewOf(t, h, style)]
ParseStart == PState(<< >>, << >>, << >>, << >>)

LEMMA RegionIs ==
  ASSUME NEW t \in Seq(Lines), NEW h \in Regions(t)
  PROVE  /\ h.from \in 0 .. Len(t) /\ h.keep \in Nat /\ h.drop \in Nat /\ h.add \in Seq(Lines)
         /\ h.from + h.keep + h.drop <= Len(t) /\ EndOf(h) = h.from + h.keep + h.drop
         /\ h.drop > 0 \/ h.add # << >>
         /\ h.anchor \in Anchors \union {NoAnchor}
         /\ KeptLines(t, h) \in Seq(Lines) /\ Len(KeptLines(t, h)) = h.keep
         /\ DroppedLines(t, h) \in Seq(Lines) /\ Len(DroppedLines(t, h)) = h.drop
         /\ RegionLines(t, h) \in Seq(Lines) /\ Len(RegionLines(t, h)) = h.keep + h.drop
         /\ RegionLines(t, h) = KeptLines(t, h) \o DroppedLines(t, h)
<1>1. /\ h.from \in 0 .. Len(t) /\ h.keep \in 0 .. MaxRegion /\ h.drop \in 0 .. MaxRegion
      /\ h.add \in Additions /\ h.anchor \in Anchors \union {NoAnchor}
      /\ h.from + h.keep + h.drop <= Len(t) /\ (h.drop > 0 \/ h.add # << >>)
  BY DEF Regions
<1>2. h.keep \in Nat /\ h.drop \in Nat /\ h.add \in Seq(Lines)
  BY <1>1, PatchApplyAssumption DEF PatchApplyAssumption
<1>3. EndOf(h) = h.from + h.keep + h.drop
  BY DEF EndOf
<1> DEFINE b == h.from + h.keep
           c == h.from + h.keep + h.drop
<1>4. /\ h.from \in 0 .. Len(t) /\ b \in h.from .. Len(t) /\ c \in b .. Len(t)
      /\ b \in 0 .. Len(t) /\ c \in h.from .. Len(t)
      /\ b - h.from = h.keep /\ c - b = h.drop /\ c - h.from = h.keep + h.drop
  BY <1>1, <1>2
<1>5. KeptLines(t, h) = SubSeq(t, h.from + 1, b) /\ DroppedLines(t, h) = SubSeq(t, b + 1, c)
      /\ RegionLines(t, h) = SubSeq(t, h.from + 1, c)
  BY DEF KeptLines, DroppedLines, RegionLines, EndOf
<1> HIDE DEF b, c
<1>6. /\ KeptLines(t, h) \in Seq(Lines) /\ Len(KeptLines(t, h)) = h.keep
      /\ DroppedLines(t, h) \in Seq(Lines) /\ Len(DroppedLines(t, h)) = h.drop
      /\ RegionLines(t, h) \in Seq(Lines) /\ Len(RegionLines(t, h)) = h.keep + h.drop
  BY <1>4, <1>5, LinesSub
<1>7. RegionLines(t, h) = KeptLines(t, h) \o DroppedLines(t, h)
  BY <1>4, <1>5, LinesAdjacent
<1> QED
  BY <1>1, <1>2, <1>3, <1>6, <1>7

LEMMA OpIs ==
  ASSUME NEW t \in Seq(Lines), NEW h \in Regions(t), NEW style
  PROVE  /\ OldOf(t, h, style) = Shifted(RegionLines(t, h), style)
         /\ NewOf(t, h, style) = Shifted(KeptLines(t, h) \o h.add, style)
         /\ OldOf(t, h, style) \in Seq(Lines) /\ NewOf(t, h, style) \in Seq(Lines)
         /\ Len(OldOf(t, h, style)) = h.keep + h.drop
         /\ ~ (OldOf(t, h, style) = << >> /\ NewOf(t, h, style) = << >>)
<1> DEFINE k == KeptLines(t, h)
           d == DroppedLines(t, h)
           r == RegionLines(t, h)
           a == h.add
<1>1. /\ k \in Seq(Lines) /\ d \in Seq(Lines) /\ a \in Seq(Lines) /\ r \in Seq(Lines)
      /\ r = k \o d /\ Len(r) = h.keep + h.drop /\ h.keep \in Nat /\ h.drop \in Nat
      /\ h.drop > 0 \/ a # << >>
  BY RegionIs
<1> DEFINE w == k \o a
<1>2. w \in Seq(Lines) /\ Len(w) = Len(k) + Len(a)
  BY <1>1, LinesConcat
<1>3. OldOf(t, h, style) = Shifted(k, style) \o Shifted(d, style)
      /\ NewOf(t, h, style) = Shifted(k, style) \o Shifted(a, style)
  BY DEF OldOf, NewOf
<1> HIDE DEF k, d, r, a
<1>4. Shifted(r, style) = Shifted(k, style) \o Shifted(d, style)
      /\ Shifted(w, style) = Shifted(k, style) \o Shifted(a, style)
  <2>1. JoinsShifted(k, d, style) /\ JoinsShifted(k, a, style)
    BY <1>1, ShiftedJoins
  <2> QED
    BY <1>1, <2>1 DEF JoinsShifted
<1> HIDE DEF w
<1>5. /\ Shifted(r, style) \in Seq(Lines) /\ Len(Shifted(r, style)) = Len(r)
      /\ Shifted(w, style) \in Seq(Lines) /\ Len(Shifted(w, style)) = Len(w)
  BY <1>1, <1>2, ShiftedIs
<1>6. Len(r) > 0 \/ Len(w) > 0
  <2>1. Len(k) \in Nat /\ Len(a) \in Nat /\ (a # << >> => Len(a) > 0)
    BY <1>1
  <2> QED
    BY <1>1, <1>2, <2>1
<1>7. Len(<< >>) = 0
  OBVIOUS
<1> QED
  BY <1>1, <1>3, <1>4, <1>5, <1>6, <1>7 DEF r, w, k, a

Flushes(p, q) == FlushOperation(p) = q

LEMMA FlushedIs ==
  ASSUME NEW o, NEW a, NEW u, NEW v
  PROVE  /\ u = << >> /\ v = << >> => Flushes(PState(o, a, u, v), PState(o, a, u, v))
         /\ ~ (u = << >> /\ v = << >>) =>
              Flushes(PState(o, a, u, v),
                      PState(Append(o, [anchors |-> a, old |-> u, new |-> v]),
                             << >>, << >>, << >>))
BY DEF FlushOperation, PState, Flushes

LEMMA HunkParses ==
  ASSUME NEW t \in Seq(Lines), NEW h \in Regions(t), NEW style, NEW p, NEW o,
         Flushes(p, PState(o, << >>, << >>, << >>))
  PROVE  /\ RawHunk(t, h, style) \in Seq(RawLine)
         /\ ParsesTo(p, RawHunk(t, h, style),
                     PState(o, AnchorsOf(h), OldOf(t, h, style), NewOf(t, h, style)))
<1> DEFINE k == KeptLines(t, h)
           d == DroppedLines(t, h)
           a == h.add
           g == AnchorsOf(h)
           m == StyleMark(style)
           at == [mark |-> "@@", is |-> h.anchor]
           rk == RawLines(k, m, style)
           rd == RawLines(d, "-", style)
           ra == RawLines(a, "+", style)
           sk == Shifted(k, style)
           sd == Shifted(d, style)
           sa == Shifted(a, style)
           p1 == PState(o, g, << >>, << >>)
           p2 == PState(o, g, sk, sk)
           p3 == PState(o, g, sk \o sd, sk)
           p4 == PState(o, g, sk \o sd, sk \o sa)
<1>1. /\ k \in Seq(Lines) /\ d \in Seq(Lines) /\ a \in Seq(Lines)
      /\ h.anchor \in Anchors \union {NoAnchor}
  BY RegionIs
<1>2. sk \in Seq(Lines) /\ sd \in Seq(Lines) /\ sa \in Seq(Lines)
  <2> HIDE DEF k, d, a
  <2> QED
    BY <1>1, ShiftedIs
<1>3. m \in Marks /\ "-" \in Marks /\ "+" \in Marks /\ m # "-" /\ m # "+"
  BY DEF StyleMark, Marks
<1>4. /\ RawHunk(t, h, style) = ((<<at>> \o rk) \o rd) \o ra
      /\ p4 = PState(o, g, OldOf(t, h, style), NewOf(t, h, style))
  BY DEF RawHunk, StyleMark, OldOf, NewOf
<1>5. at \in RawLine
  <2> DEFINE x == h.anchor
  <2>1. x \in Lines \union Anchors \union {NoAnchor}
    BY <1>1
  <2> HIDE DEF x
  <2>2. [mark |-> "@@", is |-> x] \in
          [mark : Marks \union {"@@"}, is : Lines \union Anchors \union {NoAnchor}]
    BY <2>1
  <2> QED
    BY <2>2 DEF RawLine, x
<1>6. ParseRaw(p, at) = p1
  <2> DEFINE q == PState(o, << >>, << >>, << >>)
  <2>1. FlushOperation(p) = q
    BY DEF Flushes
  <2>2. ParseRaw(p, at)
          = IF h.anchor = NoAnchor THEN q ELSE [q EXCEPT !.anchors = Append(@, h.anchor)]
    <3> HIDE DEF q
    <3> QED
      BY <2>1 DEF ParseRaw
  <2>3. Append(<< >>, h.anchor) = <<h.anchor>>
    OBVIOUS
  <2> QED
    BY <2>2, <2>3 DEF PState, AnchorsOf
<1> HIDE DEF k, d, a, g, m, at
<1>7. <<at>> \in Seq(RawLine) /\ ParsesTo(p, <<at>>, p1)
  <2>1. <<at>> \in Seq(RawLine) /\ ParsesTo(p, <<at>>, ParseRaw(p, at))
    BY <1>5, ParsesOne
  <2> HIDE DEF p1
  <2> QED
    BY <1>6, <2>1
<1>8. << >> \in Seq(Lines)
  OBVIOUS
<1>9. rk \in Seq(RawLine) /\ ParsesTo(p1, rk, p2)
  <2>1. rk \in Seq(RawLine) /\ ParsesTo(p1, rk, AfterRun(o, g, << >>, << >>, m, sk))
    BY <1>1, <1>3, <1>8, ParsesRun
  <2>2. AfterRun(o, g, << >>, << >>, m, sk) = p2
    <3> HIDE DEF sk
    <3>1. << >> \o sk = sk
      BY <1>2
    <3> QED
      BY <1>3, <3>1 DEF AfterRun
  <2> HIDE DEF p1, p2, rk
  <2> QED
    BY <2>1, <2>2
<1>10. rd \in Seq(RawLine) /\ ParsesTo(p2, rd, p3)
  <2>1. rd \in Seq(RawLine) /\ ParsesTo(p2, rd, AfterRun(o, g, sk, sk, "-", sd))
    BY <1>1, <1>2, <1>3, ParsesRun
  <2>2. AfterRun(o, g, sk, sk, "-", sd) = p3
    <3> HIDE DEF sk, sd
    <3> QED
      BY DEF AfterRun
  <2> HIDE DEF p2, p3, rd
  <2> QED
    BY <2>1, <2>2
<1>11. ra \in Seq(RawLine) /\ ParsesTo(p3, ra, p4)
  <2>0. sk \o sd \in Seq(Lines)
    <3> HIDE DEF sk, sd
    <3> QED
      BY <1>2, LinesConcat
  <2>1. ra \in Seq(RawLine) /\ ParsesTo(p3, ra, AfterRun(o, g, sk \o sd, sk, "+", sa))
    BY <1>1, <1>2, <1>3, <2>0, ParsesRun
  <2>2. AfterRun(o, g, sk \o sd, sk, "+", sa) = p4
    <3> HIDE DEF sk, sd, sa
    <3> QED
      BY DEF AfterRun
  <2> HIDE DEF p3, p4, ra
  <2> QED
    BY <2>1, <2>2
<1> DEFINE x == <<at>>
<1>12. x \in Seq(RawLine) /\ ParsesTo(p, x, p1)
  BY <1>7
<1> HIDE DEF p1, p2, p3, p4, rk, rd, ra, x
<1> DEFINE y == x \o rk
<1>13. y \in Seq(RawLine) /\ ParsesTo(p, y, p2)
  BY <1>9, <1>12, ParsesJoin
<1> HIDE DEF y
<1> DEFINE z == y \o rd
<1>14. z \in Seq(RawLine) /\ ParsesTo(p, z, p3)
  BY <1>10, <1>13, ParsesJoin
<1> HIDE DEF z
<1>15. z \o ra \in Seq(RawLine) /\ ParsesTo(p, z \o ra, p4)
  BY <1>11, <1>14, ParsesJoin
<1>16. RawHunk(t, h, style) = z \o ra
  BY <1>4 DEF x, y, z
<1> QED
  BY <1>4, <1>15, <1>16 DEF g

\* The hunks of a patch are its operations.
LEMMA HeaderParses == <<[mark |-> "***"]>> \in Seq(RawLine)
                      /\ ParsesTo(ParseStart, <<[mark |-> "***"]>>, ParseStart)
<1> DEFINE r == [mark |-> "***"]
<1>1. r \in RawLine
  BY DEF RawLine
<1>2. ParseRaw(ParseStart, r) = ParseStart
  BY DEF ParseRaw
<1> HIDE DEF r
<1>3. <<r>> \in Seq(RawLine) /\ ParsesTo(ParseStart, <<r>>, ParseRaw(ParseStart, r))
  BY <1>1, ParsesOne
<1> QED
  BY <1>2, <1>3 DEF r

OneHunk(t, h, style) == ParsePatchOperations(RawPatch(t, <<h>>, style)) = <<OpOf(t, h, style)>>
TwoHunks(t, h, g, style) ==
    ParsePatchOperations(RawPatch(t, <<h, g>>, style))
      = <<OpOf(t, h, style), OpOf(t, g, style)>>

MakesTwo(x, y) == Append(<<x>>, y) = <<x, y>>

\* The sequence a is t with e after it.
Appended(a, t, e, S) ==
    /\ a \in Seq(S) /\ Len(a) = Len(t) + 1 /\ a[Len(t) + 1] = e
    /\ \A j \in 1 .. Len(t) : a[j] = t[j]

LEMMA AppendedIs ==
  ASSUME NEW S, NEW t \in Seq(S), NEW e \in S
  PROVE  Appended(Append(t, e), t, e, S)
<1> DEFINE a == Append(t, e)
<1>1. /\ a \in Seq(S) /\ Len(a) = Len(t) + 1 /\ a[Len(t) + 1] = e
      /\ \A j \in 1 .. Len(t) : a[j] = t[j]
  OBVIOUS
<1> HIDE DEF a
<1>2. Appended(a, t, e, S)
  BY <1>1, Zenon DEF Appended
<1> QED
  BY <1>2 DEF a

LEMMA TwoMade == ASSUME NEW x, NEW y PROVE MakesTwo(x, y)
<1> DEFINE S == {x, y}
           s == <<x>>
           r == <<x, y>>
<1>1. s \in Seq(S) /\ Len(s) = 1 /\ s[1] = x /\ x \in S /\ y \in S
  OBVIOUS
<1>2. r \in Seq(S) /\ Len(r) = 2 /\ r[1] = x /\ r[2] = y
  OBVIOUS
<1> HIDE DEF S, s, r
<1> DEFINE a == Append(s, y)
<1>3. a \in Seq(S) /\ Len(a) = 2 /\ a[1] = x /\ a[2] = y
  <2>1. Appended(a, s, y, S)
    BY <1>1, AppendedIs, Zenon
  <2> HIDE DEF a
  <2>2. /\ a \in Seq(S) /\ Len(a) = Len(s) + 1 /\ a[Len(s) + 1] = y
        /\ \A j \in 1 .. Len(s) : a[j] = s[j]
    BY <2>1, Zenon DEF Appended
  <2> QED
    BY <1>1, <2>2
<1> HIDE DEF a
<1>4. a = [k \in 1 .. 2 |-> a[k]] /\ r = [k \in 1 .. 2 |-> r[k]]
  BY <1>2, <1>3
<1>5. \A k \in 1 .. 2 : a[k] = r[k]
  BY <1>2, <1>3
<1>6. a = r
  BY <1>4, <1>5
<1> QED
  BY <1>6 DEF a, s, r, MakesTwo

LEMMA OneHunkParses ==
  ASSUME NEW t \in Seq(Lines), NEW h \in Regions(t), NEW style
  PROVE  OneHunk(t, h, style)
<1> DEFINE x == <<[mark |-> "***"]>>
           y == RawHunk(t, h, style)
           s == [k \in DOMAIN <<h>> |-> RawHunk(t, <<h>>[k], style)]
           q == PState(<< >>, AnchorsOf(h), OldOf(t, h, style), NewOf(t, h, style))
           e == PState(<<OpOf(t, h, style)>>, << >>, << >>, << >>)
<1>1. x \in Seq(RawLine) /\ ParsesTo(ParseStart, x, ParseStart)
  BY HeaderParses
<1>2. y \in Seq(RawLine) /\ ParsesTo(ParseStart, y, q)
  <2>1. Flushes(ParseStart, PState(<< >>, << >>, << >>, << >>))
    BY FlushedIs DEF ParseStart
  <2> QED
    BY <2>1, HunkParses
<1>3. FlattenSeq(s) = y
  <2> HIDE DEF y
  <2> DEFINE f == [k \in 1 .. 1 |-> y]
  <2>1. Len(s) = 1 /\ s[1] = y
    BY DEF y
  <2> HIDE DEF s
  <2>2. Flattens(f, s, 1)
    BY <2>1 DEF Flattens
  <2>3. f[1] = y /\ 1 \in Nat \ {0}
    OBVIOUS
  <2> HIDE DEF f
  <2>4. FlattenSeq(s) = f[1]
    BY <2>1, <2>2, <2>3, FlattenIs
  <2> QED
    BY <2>3, <2>4
<1>4. RawPatch(t, <<h>>, style) = x \o FlattenSeq(s)
  BY DEF RawPatch
<1>5. Flushes(q, e)
  <2>1. ~ (OldOf(t, h, style) = << >> /\ NewOf(t, h, style) = << >>)
    BY OpIs
  <2>2. Flushes(q, PState(Append(<< >>, OpOf(t, h, style)), << >>, << >>, << >>))
    BY <2>1, FlushedIs DEF OpOf
  <2>3. Append(<< >>, OpOf(t, h, style)) = <<OpOf(t, h, style)>>
    OBVIOUS
  <2> QED
    BY <2>2, <2>3
<1>6. e.ops = <<OpOf(t, h, style)>>
  BY DEF PState
<1> HIDE DEF x, y, s, q, e
<1> DEFINE z == x \o y
<1>7. z \in Seq(RawLine) /\ ParsesTo(ParseStart, z, q)
  BY <1>1, <1>2, ParsesJoin
<1> HIDE DEF z
<1>8. ParseLines(ParseStart, z) = q
  BY <1>7, ParsesToIs
<1>9. RawPatch(t, <<h>>, style) = z
  BY <1>3, <1>4 DEF z
<1>10. ParsePatchOperations(z) = FlushOperation(ParseLines(ParseStart, z)).ops
  BY DEF ParsePatchOperations, ParseStart, PState
<1> QED
  BY <1>5, <1>6, <1>8, <1>9, <1>10 DEF OneHunk, Flushes

LEMMA TwoHunksParse ==
  ASSUME NEW t \in Seq(Lines), NEW h \in Regions(t), NEW g \in Regions(t), NEW style
  PROVE  TwoHunks(t, h, g, style)
<1> DEFINE x == <<[mark |-> "***"]>>
           y == RawHunk(t, h, style)
           y2 == RawHunk(t, g, style)
           s == [k \in DOMAIN <<h, g>> |-> RawHunk(t, <<h, g>>[k], style)]
           o == OpOf(t, h, style)
           o2 == OpOf(t, g, style)
           q == PState(<< >>, AnchorsOf(h), OldOf(t, h, style), NewOf(t, h, style))
           q2 == PState(<<o>>, AnchorsOf(g), OldOf(t, g, style), NewOf(t, g, style))
           e == PState(<<o, o2>>, << >>, << >>, << >>)
<1>1. x \in Seq(RawLine) /\ ParsesTo(ParseStart, x, ParseStart)
  BY HeaderParses
<1>2. y \in Seq(RawLine) /\ ParsesTo(ParseStart, y, q)
  <2>1. Flushes(ParseStart, PState(<< >>, << >>, << >>, << >>))
    BY FlushedIs DEF ParseStart
  <2> QED
    BY <2>1, HunkParses
<1>3. y2 \in Seq(RawLine) /\ ParsesTo(q, y2, q2)
  <2>1. ~ (OldOf(t, h, style) = << >> /\ NewOf(t, h, style) = << >>)
    BY OpIs
  <2>2. Flushes(q, PState(Append(<< >>, o), << >>, << >>, << >>))
    BY <2>1, FlushedIs DEF OpOf
  <2>3. Append(<< >>, o) = <<o>>
    OBVIOUS
  <2> HIDE DEF o
  <2>4. Flushes(q, PState(<<o>>, << >>, << >>, << >>))
    BY <2>2, <2>3
  <2> HIDE DEF q
  <2> QED
    BY <2>4, HunkParses
<1>4. FlattenSeq(s) = y \o y2
  <2> HIDE DEF y, y2
  <2> DEFINE f == [k \in 1 .. 2 |-> IF k = 1 THEN y ELSE y \o y2]
  <2>1. Len(s) = 2 /\ s[1] = y /\ s[2] = y2
    BY DEF y, y2
  <2> HIDE DEF s
  <2>2. Flattens(f, s, 2)
    <3>1. ASSUME NEW k \in 1 .. 2
          PROVE  f[k] = IF k = 1 THEN s[k] ELSE f[k - 1] \o s[k]
      <4>1. CASE k = 1
        BY <2>1, <4>1
      <4>2. CASE k = 2
        <5>1. f[1] = y /\ f[2] = y \o y2 /\ k - 1 = 1
          BY <4>2
        <5> HIDE DEF f
        <5> QED
          BY <2>1, <4>2, <5>1
      <4> QED
        BY <4>1, <4>2
    <3> QED
      BY <3>1 DEF Flattens
  <2>3. f[2] = y \o y2 /\ 2 \in Nat \ {0}
    OBVIOUS
  <2> HIDE DEF f
  <2>4. FlattenSeq(s) = f[2]
    BY <2>1, <2>2, <2>3, FlattenIs
  <2> QED
    BY <2>3, <2>4
<1>5. RawPatch(t, <<h, g>>, style) = x \o FlattenSeq(s)
  BY DEF RawPatch
<1>6. Flushes(q2, e)
  <2>1. ~ (OldOf(t, g, style) = << >> /\ NewOf(t, g, style) = << >>)
    BY OpIs
  <2>2. Flushes(q2, PState(Append(<<o>>, o2), << >>, << >>, << >>))
    <3> HIDE DEF o
    <3> QED
      BY <2>1, FlushedIs DEF OpOf
  <2> HIDE DEF o, o2
  <2>3. MakesTwo(o, o2)
    BY TwoMade
  <2> QED
    BY <2>2, <2>3 DEF MakesTwo
<1>7. e.ops = <<o, o2>>
  BY DEF PState
<1> HIDE DEF x, y, y2, s, q, q2, e
<1> DEFINE w == y \o y2
<1>8. w \in Seq(RawLine) /\ ParsesTo(ParseStart, w, q2)
  BY <1>2, <1>3, ParsesJoin
<1> HIDE DEF w
<1> DEFINE z == x \o w
<1>9. z \in Seq(RawLine) /\ ParsesTo(ParseStart, z, q2)
  BY <1>1, <1>8, ParsesJoin
<1> HIDE DEF z
<1>10. ParseLines(ParseStart, z) = q2
  BY <1>9, ParsesToIs
<1>11. RawPatch(t, <<h, g>>, style) = z
  BY <1>4, <1>5 DEF w, z
<1>12. ParsePatchOperations(z) = FlushOperation(ParseLines(ParseStart, z)).ops
  BY DEF ParsePatchOperations, ParseStart, PState
<1> QED
  BY <1>6, <1>7, <1>10, <1>11, <1>12 DEF TwoHunks, Flushes

-----------------------------------------------------------------------------
(* What applying the operation of a hunk does.                             *)

StateAt(l, c) == [ok |-> TRUE, lines |-> l, cursor |-> c]
Lands(l, c, op, p, d, a) ==
    ApplyOperation(StateAt(l, c), op) = StateAt(Spliced(l, p, d, a), p + Len(a))
Fails(l, c, op) == ApplyOperation(StateAt(l, c), op) = FailedPatch

\* The lines of a hunk are at f in the text l, and nowhere else; or it only
\* adds, at f.
FitsAt(t, h, style, l, c, f) ==
    IF RegionLines(t, h) = << >> THEN style # "shifted" /\ f = LeadsTo(l, h.anchor, c)
    ELSE /\ f + (h.keep + h.drop) <= Len(l)
         /\ SubSeq(l, f + 1, f + (h.keep + h.drop)) = RegionLines(t, h)
         /\ IF style = "shifted"
            THEN /\ Cardinality(CandidateMatches(Stripped(l), Stripped(RegionLines(t, h)))) = 1
                 /\ Aligned(RegionLines(t, h), KeptLines(t, h) \o h.add)
            ELSE Cardinality(CandidateMatches(l, RegionLines(t, h))) = 1

LEMMA FoundAt ==
  ASSUME NEW l \in Seq(Lines), NEW r \in Seq(Lines), NEW f \in Nat,
         f + Len(r) <= Len(l), SubSeq(l, f + 1, f + Len(r)) = r
  PROVE  f + 1 \in CandidateMatches(l, r)
<1>1. /\ f + 1 \in 1 .. (Len(l) - Len(r)) + 1 /\ ((f + 1) + Len(r)) - 1 = f + Len(r)
      /\ Len(l) \in Nat /\ Len(r) \in Nat
  OBVIOUS
<1>2. SubSeq(l, f + 1, ((f + 1) + Len(r)) - 1) = r
  BY <1>1
<1> QED
  BY <1>1, <1>2, MatchesAre

LEMMA ShiftedStays ==
  ASSUME NEW r \in Seq(Lines), NEW w \in Seq(Lines), Shifted(r, "shifted") = r, Aligned(r, w)
  PROVE  Shifted(w, "shifted") = w
<1>1. ASSUME NEW k \in 1 .. Len(r) PROVE r[k] = Blank
  <2>1. r[k] \in Lines /\ Shifted(r, "shifted")[k] = Written(r[k], "shifted")
    BY ShiftedIs
  <2>2. r[k] # Blank => Written(r[k], "shifted").indent = r[k].indent + 1
    BY <2>1, WrittenIs
  <2>3. r[k].indent \in Nat
    BY <2>1 DEF Lines
  <2> QED
    BY <2>1, <2>2, <2>3
<1>2. KnownIn(r) = {}
  BY <1>1 DEF KnownIn
<1>3. IndentsOf(w) = {}
  BY <1>2 DEF Aligned
<1>4. KnownIn(w) = {}
  BY <1>3 DEF IndentsOf
<1>5. \A k \in 1 .. Len(w) : w[k] = Blank
  BY <1>4 DEF KnownIn
<1> QED
  BY <1>5, ShiftedSame

LEMMA OpLands ==
  ASSUME NEW t \in Seq(Lines), NEW h \in Regions(t), NEW style \in Styles,
         NEW l \in Seq(Lines), NEW c \in Nat, NEW f \in 0 .. Len(l),
         FitsAt(t, h, style, l, c, f)
  PROVE  Lands(l, c, OpOf(t, h, style), f + h.keep, h.drop, h.add)
<1> DEFINE r == RegionLines(t, h)
           k == KeptLines(t, h)
           a == h.add
           w == k \o a
           op == OpOf(t, h, style)
           s == StateAt(l, c)
           n == h.keep + h.drop
<1>1. /\ r \in Seq(Lines) /\ k \in Seq(Lines) /\ a \in Seq(Lines) /\ Len(r) = n
      /\ h.keep \in Nat /\ h.drop \in Nat /\ Len(k) = h.keep /\ r = k \o DroppedLines(t, h)
      /\ DroppedLines(t, h) \in Seq(Lines)
  BY RegionIs
<1>2. /\ op.old = Shifted(r, style) /\ op.new = Shifted(w, style) /\ op.anchors = AnchorsOf(h)
      /\ op.old \in Seq(Lines) /\ Len(op.old) = n
  BY OpIs DEF OpOf
<1>3. s.ok /\ s.lines = l /\ s.cursor = c
  BY DEF StateAt
<1>4. w \in Seq(Lines) /\ Len(w) = h.keep + Len(a)
  <2> HIDE DEF k, a
  <2>1. k \in Seq(Lines) /\ a \in Seq(Lines)
    BY <1>1
  <2>2. w \in Seq(Lines) /\ Len(w) = Len(k) + Len(a)
    BY <2>1, LinesConcat, Zenon
  <2> HIDE DEF w
  <2> QED
    BY <1>1, <2>2
<1>5. f \in Nat /\ f <= Len(l) /\ Len(a) \in Nat /\ Len(l) \in Nat
  BY <1>1
<1> HIDE DEF op, s, w, k, r
<1>6. CASE r = << >>
  <2>1. style # "shifted" /\ f = LeadsTo(l, h.anchor, c)
    BY <1>6 DEF FitsAt, r
  <2>2. n = 0 /\ h.keep = 0 /\ h.drop = 0
    BY <1>1, <1>6
  <2>3. op.old = << >> /\ op.new = w
    <3>1. Shifted(r, style) = r /\ Shifted(w, style) = w
      BY <1>1, <1>4, <2>1, ShiftedSame
    <3> QED
      BY <1>2, <1>6, <3>1
  <2>4. w = a
    <3>1. k = << >>
      BY <1>1, <2>2
    <3> QED
      BY <1>1, <3>1 DEF w
  <2>5. f = ResolveAnchorIndex(s.lines, op.anchors, s.cursor)
    BY <1>2, <1>3, <2>1, AnchorLeads
  <2>6. ApplyOperation(s, op)
          = [ok |-> TRUE, lines |-> Spliced(s.lines, f, 0, op.new), cursor |-> f + Len(op.new)]
    BY <1>3, <2>3, <2>5, ApplyAdds
  <2>7. f + 0 = f
    BY <1>5
  <2> QED
    BY <1>3, <2>2, <2>3, <2>4, <2>6, <2>7 DEF Lands, StateAt, s, op
<1>7. CASE r # << >>
  <2>1. f + n <= Len(l) /\ SubSeq(l, f + 1, f + n) = r
    BY <1>7 DEF FitsAt, r
  <2>2. f + 1 \in CandidateMatches(l, r)
    BY <1>1, <1>5, <2>1, FoundAt
  <2>3. op.old # << >>
    <3>1. Len(r) # 0
      BY <1>1, <1>7
    <3> QED
      BY <1>1, <1>2, <3>1
  <2>4. /\ CandidateMatches(l, op.old) = {f + 1} /\ op.new = w
        \/ /\ CandidateMatches(l, op.old) = {}
           /\ CandidateMatches(Stripped(l), Stripped(op.old)) = {f + 1}
           /\ w = ReindentReplacement(op.new, SubSeq(l, f + 1, f + Len(op.old)), op.old)
    <3>1. CASE style # "shifted"
      <4>1. op.old = r /\ op.new = w
        BY <1>1, <1>2, <1>4, <3>1, ShiftedSame
      <4>2. Cardinality(CandidateMatches(l, r)) = 1
        BY <1>7, <3>1 DEF FitsAt, r
      <4>3. IsFiniteSet(CandidateMatches(l, r))
        BY <1>1, <1>5, MatchesAre
      <4>4. CandidateMatches(l, r) = {f + 1}
        BY <2>2, <4>2, <4>3, OnlyMatch
      <4> QED
        BY <4>1, <4>4
    <3>2. CASE style = "shifted"
      <4> DEFINE S == CandidateMatches(Stripped(l), Stripped(r))
                 T == CandidateMatches(l, op.old)
      <4>1. Cardinality(S) = 1 /\ Aligned(r, w)
        BY <1>7, <3>2 DEF FitsAt, r, w, k
      <4>2. IsFiniteSet(S)
        <5>1. Len(Stripped(l)) \in Nat /\ Len(Stripped(r)) \in Nat
          BY <1>1, StrippedIs
        <5> QED
          BY <5>1, MatchesAre
      <4>3. f + 1 \in S
        BY <1>1, <2>2, StrippedMatches
      <4>4. S = {f + 1}
        <5> HIDE DEF S
        <5> QED
          BY <4>1, <4>2, <4>3, OnlyMatch
      <4>5. Stripped(op.old) = Stripped(r)
        BY <1>1, <1>2, StrippedShifted
      <4>6. T \subseteq S
        <5>1. T \subseteq CandidateMatches(Stripped(l), Stripped(op.old))
          BY <1>2, StrippedMatches
        <5> QED
          BY <4>5, <5>1
      <4>7. CASE T = {}
        <5>1. ReindentReplacement(Shifted(w, "shifted"), r, Shifted(r, "shifted")) = w
          BY <1>1, <1>4, <4>1, Reindented
        <5>2. SubSeq(l, f + 1, f + Len(op.old)) = r
          BY <1>2, <2>1
        <5> HIDE DEF S, T
        <5>3. w = ReindentReplacement(op.new, SubSeq(l, f + 1, f + Len(op.old)), op.old)
          BY <1>2, <3>2, <5>1, <5>2
        <5> QED
          BY <4>4, <4>5, <4>7, <5>3 DEF S, T
      <4>8. CASE T # {}
        <5>1. T = {f + 1}
          <6> HIDE DEF S, T
          <6> QED
            BY <4>4, <4>6, <4>8
        <5>2. op.old = r
          <6>1. SubSeq(l, f + 1, ((f + 1) + Len(op.old)) - 1) = op.old
            <7>1. f + 1 \in CandidateMatches(l, op.old) /\ Len(op.old) \in Nat
              BY <1>2, <5>1
            <7> HIDE DEF T
            <7> QED
              BY <1>5, <7>1, MatchesAre
          <6>2. ((f + 1) + Len(op.old)) - 1 = f + n
            BY <1>1, <1>2, <1>5
          <6> QED
            BY <2>1, <6>1, <6>2
        <5>3. Shifted(r, "shifted") = r
          BY <1>2, <3>2, <5>2
        <5>4. Shifted(w, "shifted") = w
          BY <1>1, <1>4, <4>1, <5>3, ShiftedStays
        <5>5. op.new = w
          BY <1>2, <3>2, <5>4
        <5> HIDE DEF S
        <5> QED
          BY <5>1, <5>5 DEF T
      <4> HIDE DEF S, T
      <4> QED
        BY <4>7, <4>8
    <3> QED
      BY <3>1, <3>2
  <2>5. ApplyOperation(s, op)
          = [ok |-> TRUE, lines |-> Spliced(s.lines, f, Len(op.old), w), cursor |-> f + Len(w)]
    BY <1>3, <1>5, <2>3, <2>4, ApplyLands
  <2>6. Spliced(l, f, n, w) = Spliced(l, f + h.keep, h.drop, a)
    <3>0. h.keep \in Nat /\ h.drop \in Nat /\ f \in Nat /\ Len(l) \in Nat /\ f + n <= Len(l)
      BY <1>1, <1>5, <2>1
    <3>1. k = SubSeq(l, f + 1, f + h.keep)
      <4>1. ASSUME NEW j \in 1 .. h.keep PROVE k[j] = l[f + j]
        <5>1. j \in 1 .. n /\ j \in 1 .. Len(k)
          BY <1>1
        <5>2. r[j] = k[j]
          <6> DEFINE d == DroppedLines(t, h)
          <6> HIDE DEF d
          <6>1. r = k \o d /\ d \in Seq(Lines)
            BY <1>1 DEF d
          <6> QED
            BY <1>1, <5>1, <6>1, LinesConcat
        <5>3. SubSeq(l, f + 1, f + n)[j] = l[f + j]
          <6>1. f + n \in f .. Len(l) /\ (f + n) - f = n
            BY <3>0
          <6> QED
            BY <5>1, <6>1, LinesSub
        <5> QED
          BY <2>1, <5>2, <5>3
      <4>2. f + h.keep \in f .. Len(l) /\ (f + h.keep) - f = h.keep
        BY <3>0
      <4>3. /\ SubSeq(l, f + 1, f + h.keep) \in Seq(Lines)
            /\ Len(SubSeq(l, f + 1, f + h.keep)) = h.keep
            /\ \A j \in 1 .. h.keep : SubSeq(l, f + 1, f + h.keep)[j] = l[f + j]
        BY <4>2, LinesSub
      <4> DEFINE b == SubSeq(l, f + 1, f + h.keep)
      <4>4. b \in Seq(Lines) /\ Len(b) = h.keep /\ \A j \in 1 .. h.keep : k[j] = b[j]
        BY <4>1, <4>3
      <4> HIDE DEF b
      <4>5. k = b
        BY <1>1, <4>4, SameLines
      <4> QED
        BY <4>5 DEF b
    <3>2. f + h.keep + h.drop <= Len(l)
      BY <3>0
    <3> HIDE DEF a
    <3>3. Spliced(l, f, h.keep + h.drop, k \o a) = Spliced(l, f + h.keep, h.drop, a)
      <4>1. k \in Seq(Lines) /\ a \in Seq(Lines)
        BY <1>1
      <4> HIDE DEF n
      <4>2. CountsKept(l, f, h.keep, h.drop, k, a)
        BY <3>0, <3>1, <3>2, <4>1, SplicedKept
      <4> QED
        BY <4>2 DEF CountsKept
    <3> QED
      BY <3>3 DEF w
  <2>7. f + Len(w) = (f + h.keep) + Len(a)
    BY <1>1, <1>4, <1>5
  <2> QED
    BY <1>2, <1>3, <2>5, <2>6, <2>7 DEF Lands, StateAt, s, op
<1> QED
  BY <1>6, <1>7

LEMMA OpFails ==
  ASSUME NEW t \in Seq(Lines), NEW h \in Regions(t), NEW style,
         NEW l \in Seq(Lines), NEW c \in Nat, RegionLines(t, h) # << >>,
         CandidateMatches(Stripped(l), Stripped(RegionLines(t, h))) = {}
  PROVE  Fails(l, c, OpOf(t, h, style))
<1> DEFINE r == RegionLines(t, h)
           op == OpOf(t, h, style)
           s == StateAt(l, c)
<1>1. r \in Seq(Lines) /\ Len(r) = h.keep + h.drop
  BY RegionIs
<1>2. op.old = Shifted(r, style) /\ op.old \in Seq(Lines) /\ Len(op.old) = h.keep + h.drop
  BY OpIs DEF OpOf
<1>3. s.ok /\ s.lines = l
  BY DEF StateAt
<1>4. r # << >> /\ CandidateMatches(Stripped(l), Stripped(r)) = {}
  OBVIOUS
<1> HIDE DEF r, op, s
<1>5. op.old # << >>
  BY <1>1, <1>2, <1>4
<1>6. CandidateMatches(Stripped(l), Stripped(op.old)) = {}
  <2>1. Stripped(op.old) = Stripped(r)
    BY <1>1, <1>2, StrippedShifted
  <2> QED
    BY <1>4, <2>1
<1>7. CandidateMatches(l, op.old) = {}
  BY <1>2, <1>6, StrippedMatches
<1>8. ApplyOperation(s, op) = FailedPatch
  BY <1>3, <1>5, <1>6, <1>7, ApplyFails
<1> QED
  BY <1>8 DEF Fails, s, op

-----------------------------------------------------------------------------
(* One operation, or one after the other.                                  *)

Finished(done) ==
    IF done.ok /\ done.lines = << >> THEN [done EXCEPT !.lines = <<Blank>>] ELSE done
Ends(text, ops, s) == ApplyOperations(text, ops) = Finished(s)
Steps(g, text, ops) ==
    g = [k \in 0 .. Len(ops) |-> IF k = 0 THEN [ok |-> TRUE, lines |-> text, cursor |-> 0]
                                 ELSE ApplyOperation(g[k - 1], ops[k])]

LEMMA StepsUnfold ==
  ASSUME NEW text, NEW ops, NEW g, Steps(g, text, ops)
  PROVE  \E c : Steps(c, text, ops) /\ Ends(text, ops, c[Len(ops)])
<1> DEFINE t == CHOOSE r : Steps(r, text, ops)
<1>1. Steps(t, text, ops)
  BY Zenon
<1>2. ApplyOperations(text, ops) = Finished(t[Len(ops)])
  BY Zenon DEF ApplyOperations, Steps, Finished
<1> HIDE DEF t
<1> QED
  BY <1>1, <1>2, Zenon DEF Ends

LEMMA OneOperation ==
  ASSUME NEW text, NEW op, NEW s, s = ApplyOperation(StateAt(text, 0), op)
  PROVE  Ends(text, <<op>>, s)
<1> DEFINE ops == <<op>>
           g == [k \in 0 .. Len(ops) |-> IF k = 0 THEN StateAt(text, 0) ELSE s]
<1>1. Len(ops) = 1 /\ ops[1] = op
  OBVIOUS
<1> HIDE DEF ops
<1>2. Steps(g, text, ops)
  <2>1. ASSUME NEW k \in 0 .. Len(ops)
        PROVE  g[k] = IF k = 0 THEN StateAt(text, 0) ELSE ApplyOperation(g[k - 1], ops[k])
    <3>1. CASE k = 0
      BY <3>1
    <3>2. CASE k = 1
      <4>1. g[1] = s /\ g[0] = StateAt(text, 0) /\ k - 1 = 0
        BY <1>1, <3>2
      <4> HIDE DEF g
      <4> QED
        BY <1>1, <3>2, <4>1
    <3> QED
      BY <1>1, <3>1, <3>2
  <2> QED
    BY <2>1 DEF Steps, StateAt
<1> HIDE DEF g
<1>3. PICK c : Steps(c, text, ops) /\ Ends(text, ops, c[Len(ops)])
  BY <1>2, StepsUnfold
<1>5. \A k \in 0 .. Len(ops) :
        c[k] = IF k = 0 THEN StateAt(text, 0) ELSE ApplyOperation(c[k - 1], ops[k])
  BY <1>3 DEF Steps, StateAt
<1>6. 0 \in 0 .. Len(ops) /\ 1 \in 0 .. Len(ops) /\ 1 - 1 = 0
  BY <1>1
<1>4. c[0] = StateAt(text, 0) /\ c[1] = ApplyOperation(c[0], ops[1])
  BY <1>5, <1>6
<1> QED
  BY <1>1, <1>3, <1>4 DEF ops

LEMMA TwoOperations ==
  ASSUME NEW text, NEW op, NEW op2, NEW s, NEW s2,
         s = ApplyOperation(StateAt(text, 0), op), s2 = ApplyOperation(s, op2)
  PROVE  Ends(text, <<op, op2>>, s2)
<1> DEFINE ops == <<op, op2>>
           g == [k \in 0 .. Len(ops) |->
                   IF k = 0 THEN StateAt(text, 0) ELSE IF k = 1 THEN s ELSE s2]
<1>1. Len(ops) = 2 /\ ops[1] = op /\ ops[2] = op2
  OBVIOUS
<1> HIDE DEF ops
<1>2. Steps(g, text, ops)
  <2>0. g[0] = StateAt(text, 0) /\ g[1] = s /\ g[2] = s2
    BY <1>1
  <2>1. ASSUME NEW k \in 0 .. Len(ops)
        PROVE  g[k] = IF k = 0 THEN StateAt(text, 0) ELSE ApplyOperation(g[k - 1], ops[k])
    <3> HIDE DEF g
    <3>1. CASE k = 0
      BY <2>0, <3>1
    <3>2. CASE k = 1
      <4>1. k - 1 = 0
        BY <3>2
      <4> QED
        BY <1>1, <2>0, <3>2, <4>1
    <3>3. CASE k = 2
      <4>1. k - 1 = 1
        BY <3>3
      <4> QED
        BY <1>1, <2>0, <3>3, <4>1
    <3> QED
      BY <1>1, <3>1, <3>2, <3>3
  <2> QED
    BY <2>1 DEF Steps, StateAt
<1> HIDE DEF g
<1>3. PICK c : Steps(c, text, ops) /\ Ends(text, ops, c[Len(ops)])
  BY <1>2, StepsUnfold
<1>5. \A k \in 0 .. Len(ops) :
        c[k] = IF k = 0 THEN StateAt(text, 0) ELSE ApplyOperation(c[k - 1], ops[k])
  BY <1>3 DEF Steps, StateAt
<1>6. /\ 0 \in 0 .. Len(ops) /\ 1 \in 0 .. Len(ops) /\ 2 \in 0 .. Len(ops)
      /\ 1 - 1 = 0 /\ 2 - 1 = 1
  BY <1>1
<1>4. c[0] = StateAt(text, 0) /\ c[1] = ApplyOperation(c[0], ops[1])
      /\ c[2] = ApplyOperation(c[1], ops[2])
  BY <1>5, <1>6
<1> QED
  BY <1>1, <1>3, <1>4 DEF ops

\* What hunks mean, written out.
Means(text, hunks, l) == Meant(text, hunks) = l
Replaces(g, text, hunks) ==
    g = [k \in 0 .. Len(hunks) |->
           IF k = 0 THEN text ELSE Replaced(g[k - 1], hunks[(Len(hunks) - k) + 1])]

LEMMA ReplacesUnfold ==
  ASSUME NEW text, NEW hunks, NEW g, Replaces(g, text, hunks)
  PROVE  \E c : Replaces(c, text, hunks) /\ Means(text, hunks, c[Len(hunks)])
<1> DEFINE t == CHOOSE r : Replaces(r, text, hunks)
<1>1. Replaces(t, text, hunks)
  BY Zenon
<1>2. Meant(text, hunks) = t[Len(hunks)]
  BY Zenon DEF Meant, Replaces
<1> HIDE DEF t
<1> QED
  BY <1>1, <1>2, Zenon DEF Means

LEMMA NoHunkMeans ==
  ASSUME NEW text
  PROVE  Means(text, << >>, text)
<1> DEFINE hunks == << >>
           g == [k \in 0 .. 0 |-> text]
<1>1. Len(hunks) = 0
  OBVIOUS
<1> HIDE DEF hunks
<1>2. Replaces(g, text, hunks)
  BY <1>1 DEF Replaces
<1> HIDE DEF g
<1>3. PICK c : Replaces(c, text, hunks) /\ Means(text, hunks, c[Len(hunks)])
  BY <1>2, ReplacesUnfold
<1>4. c[0] = text
  BY <1>1, <1>3 DEF Replaces
<1> QED
  BY <1>1, <1>3, <1>4 DEF hunks

LEMMA OneHunkMeans ==
  ASSUME NEW text, NEW h
  PROVE  Means(text, <<h>>, Replaced(text, h))
<1> DEFINE hunks == <<h>>
           s == Replaced(text, h)
           g == [k \in 0 .. Len(hunks) |-> IF k = 0 THEN text ELSE s]
<1>1. Len(hunks) = 1 /\ hunks[1] = h
  OBVIOUS
<1> HIDE DEF hunks
<1>2. Replaces(g, text, hunks)
  <2>0. g[0] = text /\ g[1] = s
    BY <1>1
  <2>1. ASSUME NEW k \in 0 .. Len(hunks)
        PROVE  g[k] = IF k = 0 THEN text ELSE Replaced(g[k - 1], hunks[(Len(hunks) - k) + 1])
    <3> HIDE DEF g
    <3>1. CASE k = 0
      BY <2>0, <3>1
    <3>2. CASE k = 1
      <4>1. k - 1 = 0 /\ (Len(hunks) - k) + 1 = 1
        BY <1>1, <3>2
      <4> QED
        BY <1>1, <2>0, <3>2, <4>1
    <3> QED
      BY <1>1, <3>1, <3>2
  <2> QED
    BY <2>1 DEF Replaces
<1> HIDE DEF g
<1>3. PICK c : Replaces(c, text, hunks) /\ Means(text, hunks, c[Len(hunks)])
  BY <1>2, ReplacesUnfold
<1>4. c[0] = text /\ c[1] = Replaced(c[0], hunks[1])
  BY <1>1, <1>3 DEF Replaces
<1> QED
  BY <1>1, <1>3, <1>4 DEF hunks

LEMMA TwoHunksMean ==
  ASSUME NEW text, NEW h, NEW i
  PROVE  Means(text, <<h, i>>, Replaced(Replaced(text, i), h))
<1> DEFINE hunks == <<h, i>>
           s == Replaced(text, i)
           s2 == Replaced(s, h)
           g == [k \in 0 .. Len(hunks) |-> IF k = 0 THEN text ELSE IF k = 1 THEN s ELSE s2]
<1>1. Len(hunks) = 2 /\ hunks[1] = h /\ hunks[2] = i
  OBVIOUS
<1> HIDE DEF hunks
<1>2. Replaces(g, text, hunks)
  <2>0. g[0] = text /\ g[1] = s /\ g[2] = s2
    BY <1>1
  <2>1. ASSUME NEW k \in 0 .. Len(hunks)
        PROVE  g[k] = IF k = 0 THEN text ELSE Replaced(g[k - 1], hunks[(Len(hunks) - k) + 1])
    <3> HIDE DEF g
    <3>1. CASE k = 0
      BY <2>0, <3>1
    <3>2. CASE k = 1
      <4>1. k - 1 = 0 /\ (Len(hunks) - k) + 1 = 2
        BY <1>1, <3>2
      <4> QED
        BY <1>1, <2>0, <3>2, <4>1
    <3>3. CASE k = 2
      <4>1. k - 1 = 1 /\ (Len(hunks) - k) + 1 = 1
        BY <1>1, <3>3
      <4> QED
        BY <1>1, <2>0, <3>3, <4>1
    <3> QED
      BY <1>1, <3>1, <3>2, <3>3
  <2> QED
    BY <2>1 DEF Replaces
<1> HIDE DEF g
<1>3. PICK c : Replaces(c, text, hunks) /\ Means(text, hunks, c[Len(hunks)])
  BY <1>2, ReplacesUnfold
<1>4. /\ c[0] = text /\ c[1] = Replaced(c[0], hunks[(Len(hunks) - 1) + 1])
      /\ c[2] = Replaced(c[1], hunks[(Len(hunks) - 2) + 1])
  BY <1>1, <1>3 DEF Replaces
<1>5. (Len(hunks) - 1) + 1 = 2 /\ (Len(hunks) - 2) + 1 = 1
  BY <1>1
<1>6. c[2] = s2
  BY <1>1, <1>4, <1>5
<1> HIDE DEF s2
<1>7. Means(text, hunks, s2)
  BY <1>1, <1>3, <1>6
<1> QED
  BY <1>7 DEF hunks, s2, s

-----------------------------------------------------------------------------
(* A patch of one hunk, and one of two, of which the first moves the lines *)
(* of the second.                                                          *)

Done(l, t, hunks, style) == ApplyOperations(l, ParsePatchOperations(RawPatch(t, hunks, style)))
Succeeds(l, t, hunks, style, m) ==
    Done(l, t, hunks, style).ok /\ (m # << >> => Done(l, t, hunks, style).lines = m)
Stops(l, t, hunks, style) == ~ Done(l, t, hunks, style).ok

\* LeavesNoChoice, for a hunk h that is applied to x after the line last.
NoChoice(t, h, style, l, x, last) ==
    IF RegionLines(t, h) = << >> THEN style # "shifted" /\ h.from = LeadsTo(l, h.anchor, last)
    ELSE /\ RegionLines(l, h) = RegionLines(t, h)
         /\ IF style = "shifted"
            THEN /\ Cardinality(CandidateMatches(Stripped(x), Stripped(RegionLines(t, h)))) = 1
                 /\ Aligned(RegionLines(t, h), KeptLines(t, h) \o h.add)
            ELSE Cardinality(CandidateMatches(x, RegionLines(t, h))) = 1
Nowhere(t, h, x) ==
    RegionLines(t, h) # << >> /\ CandidateMatches(Stripped(x), Stripped(RegionLines(t, h))) = {}

LEMMA FirstFits ==
  ASSUME NEW t \in Seq(Lines), NEW l \in Seq(Lines), Len(l) = Len(t), NEW h \in Regions(t),
         NEW style, NoChoice(t, h, style, l, l, 0)
  PROVE  h.from \in 0 .. Len(l) /\ FitsAt(t, h, style, l, 0, h.from)
<1>1. /\ h.from \in 0 .. Len(t) /\ h.keep \in Nat /\ h.drop \in Nat
      /\ EndOf(h) = h.from + h.keep + h.drop /\ h.from + h.keep + h.drop <= Len(t)
  BY RegionIs
<1>2. h.from + (h.keep + h.drop) = EndOf(h) /\ h.from + (h.keep + h.drop) <= Len(l)
  BY <1>1
<1>3. RegionLines(l, h) = SubSeq(l, h.from + 1, EndOf(h))
  BY DEF RegionLines
<1> QED
  BY <1>1, <1>2, <1>3 DEF NoChoice, FitsAt

FinishedIs(s, l) == Finished(s).ok /\ (l # << >> => Finished(s).lines = l)

LEMMA FinishesWell == ASSUME NEW l, NEW c PROVE FinishedIs(StateAt(l, c), l)
BY DEF FinishedIs, Finished, StateAt

LEMMA FinishesBadly == ~ Finished(FailedPatch).ok
BY DEF Finished, FailedPatch

LEMMA OneLands ==
  ASSUME NEW t \in Seq(Lines), NEW l \in Seq(Lines), Len(l) = Len(t), NEW h \in Regions(t),
         NEW style \in Styles, NoChoice(t, h, style, l, l, 0)
  PROVE  Succeeds(l, t, <<h>>, style, Replaced(l, h))
<1> DEFINE op == OpOf(t, h, style)
           s == ApplyOperation(StateAt(l, 0), op)
           m == Replaced(l, h)
<1>1. Lands(l, 0, op, h.from + h.keep, h.drop, h.add)
  <2>1. 0 \in Nat
    OBVIOUS
  <2> HIDE DEF op
  <2> QED
    BY <2>1, FirstFits, OpLands DEF op
<1>2. s = StateAt(m, (h.from + h.keep) + Len(h.add))
  BY <1>1 DEF Lands, Replaced
<1>3. Ends(l, <<op>>, s)
  <2> HIDE DEF op
  <2> QED
    BY OneOperation
<1>4. ParsePatchOperations(RawPatch(t, <<h>>, style)) = <<op>>
  BY OneHunkParses DEF OneHunk
<1> HIDE DEF s, op, m
<1>5. FinishedIs(s, m)
  BY <1>2, FinishesWell
<1>6. Done(l, t, <<h>>, style) = Finished(s)
  BY <1>3, <1>4 DEF Done, Ends
<1> QED
  BY <1>5, <1>6 DEF Succeeds, FinishedIs, m

LEMMA OneStops ==
  ASSUME NEW t \in Seq(Lines), NEW l \in Seq(Lines), NEW h \in Regions(t), NEW style,
         Nowhere(t, h, l)
  PROVE  Stops(l, t, <<h>>, style)
<1> DEFINE op == OpOf(t, h, style)
<1>1. ApplyOperation(StateAt(l, 0), op) = FailedPatch
  <2>1. 0 \in Nat
    OBVIOUS
  <2>2. Fails(l, 0, op)
    BY <2>1, OpFails DEF Nowhere
  <2> QED
    BY <2>2 DEF Fails
<1>2. ParsePatchOperations(RawPatch(t, <<h>>, style)) = <<op>>
  BY OneHunkParses DEF OneHunk
<1> HIDE DEF op
<1>3. Ends(l, <<op>>, FailedPatch)
  BY <1>1, OneOperation
<1> QED
  BY <1>2, <1>3, FinishesBadly DEF Stops, Done, Ends

LEMMA TwoFirstStops ==
  ASSUME NEW t \in Seq(Lines), NEW l \in Seq(Lines), NEW h \in Regions(t),
         NEW g \in Regions(t), NEW style, Nowhere(t, h, l)
  PROVE  Stops(l, t, <<h, g>>, style)
<1> DEFINE op == OpOf(t, h, style)
           op2 == OpOf(t, g, style)
<1>1. ApplyOperation(StateAt(l, 0), op) = FailedPatch
  <2>1. 0 \in Nat
    OBVIOUS
  <2>2. Fails(l, 0, op)
    BY <2>1, OpFails DEF Nowhere
  <2> QED
    BY <2>2 DEF Fails
<1>2. ParsePatchOperations(RawPatch(t, <<h, g>>, style)) = <<op, op2>>
  BY TwoHunksParse DEF TwoHunks
<1> HIDE DEF op, op2
<1>3. ApplyOperation(FailedPatch, op2) = FailedPatch
  BY DEF ApplyOperation, FailedPatch
<1>4. Ends(l, <<op, op2>>, FailedPatch)
  BY <1>1, <1>3, TwoOperations
<1> QED
  BY <1>2, <1>4, FinishesBadly DEF Stops, Done, Ends

LEMMA TwoSecondStops ==
  ASSUME NEW t \in Seq(Lines), NEW l \in Seq(Lines), Len(l) = Len(t), NEW h \in Regions(t),
         NEW g \in Regions(t), NEW style \in Styles, NoChoice(t, h, style, l, l, 0),
         Nowhere(t, g, Replaced(l, h))
  PROVE  Stops(l, t, <<h, g>>, style)
<1> DEFINE op == OpOf(t, h, style)
           op2 == OpOf(t, g, style)
           m == Replaced(l, h)
           c == (h.from + h.keep) + Len(h.add)
           s == ApplyOperation(StateAt(l, 0), op)
<1>0. 0 \in Nat
  OBVIOUS
<1>1. h.from \in 0 .. Len(l) /\ FitsAt(t, h, style, l, 0, h.from)
  BY FirstFits
<1>2. /\ h.keep \in Nat /\ h.drop \in Nat /\ h.add \in Seq(Lines)
      /\ h.from + h.keep + h.drop <= Len(t)
  BY RegionIs
<1>3. m \in Seq(Lines) /\ c \in Nat
  <2>1. h.from + h.keep \in 0 .. Len(l) /\ (h.from + h.keep) + h.drop <= Len(l)
        /\ c \in Nat
    BY <1>1, <1>2
  <2> QED
    BY <1>2, <2>1, SplicedIs DEF Replaced
<1>4. s = StateAt(m, c)
  <2>1. Lands(l, 0, op, h.from + h.keep, h.drop, h.add)
    BY <1>0, <1>1, OpLands
  <2> QED
    BY <2>1 DEF Lands, Replaced
<1> HIDE DEF m, c
<1>5. ApplyOperation(StateAt(m, c), op2) = FailedPatch
  <2>1. RegionLines(t, g) # << >>
        /\ CandidateMatches(Stripped(m), Stripped(RegionLines(t, g))) = {}
    BY DEF Nowhere, m
  <2>2. Fails(m, c, op2)
    BY <1>3, <2>1, OpFails
  <2> QED
    BY <2>2 DEF Fails
<1>6. ParsePatchOperations(RawPatch(t, <<h, g>>, style)) = <<op, op2>>
  BY TwoHunksParse DEF TwoHunks
<1> HIDE DEF op, op2
<1>7. Ends(l, <<op, op2>>, FailedPatch)
  <2>1. FailedPatch = ApplyOperation(s, op2) /\ s = ApplyOperation(StateAt(l, 0), op)
    BY <1>4, <1>5
  <2> HIDE DEF s
  <2> QED
    BY <2>1, TwoOperations
<1> QED
  BY <1>6, <1>7, FinishesBadly DEF Stops, Done, Ends

LEMMA LeadsAlong ==
  ASSUME NEW l \in Seq(Lines), NEW p \in 0 .. Len(l), NEW d \in Nat, NEW a \in Seq(Lines),
         p + d <= Len(l), NEW anchor, NEW f \in Nat, f = LeadsTo(l, anchor, p + d)
  PROVE  (f - d) + Len(a) = LeadsTo(Spliced(l, p, d, a), anchor, p + Len(a))
<1> DEFINE x == Spliced(l, p, d, a)
           n == Len(l)
           m == Len(a)
           A == Anchored(l, anchor, p + d)
           B == Anchored(x, anchor, p + m)
<1>1. n \in Nat /\ m \in Nat /\ p \in Nat /\ p + d <= n
  OBVIOUS
<1>2. Len(x) = (n - d) + m /\ \A k \in (p + d) + 1 .. n : x[(k - d) + m] = l[k]
  BY SplicedIs
<1>3. (\A k : k \in A <=> k \in (p + d) + 1 .. n /\ l[k].word = anchor)
      /\ (\A k : k \in B <=> k \in (p + m) + 1 .. Len(x) /\ x[k].word = anchor)
  BY DEF Anchored
<1>4. f = IF A = {} THEN p + d ELSE Min(A)
  BY DEF LeadsTo
<1>5. LeadsTo(x, anchor, p + m) = IF B = {} THEN p + m ELSE Min(B)
  BY DEF LeadsTo
<1> HIDE DEF x, n, m, A, B
<1>6. ASSUME NEW k \in A PROVE (k - d) + m \in B /\ k \in Nat
  <2>1. k \in (p + d) + 1 .. n /\ l[k].word = anchor
    BY <1>3
  <2>2. (k - d) + m \in (p + m) + 1 .. Len(x) /\ k \in Nat
    BY <1>1, <1>2, <2>1
  <2>3. x[(k - d) + m] = l[k]
    BY <1>2, <2>1
  <2> QED
    BY <1>3, <2>1, <2>2, <2>3
<1>7. ASSUME NEW j \in B PROVE (j - m) + d \in A /\ j \in Nat
  <2> DEFINE k == (j - m) + d
  <2>1. j \in (p + m) + 1 .. Len(x) /\ x[j].word = anchor
    BY <1>3
  <2>2. k \in (p + d) + 1 .. n /\ j \in Nat /\ (k - d) + m = j
    BY <1>1, <1>2, <2>1
  <2> HIDE DEF k
  <2>3. x[(k - d) + m] = l[k]
    BY <1>2, <2>2
  <2>4. k \in A
    BY <1>3, <2>1, <2>2, <2>3
  <2> QED
    BY <2>2, <2>4 DEF k
<1>8. CASE A = {}
  <2>1. B = {}
    BY <1>7, <1>8
  <2>2. (f - d) + m = p + m
    BY <1>1, <1>4, <1>8
  <2> QED
    BY <1>5, <2>1, <2>2 DEF x, m
<1>9. CASE A # {}
  <2>1. A \subseteq Nat /\ B \subseteq Nat
    BY <1>6, <1>7
  <2>2. f \in A /\ \A k \in A : f <= k
    BY <1>4, <1>9, <2>1, MinIs
  <2> DEFINE y == (f - d) + m
  <2>3. y \in B
    BY <1>6, <2>2
  <2>4. ASSUME NEW j \in B PROVE y <= j
    <3>1. f <= (j - m) + d /\ j \in Nat
      BY <1>7, <2>2
    <3> QED
      BY <1>1, <3>1
  <2> HIDE DEF y
  <2>5. Min(B) = y
    BY <2>1, <2>3, <2>4, MinIsOnly
  <2>6. B # {}
    BY <2>3
  <2> QED
    BY <1>5, <2>5, <2>6 DEF x, m, y
<1> QED
  BY <1>8, <1>9

MovedBy(h, g) == (g.from - h.drop) + Len(h.add)

LEMMA SecondFits ==
  ASSUME NEW t \in Seq(Lines), NEW l \in Seq(Lines), Len(l) = Len(t), NEW h \in Regions(t),
         NEW g \in Regions(t), g.from >= EndOf(h), NEW style,
         NoChoice(t, g, style, l, Replaced(l, h), EndOf(h))
  PROVE  /\ Replaced(l, h) \in Seq(Lines)
         /\ MovedBy(h, g) \in 0 .. Len(Replaced(l, h))
         /\ FitsAt(t, g, style, Replaced(l, h), (h.from + h.keep) + Len(h.add), MovedBy(h, g))
<1> DEFINE x == Replaced(l, h)
           p == h.from + h.keep
           d == h.drop
           a == h.add
           m == Len(a)
           n == Len(l)
           b == g.from
           w == g.keep + g.drop
           f == (b - d) + m
           r == RegionLines(t, g)
<1>1. /\ h.from \in 0 .. Len(t) /\ h.keep \in Nat /\ h.drop \in Nat /\ a \in Seq(Lines)
      /\ EndOf(h) = h.from + h.keep + h.drop /\ h.from + h.keep + h.drop <= Len(t)
  BY RegionIs
<1>2. /\ g.from \in 0 .. Len(t) /\ g.keep \in Nat /\ g.drop \in Nat
      /\ EndOf(g) = g.from + g.keep + g.drop /\ g.from + g.keep + g.drop <= Len(t)
      /\ r \in Seq(Lines) /\ Len(r) = w
  BY RegionIs
<1>3. /\ p \in 0 .. n /\ p \in Nat /\ d \in Nat /\ m \in Nat /\ n \in Nat /\ b \in Nat /\ w \in Nat
      /\ p + d <= b /\ b + w <= n /\ p + d <= n /\ EndOf(h) = p + d /\ EndOf(g) = b + w
  <2>1. m \in Nat /\ n \in Nat /\ n = Len(t)
    BY <1>1
  <2> HIDE DEF m, n, a
  <2>2. h.from \in Nat /\ h.keep \in Nat /\ d \in Nat /\ EndOf(h) = p + d /\ p + d <= n
    BY <1>1, <2>1
  <2>3. b \in Nat /\ g.keep \in Nat /\ g.drop \in Nat /\ EndOf(g) = b + w /\ b + w <= n
    BY <1>2, <2>1
  <2>4. p + d <= b
    BY <2>2
  <2>5. p \in Nat /\ w \in Nat
    BY <2>2, <2>3
  <2> HIDE DEF p, d, b, w
  <2>6. p \in 0 .. n
    BY <2>1, <2>2, <2>5
  <2> QED
    BY <2>1, <2>2, <2>3, <2>4, <2>5, <2>6
<1>4. x = Spliced(l, p, d, a)
  BY DEF Replaced
<1>5. NoChoice(t, g, style, l, x, EndOf(h)) /\ MovedBy(h, g) = f
  BY DEF MovedBy
<1> HIDE DEF x, p, d, a, b, w, r
<1>6. /\ x \in Seq(Lines) /\ Len(x) = (n - d) + m
      /\ \A k \in (p + d) + 1 .. n : x[(k - d) + m] = l[k]
  <2>1. a \in Seq(Lines)
    BY <1>1 DEF a
  <2>2. p \in 0 .. Len(l) /\ d \in Nat /\ p + d <= Len(l)
    BY <1>3
  <2> DEFINE y == Spliced(l, p, d, a)
  <2>3. /\ y \in Seq(Lines) /\ Len(y) = (Len(l) - d) + Len(a)
        /\ \A k \in (p + d) + 1 .. Len(l) : y[(k - d) + Len(a)] = l[k]
    BY <2>1, <2>2, SplicedIs
  <2>4. x = y
    BY <1>4
  <2> HIDE DEF y
  <2> QED
    BY <2>3, <2>4
<1> HIDE DEF n, m
<1>7. f \in Nat /\ f + w <= Len(x) /\ f \in 0 .. Len(x) /\ f + w \in f .. Len(x) /\ (f + w) - f = w
  <2>0. Len(x) = (n - d) + m
    BY <1>6
  <2> QED
    BY <1>3, <2>0
<1>8. CASE r = << >>
  <2>1. style # "shifted" /\ b = LeadsTo(l, g.anchor, p + d)
    BY <1>3, <1>5, <1>8 DEF NoChoice, r, b
  <2>2. f = LeadsTo(x, g.anchor, p + m)
    BY <1>1, <1>3, <1>4, <2>1, LeadsAlong DEF m, n
  <2> QED
    BY <1>5, <1>6, <1>7, <1>8, <2>1, <2>2 DEF FitsAt, r, x, p, m, a
<1>9. CASE r # << >>
  <2>1. RegionLines(l, g) = r
    BY <1>5, <1>9 DEF NoChoice, r
  <2>2. RegionLines(l, g) = SubSeq(l, b + 1, b + w)
    BY <1>3 DEF RegionLines, b
  <2> DEFINE u == SubSeq(x, f + 1, f + w)
             v == SubSeq(l, b + 1, b + w)
  <2>3. u \in Seq(Lines) /\ Len(u) = w /\ \A k \in 1 .. w : u[k] = x[f + k]
    <3> HIDE DEF f
    <3> QED
      BY <1>6, <1>7, LinesSub
  <2>4. v \in Seq(Lines) /\ Len(v) = w /\ \A k \in 1 .. w : v[k] = l[b + k]
    <3>1. b \in 0 .. Len(l) /\ b + w \in b .. Len(l) /\ (b + w) - b = w
      BY <1>3 DEF n
    <3> QED
      BY <3>1, LinesSub
  <2> HIDE DEF u, v
  <2>5. ASSUME NEW k \in 1 .. w PROVE u[k] = v[k]
    <3> DEFINE j == b + k
    <3>1. j \in (p + d) + 1 .. n /\ (j - d) + m = f + k
      BY <1>3
    <3> HIDE DEF f, j
    <3>2. x[(j - d) + m] = l[j]
      BY <1>6, <3>1
    <3>3. u[k] = x[f + k] /\ v[k] = l[j]
      BY <2>3, <2>4 DEF j
    <3> QED
      BY <3>1, <3>2, <3>3
  <2>6. u = v
    BY <2>3, <2>4, <2>5, SameLines
  <2>7. u = r
    BY <2>1, <2>2, <2>6 DEF v
  <2> HIDE DEF f
  <2>8. f + (g.keep + g.drop) <= Len(x) /\ SubSeq(x, f + 1, f + (g.keep + g.drop)) = r
    BY <1>7, <2>7 DEF u, w
  <2>9. IF style = "shifted"
        THEN /\ Cardinality(CandidateMatches(Stripped(x), Stripped(r))) = 1
             /\ Aligned(r, KeptLines(t, g) \o g.add)
        ELSE Cardinality(CandidateMatches(x, r)) = 1
    BY <1>5, <1>9 DEF NoChoice, r
  <2>10. FitsAt(t, g, style, x, p + m, f)
    BY <1>9, <2>8, <2>9 DEF FitsAt, r
  <2> QED
    BY <1>5, <1>6, <1>7, <2>10 DEF x, p, m, a
<1> QED
  BY <1>8, <1>9

LEMMA TwoLand ==
  ASSUME NEW t \in Seq(Lines), NEW l \in Seq(Lines), Len(l) = Len(t), NEW h \in Regions(t),
         NEW g \in Regions(t), g.from >= EndOf(h), NEW style \in Styles,
         NoChoice(t, h, style, l, l, 0), NoChoice(t, g, style, l, Replaced(l, h), EndOf(h))
  PROVE  Succeeds(l, t, <<h, g>>, style, Replaced(Replaced(l, g), h))
<1> DEFINE op == OpOf(t, h, style)
           op2 == OpOf(t, g, style)
           x == Replaced(l, h)
           c == (h.from + h.keep) + Len(h.add)
           f == MovedBy(h, g)
           s == ApplyOperation(StateAt(l, 0), op)
           s2 == ApplyOperation(s, op2)
           e == Replaced(Replaced(l, g), h)
<1>0. 0 \in Nat
  OBVIOUS
<1>1. h.from \in 0 .. Len(l) /\ FitsAt(t, h, style, l, 0, h.from)
  BY FirstFits
<1>2. /\ h.from \in 0 .. Len(t) /\ h.keep \in Nat /\ h.drop \in Nat /\ h.add \in Seq(Lines)
      /\ EndOf(h) = h.from + h.keep + h.drop /\ h.from + h.keep + h.drop <= Len(t)
      /\ g.from \in 0 .. Len(t) /\ g.keep \in Nat /\ g.drop \in Nat /\ g.add \in Seq(Lines)
      /\ g.from + g.keep + g.drop <= Len(t)
  BY RegionIs
<1>3. Len(h.add) \in Nat /\ Len(t) \in Nat
  BY <1>2
<1>4. c \in Nat
  BY <1>2, <1>3
<1>5. s = StateAt(x, c)
  <2>1. Lands(l, 0, op, h.from + h.keep, h.drop, h.add)
    BY <1>0, <1>1, OpLands
  <2> QED
    BY <2>1 DEF Lands, Replaced
<1>6. x \in Seq(Lines) /\ f \in 0 .. Len(x) /\ FitsAt(t, g, style, x, c, f)
  BY SecondFits
<1> HIDE DEF x, c, s
<1>7. s2 = StateAt(Spliced(x, f + g.keep, g.drop, g.add), (f + g.keep) + Len(g.add))
  <2> HIDE DEF f
  <2>1. Lands(x, c, op2, f + g.keep, g.drop, g.add)
    BY <1>4, <1>6, OpLands
  <2> QED
    BY <1>5, <2>1 DEF Lands
<1>8. Spliced(x, f + g.keep, g.drop, g.add) = e
  <2> DEFINE hf == h.from
             hk == h.keep
             gf == g.from
             gk == g.keep
             p == hf + hk
             d == h.drop
             a == h.add
             q == gf + gk
             w == g.drop
             b == g.add
  <2>1. p \in 0 .. Len(l) /\ q \in 0 .. Len(l) /\ d \in Nat /\ w \in Nat
        /\ p + d <= q /\ q + w <= Len(l) /\ f + gk = (q - d) + Len(a)
    <3> DEFINE m == Len(a)
               n == Len(l)
    <3>1. /\ hf \in Nat /\ hk \in Nat /\ d \in Nat /\ hf + hk + d <= gf
          /\ gf \in Nat /\ gk \in Nat /\ w \in Nat /\ gf + gk + w <= n
      BY <1>2
    <3>2. m \in Nat /\ n \in Nat
      BY <1>3
    <3>3. f = (gf - d) + m
      BY DEF MovedBy
    <3> HIDE DEF m, n, hf, hk, gf, gk, d, w, f
    <3>4. f + gk = (q - d) + m
      BY <3>1, <3>2, <3>3
    <3>5. p \in 0 .. n /\ q \in 0 .. n /\ p + d <= q /\ q + w <= n
      BY <3>1, <3>2
    <3> HIDE DEF p, q
    <3> QED
      BY <3>1, <3>4, <3>5, Zenon DEF m, n
  <2>2. a \in Seq(Lines) /\ b \in Seq(Lines)
    BY <1>2
  <2>3. e = Spliced(Spliced(l, q, w, b), p, d, a) /\ x = Spliced(l, p, d, a)
    BY DEF Replaced, x
  <2> HIDE DEF hf, hk, gf, gk, p, q, d, w, a, b, e, f
  <2>4. EitherOrder(l, p, d, a, q, w, b)
    BY <2>1, <2>2, SplicedTwice
  <2>5. Spliced(x, (q - d) + Len(a), w, b) = e
    BY <2>3, <2>4 DEF EitherOrder
  <2>6. Spliced(x, f + gk, w, b) = e
    BY <2>1, <2>5
  <2> QED
    BY <2>6 DEF gk, w, b
<1>9. ParsePatchOperations(RawPatch(t, <<h, g>>, style)) = <<op, op2>>
  BY TwoHunksParse DEF TwoHunks
<1> HIDE DEF op, op2, f, s2, e
<1>10. Ends(l, <<op, op2>>, s2)
  BY TwoOperations DEF s, s2
<1>11. FinishedIs(s2, e)
  BY <1>7, <1>8, FinishesWell
<1>12. Done(l, t, <<h, g>>, style) = Finished(s2)
  BY <1>9, <1>10 DEF Done, Ends
<1> QED
  BY <1>11, <1>12 DEF Succeeds, FinishedIs, e

-----------------------------------------------------------------------------
(* The property, for a call with one hunk and for one with two.            *)

LEMMA FirstChoice ==
  ASSUME NEW made, NEW t, NEW h, NEW hunks, NEW style, NEW l,
         hunks[1] = h, SubSeq(hunks, 1, 0) = << >>,
         made.seen = t, made.hunks = hunks, made.style = style, made.before = l
  PROVE  /\ LeavesNoChoice(made, 1) <=> NoChoice(t, h, style, l, l, 0)
         /\ StrippedBlock(made, 1) = Stripped(RegionLines(t, h))
         /\ BlockOccurrences(made, 1) = CandidateMatches(Stripped(l), Stripped(RegionLines(t, h)))
<1>1. TextFor(made, 1) = l
  <2>1. Meant(l, << >>) = l
    BY NoHunkMeans DEF Means
  <2>2. 1 - 1 = 0
    OBVIOUS
  <2>3. TextFor(made, 1) = Meant(made.before, SubSeq(made.hunks, 1, 1 - 1))
    BY DEF TextFor
  <2> QED
    BY <2>1, <2>2, <2>3
<1>2. StrippedBlock(made, 1) = Stripped(RegionLines(t, h))
  BY DEF StrippedBlock
<1>3. BlockOccurrences(made, 1) = CandidateMatches(Stripped(l), Stripped(RegionLines(t, h)))
  <2>1. BlockOccurrences(made, 1) = CandidateMatches(Stripped(TextFor(made, 1)), StrippedBlock(made, 1))
    BY DEF BlockOccurrences
  <2> QED
    BY <1>1, <1>2, <2>1
<1>4. IndentKnown(made, h) <=> Aligned(RegionLines(t, h), KeptLines(t, h) \o h.add)
  BY DEF IndentKnown
<1>5. LeavesNoChoice(made, 1)
        <=> IF RegionLines(t, h) = << >>
            THEN style # "shifted" /\ h.from = LeadsTo(l, h.anchor, 0)
            ELSE /\ RegionLines(l, h) = RegionLines(t, h)
                 /\ IF style = "shifted"
                    THEN Cardinality(BlockOccurrences(made, 1)) = 1 /\ IndentKnown(made, h)
                    ELSE Cardinality(CandidateMatches(TextFor(made, 1), RegionLines(t, h))) = 1
  <2>1. LeadsTo(l, h.anchor, 0)
          = IF {k \in (0 + 1) .. Len(l) : l[k].word = h.anchor} = {} THEN 0
            ELSE Min({k \in (0 + 1) .. Len(l) : l[k].word = h.anchor})
    BY DEF LeadsTo, Anchored
  <2> QED
    BY <2>1 DEF LeavesNoChoice
<1> QED
  BY <1>1, <1>2, <1>3, <1>4, <1>5 DEF NoChoice

LEMMA SecondChoice ==
  ASSUME NEW made, NEW t, NEW h, NEW g, NEW hunks, NEW style, NEW l,
         hunks[1] = h, hunks[2] = g, SubSeq(hunks, 1, 1) = <<h>>,
         made.seen = t, made.hunks = hunks, made.style = style, made.before = l
  PROVE  /\ LeavesNoChoice(made, 2) <=> NoChoice(t, g, style, l, Replaced(l, h), EndOf(h))
         /\ StrippedBlock(made, 2) = Stripped(RegionLines(t, g))
         /\ BlockOccurrences(made, 2)
              = CandidateMatches(Stripped(Replaced(l, h)), Stripped(RegionLines(t, g)))
<1>1. TextFor(made, 2) = Replaced(l, h)
  <2>1. Meant(l, <<h>>) = Replaced(l, h)
    BY OneHunkMeans DEF Means
  <2>2. 2 - 1 = 1
    OBVIOUS
  <2>3. TextFor(made, 2) = Meant(made.before, SubSeq(made.hunks, 1, 2 - 1))
    BY DEF TextFor
  <2> QED
    BY <2>1, <2>2, <2>3
<1>2. StrippedBlock(made, 2) = Stripped(RegionLines(t, g))
  BY DEF StrippedBlock
<1>3. BlockOccurrences(made, 2)
        = CandidateMatches(Stripped(Replaced(l, h)), Stripped(RegionLines(t, g)))
  <2>1. BlockOccurrences(made, 2) = CandidateMatches(Stripped(TextFor(made, 2)), StrippedBlock(made, 2))
    BY DEF BlockOccurrences
  <2> QED
    BY <1>1, <1>2, <2>1
<1>4. IndentKnown(made, g) <=> Aligned(RegionLines(t, g), KeptLines(t, g) \o g.add)
  BY DEF IndentKnown
<1>5. LeavesNoChoice(made, 2)
        <=> IF RegionLines(t, g) = << >>
            THEN style # "shifted" /\ g.from = LeadsTo(l, g.anchor, EndOf(h))
            ELSE /\ RegionLines(l, g) = RegionLines(t, g)
                 /\ IF style = "shifted"
                    THEN Cardinality(BlockOccurrences(made, 2)) = 1 /\ IndentKnown(made, g)
                    ELSE Cardinality(CandidateMatches(TextFor(made, 2), RegionLines(t, g))) = 1
  <2>1. LeadsTo(l, g.anchor, EndOf(h))
          = IF {k \in (EndOf(h) + 1) .. Len(l) : l[k].word = g.anchor} = {} THEN EndOf(h)
            ELSE Min({k \in (EndOf(h) + 1) .. Len(l) : l[k].word = g.anchor})
    BY DEF LeadsTo, Anchored
  <2>2. 2 - 1 = 1 /\ 2 # 1
    OBVIOUS
  <2> QED
    BY <2>1, <2>2 DEF LeavesNoChoice
<1> QED
  BY <1>1, <1>2, <1>3, <1>4, <1>5 DEF NoChoice

LEMMA StrippedNonempty ==
  ASSUME NEW r \in Seq(Lines)
  PROVE  Stripped(r) # << >> => r # << >>
<1>1. Len(Stripped(r)) = Len(r) /\ Stripped(r) \in Seq(STRING)
  BY StrippedIs
<1> QED
  BY <1>1

LEMMA OneHunkLands ==
  ASSUME NEW t \in Seq(Lines), NEW l \in Seq(Lines), NEW h \in Regions(t), NEW style,
         NEW made, call_' = made,
         made.seen = t, made.hunks = <<h>>, made.style = style, made.before = l,
         ~ made.ok => target_text' = l,
         NoChoice(t, h, style, l, l, 0)
           => made.ok /\ (Replaced(l, h) # << >> => target_text' = Replaced(l, h)),
         Nowhere(t, h, l) => ~ made.ok
  PROVE  PatchLandsWhereMeant'
<1> DEFINE hunks == <<h>>
<1>1. hunks[1] = h /\ SubSeq(hunks, 1, 0) = << >> /\ DOMAIN hunks = {1}
  OBVIOUS
<1>2. Meant(l, hunks) = Replaced(l, h)
  BY OneHunkMeans DEF Means
<1>3. made.hunks = hunks
  OBVIOUS
<1> HIDE DEF hunks
<1>4. /\ LeavesNoChoice(made, 1) <=> NoChoice(t, h, style, l, l, 0)
      /\ StrippedBlock(made, 1) = Stripped(RegionLines(t, h))
      /\ BlockOccurrences(made, 1) = CandidateMatches(Stripped(l), Stripped(RegionLines(t, h)))
  BY <1>1, <1>3, FirstChoice
<1>5. CASE LeavesNoChoice(made, 1)
  <2>1. \A i \in DOMAIN made.hunks : LeavesNoChoice(made, i)
    BY <1>1, <1>3, <1>5
  <2>2. made.ok /\ (Meant(l, hunks) # << >> => target_text' = Meant(l, hunks))
    BY <1>2, <1>4, <1>5
  <2> QED
    BY <1>3, <2>1, <2>2, Zenon DEF PatchLandsWhereMeant
<1>6. CASE ~ LeavesNoChoice(made, 1)
  <2> DEFINE S == {k \in DOMAIN made.hunks : ~ LeavesNoChoice(made, k)}
  <2>1. ~ \A i \in DOMAIN made.hunks : LeavesNoChoice(made, i)
    BY <1>1, <1>3, <1>6
  <2>2. Min(S) = 1
    <3>1. S \subseteq Nat /\ 1 \in S /\ \A j \in S : 1 <= j
      BY <1>1, <1>3, <1>6
    <3> HIDE DEF S
    <3> QED
      BY <3>1, MinIsOnly
  <2>3. StrippedBlock(made, 1) # << >> /\ BlockOccurrences(made, 1) = {} => ~ made.ok
    <3>1. RegionLines(t, h) \in Seq(Lines)
      BY RegionIs
    <3> QED
      BY <1>4, <3>1, StrippedNonempty DEF Nowhere
  <2>4. StrippedBlock(made, Min(S)) # << >> /\ BlockOccurrences(made, Min(S)) = {} => ~ made.ok
    <3> HIDE DEF S
    <3> QED
      BY <2>2, <2>3
  <2> QED
    BY <2>1, <2>4, Zenon DEF PatchLandsWhereMeant
<1> QED
  BY <1>5, <1>6

LEMMA TwoHunksLand ==
  ASSUME NEW t \in Seq(Lines), NEW l \in Seq(Lines), NEW h \in Regions(t),
         NEW g \in Regions(t), NEW style, NEW made, call_' = made,
         made.seen = t, made.hunks = <<h, g>>, made.style = style, made.before = l,
         ~ made.ok => target_text' = l,
         NoChoice(t, h, style, l, l, 0) /\ NoChoice(t, g, style, l, Replaced(l, h), EndOf(h))
           => /\ made.ok
              /\ Replaced(Replaced(l, g), h) # << >>
                   => target_text' = Replaced(Replaced(l, g), h),
         Nowhere(t, h, l) => ~ made.ok,
         NoChoice(t, h, style, l, l, 0) /\ Nowhere(t, g, Replaced(l, h)) => ~ made.ok
  PROVE  PatchLandsWhereMeant'
<1> DEFINE hunks == <<h, g>>
<1>1. /\ hunks[1] = h /\ hunks[2] = g /\ DOMAIN hunks = {1, 2}
      /\ SubSeq(hunks, 1, 0) = << >> /\ SubSeq(hunks, 1, 1) = <<h>>
  <2>1. hunks[1] = h /\ hunks[2] = g /\ DOMAIN hunks = {1, 2} /\ Len(hunks) = 2
    OBVIOUS
  <2>2. hunks \in Seq({h, g})
    OBVIOUS
  <2> HIDE DEF hunks
  <2>3. SubSeq(hunks, 1, 0) = << >>
    BY <2>1, <2>2
  <2> DEFINE x == SubSeq(hunks, 1, 1)
             y == <<h>>
  <2>4. x \in Seq({h, g}) /\ Len(x) = 1 /\ x[1] = h
    BY <2>1, <2>2
  <2>5. y \in Seq({h, g}) /\ Len(y) = 1 /\ y[1] = h
    OBVIOUS
  <2> HIDE DEF x, y
  <2>6. x = [k \in 1 .. 1 |-> x[k]] /\ y = [k \in 1 .. 1 |-> y[k]]
    BY <2>4, <2>5
  <2>7. x = y
    BY <2>4, <2>5, <2>6
  <2> QED
    BY <2>1, <2>3, <2>7 DEF x, y
<1>2. Meant(l, hunks) = Replaced(Replaced(l, g), h)
  BY TwoHunksMean DEF Means
<1>3. made.hunks = hunks
  OBVIOUS
<1> HIDE DEF hunks
<1>4. /\ LeavesNoChoice(made, 1) <=> NoChoice(t, h, style, l, l, 0)
      /\ StrippedBlock(made, 1) = Stripped(RegionLines(t, h))
      /\ BlockOccurrences(made, 1) = CandidateMatches(Stripped(l), Stripped(RegionLines(t, h)))
  BY <1>1, <1>3, FirstChoice
<1>5. /\ LeavesNoChoice(made, 2) <=> NoChoice(t, g, style, l, Replaced(l, h), EndOf(h))
      /\ StrippedBlock(made, 2) = Stripped(RegionLines(t, g))
      /\ BlockOccurrences(made, 2)
           = CandidateMatches(Stripped(Replaced(l, h)), Stripped(RegionLines(t, g)))
  BY <1>1, <1>3, SecondChoice
<1>6. CASE LeavesNoChoice(made, 1) /\ LeavesNoChoice(made, 2)
  <2>1. \A i \in DOMAIN made.hunks : LeavesNoChoice(made, i)
    BY <1>1, <1>3, <1>6
  <2>2. made.ok /\ (Meant(l, hunks) # << >> => target_text' = Meant(l, hunks))
    BY <1>2, <1>4, <1>5, <1>6
  <2> QED
    BY <1>3, <2>1, <2>2, Zenon DEF PatchLandsWhereMeant
<1> DEFINE S == {k \in DOMAIN made.hunks : ~ LeavesNoChoice(made, k)}
<1>7. CASE ~ LeavesNoChoice(made, 1)
  <2>1. ~ \A i \in DOMAIN made.hunks : LeavesNoChoice(made, i)
    BY <1>1, <1>3, <1>7
  <2>2. Min(S) = 1
    <3>1. S \subseteq Nat /\ 1 \in S /\ \A j \in S : 1 <= j
      BY <1>1, <1>3, <1>7
    <3> HIDE DEF S
    <3> QED
      BY <3>1, MinIsOnly
  <2>3. StrippedBlock(made, 1) # << >> /\ BlockOccurrences(made, 1) = {} => ~ made.ok
    <3>1. RegionLines(t, h) \in Seq(Lines)
      BY RegionIs
    <3> QED
      BY <1>4, <3>1, StrippedNonempty DEF Nowhere
  <2>4. StrippedBlock(made, Min(S)) # << >> /\ BlockOccurrences(made, Min(S)) = {} => ~ made.ok
    <3> HIDE DEF S
    <3> QED
      BY <2>2, <2>3
  <2> QED
    BY <2>1, <2>4, Zenon DEF PatchLandsWhereMeant
<1>8. CASE LeavesNoChoice(made, 1) /\ ~ LeavesNoChoice(made, 2)
  <2>1. ~ \A i \in DOMAIN made.hunks : LeavesNoChoice(made, i)
    BY <1>1, <1>3, <1>8
  <2>2. Min(S) = 2
    <3>1. S = {2}
      BY <1>1, <1>3, <1>8
    <3> HIDE DEF S
    <3>2. S \subseteq Nat /\ 2 \in S /\ \A j \in S : 2 <= j
      BY <3>1
    <3> QED
      BY <3>2, MinIsOnly
  <2>3. StrippedBlock(made, 2) # << >> /\ BlockOccurrences(made, 2) = {} => ~ made.ok
    <3>1. RegionLines(t, g) \in Seq(Lines)
      BY RegionIs
    <3> QED
      BY <1>4, <1>5, <1>8, <3>1, StrippedNonempty DEF Nowhere
  <2>4. StrippedBlock(made, Min(S)) # << >> /\ BlockOccurrences(made, Min(S)) = {} => ~ made.ok
    <3> HIDE DEF S
    <3> QED
      BY <2>2, <2>3
  <2> QED
    BY <2>1, <2>4, Zenon DEF PatchLandsWhereMeant
<1> QED
  BY <1>6, <1>7, <1>8

\* old_text and new_text.
Replacement(l, t, h) == ApplyLegacyExactReplacement(l, RegionLines(t, h), h.add)

LEMMA ReplacementLands ==
  ASSUME NEW t \in Seq(Lines), NEW l \in Seq(Lines), Len(l) = Len(t), NEW h \in Regions(t),
         h.keep = 0, h.drop > 0, NoChoice(t, h, "marked", l, l, 0)
  PROVE  Replacement(l, t, h).ok /\ Replacement(l, t, h).lines = Replaced(l, h)
<1> DEFINE r == RegionLines(t, h)
           S == CandidateMatches(l, r)
           f == h.from
<1>1. /\ r \in Seq(Lines) /\ Len(r) = h.keep + h.drop /\ h.drop \in Nat /\ f \in 0 .. Len(t)
      /\ EndOf(h) = f + h.keep + h.drop /\ f + h.keep + h.drop <= Len(t)
  BY RegionIs
<1>2. r # << >> /\ Len(r) = h.drop /\ f \in Nat /\ f + Len(r) <= Len(l) /\ f + h.keep = f
  BY <1>1
<1>3. RegionLines(l, h) = r /\ Cardinality(S) = 1
  BY <1>2 DEF NoChoice
<1>4. RegionLines(l, h) = SubSeq(l, f + 1, f + Len(r))
  <2>1. EndOf(h) = f + Len(r)
    BY <1>1
  <2> QED
    BY <2>1 DEF RegionLines
<1> HIDE DEF r, f
<1>5. f + 1 \in S
  <2>1. SubSeq(l, f + 1, f + Len(r)) = r
    BY <1>3, <1>4
  <2> QED
    BY <1>1, <1>2, <2>1, FoundAt
<1>6. S = {f + 1}
  <2>1. IsFiniteSet(S)
    <3>1. Len(l) \in Nat /\ Len(r) \in Nat
      BY <1>1
    <3> QED
      BY <3>1, MatchesAre
  <2> HIDE DEF S
  <2> QED
    BY <1>3, <1>5, <2>1, OnlyMatch
<1>7. Min({f + 1}) = f + 1 /\ (f + 1) - 1 = f
  <2>1. Min({f + 1}) = f + 1
    <3> DEFINE b == f + 1
    <3>1. b \in Nat
      BY <1>2
    <3> HIDE DEF b
    <3> DEFINE T == {b}
    <3>2. T \subseteq Nat /\ b \in T /\ \A j \in T : b <= j
      BY <3>1
    <3> HIDE DEF T
    <3>3. Min(T) = b
      BY <3>2, MinIsOnly
    <3> QED
      BY <3>3 DEF b, T
  <2> QED
    BY <1>2, <2>1
<1>8. ~ (S = {} \/ \E k \in S : k >= Min(S) + Len(r))
  <2>1. Len(r) \in Nat /\ Len(r) > 0
    BY <1>1, <1>2
  <2> HIDE DEF S
  <2> QED
    BY <1>2, <1>6, <1>7, <2>1
<1>9. Replacement(l, t, h)
        = [ok |-> TRUE, lines |-> Spliced(l, Min(S) - 1, Len(r), h.add), cursor |-> 0]
  <2> DEFINE b == S = {} \/ \E k \in S : k >= Min(S) + Len(r)
  <2>1. Replacement(l, t, h)
          = IF b THEN FailedPatch
            ELSE [ok |-> TRUE, lines |-> Spliced(l, Min(S) - 1, Len(r), h.add), cursor |-> 0]
    BY DEF Replacement, ApplyLegacyExactReplacement, r
  <2>2. ~ b
    BY <1>8
  <2> HIDE DEF b
  <2> QED
    BY <2>1, <2>2
<1>10. Min(S) - 1 = f
  <2> HIDE DEF S
  <2> QED
    BY <1>6, <1>7
<1> HIDE DEF S
<1> QED
  BY <1>2, <1>9, <1>10 DEF Replaced, f

LEMMA ReplacementStops ==
  ASSUME NEW t \in Seq(Lines), NEW l \in Seq(Lines), NEW h \in Regions(t), Nowhere(t, h, l)
  PROVE  ~ Replacement(l, t, h).ok
<1> DEFINE r == RegionLines(t, h)
<1>1. r \in Seq(Lines)
  BY RegionIs
<1>2. CandidateMatches(Stripped(l), Stripped(r)) = {}
  BY DEF Nowhere
<1> HIDE DEF r
<1>3. CandidateMatches(l, r) = {}
  BY <1>1, <1>2, StrippedMatches
<1> QED
  BY <1>3 DEF Replacement, ApplyLegacyExactReplacement, FailedPatch, r

-----------------------------------------------------------------------------
(* The invariant: a call that waits for the answer is one the agent can    *)
(* have made for the file it saw, and the file has kept its length.        *)

HunksFit(t, hunks) ==
    \/ \E h \in Regions(t) : hunks = <<h>>
    \/ \E h, g \in Regions(t) : g.from >= EndOf(h) /\ hunks = <<h, g>>
ReplacementFits(t, hunks, style) ==
    style = "marked" /\ \E h \in Regions(t) : h.keep = 0 /\ h.drop > 0 /\ hunks = <<h>>

CallAsked ==
    /\ call_.stage = "asked" /\ call_.seen \in Seq(Lines) /\ call_.style \in Styles
    /\ Len(target_text) = Len(call_.seen)
    /\ \/ call_.mode = "patch" /\ HunksFit(call_.seen, call_.hunks)
       \/ call_.mode = "legacy" /\ ReplacementFits(call_.seen, call_.hunks, call_.style)

PatchInv ==
    \/ call_ = NoPatchCall /\ target_text \in Seq(Lines)
    \/ CallAsked /\ target_text \in Seq(Lines)
    \/ call_.stage = "done" /\ PatchLandsWhereMeant

LEMMA PatchInvInit == PatchInit => PatchInv
BY PatchApplyAssumption DEF PatchInit, PatchInv, PatchApplyAssumption

LEMMA StagesDiffer == NoPatchCall.stage # "asked" /\ NoPatchCall.stage # "done"
BY DEF NoPatchCall

LEMMA ProposeKeeps ==
  ASSUME PatchInv, ProposePatch
  PROVE  PatchInv'
<1>1. call_ = NoPatchCall /\ target_text' = target_text
  BY DEF ProposePatch
<1>2. target_text \in Seq(Lines)
  BY <1>1, StagesDiffer DEF PatchInv, CallAsked
<1>3. PICK style \in Styles, h \in Regions(target_text) :
        \E more \in {<< >>} \union
                     {<<g>> : g \in {r \in Regions(target_text) : r.from >= EndOf(h)}} :
          call_' = [stage |-> "asked", mode |-> "patch", seen |-> target_text,
                    hunks |-> <<h>> \o more, style |-> style]
  BY Zenon DEF ProposePatch
<1>4. PICK more \in {<< >>} \union
                     {<<g>> : g \in {r \in Regions(target_text) : r.from >= EndOf(h)}} :
          call_' = [stage |-> "asked", mode |-> "patch", seen |-> target_text,
                    hunks |-> <<h>> \o more, style |-> style]
  BY <1>3
<1>5. HunksFit(target_text, <<h>> \o more)
  <2>1. CASE more = << >>
    <3>1. <<h>> \o << >> = <<h>>
      OBVIOUS
    <3> QED
      BY <2>1, <3>1 DEF HunksFit
  <2>2. CASE \E g \in Regions(target_text) : g.from >= EndOf(h) /\ more = <<g>>
    <3>1. PICK g \in Regions(target_text) : g.from >= EndOf(h) /\ more = <<g>>
      BY <2>2
    <3>2. <<h>> \o <<g>> = <<h, g>>
      <4>1. <<h>> \o <<g>> = Append(<<h>>, g)
        OBVIOUS
      <4>2. MakesTwo(h, g)
        BY TwoMade
      <4> QED
        BY <4>1, <4>2 DEF MakesTwo
    <3> QED
      BY <3>1, <3>2 DEF HunksFit
  <2> QED
    BY <2>1, <2>2
<1>6. /\ call_'.stage = "asked" /\ call_'.mode = "patch" /\ call_'.seen = target_text
      /\ call_'.hunks = <<h>> \o more /\ call_'.style = style
  BY <1>4
<1>7. CallAsked'
  BY <1>1, <1>2, <1>5, <1>6 DEF CallAsked
<1> QED
  BY <1>1, <1>2, <1>7 DEF PatchInv

LEMMA ProposeReplacementKeeps ==
  ASSUME PatchInv, ProposeReplacement
  PROVE  PatchInv'
<1>1. call_ = NoPatchCall /\ target_text' = target_text
  BY DEF ProposeReplacement
<1>2. target_text \in Seq(Lines)
  BY <1>1, StagesDiffer DEF PatchInv, CallAsked
<1>3. PICK h \in Regions(target_text) :
         /\ h.keep = 0 /\ h.drop > 0
         /\ call_' = [stage |-> "asked", mode |-> "legacy", seen |-> target_text,
                      hunks |-> <<h>>, style |-> "marked"]
  BY Zenon DEF ProposeReplacement
<1>4. /\ call_'.stage = "asked" /\ call_'.mode = "legacy" /\ call_'.seen = target_text
      /\ call_'.hunks = <<h>> /\ call_'.style = "marked"
  BY <1>3
<1>5. ReplacementFits(target_text, <<h>>, "marked") /\ "marked" \in Styles
  BY <1>3 DEF ReplacementFits, Styles
<1>6. CallAsked'
  BY <1>1, <1>2, <1>4, <1>5 DEF CallAsked
<1> QED
  BY <1>1, <1>2, <1>6 DEF PatchInv

LEMMA UserEditKeeps ==
  ASSUME PatchInv, NEW k \in DOMAIN target_text, UserEditsLine(k)
  PROVE  PatchInv'
<1>1. /\ call_.stage = "asked" /\ target_text' = [target_text EXCEPT ![k] = EditedLine]
      /\ call_' = call_
  BY DEF UserEditsLine
<1>2. CallAsked /\ target_text \in Seq(Lines)
  BY <1>1, StagesDiffer DEF PatchInv
<1>3. EditedLine \in Lines
  BY PatchApplyAssumption DEF PatchApplyAssumption
<1>4. target_text' \in Seq(Lines) /\ Len(target_text') = Len(target_text)
  BY <1>1, <1>2, <1>3
<1>5. CallAsked'
  BY <1>1, <1>2, <1>4 DEF CallAsked
<1> QED
  BY <1>4, <1>5 DEF PatchInv

LEMMA ExecuteKeeps ==
  ASSUME PatchInv, ExecutePatch
  PROVE  PatchInv'
<1> DEFINE t == call_.seen
           l == target_text
           hunks == call_.hunks
           style == call_.style
           done == Applied(l, call_)
           made == [stage |-> "done", mode |-> call_.mode, seen |-> t, hunks |-> hunks,
                    style |-> style, before |-> l, ok |-> done.ok]
<1>1. /\ call_.stage = "asked" /\ target_text' = (IF done.ok THEN done.lines ELSE l)
      /\ call_' = made
  BY DEF ExecutePatch
<1>2. CallAsked /\ l \in Seq(Lines)
  BY <1>1, StagesDiffer DEF PatchInv
<1>3. t \in Seq(Lines) /\ Len(l) = Len(t) /\ style \in Styles
  BY <1>2 DEF CallAsked
<1>4. /\ made.seen = t /\ made.hunks = hunks /\ made.style = style /\ made.before = l
      /\ made.stage = "done" /\ (made.ok <=> done.ok)
  OBVIOUS
<1>5. ~ made.ok => target_text' = l
  BY <1>1, <1>4
<1>6. CASE call_.mode = "patch" /\ HunksFit(t, hunks)
  <2>1. done = Done(l, t, hunks, style)
    BY <1>6 DEF Applied, ResolveOperations, Done
  <2> HIDE DEF t, l, hunks, style, done, made
  <2>2. CASE \E h \in Regions(t) : hunks = <<h>>
    <3>1. PICK h \in Regions(t) : hunks = <<h>>
      BY <2>2
    <3>2. NoChoice(t, h, style, l, l, 0)
            => made.ok /\ (Replaced(l, h) # << >> => target_text' = Replaced(l, h))
      <4>1. NoChoice(t, h, style, l, l, 0) => Succeeds(l, t, <<h>>, style, Replaced(l, h))
        BY <1>2, <1>3, OneLands DEF l
      <4> QED
        BY <1>1, <1>4, <2>1, <3>1, <4>1 DEF Succeeds
    <3>3. Nowhere(t, h, l) => ~ made.ok
      <4>1. Nowhere(t, h, l) => Stops(l, t, <<h>>, style)
        BY <1>2, <1>3, OneStops DEF l
      <4> QED
        BY <1>4, <2>1, <3>1, <4>1 DEF Stops
    <3>4. PatchLandsWhereMeant'
      BY <1>1, <1>2, <1>3, <1>4, <1>5, <3>1, <3>2, <3>3, OneHunkLands
    <3> QED
      BY <1>1, <1>4, <3>4 DEF PatchInv
  <2>3. CASE \E h, g \in Regions(t) : g.from >= EndOf(h) /\ hunks = <<h, g>>
    <3>1. PICK h \in Regions(t), g \in Regions(t) : g.from >= EndOf(h) /\ hunks = <<h, g>>
      BY <2>3
    <3>2. NoChoice(t, h, style, l, l, 0) /\ NoChoice(t, g, style, l, Replaced(l, h), EndOf(h))
            => /\ made.ok
               /\ Replaced(Replaced(l, g), h) # << >>
                    => target_text' = Replaced(Replaced(l, g), h)
      <4>1. NoChoice(t, h, style, l, l, 0) /\ NoChoice(t, g, style, l, Replaced(l, h), EndOf(h))
              => Succeeds(l, t, <<h, g>>, style, Replaced(Replaced(l, g), h))
        BY <1>2, <1>3, <3>1, TwoLand
      <4> QED
        BY <1>1, <1>4, <2>1, <3>1, <4>1 DEF Succeeds
    <3>3. Nowhere(t, h, l) => ~ made.ok
      <4>1. Nowhere(t, h, l) => Stops(l, t, <<h, g>>, style)
        BY <1>2, <1>3, TwoFirstStops
      <4> QED
        BY <1>4, <2>1, <3>1, <4>1 DEF Stops
    <3>4. NoChoice(t, h, style, l, l, 0) /\ Nowhere(t, g, Replaced(l, h)) => ~ made.ok
      <4>1. NoChoice(t, h, style, l, l, 0) /\ Nowhere(t, g, Replaced(l, h))
              => Stops(l, t, <<h, g>>, style)
        BY <1>2, <1>3, TwoSecondStops
      <4> QED
        BY <1>4, <2>1, <3>1, <4>1 DEF Stops
    <3>5. PatchLandsWhereMeant'
      BY <1>1, <1>2, <1>3, <1>4, <1>5, <3>1, <3>2, <3>3, <3>4, TwoHunksLand
    <3> QED
      BY <1>1, <1>4, <3>5 DEF PatchInv
  <2> QED
    BY <1>6, <2>2, <2>3 DEF HunksFit
<1>7. CASE call_.mode = "legacy" /\ ReplacementFits(t, hunks, style)
  <2>1. PICK h \in Regions(t) : h.keep = 0 /\ h.drop > 0 /\ hunks = <<h>>
    BY <1>7 DEF ReplacementFits
  <2>2. style = "marked"
    BY <1>7 DEF ReplacementFits
  <2>3. done = Replacement(l, t, h)
    <3>1. hunks[1] = h
      <4> HIDE DEF hunks
      <4> QED
        BY <2>1
    <3> QED
      BY <1>7, <3>1 DEF Applied, Replacement
  <2> HIDE DEF t, l, hunks, style, done, made
  <2>4. NoChoice(t, h, style, l, l, 0)
          => made.ok /\ (Replaced(l, h) # << >> => target_text' = Replaced(l, h))
    <3>1. NoChoice(t, h, "marked", l, l, 0)
            => Replacement(l, t, h).ok /\ Replacement(l, t, h).lines = Replaced(l, h)
      BY <1>2, <1>3, <2>1, ReplacementLands
    <3> QED
      BY <1>1, <1>4, <2>2, <2>3, <3>1
  <2>5. Nowhere(t, h, l) => ~ made.ok
    <3>1. Nowhere(t, h, l) => ~ Replacement(l, t, h).ok
      BY <1>2, <1>3, ReplacementStops
    <3> QED
      BY <1>4, <2>3, <3>1
  <2>6. PatchLandsWhereMeant'
    BY <1>1, <1>2, <1>3, <1>4, <1>5, <2>1, <2>4, <2>5, OneHunkLands
  <2> QED
    BY <1>1, <1>4, <2>6 DEF PatchInv
<1> QED
  BY <1>2, <1>6, <1>7 DEF CallAsked

LEMMA PatchInvStep == PatchInv /\ [PatchNext]_patchVars => PatchInv'
<1> SUFFICES ASSUME PatchInv, [PatchNext]_patchVars PROVE PatchInv'
  OBVIOUS
<1>1. CASE ProposePatch
  BY <1>1, ProposeKeeps
<1>2. CASE ProposeReplacement
  BY <1>2, ProposeReplacementKeeps
<1>3. CASE ExecutePatch
  BY <1>3, ExecuteKeeps
<1>4. CASE \E k \in DOMAIN target_text : UserEditsLine(k)
  BY <1>4, UserEditKeeps
<1>5. CASE UNCHANGED patchVars
  BY <1>5 DEF patchVars, PatchInv, CallAsked, PatchLandsWhereMeant
<1> QED
  BY <1>1, <1>2, <1>3, <1>4, <1>5 DEF PatchNext

\* A patch whose hunks leave no choice does what they mean, also when the user
\* has edited other lines of the file in the meantime; one whose lines are
\* nowhere fails; and one that fails leaves the file as it was: for every file,
\* every one or two hunks of any size, every anchor and every indentation.
THEOREM PatchesLand == PatchSpec => []PatchLandsWhereMeant
<1>1. PatchInv => PatchLandsWhereMeant
  BY StagesDiffer DEF PatchInv, CallAsked, PatchLandsWhereMeant
<1> QED
  BY PatchInvInit, PatchInvStep, <1>1, PTL DEF PatchSpec
=============================================================================
