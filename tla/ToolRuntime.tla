------------------------------ MODULE ToolRuntime ------------------------------
(***************************************************************************)
(* How the settings reach the processes that tools start: the execution    *)
(* runtime builds a tool router from the settings and keeps it with the    *)
(* agent controller, shell commands run under the router's sandbox policy, *)
(* and the servers of the MCP manager, which outlives both, are started    *)
(* under the policy the last build gave the manager.                       *)
(* (runtime/core.py, tools/exec_process.py, safety/policy.py,              *)
(*  mcp/client.py, tools/router.py)                                        *)
(***************************************************************************)
EXTENDS Naturals

CONSTANTS
    Postures,         \* values of safety.sandbox_mode
    SandboxBackends,  \* values of safety.os_sandbox_backend
    NetworkAccess,    \* values of safety.sandbox_network_access
    ExtraRoots,       \* directories safety.sandbox_writable_roots may list
    PlatformBackend,  \* what "auto" stands for on this platform
    Servers,          \* stdio servers of the configuration
    ServerDir,        \* directory a server is configured to start in
    Refreshes,        \* features.mcp_tool_inventory_refresh
    MaxSettings,      \* bound on the /config commands of one run
    MaxSwitches,      \* bound on the session changes of one run
    MaxBroken         \* bound on the servers that fail to start

Workspace == "workspace"
Places == {Workspace, ServerDir, "elsewhere"} \union ExtraRoots

ASSUME ToolRuntimeAssumption ==
    /\ Postures \subseteq {"read-only", "workspace-write", "danger-full-access"}
    /\ SandboxBackends \subseteq
         {"off", "auto", "macos-seatbelt", "linux-bwrap", "container-docker"}
    /\ NetworkAccess \subseteq {"auto", "allow", "deny"}
    /\ PlatformBackend \in {"off", "macos-seatbelt", "linux-bwrap"}
    /\ Refreshes \in BOOLEAN
    /\ {MaxSettings, MaxSwitches, MaxBroken} \subseteq Nat

VARIABLES
    settings,    \* the effective configuration
    sandboxes,   \* sandbox programs on the PATH
    controller_, \* the cached agent controller
    manager_,    \* the MCP manager: its policy, and the processes of its servers
    process_,    \* the process a built-in tool ran last
    runtime_,    \* number of the execution runtime, one per session opened
    toolsOf,     \* the runtime whose methods the sub-agent tools call
    broken,      \* failed server starts
    setEdits,       \* /config commands
    turn_         \* is a turn running that was dispatched to the controller?

toolRuntimeVars == <<settings, sandboxes, controller_, manager_, process_, runtime_,
                     toolsOf, broken, setEdits, turn_>>
-----------------------------------------------------------------------------
(* The policy                                                              *)

(* _build_runtime_sandbox_policy and RuntimeSandboxPolicy.from_posture.    *)
Policy(s) ==
    [posture |-> s.mode,
     roots |-> IF s.mode = "workspace-write" THEN {Workspace} \union s.roots ELSE {},
     network |-> CASE s.network = "allow" -> TRUE
                   [] s.network = "deny" -> FALSE
                   [] s.network = "auto" -> s.mode = "danger-full-access"]

Resolved(backend) == IF backend = "auto" THEN PlatformBackend ELSE backend

Unavailable(backend) == Resolved(backend) # "off" /\ Resolved(backend) \notin sandboxes

(* build_shell_exec_process, and _launch_command for a server: "auto"      *)
(* falls back to an unwrapped command, an explicit backend fails.          *)
Refused(backend) == backend # "auto" /\ Unavailable(backend)

Launch(backend, policy) ==
    [wrapper |-> IF Unavailable(backend) THEN "off" ELSE Resolved(backend),
     policy |-> policy, backend |-> backend]

(* wrap_command_for_os_sandbox: what a command started in dir may write    *)
(* and whether it has the network.  Bubblewrap and docker give it its own  *)
(* directory as well, whatever the policy's roots are.                     *)
Reach(launch, dir) ==
    LET p == launch.policy
    IN  IF launch.wrapper = "off" \/ p.posture = "danger-full-access"
        THEN [writes |-> Places, network |-> TRUE]
        ELSE [writes |-> IF p.posture = "read-only" THEN {}
                         ELSE p.roots \union (IF launch.wrapper = "macos-seatbelt" THEN {} ELSE {dir}),
              network |-> p.network]
-----------------------------------------------------------------------------
(* Building the tools                                                      *)

NoController == [key |-> << >>]
NoLaunch == [wrapper |-> "none"]
NoProcess == [tool |-> "none", launch |-> NoLaunch, dir |-> "none"]

(* get_or_create_agent_controller's key: the sandbox settings are not in   *)
(* it, the approval mode is.                                               *)
ControllerKey == <<runtime_, settings.approval>>

(* Mutant: the manager looks at the backend and the posture only.          *)
SameBackendMutant(m, backend, policy) == m.backend = backend /\ m.policy.posture = policy.posture

(* update_exec_policy: a change closes every server.                       *)
SamePolicy(m, backend, policy) == m.backend = backend /\ m.policy = policy

UpdatedManager(m, backend, policy) ==
    IF SamePolicy(m, backend, policy) THEN m
    ELSE [backend |-> backend, policy |-> policy, servers |-> [s \in Servers |-> NoLaunch]]

(* build_dynamic_tool_specs: every server is started, up to the one that   *)
(* fails; _client starts one under the manager's policy of the moment.     *)
Started(m, up) ==
    [m EXCEPT !.servers = [s \in Servers |->
        IF s \in up /\ m.servers[s] = NoLaunch THEN Launch(m.backend, m.policy) ELSE m.servers[s]]]

Settled(key, launch, mode) == [key |-> key, launch |-> launch, posture |-> mode]

(* build_tool_router for the settings: it succeeds or not, and a build   *)
(* that fails leaves the controller as it is.                              *)
BuildTools(ok) ==
    LET m == UpdatedManager(manager_, settings.backend, Policy(settings))
    IN  IF Refused(settings.backend) THEN ~ok /\ UNCHANGED <<manager_, broken>>
        ELSE \/ ok /\ manager_' = Started(m, Servers) /\ UNCHANGED broken
             \/ /\ ~ok /\ broken < MaxBroken /\ broken' = broken + 1
                /\ \E up \in SUBSET Servers :
                     \* a server that runs answers, only a start can fail
                     /\ \E s \in Servers \ up : m.servers[s] = NoLaunch
                     /\ manager_' = Started(m, up)
-----------------------------------------------------------------------------
(* set_elicitation_handler clears the manager's clients before any runs;   *)
(* _setup_multi_agent_runtime registers the sub-agent tools.               *)
ToolRuntimeInit ==
    /\ settings = [mode |-> "workspace-write", backend |-> "off", network |-> "auto",
                   roots |-> {}, approval |-> "balanced"]
    /\ sandboxes \in SUBSET ({"macos-seatbelt", "linux-bwrap", "container-docker"}
                               \intersect (SandboxBackends \union {PlatformBackend}))
    /\ controller_ = NoController /\ process_ = NoProcess
    /\ manager_ = [backend |-> "off", policy |-> [posture |-> "none"],
                   servers |-> [s \in Servers |-> NoLaunch]]
    /\ runtime_ = 1 /\ toolsOf = 1 /\ broken = 0 /\ setEdits = 0 /\ turn_ = FALSE

(* /config key value, at the prompt: ConfigManager.set, for the settings    *)
(* that matter.                                                            *)
Values(key) ==
    CASE key = "mode" -> Postures [] key = "backend" -> SandboxBackends
      [] key = "network" -> NetworkAccess [] key = "roots" -> SUBSET ExtraRoots
      [] key = "approval" -> {"balanced", "autonomous"}

SetConfig(key, value) ==
    /\ setEdits < MaxSettings /\ setEdits' = setEdits + 1
    /\ settings[key] # value /\ settings' = [settings EXCEPT ![key] = value]
    /\ turn_' = FALSE
    /\ UNCHANGED <<sandboxes, controller_, manager_, process_, runtime_, toolsOf, broken>>

(* adispatch_agent_turn: a controller is made unless the key is unchanged, *)
(* and the feature refreshes the tools, not the safety layer, of either.   *)
DispatchTurn ==
    LET fresh == controller_.key # ControllerKey
        builds == fresh \/ Refreshes
    IN  /\ IF builds
           THEN \E ok \in BOOLEAN :
                  /\ BuildTools(ok)
                  /\ controller_' =
                       IF ~ok THEN controller_
                       ELSE Settled(ControllerKey, Launch(settings.backend, Policy(settings)),
                                    IF fresh THEN settings.mode ELSE controller_.posture)
                  /\ turn_' = ok
           ELSE turn_' = TRUE /\ UNCHANGED <<controller_, manager_, broken>>
        /\ UNCHANGED <<settings, sandboxes, process_, runtime_, toolsOf, setEdits>>

(* side_effect_block_reason of the safety layer.                           *)
MayRun == turn_ /\ controller_.posture # "read-only"

RunShell ==
    /\ MayRun
    /\ process_' = [tool |-> "shell_execute", launch |-> controller_.launch, dir |-> Workspace]
    /\ UNCHANGED <<settings, sandboxes, controller_, manager_, runtime_, toolsOf, broken,
                   setEdits, turn_>>

(* The tools for git, tests and Python start their processes themselves,   *)
(* whatever the backend; those of git status and diff in every posture.    *)
RunUnwrapped ==
    /\ turn_
    /\ process_' = [tool |-> "other", launch |-> Launch("off", controller_.launch.policy),
                    dir |-> Workspace]
    /\ UNCHANGED <<settings, sandboxes, controller_, manager_, runtime_, toolsOf, broken,
                   setEdits, turn_>>

(* A tool of a server: the executor asks the manager for its client.  The  *)
(* safety layer lets read-only tools pass in every posture.                *)
CallServer(s) ==
    /\ turn_
    /\ manager_' = Started(manager_, {s})
    /\ UNCHANGED <<settings, sandboxes, controller_, process_, runtime_, toolsOf, broken,
                   setEdits, turn_>>

(* /session new or load: aclose, then a runtime for the session.  The      *)
(* sub-agent tools are registered only if no runtime did so before.        *)
SwitchSession ==
    /\ runtime_ <= MaxSwitches /\ runtime_' = runtime_ + 1
    /\ controller_' = NoController /\ turn_' = FALSE
    /\ manager_' = [manager_ EXCEPT !.servers = [s \in Servers |-> NoLaunch]]
    /\ UNCHANGED <<settings, sandboxes, process_, toolsOf, broken, setEdits>>

ToolRuntimeNext ==
    \/ \E key \in DOMAIN settings : \E value \in Values(key) : SetConfig(key, value)
    \/ DispatchTurn
    \/ RunShell \/ RunUnwrapped
    \/ \E s \in Servers : CallServer(s)
    \/ SwitchSession

ToolRuntimeSpec == ToolRuntimeInit /\ [][ToolRuntimeNext]_toolRuntimeVars
-----------------------------------------------------------------------------
(* What an explicitly chosen backend and a policy promise of a process.    *)
Contained(launch, dir) ==
    launch.backend \notin {"off", "auto"} /\ launch.policy.posture # "danger-full-access" =>
      /\ Reach(launch, dir).writes \subseteq launch.policy.roots \union {dir}
      /\ Reach(launch, dir).network => launch.policy.network

(* What is wrapped is contained, of shell_execute and the servers: a       *)
(* running MCP server was started under the backend and the policy the     *)
(* shell of the same controller has, as long as no build failed on a       *)
(* server; and each server and each shell command is confined to its       *)
(* policy if the backend was chosen by name.  The processes of the other   *)
(* tools are not wrapped.                                                  *)
ToolProcessesContained ==
    /\ \A s \in Servers : manager_.servers[s] # NoLaunch =>
         /\ broken = 0 /\ controller_ # NoController =>
              manager_.servers[s] = controller_.launch
         /\ Contained(manager_.servers[s], ServerDir)
    /\ process_.tool = "shell_execute" => Contained(process_.launch, process_.dir)

(* The servers and the shell follow the same choice of a sandbox, as       *)
(* docs/mcp.md says.  The code does not hold to it: a build that fails on  *)
(* a server leaves the manager with the new policy and the cached          *)
(* controller with the old one.                                            *)
OneSandbox ==
    \A s \in Servers :
      turn_ /\ manager_.servers[s] # NoLaunch => manager_.servers[s] = controller_.launch

(* A running server writes only where the policy says.  It does not: the   *)
(* directory it was configured to start in is writable as well.            *)
WritesOnlyRoots ==
    \A s \in Servers :
      LET l == manager_.servers[s]
      IN  l # NoLaunch /\ l.wrapper # "off" /\ l.policy.posture = "workspace-write" =>
            Reach(l, ServerDir).writes \subseteq l.policy.roots

(* The sub-agent tools belong to the runtime in use.  After a session      *)
(* change they call the old runtime, whose manager is gone.                *)
SubAgentToolsLive == toolsOf = runtime_
==============================================================================
