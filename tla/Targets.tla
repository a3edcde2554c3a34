------------------------------- MODULE Targets -------------------------------
(***************************************************************************)
(* What a turn talks to: the target of the session, the default target in  *)
(* the configuration, the installed models and configured providers they   *)
(* name, and the loaded backend and the connected client the execution     *)
(* runtime keeps from turn to turn.  (runtime/core.py, session/manager.py, *)
(* providers/registry.py, commands/models.py, set_cmd.py, providers.py)    *)
(*                                                                         *)
(* A target is a record [provider, model]; "" is none, as in the code.     *)
(***************************************************************************)
EXTENDS Naturals, FiniteSets

CONSTANTS
    LocalModels,   \* name@version references of local models
    TooLarge,      \* those the hardware cannot run
    Loadable,      \* those whose backend loads
    Providers, RemoteModels, Endpoints,
    MaxEdits       \* bound on the commands given

ASSUME TargetsAssumption ==
    /\ TooLarge \subseteq LocalModels /\ Loadable \subseteq LocalModels
    /\ LocalModels \intersect RemoteModels = {} /\ MaxEdits \in Nat
    /\ "" \notin LocalModels \union RemoteModels \union Providers \union Endpoints

VARIABLES
    installed,     \* local models -> generation of the files, 0 when not installed
    endpoint,      \* [providers] in config.toml: provider -> base URL or ""
    keys,          \* providers with a stored API key
    default,       \* provider.active_provider and model.active_model
    target,        \* provider and model of the current session
    saved,         \* the target in a saved session
    loaded,        \* _active_backend and _active_backend_model
    client,        \* _active_provider and its binding
    answer,        \* what answered the last turn
    edits

targetVars == <<installed, endpoint, keys, default, target, saved, loaded,
                client, answer, edits>>

Target(p, m) == [provider |-> p, model |-> m]
NoTarget == Target("", "")
NoBackend == [model |-> "", files |-> 0]
NoClient == [provider |-> "", url |-> "", model |-> ""]
NoAnswer == [by |-> "none"]
Configured == {p \in Providers : endpoint[p] # ""}
Connectable == Configured \intersect keys
Known(t) == IF t.provider # "" THEN t.provider \in Configured ELSE installed[t.model] > 0

TargetsInit ==
    /\ installed = [m \in LocalModels |-> 0]
    /\ endpoint = [p \in Providers |-> ""]
    /\ keys = {}
    /\ default = NoTarget /\ target = NoTarget /\ saved = NoTarget
    /\ loaded = NoBackend
    /\ client = NoClient
    /\ answer = NoAnswer
    /\ edits = 0

Edit == edits < MaxEdits /\ edits' = edits + 1 /\ answer' = NoAnswer
-----------------------------------------------------------------------------
(* The registries. *)

InstallModel(m) ==
    /\ Edit /\ installed[m] = 0
    /\ installed' = [installed EXCEPT ![m] = edits']
    /\ UNCHANGED <<endpoint, keys, default, target, saved, loaded, client>>

(* The session and the default keep the reference of a removed model. *)
UninstallModel(m) ==
    /\ Edit /\ installed[m] > 0
    /\ installed' = [installed EXCEPT ![m] = 0]
    /\ UNCHANGED <<endpoint, keys, default, target, saved, loaded, client>>

(* ProviderRegistry.add: the configuration first, then the key, which an   *)
(* interruption leaves out.                                                *)
AddProvider(p, url) ==
    /\ Edit /\ p \notin Configured
    /\ endpoint' = [endpoint EXCEPT ![p] = url]
    /\ keys' \in {keys, keys \union {p}}
    /\ UNCHANGED <<installed, default, target, saved, loaded, client>>

RemoveProvider(p) ==
    /\ Edit /\ p \in Configured
    /\ endpoint' = [endpoint EXCEPT ![p] = ""]
    /\ keys' \in {keys, keys \ {p}}
    /\ UNCHANGED <<installed, default, target, saved, loaded, client>>
-----------------------------------------------------------------------------
(* Choosing a target for the session, and for new sessions. *)

(* _activate_model_entry refuses what the hardware cannot run; /set        *)
(* default stores the choice even then.                                    *)
ChooseLocal(m, persist) ==
    /\ Edit /\ installed[m] > 0
    /\ target' = IF m \in TooLarge THEN target ELSE Target("", m)
    /\ default' = IF persist THEN Target("", m) ELSE default
    /\ UNCHANGED <<installed, endpoint, keys, saved, loaded, client>>

(* /set and /set default, for a provider whose models could be listed. *)
ChooseProvider(p, m, persist) ==
    /\ Edit /\ p \in Connectable
    /\ target' = Target(p, m)
    /\ default' = IF persist THEN Target(p, m) ELSE default
    /\ UNCHANGED <<installed, endpoint, keys, saved, loaded, client>>

(* /providers use takes the first model of the list, if there is one. *)
UseProvider(p) ==
    /\ Edit /\ p \in Configured
    /\ \E m \in RemoteModels \union {""} :
         /\ p \notin keys => m = ""
         /\ target' = Target(p, m)
    /\ UNCHANGED <<installed, endpoint, keys, default, saved, loaded, client>>

RemoteTargets == {Target(p, m) : p \in Connectable, m \in RemoteModels}

(* _fallback_target: the first installed model (any here), or else a model *)
(* of a provider that answers, or nothing.                                 *)
FallbackTargets ==
    LET local == {m \in LocalModels : installed[m] > 0}
    IN  IF local # {} THEN {Target("", m) : m \in local}
        ELSE {NoTarget} \union RemoteTargets

(* _resolve_default_target. *)
ResolvedDefaults(t) ==
    IF t = NoTarget \/ (Known(t) /\ (t.provider # "" => t.model # "")) THEN {t}
    ELSE FallbackTargets

CloseRuntime ==
    /\ loaded' = NoBackend
    /\ client' = NoClient

(* new_session repairs the default in the configuration; session_changed   *)
(* closes the runtime and makes a new one.                                 *)
StartSession ==
    /\ Edit
    /\ \E t \in ResolvedDefaults(default) : target' = t /\ default' = t
    /\ CloseRuntime
    /\ UNCHANGED <<installed, endpoint, keys, saved>>

SaveTarget ==
    /\ Edit
    /\ saved' = target
    /\ UNCHANGED <<installed, endpoint, keys, default, target, loaded, client>>

(* load_session takes the target as it was saved. *)
LoadTarget ==
    /\ Edit
    /\ target' = saved
    /\ CloseRuntime
    /\ UNCHANGED <<installed, endpoint, keys, default, saved>>
-----------------------------------------------------------------------------
(* resolve_active_model, at the start of every turn and sub-agent task. *)

(* Mutant: the client is kept as long as the provider's name is the same.  *)
ProviderNameOnlyMutant(p) ==
    [provider |-> p, url |-> IF client.provider = p THEN client.url ELSE endpoint[p],
     model |-> target.model]

(* _provider_cache_binding: the entry of the provider and the model.       *)
Binding(p) == [provider |-> p, url |-> endpoint[p], model |-> target.model]

(* _get_active_backend: kept while the reference is the same, otherwise    *)
(* unloaded and loaded from the files of the entry.                        *)
TurnOnBackend ==
    LET m == target.model
        kept == loaded.model = m
        loads == installed[m] > 0 /\ m \in Loadable
    IN  /\ target.provider = "" /\ m # ""
        /\ loaded' = IF kept THEN loaded
                     ELSE IF loads THEN [model |-> m, files |-> installed[m]]
                     ELSE NoBackend
        /\ answer' = IF kept \/ loads
                     THEN [by |-> "local", model |-> loaded'.model, files |-> loaded'.files]
                     ELSE NoAnswer
        /\ UNCHANGED client

(* _get_active_provider: kept while the binding is the same, otherwise     *)
(* closed and connected anew.                                              *)
TurnOnProvider ==
    LET p == target.provider
        kept == client.provider = p /\ p \in Configured /\ client = Binding(p)
        connects == p \in Connectable
    IN  /\ p # ""
        /\ IF target.model = "" THEN answer' = NoAnswer /\ UNCHANGED client
           ELSE /\ client' = IF kept THEN client ELSE IF connects THEN Binding(p) ELSE NoClient
                /\ answer' = IF kept \/ connects
                             THEN [by |-> "remote", provider |-> p, url |-> client'.url,
                                   model |-> client'.model]
                             ELSE NoAnswer
        /\ UNCHANGED loaded

Turn ==
    /\ TurnOnBackend \/ TurnOnProvider
    /\ UNCHANGED <<installed, endpoint, keys, default, target, saved, edits>>

TargetsNext ==
    \/ \E m \in LocalModels : InstallModel(m) \/ UninstallModel(m)
    \/ \E p \in Providers, url \in Endpoints : AddProvider(p, url)
    \/ \E p \in Providers : RemoveProvider(p) \/ UseProvider(p)
    \/ \E persist \in BOOLEAN :
         \/ \E m \in LocalModels : ChooseLocal(m, persist)
         \/ \E p \in Providers, m \in RemoteModels : ChooseProvider(p, m, persist)
    \/ StartSession \/ SaveTarget \/ LoadTarget
    \/ Turn

TargetsSpec == TargetsInit /\ [][TargetsNext]_targetVars
-----------------------------------------------------------------------------
(* A turn is answered by what the session names, at the address that is    *)
(* configured now: no change of the target, and no removal and new         *)
(* configuration of the provider, is answered by the kept instance.        *)
AnswerComesFromTarget ==
    /\ answer.by = "local" => target = Target("", answer.model)
    /\ answer.by = "remote" =>
         /\ target = Target(answer.provider, answer.model)
         /\ endpoint[answer.provider] = answer.url

(* A local answer comes from the files that are installed under its name.  *)
AnswerFromInstalledFiles ==
    answer.by = "local" => answer.files = installed[answer.model]
=============================================================================
