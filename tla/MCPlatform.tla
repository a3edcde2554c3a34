------------------------------ MODULE MCPlatform ------------------------------
(***************************************************************************)
(* The components around the agent, checked side by side in one run: each  *)
(* behaviour picks one of them in its initial state and is a behaviour of  *)
(* that component's specification; the variables of the others stay as     *)
(* they are.  No step mixes two components, so the run checks the fifteen  *)
(* specifications, not their composition.                                  *)
(***************************************************************************)
EXTENDS SessionStore, Rollback, PatchApply, ContextWindow, McpStdio, CommandRunner, ToolRuntime,
        ModelStore, Targets, ProviderRequests, WireFormat, LocalBridge, RemoteStream,
        ChannelMarkup, TerminalOutput

VARIABLE part   \* the component this behaviour is about

(* The user asks the same thing twice; the model answers differently. *)
SamePrompts == <<"ask", "ask">>
TwoAnswers == <<"yes", "no">>
(* An agent's turn or a chat, and then a chat. *)
AgentThenChat == <<{"chat", "agent"}, {"chat"}>>

(* Every source has a model name of its own. *)
OwnNames == [s \in Sources |-> s]
OneFile == [s \in Urls |-> "w"]

(* What a model may write between and into its channel tokens. *)
Token(w) == <<"<", "|", w, "|", ">">>
ChannelBlocks ==
    {Token("channel") \o <<"analysis">>, Token("channel") \o <<"final">>,
     Token("message"), Token("end"), <<" ", "<", "|">>}

(* Answers with a code block, with ticks that open none, and with a block  *)
(* that is left open.                                                      *)
AnswerSymbols == {"t", "n", "x"}
AnswerTexts ==
    {<<"x", "t", "t", "t", "x", "n", "x", "n", "t", "t", "t", "n", "x", "t">>,
     <<"t", "x", "t", "t", "x", "t", "t", "t">>,
     <<"t", "t", "t", "n", "t", "t", "x", "n">>}

(* A file with the same first line twice, and one with a blank line and    *)
(* the same word under two indentations.                                   *)
FileLine(indent, word) == [indent |-> indent, word |-> word]
LoneText == <<FileLine(0, "def"), FileLine(1, "x"), FileLine(1, "y"), FileLine(0, "def")>>
FoundTexts == {LoneText, <<FileLine(0, "def"), FileLine(1, "x"), Blank, FileLine(0, "x")>>}
NewLines == {<< >>, <<FileLine(0, "def"), FileLine(1, "z")>>}
UsersLine == FileLine(1, "y")

Parts == {"sessions", "rollback", "patch", "context", "mcp", "command", "tools", "models",
          "targets", "requests", "wire", "bridge", "remote", "markup", "terminal"}

SessionVars == <<storeVars, rollbackVars, patchVars, contextVars>>
ToolVars == <<mcpVars, runnerVars, toolRuntimeVars>>
ModelVars == <<modelStoreVars, targetVars, requestVars, wireVars>>
StreamVars == <<bridgeVars, remoteVars, markupVars, terminalVars>>

PlatformInit ==
    /\ part \in Parts
    /\ StoreInit /\ (part # "sessions" => backend = "json")
    /\ RollbackInit
    /\ PatchInit /\ (part # "patch" => target_text = LoneText)
    /\ ContextInit /\ (part # "context" => agents_md = 0)
    /\ McpInit /\ (part # "mcp" => transport = "stdio")
    /\ RunnerInit
    /\ ToolRuntimeInit /\ (part # "tools" => sandboxes = {})
    /\ ModelStoreInit
    /\ TargetsInit
    /\ RequestsInit /\ (part # "requests" => provider_kind = "openai")
    /\ WireInit
    /\ BridgeInit
    /\ RemoteInit /\ (part # "remote" => format = "openai")
    /\ IF part = "markup" THEN MarkupInit
       ELSE answer_text = << >> /\ fed = 0 /\ split = FALSE /\ flushed = FALSE
            /\ norm = FreshNormalizer
    /\ TerminalInit

SessionNext ==
    \/ part = "sessions" /\ StoreNext /\ UNCHANGED <<rollbackVars, patchVars, contextVars>>
    \/ part = "rollback" /\ RollbackNext /\ UNCHANGED <<storeVars, patchVars, contextVars>>
    \/ part = "patch" /\ PatchNext /\ UNCHANGED <<storeVars, rollbackVars, contextVars>>
    \/ part = "context" /\ ContextNext /\ UNCHANGED <<storeVars, rollbackVars, patchVars>>

ToolNext ==
    \/ part = "mcp" /\ McpNext /\ UNCHANGED <<runnerVars, toolRuntimeVars>>
    \/ part = "command" /\ RunnerNext /\ UNCHANGED <<mcpVars, toolRuntimeVars>>
    \/ part = "tools" /\ ToolRuntimeNext /\ UNCHANGED <<mcpVars, runnerVars>>

ModelNext ==
    \/ part = "models" /\ ModelStoreNext /\ UNCHANGED <<targetVars, requestVars, wireVars>>
    \/ part = "targets" /\ TargetsNext /\ UNCHANGED <<modelStoreVars, requestVars, wireVars>>
    \/ part = "requests" /\ RequestsNext /\ UNCHANGED <<modelStoreVars, targetVars, wireVars>>
    \/ part = "wire" /\ WireNext /\ UNCHANGED <<modelStoreVars, targetVars, requestVars>>

StreamNext ==
    \/ part = "bridge" /\ BridgeNext /\ UNCHANGED <<remoteVars, markupVars, terminalVars>>
    \/ part = "remote" /\ RemoteNext /\ UNCHANGED <<bridgeVars, markupVars, terminalVars>>
    \/ part = "markup" /\ MarkupNext /\ UNCHANGED <<bridgeVars, remoteVars, terminalVars>>
    \/ part = "terminal" /\ TerminalNext /\ UNCHANGED <<bridgeVars, remoteVars, markupVars>>

PlatformNext ==
    /\ UNCHANGED part
    /\ \/ SessionNext /\ UNCHANGED <<ToolVars, ModelVars, StreamVars>>
       \/ ToolNext /\ UNCHANGED <<SessionVars, ModelVars, StreamVars>>
       \/ ModelNext /\ UNCHANGED <<SessionVars, ToolVars, StreamVars>>
       \/ StreamNext /\ UNCHANGED <<SessionVars, ToolVars, ModelVars>>

platformVars == <<part, SessionVars, ToolVars, ModelVars, StreamVars>>

PlatformSpec == PlatformInit /\ [][PlatformNext]_platformVars
=============================================================================
