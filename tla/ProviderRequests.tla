--------------------------- MODULE ProviderRequests ---------------------------
(***************************************************************************)
(* The requests of a remote provider that answer as a whole, and the       *)
(* opening of a synchronous stream: generating, testing the connection and *)
(* listing the models, with bounded retries, over a synchronous client     *)
(* that lives as long as the provider and an asynchronous one that may be  *)
(* closed after every turn.  Sub-agents use the synchronous client from    *)
(* threads of their own while a turn uses the asynchronous one.            *)
(* (providers/base.py, openai.py, anthropic.py, rest.py)                   *)
(***************************************************************************)
EXTENDS Naturals, Sequences, FiniteSets

CONSTANTS
    Kinds,         \* among "openai", "anthropic", "rest"
    Policies,      \* among "reuse", "close_after_turn"
    AsyncUsers,    \* the turn, and commands run from the shell's loop
    SyncUsers,     \* the threads of sub-agents
    RequestRetries,  \* max_retries
    MaxRequests,   \* bound on the requests of one behaviour
    MaxClients     \* bound on asynchronous clients

ASSUME ProviderRequestsAssumption ==
    /\ Kinds \subseteq {"openai", "anthropic", "rest"}
    /\ Policies \subseteq {"reuse", "close_after_turn"}
    /\ RequestRetries \in Nat /\ MaxRequests \in Nat /\ MaxClients \in Nat

(* What may come back.  The server: an answer, one without content, one    *)
(* that is not JSON, a refusal, a status worth another attempt.  The       *)
(* connection: cannot be made or times out, breaks the protocol, fails to  *)
(* be read.  The client: was closed by someone else.                       *)
Answers == {"ok", "empty", "garbled"}
Replies == Answers \union {"refused", "busy", "lost", "broken", "cut"}
Operations == {"generate", "stream", "test", "list"}

VARIABLES
    provider_kind, policy,
    syncOpen,      \* is the synchronous client usable?
    asyncClient,   \* _async_client: its number, 0 for none
    asyncClosed,   \* numbers of the clients that were closed
    request,       \* requester -> its request
    asked          \* requests started

requestVars == <<provider_kind, policy, syncOpen, asyncClient, asyncClosed, request, asked>>

Requesters == AsyncUsers \union SyncUsers
Idle == [op |-> "none", client |-> 0, seen |-> << >>, result |-> "none"]
Running(c) == request[c].op # "none" /\ request[c].result = "none"

(* _max_retry_attempts. *)
AttemptLimit == IF RequestRetries + 1 > 1 THEN RequestRetries + 1 ELSE 1

RequestsInit ==
    /\ provider_kind \in Kinds /\ policy \in Policies
    /\ syncOpen = TRUE
    /\ asyncClient = 0 /\ asyncClosed = {}
    /\ request = [c \in Requesters |-> Idle]
    /\ asked = 0
-----------------------------------------------------------------------------
(* What a caller gets for the last reply. *)

ReportedReply(reply) == reply \in {"refused", "busy", "lost"}

(* OpenAI: only the status errors, time-outs and failed connections are    *)
(* reported; an answer without choices or that is not JSON raises.         *)
OpenAIResult(op, reply) ==
    IF op = "list" THEN (IF reply = "ok" THEN "discovered" ELSE "fallback")
    ELSE IF ReportedReply(reply) THEN (IF op = "test" THEN "failed" ELSE "error")
    ELSE CASE op = "generate" -> IF reply = "ok" THEN "answer" ELSE "raised"
           [] op = "stream" -> IF reply \in Answers THEN "opened" ELSE "raised"
           [] op = "test" -> IF reply \in {"ok", "empty"} THEN "connected" ELSE "raised"

(* Anthropic: an answer without content is an empty answer. *)
AnthropicResult(op, reply) ==
    IF op = "generate" /\ reply = "empty" THEN "answer" ELSE OpenAIResult(op, reply)

(* REST: the test does not read the answer. *)
RestResult(op, reply) ==
    CASE op = "generate" /\ reply = "empty" -> "answer"
      [] op = "test" /\ reply = "garbled" -> "connected"
      [] OTHER -> OpenAIResult(op, reply)

(* The asynchronous methods, which repeat the synchronous ones. *)
OpenAIAsyncResult(op, reply) == OpenAIResult(op, reply)
AnthropicAsyncResult(op, reply) == AnthropicResult(op, reply)
RestAsyncResult(op, reply) == RestResult(op, reply)

ResultOf(op, client, reply) ==
    IF client = 0
    THEN CASE provider_kind = "openai" -> OpenAIResult(op, reply)
           [] provider_kind = "anthropic" -> AnthropicResult(op, reply)
           [] provider_kind = "rest" -> RestResult(op, reply)
    ELSE CASE provider_kind = "openai" -> OpenAIAsyncResult(op, reply)
           [] provider_kind = "anthropic" -> AnthropicAsyncResult(op, reply)
           [] provider_kind = "rest" -> RestAsyncResult(op, reply)
-----------------------------------------------------------------------------
(* A synchronous request uses the client the provider was made with. *)
StartSync(c, op) ==
    /\ c \in SyncUsers /\ ~Running(c) /\ asked < MaxRequests
    /\ request' = [request EXCEPT ![c] = [Idle EXCEPT !.op = op]]
    /\ asked' = asked + 1
    /\ UNCHANGED <<provider_kind, policy, syncOpen, asyncClient, asyncClosed>>

(* _ensure_async_client: the one there is, or a new one. *)
StartAsync(c, op) ==
    /\ c \in AsyncUsers /\ ~Running(c) /\ asked < MaxRequests /\ op # "stream"
    /\ LET fresh == Cardinality(asyncClosed) + 1 IN
       /\ asyncClient = 0 => fresh <= MaxClients
       /\ asyncClient' = IF asyncClient = 0 THEN fresh ELSE asyncClient
    /\ request' = [request EXCEPT ![c] = [Idle EXCEPT !.op = op, !.client = asyncClient']]
    /\ asked' = asked + 1
    /\ UNCHANGED <<provider_kind, policy, syncOpen, asyncClosed>>

ClientClosed(c) ==
    IF request[c].client = 0 THEN ~syncOpen ELSE request[c].client \in asyncClosed

(* Mutant: whatever the connection raises is tried again.                  *)
RetryReadErrorsMutant(reply) == reply \in {"busy", "lost", "broken", "cut"}

(* _should_retry_response, and the exceptions that are retried. *)
Retried(reply) == reply \in {"busy", "lost", "broken"}

(* _maybe_close_async_client_after_turn: it closes the provider's client,  *)
(* whoever else is using it.                                               *)
ClosesAfter(c) ==
    policy = "close_after_turn" /\ request[c].op = "generate" /\ request[c].client # 0

ReleaseClient(release) ==
    IF release /\ asyncClient # 0
    THEN asyncClient' = 0 /\ asyncClosed' = asyncClosed \union {asyncClient}
    ELSE UNCHANGED <<asyncClient, asyncClosed>>

(* One attempt of _request_with_retries or its asynchronous twin. *)
Attempt(c, reply) ==
    /\ Running(c)
    /\ ClientClosed(c) <=> reply = "closed"
    /\ LET seen == Append(request[c].seen, reply)
           again == Retried(reply) /\ Len(seen) < AttemptLimit
           result == IF again THEN "none" ELSE ResultOf(request[c].op, request[c].client, reply)
       IN  /\ request' = [request EXCEPT ![c].seen = seen, ![c].result = result]
           /\ ReleaseClient(~again /\ ClosesAfter(c))
    /\ UNCHANGED <<provider_kind, policy, syncOpen, asked>>

(* close(), when another target is chosen: inside a running loop it leaves *)
(* the asynchronous client alone.                                          *)
CloseProvider ==
    /\ syncOpen
    /\ syncOpen' = FALSE
    /\ UNCHANGED <<provider_kind, policy, asyncClient, asyncClosed, request, asked>>

(* aclose(), when the runtime goes. *)
CloseAsync ==
    /\ asyncClient # 0
    /\ ReleaseClient(TRUE)
    /\ UNCHANGED <<provider_kind, policy, syncOpen, request, asked>>

RequestsNext ==
    \/ \E c \in Requesters, op \in Operations : StartSync(c, op) \/ StartAsync(c, op)
    \/ \E c \in Requesters, reply \in Replies \union {"closed"} : Attempt(c, reply)
    \/ CloseProvider \/ CloseAsync

RequestsSpec == RequestsInit /\ [][RequestsNext]_requestVars
-----------------------------------------------------------------------------
Succeeded == {"answer", "connected", "discovered", "opened"}

(* Whoever else uses the provider or closes it meanwhile: only what the    *)
(* server may not have got to is asked again, and no oftener than the      *)
(* configuration says; a success is an answer the server gave to the last  *)
(* attempt; a refusal is told at once, as one, for every operation; and a  *)
(* listing always has something to show instead of raising.                *)
OutcomeIsTheServers ==
    \A c \in Requesters : LET q == request[c] IN
      q.result # "none" =>
        LET last == q.seen[Len(q.seen)] IN
        /\ Len(q.seen) <= RequestRetries + 1
        /\ \A k \in 1..(Len(q.seen) - 1) : q.seen[k] \in {"busy", "lost", "broken"}
        /\ q.result \in Succeeded => last \in Answers
        /\ last = "refused" => q.result \in {"error", "failed", "fallback"}
        /\ q.op = "list" => q.result # "raised"
=============================================================================
