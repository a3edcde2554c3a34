------------------------------- MODULE McpStdio -------------------------------
(***************************************************************************)
(* One configured MCP server and the tool calls that share its client:     *)
(* the stdio transport (a subprocess that is spawned on first use, a pipe  *)
(* each way, a bounded read per line, a reset after a read that timed out) *)
(* and the HTTP transports (one POST per request), below the manager's     *)
(* cache of clients.  Read-only tools of one batch run in parallel threads *)
(* and use the same client without a lock.  (mcp/client.py)                *)
(*                                                                         *)
(* The server is external: it answers the requests it reads in order, may  *)
(* send notifications, write rubbish, ask for an elicitation, fall silent  *)
(* or die.                                                                 *)
(***************************************************************************)
EXTENDS Naturals, Sequences, SequencesExt

CONSTANTS
    Callers,        \* threads that may be in a call at once
    Transports,     \* among "stdio", "http" and "sse"
    HasOperator,    \* was an elicitation handler set?
    MaxServers,     \* bound: server processes spawned
    MaxCalls,       \* bound: requests sent
    MaxNoise        \* bound: notifications and lines of rubbish

None == 0

VARIABLES
    transport,  \* the server's configured transport
    listed,     \* has build_dynamic_tool_specs listed its tools?
    server,     \* process -> [alive, requests, out]: its pipes
    process,    \* _process: the client's server, None when there is none
    requestId,  \* _request_id
    call,       \* caller -> where its call is
    noise       \* notifications and rubbish so far

mcpVars == <<transport, listed, server, process, requestId, call, noise>>

(* The request an answer is to: who wrote it, and its number.               *)
NoAnswerTo == <<>>

(* todo holds the messages the call has still to send, the next one first: *)
(* a start() inside a request or a notification sends its own before it.   *)
NoCall == [pc |-> "idle", todo |-> <<>>, id |-> 0, from |-> None,
           asked |-> 0, result |-> "none", answers |-> NoAnswerTo]

McpAt(c, pc) == call[c].pc = pc
Go(c, pc) == call' = [call EXCEPT ![c].pc = pc]
Return(c, result, request) ==
    call' = [call EXCEPT ![c].pc = "returned", ![c].todo = <<>>,
                         ![c].result = result, ![c].answers = request]

McpInit ==
    /\ transport \in Transports
    /\ listed = FALSE
    /\ server = <<>>
    /\ process = None
    /\ requestId = 0
    /\ call = [c \in Callers |-> NoCall]
    /\ noise = 0
-----------------------------------------------------------------------------
(* The client, stdio transport. *)

Free(c) == McpAt(c, "idle") \/ McpAt(c, "returned")
Call(c, method) ==
    call' = [call EXCEPT ![c] = [NoCall EXCEPT !.pc = "start", !.todo = <<method>>]]

(* list_tools, when the tools of a turn are set up: no call is running. *)
ListTools(c) ==
    /\ transport = "stdio" /\ ~listed /\ requestId < MaxCalls
    /\ \A other \in Callers : Free(other)
    /\ Call(c, "tools/list")
    /\ UNCHANGED <<transport, listed, server, process, requestId, noise>>

(* call_tool, of a thread that is free. *)
CallTool(c) ==
    /\ transport = "stdio" /\ listed
    /\ Free(c)
    /\ requestId < MaxCalls
    /\ Call(c, "tools/call")
    /\ UNCHANGED <<transport, listed, server, process, requestId, noise>>

(* start: is there a process? *)
Start(c) ==
    /\ McpAt(c, "start")
    /\ Go(c, IF process = None THEN "spawn" ELSE "write")
    /\ UNCHANGED <<transport, listed, server, process, requestId, noise>>

(* start found none: Popen, then initialize and the notification first. *)
Spawn(c) ==
    /\ McpAt(c, "spawn")
    /\ Len(server) < MaxServers
    /\ server' = Append(server, [alive |-> TRUE, requests |-> <<>>, out |-> <<>>])
    /\ process' = Len(server')
    /\ call' = [call EXCEPT ![c].pc = "start",
                            ![c].todo = <<"initialize", "initialized">> \o @]
    /\ UNCHANGED <<transport, listed, requestId, noise>>

(* request and notify: number the message and write it, in one step: no     *)
(* thread is switched between the increment and the reading of the number, *)
(* and a later write only reorders requests.  A pipe whose server died      *)
(* raises an OSError, which call_tool does not catch.                       *)
WriteMessage(c) ==
    LET method == Head(call[c].todo)
        notifies == method = "initialized"
    IN  /\ McpAt(c, "write")
        /\ requestId' = IF notifies THEN requestId ELSE requestId + 1
        /\ IF process = None
           THEN Return(c, "failed", NoAnswerTo) /\ UNCHANGED server
           ELSE IF ~server[process].alive
           THEN Return(c, "raised", NoAnswerTo) /\ UNCHANGED server
           ELSE IF notifies
           THEN /\ call' = [call EXCEPT ![c].pc = "start", ![c].todo = Tail(@)]
                /\ UNCHANGED server
           ELSE /\ server' = [server EXCEPT ![process].requests =
                                 Append(@, [id |-> requestId', method |-> method, by |-> c])]
                /\ call' = [call EXCEPT ![c].pc = "read", ![c].id = requestId']
        /\ UNCHANGED <<transport, listed, process, noise>>

(* _read_line_bounded: the reader thread blocks in readline of the process  *)
(* that is current now.                                                     *)
ReadLine(c) ==
    /\ McpAt(c, "read")
    /\ IF process = None
       THEN Return(c, "failed", NoAnswerTo)
       ELSE call' = [call EXCEPT ![c].pc = "reading", ![c].from = process]
    /\ UNCHANGED <<transport, listed, server, process, requestId, noise>>

Line(c) == Head(server[call[c].from].out)
HasLine(c) == server[call[c].from].out # <<>>
AtEof(c) == ~server[call[c].from].alive /\ ~HasLine(c)
TakeLine(c) == server' = [server EXCEPT ![call[c].from].out = Tail(@)]

(* Mutant: the next message with a result is taken for the response. *)
AnyResultMutant(c) == Line(c).id # 0

IsResponse(c) == Line(c).id = call[c].id

(* A line that is no JSON raises a ValueError, which call_tool does not     *)
(* catch; a message with another id is dropped, a notification among them.  *)
ReadOther(c) ==
    /\ McpAt(c, "reading") /\ HasLine(c) /\ ~IsResponse(c)
    /\ TakeLine(c)
    /\ IF Line(c).kind = "rubbish" THEN Return(c, "raised", NoAnswerTo) ELSE Go(c, "read")
    /\ UNCHANGED <<transport, listed, process, requestId, noise>>

Answered(c) == <<Line(c).by, Line(c).id>>
Asks(c) == Line(c).kind = "elicitation" /\ call[c].asked = 0

(* The response: the next message, the result, or _maybe_handle_elicitation. *)
ReadResponse(c) ==
    /\ McpAt(c, "reading") /\ HasLine(c) /\ IsResponse(c)
    /\ TakeLine(c)
    /\ listed' = (listed \/ (call[c].todo = <<"tools/list">> /\ Line(c).kind = "result"))
    /\ UNCHANGED <<transport, process, requestId, noise>>
    /\ IF Line(c).kind = "error"
       THEN Return(c, "failed", Answered(c))
       ELSE IF Len(call[c].todo) > 1
       THEN call' = [call EXCEPT ![c].pc = "start", ![c].todo = Tail(@)]
       ELSE IF ~Asks(c)
       THEN Return(c, "ok", Answered(c))
       ELSE IF HasOperator
       THEN call' = [call EXCEPT ![c].pc = "asking", ![c].asked = @ + 1]
       ELSE Return(c, "failed", Answered(c))

(* The operator's answer: call again with it, or decline. *)
OperatorAnswers(c) ==
    /\ McpAt(c, "asking")
    /\ \/ Go(c, "start")
       \/ Return(c, "failed", NoAnswerTo)
    /\ UNCHANGED <<transport, listed, server, process, requestId, noise>>

(* The stream ended: read what the current process left on stderr, if there *)
(* is one still.                                                            *)
ReadEof(c) ==
    /\ McpAt(c, "reading") /\ AtEof(c)
    /\ IF process = None
       THEN Return(c, "failed", NoAnswerTo)
       ELSE call' = [call EXCEPT ![c].pc = "stderr", ![c].from = process]
    /\ UNCHANGED <<transport, listed, server, process, requestId, noise>>

ReadStderr(c) ==
    /\ McpAt(c, "stderr") /\ ~server[call[c].from].alive
    /\ Return(c, "failed", NoAnswerTo)
    /\ UNCHANGED <<transport, listed, server, process, requestId, noise>>

Kill(p) == IF p = None THEN UNCHANGED server
           ELSE server' = [server EXCEPT ![p].alive = FALSE, ![p].requests = <<>>]

(* The read timed out: _reset_process_after_failure stops the process that  *)
(* is current by then, and the executor waits for its reader.               *)
TimeOut(c) ==
    /\ McpAt(c, "reading") /\ ~HasLine(c) /\ ~AtEof(c)
    /\ Kill(process)
    /\ process' = None
    /\ Go(c, "joining")
    /\ UNCHANGED <<transport, listed, requestId, noise>>

Joined(c) ==
    /\ McpAt(c, "joining")
    /\ HasLine(c) \/ AtEof(c)
    /\ IF HasLine(c) THEN TakeLine(c) ELSE UNCHANGED server
    /\ Return(c, "timed out", NoAnswerTo)
    /\ UNCHANGED <<transport, listed, process, requestId, noise>>

(* McpManager.close, on a changed execution policy and at the end: no call  *)
(* is in progress then, and the tools are listed again before the next.     *)
CloseClient ==
    /\ process # None
    /\ \A c \in Callers : Free(c)
    /\ Kill(process)
    /\ process' = None
    /\ listed' = FALSE
    /\ UNCHANGED <<transport, requestId, call, noise>>
-----------------------------------------------------------------------------
(* The client, HTTP transports: one exchange per request, no process.  A    *)
(* stream of events is searched for the id, a single object is taken as it  *)
(* is; the SSE client refuses anything but a stream.                        *)

HttpRequest(c) ==
    /\ transport # "stdio"
    /\ Free(c) \/ McpAt(c, "again")
    /\ requestId < MaxCalls
    /\ requestId' = requestId + 1
    /\ \/ \E result \in {"failed", "timed out"} : Return(c, result, NoAnswerTo)
       \/ \E shape \in {"object", "events", "events of others"}, asks \in BOOLEAN :
             LET refused == \/ shape = "events of others"
                            \/ (shape = "object" /\ transport = "sse")
                 answered == [NoCall EXCEPT !.id = requestId', !.answers = <<c, requestId'>>]
             IN  IF refused \/ (asks /\ ~McpAt(c, "again") /\ ~HasOperator)
                 THEN Return(c, "failed", NoAnswerTo)
                 ELSE call' = [call EXCEPT ![c] =
                        IF asks /\ ~McpAt(c, "again")
                        THEN [answered EXCEPT !.pc = "asking http", !.asked = 1]
                        ELSE [answered EXCEPT !.pc = "returned", !.result = "ok"]]
    /\ UNCHANGED <<transport, listed, server, process, noise>>

HttpOperatorAnswers(c) ==
    /\ McpAt(c, "asking http")
    /\ Go(c, "again") \/ Return(c, "failed", NoAnswerTo)
    /\ UNCHANGED <<transport, listed, server, process, requestId, noise>>
-----------------------------------------------------------------------------
(* The server. *)

Say(p, line) == [server EXCEPT ![p].out = Append(@, line)]

ServerAnswers(p) ==
    /\ server[p].alive /\ server[p].requests # <<>>
    /\ LET request == Head(server[p].requests)
           kinds == {"result", "error"} \cup
                    (IF request.method = "tools/call" THEN {"elicitation"} ELSE {})
       IN  \E kind \in kinds :
              server' = [Say(p, [id |-> request.id, kind |-> kind, by |-> request.by])
                            EXCEPT ![p].requests = Tail(@)]
    /\ UNCHANGED <<transport, listed, process, requestId, call, noise>>

ServerNoise(p) ==
    /\ server[p].alive /\ noise < MaxNoise
    /\ noise' = noise + 1
    /\ \E kind \in {"notification", "rubbish"} :
          server' = Say(p, [id |-> 0, kind |-> kind, by |-> "server"])
    /\ UNCHANGED <<transport, listed, process, requestId, call>>

ServerDies(p) ==
    /\ server[p].alive
    /\ Kill(p)
    /\ UNCHANGED <<transport, listed, process, requestId, call, noise>>

McpNext ==
    \/ \E c \in Callers :
          \/ ListTools(c) \/ CallTool(c) \/ Start(c) \/ Spawn(c) \/ WriteMessage(c)
          \/ ReadLine(c) \/ ReadOther(c) \/ ReadResponse(c) \/ OperatorAnswers(c)
          \/ ReadEof(c) \/ ReadStderr(c) \/ TimeOut(c) \/ Joined(c)
          \/ HttpRequest(c) \/ HttpOperatorAnswers(c)
    \/ CloseClient
    \/ \E p \in DOMAIN server : ServerAnswers(p) \/ ServerNoise(p) \/ ServerDies(p)

McpSpec == McpInit /\ [][McpNext]_mcpVars
-----------------------------------------------------------------------------
(* Properties. *)

(* A call returns the server's answer to the request it wrote last and to   *)
(* no other: not to one of a parallel call on the same pipe, not a late     *)
(* answer to one that timed out, not one of a server that was replaced      *)
(* meanwhile.  (The number alone would say less: it must be nobody else's.) *)
AnswerIsForItsCall ==
    \A c \in Callers :
        call[c].result = "ok" => call[c].answers = <<c, call[c].id>>

(* docs/mcp.md: if a read times out, the server process is terminated.      *)
TimedOutServerStops ==
    \A c \in Callers : McpAt(c, "joining") => ~server[call[c].from].alive
=============================================================================
