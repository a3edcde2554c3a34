----------------------------- MODULE LocalBridge -----------------------------
(***************************************************************************)
(* A local model answers on the event loop: a worker thread iterates the   *)
(* blocking backend and hands every chunk to a bounded asyncio queue       *)
(* through the loop, the generator on the loop takes them out.             *)
(* (models/abstraction.py; the backends' cancel in models/backends)        *)
(*                                                                         *)
(* The loop is its queue of ready callbacks, run first come first served   *)
(* while no callback blocks it.                                            *)
(***************************************************************************)
EXTENDS Naturals, Sequences

CONSTANTS
    Streams,      \* number of answers asked for, one after the other
    Chunks,       \* chunks a whole answer has
    QueueLimit,   \* capacity of the queue, 512 in the code
    HonoursCancel \* does the backend's cancel stop its generator?

ASSUME LocalBridgeAssumption ==
    Streams \in Nat \ {0} /\ Chunks \in Nat /\ QueueLimit \in Nat \ {0}

VARIABLES
    current,    \* the stream being consumed, 0 before the first
    consumer,   \* where its generator is
    worker,     \* stream -> its thread
    queue,      \* stream -> items
    ready,      \* callbacks the loop has to run
    putters,    \* streams whose put waits for room
    received,   \* stream -> chunks given to the caller
    outcome,    \* stream -> how it ended for the caller
    cancelled,  \* streams whose backend was asked to stop
    stdout      \* 0 for the real one, or the stream that captures it

bridgeVars == <<current, consumer, worker, queue, ready, putters, received,
                outcome, cancelled, stdout>>

NoWorker == [pc |-> "none", made |-> 0, item |-> "none", failed |-> FALSE, old |-> 0]
StreamIds == 1..Streams

BridgeInit ==
    /\ current = 0
    /\ consumer = "idle"
    /\ worker = [s \in StreamIds |-> NoWorker]
    /\ queue = [s \in StreamIds |-> << >>]
    /\ ready = << >>
    /\ putters = {}
    /\ received = [s \in StreamIds |-> 0]
    /\ outcome = [s \in StreamIds |-> "none"]
    /\ cancelled = {}
    /\ stdout = 0
-----------------------------------------------------------------------------
(* The worker thread. *)

StartStream ==
    /\ consumer = "idle" /\ current < Streams
    /\ current' = current + 1
    /\ worker' = [worker EXCEPT ![current'] = [NoWorker EXCEPT !.pc = "start"]]
    /\ consumer' = "get"
    /\ UNCHANGED <<queue, ready, putters, received, outcome, cancelled, stdout>>

(* redirect_stdout replaces sys.stdout for the whole process. *)
Redirect(s) ==
    /\ worker[s].pc = "start"
    /\ worker' = [worker EXCEPT ![s].pc = "working", ![s].old = stdout]
    /\ stdout' = s
    /\ UNCHANGED <<current, consumer, queue, ready, putters, received, outcome, cancelled>>

(* run_coroutine_threadsafe(queue.put(...)) and fut.result(). *)
Hand(s, w) ==
    /\ worker' = [worker EXCEPT ![s] = w]
    /\ ready' = Append(ready, <<"put", s>>)
    /\ UNCHANGED <<current, consumer, queue, putters, received, outcome, cancelled>>

Stops(s) == HonoursCancel /\ s \in cancelled

ProduceChunk(s) ==
    /\ worker[s].pc = "working" /\ worker[s].made < Chunks /\ ~Stops(s)
    /\ Hand(s, [worker[s] EXCEPT !.pc = "putting", !.made = @ + 1, !.item = "chunk"])
    /\ UNCHANGED stdout

(* The generator is over, stopped or broken: stdout is put back and the    *)
(* end is handed over.                                                     *)
EndGeneration(s) ==
    /\ worker[s].pc = "working"
    /\ \E failed \in BOOLEAN :
         /\ failed \/ Stops(s) \/ worker[s].made = Chunks
         /\ Hand(s, [worker[s] EXCEPT !.pc = "ending", !.item = "end", !.failed = failed])
    /\ stdout' = worker[s].old
-----------------------------------------------------------------------------
(* The event loop runs the oldest callback. *)

LoopRuns == consumer # "join" /\ ready # << >>

Wake(s) == IF consumer = "wait" /\ s = current THEN << <<"wake", s>> >> ELSE << >>

(* Mutant: a put that finds the queue full gives the item up.              *)
DropWhenFullMutant(s) == IF Len(queue[s]) < QueueLimit THEN "accept" ELSE "drop"

PutResult(s) == IF Len(queue[s]) < QueueLimit THEN "accept" ELSE "suspend"

RunPut ==
    LET s == Head(ready)[2]
        result == PutResult(s)
    IN  /\ LoopRuns /\ Head(ready)[1] = "put"
        /\ queue' = IF result = "accept" THEN [queue EXCEPT ![s] = Append(@, worker[s].item)] ELSE queue
        /\ putters' = IF result = "suspend" THEN putters \union {s} ELSE putters
        /\ ready' = Tail(ready) \o (IF result = "accept" THEN Wake(s) ELSE << >>)
                                \o (IF result = "suspend" THEN << >> ELSE << <<"resolve", s>> >>)
        /\ UNCHANGED <<current, consumer, worker, received, outcome, cancelled, stdout>>

(* The concurrent future gets its result: the worker goes on. *)
RunResolve ==
    LET s == Head(ready)[2] IN
    /\ LoopRuns /\ Head(ready)[1] = "resolve"
    /\ worker' = [worker EXCEPT ![s].pc = IF @ = "putting" THEN "working" ELSE "gone"]
    /\ ready' = Tail(ready)
    /\ UNCHANGED <<current, consumer, queue, putters, received, outcome, cancelled, stdout>>

RunWake ==
    /\ LoopRuns /\ Head(ready)[1] = "wake"
    /\ consumer' = IF consumer = "wait" /\ Head(ready)[2] = current THEN "get" ELSE consumer
    /\ ready' = Tail(ready)
    /\ UNCHANGED <<current, worker, queue, putters, received, outcome, cancelled, stdout>>
-----------------------------------------------------------------------------
(* The generator on the loop, and the finally clause it always reaches:    *)
(* the backend's cancel and a join of the thread that blocks the loop.     *)

Leave(how) ==
    /\ consumer' = "join"
    /\ outcome' = [outcome EXCEPT ![current] = how]
    /\ cancelled' = cancelled \union {current}

(* What an item means to the caller; the error holder is read at the end.  *)
Meaning(item) ==
    IF item # "end" THEN "chunk" ELSE IF worker[current].failed THEN "raised" ELSE "complete"

QueueGet ==
    /\ consumer = "get"
    /\ IF queue[current] = << >>
       THEN /\ consumer' = "wait"
            /\ UNCHANGED <<queue, ready, putters, received, outcome, cancelled>>
       ELSE /\ queue' = [queue EXCEPT ![current] = Tail(@)]
            /\ putters' = putters \ {current}
            /\ ready' = IF current \in putters THEN Append(ready, <<"put", current>>) ELSE ready
            /\ LET meaning == Meaning(Head(queue[current])) IN
               IF meaning = "chunk"
               THEN /\ received' = [received EXCEPT ![current] = @ + 1]
                    /\ consumer' = "yielded"
                    /\ UNCHANGED <<outcome, cancelled>>
               ELSE Leave(meaning) /\ UNCHANGED received
    /\ UNCHANGED <<current, worker, stdout>>

(* The caller asks for more, or closes the generator. *)
CallerGoesOn ==
    /\ consumer = "yielded"
    /\ consumer' = "get"
    /\ UNCHANGED <<current, worker, queue, ready, putters, received, outcome, cancelled, stdout>>

CallerCloses ==
    /\ consumer \in {"yielded", "wait"}
    /\ Leave("closed")
    /\ UNCHANGED <<current, worker, queue, ready, putters, received, stdout>>

JoinReturns ==
    /\ consumer = "join" /\ worker[current].pc = "gone"
    /\ consumer' = "idle"
    /\ UNCHANGED <<current, worker, queue, ready, putters, received, outcome, cancelled, stdout>>

(* thread.join(timeout=30.0) gives up. *)
JoinTimesOut ==
    /\ consumer = "join" /\ worker[current].pc # "gone"
    /\ consumer' = "idle"
    /\ UNCHANGED <<current, worker, queue, ready, putters, received, outcome, cancelled, stdout>>

BridgeNext ==
    \/ StartStream
    \/ \E s \in StreamIds : Redirect(s) \/ ProduceChunk(s) \/ EndGeneration(s)
    \/ RunPut \/ RunResolve \/ RunWake
    \/ QueueGet \/ CallerGoesOn \/ CallerCloses \/ JoinReturns \/ JoinTimesOut

BridgeSpec == BridgeInit /\ [][BridgeNext]_bridgeVars
-----------------------------------------------------------------------------
(* A stream that ended by itself gave the caller every chunk the backend   *)
(* made, and raised exactly when the backend had: a full queue, a stalled  *)
(* caller and an older thread that is still at work lose nothing.          *)
StreamFaithful == \A s \in StreamIds : outcome[s] \in {"complete", "raised"} =>
    /\ received[s] = worker[s].made
    /\ (outcome[s] = "raised") <=> worker[s].failed

(* models/abstraction.py:112: "never block the event loop".  Joining the   *)
(* thread blocks the loop for a moment at best, and must not while the     *)
(* thread waits for that very loop.                                        *)
LoopNeverWaitsForWaiter ==
    consumer = "join" => worker[current].pc \notin {"putting", "ending"}

(* One thread at a time generates on the backend.                          *)
OneGenerator == \A s, t \in StreamIds :
    worker[s].pc = "working" /\ worker[t].pc = "working" => s = t

(* Nothing captures standard output once every thread is gone.             *)
StdoutRestored == (\A s \in StreamIds : worker[s].pc \in {"none", "gone"}) => stdout = 0
=============================================================================
