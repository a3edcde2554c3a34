------------------------------ MODULE SubAgents ------------------------------
(***************************************************************************)
(* The manager of sub-agents (agents/multi_agent.py).  Each agent has a    *)
(* queue of inputs and a worker thread; a closed agent can be resumed with *)
(* a new thread, of the next generation, and a new queue, while the thread *)
(* of an older generation is still at work.  Tool threads call the         *)
(* operations, and all shared state is under one lock.                     *)
(*                                                                         *)
(* What a critical section does is one action.  Only the shutdown of an    *)
(* agent blocks while it holds the lock, in the join of the worker thread, *)
(* so the lock is held exactly while `closing' has agents to do.           *)
(***************************************************************************)
EXTENDS Integers, Sequences, FiniteSets

CONSTANTS
  Agents,          \* the agent objects, numbered in the order they are created
  MaxAgents,       \* MultiAgentManager(max_agents=16)
  MaxQueue,        \* bound: entries in a queue, before a shutdown adds its None
  MaxThreads       \* bound: threads of all agents and generations

ASSUME SubAgentsAssumption ==
  /\ Agents \subseteq Nat /\ IsFiniteSet(Agents)
  /\ MaxAgents \in Nat \ {0}
  /\ MaxQueue \in Nat \ {0}
  /\ MaxThreads \in Nat \ {0}

VARIABLES
  registered,   \* _agents: the agents a path leads to
  status,       \* ManagedAgent.status
  stop,         \* _stop_event of the agent: is it set?
  queue,        \* _queue of the agent
  threads,      \* where each thread of the agent is; the last has its _generation
  closing,      \* the operation that shuts agents down: which ones are left
  waiting,      \* the targets of wait_for_targets, while it polls
  late          \* history: inputs begun since the agent was closed

agentVars == <<registered, status, stop, queue, threads>>
vars == <<agentVars, closing, waiting, late>>

\* "unborn": the object does not exist yet.
AgentStatuses ==
  {"unborn", "pending_init", "running", "waiting_input", "completed", "failed", "shutdown"}

FinalStatuses == {"completed", "failed", "shutdown", "not_found"}

\* An input of the user, or the None that ends the thread.
QueueEntries == {"input", "none"}

\* head: before the first critical section of the loop; get: at the queue;
\* begin: holds an input and wants the lock; work: in the worker;
\* exit: past the loop; dead: ended.
ThreadPoints == {"head", "get", "begin", "work", "exit", "dead"}

Idle == [op |-> "none", todo |-> {}, joining |-> FALSE]

LockFree == closing.op = "none"
Generation(a) == Len(threads[a])
Threads(a) == 1 .. Generation(a)
IsCurrent(a, g) == g = Generation(a)
Current(a) == IF threads[a] = <<>> THEN "dead" ELSE threads[a][Generation(a)]
Alive(a) == Current(a) # "dead"

AllThreads == UNION {{a} \X Threads(a) : a \in Agents}
ThreadsLeft == Cardinality(AllThreads) < MaxThreads

\* _is_final, for a path that may lead nowhere
Reported(a) == IF a \in registered THEN status[a] ELSE "not_found"
-----------------------------------------------------------------------------
(* Operations of the manager.                                              *)

\* A mutant: load_snapshot takes the status as it was persisted.
RehydratedAsPersistedMutant == {"completed", "failed", "shutdown", "running"}

\* load_snapshot: nothing that was under way survives, and nothing that was
\* final loses its status.
Rehydrated == {"completed", "failed", "shutdown"}

Init ==
  /\ registered \in {R \in SUBSET Agents : Cardinality(R) <= MaxAgents}
  /\ status \in [Agents -> Rehydrated \union {"unborn"}]
  /\ \A a \in Agents : status[a] = "unborn" <=> a \notin registered
  /\ stop = [a \in Agents |-> status[a] = "shutdown"]
  /\ queue = [a \in Agents |-> <<>>]
  /\ threads = [a \in Agents |-> <<>>]
  /\ closing = Idle
  /\ waiting = {}
  /\ late = [a \in Agents |-> 0]

\* A mutant: the limit is not checked.
SpawnPastLimitMutant(a) ==
  /\ LockFree
  /\ ThreadsLeft
  /\ status[a] = "unborn"
  /\ registered' = registered \union {a}
  /\ threads' = [threads EXCEPT ![a] = <<"head">>]
  /\ queue' = [queue EXCEPT ![a] = <<"input">>]
  /\ status' = [status EXCEPT ![a] = "pending_init"]
  /\ UNCHANGED <<stop, closing, waiting, late>>

\* spawn_agent: the object, its thread, and its first input
SpawnAgent(a) ==
  /\ LockFree
  /\ ThreadsLeft
  /\ Cardinality(registered) < MaxAgents
  /\ status[a] = "unborn"
  /\ registered' = registered \union {a}
  /\ threads' = [threads EXCEPT ![a] = <<"head">>]
  /\ queue' = [queue EXCEPT ![a] = <<"input">>]
  /\ status' = [status EXCEPT ![a] = "pending_init"]
  /\ UNCHANGED <<stop, closing, waiting, late>>

\* send_input; it is refused, without effect, when the agent is closed
SendInput(a) ==
  /\ LockFree
  /\ a \in registered
  /\ ~stop[a] /\ status[a] # "shutdown"
  /\ Alive(a)
  /\ Len(queue[a]) < MaxQueue
  /\ queue' = [queue EXCEPT ![a] = Append(@, "input")]
  /\ status' = [status EXCEPT ![a] = "pending_init"]
  /\ UNCHANGED <<registered, stop, threads, closing, waiting, late>>

ShouldRestart(a) == status[a] = "shutdown" \/ stop[a] \/ ~Alive(a)

\* A mutant: the resumed agent keeps its old queue.
ResumeWithOldQueueMutant(a, inputs) ==
  /\ LockFree
  /\ a \in registered
  /\ ShouldRestart(a)
  /\ ThreadsLeft
  /\ stop' = [stop EXCEPT ![a] = FALSE]
  /\ queue' = [queue EXCEPT ![a] = @ \o inputs]
  /\ status' = [status EXCEPT ![a] =
                  IF inputs = <<>> THEN "waiting_input" ELSE "pending_init"]
  /\ threads' = [threads EXCEPT ![a] = Append(@, "head")]
  /\ late' = [late EXCEPT ![a] = 0]
  /\ UNCHANGED <<registered, closing, waiting>>

\* resume_agent of an agent that has to be restarted, with or without an
\* input; of one that runs it is send_input, or nothing.
ResumeAgent(a, inputs) ==
  /\ LockFree
  /\ a \in registered
  /\ ShouldRestart(a)
  /\ ThreadsLeft
  /\ stop' = [stop EXCEPT ![a] = FALSE]
  /\ queue' = [queue EXCEPT ![a] = inputs]
  /\ status' = [status EXCEPT ![a] =
                  IF inputs = <<>> THEN "waiting_input" ELSE "pending_init"]
  /\ threads' = [threads EXCEPT ![a] = Append(@, "head")]
  /\ late' = [late EXCEPT ![a] = 0]
  /\ UNCHANGED <<registered, closing, waiting>>

\* close_agent, clear and shutdown take the lock and shut down one agent, or
\* all of them; with nothing to shut down nothing happens.
StartClosing(op, todo) ==
  /\ LockFree
  /\ todo # {}
  /\ \A a \in todo : Len(queue[a]) <= MaxQueue
  /\ closing' = [op |-> op, todo |-> todo, joining |-> FALSE]
  /\ UNCHANGED <<agentVars, waiting, late>>

CloseAgent(a) == a \in registered /\ StartClosing("shutdown", {a})
Clear == StartClosing("clear", registered)
Shutdown == StartClosing("shutdown", registered)

\* `for agent in self._agents.values()': in the order of creation
NextToClose(a) == a \in closing.todo /\ \A b \in closing.todo : a <= b

\* A mutant: the thread is not joined.
SignalStopOnlyMutant(a) ==
  /\ NextToClose(a)
  /\ stop' = [stop EXCEPT ![a] = TRUE]
  /\ queue' = [queue EXCEPT ![a] = Append(@, "none")]
  /\ closing' = [closing EXCEPT !.todo = @ \ {a}]
  /\ status' = [status EXCEPT ![a] = "shutdown"]
  /\ UNCHANGED <<registered, threads, waiting, late>>

\* _shutdown_agent_unlocked up to the join
SignalStop(a) ==
  /\ ~closing.joining
  /\ NextToClose(a)
  /\ stop' = [stop EXCEPT ![a] = TRUE]
  /\ queue' = [queue EXCEPT ![a] = Append(@, "none")]
  /\ IF Alive(a)
       THEN closing' = [closing EXCEPT !.joining = TRUE] /\ UNCHANGED status
       ELSE /\ closing' = [closing EXCEPT !.todo = @ \ {a}]
            /\ status' = [status EXCEPT ![a] = "shutdown"]
  /\ UNCHANGED <<registered, threads, waiting, late>>

\* A mutant: thread.join() without a timeout.
JoinReturnsMutant(a) ==
  /\ closing.joining
  /\ NextToClose(a)
  /\ ~Alive(a)
  /\ closing' = [closing EXCEPT !.todo = @ \ {a}, !.joining = FALSE]
  /\ status' = [status EXCEPT ![a] = "shutdown"]
  /\ UNCHANGED <<registered, stop, queue, threads, waiting, late>>

\* The thread cannot end while the lock is held, so the join expires.  Two
\* seconds are long for a thread that waits neither for the lock nor for its
\* worker, and the get of the queue takes a tenth of one.
JoinExpires(a) ==
  /\ closing.joining
  /\ NextToClose(a)
  /\ Current(a) # "get"
  /\ closing' = [closing EXCEPT !.todo = @ \ {a}, !.joining = FALSE]
  /\ status' = [status EXCEPT ![a] = "shutdown"]
  /\ UNCHANGED <<registered, stop, queue, threads, waiting, late>>

EndClosing ==
  /\ closing.op # "none"
  /\ closing.todo = {}
  /\ closing' = Idle
  /\ registered' = IF closing.op = "clear" THEN {} ELSE registered
  /\ UNCHANGED <<status, stop, queue, threads, waiting, late>>

\* wait_for_targets: what a critical section finds.  A wait that finds
\* something at once returns and leaves nothing behind.
Found(targets) == {a \in targets : Reported(a) \in FinalStatuses}

WaitForTargets(targets) ==
  /\ LockFree
  /\ waiting = {}
  /\ Found(targets) = {}
  /\ waiting' = targets
  /\ UNCHANGED <<agentVars, closing, late>>

EndWait ==
  /\ waiting # {}
  /\ waiting' = {}
  /\ UNCHANGED <<agentVars, closing, late>>

Poll == LockFree /\ Found(waiting) # {} /\ EndWait

WaitExpires == EndWait
-----------------------------------------------------------------------------
(* The thread of generation g: run_loop.                                   *)

Moves(a, g, from, to) ==
  /\ threads[a][g] = from
  /\ threads' = [threads EXCEPT ![a][g] = to]

\* A mutant: the stop event is left to the None in the queue.
CheckGenerationOnlyMutant(a, g) ==
  /\ LockFree
  /\ Moves(a, g, "head", IF IsCurrent(a, g) THEN "get" ELSE "dead")
  /\ UNCHANGED <<registered, status, stop, queue, closing, waiting, late>>

CheckStop(a, g) ==
  /\ LockFree
  /\ Moves(a, g, "head",
       IF ~IsCurrent(a, g) THEN "dead" ELSE IF stop[a] THEN "exit" ELSE "get")
  /\ UNCHANGED <<registered, status, stop, queue, closing, waiting, late>>

\* The queue is the one the agent has now, whatever the generation.
GetInput(a, g) ==
  /\ queue[a] # <<>>
  /\ Moves(a, g, "get", IF Head(queue[a]) = "none" THEN "exit" ELSE "begin")
  /\ queue' = [queue EXCEPT ![a] = Tail(@)]
  /\ UNCHANGED <<registered, status, stop, closing, waiting, late>>

FindEmpty(a, g) ==
  /\ queue[a] = <<>>
  /\ Moves(a, g, "get", "head")
  /\ UNCHANGED <<registered, status, stop, queue, closing, waiting, late>>

BeginTask(a, g) ==
  /\ LockFree
  /\ Moves(a, g, "begin", IF IsCurrent(a, g) THEN "work" ELSE "dead")
  /\ IF IsCurrent(a, g)
       THEN /\ status' = [status EXCEPT ![a] = "running"]
            /\ late' = [late EXCEPT ![a] = IF stop[a] THEN @ + 1 ELSE 0]
       ELSE UNCHANGED <<status, late>>
  /\ UNCHANGED <<registered, stop, queue, closing, waiting>>

\* A mutant: an exception of the worker ends the thread.
FinishOrDieMutant(a, g, result) ==
  /\ LockFree
  /\ Moves(a, g, "work", IF IsCurrent(a, g) /\ result = "completed" THEN "head" ELSE "dead")
  /\ status' = IF IsCurrent(a, g) THEN [status EXCEPT ![a] = result] ELSE status
  /\ UNCHANGED <<registered, stop, queue, closing, waiting, late>>

\* The worker returns or raises.
FinishTask(a, g, result) ==
  /\ LockFree
  /\ Moves(a, g, "work", IF IsCurrent(a, g) THEN "head" ELSE "dead")
  /\ status' = IF IsCurrent(a, g) THEN [status EXCEPT ![a] = result] ELSE status
  /\ UNCHANGED <<registered, stop, queue, closing, waiting, late>>

Exit(a, g) ==
  /\ LockFree
  /\ Moves(a, g, "exit", "dead")
  /\ status' = IF IsCurrent(a, g) /\ status[a] # "failed"
                 THEN [status EXCEPT ![a] = "shutdown"] ELSE status
  /\ UNCHANGED <<registered, stop, queue, closing, waiting, late>>

ThreadStep(a, g) ==
  \/ CheckStop(a, g)
  \/ GetInput(a, g)
  \/ FindEmpty(a, g)
  \/ BeginTask(a, g)
  \/ \E result \in {"completed", "failed"} : FinishTask(a, g, result)
  \/ Exit(a, g)

ClosingStep == EndClosing \/ \E a \in Agents : SignalStop(a) \/ JoinExpires(a)

Next ==
  \/ \E a \in Agents :
       \/ SpawnAgent(a)
       \/ SendInput(a)
       \/ \E inputs \in {<<>>, <<"input">>} : ResumeAgent(a, inputs)
       \/ CloseAgent(a)
       \/ \E g \in Threads(a) : ThreadStep(a, g)
  \/ Clear
  \/ Shutdown
  \/ ClosingStep
  \/ \E targets \in SUBSET Agents \ {{}} : WaitForTargets(targets)
  \/ Poll
  \/ WaitExpires

Spec == Init /\ [][Next]_vars

\* The threads run, the lock is granted, a join expires and a wait polls; the
\* worker returns (the model request has a timeout).  Nobody has to call an
\* operation.
Fairness ==
  /\ \A a \in Agents : \A g \in 1 .. MaxThreads :
       WF_vars(g \in Threads(a) /\ ThreadStep(a, g))
  /\ WF_vars(ClosingStep)

FairSpec == Spec /\ Fairness
-----------------------------------------------------------------------------
(* Properties.                                                             *)

\* The type of the state; the limit on agents holds for those a snapshot
\* restores as well.
SubAgentsTypeOK ==
  /\ registered \subseteq Agents
  /\ Cardinality(registered) <= MaxAgents
  /\ status \in [Agents -> AgentStatuses]
  /\ stop \in [Agents -> BOOLEAN]
  /\ queue \in [Agents -> Seq(QueueEntries)]
  /\ threads \in [Agents -> Seq(ThreadPoints)]
  /\ closing \in [op : {"none", "shutdown", "clear"},
                  todo : SUBSET Agents, joining : BOOLEAN]
  /\ waiting \subseteq Agents
  /\ late \in [Agents -> Nat]

HasInput(a) == \E i \in DOMAIN queue[a] : queue[a][i] = "input"

\* An input the manager accepted has a thread that will take it, unless the
\* agent is closed: no resume leaves an old None in front of it, and no
\* failure of the worker ends the thread.
AcceptedHasThread ==
  \A a \in Agents :
    HasInput(a) /\ ~stop[a] => Current(a) \notin {"exit", "dead"}

\* status "running" is never left behind: the thread of the present generation
\* is in the worker, whatever was closed, resumed or restored meanwhile.
RunningIsAtWork ==
  \A a \in Agents :
    status[a] = "running" => Current(a) = "work"

\* A closed agent begins at most the one input its thread was already
\* fetching, however many are queued.
AtMostOneLateInput == \A a \in Agents : late[a] <= 1

\* The thread of an older generation ends without a trace: it takes no input
\* of the resumed agent and does not touch its status.
StaleThreadsInert ==
  [][\A a \in Agents : \A g \in Threads(a) :
       ~IsCurrent(a, g) /\ threads'[a][g] # threads[a][g] =>
         UNCHANGED <<queue[a], status[a], stop[a]>>]_vars

\* A closed agent comes to rest, although it is joined under the lock its
\* thread needs to end: unless it is resumed, its threads end and its status
\* is final.
AtRest(a) ==
  /\ \A g \in Threads(a) : threads[a][g] = "dead"
  /\ status[a] \in {"failed", "shutdown"}
ClosedComesToRest == \A a \in Agents : stop[a] ~> AtRest(a) \/ ~stop[a]

\* An accepted input is begun, or the agent is closed.
InputServed ==
  \A a \in Agents :
    HasInput(a) ~> stop[a] \/ Current(a) = "work"

\* docs/tool-system.md:27: "wait for one-or-more targets to reach final
\* status".  A target that is reported to have completed or failed has no
\* input left to work on.
WaitMeansDone ==
  [][Poll => \A a \in waiting :
       Reported(a) \in {"completed", "failed"} => ~HasInput(a)]_vars
=============================================================================
