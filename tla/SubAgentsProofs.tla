--------------------------- MODULE SubAgentsProofs ---------------------------
(***************************************************************************)
(* Theorems about the sub-agent manager, for every finite set of agents,   *)
(* limit and number of threads and inputs.                                 *)
(***************************************************************************)
EXTENDS SubAgents, TLAPS, FiniteSetTheorems, SequenceTheorems

HasNone(a) == \E i \in DOMAIN queue[a] : queue[a][i] = "none"

\* An object that does not exist yet has nothing; it is not in the registry.
Unborn(a) ==
  status[a] = "unborn" =>
    a \notin registered /\ threads[a] = <<>> /\ queue[a] = <<>> /\ ~stop[a]

\* Without the stop event the thread is in its loop, and a queue without a
\* thread is empty; a None is never in the queue of an agent that is not
\* closed.
InLoop(a) ==
  /\ HasNone(a) => stop[a]
  /\ ~stop[a] =>
       /\ Current(a) # "exit"
       /\ Current(a) = "dead" => threads[a] = <<>> /\ queue[a] = <<>>

\* What the thread of a closed agent may still begin.
Late(a) ==
  /\ late[a] <= 1
  /\ ~stop[a] \/ Current(a) \in {"get", "begin"} => late[a] = 0

\* The thread of a closed agent is at the queue only while it is joined, and
\* that of an older generation never is: the queue it would take from is the
\* one of its successor.
AwayFromQueue(a) ==
  /\ status[a] = "shutdown" => stop[a]
  /\ stop[a] /\ Current(a) = "get" => closing.joining /\ NextToClose(a)
  /\ \A g \in Threads(a) : ~IsCurrent(a, g) => threads[a][g] # "get"

Working(a) == status[a] = "running" => Current(a) = "work"

ClosingInv ==
  /\ closing.todo \subseteq registered
  /\ LockFree => closing.todo = {} /\ ~closing.joining
  /\ \A a \in closing.todo : closing.joining /\ NextToClose(a) => stop[a]

AgentInv(a) == Unborn(a) /\ InLoop(a) /\ Late(a) /\ AwayFromQueue(a) /\ Working(a)

IInv == SubAgentsTypeOK /\ ClosingInv /\ \A a \in Agents : AgentInv(a)
-----------------------------------------------------------------------------
\* Where the threads are after one of them, or none, has moved.
LEMMA PointsTyped ==
  ASSUME SubAgentsTypeOK, NEW a \in Agents
  PROVE  /\ Generation(a) \in Nat
         /\ Current(a) \in ThreadPoints
         /\ \A g \in Threads(a) : threads[a][g] \in ThreadPoints
         /\ threads[a] # <<>> => Generation(a) \in Threads(a) /\ Current(a) = threads[a][Generation(a)]
         /\ threads[a] = <<>> => Threads(a) = {} /\ Current(a) = "dead"
<1>1. threads[a] \in Seq(ThreadPoints)
  BY DEF SubAgentsTypeOK
<1>2. Generation(a) \in Nat /\ \A g \in Threads(a) : threads[a][g] \in ThreadPoints
  BY <1>1, LenProperties, ElementOfSeq DEF Generation, Threads
<1>3. threads[a] # <<>> => Generation(a) \in Threads(a)
  BY <1>1, EmptySeq DEF Generation, Threads
<1> QED
  BY <1>1, <1>2, <1>3, EmptySeq DEF Generation, Threads, Current, ThreadPoints

LEMMA ThreadMoves ==
  ASSUME SubAgentsTypeOK, NEW a \in Agents, NEW g \in Threads(a), NEW to \in ThreadPoints,
         threads' = [threads EXCEPT ![a][g] = to]
  PROVE  /\ threads' \in [Agents -> Seq(ThreadPoints)]
         /\ \A b \in Agents : Generation(b)' = Generation(b)
         /\ \A b \in Agents : b # a => threads'[b] = threads[b]
         /\ \A h \in Threads(a) : threads'[a][h] = IF h = g THEN to ELSE threads[a][h]
         /\ Current(a)' = IF IsCurrent(a, g) THEN to ELSE Current(a)
         /\ threads[a] # <<>> /\ threads'[a] # <<>>
<1> DEFINE moved == [threads[a] EXCEPT ![g] = to]
<1>1. threads \in [Agents -> Seq(ThreadPoints)] /\ threads[a] \in Seq(ThreadPoints)
  BY DEF SubAgentsTypeOK
<1>2. threads' = [threads EXCEPT ![a] = moved]
  OBVIOUS
<1>3. /\ moved \in Seq(ThreadPoints)
      /\ Len(moved) = Len(threads[a])
      /\ \A h \in 1 .. Len(threads[a]) : moved[h] = IF h = g THEN to ELSE threads[a][h]
  BY <1>1, ExceptSeq DEF Threads, Generation
<1> HIDE DEF moved
<1>4. threads'[a] = moved /\ \A b \in Agents : b # a => threads'[b] = threads[b]
  BY <1>1, <1>2
<1>5. threads' \in [Agents -> Seq(ThreadPoints)]
  BY <1>1, <1>2, <1>3
<1>6. \A b \in Agents : Generation(b)' = Generation(b)
  BY <1>3, <1>4 DEF Generation
<1>7. Len(threads[a]) \in Nat /\ Len(threads[a]) >= 1
  BY <1>1, LenProperties DEF Threads, Generation
<1>8. threads[a] # <<>> /\ threads'[a] # <<>>
  BY <1>3, <1>4, <1>7
<1>9. Current(a)' = IF IsCurrent(a, g) THEN to ELSE Current(a)
  BY <1>3, <1>4, <1>7, <1>8 DEF Current, IsCurrent, Generation
<1> QED
  BY <1>3, <1>4, <1>5, <1>6, <1>8, <1>9 DEF Threads, Generation

\* A new thread, at the head of its loop.
LEMMA ThreadStarts ==
  ASSUME SubAgentsTypeOK, NEW a \in Agents,
         threads' = [threads EXCEPT ![a] = Append(@, "head")]
  PROVE  /\ threads' \in [Agents -> Seq(ThreadPoints)]
         /\ Generation(a)' = Generation(a) + 1
         /\ \A b \in Agents : b # a => threads'[b] = threads[b]
         /\ \A h \in Threads(a) : threads'[a][h] = threads[a][h]
         /\ Current(a)' = "head"
         /\ threads'[a] # <<>>
<1>1. threads \in [Agents -> Seq(ThreadPoints)] /\ threads[a] \in Seq(ThreadPoints)
  BY DEF SubAgentsTypeOK
<1>2. /\ Append(threads[a], "head") \in Seq(ThreadPoints)
      /\ Len(Append(threads[a], "head")) = Len(threads[a]) + 1
      /\ \A i \in 1 .. Len(threads[a]) : Append(threads[a], "head")[i] = threads[a][i]
      /\ Append(threads[a], "head")[Len(threads[a]) + 1] = "head"
      /\ Append(threads[a], "head") # <<>>
  BY <1>1, AppendProperties DEF ThreadPoints
<1>3. threads'[a] = Append(threads[a], "head") /\ \A b \in Agents : b # a => threads'[b] = threads[b]
  BY <1>1
<1>4. threads' \in [Agents -> Seq(ThreadPoints)]
  BY <1>1, <1>2
<1> QED
  BY <1>2, <1>3, <1>4 DEF Generation, Threads, Current

\* The queue as operations leave it.
LEMMA QueueMoves ==
  ASSUME SubAgentsTypeOK, NEW a \in Agents
  PROVE  /\ \A e \in QueueEntries :
              /\ Append(queue[a], e) \in Seq(QueueEntries)
              /\ Append(queue[a], e) # <<>>
              /\ (\E i \in DOMAIN Append(queue[a], e) : Append(queue[a], e)[i] = "none")
                   => HasNone(a) \/ e = "none"
         /\ queue[a] # <<>> =>
              /\ Head(queue[a]) \in QueueEntries
              /\ Tail(queue[a]) \in Seq(QueueEntries)
              /\ Head(queue[a]) = "none" => HasNone(a)
              /\ (\E i \in DOMAIN Tail(queue[a]) : Tail(queue[a])[i] = "none") => HasNone(a)
<1>1. queue[a] \in Seq(QueueEntries)
  BY DEF SubAgentsTypeOK
<1>2. Len(queue[a]) \in Nat /\ DOMAIN queue[a] = 1 .. Len(queue[a])
  BY <1>1, LenProperties
<1>3. ASSUME NEW e \in QueueEntries
      PROVE  /\ Append(queue[a], e) \in Seq(QueueEntries)
             /\ Append(queue[a], e) # <<>>
             /\ (\E i \in DOMAIN Append(queue[a], e) : Append(queue[a], e)[i] = "none")
                  => HasNone(a) \/ e = "none"
  <2>1. /\ Append(queue[a], e) \in Seq(QueueEntries)
        /\ Append(queue[a], e) # <<>>
        /\ Len(Append(queue[a], e)) = Len(queue[a]) + 1
        /\ \A i \in 1 .. Len(queue[a]) : Append(queue[a], e)[i] = queue[a][i]
        /\ Append(queue[a], e)[Len(queue[a]) + 1] = e
    BY <1>1, AppendProperties
  <2>2. DOMAIN Append(queue[a], e) = 1 .. Len(queue[a]) + 1
    BY <2>1, LenProperties
  <2>3. \A i \in 1 .. Len(queue[a]) + 1 : i \in 1 .. Len(queue[a]) \/ i = Len(queue[a]) + 1
    BY <1>2
  <2> QED
    BY <1>2, <2>1, <2>2, <2>3 DEF HasNone
<1>4. ASSUME queue[a] # <<>>
      PROVE  /\ Head(queue[a]) \in QueueEntries
             /\ Tail(queue[a]) \in Seq(QueueEntries)
             /\ Head(queue[a]) = "none" => HasNone(a)
             /\ (\E i \in DOMAIN Tail(queue[a]) : Tail(queue[a])[i] = "none") => HasNone(a)
  <2>1. /\ Head(queue[a]) \in QueueEntries
        /\ Tail(queue[a]) \in Seq(QueueEntries)
        /\ Len(Tail(queue[a])) = Len(queue[a]) - 1
        /\ \A i \in 1 .. Len(Tail(queue[a])) : Tail(queue[a])[i] = queue[a][i + 1]
    BY <1>1, <1>4, HeadTailProperties
  <2>2. DOMAIN Tail(queue[a]) = 1 .. Len(Tail(queue[a]))
    BY <2>1, LenProperties
  <2>3. \A i \in 1 .. Len(Tail(queue[a])) : i + 1 \in 1 .. Len(queue[a])
    BY <1>2, <2>1
  <2>4. 1 \in 1 .. Len(queue[a]) /\ Head(queue[a]) = queue[a][1]
    BY <1>1, <1>2, <1>4, EmptySeq
  <2> QED
    BY <1>2, <2>1, <2>2, <2>3, <2>4 DEF HasNone
<1> QED
  BY <1>3, <1>4
-----------------------------------------------------------------------------
\* An agent the step does not concern keeps its part of the invariant.
LEMMA Untouched ==
  ASSUME IInv, NEW b \in Agents,
         UNCHANGED <<threads[b], queue[b], status[b], stop[b], late[b]>>,
         b \in registered' => b \in registered,
         stop[b] /\ Current(b) = "get" => (closing.joining /\ NextToClose(b))'
  PROVE  AgentInv(b)'
<1>1. AgentInv(b)
  BY DEF IInv
<1>2. Current(b)' = Current(b) /\ Generation(b)' = Generation(b) /\ Threads(b)' = Threads(b)
  BY DEF Current, Generation, Threads
<1>3. Unborn(b)' /\ InLoop(b)' /\ Late(b)' /\ Working(b)'
  BY <1>1, <1>2 DEF AgentInv, Unborn, InLoop, HasNone, Late, Working
<1>4. AwayFromQueue(b)'
  BY <1>1, <1>2 DEF AgentInv, AwayFromQueue, IsCurrent
<1> QED
  BY <1>3, <1>4 DEF AgentInv

LEMMA InitHolds == Init => IInv
<1> SUFFICES ASSUME Init PROVE IInv
  OBVIOUS
<1>1. SubAgentsTypeOK
  <2>1. \A a \in Agents : queue[a] = <<>> /\ threads[a] = <<>>
    BY DEF Init
  <2>2. queue \in [Agents -> Seq(QueueEntries)] /\ threads \in [Agents -> Seq(ThreadPoints)]
    BY DEF Init
  <2> QED
    BY <2>2 DEF Init, SubAgentsTypeOK, AgentStatuses, Rehydrated, Idle
<1>2. ClosingInv
  BY DEF Init, ClosingInv, Idle, LockFree
<1>3. ASSUME NEW a \in Agents PROVE AgentInv(a)
  <2>1. queue[a] = <<>> /\ threads[a] = <<>> /\ late[a] = 0 /\ Current(a) = "dead"
    BY DEF Init, Current
  <2>2. DOMAIN queue[a] = {} /\ Threads(a) = {}
    BY <2>1, <1>1, PointsTyped
  <2>3. status[a] # "running" /\ (stop[a] <=> status[a] = "shutdown")
    BY DEF Init, Rehydrated
  <2>4. status[a] = "unborn" => a \notin registered
    BY DEF Init
  <2> QED
    BY <2>1, <2>2, <2>3, <2>4 DEF AgentInv, Unborn, InLoop, HasNone, Late, AwayFromQueue, Working
<1> QED
  BY <1>1, <1>2, <1>3 DEF IInv

\* spawn_agent: the object is new, so nothing of it is in the way.
LEMMA SpawnKeeps ==
  ASSUME IInv, NEW a \in Agents, SpawnAgent(a)
  PROVE  IInv'
<1>1. SubAgentsTypeOK /\ ClosingInv /\ AgentInv(a)
  BY DEF IInv
<1>2. threads[a] = <<>> /\ a \notin registered /\ ~stop[a] /\ late[a] = 0
  BY <1>1 DEF SpawnAgent, AgentInv, Unborn, Late, Current
<1>3. /\ threads'[a] = <<"head">> /\ queue'[a] = <<"input">> /\ status'[a] = "pending_init"
      /\ UNCHANGED <<stop[a], late[a]>>
      /\ \A b \in Agents : b # a => UNCHANGED <<threads[b], queue[b], status[b]>>
  BY <1>1 DEF SpawnAgent, SubAgentsTypeOK
<1>4. SubAgentsTypeOK'
  <2>1. IsFiniteSet(registered)
    BY <1>1, SubAgentsAssumption, FS_Subset DEF SubAgentsTypeOK
  <2>2. Cardinality(registered') <= MaxAgents
    <3>1. Cardinality(registered \union {a}) = Cardinality(registered) + 1
      BY <1>2, <2>1, FS_AddElement
    <3>2. Cardinality(registered) \in Nat
      BY <2>1, FS_CardinalityType
    <3> QED
      BY <3>1, <3>2, SubAgentsAssumption DEF SpawnAgent
  <2>3. threads' \in [Agents -> Seq(ThreadPoints)] /\ queue' \in [Agents -> Seq(QueueEntries)]
    <3>1. <<"head">> \in Seq(ThreadPoints) /\ <<"input">> \in Seq(QueueEntries)
      BY DEF ThreadPoints, QueueEntries
    <3> QED
      BY <1>1, <3>1 DEF SpawnAgent, SubAgentsTypeOK
  <2> QED
    BY <1>1, <2>2, <2>3 DEF SpawnAgent, SubAgentsTypeOK, AgentStatuses
<1>5. ClosingInv'
  BY <1>1 DEF SpawnAgent, ClosingInv, LockFree, NextToClose
<1>6. AgentInv(a)'
  <2>1. Current(a)' = "head" /\ Generation(a)' = 1 /\ Threads(a)' = {1}
    BY <1>3 DEF Current, Generation, Threads
  <2>2. ~HasNone(a)'
    BY <1>3 DEF HasNone
  <2> QED
    BY <1>2, <1>3, <2>1, <2>2
       DEF AgentInv, Unborn, InLoop, Late, AwayFromQueue, Working, IsCurrent
<1>7. ASSUME NEW b \in Agents, b # a PROVE AgentInv(b)'
  <2>1. b \in registered' => b \in registered
    BY <1>7 DEF SpawnAgent
  <2>2. UNCHANGED <<threads[b], queue[b], status[b], stop[b], late[b], closing>>
    BY <1>3, <1>7 DEF SpawnAgent
  <2>3. stop[b] /\ Current(b) = "get" => closing.joining /\ NextToClose(b)
    BY DEF IInv, AgentInv, AwayFromQueue
  <2> QED
    BY <2>1, <2>2, <2>3, Untouched DEF NextToClose
<1> QED
  BY <1>4, <1>5, <1>6, <1>7 DEF IInv

LEMMA SendKeeps ==
  ASSUME IInv, NEW a \in Agents, SendInput(a)
  PROVE  IInv'
<1>1. SubAgentsTypeOK /\ ClosingInv /\ AgentInv(a)
  BY DEF IInv
<1>2. /\ queue'[a] = Append(queue[a], "input") /\ status'[a] = "pending_init"
      /\ UNCHANGED <<threads[a], stop[a], late[a]>>
      /\ \A b \in Agents : b # a => UNCHANGED <<queue[b], status[b]>>
  BY <1>1 DEF SendInput, SubAgentsTypeOK
<1>3. "input" \in QueueEntries
  BY DEF QueueEntries
<1>4. SubAgentsTypeOK'
  <2>1. queue' \in [Agents -> Seq(QueueEntries)]
    BY <1>1, <1>3, QueueMoves DEF SendInput, SubAgentsTypeOK
  <2> QED
    BY <1>1, <2>1 DEF SendInput, SubAgentsTypeOK, AgentStatuses
<1>5. ClosingInv'
  BY <1>1 DEF SendInput, ClosingInv, LockFree, NextToClose
<1>6. AgentInv(a)'
  <2>1. /\ Current(a)' = Current(a) /\ Generation(a)' = Generation(a)
        /\ Threads(a)' = Threads(a)
    BY <1>2 DEF Current, Generation, Threads
  <2>2. HasNone(a)' => HasNone(a)
    BY <1>1, <1>2, <1>3, QueueMoves DEF HasNone
  <2>3. ~stop[a] /\ Current(a) # "dead"
    BY DEF SendInput, Alive
  <2> QED
    BY <1>1, <1>2, <2>1, <2>2, <2>3
       DEF AgentInv, Unborn, InLoop, Late, AwayFromQueue, Working, IsCurrent
<1>7. ASSUME NEW b \in Agents, b # a PROVE AgentInv(b)'
  <2>1. UNCHANGED <<registered, threads[b], queue[b], status[b], stop[b], late[b], closing>>
    BY <1>2, <1>7 DEF SendInput
  <2>2. stop[b] /\ Current(b) = "get" => closing.joining /\ NextToClose(b)
    BY DEF IInv, AgentInv, AwayFromQueue
  <2> QED
    BY <2>1, <2>2, Untouched DEF NextToClose
<1> QED
  BY <1>4, <1>5, <1>6, <1>7 DEF IInv

\* resume_agent: the thread that is replaced is not at the queue, because the
\* join was long enough for it to leave.
LEMMA ResumeKeeps ==
  ASSUME IInv, NEW a \in Agents, NEW inputs \in {<<>>, <<"input">>}, ResumeAgent(a, inputs)
  PROVE  IInv'
<1>1. SubAgentsTypeOK /\ ClosingInv /\ AgentInv(a)
  BY DEF IInv
<1>2. /\ queue'[a] = inputs /\ status'[a] \in {"waiting_input", "pending_init"}
      /\ stop'[a] = FALSE /\ late'[a] = 0
      /\ \A b \in Agents : b # a => UNCHANGED <<queue[b], status[b], stop[b], late[b]>>
  BY <1>1 DEF ResumeAgent, SubAgentsTypeOK
<1>3. threads' = [threads EXCEPT ![a] = Append(@, "head")]
  BY DEF ResumeAgent
<1>4. Current(a) # "get"
  BY <1>1 DEF ResumeAgent, ShouldRestart, Alive, AgentInv, AwayFromQueue, ClosingInv
<1>5. SubAgentsTypeOK'
  <2>1. inputs \in Seq(QueueEntries)
    <3>1. <<>> \in Seq(QueueEntries) /\ <<"input">> \in Seq(QueueEntries)
      BY DEF QueueEntries
    <3> QED
      BY <3>1
  <2>2. queue' \in [Agents -> Seq(QueueEntries)]
    BY <1>1, <2>1 DEF ResumeAgent, SubAgentsTypeOK
  <2>3. threads' \in [Agents -> Seq(ThreadPoints)]
    BY <1>1, <1>3, ThreadStarts
  <2> QED
    BY <1>1, <2>2, <2>3 DEF ResumeAgent, SubAgentsTypeOK, AgentStatuses
<1>6. ClosingInv'
  BY <1>1 DEF ResumeAgent, ClosingInv, LockFree
<1>7. AgentInv(a)'
  <2>1. Generation(a) \in Nat /\ (threads[a] # <<>> => Current(a) = threads[a][Generation(a)])
    BY <1>1, PointsTyped
  <2>2. /\ Generation(a)' = Generation(a) + 1 /\ Current(a)' = "head" /\ threads'[a] # <<>>
        /\ \A h \in Threads(a) : threads'[a][h] = threads[a][h]
    BY <1>1, <1>3, ThreadStarts
  <2>3. \A h \in Threads(a)' : ~IsCurrent(a, h)' => h \in Threads(a)
    BY <2>1, <2>2 DEF Threads, IsCurrent
  <2>4. \A h \in Threads(a)' : ~IsCurrent(a, h)' => threads'[a][h] # "get"
    <3>1. \A h \in Threads(a) : threads[a][h] # "get"
      <4>1. threads[a] = <<>> => Threads(a) = {}
        BY <1>1, PointsTyped
      <4> QED
        BY <1>1, <1>4, <2>1, <4>1 DEF AgentInv, AwayFromQueue, IsCurrent
    <3> QED
      BY <2>2, <2>3, <3>1
  <2>5. ~HasNone(a)'
    BY <1>2 DEF HasNone
  <2> QED
    BY <1>2, <2>2, <2>4, <2>5 DEF AgentInv, Unborn, InLoop, Late, AwayFromQueue, Working
<1>8. ASSUME NEW b \in Agents, b # a PROVE AgentInv(b)'
  <2>1. UNCHANGED <<registered, threads[b], queue[b], status[b], stop[b], late[b], closing>>
    BY <1>1, <1>2, <1>3, <1>8, ThreadStarts DEF ResumeAgent
  <2>2. stop[b] /\ Current(b) = "get" => closing.joining /\ NextToClose(b)
    BY DEF IInv, AgentInv, AwayFromQueue
  <2> QED
    BY <2>1, <2>2, Untouched DEF NextToClose
<1> QED
  BY <1>5, <1>6, <1>7, <1>8 DEF IInv
-----------------------------------------------------------------------------
\* close_agent, clear and shutdown.
LEMMA StartClosingKeeps ==
  ASSUME IInv, NEW op \in {"shutdown", "clear"}, NEW todo \in SUBSET registered,
         StartClosing(op, todo)
  PROVE  IInv'
<1>1. SubAgentsTypeOK /\ ClosingInv
  BY DEF IInv
<1>2. /\ UNCHANGED agentVars /\ UNCHANGED <<waiting, late>>
      /\ closing' = [op |-> op, todo |-> todo, joining |-> FALSE]
      /\ ~closing.joining
  BY <1>1 DEF StartClosing, ClosingInv
<1>3. SubAgentsTypeOK'
  BY <1>1, <1>2 DEF SubAgentsTypeOK, agentVars
<1>4. ClosingInv'
  BY <1>2 DEF ClosingInv, LockFree, agentVars
<1>5. ASSUME NEW b \in Agents PROVE AgentInv(b)'
  <2>1. ~(stop[b] /\ Current(b) = "get")
    BY <1>2 DEF IInv, AgentInv, AwayFromQueue
  <2> QED
    BY <1>2, <2>1, Untouched DEF agentVars
<1> QED
  BY <1>3, <1>4, <1>5 DEF IInv

\* The stop event is set and the join begins; a thread at the queue is now
\* one that is joined.
LEMMA SignalStopKeeps ==
  ASSUME IInv, NEW a \in Agents, SignalStop(a)
  PROVE  IInv'
<1>1. SubAgentsTypeOK /\ ClosingInv /\ AgentInv(a)
  BY DEF IInv
<1>2. a \in registered /\ status[a] # "unborn"
  BY <1>1 DEF SignalStop, NextToClose, ClosingInv, AgentInv, Unborn
<1>3. /\ UNCHANGED <<registered, threads, waiting, late>>
      /\ stop'[a] = TRUE /\ queue'[a] = Append(queue[a], "none")
      /\ status'[a] \in {status[a], "shutdown"}
      /\ \A b \in Agents : b # a => UNCHANGED <<stop[b], queue[b], status[b]>>
  BY <1>1 DEF SignalStop, SubAgentsTypeOK
<1>4. "none" \in QueueEntries
  BY DEF QueueEntries
<1>5. /\ closing'.op = closing.op
      /\ closing'.todo \subseteq closing.todo
      /\ Alive(a) => closing'.joining /\ closing'.todo = closing.todo
      /\ closing' \in [op : {"none", "shutdown", "clear"}, todo : SUBSET Agents, joining : BOOLEAN]
      /\ closing'.joining => closing'.todo = closing.todo
  <2>1. closing \in [op : {"none", "shutdown", "clear"}, todo : SUBSET Agents, joining : BOOLEAN]
    BY <1>1 DEF SubAgentsTypeOK
  <2>2. CASE Alive(a) /\ closing' = [closing EXCEPT !.joining = TRUE]
    BY <2>1, <2>2
  <2>3. CASE ~Alive(a) /\ closing' = [closing EXCEPT !.todo = @ \ {a}]
    <3>1. /\ closing'.op = closing.op /\ closing'.todo = closing.todo \ {a}
          /\ closing'.joining = closing.joining
      BY <2>1, <2>3
    <3>2. closing' = [op |-> closing.op, todo |-> closing.todo \ {a}, joining |-> closing.joining]
      BY <2>1, <2>3
    <3> QED
      BY <2>1, <2>3, <3>1, <3>2 DEF SignalStop
  <2> QED
    BY <2>2, <2>3 DEF SignalStop
<1>6. SubAgentsTypeOK'
  <2>1. queue' \in [Agents -> Seq(QueueEntries)]
    BY <1>1, <1>4, QueueMoves DEF SignalStop, SubAgentsTypeOK
  <2>2. status' \in [Agents -> AgentStatuses] /\ stop' \in [Agents -> BOOLEAN]
    BY <1>1 DEF SignalStop, SubAgentsTypeOK, AgentStatuses
  <2> QED
    BY <1>1, <1>3, <1>5, <2>1, <2>2 DEF SubAgentsTypeOK
<1>7. ClosingInv'
  <2>1. ~LockFree
    BY <1>1 DEF SignalStop, NextToClose, ClosingInv
  <2>2. ASSUME NEW b \in closing'.todo, closing'.joining, NextToClose(b)' PROVE b = a
    BY <1>1, <1>5, <2>2, SubAgentsAssumption DEF SignalStop, NextToClose, SubAgentsTypeOK
  <2> QED
    BY <1>1, <1>3, <1>5, <2>1, <2>2 DEF ClosingInv, LockFree
<1>8. /\ \A b \in Agents : Current(b)' = Current(b) /\ Generation(b)' = Generation(b)
      /\ \A b \in Agents : Threads(b)' = Threads(b)
  BY <1>3 DEF Current, Generation, Threads
<1>9. AgentInv(a)'
  <2>1. Unborn(a)' /\ InLoop(a)' /\ Late(a)'
    BY <1>1, <1>2, <1>3, <1>8 DEF AgentInv, Unborn, InLoop, Late
  <2>2. Working(a)'
    BY <1>1, <1>3, <1>8 DEF AgentInv, Working
  <2>3. Current(a) = "get" => Alive(a)
    BY DEF Alive
  <2>4. AwayFromQueue(a)'
    BY <1>1, <1>3, <1>5, <1>8, <2>3
       DEF AgentInv, AwayFromQueue, IsCurrent, SignalStop, NextToClose
  <2> QED
    BY <2>1, <2>2, <2>4 DEF AgentInv
<1>10. ASSUME NEW b \in Agents, b # a PROVE AgentInv(b)'
  <2>1. ~(stop[b] /\ Current(b) = "get")
    BY DEF IInv, AgentInv, AwayFromQueue, SignalStop
  <2> QED
    BY <1>3, <1>10, <2>1, Untouched
<1> QED
  BY <1>6, <1>7, <1>9, <1>10 DEF IInv

\* The join expires only when the thread has left the queue.
LEMMA JoinExpiresKeeps ==
  ASSUME IInv, NEW a \in Agents, JoinExpires(a)
  PROVE  IInv'
<1>1. SubAgentsTypeOK /\ ClosingInv /\ AgentInv(a)
  BY DEF IInv
<1>2. status[a] # "unborn"
  BY <1>1 DEF JoinExpires, NextToClose, ClosingInv, AgentInv, Unborn
<1>3. /\ UNCHANGED <<registered, stop, queue, threads, waiting, late>>
      /\ status'[a] = "shutdown"
      /\ \A b \in Agents : b # a => UNCHANGED status[b]
      /\ closing' = [closing EXCEPT !.todo = @ \ {a}, !.joining = FALSE]
  BY <1>1 DEF JoinExpires, SubAgentsTypeOK
<1>4. SubAgentsTypeOK'
  <2>1. status' \in [Agents -> AgentStatuses]
    BY <1>1 DEF JoinExpires, SubAgentsTypeOK, AgentStatuses
  <2> QED
    BY <1>1, <1>3, <2>1 DEF SubAgentsTypeOK
<1>5. ClosingInv'
  BY <1>1, <1>3 DEF ClosingInv, LockFree, SubAgentsTypeOK, JoinExpires
<1>6. \A b \in Agents : Current(b)' = Current(b) /\ Generation(b)' = Generation(b) /\ Threads(b)' = Threads(b)
  BY <1>3 DEF Current, Generation, Threads
<1>7. AgentInv(a)'
  <2>1. stop[a]
    BY <1>1 DEF JoinExpires, ClosingInv, NextToClose
  <2> QED
    BY <1>1, <1>2, <1>3, <1>6, <2>1
       DEF AgentInv, Unborn, InLoop, HasNone, Late, AwayFromQueue, Working, IsCurrent, JoinExpires
<1>8. ASSUME NEW b \in Agents, b # a PROVE AgentInv(b)'
  <2>1. ~(stop[b] /\ Current(b) = "get")
    <3>1. NextToClose(a) /\ NextToClose(b) => a = b
      BY SubAgentsAssumption DEF NextToClose
    <3> QED
      BY <1>8, <3>1 DEF IInv, AgentInv, AwayFromQueue, JoinExpires
  <2> QED
    BY <1>3, <1>8, <2>1, Untouched
<1> QED
  BY <1>4, <1>5, <1>7, <1>8 DEF IInv

LEMMA EndClosingKeeps ==
  ASSUME IInv, EndClosing
  PROVE  IInv'
<1>1. SubAgentsTypeOK /\ ClosingInv
  BY DEF IInv
<1>2. /\ UNCHANGED <<status, stop, queue, threads, waiting, late>>
      /\ registered' \in {{}, registered} /\ closing' = Idle /\ closing.todo = {}
  BY DEF EndClosing
<1>3. SubAgentsTypeOK'
  <2>1. Cardinality(registered') <= MaxAgents
    <3>1. Cardinality({}) = 0
      BY FS_EmptySet
    <3>2. CASE registered' = {}
      BY <3>1, <3>2, SubAgentsAssumption
    <3>3. CASE registered' = registered
      BY <1>1, <3>3 DEF SubAgentsTypeOK
    <3> QED
      BY <1>2, <3>2, <3>3
  <2> QED
    BY <1>1, <1>2, <2>1 DEF SubAgentsTypeOK, Idle
<1>4. ClosingInv'
  BY <1>2 DEF ClosingInv, Idle, LockFree
<1>5. ASSUME NEW b \in Agents PROVE AgentInv(b)'
  <2>1. ~(stop[b] /\ Current(b) = "get")
    BY <1>2 DEF IInv, AgentInv, AwayFromQueue, NextToClose
  <2> QED
    BY <1>2, <2>1, Untouched
<1> QED
  BY <1>3, <1>4, <1>5 DEF IInv

\* wait_for_targets changes nothing but what it waits for.
LEMMA WaitKeeps ==
  ASSUME IInv, UNCHANGED <<agentVars, closing, late>>, waiting' \subseteq Agents
  PROVE  IInv'
<1>1. SubAgentsTypeOK'
  BY DEF IInv, SubAgentsTypeOK, agentVars
<1>2. ClosingInv'
  BY DEF IInv, ClosingInv, LockFree, NextToClose, agentVars
<1>3. ASSUME NEW b \in Agents PROVE AgentInv(b)'
  <2>1. stop[b] /\ Current(b) = "get" => closing.joining /\ NextToClose(b)
    BY DEF IInv, AgentInv, AwayFromQueue
  <2> QED
    BY <2>1, Untouched DEF NextToClose, agentVars
<1> QED
  BY <1>1, <1>2, <1>3 DEF IInv
-----------------------------------------------------------------------------
(* The steps of a thread leave the registry, the stop events and the       *)
(* closing operation alone.                                                *)

LEMMA OthersKeep ==
  ASSUME IInv, NEW a \in Agents, NEW b \in Agents,
         UNCHANGED <<registered, stop, closing>>,
         UNCHANGED <<threads[b], queue[b], status[b], late[b]>>
  PROVE  AgentInv(b)'
<1>1. stop[b] /\ Current(b) = "get" => closing.joining /\ NextToClose(b)
  BY DEF IInv, AgentInv, AwayFromQueue
<1> QED
  BY <1>1, Untouched DEF NextToClose

LEMMA ClosingKept ==
  ASSUME ClosingInv, UNCHANGED <<registered, stop, closing>>
  PROVE  ClosingInv'
BY DEF ClosingInv, LockFree, NextToClose

\* Of the older threads only the one that moves changes, and not to the queue.
LEMMA StaleAway ==
  ASSUME SubAgentsTypeOK, NEW a \in Agents, NEW g \in Threads(a), NEW from, NEW to \in ThreadPoints,
         AwayFromQueue(a), Moves(a, g, from, to), ~IsCurrent(a, g) => to # "get"
  PROVE  \A h \in Threads(a)' : ~IsCurrent(a, h)' => threads'[a][h] # "get"
<1>1. /\ Generation(a)' = Generation(a) /\ Threads(a)' = Threads(a)
      /\ \A h \in Threads(a) : threads'[a][h] = IF h = g THEN to ELSE threads[a][h]
  <2>1. threads' = [threads EXCEPT ![a][g] = to]
    BY DEF Moves
  <2>2. threads \in [Agents -> Seq(ThreadPoints)] /\ threads[a] \in Seq(ThreadPoints)
    BY DEF SubAgentsTypeOK
  <2>3. threads'[a] = [threads[a] EXCEPT ![g] = to]
    BY <2>1, <2>2
  <2>4. /\ Len(threads'[a]) = Len(threads[a])
        /\ \A h \in 1 .. Len(threads[a]) : threads'[a][h] = IF h = g THEN to ELSE threads[a][h]
    BY <2>2, <2>3, ExceptSeq DEF Threads, Generation
  <2> QED
    BY <2>4 DEF Threads, Generation
<1> QED
  BY <1>1 DEF AwayFromQueue, IsCurrent

LEMMA CheckStopKeeps ==
  ASSUME IInv, NEW a \in Agents, NEW g \in Threads(a), CheckStop(a, g)
  PROVE  IInv'
<1> DEFINE to == IF ~IsCurrent(a, g) THEN "dead" ELSE IF stop[a] THEN "exit" ELSE "get"
<1>1. SubAgentsTypeOK /\ ClosingInv /\ AgentInv(a)
  BY DEF IInv
<1>2. UNCHANGED <<registered, status, stop, queue, closing, waiting, late>>
  BY DEF CheckStop
<1>3. to \in ThreadPoints /\ Moves(a, g, "head", to)
  BY DEF CheckStop, ThreadPoints
<1>4. /\ threads' \in [Agents -> Seq(ThreadPoints)]
      /\ \A b \in Agents : b # a => threads'[b] = threads[b]
      /\ Current(a)' = IF IsCurrent(a, g) THEN to ELSE Current(a)
      /\ threads[a] # <<>> /\ threads'[a] # <<>>
  BY <1>1, <1>3, ThreadMoves DEF Moves
<1>5. SubAgentsTypeOK'
  BY <1>1, <1>2, <1>4 DEF SubAgentsTypeOK
<1>6. ClosingInv'
  BY <1>1, <1>2, ClosingKept
<1>7. AgentInv(a)'
  <2>1. \A h \in Threads(a)' : ~IsCurrent(a, h)' => threads'[a][h] # "get"
    BY <1>1, <1>3, StaleAway DEF AgentInv
  <2>2. IsCurrent(a, g) => Current(a) = "head"
    BY <1>3, <1>4 DEF Moves, Current, IsCurrent
  <2>3. Unborn(a)' /\ InLoop(a)' /\ Late(a)' /\ Working(a)'
    BY <1>1, <1>2, <1>4, <2>2 DEF AgentInv, Unborn, InLoop, HasNone, Late, Working
  <2>4. AwayFromQueue(a)'
    BY <1>1, <1>2, <1>4, <2>1 DEF AgentInv, AwayFromQueue, NextToClose
  <2> QED
    BY <2>3, <2>4 DEF AgentInv
<1>8. ASSUME NEW b \in Agents, b # a PROVE AgentInv(b)'
  BY <1>2, <1>4, <1>8, OthersKeep
<1> QED
  BY <1>5, <1>6, <1>7, <1>8 DEF IInv

\* Only the thread of the present generation is ever at the queue.
LEMMA AtQueueIsCurrent ==
  ASSUME IInv, NEW a \in Agents, NEW g \in Threads(a), threads[a][g] = "get"
  PROVE  IsCurrent(a, g) /\ Current(a) = "get"
<1>1. IsCurrent(a, g)
  BY DEF IInv, AgentInv, AwayFromQueue
<1>2. threads[a] # <<>>
  BY PointsTyped DEF IInv
<1> QED
  BY <1>1, <1>2 DEF IsCurrent, Current

LEMMA GetInputKeeps ==
  ASSUME IInv, NEW a \in Agents, NEW g \in Threads(a), GetInput(a, g)
  PROVE  IInv'
<1> DEFINE to == IF Head(queue[a]) = "none" THEN "exit" ELSE "begin"
<1>1. SubAgentsTypeOK /\ ClosingInv /\ AgentInv(a)
  BY DEF IInv
<1>2. UNCHANGED <<registered, status, stop, closing, waiting, late>>
  BY DEF GetInput
<1>3. to \in ThreadPoints /\ Moves(a, g, "get", to)
  BY DEF GetInput, ThreadPoints
<1>4. IsCurrent(a, g) /\ Current(a) = "get"
  BY <1>3, AtQueueIsCurrent DEF Moves
<1>5. /\ threads' \in [Agents -> Seq(ThreadPoints)]
      /\ \A b \in Agents : b # a => threads'[b] = threads[b]
      /\ Current(a)' = to
      /\ threads[a] # <<>> /\ threads'[a] # <<>>
  BY <1>1, <1>3, <1>4, ThreadMoves DEF Moves
<1>6. /\ queue[a] # <<>> /\ queue'[a] = Tail(queue[a])
      /\ \A b \in Agents : b # a => queue'[b] = queue[b]
  BY <1>1 DEF GetInput, SubAgentsTypeOK
<1>7. SubAgentsTypeOK'
  <2>1. queue' \in [Agents -> Seq(QueueEntries)]
    BY <1>1, <1>6, QueueMoves DEF GetInput, SubAgentsTypeOK
  <2> QED
    BY <1>1, <1>2, <1>5, <2>1 DEF SubAgentsTypeOK
<1>8. ClosingInv'
  BY <1>1, <1>2, ClosingKept
<1>9. AgentInv(a)'
  <2>1. \A h \in Threads(a)' : ~IsCurrent(a, h)' => threads'[a][h] # "get"
    BY <1>1, <1>3, StaleAway DEF AgentInv
  <2>2. Head(queue[a]) = "none" => stop[a]
    BY <1>1, <1>6, QueueMoves DEF AgentInv, InLoop
  <2>3. HasNone(a)' => HasNone(a)
    BY <1>1, <1>6, QueueMoves DEF HasNone
  <2>4. Unborn(a)' /\ InLoop(a)' /\ Late(a)' /\ Working(a)'
    BY <1>1, <1>2, <1>4, <1>5, <2>2, <2>3 DEF AgentInv, Unborn, InLoop, Late, Working
  <2>5. AwayFromQueue(a)'
    BY <1>1, <1>2, <1>5, <2>1 DEF AgentInv, AwayFromQueue
  <2> QED
    BY <2>4, <2>5 DEF AgentInv
<1>10. ASSUME NEW b \in Agents, b # a PROVE AgentInv(b)'
  BY <1>2, <1>5, <1>6, <1>10, OthersKeep
<1> QED
  BY <1>7, <1>8, <1>9, <1>10 DEF IInv

LEMMA FindEmptyKeeps ==
  ASSUME IInv, NEW a \in Agents, NEW g \in Threads(a), FindEmpty(a, g)
  PROVE  IInv'
<1>1. SubAgentsTypeOK /\ ClosingInv /\ AgentInv(a)
  BY DEF IInv
<1>2. UNCHANGED <<registered, status, stop, queue, closing, waiting, late>>
  BY DEF FindEmpty
<1>3. "head" \in ThreadPoints /\ Moves(a, g, "get", "head")
  BY DEF FindEmpty, ThreadPoints
<1>4. IsCurrent(a, g) /\ Current(a) = "get"
  BY <1>3, AtQueueIsCurrent DEF Moves
<1>5. /\ threads' \in [Agents -> Seq(ThreadPoints)]
      /\ \A b \in Agents : b # a => threads'[b] = threads[b]
      /\ Current(a)' = "head"
      /\ threads[a] # <<>> /\ threads'[a] # <<>>
  BY <1>1, <1>3, <1>4, ThreadMoves DEF Moves
<1>6. SubAgentsTypeOK'
  BY <1>1, <1>2, <1>5 DEF SubAgentsTypeOK
<1>7. ClosingInv'
  BY <1>1, <1>2, ClosingKept
<1>8. AgentInv(a)'
  <2>1. \A h \in Threads(a)' : ~IsCurrent(a, h)' => threads'[a][h] # "get"
    BY <1>1, <1>3, StaleAway DEF AgentInv
  <2>2. Unborn(a)' /\ InLoop(a)' /\ Late(a)' /\ Working(a)'
    BY <1>1, <1>2, <1>4, <1>5 DEF AgentInv, Unborn, InLoop, HasNone, Late, Working
  <2>3. AwayFromQueue(a)'
    BY <1>1, <1>2, <1>5, <2>1 DEF AgentInv, AwayFromQueue
  <2> QED
    BY <2>2, <2>3 DEF AgentInv
<1>9. ASSUME NEW b \in Agents, b # a PROVE AgentInv(b)'
  BY <1>2, <1>5, <1>9, OthersKeep
<1> QED
  BY <1>6, <1>7, <1>8, <1>9 DEF IInv

LEMMA BeginTaskKeeps ==
  ASSUME IInv, NEW a \in Agents, NEW g \in Threads(a), BeginTask(a, g)
  PROVE  IInv'
<1> DEFINE to == IF IsCurrent(a, g) THEN "work" ELSE "dead"
<1>1. SubAgentsTypeOK /\ ClosingInv /\ AgentInv(a)
  BY DEF IInv
<1>2. UNCHANGED <<registered, stop, queue, closing, waiting>>
  BY DEF BeginTask
<1>3. to \in ThreadPoints /\ Moves(a, g, "begin", to)
  BY DEF BeginTask, ThreadPoints
<1>4. /\ threads' \in [Agents -> Seq(ThreadPoints)]
      /\ \A b \in Agents : b # a => threads'[b] = threads[b]
      /\ Current(a)' = IF IsCurrent(a, g) THEN to ELSE Current(a)
      /\ threads[a] # <<>> /\ threads'[a] # <<>>
  BY <1>1, <1>3, ThreadMoves DEF Moves
<1>5. IsCurrent(a, g) => Current(a) = "begin"
  BY <1>3, <1>4 DEF Moves, Current, IsCurrent
<1>6. /\ status'[a] = IF IsCurrent(a, g) THEN "running" ELSE status[a]
      /\ ~IsCurrent(a, g) => late'[a] = late[a]
      /\ IsCurrent(a, g) => late'[a] = IF stop[a] THEN 1 ELSE 0
      /\ \A b \in Agents : b # a => UNCHANGED <<status[b], late[b]>>
      /\ status' \in [Agents -> AgentStatuses] /\ late' \in [Agents -> Nat]
  <2>1. late[a] \in Nat /\ late \in [Agents -> Nat] /\ status \in [Agents -> AgentStatuses]
    BY <1>1 DEF SubAgentsTypeOK
  <2>2. CASE IsCurrent(a, g)
    <3>1. late[a] = 0
      BY <1>1, <1>5, <2>2 DEF AgentInv, Late
    <3>2. /\ status' = [status EXCEPT ![a] = "running"]
          /\ late' = [late EXCEPT ![a] = IF stop[a] THEN 1 ELSE 0]
      BY <2>1, <2>2, <3>1 DEF BeginTask
    <3> QED
      BY <2>1, <2>2, <3>2 DEF AgentStatuses
  <2>3. CASE ~IsCurrent(a, g)
    BY <2>1, <2>3 DEF BeginTask
  <2> QED
    BY <2>2, <2>3
<1>7. SubAgentsTypeOK'
  BY <1>1, <1>2, <1>4, <1>6 DEF SubAgentsTypeOK
<1>8. ClosingInv'
  BY <1>1, <1>2, ClosingKept
<1>9. AgentInv(a)'
  <2>1. \A h \in Threads(a)' : ~IsCurrent(a, h)' => threads'[a][h] # "get"
    BY <1>1, <1>3, StaleAway DEF AgentInv
  <2>2. Unborn(a)' /\ InLoop(a)' /\ Late(a)' /\ Working(a)'
    BY <1>1, <1>2, <1>4, <1>5, <1>6 DEF AgentInv, Unborn, InLoop, HasNone, Late, Working
  <2>3. AwayFromQueue(a)'
    BY <1>1, <1>2, <1>4, <1>6, <2>1 DEF AgentInv, AwayFromQueue, NextToClose
  <2> QED
    BY <2>2, <2>3 DEF AgentInv
<1>10. ASSUME NEW b \in Agents, b # a PROVE AgentInv(b)'
  BY <1>2, <1>4, <1>6, <1>10, OthersKeep
<1> QED
  BY <1>7, <1>8, <1>9, <1>10 DEF IInv

LEMMA FinishTaskKeeps ==
  ASSUME IInv, NEW a \in Agents, NEW g \in Threads(a), NEW result \in {"completed", "failed"},
         FinishTask(a, g, result)
  PROVE  IInv'
<1> DEFINE to == IF IsCurrent(a, g) THEN "head" ELSE "dead"
<1>1. SubAgentsTypeOK /\ ClosingInv /\ AgentInv(a)
  BY DEF IInv
<1>2. UNCHANGED <<registered, stop, queue, closing, waiting, late>>
  BY DEF FinishTask
<1>3. to \in ThreadPoints /\ Moves(a, g, "work", to)
  BY DEF FinishTask, ThreadPoints
<1>4. /\ threads' \in [Agents -> Seq(ThreadPoints)]
      /\ \A b \in Agents : b # a => threads'[b] = threads[b]
      /\ Current(a)' = IF IsCurrent(a, g) THEN to ELSE Current(a)
      /\ threads[a] # <<>> /\ threads'[a] # <<>>
  BY <1>1, <1>3, ThreadMoves DEF Moves
<1>5. IsCurrent(a, g) => Current(a) = "work"
  BY <1>3, <1>4 DEF Moves, Current, IsCurrent
<1>6. /\ status'[a] = IF IsCurrent(a, g) THEN result ELSE status[a]
      /\ \A b \in Agents : b # a => UNCHANGED status[b]
      /\ status' \in [Agents -> AgentStatuses]
  BY <1>1 DEF FinishTask, SubAgentsTypeOK, AgentStatuses
<1>7. SubAgentsTypeOK'
  BY <1>1, <1>2, <1>4, <1>6 DEF SubAgentsTypeOK
<1>8. ClosingInv'
  BY <1>1, <1>2, ClosingKept
<1>9. AgentInv(a)'
  <2>1. \A h \in Threads(a)' : ~IsCurrent(a, h)' => threads'[a][h] # "get"
    BY <1>1, <1>3, StaleAway DEF AgentInv
  <2>2. Unborn(a)' /\ InLoop(a)' /\ Late(a)' /\ Working(a)'
    BY <1>1, <1>2, <1>4, <1>5, <1>6 DEF AgentInv, Unborn, InLoop, HasNone, Late, Working
  <2>3. AwayFromQueue(a)'
    BY <1>1, <1>2, <1>4, <1>6, <2>1 DEF AgentInv, AwayFromQueue, NextToClose
  <2> QED
    BY <2>2, <2>3 DEF AgentInv
<1>10. ASSUME NEW b \in Agents, b # a PROVE AgentInv(b)'
  BY <1>2, <1>4, <1>6, <1>10, OthersKeep
<1> QED
  BY <1>7, <1>8, <1>9, <1>10 DEF IInv

LEMMA ExitKeeps ==
  ASSUME IInv, NEW a \in Agents, NEW g \in Threads(a), Exit(a, g)
  PROVE  IInv'
<1>1. SubAgentsTypeOK /\ ClosingInv /\ AgentInv(a)
  BY DEF IInv
<1>2. UNCHANGED <<registered, stop, queue, closing, waiting, late>>
  BY DEF Exit
<1>3. "dead" \in ThreadPoints /\ Moves(a, g, "exit", "dead")
  BY DEF Exit, ThreadPoints
<1>4. /\ threads' \in [Agents -> Seq(ThreadPoints)]
      /\ \A b \in Agents : b # a => threads'[b] = threads[b]
      /\ Current(a)' = IF IsCurrent(a, g) THEN "dead" ELSE Current(a)
      /\ threads[a] # <<>> /\ threads'[a] # <<>>
  BY <1>1, <1>3, ThreadMoves DEF Moves
<1>5. IsCurrent(a, g) => Current(a) = "exit" /\ stop[a]
  <2>1. IsCurrent(a, g) => Current(a) = "exit"
    BY <1>3, <1>4 DEF Moves, Current, IsCurrent
  <2> QED
    BY <1>1, <2>1 DEF AgentInv, InLoop
<1>6. /\ status'[a] \in {status[a], "shutdown"}
      /\ ~IsCurrent(a, g) => status'[a] = status[a]
      /\ IsCurrent(a, g) /\ status'[a] # "shutdown" => status'[a] = "failed"
      /\ \A b \in Agents : b # a => UNCHANGED status[b]
      /\ status' \in [Agents -> AgentStatuses]
  BY <1>1 DEF Exit, SubAgentsTypeOK, AgentStatuses
<1>7. SubAgentsTypeOK'
  BY <1>1, <1>2, <1>4, <1>6 DEF SubAgentsTypeOK
<1>8. ClosingInv'
  BY <1>1, <1>2, ClosingKept
<1>9. AgentInv(a)'
  <2>1. \A h \in Threads(a)' : ~IsCurrent(a, h)' => threads'[a][h] # "get"
    BY <1>1, <1>3, StaleAway DEF AgentInv
  <2>2. Unborn(a)' /\ InLoop(a)' /\ Late(a)' /\ Working(a)'
    BY <1>1, <1>2, <1>4, <1>5, <1>6 DEF AgentInv, Unborn, InLoop, HasNone, Late, Working
  <2>3. AwayFromQueue(a)'
    BY <1>1, <1>2, <1>4, <1>5, <1>6, <2>1 DEF AgentInv, AwayFromQueue, NextToClose
  <2> QED
    BY <2>2, <2>3 DEF AgentInv
<1>10. ASSUME NEW b \in Agents, b # a PROVE AgentInv(b)'
  BY <1>2, <1>4, <1>6, <1>10, OthersKeep
<1> QED
  BY <1>7, <1>8, <1>9, <1>10 DEF IInv
-----------------------------------------------------------------------------
LEMMA StepHolds == IInv /\ [Next]_vars => IInv'
<1> SUFFICES ASSUME IInv, [Next]_vars PROVE IInv'
  OBVIOUS
<1>1. ASSUME NEW a \in Agents, SpawnAgent(a) PROVE IInv'
  BY <1>1, SpawnKeeps
<1>2. ASSUME NEW a \in Agents, SendInput(a) PROVE IInv'
  BY <1>2, SendKeeps
<1>3. ASSUME NEW a \in Agents, NEW inputs \in {<<>>, <<"input">>}, ResumeAgent(a, inputs)
      PROVE  IInv'
  BY <1>3, ResumeKeeps
<1>4. ASSUME NEW a \in Agents, CloseAgent(a) PROVE IInv'
  <2>1. {a} \in SUBSET registered /\ StartClosing("shutdown", {a})
    BY <1>4 DEF CloseAgent
  <2> QED
    BY <2>1, StartClosingKeeps
<1>5. ASSUME NEW a \in Agents, NEW g \in Threads(a), ThreadStep(a, g) PROVE IInv'
  BY <1>5, CheckStopKeeps, GetInputKeeps, FindEmptyKeeps, BeginTaskKeeps, FinishTaskKeeps, ExitKeeps
     DEF ThreadStep
<1>6. CASE Clear \/ Shutdown
  <2>1. registered \in SUBSET registered
    OBVIOUS
  <2> QED
    BY <1>6, <2>1, StartClosingKeeps DEF Clear, Shutdown
<1>7. CASE ClosingStep
  BY <1>7, SignalStopKeeps, JoinExpiresKeeps, EndClosingKeeps DEF ClosingStep
<1>8. ASSUME NEW targets \in SUBSET Agents \ {{}}, WaitForTargets(targets) PROVE IInv'
  BY <1>8, WaitKeeps DEF WaitForTargets
<1>9. CASE Poll \/ WaitExpires
  BY <1>9, WaitKeeps DEF Poll, WaitExpires, EndWait
<1>10. CASE UNCHANGED vars
  <2>1. waiting \subseteq Agents
    BY DEF IInv, SubAgentsTypeOK
  <2> QED
    BY <1>10, <2>1, WaitKeeps DEF vars
<1> QED
  BY <1>1, <1>2, <1>3, <1>4, <1>5, <1>6, <1>7, <1>8, <1>9, <1>10 DEF Next

LEMMA AlwaysHolds == Spec => []IInv
BY InitHolds, StepHolds, PTL DEF Spec

\* The state is well typed and the limit on agents is kept.
THEOREM SubAgentsTyped == Spec => []SubAgentsTypeOK
<1>1. IInv => SubAgentsTypeOK
  BY DEF IInv
<1> QED
  BY <1>1, AlwaysHolds, PTL

\* Every accepted input of an agent that is not closed has a thread that will
\* come to it.
THEOREM InputsHaveThreads == Spec => []AcceptedHasThread
<1>1. IInv => AcceptedHasThread
  <2> SUFFICES ASSUME IInv, NEW a \in Agents, HasInput(a), ~stop[a]
               PROVE  Current(a) \notin {"exit", "dead"}
    BY DEF AcceptedHasThread
  <2>1. AgentInv(a)
    BY DEF IInv
  <2>2. queue[a] # <<>>
    BY DEF HasInput
  <2> QED
    BY <2>1, <2>2 DEF AgentInv, InLoop
<1> QED
  BY <1>1, AlwaysHolds, PTL

\* No agent is left in the status of one that works.
THEOREM RunningAgentsWork == Spec => []RunningIsAtWork
<1>1. IInv => RunningIsAtWork
  BY DEF IInv, RunningIsAtWork, AgentInv, Working
<1> QED
  BY <1>1, AlwaysHolds, PTL

\* A closed agent begins at most one more input.
THEOREM OneLateInput == Spec => []AtMostOneLateInput
<1>1. IInv => AtMostOneLateInput
  BY DEF IInv, AtMostOneLateInput, AgentInv, Late
<1> QED
  BY <1>1, AlwaysHolds, PTL
-----------------------------------------------------------------------------
\* A step of a thread moves that thread and no other.
LEMMA OnlyItMoves ==
  ASSUME SubAgentsTypeOK, NEW b \in Agents, NEW h \in Threads(b), NEW from, NEW to,
         Moves(b, h, from, to),
         NEW a \in Agents, NEW g \in Threads(a), threads'[a][g] # threads[a][g]
  PROVE  a = b /\ g = h
<1>1. threads \in [Agents -> Seq(ThreadPoints)] /\ threads[b] \in Seq(ThreadPoints)
  BY DEF SubAgentsTypeOK
<1>2. threads' = [threads EXCEPT ![b] = [threads[b] EXCEPT ![h] = to]]
  BY DEF Moves
<1>3. a = b
  BY <1>1, <1>2
<1>4. \A i \in Threads(b) : i # h => threads'[b][i] = threads[b][i]
  BY <1>1, <1>2, ExceptSeq DEF Threads, Generation
<1> QED
  BY <1>3, <1>4

\* The thread of an older generation takes nothing from the queue and leaves
\* the status and the stop event alone.
THEOREM StaleThreadsHarmless == Spec => StaleThreadsInert
<1>1. ASSUME IInv, Next, NEW a \in Agents, NEW g \in Threads(a),
             ~IsCurrent(a, g), threads'[a][g] # threads[a][g]
      PROVE  UNCHANGED <<queue[a], status[a], stop[a]>>
  <2>1. SubAgentsTypeOK /\ AgentInv(a) /\ threads[a] # <<>>
    BY <1>1, PointsTyped DEF IInv
  <2>2. ASSUME NEW b \in Agents, SpawnAgent(b) PROVE FALSE
    <3>1. threads[b] = <<>> /\ threads' = [threads EXCEPT ![b] = <<"head">>]
      BY <1>1, <2>2 DEF SpawnAgent, IInv, AgentInv, Unborn
    <3> QED
      BY <1>1, <2>1, <3>1 DEF SubAgentsTypeOK
  <2>3. ASSUME NEW b \in Agents, NEW inputs, ResumeAgent(b, inputs) PROVE FALSE
    <3>1. threads' = [threads EXCEPT ![b] = Append(@, "head")]
      BY <2>3 DEF ResumeAgent
    <3>2. threads \in [Agents -> Seq(ThreadPoints)] /\ threads[b] \in Seq(ThreadPoints)
      BY <2>1 DEF SubAgentsTypeOK
    <3>3. a = b /\ threads'[a] = Append(threads[a], "head")
      BY <1>1, <3>1, <3>2
    <3>4. threads'[a][g] = threads[a][g]
      BY <3>2, <3>3, AppendProperties DEF Threads, Generation, ThreadPoints
    <3> QED
      BY <1>1, <3>4
  <2>4. ASSUME NEW b \in Agents, NEW h \in Threads(b), ThreadStep(b, h)
        PROVE  UNCHANGED <<queue[a], status[a], stop[a]>>
    <3>1. ASSUME NEW from, NEW to, Moves(b, h, from, to) PROVE a = b /\ g = h
      BY <1>1, <2>1, <3>1, OnlyItMoves
    <3>2. CASE CheckStop(b, h) \/ FindEmpty(b, h)
      BY <3>2 DEF CheckStop, FindEmpty
    <3>3. CASE GetInput(b, h)
      BY <1>1, <3>1, <3>3, AtQueueIsCurrent DEF GetInput, Moves
    <3>4. CASE BeginTask(b, h)
      BY <1>1, <3>1, <3>4 DEF BeginTask
    <3>5. ASSUME NEW result, FinishTask(b, h, result)
          PROVE  UNCHANGED <<queue[a], status[a], stop[a]>>
      BY <1>1, <3>1, <3>5 DEF FinishTask
    <3>6. CASE Exit(b, h)
      BY <1>1, <3>1, <3>6 DEF Exit
    <3> QED
      BY <2>4, <3>2, <3>3, <3>4, <3>5, <3>6 DEF ThreadStep
  <2>5. \/ \E b \in Agents : SpawnAgent(b)
        \/ \E b \in Agents : \E inputs \in {<<>>, <<"input">>} : ResumeAgent(b, inputs)
        \/ \E b \in Agents : \E h \in Threads(b) : ThreadStep(b, h)
        \/ UNCHANGED threads
    <3>1. ASSUME NEW b \in Agents, SendInput(b) \/ CloseAgent(b) PROVE UNCHANGED threads
      BY <3>1 DEF SendInput, CloseAgent, StartClosing, agentVars
    <3>2. CASE Clear \/ Shutdown
      BY <3>2 DEF Clear, Shutdown, StartClosing, agentVars
    <3>3. CASE ClosingStep
      BY <3>3 DEF ClosingStep, EndClosing, SignalStop, JoinExpires
    <3>4. ASSUME NEW targets, WaitForTargets(targets) PROVE UNCHANGED threads
      BY <3>4 DEF WaitForTargets, agentVars
    <3>5. CASE Poll \/ WaitExpires
      BY <3>5 DEF Poll, WaitExpires, EndWait, agentVars
    <3> QED
      BY <1>1, <3>1, <3>2, <3>3, <3>4, <3>5 DEF Next
  <2> QED
    BY <1>1, <2>2, <2>3, <2>4, <2>5
<1>2. IInv /\ [Next]_vars =>
        [\A a \in Agents : \A g \in Threads(a) :
           ~IsCurrent(a, g) /\ threads'[a][g] # threads[a][g] =>
             UNCHANGED <<queue[a], status[a], stop[a]>>]_vars
  BY <1>1
<1> QED
  BY <1>2, AlwaysHolds, PTL DEF Spec, StaleThreadsInert
=============================================================================
