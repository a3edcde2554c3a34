------------------------- MODULE SessionRuntimeProofs -------------------------
(***************************************************************************)
(* Theorems about the session runtime, for every approval policy, number   *)
(* of turns, kind and number of exceptions, and every loop below it.       *)
(***************************************************************************)
EXTENDS SessionRuntime, AgentLoopProofs

\* A queue holds nothing or one entry.
LEMMA OneEntry ==
  ASSUME NEW x
  PROVE  /\ Append(<<>>, x) = <<x>>
         /\ Head(<<x>>) = x
         /\ Tail(<<x>>) = <<>>
         /\ <<x>> # <<>>
         /\ <<x>>[1] = x
OBVIOUS
-----------------------------------------------------------------------------
(* The queue, the iterator and the surface.                                 *)

Entries == [op : Operations, id : 1 .. MaxTurns, policy : Policies, mode : Modes]

\* The submission that waits.
Waiting == queue[1]

\* At most one submission waits: the next turn, or the answer to the turn that
\* ran last, and only when no iterator runs or it is about to end.
QueueInv ==
  /\ queue = <<>> \/ \E q \in Entries : queue = <<q>>
  /\ queue # <<>> => /\ ui = "drain" /\ out = "none"
                     /\ driver \in {"none", "last", "dead"}
                     /\ Waiting.op # "turn" =>
                          /\ sub \in Entries /\ Waiting.id = sub.id
                          /\ Waiting.policy = sub.policy /\ Waiting.mode = sub.mode
  /\ IF queue # <<>> /\ Waiting.op = "turn"
       THEN turns = sub.id + 1 /\ Waiting.id = turns
       ELSE turns = sub.id

\* Where the iterator is, by what the surface does.
IterInv ==
  /\ sub = NoSubmission \/ sub \in Entries
  /\ turns \in Nat /\ turns <= MaxTurns
  /\ current \in {0, sub.id}
  /\ driver \in Drivers
  /\ driver # "none" => current # 0
  /\ out # "none" => ui = "drain" /\ driver # "none"
  /\ out = "approval_requested" => driver = "last"
  /\ ui \in {"prompt", "drain", "error", "exited"}
  /\ ui = "prompt" => driver \in {"none", "dead"}
  /\ ui \in {"error", "exited"} => driver = "dead"

SurfaceInv == QueueInv /\ IterInv

LEMMA EntryTyped ==
  ASSUME NEW q \in Entries
  PROVE  /\ q.op \in Operations /\ q.id \in 1 .. MaxTurns
         /\ q.policy \in Policies /\ q.mode \in Modes
BY DEF Entries

LEMMA WithinTurnIsEntry ==
  ASSUME sub \in Entries, NEW op \in Operations
  PROVE  /\ WithinTurn(op, sub.id) \in Entries
         /\ WithinTurn(op, sub.id) = [sub EXCEPT !.op = op]
         /\ WithinTurn(op, sub.id).op = op
         /\ WithinTurn(op, sub.id).id = sub.id
         /\ WithinTurn(op, sub.id).policy = sub.policy
         /\ WithinTurn(op, sub.id).mode = sub.mode
BY DEF WithinTurn, Entries

LEMMA SurfaceInit == RuntimeInit => SurfaceInv
BY RuntimeAssumption DEF RuntimeInit, SurfaceInv, QueueInv, IterInv, NoSubmission, Drivers

LEMMA SurfaceStep ==
  ASSUME SurfaceInv, [Next]_vars
  PROVE  SurfaceInv'
<1> USE DEF Draining, Emit, Drivers, SurfaceInv, QueueInv, IterInv, Waiting
<1>a. sub # NoSubmission => sub.id \in 1 .. MaxTurns
  BY EntryTyped
<1>b. NoSubmission.id = 0
  BY DEF NoSubmission
<1>1. CASE RenderEvent
  BY <1>1 DEF RenderEvent, iterVars, surfaceVars
<1>2. CASE EndDrain
  BY <1>2 DEF EndDrain, iterVars
<1>3. CASE HandleError
  BY <1>3 DEF HandleError, iterVars
<1>5. CASE PopSubmission
  <2>1. PICK q \in Entries : queue = <<q>>
    BY <1>5 DEF PopSubmission
  <2>2. sub' = q /\ queue' = <<>> /\ current' = q.id /\ driver' = "ready" /\ queue[1] = q
    BY <1>5, <2>1, OneEntry DEF PopSubmission
  <2>3. q.id \in 1 .. MaxTurns
    BY EntryTyped
  <2>4. turns = q.id
    BY <1>5, <2>1, <2>2, <2>3 DEF PopSubmission
  <2> QED
    BY <1>5, <2>1, <2>2, <2>3, <2>4 DEF PopSubmission, surfaceVars
<1>6. CASE EndIterator
  BY <1>6 DEF EndIterator, surfaceVars
<1>7. CASE BeginTurn
  BY <1>7 DEF BeginTurn, surfaceVars
<1>8. CASE \E usable \in BOOLEAN : RefuseTurn(usable)
  BY <1>8 DEF RefuseTurn, surfaceVars
<1>9. CASE \E fresh \in BOOLEAN : Dispatch(fresh)
  BY <1>9 DEF Dispatch, surfaceVars
<1>10. CASE StartChat
  BY <1>10 DEF StartChat, surfaceVars
<1>11. CASE \E route \in Routes, toolsSupported \in BOOLEAN : TriageReturns(route, toolsSupported)
  BY <1>11 DEF TriageReturns
<1>12. CASE StartDrain
  BY <1>12 DEF StartDrain, surfaceVars
<1>13. CASE \E done \in BOOLEAN : RelayChunk(done)
  BY <1>13 DEF RelayChunk, surfaceVars
<1>14. CASE \E answered \in BOOLEAN : EndStream(answered)
  BY <1>14 DEF EndStream, surfaceVars
<1>15. CASE StartEvents
  BY <1>15 DEF StartEvents, surfaceVars
<1>16. CASE LoopAdvances
  BY <1>16 DEF LoopAdvances, runtimeVars, iterVars, surfaceVars
<1>17. CASE RelayEvent
  BY <1>17 DEF RelayEvent, surfaceVars
<1>18. CASE NextEvent
  BY <1>18 DEF NextEvent, surfaceVars
<1>19. CASE ResumeByPolicy
  BY <1>19 DEF ResumeByPolicy, surfaceVars
<1>20. CASE ApplyPolicy
  BY <1>20 DEF ApplyPolicy, runtimeVars, iterVars, surfaceVars
<1>21. CASE PauseForApproval
  BY <1>21 DEF PauseForApproval, surfaceVars
<1>22. CASE EndTurn
  BY <1>22 DEF EndTurn, TurnEnd, surfaceVars
<1>23. CASE ResumeDecision
  BY <1>23 DEF ResumeDecision, surfaceVars
<1>24. CASE HandleInterrupt
  BY <1>24 DEF HandleInterrupt, surfaceVars
<1>25. CASE AnswersPrompt
  <2>1. PICK op \in Decisions \union {"interrupt"} : AnswerPrompt(op)
    BY <1>25 DEF AnswersPrompt
  <2>2. op \in Operations /\ op # "turn"
    BY DEF Operations, Decisions
  <2>3. queue = <<>> /\ driver = "last" /\ current = sub.id /\ sub \in Entries
    BY <2>1, <1>b DEF AnswerPrompt
  <2>4. queue' = <<WithinTurn(op, sub.id)>>
    BY <2>1, <2>3, OneEntry DEF AnswerPrompt
  <2>5. queue'[1] = WithinTurn(op, sub.id) /\ queue' # <<>>
    BY <2>4, OneEntry
  <2> QED
    BY <2>1, <2>2, <2>3, <2>4, <2>5, WithinTurnIsEntry DEF AnswerPrompt, iterVars
<1>26. CASE \E policy \in Policies, mode \in Modes : SubmitTurn(policy, mode)
  <2>1. PICK policy \in Policies, mode \in Modes : SubmitTurn(policy, mode)
    BY <1>26
  <2> DEFINE q == [op |-> "turn", id |-> turns + 1, policy |-> policy, mode |-> mode]
  <2>2. queue = <<>> /\ driver \in {"none", "dead"} /\ out = "none" /\ turns < MaxTurns
    BY <2>1 DEF SubmitTurn
  <2>3. q \in Entries /\ q.op = "turn" /\ q.id = turns + 1
    BY <2>2, RuntimeAssumption DEF Entries, Operations
  <2>4. queue' = <<q>>
    BY <2>1, <2>2, OneEntry DEF SubmitTurn
  <2> HIDE DEF q
  <2>5. queue'[1] = q /\ queue' # <<>>
    BY <2>4, OneEntry
  <2>6. turns' = turns + 1 /\ turns' <= MaxTurns
    BY <2>1, <2>2, RuntimeAssumption DEF SubmitTurn
  <2> QED
    BY <2>1, <2>2, <2>3, <2>4, <2>5, <2>6 DEF SubmitTurn, iterVars
<1>27. CASE \E kind \in BreakKinds : AwaitBreaks(kind)
  BY <1>27, RuntimeAssumption DEF AwaitBreaks
<1>28. CASE UNCHANGED vars
  BY <1>28 DEF vars, runtimeVars, iterVars, surfaceVars
<1> QED
  BY <1>1, <1>2, <1>3, <1>5, <1>6, <1>7, <1>8, <1>9, <1>10, <1>11, <1>12, <1>13, <1>14,
     <1>15, <1>16, <1>17, <1>18, <1>19, <1>20, <1>21, <1>22, <1>23, <1>24, <1>25, <1>26, <1>27,
     <1>28 DEF Next, SystemNext
-----------------------------------------------------------------------------
(* The event log.                                                           *)

Records == [type : {"turn_started"} \union TurnEnds, id : 1 .. MaxTurns]

EndsIn(l, t) == {i \in DOMAIN l : l[i].id = t /\ l[i].type # "turn_started"}
StartedIn(l, t) == \E i \in DOMAIN l : l[i] = [type |-> "turn_started", id |-> t]

\* The turn was taken from the queue and its start is not yet in the log.
NotBegun == driver = "ready" /\ sub.op = "turn"

\* The user is asked to approve a call, or has decided and is not yet heard.
Asking ==
  \/ out = "approval_requested"
  \/ queue # <<>> /\ Waiting.op \in Decisions
  \/ driver = "ready" /\ sub.op \in Decisions

\* Every turn that was begun has its start in the log, and the turn that runs
\* has no end there.
LogInv ==
  /\ log \in Seq(Records)
  /\ pending \in 0 .. sub.id
  /\ \A i \in DOMAIN log : log[i].id <= sub.id
  /\ NotBegun => pending # sub.id /\ \A i \in DOMAIN log : log[i].id # sub.id
  /\ \A u \in 1 .. sub.id : StartedIn(log, u) \/ (u = sub.id /\ NotBegun)
  /\ driver \in {"turn", "triage", "routed", "agent", "relay", "resume", "stream"}
       => EndsIn(log, sub.id) = {}
  /\ Asking => EndsIn(log, sub.id) = {}
  /\ driver = "ready" => EndsIn(log, sub.id) = {}
  /\ queue # <<>> /\ Waiting.op # "turn" => EndsIn(log, sub.id) = {}

\* What an event that is logged adds.
LEMMA LogGrows ==
  ASSUME NEW l \in Seq(Records), NEW r \in Records
  PROVE  /\ Append(l, r) \in Seq(Records)
         /\ Len(l) \in Nat
         /\ DOMAIN Append(l, r) = DOMAIN l \union {Len(l) + 1}
         /\ Append(l, r)[Len(l) + 1] = r
         /\ \A i \in DOMAIN l : Append(l, r)[i] = l[i]
         /\ Len(l) + 1 \notin DOMAIN l
<1>1. Append(l, r) \in Seq(Records) /\ Len(Append(l, r)) = Len(l) + 1
  BY AppendProperties
<1>2. /\ \A i \in 1 .. Len(l) : Append(l, r)[i] = l[i]
      /\ Append(l, r)[Len(l) + 1] = r
  BY AppendProperties
<1>3. Len(l) \in Nat /\ DOMAIN l = 1 .. Len(l)
  BY LenProperties
<1>4. DOMAIN Append(l, r) = 1 .. Len(l) + 1
  BY <1>1, LenProperties
<1> QED
  BY <1>1, <1>2, <1>3, <1>4

LEMMA LogGrowsBy ==
  ASSUME NEW l \in Seq(Records), NEW r \in Records, NEW t
  PROVE  /\ EndsIn(Append(l, r), t) =
              IF r.id = t /\ r.type # "turn_started"
                THEN EndsIn(l, t) \union {Len(l) + 1} ELSE EndsIn(l, t)
         /\ StartedIn(l, t) => StartedIn(Append(l, r), t)
         /\ StartedIn(Append(l, r), t) =>
              StartedIn(l, t) \/ r = [type |-> "turn_started", id |-> t]
         /\ r = [type |-> "turn_started", id |-> t] => StartedIn(Append(l, r), t)
<1> DEFINE m == Append(l, r)
<1>1. /\ DOMAIN m = DOMAIN l \union {Len(l) + 1}
      /\ m[Len(l) + 1] = r
      /\ \A i \in DOMAIN l : m[i] = l[i]
      /\ Len(l) + 1 \notin DOMAIN l
  BY LogGrows
<1> HIDE DEF m
<1>2. EndsIn(m, t) =
        IF r.id = t /\ r.type # "turn_started"
          THEN EndsIn(l, t) \union {Len(l) + 1} ELSE EndsIn(l, t)
  BY <1>1 DEF EndsIn
<1>3. /\ StartedIn(l, t) => StartedIn(m, t)
      /\ StartedIn(m, t) => StartedIn(l, t) \/ r = [type |-> "turn_started", id |-> t]
      /\ r = [type |-> "turn_started", id |-> t] => StartedIn(m, t)
  BY <1>1 DEF StartedIn
<1> QED
  BY <1>2, <1>3 DEF m

LEMMA NothingLogged ==
  ASSUME NEW l, NEW t, \A i \in DOMAIN l : l[i].id # t
  PROVE  EndsIn(l, t) = {} /\ ~StartedIn(l, t)
BY DEF EndsIn, StartedIn

LEMMA LogInit == RuntimeInit => LogInv
<1> SUFFICES ASSUME RuntimeInit PROVE LogInv
  OBVIOUS
<1>1. log = <<>> /\ sub.id = 0 /\ pending = 0 /\ driver = "none" /\ out = "none" /\ queue = <<>>
  BY DEF RuntimeInit, NoSubmission
<1>2. log \in Seq(Records) /\ DOMAIN log = {}
  BY <1>1
<1> QED
  BY <1>1, <1>2 DEF LogInv, NotBegun, Asking

\* What a step that logs nothing has to preserve.
LEMMA LogUnchanged ==
  ASSUME LogInv, SurfaceInv, log' = log, sub' = sub, pending' \in 0 .. sub.id,
         NotBegun => NotBegun',
         NotBegun' => NotBegun /\ pending' # sub.id,
         driver' \in {"turn", "triage", "routed", "agent", "relay", "resume", "stream"}
           => EndsIn(log, sub.id) = {},
         Asking' => EndsIn(log, sub.id) = {},
         driver' = "ready" => EndsIn(log, sub.id) = {},
         queue' # <<>> /\ Waiting'.op # "turn" => EndsIn(log, sub.id) = {}
  PROVE  LogInv'
BY DEF LogInv

LEMMA LogStep ==
  ASSUME SurfaceInv, LogInv, [Next]_vars
  PROVE  LogInv'
<1> USE DEF Draining
<1>a. sub # NoSubmission => sub.id \in 1 .. MaxTurns
  BY EntryTyped DEF SurfaceInv, IterInv
<1>b. NoSubmission.id = 0
  BY DEF NoSubmission
<1>c. sub.id \in Nat
  BY <1>a, <1>b
<1> USE DEF SurfaceInv, QueueInv, IterInv
\* An event that is logged for the submission that runs.
<1>d. ASSUME NEW type \in {"turn_started"} \union TurnEnds, NEW next,
             Emit(type, next), driver # "none"
      PROVE  [type |-> type, id |-> sub.id] \in Records /\ log' = Append(log, [type |-> type, id |-> sub.id])
  BY <1>d, <1>a, <1>b DEF Emit, Records
<1>e. ASSUME NEW type \in TurnEnds, NEW next \in {"tail", "last"}, Emit(type, next),
             driver \notin {"none", "last", "dead"}, ~NotBegun,
             pending' \in 0 .. sub.id, sub' = sub, queue' = queue
      PROVE  LogInv'
  <2> DEFINE r == [type |-> type, id |-> sub.id]
  <2>1. r \in Records /\ log' = Append(log, r) /\ r.id = sub.id /\ r.type = type
    BY <1>e, <1>d
  <2>2. out' = type /\ driver' = next /\ type # "approval_requested" /\ type # "turn_started"
    BY <1>e DEF Emit, TurnEnds
  <2>3. queue = <<>> /\ queue' = <<>>
    BY <1>e
  <2>4. log' \in Seq(Records) /\ \A i \in DOMAIN log' : log'[i].id <= sub.id
    BY <2>1, <1>c, LogGrows DEF LogInv
  <2>5. \A u : StartedIn(log, u) => StartedIn(log', u)
    BY <2>1, LogGrowsBy DEF LogInv
  <2> HIDE DEF r
  <2> QED
    BY <1>e, <2>2, <2>3, <2>4, <2>5 DEF LogInv, NotBegun, Asking
<1>1. CASE RenderEvent
  BY <1>1, LogUnchanged DEF RenderEvent, iterVars, surfaceVars, LogInv, NotBegun, Asking, Waiting
<1>2. CASE EndDrain
  BY <1>2, LogUnchanged DEF EndDrain, iterVars, LogInv, NotBegun, Asking, Waiting
<1>3. CASE HandleError
  BY <1>3, LogUnchanged DEF HandleError, iterVars, LogInv, NotBegun, Asking, Waiting
<1>5. CASE PopSubmission
  <2>1. PICK q \in Entries : queue = <<q>>
    BY <1>5 DEF PopSubmission
  <2>2. sub' = q /\ queue' = <<>> /\ driver' = "ready" /\ queue[1] = q /\ log' = log /\ pending' = pending
    BY <1>5, <2>1, OneEntry DEF PopSubmission
  <2>3. q.id \in 1 .. MaxTurns /\ q.op \in Operations /\ out' = "none" /\ driver = "none" /\ queue # <<>>
    BY <1>5, EntryTyped DEF PopSubmission
  <2>4. CASE q.op = "turn"
    <3>0. \A i \in DOMAIN log : log[i] \in Records
      BY ElementOfSeq, LenProperties DEF LogInv
    <3>1. q.id = sub.id + 1 /\ \A i \in DOMAIN log : log[i].id \in Nat
      BY <2>2, <2>3, <2>4, <3>0 DEF Waiting, Records
    <3>2. \A i \in DOMAIN log : log[i].id <= q.id /\ log[i].id # q.id
      BY <3>1, <1>c DEF LogInv
    <3>3. pending \in 0 .. q.id /\ pending # q.id
      BY <3>1, <1>c DEF LogInv
    <3>4. \A u \in 1 .. q.id : StartedIn(log, u) \/ u = q.id
      BY <3>1, <1>c, <2>3 DEF LogInv, NotBegun
    <3> HIDE DEF SurfaceInv, QueueInv, IterInv
    <3>5. EndsIn(log, q.id) = {}
      BY <3>2, NothingLogged
    <3> QED
      BY <2>2, <2>3, <2>4, <3>2, <3>3, <3>4, <3>5 DEF LogInv, NotBegun, Asking, Decisions
  <2>5. CASE q.op # "turn"
    <3>1. q.id = sub.id
      BY <2>2, <2>3, <2>5 DEF Waiting
    <3> QED
      BY <2>2, <2>3, <2>5, <3>1 DEF LogInv, NotBegun, Asking, Waiting
  <2> QED
    BY <2>4, <2>5
<1>6. CASE EndIterator
  BY <1>6, LogUnchanged DEF EndIterator, surfaceVars, LogInv, NotBegun, Asking, Waiting
<1>7. CASE BeginTurn
  <2> DEFINE r == [type |-> "turn_started", id |-> sub.id]
  <2>1. r \in Records /\ log' = Append(log, r) /\ r.id = sub.id /\ r.type = "turn_started"
    BY <1>7, <1>d DEF BeginTurn
  <2>2. /\ sub' = sub /\ pending' = pending /\ queue' = queue /\ driver' = "turn"
        /\ out' = "turn_started" /\ NotBegun /\ queue = <<>>
    BY <1>7 DEF BeginTurn, Emit, NotBegun
  <2>3. log' \in Seq(Records) /\ \A i \in DOMAIN log' : log'[i].id <= sub.id
    BY <2>1, <1>c, LogGrows DEF LogInv
  <2>4. \A u : StartedIn(log, u) => StartedIn(log', u)
    BY <2>1, LogGrowsBy DEF LogInv
  <2>5. StartedIn(log', sub.id)
    BY <2>1, LogGrowsBy DEF LogInv
  <2>6. EndsIn(log', sub.id) = {}
    BY <2>1, <2>2, LogGrowsBy, NothingLogged DEF LogInv
  <2> HIDE DEF r
  <2> QED
    BY <2>2, <2>3, <2>4, <2>5, <2>6 DEF LogInv, NotBegun, Asking
<1>8. CASE \E usable \in BOOLEAN : RefuseTurn(usable)
  BY <1>8, <1>e DEF RefuseTurn, surfaceVars, LogInv, NotBegun, TurnEnds
<1>9. CASE \E fresh \in BOOLEAN : Dispatch(fresh)
  BY <1>9, LogUnchanged DEF Dispatch, surfaceVars, LogInv, NotBegun, Asking, Waiting
<1>10. CASE StartChat
  BY <1>10, LogUnchanged DEF StartChat, surfaceVars, LogInv, NotBegun, Asking, Waiting
<1>11. CASE \E route \in Routes, toolsSupported \in BOOLEAN : TriageReturns(route, toolsSupported)
  BY <1>11, LogUnchanged DEF TriageReturns, Emit, TurnEnds, LogInv, NotBegun, Asking, Waiting
<1>12. CASE StartDrain
  BY <1>12, LogUnchanged DEF StartDrain, surfaceVars, LogInv, NotBegun, Asking, Waiting
<1>13. CASE \E done \in BOOLEAN : RelayChunk(done)
  <2>1. CASE RelayChunk(TRUE)
    BY <2>1, <1>e DEF RelayChunk, LogInv, NotBegun, TurnEnds
  <2>2. CASE RelayChunk(FALSE)
    BY <2>2, LogUnchanged DEF RelayChunk, Emit, TurnEnds, surfaceVars, LogInv, NotBegun, Asking, Waiting
  <2> QED
    BY <1>13, <2>1, <2>2
<1>14. CASE \E answered \in BOOLEAN : EndStream(answered)
  <2>1. CASE driver = "stream"
    BY <1>14, <2>1, <1>e DEF EndStream, LogInv, NotBegun, TurnEnds
  <2>2. CASE driver = "tail"
    BY <1>14, <2>2, LogUnchanged DEF EndStream, Emit, TurnEnds, surfaceVars, LogInv, NotBegun, Asking, Waiting
  <2> QED
    BY <1>14, <2>1, <2>2 DEF EndStream
<1>15. CASE StartEvents
  BY <1>15, LogUnchanged DEF StartEvents, Emit, TurnEnds, surfaceVars, LogInv, NotBegun, Asking, Waiting
<1>16. CASE LoopAdvances
  BY <1>16, LogUnchanged DEF LoopAdvances, runtimeVars, iterVars, surfaceVars, LogInv, NotBegun, Asking, Waiting
<1>17. CASE RelayEvent
  BY <1>17, LogUnchanged, <1>c DEF RelayEvent, Emit, TurnEnds, surfaceVars, LogInv, NotBegun, Asking, Waiting
<1>18. CASE NextEvent
  BY <1>18, LogUnchanged DEF NextEvent, surfaceVars, LogInv, NotBegun, Asking, Waiting
<1>19. CASE ResumeByPolicy
  BY <1>19, LogUnchanged, <1>c DEF ResumeByPolicy, surfaceVars, LogInv, NotBegun, Asking, Waiting
<1>20. CASE ApplyPolicy
  BY <1>20, LogUnchanged DEF ApplyPolicy, runtimeVars, iterVars, surfaceVars, LogInv, NotBegun, Asking, Waiting
<1>21. CASE PauseForApproval
  BY <1>21, LogUnchanged, <1>c DEF PauseForApproval, Emit, TurnEnds, surfaceVars, LogInv, NotBegun, Asking, Waiting
<1>22. CASE EndTurn
  <2>1. TurnEnd(event.type) \in TurnEnds
    BY DEF TurnEnd, TurnEnds
  <2> QED
    BY <1>22, <2>1, <1>e DEF EndTurn, LogInv, NotBegun
<1>23. CASE ResumeDecision
  BY <1>23, LogUnchanged, <1>c DEF ResumeDecision, Emit, TurnEnds, surfaceVars, LogInv, NotBegun, Asking, Waiting, Decisions
<1>24. CASE HandleInterrupt
  BY <1>24, <1>e, <1>c DEF HandleInterrupt, LogInv, NotBegun, TurnEnds
<1>25. CASE AnswersPrompt
  <2>1. PICK op \in Decisions \union {"interrupt"} : AnswerPrompt(op)
    BY <1>25 DEF AnswersPrompt
  <2>2. driver = "last" /\ current = sub.id /\ Asking
    BY <2>1, <1>b DEF AnswerPrompt, Asking
  <2> QED
    BY <2>1, <2>2, LogUnchanged DEF AnswerPrompt, iterVars, LogInv, NotBegun
<1>26. CASE \E policy \in Policies, mode \in Modes : SubmitTurn(policy, mode)
  <2>1. PICK policy \in Policies, mode \in Modes : SubmitTurn(policy, mode)
    BY <1>26
  <2> DEFINE q == [op |-> "turn", id |-> turns + 1, policy |-> policy, mode |-> mode]
  <2>2. queue = <<>> /\ driver \in {"none", "dead"} /\ out = "none"
    BY <2>1 DEF SubmitTurn
  <2>3. queue' = <<q>> /\ q.op = "turn"
    BY <2>1, <2>2, OneEntry DEF SubmitTurn
  <2> HIDE DEF q
  <2>4. queue'[1].op = "turn"
    BY <2>3, OneEntry
  <2> QED
    BY <2>1, <2>2, <2>4, LogUnchanged DEF SubmitTurn, iterVars, LogInv, NotBegun, Asking, Waiting, Decisions
<1>27. CASE \E kind \in BreakKinds : AwaitBreaks(kind)
  BY <1>27, LogUnchanged DEF AwaitBreaks, LogInv, NotBegun, Asking, Waiting
<1>28. CASE UNCHANGED vars
  BY <1>28, LogUnchanged DEF vars, runtimeVars, iterVars, surfaceVars, LogInv, NotBegun, Asking, Waiting
<1> QED
  BY <1>1, <1>2, <1>3, <1>5, <1>6, <1>7, <1>8, <1>9, <1>10, <1>11, <1>12, <1>13, <1>14,
     <1>15, <1>16, <1>17, <1>18, <1>19, <1>20, <1>21, <1>22, <1>23, <1>24, <1>25, <1>26, <1>27,
     <1>28 DEF Next, SystemNext
-----------------------------------------------------------------------------
(* The runtime implements the life cycle of turns.                          *)

LEMMA EndsAreLogged == \A t : LoggedEnds(t) = EndsIn(log, t) /\ (LoggedStart(t) <=> StartedIn(log, t))
BY DEF LoggedEnds, LoggedStart, EndsIn, StartedIn

\* What the invariants say of the state of each turn: the turns before the one
\* that ran last are settled, the one that waits is queued.
TurnsRead ==
  \A t \in TurnIds :
    /\ t > turns => TurnStatus(t) = "new"
    /\ t > sub.id /\ t <= turns => TurnStatus(t) = "queued"
    /\ t < sub.id => TurnStatus(t) = IF EndsIn(log, t) # {} THEN "ended" ELSE "abandoned"
    /\ t = sub.id =>
         TurnStatus(t) =
           IF EndsIn(log, t) # {} THEN "ended"
           ELSE IF NotBegun THEN "queued"
           ELSE IF ~Held(t) THEN "abandoned"
           ELSE IF pending = t THEN "paused" ELSE "running"
    /\ t > sub.id => EndsIn(log, t) = {}
    /\ t = sub.id /\ driver # "none" => Held(t)

LEMMA TurnsReadOff == SurfaceInv /\ LogInv => TurnsRead
<1> SUFFICES ASSUME SurfaceInv, LogInv, NEW t \in TurnIds
             PROVE  /\ t > turns => TurnStatus(t) = "new"
                    /\ t > sub.id /\ t <= turns => TurnStatus(t) = "queued"
                    /\ t < sub.id => TurnStatus(t) = IF EndsIn(log, t) # {} THEN "ended" ELSE "abandoned"
                    /\ t = sub.id =>
                         TurnStatus(t) =
                           IF EndsIn(log, t) # {} THEN "ended"
                           ELSE IF NotBegun THEN "queued"
                           ELSE IF ~Held(t) THEN "abandoned"
                           ELSE IF pending = t THEN "paused" ELSE "running"
                    /\ t > sub.id => EndsIn(log, t) = {}
                    /\ t = sub.id /\ driver # "none" => Held(t)
  BY DEF TurnsRead
<1>1. sub.id \in Nat /\ turns \in Nat /\ t \in Nat /\ t >= 1 /\ turns >= sub.id
  <2>1. sub.id \in Nat
    BY EntryTyped DEF SurfaceInv, IterInv, NoSubmission
  <2> QED
    BY <2>1 DEF SurfaceInv, IterInv, QueueInv, TurnIds
<1>2. LoggedEnds(t) = EndsIn(log, t) /\ (LoggedStart(t) <=> StartedIn(log, t))
  BY EndsAreLogged
<1>3. t > sub.id => EndsIn(log, t) = {} /\ ~StartedIn(log, t)
  <2> SUFFICES ASSUME t > sub.id PROVE EndsIn(log, t) = {} /\ ~StartedIn(log, t)
    OBVIOUS
  <2>1. \A i \in DOMAIN log : log[i] \in Records
    BY ElementOfSeq, LenProperties DEF LogInv
  <2>2. \A i \in DOMAIN log : log[i].id # t
    BY <2>1, <1>1 DEF LogInv, Records
  <2> QED
    BY <2>2, NothingLogged
<1>4. t < sub.id => StartedIn(log, t) /\ ~Held(t)
  <2> SUFFICES ASSUME t < sub.id PROVE StartedIn(log, t) /\ ~Held(t)
    OBVIOUS
  <2>1. StartedIn(log, t) /\ current # t
    BY <1>1 DEF LogInv, SurfaceInv, IterInv
  <2>2. \A i \in DOMAIN queue : queue[i].id # t
    <3>1. CASE queue = <<>>
      BY <3>1
    <3>2. ASSUME NEW q \in Entries, queue = <<q>> PROVE \A i \in DOMAIN queue : queue[i].id # t
      <4>1. DOMAIN queue = {1} /\ queue[1] = q /\ queue # <<>>
        BY <3>2
      <4>2. queue[1].id >= sub.id
        BY <4>1, <1>1 DEF SurfaceInv, QueueInv, Waiting
      <4> QED
        BY <4>1, <4>2, <1>1
    <3> QED
      BY <3>1, <3>2 DEF SurfaceInv, QueueInv
  <2> QED
    BY <2>1, <2>2 DEF Held
<1>5. t = sub.id /\ ~NotBegun => StartedIn(log, t)
  BY <1>1 DEF LogInv
<1>6. t = sub.id /\ NotBegun => ~StartedIn(log, t)
  BY NothingLogged DEF LogInv
<1>7. t = sub.id /\ driver # "none" => Held(t)
  BY DEF Held, SurfaceInv, IterInv
<1> QED
  BY <1>1, <1>2, <1>3, <1>4, <1>5, <1>6, <1>7 DEF TurnStatus

LEMMA TurnsReadOffNext == (SurfaceInv /\ LogInv)' => TurnsRead'
BY TurnsReadOff, PTL

\* A step that changes the state of one turn and reports nothing.
LEMMA OneTurnMoves ==
  ASSUME NEW s \in TurnIds,
         \A t \in TurnIds : t # s => TurnStatus(t)' = TurnStatus(t),
         \A t \in TurnIds : LoggedEnds(t)' = LoggedEnds(t),
         \/ TurnStatus(s)' = TurnStatus(s)
         \/ /\ TurnStatus(s) = "new" /\ TurnStatus(s)' = "queued"
            /\ \A u \in TurnIds : u < s => TurnStatus(u) # "new"
         \/ /\ TurnStatus(s) = "queued" /\ TurnStatus(s)' = "running"
            /\ \A u \in TurnIds : u < s => TurnStatus(u) \in {"ended", "abandoned"}
         \/ TurnStatus(s) = "running" /\ TurnStatus(s)' = "paused"
         \/ TurnStatus(s) = "paused" /\ TurnStatus(s)' = "running"
         \/ TurnStatus(s) \in {"running", "paused"} /\ TurnStatus(s)' = "abandoned"
  PROVE  [Lifecycle!LifecycleNext]_(Lifecycle!lifecycleVars)
<1> DEFINE status == [t \in TurnIds |-> TurnStatus(t)]
           reports == [t \in TurnIds |-> Cardinality(LoggedEnds(t))]
<1>1. reports' = reports
  OBVIOUS
<1>2. status' = [status EXCEPT ![s] = TurnStatus(s)']
  OBVIOUS
<1>3. \A t \in TurnIds : status[t] = TurnStatus(t)
  OBVIOUS
<1>4. TurnStatus(s)' = TurnStatus(s) => status' = status
  OBVIOUS
<1> HIDE DEF status, reports
<1> QED
  BY <1>1, <1>2, <1>3, <1>4
     DEF status, reports, Lifecycle!LifecycleNext, Lifecycle!lifecycleVars, Lifecycle!Submit,
         Lifecycle!Start, Lifecycle!Pause, Lifecycle!Resume, Lifecycle!Abandon, Lifecycle!Moves,
         Lifecycle!Settled

\* A step that leaves the settled and the waiting turns alone.
SubStatus ==
  IF EndsIn(log, sub.id) # {} THEN "ended"
  ELSE IF NotBegun THEN "queued"
  ELSE IF ~Held(sub.id) THEN "abandoned"
  ELSE IF pending = sub.id THEN "paused" ELSE "running"

LEMMA NothingMoves ==
  ASSUME \A t \in TurnIds : TurnStatus(t)' = TurnStatus(t),
         \A t \in TurnIds : LoggedEnds(t)' = LoggedEnds(t)
  PROVE  [Lifecycle!LifecycleNext]_(Lifecycle!lifecycleVars)
BY DEF Lifecycle!lifecycleVars

LEMMA OthersStay ==
  ASSUME TurnsRead, TurnsRead', sub'.id = sub.id, turns' = turns, sub.id \in Nat, turns \in Nat,
         turns >= sub.id,
         NEW t \in TurnIds, t # sub.id, EndsIn(log, t)' = EndsIn(log, t)
  PROVE  TurnStatus(t)' = TurnStatus(t)
<1>1. t \in Nat /\ (t > turns \/ (t > sub.id /\ t <= turns) \/ t < sub.id)
  BY DEF TurnIds
<1> QED
  BY <1>1 DEF TurnsRead

LEMMA SubMoves ==
  ASSUME TurnsRead, TurnsRead', sub'.id = sub.id, turns' = turns, sub.id \in Nat, turns \in Nat,
         turns >= sub.id,
         \A t \in TurnIds : EndsIn(log, t)' = EndsIn(log, t),
         \/ SubStatus' = SubStatus
         \/ SubStatus = "queued" /\ SubStatus' = "running"
         \/ SubStatus = "running" /\ SubStatus' = "paused"
         \/ SubStatus = "paused" /\ SubStatus' = "running"
         \/ SubStatus \in {"running", "paused"} /\ SubStatus' = "abandoned"
  PROVE  [Lifecycle!LifecycleNext]_(Lifecycle!lifecycleVars)
<1>1. \A t \in TurnIds : t # sub.id => TurnStatus(t)' = TurnStatus(t)
  BY OthersStay
<1>2. \A t \in TurnIds : LoggedEnds(t)' = LoggedEnds(t)
  BY DEF LoggedEnds, EndsIn
<1>3. CASE sub.id \in TurnIds
  <2>1. TurnStatus(sub.id) = SubStatus
    BY <1>3 DEF TurnsRead, SubStatus
  <2>2. TurnStatus(sub.id)' = SubStatus'
    BY <1>3 DEF TurnsRead, SubStatus
  <2>3. \A u \in TurnIds : u < sub.id => TurnStatus(u) \in {"ended", "abandoned"}
    BY DEF TurnsRead
  <2> QED
    BY <1>1, <1>2, <1>3, <2>1, <2>2, <2>3, OneTurnMoves
<1>4. CASE sub.id \notin TurnIds
  BY <1>1, <1>2, <1>4, NothingMoves
<1> QED
  BY <1>3, <1>4

\* A step that reports the end of the turn that runs.
LEMMA EndIsStep ==
  ASSUME TurnsRead, TurnsRead', sub'.id = sub.id, turns' = turns, sub.id \in TurnIds,
         turns \in Nat, turns >= sub.id, log \in Seq(Records),
         NEW type \in TurnEnds, log' = Append(log, [type |-> type, id |-> sub.id]),
         SubStatus \in {"running", "paused"}
  PROVE  [Lifecycle!LifecycleNext]_(Lifecycle!lifecycleVars)
<1> DEFINE r == [type |-> type, id |-> sub.id]
           status == [t \in TurnIds |-> TurnStatus(t)]
           reports == [t \in TurnIds |-> Cardinality(LoggedEnds(t))]
           s == sub.id
<1>1. r \in Records /\ r.id = sub.id /\ r.type # "turn_started" /\ log' = Append(log, r)
  BY DEF Records, TurnIds, TurnEnds
<1>2. EndsIn(log, s) = {}
  BY DEF SubStatus
<1> HIDE DEF r
<1>3. EndsIn(log', s) = {Len(log) + 1}
  BY <1>1, <1>2, LogGrowsBy
<1>4. \A t \in TurnIds : t # s => EndsIn(log', t) = EndsIn(log, t)
  BY <1>1, LogGrowsBy
<1>5. \A t \in TurnIds : t # s => TurnStatus(t)' = TurnStatus(t)
  <2>1. s \in Nat
    BY DEF TurnIds
  <2> QED
    BY <1>4, <2>1, OthersStay
<1>6. TurnStatus(s) = SubStatus /\ TurnStatus(s)' = SubStatus'
  BY DEF TurnsRead, SubStatus
<1>7. TurnStatus(s)' = "ended"
  BY <1>3, <1>6 DEF SubStatus
<1>8. Cardinality(LoggedEnds(s)) = 0 /\ Cardinality(LoggedEnds(s))' = 1
  <2>1. LoggedEnds(s) = {} /\ LoggedEnds(s)' = {Len(log) + 1}
    BY <1>2, <1>3 DEF LoggedEnds, EndsIn
  <2> QED
    BY <2>1, FS_EmptySet, FS_Singleton
<1>9. \A t \in TurnIds : t # s => Cardinality(LoggedEnds(t))' = Cardinality(LoggedEnds(t))
  BY <1>4 DEF LoggedEnds, EndsIn
<1>10. status' = [status EXCEPT ![s] = "ended"]
  BY <1>5, <1>7
<1>11. reports' = [reports EXCEPT ![s] = @ + 1]
  BY <1>8, <1>9
<1>12. status[s] \in {"running", "paused"}
  BY <1>6
<1> HIDE DEF status, reports
<1>13. s \in TurnIds /\ Lifecycle!End(s)
  BY <1>10, <1>11, <1>12 DEF status, reports, Lifecycle!End, Lifecycle!Moves
<1> QED
  BY <1>13 DEF Lifecycle!LifecycleNext

LEMMA LifecycleStep ==
  ASSUME SurfaceInv, LogInv, SurfaceInv', LogInv', TurnsRead, TurnsRead', [Next]_vars
  PROVE  [Lifecycle!LifecycleNext]_(Lifecycle!lifecycleVars)
<1> USE DEF Draining
<1>a. /\ sub.id \in Nat /\ turns \in Nat /\ turns >= sub.id
      /\ sub.id # 0 => sub.id \in TurnIds
      /\ sub.id = 0 => sub = NoSubmission
  BY EntryTyped DEF SurfaceInv, IterInv, QueueInv, NoSubmission, TurnIds
<1>b. driver # "none" => current = sub.id /\ sub.id # 0 /\ Held(sub.id)
  BY DEF SurfaceInv, IterInv, Held
\* A step of an iterator that goes on, and logs nothing.
<1>c. ASSUME driver # "none", sub' = sub, turns' = turns, current' = current, log' = log,
             \/ NotBegun' = NotBegun /\ pending' = pending
             \/ ~NotBegun /\ ~NotBegun'
      PROVE  [Lifecycle!LifecycleNext]_(Lifecycle!lifecycleVars)
  <2>1. Held(sub.id)'
    BY <1>b, <1>c DEF Held
  <2>2. EndsIn(log, sub.id)' = EndsIn(log, sub.id)
    BY <1>c
  <2> QED
    BY <1>a, <1>b, <1>c, <2>1, <2>2, SubMoves DEF SubStatus
\* A step that logs the end of the turn.
<1>d. ASSUME driver \notin {"none", "last", "dead", "tail"}, ~NotBegun, sub' = sub, turns' = turns,
             NEW type \in TurnEnds, NEW next, Emit(type, next)
      PROVE  [Lifecycle!LifecycleNext]_(Lifecycle!lifecycleVars)
  <2>1. log' = Append(log, [type |-> type, id |-> sub.id])
    BY <1>d DEF Emit
  <2>2. EndsIn(log, sub.id) = {}
    BY <1>d DEF LogInv, SurfaceInv, IterInv, Drivers
  <2>3. SubStatus \in {"running", "paused"}
    BY <1>b, <1>d, <2>2 DEF SubStatus
  <2>4. sub.id \in TurnIds /\ log \in Seq(Records)
    BY <1>a, <1>b, <1>d DEF LogInv
  <2> QED
    BY <1>a, <1>d, <2>1, <2>3, <2>4, EndIsStep
\* A step that leaves all the turns are read off alone.
<1>e. ASSUME UNCHANGED <<sub, turns, current, queue, log, pending>>, NotBegun' = NotBegun
      PROVE  [Lifecycle!LifecycleNext]_(Lifecycle!lifecycleVars)
  <2>1. Held(sub.id)' = Held(sub.id)
    BY <1>e DEF Held
  <2>2. EndsIn(log, sub.id)' = EndsIn(log, sub.id)
    BY <1>e
  <2> QED
    BY <1>a, <1>e, <2>1, <2>2, SubMoves DEF SubStatus
<1>1. CASE RenderEvent
  BY <1>1, <1>e DEF RenderEvent, iterVars, surfaceVars, NotBegun
<1>2. CASE EndDrain
  BY <1>2, <1>e DEF EndDrain, iterVars, NotBegun
<1>3. CASE HandleError
  BY <1>3, <1>e DEF HandleError, iterVars, NotBegun
<1>5. CASE PopSubmission
  <2>1. PICK q \in Entries : queue = <<q>>
    BY <1>5 DEF PopSubmission, SurfaceInv, QueueInv
  <2>2. /\ sub' = q /\ queue' = <<>> /\ driver' = "ready" /\ queue[1] = q /\ log' = log
        /\ pending' = pending /\ current' = q.id /\ turns' = turns /\ driver = "none"
        /\ queue # <<>>
    BY <1>5, <2>1, OneEntry DEF PopSubmission, surfaceVars
  <2>3. q.id \in TurnIds /\ ~NotBegun
    BY <2>2, EntryTyped DEF TurnIds, NotBegun
  <2>4. \A t \in TurnIds : EndsIn(log, t)' = EndsIn(log, t)
    BY <2>2
  <2>5. CASE q.op # "turn"
    <3>1. q.id = sub.id
      BY <2>2, <2>5 DEF SurfaceInv, QueueInv, Waiting
    <3>2. Held(sub.id) /\ Held(sub.id)'
      <4>1. Held(sub.id)
        BY <2>1, <3>1 DEF Held
      <4>2. Held(sub.id)'
        BY <2>2, <3>1 DEF Held
      <4> QED
        BY <4>1, <4>2
    <3>3. sub'.id = sub.id /\ ~NotBegun'
      BY <2>2, <2>5, <3>1 DEF NotBegun
    <3>4. SubStatus' = SubStatus
      BY <2>2, <2>3, <2>4, <3>1, <3>2, <3>3 DEF SubStatus
    <3> QED
      BY <1>a, <2>2, <2>4, <3>3, <3>4, SubMoves
  <2>6. CASE q.op = "turn"
    <3>1. q.id = sub.id + 1 /\ q.id = turns
      BY <1>a, <2>2, <2>6 DEF SurfaceInv, QueueInv, Waiting
    <3>2. \A t \in TurnIds : LoggedEnds(t)' = LoggedEnds(t)
      BY <2>4 DEF LoggedEnds, EndsIn
    <3>3. \A t \in TurnIds : t # sub.id => TurnStatus(t)' = TurnStatus(t)
      <4> SUFFICES ASSUME NEW t \in TurnIds, t # sub.id PROVE TurnStatus(t)' = TurnStatus(t)
        OBVIOUS
      <4>1. t \in Nat
        BY DEF TurnIds
      <4>2. CASE t > turns
        BY <2>2, <4>2 DEF TurnsRead
      <4>3. CASE t = q.id
        <5>1. TurnStatus(t) = "queued" /\ EndsIn(log, t) = {}
          BY <1>a, <3>1, <4>3 DEF TurnsRead
        <5>2. NotBegun'
          BY <2>2, <2>6 DEF NotBegun
        <5>3. TurnStatus(t)' = "queued"
          BY <2>2, <4>3, <5>1, <5>2 DEF TurnsRead
        <5> QED
          BY <5>1, <5>3
      <4>4. CASE t < sub.id
        <5>1. t < q.id
          BY <1>a, <3>1, <4>1, <4>4
        <5> QED
          BY <2>2, <4>4, <5>1 DEF TurnsRead
      <4> QED
        BY <1>a, <3>1, <4>1, <4>2, <4>3, <4>4
    <3>4. CASE sub.id = 0
      BY <3>2, <3>3, <3>4, NothingMoves DEF TurnIds
    <3>5. CASE sub.id # 0
      <4>1. PICK s \in TurnIds : s = sub.id /\ s < q.id
        BY <1>a, <3>1, <3>5
      <4>2. TurnStatus(s)' = IF EndsIn(log, s) # {} THEN "ended" ELSE "abandoned"
        BY <2>2, <2>4, <4>1 DEF TurnsRead
      <4>3. \/ EndsIn(log, s) # {} /\ TurnStatus(s) = "ended"
            \/ EndsIn(log, s) = {} /\ TurnStatus(s) \in {"running", "paused", "abandoned"}
        BY <2>3, <4>1 DEF TurnsRead
      <4> QED
        BY <3>2, <3>3, <4>1, <4>2, <4>3, OneTurnMoves
    <3> QED
      BY <3>4, <3>5
  <2> QED
    BY <2>5, <2>6
<1>6. CASE EndIterator
  <2>1. /\ UNCHANGED <<sub, turns, queue, log, pending>> /\ driver # "none" /\ ~NotBegun /\ ~NotBegun'
        /\ pending # 0 => current' = current
    BY <1>6 DEF EndIterator, surfaceVars, NotBegun
  <2>2. Held(sub.id)
    BY <1>b, <2>1
  <2>3. \A t \in TurnIds : EndsIn(log, t)' = EndsIn(log, t)
    BY <2>1
  <2>4. EndsIn(log, sub.id)' = EndsIn(log, sub.id)
    BY <2>1
  <2>5. SubStatus = IF EndsIn(log, sub.id) # {} THEN "ended"
                    ELSE IF pending = sub.id THEN "paused" ELSE "running"
    BY <2>1, <2>2 DEF SubStatus
  <2>6. SubStatus' = IF EndsIn(log, sub.id) # {} THEN "ended"
                     ELSE IF ~Held(sub.id)' THEN "abandoned"
                     ELSE IF pending = sub.id THEN "paused" ELSE "running"
    BY <2>1, <2>4 DEF SubStatus
  <2> QED
    BY <1>a, <2>1, <2>3, <2>5, <2>6, SubMoves
<1>7. CASE BeginTurn
  <2> DEFINE r == [type |-> "turn_started", id |-> sub.id]
  <2>1. /\ log' = Append(log, r) /\ driver = "ready" /\ driver' = "turn"
        /\ UNCHANGED <<sub, turns, queue, current, pending>> /\ NotBegun /\ ~NotBegun'
    BY <1>7 DEF BeginTurn, Emit, surfaceVars, NotBegun
  <2>2. r \in Records /\ r.type = "turn_started" /\ log \in Seq(Records)
    BY <1>a, <1>b, <2>1 DEF Records, TurnIds, LogInv
  <2> HIDE DEF r
  <2>3. \A t : EndsIn(log', t) = EndsIn(log, t)
    BY <2>1, <2>2, LogGrowsBy
  <2>4. EndsIn(log, sub.id) = {} /\ pending # sub.id
    BY <2>1, NothingLogged DEF LogInv
  <2>5. Held(sub.id)'
    BY <1>b, <2>1 DEF Held
  <2>6. SubStatus = "queued"
    BY <2>1, <2>4 DEF SubStatus
  <2>7. SubStatus' = "running"
    BY <2>1, <2>3, <2>4, <2>5 DEF SubStatus
  <2> QED
    BY <1>a, <2>1, <2>3, <2>6, <2>7, SubMoves
<1>8. CASE \E usable \in BOOLEAN : RefuseTurn(usable)
  BY <1>8, <1>d DEF RefuseTurn, surfaceVars, NotBegun, TurnEnds
<1>9. CASE \E fresh \in BOOLEAN : Dispatch(fresh)
  BY <1>9, <1>c DEF Dispatch, surfaceVars, NotBegun
<1>10. CASE StartChat
  BY <1>10, <1>c DEF StartChat, surfaceVars, NotBegun
<1>11. CASE \E route \in Routes, toolsSupported \in BOOLEAN : TriageReturns(route, toolsSupported)
  BY <1>11, <1>c DEF TriageReturns, Emit, TurnEnds, NotBegun
<1>12. CASE StartDrain
  BY <1>12, <1>c DEF StartDrain, surfaceVars, NotBegun
<1>13. CASE \E done \in BOOLEAN : RelayChunk(done)
  <2>1. CASE RelayChunk(TRUE)
    BY <2>1, <1>d DEF RelayChunk, surfaceVars, NotBegun, TurnEnds
  <2>2. CASE RelayChunk(FALSE)
    BY <2>2, <1>c DEF RelayChunk, Emit, TurnEnds, surfaceVars, NotBegun
  <2> QED
    BY <1>13, <2>1, <2>2
<1>14. CASE \E answered \in BOOLEAN : EndStream(answered)
  <2>1. CASE driver = "stream"
    BY <1>14, <2>1, <1>d DEF EndStream, surfaceVars, NotBegun, TurnEnds
  <2>2. CASE driver = "tail"
    BY <1>14, <2>2, <1>c DEF EndStream, Emit, TurnEnds, surfaceVars, NotBegun
  <2> QED
    BY <1>14, <2>1, <2>2 DEF EndStream
<1>15. CASE StartEvents
  BY <1>15, <1>c DEF StartEvents, Emit, TurnEnds, surfaceVars, NotBegun
<1>16. CASE LoopAdvances
  BY <1>16, <1>e DEF LoopAdvances, runtimeVars, iterVars, surfaceVars, NotBegun
<1>17. CASE RelayEvent
  BY <1>17, <1>c DEF RelayEvent, Emit, TurnEnds, surfaceVars, NotBegun
<1>18. CASE NextEvent
  BY <1>18, <1>c DEF NextEvent, surfaceVars, NotBegun
<1>19. CASE ResumeByPolicy
  BY <1>19, <1>c DEF ResumeByPolicy, surfaceVars, NotBegun
<1>20. CASE ApplyPolicy
  BY <1>20, <1>e DEF ApplyPolicy, runtimeVars, iterVars, surfaceVars, NotBegun
<1>21. CASE PauseForApproval
  BY <1>21, <1>c DEF PauseForApproval, Emit, TurnEnds, surfaceVars, NotBegun
<1>22. CASE EndTurn
  <2>1. TurnEnd(event.type) \in TurnEnds
    BY DEF TurnEnd, TurnEnds
  <2> QED
    BY <1>22, <2>1, <1>d DEF EndTurn, surfaceVars, NotBegun
<1>23. CASE ResumeDecision
  BY <1>23, <1>c DEF ResumeDecision, Emit, TurnEnds, surfaceVars, NotBegun, Decisions
<1>24. CASE HandleInterrupt
  <2>1. EndsIn(log, sub.id) = {}
    BY <1>24 DEF HandleInterrupt, LogInv
  <2> QED
    BY <1>24, <1>d DEF HandleInterrupt, surfaceVars, NotBegun, TurnEnds
<1>25. CASE AnswersPrompt
  <2>1. PICK op \in Decisions \union {"interrupt"} : AnswerPrompt(op)
    BY <1>25 DEF AnswersPrompt
  <2> QED
    BY <2>1, <1>c DEF AnswerPrompt, iterVars, NotBegun, SurfaceInv, IterInv
<1>26. CASE \E policy \in Policies, mode \in Modes : SubmitTurn(policy, mode)
  <2>1. PICK policy \in Policies, mode \in Modes : SubmitTurn(policy, mode)
    BY <1>26
  <2> DEFINE q == [op |-> "turn", id |-> turns + 1, policy |-> policy, mode |-> mode]
  <2>2. /\ queue = <<>> /\ UNCHANGED <<sub, log, pending, current, driver>> /\ turns' = turns + 1
        /\ turns < MaxTurns /\ turns = sub.id
    BY <2>1 DEF SubmitTurn, iterVars, SurfaceInv, QueueInv, IterInv
  <2>3. PICK s \in TurnIds : s = turns + 1
    BY <1>a, <2>2, RuntimeAssumption DEF TurnIds
  <2>4. queue' = <<q>> /\ q.id = s
    BY <2>1, <2>2, <2>3, OneEntry DEF SubmitTurn
  <2>5. (NotBegun' <=> NotBegun) /\ \A t \in TurnIds : EndsIn(log, t)' = EndsIn(log, t)
    BY <2>2 DEF NotBegun
  <2>6. Held(sub.id)' <=> Held(sub.id)
    <3> HIDE DEF q
    <3>1. DOMAIN queue' = {1} /\ queue'[1] = q /\ DOMAIN queue = {}
      BY <2>2, <2>4
    <3>2. q.id # sub.id
      BY <1>a, <2>2, <2>4, <2>3
    <3> QED
      BY <2>2, <3>1, <3>2 DEF Held
  <2> HIDE DEF q
  <2>7. \A t \in TurnIds : LoggedEnds(t)' = LoggedEnds(t)
    BY <2>2 DEF LoggedEnds
  <2>8. \A t \in TurnIds : t # s => TurnStatus(t)' = TurnStatus(t)
    <3> SUFFICES ASSUME NEW t \in TurnIds, t # s PROVE TurnStatus(t)' = TurnStatus(t)
      OBVIOUS
    <3>1. t \in Nat
      BY DEF TurnIds
    <3>2. CASE t > s
      <4>1. t > turns /\ t > turns'
        BY <1>a, <2>2, <2>3, <3>1, <3>2
      <4> QED
        BY <4>1 DEF TurnsRead
    <3>3. CASE t < sub.id
      BY <2>2, <3>3 DEF TurnsRead
    <3>4. CASE t = sub.id
      BY <2>2, <2>5, <2>6, <3>4 DEF TurnsRead
    <3> QED
      BY <1>a, <2>2, <2>3, <3>1, <3>2, <3>3, <3>4
  <2>9. TurnStatus(s) = "new"
    BY <1>a, <2>3 DEF TurnsRead
  <2>10. TurnStatus(s)' = "queued"
    BY <1>a, <2>2, <2>3 DEF TurnsRead
  <2>11. \A u \in TurnIds : u < s => TurnStatus(u) # "new"
    <3> SUFFICES ASSUME NEW u \in TurnIds, u < s PROVE TurnStatus(u) # "new"
      OBVIOUS
    <3>1. u = sub.id \/ u < sub.id
      BY <1>a, <2>2, <2>3 DEF TurnIds
    <3> QED
      BY <3>1, <1>a, <2>2 DEF TurnsRead
  <2> QED
    BY <2>3, <2>7, <2>8, <2>9, <2>10, <2>11, OneTurnMoves
<1>27. CASE \E kind \in BreakKinds : AwaitBreaks(kind)
  BY <1>27, <1>c DEF AwaitBreaks, NotBegun
<1>28. CASE UNCHANGED vars
  BY <1>28, <1>e DEF vars, runtimeVars, iterVars, surfaceVars, NotBegun
<1> QED
  BY <1>1, <1>2, <1>3, <1>5, <1>6, <1>7, <1>8, <1>9, <1>10, <1>11, <1>12, <1>13, <1>14,
     <1>15, <1>16, <1>17, <1>18, <1>19, <1>20, <1>21, <1>22, <1>23, <1>24, <1>25, <1>26, <1>27,
     <1>28 DEF Next, SystemNext

LEMMA LifecycleStarts == RuntimeInit => Lifecycle!LifecycleInit
<1> SUFFICES ASSUME RuntimeInit PROVE Lifecycle!LifecycleInit
  OBVIOUS
<1>1. log = <<>> /\ turns = 0
  BY DEF RuntimeInit
<1>2. \A t \in TurnIds : TurnStatus(t) = "new"
  BY <1>1 DEF TurnStatus, TurnIds
<1>3. \A t : LoggedEnds(t) = {}
  BY <1>1 DEF LoggedEnds
<1>4. \A t : Cardinality(LoggedEnds(t)) = 0
  BY <1>3, FS_EmptySet
<1> QED
  BY <1>2, <1>4 DEF Lifecycle!LifecycleInit

\* The session runtime (aiter_events, _arun_user_turn, _aresume_approval,
\* _ahandle_interrupt) starts the turns in order, one at a time, and reports
\* the end of each at most once, for every number of turns, every approval
\* policy, whatever the loop below does and whatever exceptions end iterators
\* half way, the cancellation by a Ctrl+C included.
THEOREM ImplementsLifecycle == Spec => ImplementsTurnLifecycle
<1>1. SurfaceInv /\ LogInv /\ [Next]_vars => (SurfaceInv /\ LogInv)'
  BY SurfaceStep, LogStep
<1>2. SurfaceInv /\ LogInv /\ (SurfaceInv /\ LogInv)' /\ [Next]_vars
        => [Lifecycle!LifecycleNext]_(Lifecycle!lifecycleVars)
  BY TurnsReadOff, TurnsReadOffNext, LifecycleStep
<1> QED
  BY <1>1, <1>2, SurfaceInit, LogInit, LifecycleStarts, PTL
     DEF Spec, ImplementsTurnLifecycle, Lifecycle!LifecycleSpec
-----------------------------------------------------------------------------
(* The loop inside the runtime.                                             *)

\* What the events of the loop say of where it is, and when a decision can be
\* waiting for it.
LoopShape ==
  /\ event.type = "phase" => event.arg \in Phases
  /\ AskedForApproval => pc = "open_wait"
  /\ event.type \in Finals => pc = "exit"
  /\ approvalWait \in {"absent", "pending", "approved", "denied"}
  /\ approvalWait # "absent" => pc = "approval" /\ event = NoEvent
  /\ event = NoEvent <=> event.type = "none"

\* The loop is inside an await only while its generator is being driven.
ParkInv == driver \notin {"agent", "resume", "relay"} => pc \in {"idle", "open_wait", "exit"}

LEMMA NoEventIs == NoEvent.type = "none" /\ NoEvent.arg # "approval"
BY DEF NoEvent

LEMMA ShapeYields ==
  ASSUME NEW type, NEW arg, NEW next, Yield(type, arg, next), approvalWait' = "absent",
         type # "none",
         type = "phase" => arg \in Phases,
         type = "tool_request" => arg # "approval" \/ next = "open_wait",
         type \in Finals => next = "exit"
  PROVE  LoopShape'
<1>1. event'.type = type /\ event'.arg = arg /\ pc' = next
  BY DEF Yield, Event
<1> QED
  BY <1>1, NoEventIs DEF LoopShape, AskedForApproval

LEMMA ShapeGoes ==
  ASSUME event' = NoEvent,
         \/ approvalWait' = "absent"
         \/ pc' = "approval" /\ approvalWait' \in {"pending", "approved", "denied"}
  PROVE  LoopShape'
BY NoEventIs DEF LoopShape, AskedForApproval, Finals

\* A step of the generator.
LEMMA ShapeLoopStep ==
  ASSUME LoopShape, LoopRuns
  PROVE  LoopShape'
<1>0. LoopSegment \/ AwaitedReturns
  BY DEF LoopRuns
<1>a. pc # "approval" => approvalWait = "absent"
  BY DEF LoopShape
<1> USE DEF At, Phases, Finals
<1>1. CASE GeneratePlan \/ AnnounceExecuting \/ TimeOut \/ CompleteTask \/ StartStep \/ StopTask
  BY <1>1, <1>a, ShapeYields DEF GeneratePlan, AnnounceExecuting, TimeOut, CompleteTask, StartStep,
     StopTask
<1>2. CASE LeaveLoop \/ FinishRun \/ SpendRounds \/ AbandonStep \/ CallModel \/ EndCalls \/
           StartParallel \/ EndParallel \/ StepStopped \/ ModelAnswers \/ ModelSaysNothing
  BY <1>2, <1>a, ShapeGoes DEF LeaveLoop, FinishRun, SpendRounds, AbandonStep, CallModel, EndCalls,
     StartParallel, EndParallel, StepStopped, ModelAnswers, ModelSaysNothing, GoTo
<1>3. ASSUME NEW counted, NEW class, NEW kind, RetryOrExhaust(counted, class, kind), event = NoEvent,
             approvalWait' = "absent"
      PROVE  LoopShape'
  BY <1>3, ShapeYields, ShapeGoes DEF RetryOrExhaust, GoTo
<1>4. CASE FinishBatch
  <2>1. CASE batch.failure # NoFailure
    BY <1>4, <2>1, <1>a, <1>3 DEF FinishBatch
  <2>2. CASE batch.failure = NoFailure
    BY <1>4, <2>2, <1>a, ShapeGoes DEF FinishBatch, GoTo
  <2> QED
    BY <2>1, <2>2
<1>5. CASE \E class \in ModelFailureClasses, reported \in BOOLEAN : ModelFails(class, reported)
  BY <1>5, <1>a, <1>3 DEF ModelFails
<1>6. CASE RejectCall \/ BlockCall \/ RequestAutomatic \/ AnnounceApproval \/ RequestApproval
  BY <1>6, <1>a, ShapeYields DEF RejectCall, BlockCall, RequestAutomatic, AnnounceApproval,
     RequestApproval, Resolved
<1>7. CASE OpenApprovalWait
  BY <1>7, ShapeGoes DEF OpenApprovalWait, GoTo
<1>8. CASE ApprovalArrives
  BY <1>8, ShapeGoes DEF ApprovalArrives, GoTo
<1>9. CASE RequestGuardian \/ StartGuardianReview \/ DenyCall \/ AnnounceRecovery \/
           RequestParallel \/ AnnounceParallelRecovery
  BY <1>9, <1>a, ShapeYields DEF RequestGuardian, StartGuardianReview, DenyCall, AnnounceRecovery,
     RequestParallel, AnnounceParallelRecovery
<1>10. CASE ReportParallel
  BY <1>10, <1>a, ShapeYields DEF ReportParallel
<1>11. CASE CompleteStep \/ StartReplan \/ FailStep \/ ReportFailedStep \/ FailTask
  BY <1>11, <1>a, ShapeYields DEF CompleteStep, StartReplan, FailStep, ReportFailedStep, FailTask
<1>12. CASE ApprovalCancelled
  BY <1>12 DEF ApprovalCancelled, LoopShape
<1>13. CASE \E calls \in Batches : ModelCallsTools(calls)
  BY <1>13, <1>a, ShapeGoes DEF ModelCallsTools, GoTo
<1>14. CASE \E approved \in BOOLEAN : GuardianDecides(approved)
  BY <1>14, <1>a, ShapeYields DEF GuardianDecides
<1>15. CASE \E status \in RunResults : ToolReturns(status)
  BY <1>15, <1>a, ShapeYields DEF ToolReturns
<1>16. CASE \E results \in [DOMAIN batch.calls -> RunResults] : GatherResults(results)
  BY <1>16, <1>a, ShapeGoes DEF GatherResults, GoTo
<1>17. CASE \E n \in 1 .. RoomForSteps : RevisePlan(n)
  BY <1>17, <1>a, ShapeYields DEF RevisePlan
<1> QED
  BY <1>0, <1>1, <1>2, <1>4, <1>5, <1>6, <1>7, <1>8, <1>9, <1>10, <1>11, <1>12, <1>13, <1>14,
     <1>15, <1>16, <1>17 DEF LoopSegment, AwaitedReturns
-----------------------------------------------------------------------------
(* What a step of the runtime does to the loop and to the controller.       *)

ControllerOK ==
  /\ agentIter \in {"none", "fresh", "routed", "live"}
  /\ asyncActive \in BOOLEAN /\ directActive \in BOOLEAN
  /\ pendingTool \in BOOLEAN /\ approvalMeta \in BOOLEAN
  /\ task \in [phase : Phases, active : BOOLEAN]
  /\ outcomes \in Seq(OutcomeKinds)
  /\ defaultMode \in ApprovalModes
  /\ approvalMode \in ApprovalModes
  /\ stopRequested \in BOOLEAN

\* Everything but a step of the generator: it is left where it is or closed,
\* its events are taken, and the mode changes under it only towards autonomy
\* or while it is not about to run a tool.
LoopIsLeft ==
  /\ UNCHANGED <<plan, step, batch>>
  /\ pc' \in {pc, "idle"}
  /\ event' \in {event, NoEvent}
  /\ approvalMode' \in {approvalMode, "autonomous"} \/ pc' \in {"idle", "open_wait", "exit"}
  /\ approvalWait' \in {approvalWait, "absent", "approved", "denied"}

LoopMoves == LoopRuns \/ StartTask \/ LoopIsLeft

LEMMA StateTypes ==
  /\ \A phase \in Phases, active \in BOOLEAN : State(phase, active) \in [phase : Phases, active : BOOLEAN]
  /\ task \in [phase : Phases, active : BOOLEAN] => task.phase \in Phases /\ task.active \in BOOLEAN
BY DEF State

LEMMA FinishTypes ==
  ASSUME ControllerOK, NEW phase \in Phases, FinishTask(phase), UNCHANGED <<agentIter, defaultMode>>,
         outcomes' \in Seq(OutcomeKinds), stopRequested' \in BOOLEAN
  PROVE  ControllerOK'
BY StateTypes DEF ControllerOK, FinishTask

LEMMA OutcomeTypes ==
  ASSUME ControllerOK, NEW kind \in OutcomeKinds \ {"direct_answer"}, RecordOutcome(kind),
         UNCHANGED <<agentIter, defaultMode>>, stopRequested' \in BOOLEAN
  PROVE  ControllerOK'
<1>1. outcomes' \in Seq(OutcomeKinds)
  BY AppendProperties DEF RecordOutcome, ControllerOK
<1>2. kind \in Phases /\ FinishTask(kind)
  BY DEF OutcomeKinds, Phases, RecordOutcome
<1> QED
  BY <1>1, <1>2, FinishTypes

LEMMA StopTypes ==
  ASSUME ControllerOK, StopController, UNCHANGED defaultMode
  PROVE  /\ asyncActive' \in BOOLEAN /\ directActive' \in BOOLEAN
         /\ pendingTool' \in BOOLEAN /\ approvalMeta' \in BOOLEAN
         /\ task' \in [phase : Phases, active : BOOLEAN]
         /\ outcomes' \in Seq(OutcomeKinds)
         /\ approvalMode' \in ApprovalModes
         /\ stopRequested' \in BOOLEAN
<1>1. CASE HasActiveTask
  <2>1. RecordOutcome("stopped") /\ stopRequested' = TRUE
    BY <1>1 DEF StopController
  <2>2. outcomes' \in Seq(OutcomeKinds)
    BY <2>1, AppendProperties DEF RecordOutcome, ControllerOK, OutcomeKinds
  <2>3. "stopped" \in Phases
    BY DEF Phases
  <2> QED
    BY <2>1, <2>2, <2>3, StateTypes DEF RecordOutcome, FinishTask, ControllerOK
<1>2. CASE ~HasActiveTask
  BY <1>2 DEF StopController, ControllerStays, ControllerOK
<1> QED
  BY <1>1, <1>2

LEMMA StateRecorded ==
  ASSUME ControllerOK, NEW phase \in Phases, NEW active \in BOOLEAN, NEW awaited \in BOOLEAN,
         RecordState(phase, active, awaited), UNCHANGED <<agentIter, defaultMode, stopRequested>>
  PROVE  ControllerOK'
BY StateTypes DEF ControllerOK, RecordState

LEMMA EventTypesRecorded ==
  ASSUME ControllerOK, LoopShape, RecordEvent(event),
         UNCHANGED <<agentIter, defaultMode, stopRequested>>
  PROVE  ControllerOK'
<1>a. /\ pendingTool \in BOOLEAN /\ task.phase \in Phases /\ task.active \in BOOLEAN
      /\ {"executing", "recovering", "waiting_approval"} \subseteq Phases
  BY StateTypes DEF ControllerOK, Phases
<1>1. CASE event.type = "phase" /\ RecordState(event.arg, event.arg \notin InactivePhases, pendingTool)
  BY <1>1, <1>a, StateRecorded DEF LoopShape
<1>2. CASE RecordState(task.phase, task.active, pendingTool)
  BY <1>2, <1>a, StateRecorded
<1>3. CASE RecordState("executing", TRUE, pendingTool) \/ RecordState("recovering", TRUE, pendingTool)
  BY <1>3, <1>a, StateRecorded
<1>4. CASE RecordState("waiting_approval", TRUE, TRUE) \/ RecordState("executing", TRUE, FALSE) \/
           RecordState("waiting_approval", TRUE, FALSE)
  BY <1>4, <1>a, StateRecorded
<1>5. CASE event.type \in Finals /\ RecordOutcome(OutcomeOf(event.type))
  <2>1. OutcomeOf(event.type) \in OutcomeKinds \ {"direct_answer"}
    BY <1>5 DEF OutcomeOf, OutcomeKinds, Finals
  <2> QED
    BY <1>5, <2>1, OutcomeTypes DEF ControllerOK
<1> QED
  BY <1>1, <1>2, <1>3, <1>4, <1>5 DEF RecordEvent

LEMMA ApplyTypes ==
  ASSUME ControllerOK, NEW approved, NEW all, ApplyToolApproval(approved, all), UNCHANGED stopRequested
  PROVE  /\ ControllerOK'
         /\ approvalMode' \in {approvalMode, "autonomous"}
         /\ approvalWait' \in {approvalWait, "approved", "denied"}
<1>1. ControllerOK'
  <2>1. task' \in [phase : Phases, active : BOOLEAN]
    <3>1. task.phase \in Phases /\ "recovering" \in Phases
      BY StateTypes DEF ControllerOK, Phases
    <3> QED
      BY <3>1, StateTypes DEF ApplyToolApproval
  <2> QED
    BY <2>1 DEF ApplyToolApproval, ControllerOK, ApprovalModes
<1>2. approvalMode' \in {approvalMode, "autonomous"} /\ approvalWait' \in {approvalWait, "approved", "denied"}
  BY DEF ApplyToolApproval, SupplyToolApproval
<1> QED
  BY <1>1, <1>2

LEMMA StreamTypes ==
  ASSUME ControllerOK, NEW answered \in BOOLEAN, StreamEnds(answered)
  PROVE  ControllerOK'
<1>1. CASE sub.mode = "agent"
  <2>1. FinishDirectAnswer(answered)
    BY <1>1 DEF StreamEnds
  <2>2. outcomes' \in Seq(OutcomeKinds)
    BY <2>1, AppendProperties DEF FinishDirectAnswer, ControllerOK, OutcomeKinds
  <2>3. PICK phase \in Phases : FinishTask(phase)
    <3>1. task.phase \in Phases /\ "completed" \in Phases
      BY StateTypes DEF ControllerOK, Phases
    <3> QED
      BY <2>1, <3>1 DEF FinishDirectAnswer
  <2> QED
    BY <2>1, <2>2, <2>3, FinishTypes DEF FinishDirectAnswer, ControllerOK
<1>2. CASE sub.mode # "agent"
  BY <1>2 DEF StreamEnds, ControllerOK, controllerVars
<1> QED
  BY <1>1, <1>2

LEMMA RouteTypes ==
  ASSUME ControllerOK, NEW route \in Routes, NEW toolsSupported, RouteInput(route, toolsSupported),
         UNCHANGED stopRequested
  PROVE  ControllerOK'
<1>1. outcomes' \in Seq(OutcomeKinds)
  BY DEF RouteInput
<1>2. task' \in [phase : Phases, active : BOOLEAN]
  <2>1. {"executing", "planning", "failed"} \subseteq Phases
    BY DEF Phases
  <2> QED
    BY <2>1, StateTypes DEF RouteInput
<1> QED
  BY <1>1, <1>2 DEF RouteInput, ControllerOK

\* A step that touches neither the loop nor the controller's records.
LEMMA LoopStays ==
  ASSUME LoopShape, UNCHANGED loopVars
  PROVE  LoopMoves /\ LoopShape'
BY DEF loopVars, taskVars, LoopMoves, LoopIsLeft, LoopShape, AskedForApproval

LEMMA LoopCloses ==
  ASSUME LoopShape, CloseLoop, UNCHANGED <<plan, step, batch>>
  PROVE  LoopMoves /\ LoopShape'
<1>1. LoopShape'
  BY ShapeGoes DEF CloseLoop
<1>2. LoopIsLeft
  BY DEF CloseLoop, LoopIsLeft
<1> QED
  BY <1>1, <1>2 DEF LoopMoves

\* The records of the controller change while its generator is parked.
LEMMA LoopParked ==
  ASSUME LoopShape, UNCHANGED taskVars, pc \in {"idle", "open_wait", "exit"}
  PROVE  LoopMoves /\ LoopShape'
BY DEF taskVars, LoopMoves, LoopIsLeft, LoopShape, AskedForApproval

LEMMA LoopMovesStep ==
  ASSUME SurfaceInv, LoopShape, ParkInv, ControllerOK, [Next]_vars
  PROVE  LoopMoves /\ LoopShape' /\ ParkInv' /\ ControllerOK'
<1> USE DEF Draining
<1>a. driver \notin {"agent", "resume", "relay"} => pc \in {"idle", "open_wait", "exit"} /\ approvalWait = "absent"
  BY DEF ParkInv, LoopShape
<1>b. UNCHANGED <<controllerVars, loopVars>> => ControllerOK'
  BY DEF controllerVars, loopVars, ControllerOK
<1>c. ASSUME UNCHANGED <<loopVars, controllerVars>>, driver' = driver
      PROVE  LoopMoves /\ LoopShape' /\ ParkInv' /\ ControllerOK'
  BY <1>b, <1>c, LoopStays DEF ParkInv, loopVars, taskVars
<1>d. ASSUME UNCHANGED <<loopVars, controllerVars>>, driver \notin {"agent", "resume", "relay"}
      PROVE  LoopMoves /\ LoopShape' /\ ParkInv' /\ ControllerOK'
  BY <1>a, <1>b, <1>d, LoopStays DEF ParkInv, loopVars, taskVars
<1>1. CASE RenderEvent
  BY <1>1, <1>c DEF RenderEvent, iterVars
<1>2. CASE EndDrain
  BY <1>2, <1>c DEF EndDrain, iterVars
<1>3. CASE HandleError
  <2>1. driver = "dead" /\ driver' = "dead" /\ UNCHANGED <<taskVars, agentIter, defaultMode>>
    BY <1>3 DEF HandleError, iterVars, SurfaceInv, IterInv
  <2>2. StopController \/ ControllerStays
    BY <1>3 DEF HandleError
  <2>3. ControllerOK'
    <3>1. CASE StopController
      BY <2>1, <3>1, StopTypes DEF ControllerOK
    <3>2. CASE ControllerStays
      BY <2>1, <3>2 DEF ControllerOK, ControllerStays
    <3> QED
      BY <2>2, <3>1, <3>2
  <2> QED
    BY <1>a, <2>1, <2>3, LoopParked DEF ParkInv, taskVars
<1>5. CASE PopSubmission
  BY <1>5, <1>d DEF PopSubmission
<1>6. CASE EndIterator
  <2>1. driver \notin {"agent", "resume", "relay"}
    BY <1>6 DEF EndIterator
  <2>2. CASE pending # sub.id /\ agentIter # "none"
    <3>1. DropLoop /\ asyncActive' = FALSE
      BY <1>6, <2>2 DEF EndIterator
    <3>2. ControllerOK'
      BY <1>6, <3>1 DEF EndIterator, DropLoop, ControllerOK
    <3>3. ParkInv'
      BY <3>1 DEF DropLoop, CloseLoop, ParkInv
    <3> QED
      BY <3>1, <3>2, <3>3, LoopCloses DEF DropLoop
  <2>3. CASE ~(pending # sub.id /\ agentIter # "none")
    BY <1>6, <1>d, <2>1, <2>3 DEF EndIterator, loopVars, controllerVars
  <2> QED
    BY <2>2, <2>3
<1>7. CASE BeginTurn
  BY <1>7, <1>d DEF BeginTurn
<1>8. CASE \E usable \in BOOLEAN : RefuseTurn(usable)
  BY <1>8, <1>d DEF RefuseTurn
<1>9. CASE \E fresh \in BOOLEAN : Dispatch(fresh)
  <2>1. ControllerOK'
    BY <1>9 DEF Dispatch, ControllerOK, ApprovalModes
  <2>2. UNCHANGED taskVars /\ driver = "turn"
    BY <1>9 DEF Dispatch
  <2> QED
    BY <1>a, <2>1, <2>2, LoopParked DEF ParkInv, taskVars
<1>10. CASE StartChat
  BY <1>10, <1>d DEF StartChat
<1>11. CASE \E route \in Routes, toolsSupported \in BOOLEAN : TriageReturns(route, toolsSupported)
  <2>1. ControllerOK'
    BY <1>11, RouteTypes DEF TriageReturns
  <2>2. UNCHANGED taskVars /\ driver = "triage"
    BY <1>11 DEF TriageReturns
  <2> QED
    BY <1>a, <2>1, <2>2, LoopParked DEF ParkInv, taskVars
<1>12. CASE StartDrain
  BY <1>12, <1>d DEF StartDrain
<1>13. CASE \E done \in BOOLEAN : RelayChunk(done)
  BY <1>13, <1>d DEF RelayChunk
<1>14. CASE \E answered \in BOOLEAN : EndStream(answered)
  <2>1. ControllerOK'
    BY <1>14, StreamTypes DEF EndStream
  <2>2. UNCHANGED taskVars /\ driver \in {"stream", "tail"}
    BY <1>14 DEF EndStream
  <2> QED
    BY <1>a, <2>1, <2>2, LoopParked DEF ParkInv, taskVars
<1>15. CASE StartEvents
  <2>1. ControllerOK'
    BY <1>15, StateTypes DEF StartEvents, ControllerOK, loopVars
  <2>2. driver' = "relay"
    BY <1>15 DEF StartEvents, Emit
  <2> QED
    BY <1>15, <2>1, <2>2, LoopStays DEF StartEvents, ParkInv
<1>16. CASE LoopAdvances
  <2>1. StartTask \/ LoopRuns
    BY <1>16 DEF LoopAdvances, StartTask
  <2>2. driver' = driver /\ driver \in {"agent", "resume"}
    BY <1>16 DEF LoopAdvances, runtimeVars, iterVars
  <2>3. LoopShape'
    <3>1. CASE LoopRuns
      BY <3>1, ShapeLoopStep
    <3>2. CASE StartTask
      <4>1. Yield("phase", "planning", "generate") /\ approvalWait' = "absent"
        BY <3>2 DEF StartTask, StartRun, At, LoopShape
      <4> QED
        BY <4>1, ShapeYields DEF Phases, Finals
    <3> QED
      BY <2>1, <3>1, <3>2
  <2>4. ControllerOK'
    BY <1>16, <2>1 DEF LoopAdvances, StartTask, LoopRuns, ControllerOK
  <2> QED
    BY <2>1, <2>2, <2>3, <2>4 DEF LoopMoves, ParkInv
<1>17. CASE RelayEvent
  <2>1. ControllerOK'
    BY <1>17, EventTypesRecorded DEF RelayEvent
  <2>2. driver' = "relay" /\ UNCHANGED taskVars
    BY <1>17 DEF RelayEvent, Emit
  <2>3. event.type \in Finals => pc = "exit"
    BY DEF LoopShape
  <2>4. approvalMode' \in {approvalMode} \/ pc = "exit"
    BY <1>17, <2>3 DEF RelayEvent, RecordEvent, RecordState
  <2>5. LoopIsLeft
    BY <2>2, <2>4 DEF LoopIsLeft, taskVars
  <2>6. LoopShape'
    BY <2>2 DEF taskVars, LoopShape, AskedForApproval
  <2> QED
    BY <2>1, <2>2, <2>5, <2>6 DEF LoopMoves, ParkInv
<1>18. CASE NextEvent
  <2>1. ControllerOK'
    BY <1>18 DEF NextEvent, controllerVars, ControllerOK
  <2>2. LoopShape'
    BY <1>18, NoEventIs DEF NextEvent, LoopShape, AskedForApproval, Finals
  <2> QED
    BY <1>18, <2>1, <2>2 DEF NextEvent, LoopMoves, LoopIsLeft, ParkInv
<1>19. CASE ResumeByPolicy
  <2>1. ControllerOK'
    BY <1>19 DEF ResumeByPolicy, controllerVars, ControllerOK
  <2>2. approvalWait = "absent"
    BY <1>19 DEF ResumeByPolicy, LoopShape
  <2> QED
    BY <1>19, <2>1, <2>2, ShapeGoes DEF ResumeByPolicy, LoopMoves, LoopIsLeft, ParkInv
<1>20. CASE ApplyPolicy
  <2>1. /\ ControllerOK' /\ approvalMode' \in {approvalMode, "autonomous"}
        /\ approvalWait' \in {approvalWait, "approved", "denied"}
    BY <1>20, ApplyTypes DEF ApplyPolicy
  <2>2. UNCHANGED <<pc, event, plan, step, batch, driver>> /\ event = NoEvent /\ pc = "approval"
    BY <1>20 DEF ApplyPolicy, LoopShape, runtimeVars, iterVars
  <2>3. approvalWait' \in {"pending", "approved", "denied"}
    BY <1>20, <2>1 DEF ApplyPolicy
  <2>4. LoopIsLeft
    BY <2>1, <2>2 DEF LoopIsLeft
  <2> QED
    BY <2>1, <2>2, <2>3, <2>4, ShapeGoes DEF LoopMoves, ParkInv
<1>21. CASE PauseForApproval
  <2>1. pc = "open_wait"
    BY <1>21 DEF PauseForApproval, LoopShape
  <2> QED
    BY <1>21, <1>b, <2>1, LoopStays DEF PauseForApproval, ParkInv, loopVars, taskVars
<1>22. CASE EndTurn
  <2>1. pc = "exit"
    BY <1>22 DEF EndTurn, LoopShape
  <2> QED
    BY <1>22, <1>b, <2>1, LoopStays DEF EndTurn, ParkInv, loopVars, taskVars
<1>23. CASE ResumeDecision
  <2>1. CASE pending = sub.id
    <3>1. /\ ControllerOK' /\ approvalMode' \in {approvalMode, "autonomous"}
          /\ approvalWait' \in {approvalWait, "approved", "denied"}
      BY <1>23, <2>1, ApplyTypes DEF ResumeDecision
    <3>2. /\ UNCHANGED <<pc, plan, step, batch>> /\ event' = NoEvent /\ driver' = "agent"
          /\ approvalWait' = "absent"
      BY <1>23, <1>a, <2>1 DEF ResumeDecision, ApplyToolApproval, SupplyToolApproval
    <3>3. LoopIsLeft
      BY <3>1, <3>2 DEF LoopIsLeft
    <3> QED
      BY <3>1, <3>2, <3>3, ShapeGoes DEF LoopMoves, ParkInv
  <2>2. CASE pending # sub.id
    BY <1>23, <1>d, <2>2 DEF ResumeDecision
  <2> QED
    BY <2>1, <2>2
<1>24. CASE HandleInterrupt
  <2>1. StopController /\ DropLoop /\ UNCHANGED defaultMode
    BY <1>24 DEF HandleInterrupt
  <2>2. ControllerOK'
    BY <2>1, StopTypes DEF ControllerOK, DropLoop
  <2>3. ParkInv'
    BY <2>1 DEF DropLoop, CloseLoop, ParkInv
  <2> QED
    BY <2>1, <2>2, <2>3, LoopCloses DEF DropLoop
<1>25. CASE AnswersPrompt
  BY <1>25, <1>c DEF AnswersPrompt, AnswerPrompt, iterVars
<1>26. CASE \E policy \in Policies, mode \in Modes : SubmitTurn(policy, mode)
  BY <1>26, <1>c DEF SubmitTurn, iterVars
<1>27. CASE \E kind \in BreakKinds : AwaitBreaks(kind)
  <2>1. CASE driver = "triage"
    BY <1>27, <1>d, <2>1 DEF AwaitBreaks, loopVars
  <2>2. CASE driver \in {"agent", "resume"}
    <3>1. /\ AwaitRaises /\ agentIter' = "none" /\ asyncActive' = FALSE
          /\ UNCHANGED <<stopRequested, approvalMode, directActive, pendingTool, task,
                         outcomes, approvalMeta, defaultMode>>
      BY <1>27, <2>2 DEF AwaitBreaks
    <3>2. CloseLoop /\ UNCHANGED <<plan, step, batch>>
      BY <3>1 DEF AwaitRaises, GoTo, CloseLoop
    <3>3. ControllerOK' /\ ParkInv'
      BY <3>1, <3>2 DEF ControllerOK, CloseLoop, ParkInv
    <3> QED
      BY <3>2, <3>3, LoopCloses
  <2>3. CASE driver \in {"stream", "tail"}
    <3>1. ControllerOK' /\ UNCHANGED taskVars
      BY <1>27, <2>3, StreamTypes DEF AwaitBreaks
    <3> QED
      BY <1>a, <2>3, <3>1, LoopParked DEF ParkInv, taskVars
  <2> QED
    BY <1>27, <2>1, <2>2, <2>3 DEF AwaitBreaks
<1>28. CASE UNCHANGED vars
  BY <1>28, <1>c DEF vars, runtimeVars, iterVars
<1> QED
  BY <1>1, <1>2, <1>3, <1>5, <1>6, <1>7, <1>8, <1>9, <1>10, <1>11, <1>12, <1>13, <1>14,
     <1>15, <1>16, <1>17, <1>18, <1>19, <1>20, <1>21, <1>22, <1>23, <1>24, <1>25, <1>26, <1>27,
     <1>28 DEF Next, SystemNext

\* What the loop guarantees on its own, with the invariants it rests on.
LoopInv == TypeInv /\ AuthorisedInv /\ BudgetInv /\ AnsweredInv /\ PlanInv

LEMMA LoopInvInit == RuntimeInit => LoopInv
<1>1. LoopInit => AuthorisedInv /\ BudgetInv /\ AnsweredInv
  BY DEF LoopInit, AuthorisedInv, BudgetInv, AnsweredInv, StepPoints, InCall
<1> QED
  BY <1>1, TypesInit, PlanInit DEF RuntimeInit, LoopInv

LEMMA LoopInvLeft ==
  ASSUME LoopInv, LoopIsLeft, LoopShape, ControllerOK'
  PROVE  LoopInv'
<1>1. TypeInv'
  <2>1. NoEvent \in Events /\ "idle" \in Points
    BY EventArgsKnown DEF NoEvent, Events, EventTypes, Points
  <2>2. LoopTypeOK'
    BY <2>1 DEF LoopInv, TypeInv, LoopTypeOK, LoopIsLeft, ControllerOK
  <2>3. ResultsMatchCalls'
    BY DEF LoopInv, TypeInv, ResultsMatchCalls, LoopIsLeft
  <2> QED
    BY <2>2, <2>3 DEF TypeInv
<1>2. AuthorisedInv'
  <2>1. pc' \notin InCall \union {"par_request", "gather"} \/ (pc' = pc /\ batch' = batch)
    BY DEF LoopIsLeft, InCall
  <2>2. approvalMode \in ApprovalModes
    BY DEF LoopInv, TypeInv, LoopTypeOK
  <2>3. CASE approvalMode' = approvalMode
    BY <2>1, <2>3 DEF LoopInv, AuthorisedInv, CurrentCall, InCall
  <2>4. CASE approvalMode' = "autonomous"
    BY <2>1, <2>2, <2>4, AutonomyRelaxes DEF LoopInv, AuthorisedInv, CurrentCall, InCall
  <2>5. CASE pc' \in {"idle", "open_wait", "exit"}
    BY <2>1, <2>5 DEF LoopInv, AuthorisedInv, CurrentCall, InCall
  <2> QED
    BY <2>3, <2>4, <2>5 DEF LoopIsLeft
<1>3. BudgetInv'
  BY DEF LoopInv, LoopIsLeft, BudgetInv, StepPoints, InCall
<1>4. AnsweredInv'
  BY DEF LoopInv, LoopIsLeft, AnsweredInv, AnsweredUpTo, MoreCalls, InCall
<1>5. PlanInv'
  BY PlanUntouched DEF LoopInv, LoopIsLeft, StepPoints, InCall
<1> QED
  BY <1>1, <1>2, <1>3, <1>4, <1>5 DEF LoopInv

LEMMA LoopInvStep ==
  ASSUME LoopInv, LoopMoves, LoopShape, ControllerOK'
  PROVE  LoopInv'
<1>1. CASE LoopRuns \/ StartTask
  <2>1. [LoopNext]_loopVars
    BY <1>1 DEF LoopNext
  <2> QED
    BY <2>1, TypesStep, AuthorisedStep, BudgetStep, AnsweredStep, PlanStep DEF LoopInv, TypeInv
<1>2. CASE LoopIsLeft
  BY <1>2, LoopInvLeft
<1> QED
  BY <1>1, <1>2 DEF LoopMoves
-----------------------------------------------------------------------------
(* Type correctness.                                                        *)

\* What is left of the types.
SurfaceOK ==
  /\ stopAsked \in BOOLEAN
  /\ out \in RuntimeEvents
  /\ breaks \in 0 .. MaxBreaks

RuntimeInv ==
  /\ SurfaceInv /\ LogInv /\ SurfaceOK
  /\ LoopShape /\ ParkInv /\ ControllerOK /\ LoopInv

LEMMA RuntimeInvInit == RuntimeInit => RuntimeInv
<1> SUFFICES ASSUME RuntimeInit PROVE RuntimeInv
  OBVIOUS
<1>1. SurfaceOK
  <2>1. stopAsked = FALSE /\ out = "none" /\ breaks = 0
    BY DEF RuntimeInit
  <2>2. breaks \in 0 .. MaxBreaks
    BY <2>1, RuntimeAssumption
  <2> QED
    BY <2>1, <2>2 DEF SurfaceOK, RuntimeEvents
<1>2. LoopShape
  BY NoEventIs DEF RuntimeInit, LoopInit, LoopShape, AskedForApproval, Finals
<1>3. ParkInv
  BY DEF RuntimeInit, LoopInit, ParkInv
<1>4. ControllerOK
  <2>1. "" \in Phases
    BY DEF Phases
  <2>2. task \in [phase : Phases, active : BOOLEAN]
    BY <2>1, StateTypes DEF RuntimeInit, ControllerInit
  <2>3. /\ agentIter = "none" /\ asyncActive = FALSE /\ directActive = FALSE
        /\ pendingTool = FALSE /\ approvalMeta = FALSE /\ stopRequested = FALSE
        /\ outcomes = <<>> /\ defaultMode = approvalMode /\ approvalMode \in ApprovalModes
    BY DEF RuntimeInit, ControllerInit, LoopInit
  <2>4. outcomes \in Seq(OutcomeKinds)
    BY <2>3, EmptySeq
  <2> QED
    BY <2>2, <2>3, <2>4 DEF ControllerOK
<1> QED
  BY <1>1, <1>2, <1>3, <1>4, SurfaceInit, LogInit, LoopInvInit DEF RuntimeInv

LEMMA SurfaceOKStep ==
  ASSUME SurfaceOK, [Next]_vars
  PROVE  SurfaceOK'
<1> USE DEF SurfaceOK
<1>1. CASE \E kind \in BreakKinds : AwaitBreaks(kind)
  BY <1>1, RuntimeAssumption DEF AwaitBreaks
<1>2. ASSUME NEW type, NEW next, Emit(type, next), type \in RuntimeEvents, UNCHANGED <<breaks, stopAsked>>
      PROVE  SurfaceOK'
  BY <1>2 DEF Emit
<1>3. /\ TurnEnds \subseteq RuntimeEvents
      /\ {"none", "turn_started", "route_selected", "agent_event", "stream_chunk",
          "approval_requested", "error"} \subseteq RuntimeEvents
  BY DEF RuntimeEvents
<1>4. CASE BeginTurn \/ (\E usable \in BOOLEAN : RefuseTurn(usable)) \/
           (\E done \in BOOLEAN : RelayChunk(done)) \/ (\E answered \in BOOLEAN : EndStream(answered)) \/
           StartEvents \/ RelayEvent \/ PauseForApproval \/ EndTurn \/ HandleInterrupt
  BY <1>2, <1>3, <1>4 DEF BeginTurn, RefuseTurn, RelayChunk, EndStream, StartEvents, RelayEvent,
     PauseForApproval, EndTurn, HandleInterrupt, TurnEnd, TurnEnds, surfaceVars
<1>5. CASE \E route \in Routes, toolsSupported \in BOOLEAN : TriageReturns(route, toolsSupported)
  BY <1>2, <1>3, <1>5 DEF TriageReturns
<1>6. CASE ResumeDecision
  BY <1>2, <1>3, <1>6 DEF ResumeDecision, surfaceVars
<1>7. CASE RenderEvent \/ EndDrain \/ HandleError \/ PopSubmission \/ EndIterator \/
           (\E fresh \in BOOLEAN : Dispatch(fresh)) \/ StartChat \/ StartDrain \/ LoopAdvances \/
           NextEvent \/ ResumeByPolicy \/ ApplyPolicy \/ AnswersPrompt \/
           (\E policy \in Policies, mode \in Modes : SubmitTurn(policy, mode)) \/ UNCHANGED vars
  BY <1>3, <1>7 DEF RenderEvent, EndDrain, HandleError, PopSubmission, EndIterator,
     Dispatch, StartChat, StartDrain, LoopAdvances, NextEvent, ResumeByPolicy, ApplyPolicy,
     AnswersPrompt, AnswerPrompt, SubmitTurn, vars, runtimeVars, iterVars, surfaceVars
<1> QED
  BY <1>1, <1>4, <1>5, <1>6, <1>7 DEF Next, SystemNext

LEMMA RuntimeInvStep == RuntimeInv /\ [Next]_vars => RuntimeInv'
<1> SUFFICES ASSUME RuntimeInv, [Next]_vars PROVE RuntimeInv'
  OBVIOUS
<1>1. SurfaceInv' /\ LogInv' /\ SurfaceOK'
  BY SurfaceStep, LogStep, SurfaceOKStep DEF RuntimeInv
<1>2. LoopMoves /\ LoopShape' /\ ParkInv' /\ ControllerOK'
  BY LoopMovesStep DEF RuntimeInv
<1>3. LoopInv'
  BY <1>2, LoopInvStep DEF RuntimeInv
<1> QED
  BY <1>1, <1>2, <1>3 DEF RuntimeInv

LEMMA RuntimeInvTypes == RuntimeInv => RuntimeTypeOK
<1> SUFFICES ASSUME RuntimeInv PROVE RuntimeTypeOK
  OBVIOUS
<1>1. LoopTypeOK
  BY DEF RuntimeInv, LoopInv, TypeInv
<1>2. /\ agentIter \in {"none", "fresh", "routed", "live"}
      /\ {asyncActive, directActive, pendingTool, approvalMeta, stopAsked} \subseteq BOOLEAN
      /\ task \in [phase : Phases, active : BOOLEAN]
      /\ outcomes \in Seq(OutcomeKinds)
      /\ defaultMode \in ApprovalModes
  BY DEF RuntimeInv, ControllerOK, SurfaceOK
<1>3. queue \in Seq(Entries)
  <2>1. \A q \in Entries : <<q>> \in Seq(Entries)
    OBVIOUS
  <2>2. <<>> \in Seq(Entries)
    BY EmptySeq
  <2> QED
    BY <2>1, <2>2 DEF RuntimeInv, SurfaceInv, QueueInv
<1>4. MaxTurns \in Nat /\ sub.id \in 0 .. MaxTurns
  BY RuntimeAssumption, EntryTyped DEF RuntimeInv, SurfaceInv, IterInv, NoSubmission
<1>5. sub \in [op : Operations, id : 0 .. MaxTurns, policy : Policies \union {"shell"},
               mode : Modes \union {"agent"}]
  BY <1>4 DEF RuntimeInv, SurfaceInv, IterInv, NoSubmission, Entries, Operations
<1>6. current \in 0 .. MaxTurns /\ pending \in 0 .. MaxTurns /\ turns \in 0 .. MaxTurns
  BY <1>4 DEF RuntimeInv, SurfaceInv, IterInv, LogInv
<1>7. /\ driver \in Drivers /\ out \in RuntimeEvents /\ ui \in {"prompt", "drain", "error", "exited"}
      /\ breaks \in 0 .. MaxBreaks /\ log \in Seq(Records)
  BY DEF RuntimeInv, SurfaceInv, IterInv, LogInv, SurfaceOK
<1> QED
  BY <1>1, <1>2, <1>3, <1>5, <1>6, <1>7 DEF RuntimeTypeOK, Entries, Records

\* The state of runtime, controller, loop and shell keeps its types for every
\* number of turns, every policy and every kind and number of exceptions: the
\* queue holds well formed submissions, the log well formed records of them.
THEOREM RuntimeTypes == Spec => []RuntimeTypeOK
BY RuntimeInvInit, RuntimeInvStep, RuntimeInvTypes, PTL DEF Spec

\* The guarantees of the loop (AgentLoop._ahandle_tool_calls_async, arun) hold
\* under the runtime too, which closes its generator at any yield or await,
\* keeps it across the approval pause of a turn, replaces the controller above
\* it and changes the approval mode below it.
THEOREM LoopUnderRuntime ==
  Spec => [](ExecutionAuthorised /\ EveryCallAnswered /\ RoundsWithinBudget /\ PlanInOrder)
<1>1. RuntimeInv => ExecutionAuthorised /\ EveryCallAnswered /\ RoundsWithinBudget /\ PlanInOrder
  <2>1. AuthorisedInv => ExecutionAuthorised
    BY DEF AuthorisedInv, ExecutionAuthorised, InCall
  <2>2. BudgetInv => RoundsWithinBudget
    BY DEF BudgetInv, RoundsWithinBudget, StepPoints
  <2>3. LoopTypeOK /\ AnsweredInv => EveryCallAnswered
    BY SeqIsFunction DEF LoopTypeOK, BatchLocals, AnsweredInv, AnsweredUpTo, EveryCallAnswered
  <2>4. PlanInv => PlanInOrder
    BY DEF PlanInv
  <2> QED
    BY <2>1, <2>2, <2>3, <2>4 DEF RuntimeInv, LoopInv, TypeInv
<1> QED
  BY <1>1, RuntimeInvInit, RuntimeInvStep, PTL DEF Spec
-----------------------------------------------------------------------------
(* One generator, and one task, at a time.                                  *)

Interrupting ==
  \/ queue # <<>> /\ Waiting.op = "interrupt"
  \/ driver = "ready" /\ sub.op = "interrupt"

\* Where the events of an agent turn are.  Outside of the turn its generator
\* is kept only while the user is asked, and until the answer is heard.
HeldInv ==
  /\ driver \in {"triage", "routed", "agent", "relay", "resume"} => sub.mode = "agent"
  /\ Asking => /\ agentIter = "live" /\ AskedForApproval /\ pending = sub.id
               /\ sub.policy = "shell" /\ sub.mode = "agent"
  /\ agentIter # "live" => pc = "idle" /\ event = NoEvent
  /\ agentIter # "none" =>
       driver \in {"routed", "agent", "relay", "resume", "last"} \/ Asking \/ Interrupting
  /\ agentIter # "none" /\ pending = sub.id => driver = "resume" \/ Asking \/ Interrupting
  /\ driver = "routed" /\ directActive => agentIter = "none"
  /\ driver \in {"turn", "triage"} => pending # sub.id

\* The turn may still append its outcome.
Open ==
  \/ driver \in {"routed", "agent", "resume"}
  \/ driver = "relay" /\ event.type \notin Finals
  \/ driver \in {"stream", "tail"} /\ sub.mode = "agent"
  \/ Asking

\* Somebody still answers for the task that the controller calls active: the
\* turn itself, the surface, or the interrupt that was submitted.
Answering ==
  \/ Open
  \/ driver = "dead" /\ ui \in {"error", "exited"} /\ sub.mode = "agent"
  \/ Interrupting

\* The final message is written with the end of the task and not before.
TaskInv ==
  /\ HasActiveTask => Answering
  /\ outcomes = <<>> \/ Len(outcomes) = 1
  /\ outcomes # <<>> => ~HasActiveTask
  /\ Open => outcomes = <<>>

LEMMA AnswerDue ==
  ASSUME SurfaceInv
  PROVE  /\ driver \notin {"none", "last", "dead", "ready"} => ~Asking /\ ~Interrupting
         /\ driver = "ready" => queue = <<>> /\ (Asking <=> sub.op \in Decisions)
                                /\ (Interrupting <=> sub.op = "interrupt")
         /\ ui # "drain" => (~Asking /\ ~Interrupting) \/ driver = "ready"
         /\ "interrupt" \notin Decisions /\ "turn" \notin Decisions
BY DEF SurfaceInv, QueueInv, IterInv, Asking, Interrupting, Decisions

\* The submission that is taken up is of the turn that ran last, or a turn.
LEMMA TakenUp ==
  ASSUME SurfaceInv, PopSubmission
  PROVE  /\ queue # <<>> /\ sub' = Waiting /\ driver' = "ready" /\ queue' = <<>> /\ out' = "none"
         /\ driver = "none" /\ out = "none" /\ sub'.op \in Operations
         /\ sub'.op # "turn" =>
              sub'.id = sub.id /\ sub'.policy = sub.policy /\ sub'.mode = sub.mode
         /\ sub'.op = "turn" => sub'.id = sub.id + 1 /\ sub.id \in Nat
         /\ (Asking <=> sub'.op \in Decisions) /\ (Interrupting <=> sub'.op = "interrupt")
         /\ (Asking' <=> sub'.op \in Decisions) /\ (Interrupting' <=> sub'.op = "interrupt")
<1>1. PICK q \in Entries : queue = <<q>>
  BY DEF PopSubmission, SurfaceInv, QueueInv
<1>2. /\ sub' = q /\ queue' = <<>> /\ driver' = "ready" /\ queue[1] = q /\ queue # <<>>
      /\ driver = "none" /\ out = "none" /\ out' = "none"
  BY <1>1, OneEntry DEF PopSubmission, Draining
<1>3. q.id \in 1 .. MaxTurns /\ q.op \in Operations /\ sub.id \in Nat
  BY EntryTyped DEF SurfaceInv, IterInv, NoSubmission
<1>4. /\ q.op # "turn" => q.id = sub.id /\ q.policy = sub.policy /\ q.mode = sub.mode
      /\ q.op = "turn" => q.id = sub.id + 1
  BY <1>2, <1>3 DEF SurfaceInv, QueueInv, Waiting
<1> QED
  BY <1>2, <1>3, <1>4 DEF Asking, Interrupting, Waiting

LEMMA HeldInit == RuntimeInit => HeldInv
BY DEF RuntimeInit, LoopInit, ControllerInit, HeldInv, Asking, NoSubmission

LEMMA HeldStep ==
  ASSUME RuntimeInv, HeldInv, TaskInv, [Next]_vars
  PROVE  HeldInv'
<1> USE DEF Draining
<1>s. SurfaceInv /\ LoopShape /\ LogInv
  BY DEF RuntimeInv
<1>a. driver \notin {"none", "last", "dead", "ready"} => ~Asking /\ ~Interrupting
  BY <1>s, AnswerDue
<1>b. driver' \notin {"none", "last", "dead", "ready"} => ~Asking' /\ ~Interrupting'
  <2>1. SurfaceInv'
    BY <1>s, SurfaceStep
  <2> QED
    BY <2>1 DEF SurfaceInv, QueueInv, IterInv, Asking, Interrupting, Decisions
\* A step that leaves the generator alone.
<1>c. ASSUME UNCHANGED <<taskVars, agentIter, sub, directActive>>,
             Asking' => Asking, Interrupting => Interrupting', Asking => Asking' \/ Interrupting',
             driver' = driver, pending' = pending
      PROVE  HeldInv'
  <2>1. pc' = pc /\ event' = event
    BY <1>c DEF taskVars
  <2> QED
    BY <1>c, <2>1 DEF HeldInv, AskedForApproval
<1>d. ASSUME UNCHANGED <<taskVars, agentIter, sub, directActive, pending, queue>>,
             driver \notin {"none", "last", "dead", "ready"}, out' # "approval_requested",
             driver' \in {"routed", "agent", "relay", "resume"} => driver \in {"routed", "agent", "relay", "resume"},
             driver' \in {"none", "dead", "stream", "tail"} => agentIter = "none",
             driver' \in {"triage"} => driver = "turn" /\ sub.mode = "agent",
             driver' \notin {"turn", "ready"},
             driver' = "routed" => driver = "routed",
             driver = "resume" => driver' = "resume"
      PROVE  HeldInv'
  <2>1. ~Asking' /\ ~Interrupting'
    BY <1>a, <1>d, <1>s DEF Asking, Interrupting, SurfaceInv, QueueInv, Waiting
  <2>2. pc' = pc /\ event' = event /\ ~Asking /\ ~Interrupting
    BY <1>a, <1>d DEF taskVars
  <2>3. driver' \in Drivers
    BY <1>s, SurfaceStep DEF SurfaceInv, IterInv
  <2> QED
    BY <1>d, <2>1, <2>2, <2>3 DEF HeldInv, Drivers
<1>e. ASSUME agentIter' = "none", CloseLoop, ~Asking', driver' \notin {"turn", "triage", "routed", "agent", "relay", "resume"}
      PROVE  HeldInv'
  BY <1>e DEF HeldInv, CloseLoop
<1>1. CASE RenderEvent
  BY <1>1, <1>c DEF RenderEvent, iterVars, Asking, Interrupting, Waiting, loopVars, controllerVars
<1>2. CASE EndDrain
  BY <1>2, <1>c DEF EndDrain, iterVars, Asking, Interrupting, Waiting, loopVars, controllerVars
<1>3. CASE HandleError
  <2>1. driver = "dead" /\ UNCHANGED <<taskVars, agentIter, defaultMode, queue, iterVars, out>>
    BY <1>3, <1>s DEF HandleError, SurfaceInv, IterInv
  <2>2. UNCHANGED <<Asking, Interrupting>>
    BY <2>1 DEF iterVars, Asking, Interrupting, Waiting
  <2> QED
    BY <2>1, <2>2 DEF HeldInv, iterVars, taskVars, AskedForApproval
<1>5. CASE PopSubmission
  <2>1. UNCHANGED <<taskVars, agentIter, directActive, pending>>
    BY <1>5 DEF PopSubmission, loopVars, controllerVars
  <2>2. Operations = {"turn", "interrupt"} \union Decisions
    BY DEF Operations
  <2>3. pc' = pc /\ event' = event /\ (AskedForApproval' <=> AskedForApproval)
    BY <2>1 DEF taskVars, AskedForApproval
  <2>4. pending \in 0 .. sub.id
    BY <1>s DEF LogInv
  <2>5. driver' = "ready" /\ driver = "none"
    BY <1>5, <1>s, TakenUp
  <2>6. CASE sub'.op = "turn"
    <3>1. ~Asking /\ ~Interrupting /\ ~Asking' /\ ~Interrupting'
      BY <1>5, <1>s, <2>6, TakenUp DEF Decisions
    <3>2. agentIter = "none"
      BY <2>5, <3>1 DEF HeldInv
    <3> QED
      BY <2>1, <2>3, <2>5, <3>1, <3>2 DEF HeldInv
  <2>7. CASE sub'.op # "turn"
    <3>1. sub'.id = sub.id /\ sub'.policy = sub.policy /\ sub'.mode = sub.mode
      BY <1>5, <1>s, <2>7, TakenUp
    <3>2. (Asking' <=> Asking) /\ (Interrupting' <=> Interrupting)
      BY <1>5, <1>s, TakenUp
    <3> QED
      BY <2>1, <2>3, <2>5, <3>1, <3>2 DEF HeldInv
  <2> QED
    BY <2>6, <2>7
<1>6. CASE EndIterator
  <2>1. UNCHANGED <<sub, pending, queue, out>> /\ driver \in {"last", "dead"} /\ driver' = "none"
    BY <1>6 DEF EndIterator
  <2>2. UNCHANGED <<Asking, Interrupting>>
    BY <2>1 DEF Asking, Interrupting, Waiting
  <2>3. CASE pending # sub.id /\ agentIter # "none"
    <3>1. agentIter' = "none" /\ CloseLoop /\ ~Asking
      BY <1>6, <2>3 DEF EndIterator, DropLoop, HeldInv
    <3> QED
      BY <1>e, <2>1, <2>2, <3>1
  <2>4. CASE ~(pending # sub.id /\ agentIter # "none")
    <3>1. UNCHANGED <<taskVars, agentIter, directActive>>
      BY <1>6, <2>4 DEF EndIterator
    <3> QED
      BY <2>1, <2>2, <2>4, <3>1 DEF HeldInv, taskVars, AskedForApproval
  <2> QED
    BY <2>3, <2>4
<1>7. CASE BeginTurn
  <2>1. /\ UNCHANGED <<taskVars, agentIter, directActive, sub, pending, queue>> /\ driver' = "turn"
        /\ driver = "ready" /\ sub.op = "turn"
    BY <1>7 DEF BeginTurn, Emit, loopVars, controllerVars
  <2>2. pending # sub.id
    BY <2>1, <1>s DEF LogInv, NotBegun
  <2>3. ~Asking /\ ~Interrupting
    BY <1>s, <2>1, AnswerDue
  <2> QED
    BY <1>b, <2>1, <2>2, <2>3 DEF HeldInv, taskVars, AskedForApproval
<1>8. CASE \E usable \in BOOLEAN : RefuseTurn(usable)
  BY <1>8, <1>d DEF RefuseTurn, Emit, loopVars, controllerVars
<1>9. CASE \E fresh \in BOOLEAN : Dispatch(fresh)
  <2>1. /\ UNCHANGED <<taskVars, agentIter, sub, pending, queue>> /\ driver' = "triage" /\ driver = "turn"
        /\ sub.mode = "agent"
    BY <1>9 DEF Dispatch
  <2> QED
    BY <1>a, <1>b, <2>1 DEF HeldInv, taskVars, AskedForApproval
<1>10. CASE StartChat
  BY <1>10, <1>a, <1>d DEF StartChat, loopVars, controllerVars, HeldInv
<1>11. CASE \E route \in Routes, toolsSupported \in BOOLEAN : TriageReturns(route, toolsSupported)
  <2>1. PICK route \in Routes, toolsSupported \in BOOLEAN : TriageReturns(route, toolsSupported)
    BY <1>11
  <2>2. /\ UNCHANGED <<taskVars, sub, pending, queue>> /\ driver = "triage" /\ driver' \in {"routed", "dead"}
        /\ out' # "approval_requested"
    BY <2>1 DEF TriageReturns, Emit
  <2>3. agentIter = "none" /\ ~HasActiveTask /\ pending # sub.id /\ queue = <<>>
    BY <1>a, <1>s, <2>2 DEF HeldInv, TaskInv, Answering, Open, SurfaceInv, QueueInv
  <2>4. ~Asking' /\ ~Interrupting'
    BY <2>2, <2>3 DEF Asking, Interrupting
  <2>5. driver' = "dead" => agentIter' = agentIter
    BY <2>1 DEF TriageReturns, RouteInput, Emit
  <2>6. agentIter' \in {"none", "fresh"} /\ (directActive' => agentIter' = "none")
    BY <2>1, <2>3 DEF TriageReturns, RouteInput, HasActiveTask
  <2> QED
    BY <2>2, <2>3, <2>4, <2>5, <2>6 DEF HeldInv, taskVars
<1>12. CASE StartDrain
  BY <1>12, <1>d DEF StartDrain, loopVars, controllerVars, HeldInv
<1>13. CASE \E done \in BOOLEAN : RelayChunk(done)
  BY <1>13, <1>a, <1>d DEF RelayChunk, Emit, loopVars, controllerVars, HeldInv
<1>14. CASE \E answered \in BOOLEAN : EndStream(answered)
  <2>1. /\ UNCHANGED <<taskVars, sub, pending, queue>> /\ driver \in {"stream", "tail"} /\ driver' = "last"
        /\ out' # "approval_requested"
    BY <1>14 DEF EndStream, Emit
  <2>2. agentIter' = agentIter
    BY <1>14 DEF EndStream, StreamEnds, FinishDirectAnswer, controllerVars
  <2>3. ~Asking' /\ queue = <<>>
    BY <1>s, <2>1 DEF Asking, SurfaceInv, QueueInv
  <2> QED
    BY <1>a, <2>1, <2>2, <2>3 DEF HeldInv, taskVars
<1>15. CASE StartEvents
  <2>1. /\ UNCHANGED <<taskVars, sub, pending, queue>> /\ driver = "agent" /\ driver' = "relay"
        /\ agentIter = "fresh" /\ agentIter' = "routed"
    BY <1>15 DEF StartEvents, Emit, loopVars
  <2> QED
    BY <1>a, <1>b, <2>1 DEF HeldInv, taskVars
<1>16. CASE LoopAdvances
  <2>1. UNCHANGED <<sub, pending, queue, driver>> /\ agentIter' = "live" /\ driver \in {"agent", "resume"}
        /\ agentIter # "none"
    BY <1>16 DEF LoopAdvances, runtimeVars, iterVars
  <2> QED
    BY <1>a, <1>b, <2>1 DEF HeldInv
<1>17. CASE RelayEvent
  <2>1. /\ UNCHANGED <<taskVars, agentIter, sub, queue>> /\ driver \in {"agent", "resume"} /\ driver' = "relay"
        /\ pending' = IF driver = "resume" THEN 0 ELSE pending
    BY <1>17 DEF RelayEvent, Emit
  <2>2. sub.id # 0
    BY <1>s, <2>1 DEF SurfaceInv, IterInv
  <2> QED
    BY <1>a, <1>b, <2>1, <2>2 DEF HeldInv, taskVars
<1>18. CASE NextEvent
  <2>1. /\ UNCHANGED <<pc, agentIter, sub, pending, queue>> /\ driver = "relay" /\ driver' = "agent" /\ event' = NoEvent
    BY <1>18 DEF NextEvent, controllerVars
  <2> QED
    BY <1>a, <1>b, <2>1 DEF HeldInv
<1>19. CASE ResumeByPolicy
  <2>1. /\ UNCHANGED <<pc, agentIter, sub, queue>> /\ driver = "relay" /\ driver' = "resume" /\ event' = NoEvent
    BY <1>19 DEF ResumeByPolicy, controllerVars
  <2> QED
    BY <1>a, <1>b, <2>1 DEF HeldInv
<1>20. CASE ApplyPolicy
  <2>1. UNCHANGED <<pc, event, agentIter, sub, pending, queue, driver>> /\ driver = "resume"
    BY <1>20 DEF ApplyPolicy, ApplyToolApproval, runtimeVars, iterVars
  <2> QED
    BY <1>a, <1>b, <2>1 DEF HeldInv
<1>21. CASE PauseForApproval
  <2>1. /\ UNCHANGED <<taskVars, agentIter, sub, queue>> /\ driver = "relay" /\ driver' = "last"
        /\ AskedForApproval /\ sub.policy = "shell" /\ pending' = sub.id /\ out' = "approval_requested"
    BY <1>21 DEF PauseForApproval, Emit, loopVars, controllerVars
  <2>2. Asking'
    BY <2>1 DEF Asking
  <2>3. agentIter = "live"
    BY <2>1, NoEventIs DEF HeldInv, AskedForApproval
  <2> QED
    BY <2>1, <2>2, <2>3 DEF HeldInv, taskVars, AskedForApproval
<1>22. CASE EndTurn
  <2>1. TurnEnd(event.type) # "approval_requested"
    BY DEF TurnEnd
  <2> QED
    BY <1>22, <2>1, <1>d DEF EndTurn, Emit, loopVars, controllerVars
<1>23. CASE ResumeDecision
  <2>1. pending = sub.id /\ agentIter = "live" /\ sub.mode = "agent" /\ driver = "ready"
    BY <1>23, <1>s, AnswerDue DEF ResumeDecision, HeldInv
  <2>2. UNCHANGED <<pc, agentIter, sub>> /\ event' = NoEvent /\ driver' = "agent" /\ pending' = 0
    BY <1>23, <2>1 DEF ResumeDecision, ApplyToolApproval
  <2>3. sub.id # 0
    BY <1>s, <2>1 DEF SurfaceInv, IterInv
  <2> QED
    BY <1>b, <2>1, <2>2, <2>3 DEF HeldInv
<1>24. CASE HandleInterrupt
  <2>1. agentIter' = "none" /\ CloseLoop /\ driver' = "last" /\ out' = "turn_interrupted" /\ queue' = queue
    BY <1>24 DEF HandleInterrupt, DropLoop, Emit
  <2>2. ~Asking'
    BY <1>24, <1>s, <2>1, AnswerDue DEF Asking, HandleInterrupt
  <2> QED
    BY <1>e, <2>1, <2>2
<1>25. CASE AnswersPrompt
  <2>1. PICK op \in Decisions \union {"interrupt"} : AnswerPrompt(op)
    BY <1>25 DEF AnswersPrompt
  <2>2. driver = "last" /\ current = sub.id /\ sub \in Entries /\ queue = <<>> /\ Asking
    BY <2>1, <1>s DEF AnswerPrompt, Asking, SurfaceInv, QueueInv, IterInv, NoSubmission
  <2>3. queue' = <<WithinTurn(op, sub.id)>>
    BY <2>1, <2>2, OneEntry DEF AnswerPrompt
  <2>4. queue'[1].op = op /\ queue' # <<>>
    BY <2>2, <2>3, OneEntry, WithinTurnIsEntry DEF Operations
  <2>5. Asking' \/ Interrupting'
    BY <2>4 DEF Asking, Interrupting, Waiting
  <2>6. ~Interrupting
    BY <2>2 DEF Interrupting
  <2> QED
    BY <2>1, <2>2, <2>5, <2>6, <1>c DEF AnswerPrompt, iterVars, loopVars, controllerVars
<1>26. CASE \E policy \in Policies, mode \in Modes : SubmitTurn(policy, mode)
  <2>1. PICK policy \in Policies, mode \in Modes : SubmitTurn(policy, mode)
    BY <1>26
  <2> DEFINE q == [op |-> "turn", id |-> turns + 1, policy |-> policy, mode |-> mode]
  <2>2. queue = <<>> /\ driver \in {"none", "dead"} /\ out = "none"
    BY <2>1, <1>s DEF SubmitTurn, SurfaceInv, QueueInv, IterInv
  <2>3. queue' = <<q>> /\ q.op = "turn"
    BY <2>1, <2>2, OneEntry DEF SubmitTurn
  <2> HIDE DEF q
  <2>4. queue'[1].op = "turn"
    BY <2>3, OneEntry
  <2>5. ~Asking /\ ~Interrupting /\ ~Asking'
    BY <2>1, <2>2, <2>4 DEF SubmitTurn, iterVars, Asking, Interrupting, Waiting, Decisions
  <2> QED
    BY <2>1, <2>5, <1>c DEF SubmitTurn, iterVars, loopVars, controllerVars
<1>27. CASE \E kind \in BreakKinds : AwaitBreaks(kind)
  <2>1. UNCHANGED <<queue, sub, pending, out>> /\ driver' = "dead" /\ driver \in {"triage", "agent", "resume", "stream", "tail"}
    BY <1>27 DEF AwaitBreaks
  <2>2. ~Asking'
    BY <1>s, <2>1 DEF SurfaceInv, QueueInv, IterInv, Asking
  <2>3. CASE driver \in {"agent", "resume"}
    <3>1. agentIter' = "none" /\ CloseLoop
      BY <1>27, <2>3 DEF AwaitBreaks, AwaitRaises, GoTo, CloseLoop
    <3> QED
      BY <2>1, <2>2, <3>1, <1>e
  <2>4. CASE driver \in {"triage", "stream", "tail"}
    <3>1. UNCHANGED taskVars /\ agentIter' = agentIter
      BY <1>27, <2>4 DEF AwaitBreaks, controllerVars, StreamEnds, FinishDirectAnswer
    <3>2. agentIter = "none"
      BY <1>a, <2>4 DEF HeldInv
    <3> QED
      BY <2>1, <2>2, <3>1, <3>2 DEF HeldInv, taskVars
  <2> QED
    BY <2>1, <2>3, <2>4
<1>28. CASE UNCHANGED vars
  BY <1>28, <1>c DEF vars, runtimeVars, iterVars, surfaceVars, loopVars, controllerVars, Asking, Interrupting, Waiting
<1> QED
  BY <1>1, <1>2, <1>3, <1>5, <1>6, <1>7, <1>8, <1>9, <1>10, <1>11, <1>12, <1>13, <1>14,
     <1>15, <1>16, <1>17, <1>18, <1>19, <1>20, <1>21, <1>22, <1>23, <1>24, <1>25, <1>26, <1>27,
     <1>28 DEF Next, SystemNext

LEMMA TaskInit == RuntimeInit => TaskInv
BY DEF RuntimeInit, ControllerInit, TaskInv, Open, Asking, HasActiveTask

\* How a final message is written.
LEMMA OneMessage ==
  ASSUME NEW kind, outcomes = <<>>, RecordOutcome(kind)
  PROVE  ~HasActiveTask' /\ Len(outcomes') = 1
<1>1. outcomes' = <<kind>>
  BY OneEntry DEF RecordOutcome
<1> QED
  BY <1>1 DEF RecordOutcome, FinishTask, HasActiveTask

LEMMA StopWritesOnce ==
  ASSUME TaskInv, StopController
  PROVE  ~HasActiveTask' /\ (outcomes' = <<>> \/ Len(outcomes') = 1)
<1>1. CASE HasActiveTask
  <2>1. outcomes = <<>> /\ RecordOutcome("stopped")
    BY <1>1 DEF TaskInv, StopController
  <2> QED
    BY <2>1, OneMessage
<1>2. CASE ~HasActiveTask
  BY <1>2 DEF TaskInv, StopController, ControllerStays, HasActiveTask
<1> QED
  BY <1>1, <1>2

LEMMA StreamWritesOnce ==
  ASSUME TaskInv, driver \in {"stream", "tail"}, ~Asking, ~Interrupting,
         NEW answered, StreamEnds(answered)
  PROVE  ~HasActiveTask' /\ (outcomes' = <<>> \/ Len(outcomes') = 1)
<1>1. CASE sub.mode = "agent"
  <2>1. outcomes = <<>> /\ FinishDirectAnswer(answered)
    BY <1>1 DEF TaskInv, Open, StreamEnds
  <2>2. outcomes' = <<>> \/ outcomes' = <<"direct_answer">>
    BY <2>1, OneEntry DEF FinishDirectAnswer
  <2> QED
    BY <2>1, <2>2 DEF FinishDirectAnswer, FinishTask, HasActiveTask
<1>2. CASE sub.mode # "agent"
  <2>1. ~HasActiveTask
    BY <1>2 DEF TaskInv, Answering, Open
  <2> QED
    BY <1>2, <2>1 DEF StreamEnds, controllerVars, TaskInv, HasActiveTask
<1> QED
  BY <1>1, <1>2

LEMMA TaskStep ==
  ASSUME RuntimeInv, HeldInv, TaskInv, [Next]_vars
  PROVE  TaskInv'
<1> USE DEF Draining
<1>s. SurfaceInv /\ LoopShape
  BY DEF RuntimeInv
<1>a. driver \notin {"none", "last", "dead", "ready"} => ~Asking /\ ~Interrupting /\ queue = <<>>
  BY <1>s, AnswerDue DEF SurfaceInv, QueueInv
\* A step that leaves the task alone.
<1>c. ASSUME UNCHANGED <<asyncActive, directActive, pendingTool, outcomes>>,
             Answering => Answering', Open' => Open
      PROVE  TaskInv'
  BY <1>c DEF TaskInv, HasActiveTask
\* A step after which no task is active.
<1>d. ASSUME ~HasActiveTask', outcomes' = <<>> \/ Len(outcomes') = 1,
             driver' \in {"none", "ready", "turn", "triage", "last", "dead"}, ~Asking'
      PROVE  TaskInv'
  BY <1>d DEF TaskInv, Open
\* A step within a turn that has not written its outcome.
<1>e. ASSUME Open, Open', outcomes' = outcomes
      PROVE  TaskInv'
  BY <1>e DEF TaskInv, Answering
\* An event that is handed over asks for no approval.
<1>f. ASSUME queue' = queue, out' # "approval_requested", queue = <<>>, driver' # "ready"
      PROVE  ~Asking' /\ ~Interrupting'
  BY <1>f DEF Asking, Interrupting
<1>n. NoEvent.type \notin Finals
  BY NoEventIs DEF Finals
<1>1. CASE RenderEvent
  <2>1. /\ UNCHANGED <<asyncActive, directActive, pendingTool, outcomes, event, queue, driver, sub, ui>>
        /\ out # "approval_requested" /\ out' = "none"
    BY <1>1 DEF RenderEvent, iterVars, surfaceVars, loopVars, taskVars, controllerVars
  <2>2. (Asking' <=> Asking) /\ (Interrupting' <=> Interrupting)
    BY <2>1 DEF Asking, Interrupting, Waiting
  <2> QED
    BY <1>c, <2>1, <2>2 DEF Answering, Open
<1>2. CASE EndDrain
  BY <1>2, <1>c DEF EndDrain, iterVars, Answering, Open, Asking, Interrupting, Waiting, loopVars, controllerVars
<1>3. CASE HandleError
  <2>1. driver = "dead" /\ UNCHANGED <<queue, iterVars, out>> /\ queue = <<>> /\ out = "none"
    BY <1>3, <1>s DEF HandleError, SurfaceInv, QueueInv, IterInv
  <2>2. ~Asking /\ ~Interrupting
    BY <2>1 DEF Asking, Interrupting
  <2>3. driver' = "dead" /\ ~Asking'
    BY <2>1 DEF Asking, iterVars
  <2>4. CASE sub.mode = "agent"
    BY <1>3, <1>d, <2>3, <2>4, StopWritesOnce DEF HandleError
  <2>5. CASE sub.mode # "agent"
    <3>1. ~HasActiveTask
      BY <2>1, <2>2, <2>5 DEF TaskInv, Answering, Open
    <3>2. ~HasActiveTask' /\ outcomes' = outcomes
      BY <1>3, <2>5, <3>1 DEF HandleError, ControllerStays, HasActiveTask
    <3> QED
      BY <1>d, <2>3, <3>2 DEF TaskInv
  <2> QED
    BY <2>4, <2>5
<1>5. CASE PopSubmission
  <2>1. /\ UNCHANGED <<asyncActive, directActive, pendingTool, outcomes>>
        /\ driver = "none" /\ driver' = "ready"
    BY <1>5 DEF PopSubmission, controllerVars
  <2>2. (Asking' <=> Asking) /\ (Interrupting' <=> Interrupting)
    BY <1>5, <1>s, TakenUp
  <2> QED
    BY <1>c, <2>1, <2>2 DEF Answering, Open
<1>6. CASE EndIterator
  <2>1. /\ UNCHANGED <<directActive, pendingTool, outcomes, queue, out>> /\ ui = "drain"
        /\ driver \in {"last", "dead"} /\ driver' = "none" /\ (asyncActive' => asyncActive)
    BY <1>6 DEF EndIterator
  <2>2. (Asking' <=> Asking) /\ (Interrupting' <=> Interrupting)
    BY <2>1 DEF Asking, Interrupting, Waiting
  <2>3. (Open' <=> Asking) /\ (Open <=> Asking) /\ (Answering => Answering')
    BY <2>1, <2>2 DEF Answering, Open
  <2>4. HasActiveTask' => HasActiveTask
    BY <2>1 DEF HasActiveTask
  <2> QED
    BY <2>1, <2>3, <2>4 DEF TaskInv
<1>7. CASE BeginTurn
  <2>1. /\ UNCHANGED <<asyncActive, directActive, pendingTool, outcomes, queue>>
        /\ driver = "ready" /\ driver' = "turn" /\ out' = "turn_started" /\ sub.op = "turn"
    BY <1>7 DEF BeginTurn, Emit, controllerVars
  <2>2. ~Asking /\ ~Interrupting /\ queue = <<>>
    BY <1>s, <2>1, AnswerDue
  <2> QED
    BY <1>c, <1>f, <2>1, <2>2 DEF Answering, Open
<1>8. CASE \E usable \in BOOLEAN : RefuseTurn(usable)
  <2>1. /\ UNCHANGED <<asyncActive, directActive, pendingTool, outcomes, queue>>
        /\ driver = "turn" /\ driver' = "last" /\ out' = "turn_failed"
    BY <1>8 DEF RefuseTurn, Emit, controllerVars
  <2> QED
    BY <1>a, <1>c, <1>f, <2>1 DEF Answering, Open
<1>9. CASE \E fresh \in BOOLEAN : Dispatch(fresh)
  <2>1. UNCHANGED <<outcomes, queue, out>> /\ driver = "turn" /\ driver' = "triage" /\ out = "none"
    BY <1>9 DEF Dispatch
  <2>2. ~HasActiveTask
    BY <1>a, <2>1 DEF TaskInv, Answering, Open
  <2>3. ~HasActiveTask'
    BY <1>9, <2>2 DEF Dispatch, HasActiveTask
  <2> QED
    BY <1>a, <1>d, <1>f, <2>1, <2>3 DEF TaskInv
<1>10. CASE StartChat
  <2>1. /\ UNCHANGED <<asyncActive, directActive, pendingTool, outcomes, queue, out, sub>>
        /\ driver = "turn" /\ driver' = "stream" /\ out = "none" /\ sub.mode = "chat"
    BY <1>10 DEF StartChat, controllerVars
  <2> QED
    BY <1>a, <1>c, <1>f, <2>1 DEF Answering, Open
<1>11. CASE \E route \in Routes, toolsSupported \in BOOLEAN : TriageReturns(route, toolsSupported)
  <2>1. PICK route \in Routes, toolsSupported \in BOOLEAN : TriageReturns(route, toolsSupported)
    BY <1>11
  <2>2. outcomes' = <<>> /\ driver = "triage" /\ driver' \in {"routed", "dead"}
    BY <2>1 DEF TriageReturns, RouteInput, Emit
  <2>3. ~HasActiveTask
    BY <1>a, <2>2 DEF TaskInv, Answering, Open
  <2>4. driver' = "dead" => ~HasActiveTask'
    BY <2>1, <2>3 DEF TriageReturns, RouteInput, HasActiveTask, Emit
  <2> QED
    BY <2>2, <2>4 DEF TaskInv, Answering, Open
<1>12. CASE StartDrain
  <2>1. /\ outcomes' = outcomes /\ driver = "routed" /\ driver' \in {"stream", "agent"} /\ sub' = sub
    BY <1>12 DEF StartDrain, controllerVars
  <2> QED
    BY <1>e, <2>1 DEF Open, HeldInv
<1>13. CASE \E done \in BOOLEAN : RelayChunk(done)
  <2>1. /\ UNCHANGED <<asyncActive, directActive, pendingTool, outcomes, queue, sub>>
        /\ driver = "stream" /\ driver' \in {"stream", "tail"} /\ out' # "approval_requested"
    BY <1>13 DEF RelayChunk, Emit, controllerVars
  <2> QED
    BY <1>a, <1>c, <1>f, <2>1 DEF Answering, Open
<1>14. CASE \E answered \in BOOLEAN : EndStream(answered)
  <2>1. PICK answered \in BOOLEAN : EndStream(answered)
    BY <1>14
  <2>2. /\ StreamEnds(answered) /\ driver \in {"stream", "tail"} /\ driver' = "last"
        /\ out' # "approval_requested" /\ queue' = queue
    BY <2>1 DEF EndStream, Emit
  <2>3. ~HasActiveTask' /\ (outcomes' = <<>> \/ Len(outcomes') = 1)
    BY <1>a, <2>2, StreamWritesOnce
  <2> QED
    BY <1>a, <1>d, <1>f, <2>2, <2>3
<1>15. CASE StartEvents
  <2>1. /\ outcomes' = outcomes /\ event' = event /\ driver = "agent" /\ driver' = "relay"
        /\ agentIter = "fresh"
    BY <1>15 DEF StartEvents, Emit, loopVars, taskVars
  <2> QED
    BY <1>e, <1>n, <2>1 DEF Open, HeldInv
<1>16. CASE LoopAdvances
  <2>1. outcomes' = outcomes /\ driver \in {"agent", "resume"} /\ driver' = driver
    BY <1>16 DEF LoopAdvances, runtimeVars, iterVars
  <2> QED
    BY <1>e, <2>1 DEF Open
<1>17. CASE RelayEvent
  <2>1. /\ driver \in {"agent", "resume"} /\ driver' = "relay" /\ out' = "agent_event"
        /\ event' = event /\ RecordEvent(event) /\ queue' = queue
    BY <1>17 DEF RelayEvent, Emit, taskVars
  <2>2. Open /\ outcomes = <<>>
    BY <2>1 DEF Open, TaskInv
  <2>3. CASE event.type \in Finals
    <3>1. RecordOutcome(OutcomeOf(event.type))
      BY <2>1, <2>3 DEF RecordEvent, Finals
    <3>2. ~HasActiveTask' /\ Len(outcomes') = 1
      BY <2>2, <3>1, OneMessage
    <3>3. ~Open'
      BY <1>a, <1>f, <2>1, <2>3 DEF Open
    <3> QED
      BY <3>2, <3>3 DEF TaskInv
  <2>4. CASE event.type \notin Finals
    <3>1. outcomes' = outcomes
      BY <2>1, <2>4 DEF RecordEvent, RecordState
    <3> QED
      BY <1>e, <2>1, <2>2, <2>4, <3>1 DEF Open
  <2> QED
    BY <2>3, <2>4
<1>18. CASE NextEvent
  BY <1>18, <1>e DEF NextEvent, Open, controllerVars
<1>19. CASE ResumeByPolicy
  <2>1. AskedForApproval => event.type \notin Finals
    BY DEF AskedForApproval, Finals
  <2> QED
    BY <1>19, <2>1, <1>e DEF ResumeByPolicy, Open, controllerVars
<1>20. CASE ApplyPolicy
  BY <1>20, <1>e DEF ApplyPolicy, ApplyToolApproval, runtimeVars, iterVars, Open
<1>21. CASE PauseForApproval
  <2>1. AskedForApproval => event.type \notin Finals
    BY DEF AskedForApproval, Finals
  <2>2. Asking'
    BY <1>21 DEF PauseForApproval, Emit, Asking
  <2> QED
    BY <1>21, <2>1, <2>2, <1>e DEF PauseForApproval, Open, controllerVars
<1>22. CASE EndTurn
  <2>1. TurnEnd(event.type) # "approval_requested"
    BY DEF TurnEnd
  <2>2. /\ UNCHANGED <<asyncActive, directActive, pendingTool, outcomes, queue>>
        /\ driver = "relay" /\ driver' = "last" /\ out' # "approval_requested" /\ event.type \in Finals
    BY <1>22, <2>1 DEF EndTurn, Emit, controllerVars
  <2> QED
    BY <1>a, <1>c, <1>f, <2>2 DEF Answering, Open
<1>23. CASE ResumeDecision
  <2>1. Asking /\ pending = sub.id
    BY <1>23, <1>s, AnswerDue DEF ResumeDecision, HeldInv
  <2>2. outcomes' = outcomes /\ driver' = "agent"
    BY <1>23, <2>1 DEF ResumeDecision, ApplyToolApproval
  <2> QED
    BY <1>e, <2>1, <2>2 DEF Open
<1>24. CASE HandleInterrupt
  <2>1. /\ StopController /\ driver = "ready" /\ driver' = "last" /\ out' = "turn_interrupted"
        /\ queue' = queue
    BY <1>24 DEF HandleInterrupt, Emit
  <2>2. ~Asking'
    BY <1>s, <2>1, <1>f, AnswerDue
  <2> QED
    BY <1>d, <2>1, <2>2, StopWritesOnce
<1>25. CASE AnswersPrompt
  <2>1. PICK op \in Decisions \union {"interrupt"} : AnswerPrompt(op)
    BY <1>25 DEF AnswersPrompt
  <2>2. driver = "last" /\ current = sub.id /\ sub \in Entries /\ queue = <<>> /\ Asking
    BY <2>1, <1>s DEF AnswerPrompt, Asking, SurfaceInv, QueueInv, IterInv, NoSubmission
  <2>3. queue' = <<WithinTurn(op, sub.id)>>
    BY <2>1, <2>2, OneEntry DEF AnswerPrompt
  <2>4. queue'[1].op = op /\ queue' # <<>>
    BY <2>2, <2>3, OneEntry, WithinTurnIsEntry DEF Operations
  <2>5. Asking' \/ Interrupting'
    BY <2>4 DEF Asking, Interrupting, Waiting
  <2>6. UNCHANGED <<asyncActive, directActive, pendingTool, outcomes>>
    BY <2>1 DEF AnswerPrompt, controllerVars
  <2> QED
    BY <1>c, <2>2, <2>5, <2>6 DEF Answering, Open
<1>26. CASE \E policy \in Policies, mode \in Modes : SubmitTurn(policy, mode)
  <2>1. PICK policy \in Policies, mode \in Modes : SubmitTurn(policy, mode)
    BY <1>26
  <2> DEFINE q == [op |-> "turn", id |-> turns + 1, policy |-> policy, mode |-> mode]
  <2>2. queue = <<>> /\ driver \in {"none", "dead"} /\ out = "none" /\ ui = "prompt"
    BY <2>1, <1>s DEF SubmitTurn, SurfaceInv, QueueInv, IterInv
  <2>3. queue' = <<q>> /\ q.op = "turn"
    BY <2>1, <2>2, OneEntry DEF SubmitTurn
  <2> HIDE DEF q
  <2>4. queue'[1].op = "turn"
    BY <2>3, OneEntry
  <2>5. UNCHANGED <<asyncActive, directActive, pendingTool, outcomes, driver, out>>
    BY <2>1 DEF SubmitTurn, iterVars, controllerVars
  <2>6. ~Asking /\ ~Interrupting /\ ~Asking'
    BY <2>2, <2>4, <2>5 DEF Asking, Interrupting, Waiting, Decisions
  <2> QED
    BY <1>c, <2>2, <2>5, <2>6 DEF Answering, Open
<1>27. CASE \E kind \in BreakKinds : AwaitBreaks(kind)
  <2>1. PICK kind \in BreakKinds : AwaitBreaks(kind)
    BY <1>27
  <2>2. /\ UNCHANGED <<queue, sub, out>> /\ driver' = "dead" /\ ui' \in {"error", "exited"} /\ out = "none"
        /\ driver \in {"triage", "agent", "resume", "stream", "tail"}
    BY <2>1, RuntimeAssumption DEF AwaitBreaks
  <2>3. ~Asking'
    BY <1>a, <1>f, <2>2
  <2>4. CASE driver = "triage"
    <3>1. ~HasActiveTask
      BY <1>a, <2>4 DEF TaskInv, Answering, Open
    <3>2. ~HasActiveTask' /\ outcomes' = outcomes
      BY <2>1, <2>4, <3>1 DEF AwaitBreaks, controllerVars, HasActiveTask
    <3> QED
      BY <1>d, <2>2, <2>3, <3>2 DEF TaskInv
  <2>5. CASE driver \in {"agent", "resume"}
    <3>1. outcomes = <<>> /\ outcomes' = outcomes /\ sub.mode = "agent"
      BY <2>1, <2>5 DEF AwaitBreaks, TaskInv, Open, HeldInv
    <3>2. Answering'
      BY <2>2, <3>1 DEF Answering
    <3> QED
      BY <3>1, <3>2 DEF TaskInv
  <2>6. CASE driver \in {"stream", "tail"}
    <3>1. PICK answered \in BOOLEAN : StreamEnds(answered)
      BY <2>1, <2>6 DEF AwaitBreaks
    <3>2. ~HasActiveTask' /\ (outcomes' = <<>> \/ Len(outcomes') = 1)
      BY <1>a, <2>6, <3>1, StreamWritesOnce
    <3> QED
      BY <1>d, <2>2, <2>3, <3>2
  <2> QED
    BY <2>2, <2>4, <2>5, <2>6
<1>28. CASE UNCHANGED vars
  BY <1>28, <1>c DEF vars, runtimeVars, iterVars, surfaceVars, loopVars, controllerVars, taskVars,
     Answering, Open, Asking, Interrupting, Waiting
<1> QED
  BY <1>1, <1>2, <1>3, <1>5, <1>6, <1>7, <1>8, <1>9, <1>10, <1>11, <1>12, <1>13, <1>14,
     <1>15, <1>16, <1>17, <1>18, <1>19, <1>20, <1>21, <1>22, <1>23, <1>24, <1>25, <1>26, <1>27,
     <1>28 DEF Next, SystemNext

LEMMA OneTaskInit == RuntimeInit => RuntimeInv /\ HeldInv /\ TaskInv
BY RuntimeInvInit, HeldInit, TaskInit

LEMMA OneTaskStep == RuntimeInv /\ HeldInv /\ TaskInv /\ [Next]_vars => (RuntimeInv /\ HeldInv /\ TaskInv)'
BY RuntimeInvStep, HeldStep, TaskStep

\* The stop of the controller, the end of the loop (_record_outcome) and the end
\* of a direct answer never both append their message: each of them finds the
\* task no longer active when another has ended it, at whatever await or yield,
\* and after whatever exception, that happened.
THEOREM OneMessageForATask == Spec => []OneOutcome
<1>1. Len(<<>>) = 0
  OBVIOUS
<1>2. outcomes = <<>> \/ Len(outcomes) = 1 => OneOutcome
  BY <1>1 DEF OneOutcome
<1>3. TaskInv => OneOutcome
  BY <1>2 DEF TaskInv
<1> QED
  BY <1>3, OneTaskInit, OneTaskStep, PTL DEF Spec

\* A turn is dispatched (dispatch_input) only when the generator of every
\* earlier turn is gone and no task is active, also after turns that an
\* exception broke and after approvals that were never answered.
THEOREM TurnsDoNotOverlap == Spec => []NoOverlap
<1>1. RuntimeInv /\ HeldInv /\ TaskInv => NoOverlap
  <2> SUFFICES ASSUME RuntimeInv, HeldInv, TaskInv,
                      driver = "triage" \/ (driver = "stream" /\ sub.mode = "chat")
               PROVE  agentIter = "none" /\ pc = "idle" /\ ~HasActiveTask
    BY DEF NoOverlap
  <2>1. ~Asking /\ ~Interrupting
    BY AnswerDue DEF RuntimeInv
  <2> QED
    BY <2>1 DEF HeldInv, TaskInv, Answering, Open
<1> QED
  BY <1>1, OneTaskInit, OneTaskStep, PTL DEF Spec
-----------------------------------------------------------------------------
(* The approval policy of the turn.                                         *)

\* The user's word is on its way to the loop, or has let the call run.
UserGranted == approvalWait = "approved" \/ (pc = "tool" /\ batch.grant = "user")

DenyInv == UserGranted => sub.policy # "deny"

\* The loop takes the user's word for a call from the decision alone.
LEMMA GrantStep ==
  ASSUME LoopTypeOK, LoopShape, LoopRuns, UserGranted'
  PROVE  UserGranted
<1> USE DEF At, UserGranted, Yield, GoTo
<1>0. LoopSegment \/ AwaitedReturns
  BY DEF LoopRuns
<1>1. CASE ApprovalArrives
  BY <1>1 DEF ApprovalArrives
<1>2. CASE RequestAutomatic
  BY <1>2 DEF RequestAutomatic, Resolved, LoopTypeOK, BatchLocals
<1>3. CASE \E approved \in BOOLEAN : GuardianDecides(approved)
  BY <1>3 DEF GuardianDecides, LoopTypeOK, BatchLocals
<1>4. CASE ApprovalCancelled \/ OpenApprovalWait
  BY <1>4 DEF ApprovalCancelled, AwaitRaises, OpenApprovalWait
<1>5. ASSUME NEW counted, NEW class, NEW kind, RetryOrExhaust(counted, class, kind)
      PROVE  pc' # "tool"
  BY <1>5 DEF RetryOrExhaust
<1>6. CASE FinishBatch \/ \E class \in ModelFailureClasses, reported \in BOOLEAN : ModelFails(class, reported)
  <2>1. approvalWait' = approvalWait
    BY <1>6 DEF FinishBatch, ModelFails
  <2>2. pc' # "tool"
    BY <1>5, <1>6 DEF FinishBatch, ModelFails
  <2> QED
    BY <2>1, <2>2
<1>7. CASE GeneratePlan \/ AnnounceExecuting \/ LeaveLoop \/ TimeOut \/ CompleteTask \/ StartStep \/
           StopTask \/ FinishRun \/ SpendRounds \/ AbandonStep \/ CallModel \/ RejectCall \/ BlockCall
  BY <1>7 DEF GeneratePlan, AnnounceExecuting, LeaveLoop, TimeOut, CompleteTask, StartStep, StopTask,
     FinishRun, SpendRounds, AbandonStep, CallModel, RejectCall, BlockCall
<1>8. CASE AnnounceApproval \/ RequestApproval \/ RequestGuardian \/ StartGuardianReview \/ DenyCall \/
           AnnounceRecovery \/ EndCalls \/ RequestParallel \/ StartParallel \/ ReportParallel \/
           AnnounceParallelRecovery \/ EndParallel
  BY <1>8 DEF AnnounceApproval, RequestApproval, RequestGuardian, StartGuardianReview, DenyCall,
     AnnounceRecovery, EndCalls, RequestParallel, StartParallel, ReportParallel,
     AnnounceParallelRecovery, EndParallel
<1>9. CASE StepStopped \/ CompleteStep \/ StartReplan \/ FailStep \/ ReportFailedStep \/ FailTask
  BY <1>9 DEF StepStopped, CompleteStep, StartReplan, FailStep, ReportFailedStep, FailTask
<1>10. CASE \/ \E calls \in Batches : ModelCallsTools(calls)
            \/ ModelAnswers \/ ModelSaysNothing
            \/ \E status \in RunResults : ToolReturns(status)
            \/ \E results \in [DOMAIN batch.calls -> RunResults] : GatherResults(results)
            \/ \E n \in 1 .. RoomForSteps : RevisePlan(n)
  BY <1>10 DEF ModelCallsTools, ModelAnswers, ModelSaysNothing, ToolReturns, GatherResults, RevisePlan
<1> QED
  BY <1>0, <1>1, <1>2, <1>3, <1>4, <1>6, <1>7, <1>8, <1>9, <1>10 DEF LoopSegment, AwaitedReturns

LEMMA DenyInit == RuntimeInit => DenyInv
BY DEF RuntimeInit, LoopInit, DenyInv, UserGranted

LEMMA DenyStep ==
  ASSUME RuntimeInv, HeldInv, DenyInv, [Next]_vars
  PROVE  DenyInv'
<1> USE DEF Draining
<1>s. SurfaceInv /\ LoopShape /\ ParkInv /\ LoopTypeOK
  BY DEF RuntimeInv, LoopInv, TypeInv
\* Nobody decides, and the turn is the same.
<1>a. ASSUME sub' = sub, approvalWait' \in {approvalWait, "absent"},
             pc' # "tool" \/ (pc' = pc /\ batch' = batch)
      PROVE  DenyInv'
  BY <1>a DEF DenyInv, UserGranted
<1>b. ASSUME sub' = sub, UNCHANGED taskVars PROVE DenyInv'
  BY <1>a, <1>b DEF taskVars
<1>c. ASSUME sub' = sub, CloseLoop PROVE DenyInv'
  BY <1>a, <1>c DEF CloseLoop
<1>1. CASE RenderEvent \/ EndDrain \/ HandleError \/ BeginTurn \/ StartChat \/ StartDrain
  BY <1>1, <1>b DEF RenderEvent, EndDrain, HandleError, BeginTurn, StartChat, StartDrain,
     iterVars, loopVars, Emit
<1>2. CASE (\E usable \in BOOLEAN : RefuseTurn(usable)) \/ (\E fresh \in BOOLEAN : Dispatch(fresh)) \/
           (\E done \in BOOLEAN : RelayChunk(done)) \/ (\E answered \in BOOLEAN : EndStream(answered)) \/
           (\E route \in Routes, toolsSupported \in BOOLEAN : TriageReturns(route, toolsSupported))
  BY <1>2, <1>b DEF RefuseTurn, Dispatch, RelayChunk, EndStream, TriageReturns, loopVars
<1>3. CASE StartEvents \/ RelayEvent \/ PauseForApproval \/ EndTurn \/ AnswersPrompt \/
           (\E policy \in Policies, mode \in Modes : SubmitTurn(policy, mode)) \/ UNCHANGED vars
  BY <1>3, <1>b DEF StartEvents, RelayEvent, PauseForApproval, EndTurn, AnswersPrompt, AnswerPrompt,
     SubmitTurn, vars, runtimeVars, iterVars, loopVars
<1>4. CASE NextEvent \/ ResumeByPolicy
  BY <1>4, <1>a DEF NextEvent, ResumeByPolicy
<1>5. CASE PopSubmission
  <2>1. pc \in {"idle", "open_wait", "exit"} /\ pc' = pc /\ approvalWait' = approvalWait
    BY <1>5, <1>s DEF PopSubmission, ParkInv, loopVars, taskVars
  <2>2. ~UserGranted'
    BY <1>s, <2>1 DEF LoopShape, UserGranted
  <2> QED
    BY <2>2 DEF DenyInv
<1>6. CASE EndIterator \/ HandleInterrupt
  BY <1>6, <1>b, <1>c DEF EndIterator, HandleInterrupt, DropLoop
<1>7. CASE LoopAdvances
  <2>1. sub' = sub
    BY <1>7 DEF LoopAdvances, runtimeVars, iterVars
  <2>2. CASE LoopRuns
    BY <1>s, <2>1, <2>2, GrantStep DEF DenyInv
  <2>3. CASE StartRun
    BY <1>a, <2>1, <2>3 DEF StartRun, Yield
  <2> QED
    BY <1>7, <2>2, <2>3 DEF LoopAdvances
<1>8. CASE ApplyPolicy
  <2>1. UNCHANGED <<pc, batch, sub>> /\ (approvalWait' = "approved" => sub.policy = "auto" \/ approvalWait = "approved")
    BY <1>8 DEF ApplyPolicy, ApplyToolApproval, SupplyToolApproval, runtimeVars, iterVars
  <2> QED
    BY <2>1 DEF DenyInv, UserGranted
<1>9. CASE ResumeDecision
  <2>1. sub.policy = "shell" /\ sub' = sub
    BY <1>9, <1>s, AnswerDue DEF ResumeDecision, HeldInv
  <2> QED
    BY <2>1 DEF DenyInv
<1>10. CASE \E kind \in BreakKinds : AwaitBreaks(kind)
  <2>1. sub' = sub
    BY <1>10 DEF AwaitBreaks
  <2>2. UNCHANGED taskVars \/ AwaitRaises
    BY <1>10 DEF AwaitBreaks
  <2> QED
    BY <1>a, <1>b, <2>1, <2>2 DEF AwaitRaises, GoTo
<1> QED
  BY <1>1, <1>2, <1>3, <1>4, <1>5, <1>6, <1>7, <1>8, <1>9, <1>10 DEF Next, SystemNext

\* A turn under the approval policy "deny" (_aresume_by_policy) never runs a
\* call that the approval policy in force keeps from running without approval,
\* whatever the user did in other turns and whoever reviews: only the guardian
\* can have let it pass.
THEOREM DenyHolds == Spec => []DenyNeverExecutes
<1>1. RuntimeInv /\ DenyInv => DenyNeverExecutes
  BY DEF RuntimeInv, LoopInv, AuthorisedInv, DenyInv, UserGranted, DenyNeverExecutes
<1>2. RuntimeInit => RuntimeInv /\ HeldInv /\ TaskInv /\ DenyInv
  BY OneTaskInit, DenyInit
<1>3. RuntimeInv /\ HeldInv /\ TaskInv /\ DenyInv /\ [Next]_vars => (RuntimeInv /\ HeldInv /\ TaskInv /\ DenyInv)'
  BY OneTaskStep, DenyStep
<1> QED
  BY <1>1, <1>2, <1>3, PTL DEF Spec
-----------------------------------------------------------------------------
(* The pending approval.                                                    *)

\* Turns under the policies "auto" and "deny" set the pending approval while
\* they resume the generator; an exception in that task leaves it set.
Undisturbed == Policies \subseteq {"shell"} \/ breaks = 0

PendInv ==
  /\ driver = "resume" => sub.policy # "shell"
  /\ Undisturbed /\ pending # 0 =>
       /\ pending = sub.id /\ agentIter = "live"
       /\ driver = "resume" \/ (AskedForApproval /\ (Asking \/ Interrupting))

LEMMA PendInit == RuntimeInit => PendInv
BY DEF RuntimeInit, PendInv

LEMMA DisturbedStays ==
  ASSUME SurfaceOK, [Next]_vars, Undisturbed'
  PROVE  Undisturbed
<1>1. breaks \in Nat
  BY RuntimeAssumption DEF SurfaceOK
<1>2. CASE \E kind \in BreakKinds : AwaitBreaks(kind)
  BY <1>1, <1>2 DEF AwaitBreaks, Undisturbed
<1>3. CASE ~\E kind \in BreakKinds : AwaitBreaks(kind)
  <2>1. breaks' = breaks
    BY <1>3 DEF Next, SystemNext, RenderEvent, EndDrain, HandleError, PopSubmission,
       EndIterator, BeginTurn, RefuseTurn, Dispatch, StartChat, TriageReturns, StartDrain, RelayChunk,
       EndStream, StartEvents, LoopAdvances, RelayEvent, NextEvent, ResumeByPolicy, ApplyPolicy,
       PauseForApproval, EndTurn, ResumeDecision, HandleInterrupt, AnswersPrompt, AnswerPrompt,
       SubmitTurn, vars, runtimeVars, surfaceVars
  <2> QED
    BY <2>1 DEF Undisturbed
<1> QED
  BY <1>2, <1>3

LEMMA PendStep ==
  ASSUME RuntimeInv, HeldInv, PendInv, [Next]_vars
  PROVE  PendInv'
<1> USE DEF Draining
<1>s. SurfaceInv /\ LogInv /\ SurfaceOK
  BY DEF RuntimeInv
<1>u. Undisturbed' => Undisturbed
  BY <1>s, DisturbedStays
\* No approval is pending while somebody else is at work.
<1>0. ASSUME ~Asking, ~Interrupting, driver # "resume", Undisturbed
      PROVE  pending = 0
  BY <1>0 DEF PendInv
<1>a. driver \notin {"none", "last", "dead", "ready"} => ~Asking /\ ~Interrupting
  BY <1>s, AnswerDue
<1>b. ASSUME driver' # "resume", ~Asking, ~Interrupting, driver # "resume", pending' = pending
      PROVE  PendInv'
  BY <1>0, <1>b, <1>u DEF PendInv
<1>c. ASSUME UNCHANGED <<pending, agentIter, driver, sub, event>>,
             Asking \/ Interrupting => Asking' \/ Interrupting'
      PROVE  PendInv'
  BY <1>c, <1>u DEF PendInv, AskedForApproval
<1>d. ASSUME driver' # "resume", pending' = 0
      PROVE  PendInv'
  BY <1>d DEF PendInv
<1>1. CASE RenderEvent
  <2>1. /\ UNCHANGED <<event, agentIter, queue, driver, sub, pending>>
        /\ out # "approval_requested" /\ out' = "none"
    BY <1>1 DEF RenderEvent, iterVars, loopVars, taskVars, controllerVars
  <2> QED
    BY <1>c, <2>1 DEF Asking, Interrupting, Waiting
<1>2. CASE EndDrain \/ HandleError
  <2>1. driver' = driver /\ pending' = pending /\ driver \in {"none", "dead"}
    BY <1>2, <1>s DEF EndDrain, HandleError, iterVars, SurfaceInv, IterInv
  <2>2. queue = <<>> /\ out = "none"
    BY <1>2, <1>s DEF EndDrain, HandleError, SurfaceInv, IterInv, QueueInv
  <2> QED
    BY <1>b, <2>1, <2>2 DEF Asking, Interrupting
<1>3. CASE PopSubmission
  <2>1. UNCHANGED <<event, agentIter, pending>> /\ driver = "none" /\ driver' = "ready"
    BY <1>3 DEF PopSubmission, loopVars, taskVars, controllerVars
  <2>2. (Asking' <=> Asking) /\ (Interrupting' <=> Interrupting)
    BY <1>3, <1>s, TakenUp
  <2>3. CASE sub'.op = "turn"
    BY <1>3, <1>s, <1>b, <2>1, <2>3, TakenUp DEF Decisions
  <2>4. CASE sub'.op # "turn"
    <3>1. sub'.id = sub.id
      BY <1>3, <1>s, <2>4, TakenUp
    <3> QED
      BY <1>u, <2>1, <2>2, <3>1 DEF PendInv, AskedForApproval
  <2> QED
    BY <2>3, <2>4
<1>4. CASE EndIterator
  <2>1. UNCHANGED <<sub, pending, queue, out>> /\ driver \in {"last", "dead"} /\ driver' = "none"
    BY <1>4 DEF EndIterator
  <2>2. (Asking' <=> Asking) /\ (Interrupting' <=> Interrupting)
    BY <2>1 DEF Asking, Interrupting, Waiting
  <2>3. pending = sub.id => UNCHANGED <<event, agentIter>>
    BY <1>4 DEF EndIterator, taskVars
  <2> QED
    BY <1>u, <2>1, <2>2, <2>3 DEF PendInv, AskedForApproval
<1>5. CASE BeginTurn
  <2>1. driver' = "turn" /\ driver = "ready" /\ sub.op = "turn" /\ pending' = pending
    BY <1>5 DEF BeginTurn, Emit
  <2> QED
    BY <1>b, <1>s, <2>1, AnswerDue
<1>6. CASE (\E usable \in BOOLEAN : RefuseTurn(usable)) \/ (\E fresh \in BOOLEAN : Dispatch(fresh)) \/
           (\E done \in BOOLEAN : RelayChunk(done)) \/ (\E answered \in BOOLEAN : EndStream(answered)) \/
           (\E route \in Routes, toolsSupported \in BOOLEAN : TriageReturns(route, toolsSupported)) \/
           StartChat \/ StartDrain \/ StartEvents \/ NextEvent \/ EndTurn
  BY <1>6, <1>a, <1>b DEF RefuseTurn, Dispatch, RelayChunk, EndStream, TriageReturns, StartChat,
     StartDrain, StartEvents, NextEvent, EndTurn, Emit
<1>7. CASE LoopAdvances
  <2>1. UNCHANGED <<sub, pending, driver>> /\ driver \in {"agent", "resume"} /\ agentIter' = "live"
    BY <1>7 DEF LoopAdvances, runtimeVars, iterVars
  <2>2. CASE driver = "agent"
    BY <1>a, <1>b, <2>1, <2>2
  <2>3. CASE driver = "resume"
    BY <1>u, <2>1, <2>3 DEF PendInv
  <2> QED
    BY <2>1, <2>2, <2>3
<1>8. CASE RelayEvent
  <2>1. CASE driver = "resume"
    BY <1>8, <1>d, <2>1 DEF RelayEvent, Emit
  <2>2. CASE driver = "agent"
    BY <1>8, <1>a, <1>b, <2>2 DEF RelayEvent, Emit
  <2> QED
    BY <1>8, <2>1, <2>2 DEF RelayEvent
<1>9. CASE ResumeByPolicy
  <2>1. agentIter = "live"
    BY <1>9, NoEventIs DEF ResumeByPolicy, HeldInv, AskedForApproval
  <2> QED
    BY <1>9, <2>1 DEF ResumeByPolicy, PendInv, controllerVars
<1>10. CASE ApplyPolicy
  <2>1. UNCHANGED <<sub, pending, driver, agentIter>> /\ driver = "resume"
    BY <1>10 DEF ApplyPolicy, ApplyToolApproval, runtimeVars, iterVars
  <2> QED
    BY <1>u, <2>1 DEF PendInv
<1>11. CASE PauseForApproval
  <2>1. /\ UNCHANGED <<event, agentIter, sub>> /\ driver' = "last" /\ pending' = sub.id
        /\ AskedForApproval /\ Asking'
    BY <1>11 DEF PauseForApproval, Emit, loopVars, taskVars, controllerVars, Asking
  <2>2. agentIter = "live"
    BY <2>1, NoEventIs DEF HeldInv, AskedForApproval
  <2> QED
    BY <2>1, <2>2 DEF PendInv, AskedForApproval
<1>12. CASE ResumeDecision
  <2>1. pending = sub.id
    BY <1>12, <1>s, AnswerDue DEF ResumeDecision, HeldInv
  <2> QED
    BY <1>12, <1>d, <2>1 DEF ResumeDecision
<1>13. CASE HandleInterrupt
  BY <1>13, <1>d DEF HandleInterrupt, Emit
<1>14. CASE AnswersPrompt
  <2>1. PICK op \in Decisions \union {"interrupt"} : AnswerPrompt(op)
    BY <1>14 DEF AnswersPrompt
  <2>2. current = sub.id /\ sub \in Entries /\ queue = <<>>
    BY <2>1, <1>s DEF AnswerPrompt, SurfaceInv, QueueInv, IterInv, NoSubmission
  <2>3. queue' = <<WithinTurn(op, sub.id)>>
    BY <2>1, <2>2, OneEntry DEF AnswerPrompt
  <2>4. queue'[1].op = op /\ queue' # <<>>
    BY <2>2, <2>3, OneEntry, WithinTurnIsEntry DEF Operations
  <2>5. Asking' \/ Interrupting'
    BY <2>4 DEF Asking, Interrupting, Waiting
  <2>6. UNCHANGED <<pending, agentIter, driver, sub, event>>
    BY <2>1 DEF AnswerPrompt, iterVars, loopVars, taskVars, controllerVars
  <2> QED
    BY <1>c, <2>5, <2>6
<1>15. CASE \E policy \in Policies, mode \in Modes : SubmitTurn(policy, mode)
  <2>1. queue = <<>> /\ driver \in {"none", "dead"} /\ out = "none" /\ driver' = driver /\ pending' = pending
    BY <1>15, <1>s DEF SubmitTurn, SurfaceInv, QueueInv, IterInv, iterVars
  <2> QED
    BY <1>b, <2>1 DEF Asking, Interrupting
<1>16. CASE \E kind \in BreakKinds : AwaitBreaks(kind)
  <2>1. /\ driver \in {"triage", "agent", "resume", "stream", "tail"} /\ driver' = "dead"
        /\ pending' = pending /\ breaks' = breaks + 1
    BY <1>16 DEF AwaitBreaks
  <2>2. CASE driver # "resume"
    BY <1>a, <1>b, <2>1, <2>2
  <2>3. CASE driver = "resume"
    <3>1. sub.policy # "shell"
      BY <2>3 DEF PendInv
    <3>2. sub.policy \in Policies \union {"shell"}
      BY <1>s, EntryTyped DEF SurfaceInv, IterInv, NoSubmission
    <3>3. breaks' # 0
      BY <1>s, <2>1, RuntimeAssumption DEF SurfaceOK
    <3>4. ~Undisturbed'
      BY <3>1, <3>2, <3>3 DEF Undisturbed
    <3> QED
      BY <2>1, <3>4 DEF PendInv
  <2> QED
    BY <2>2, <2>3
<1>17. CASE UNCHANGED vars
  BY <1>17, <1>c DEF vars, runtimeVars, iterVars, loopVars, taskVars, controllerVars, Asking, Interrupting, Waiting
<1> QED
  BY <1>1, <1>2, <1>3, <1>4, <1>5, <1>6, <1>7, <1>8, <1>9, <1>10, <1>11, <1>12, <1>13, <1>14,
     <1>15, <1>16, <1>17 DEF Next, SystemNext

\* has_pending_approval speaks of a generator that is suspended at the very
\* request, or is being resumed from it: for every policy while nothing raises,
\* and for the policy of the shell whatever raises.
THEOREM PendingIsHeld == Spec => [](Undisturbed => PendingIsSuspendedRequest)
<1>1. RuntimeInv /\ PendInv => (Undisturbed => PendingIsSuspendedRequest)
  BY DEF RuntimeInv, LoopShape, PendInv, PendingIsSuspendedRequest
<1>2. RuntimeInit => RuntimeInv /\ HeldInv /\ TaskInv /\ PendInv
  BY OneTaskInit, PendInit
<1>3. RuntimeInv /\ HeldInv /\ TaskInv /\ PendInv /\ [Next]_vars => (RuntimeInv /\ HeldInv /\ TaskInv /\ PendInv)'
  BY OneTaskStep, PendStep
<1> QED
  BY <1>1, <1>2, <1>3, PTL DEF Spec
=============================================================================
