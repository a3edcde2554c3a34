---------------------------- MODULE SessionStore ----------------------------
(***************************************************************************)
(* What a session leaves on disk and what a later process makes of it: the *)
(* session in memory, the debounced autosave on a timer thread beside the  *)
(* flush of the main thread, the two stores, the runtime event log, and    *)
(* load, fork, prune and replay.  (localagentcli/session, chat turns of    *)
(* agents/chat.py, the shell's end of a turn.)                             *)
(*                                                                         *)
(* Turns are numbered; a message is its role and text, and two turns may   *)
(* have the same texts.                                                    *)
(***************************************************************************)
EXTENDS Naturals, Sequences, SequencesExt, FiniteSets

CONSTANTS
    Backends,        \* of "json" and "sqlite", the stores tried
    Autosaved,       \* subset of {"named", "unnamed"}: sessions.autosave_*
    Prompt, Answer,  \* texts of the turns: [1 .. n -> texts]
    TurnModes,       \* of "chat" and "agent", the modes of each turn
    UserNames,       \* names the user gives
    KeepRecent, CompactAt,   \* messages kept and messages that trigger
    MaxSessions, MaxEvents, MaxStarts   \* bounds

ASSUME SessionStoreAssumption ==
    /\ KeepRecent \in Nat /\ CompactAt \in Nat
    /\ MaxSessions \in Nat \ {0}

Turns == 1 .. Len(Prompt)
Savers == {"main", "timer"}
Ids == 1 .. MaxSessions

NoName == <<"none">>
AutosaveName(id) == <<"autosave", id>>
User(n) == <<"user", n>>
Names == {AutosaveName(i) : i \in Ids} \cup {User(n) : n \in UserNames}

Message(role, text) == [role |-> role, text |-> text]
Summary == Message("system", "summary")

VARIABLES
    backend,  \* the store the process uses
    session,  \* SessionManager._current: object, id, name, history
    disk,     \* name -> what the store holds
    log,      \* session id -> records of the runtime event log
    shell,    \* where the main thread is
    turn,     \* the turn in progress and how far it is
    timer,    \* is a debounce timer armed?
    saver,    \* the two threads that may be persisting the session
    made,     \* sessions made so far
    events,   \* commands given, saves failed and crashes so far
    starts    \* processes started so far

storeVars == <<backend, session, disk, log, shell, turn, timer, saver,
               made, events, starts>>
counters == <<made, events, starts>>
-----------------------------------------------------------------------------
(* History: compaction and replay. *)

NeedsCompaction(hist) == Len(hist) >= CompactAt

Compact(hist) ==
    IF Len(hist) <= KeepRecent THEN hist
    ELSE <<Summary>> \o SubSeq(hist, Len(hist) - KeepRecent + 1, Len(hist))

CompactIfNeeded(hist) == IF NeedsCompaction(hist) THEN Compact(hist) ELSE hist

(* Mutant. *)
LastPairMutant(hist, p, a) ==
    /\ Len(hist) > 1
    /\ hist[Len(hist) - 1] = Message("user", p)
    /\ hist[Len(hist)] = Message("assistant", a)

HasUserAssistantPair(hist, p, a) ==
    \E i \in 1 .. Len(hist) - 1 : /\ hist[i] = Message("user", p)
                                  /\ hist[i + 1] = Message("assistant", a)

(* Mutant. *)
RecoverByPromptMutant(hist, t) ==
    IF Contains(hist, Message("user", Prompt[t])) THEN hist
    ELSE hist \o <<Message("user", Prompt[t]), Message("assistant", Answer[t])>>

(* One completed turn of the log, reconciled with the history. *)
RecoverTurn(hist, t) ==
    LET ask == Message("user", Prompt[t])
        reply == Message("assistant", Answer[t])
    IN  IF HasUserAssistantPair(hist, Prompt[t], Answer[t]) THEN hist
        ELSE IF hist # <<>> /\ Last(hist) = ask THEN Append(hist, reply)
        ELSE hist \o <<ask, reply>>

IsSubmission(r) == r.kind = "submission"
IsCompleted(records, t) ==
    \E i \in 1 .. Len(records) : records[i] = [kind |-> "completed", turn |-> t]

(* Submissions are taken in their order, each with the end it has in the log. *)
ReplayRecord(hist, r, records) ==
    IF IsSubmission(r) /\ IsCompleted(records, r.turn) THEN RecoverTurn(hist, r.turn) ELSE hist

Replay(hist, records) ==
    LET replayed[k \in 0 .. Len(records)] ==
            IF k = 0 THEN hist ELSE ReplayRecord(replayed[k - 1], records[k], records)
    IN  replayed[Len(records)]
-----------------------------------------------------------------------------
(* Sessions and what the store holds of them. *)

NewSession(obj, id) ==
    [obj |-> obj, id |-> id, name |-> NoName, hist |-> <<>>]

Absent == [state |-> "absent", id |-> 0, hist |-> <<>>]
TornFile == [Absent EXCEPT !.state = "torn"]
Payload(s) == [state |-> "whole", id |-> s.id, hist |-> s.hist]

IdleSaver == [pc |-> "idle", target |-> NoName, obj |-> 0, restore |-> FALSE,
              payload |-> Absent]

AutosaveTargetName(s) ==
    IF s.name # NoName
    THEN IF "named" \in Autosaved THEN s.name ELSE NoName
    ELSE IF "unnamed" \in Autosaved THEN AutosaveName(s.id) ELSE NoName

StoreInit ==
    /\ backend \in Backends
    /\ starts = 1
    /\ session = NewSession(1, 1)
    /\ disk = [n \in Names |-> Absent]
    /\ log = [i \in Ids |-> <<>>]
    /\ shell = "prompt"
    /\ turn = [t |-> 0, mode |-> "chat", stage |-> "none"]
    /\ timer = FALSE
    /\ saver = [w \in Savers |-> IdleSaver]
    /\ made = 1
    /\ events = 0
-----------------------------------------------------------------------------
(* A bounded number of commands and faults, one budget for both. *)
Event == events < MaxEvents /\ events' = events + 1

(* Persisting: both threads run this, the file lock is all they share. *)

(* save_session of the store: the session is renamed and serialized before  *)
(* the lock is taken; the name of an unnamed session is to be taken back.   *)
StartSave(w, s, target, autosave) ==
    /\ saver' = [saver EXCEPT ![w] =
          [pc |-> "ready", target |-> target, obj |-> s.obj,
           restore |-> autosave /\ s.name = NoName, payload |-> Payload(s)]]
    /\ session' = [s EXCEPT !.name = target]

Autosave(w, s) ==
    IF AutosaveTargetName(s) = NoName
    THEN session' = s /\ UNCHANGED saver
    ELSE StartSave(w, s, AutosaveTargetName(s), TRUE)

(* schedule_named_autosave: the debounce timer starts anew. *)
ScheduleAutosave(s) == timer' = (timer \/ AutosaveTargetName(s) # NoName)

(* The timer is popped under its lock and may no longer be cancelled.  One  *)
(* timer thread is in flight at a time: its write is far shorter than the   *)
(* debounce of the next.                                                    *)
AutosaveFires ==
    /\ shell # "down"
    /\ timer
    /\ saver["timer"].pc = "idle"
    /\ timer' = FALSE
    /\ Autosave("timer", session)
    /\ UNCHANGED <<backend, disk, log, shell, turn, counters>>

LockFree(w) ==
    \A v \in Savers \ {w} :
        ~(saver[v].pc = "writing" /\ saver[v].target = saver[w].target)

OpenFile(w) ==
    /\ backend = "json"
    /\ saver[w].pc = "ready"
    /\ LockFree(w)
    /\ disk' = [disk EXCEPT ![saver[w].target] = TornFile]
    /\ saver' = [saver EXCEPT ![w].pc = "writing"]
    /\ UNCHANGED <<backend, session, log, shell, turn, timer, counters>>

Returns(w) ==
    shell' = IF w = "timer" THEN shell
             ELSE IF shell = "leaving" THEN "down" ELSE "prompt"

(* Mutant. *)
SaveCurrentMutant(w) ==
    /\ saver[w].pc = IF backend = "json" THEN "writing" ELSE "ready"
    /\ disk' = [disk EXCEPT ![saver[w].target] = Payload(session)]
    /\ session' = session
    /\ saver' = [saver EXCEPT ![w] = IdleSaver]
    /\ Returns(w)
    /\ UNCHANGED <<backend, log, turn, timer, counters>>

(* The write is complete; the name of an unnamed session is taken back. *)
FinishSave(w) ==
    /\ saver[w].pc = IF backend = "json" THEN "writing" ELSE "ready"
    /\ disk' = [disk EXCEPT ![saver[w].target] = saver[w].payload]
    /\ IF saver[w].restore /\ saver[w].obj = session.obj
       THEN session' = [session EXCEPT !.name = NoName] ELSE UNCHANGED session
    /\ saver' = [saver EXCEPT ![w] = IdleSaver]
    /\ Returns(w)
    /\ UNCHANGED <<backend, log, turn, timer, counters>>

(* Disk full, a table that changes while it is dumped, a locked database:   *)
(* the exception skips what follows the save and is swallowed.              *)
SaveFails(w) ==
    /\ saver[w].pc \in {"ready", "writing"}
    /\ Event
    /\ saver' = [saver EXCEPT ![w] = IdleSaver]
    /\ Returns(w)
    /\ UNCHANGED <<backend, session, disk, log, turn, timer, made, starts>>

(* Nothing to persist: autosave is off for this session. *)
SkipSave ==
    /\ shell \in {"saving", "leaving"}
    /\ saver["main"].pc = "idle"
    /\ Returns("main")
    /\ UNCHANGED <<backend, session, disk, log, turn, timer, saver, counters>>
-----------------------------------------------------------------------------
(* A turn on the main thread. *)

Record(kind) ==
    log' = [log EXCEPT ![session.id] =
                Append(@, [kind |-> kind, turn |-> turn'.t])]

AppendMessage(m) == session' = [session EXCEPT !.hist = Append(@, m)]

SubmitTurn ==
    /\ shell = "prompt"
    /\ turn.t + 1 \in Turns
    /\ \E mode \in TurnModes[turn.t + 1] :
          turn' = [t |-> turn.t + 1, mode |-> mode, stage |-> "submitted"]
    /\ Record("submission")
    /\ shell' = "turn"
    /\ UNCHANGED <<backend, session, disk, timer, saver, counters>>

At(stage) == shell = "turn" /\ turn.stage = stage
Advance(stage) == turn' = [turn EXCEPT !.stage = stage]

AppendUserInput ==
    /\ At("submitted")
    /\ session' = [session EXCEPT !.hist =
                       CompactIfNeeded(Append(@, Message("user", Prompt[turn.t])))]
    /\ ScheduleAutosave(session)
    /\ Advance("asked")
    /\ UNCHANGED <<backend, disk, log, shell, saver, counters>>

(* An agent task records a tool message before its summary. *)
RecordTool ==
    /\ At("asked")
    /\ turn.mode = "agent"
    /\ AppendMessage(Message("tool", "result"))
    /\ ScheduleAutosave(session)
    /\ Advance("tools")
    /\ UNCHANGED <<backend, disk, log, shell, saver, counters>>

(* A streamed answer is reported complete before the controller, resumed    *)
(* after the done chunk, appends it; a task's summary is appended first.    *)
ReportCompleted ==
    /\ \/ At("asked") /\ turn.mode = "chat" /\ Advance("reported")
       \/ At("answered") /\ turn.mode = "agent" /\ Advance("done")
    /\ Record("completed")
    /\ UNCHANGED <<backend, session, disk, shell, timer, saver, counters>>

AppendAnswer ==
    /\ \/ At("reported") /\ Advance("done")
       \/ turn.mode = "agent" /\ (At("asked") \/ At("tools")) /\ Advance("answered")
    /\ AppendMessage(Message("assistant", Answer[turn.t]))
    /\ ScheduleAutosave(session)
    /\ UNCHANGED <<backend, disk, log, shell, saver, counters>>

(* The turn is over, is interrupted or has failed (agents then append the   *)
(* reason): the drain's finally clause cancels the timer and saves at once. *)
Flush(next) ==
    /\ shell' = next
    /\ timer' = FALSE

EndDrain ==
    /\ \/ At("done") /\ Autosave("main", session)
       \/ /\ \E stage \in {"asked", "tools"} : At(stage)
          /\ \/ Autosave("main", session)
             \/ /\ turn.mode = "agent"
                /\ Autosave("main", [session EXCEPT !.hist =
                                         Append(@, Message("assistant", "stopped"))])
    /\ turn' = [turn EXCEPT !.stage = "none", !.mode = "chat"]
    /\ Flush("saving")
    /\ UNCHANGED <<backend, disk, log, counters>>
-----------------------------------------------------------------------------
(* Commands at the prompt, and the life of the process. *)

Command ==
    /\ shell = "prompt"
    /\ Event

SaveAs(name) ==
    /\ Command
    /\ StartSave("main", session, name, FALSE)
    /\ shell' = "saving"
    /\ UNCHANGED <<backend, disk, log, turn, timer, made, starts>>

ClearSession ==
    /\ Command
    /\ session.hist # <<>>
    /\ session' = [session EXCEPT !.hist = <<>>]
    /\ UNCHANGED <<backend, disk, log, shell, turn, timer, saver, made, starts>>

Fresh == made < MaxSessions /\ made' = made + 1

StartNewSession ==
    /\ Command
    /\ Fresh
    /\ session' = NewSession(made', made')
    /\ UNCHANGED <<backend, disk, log, shell, turn, timer, saver, starts>>

Loaded(name) ==
    [obj |-> made', id |-> disk[name].id, name |-> name,
     hist |-> Replay(disk[name].hist, log[disk[name].id])]

LoadsSession(name) ==
    /\ disk[name].state = "whole"
    /\ Fresh
    /\ session' = Loaded(name)
    /\ UNCHANGED <<backend, disk, log, shell, turn, timer, saver, starts>>

LoadSession(name) == Command /\ LoadsSession(name)

(* A fork has a fresh id and a name of its own, and is not yet on disk. *)
ForkSession(name, forkName) ==
    /\ Command
    /\ session.hist = <<>>
    /\ disk[name].state = "whole"
    /\ Fresh
    /\ session' = [Loaded(name) EXCEPT !.id = made', !.name = forkName]
    /\ UNCHANGED <<backend, disk, log, shell, turn, timer, saver, starts>>

Exit ==
    /\ shell = "prompt"
    /\ Flush("leaving")
    /\ Autosave("main", session)
    /\ UNCHANGED <<backend, disk, log, turn, counters>>

(* What only the process knew. *)
LoseMemory ==
    /\ session' = NewSession(made, made)
    /\ turn' = [turn EXCEPT !.stage = "none", !.mode = "chat"]
    /\ timer' = FALSE
    /\ saver' = [w \in Savers |-> IdleSaver]

(* Threads are daemons: with the main thread every write in progress ends. *)
Crash ==
    /\ shell # "down"
    /\ Event
    /\ shell' = "down"
    /\ UNCHANGED <<backend, disk, log, made, starts>>
    /\ LoseMemory

(* Unnamed autosaves past their retention period, whichever these are.      *)
PruneUnnamedAutosaves ==
    \E old \in SUBSET {n \in Names : n[1] = "autosave" /\ disk[n].state # "absent"} :
        disk' = [n \in Names |-> IF n \in old THEN Absent ELSE disk[n]]

StartProcess ==
    /\ shell = "down"
    /\ starts < MaxStarts
    /\ starts' = starts + 1
    /\ Fresh
    /\ PruneUnnamedAutosaves
    /\ session' = NewSession(made', made')
    /\ shell' = "prompt"
    /\ saver' = [w \in Savers |-> IdleSaver]
    /\ UNCHANGED <<backend, log, turn, timer, events>>

(* exec --session: the one turn of the process continues a saved session.   *)
ExecSession(name) ==
    /\ shell = "prompt" /\ session.hist = <<>> /\ starts > 1
    /\ LoadsSession(name)
    /\ UNCHANGED events

Saving(w) ==
    /\ shell # "down"
    /\ OpenFile(w) \/ FinishSave(w) \/ SaveFails(w)

TurnStep ==
    AppendUserInput \/ RecordTool \/ ReportCompleted \/ AppendAnswer \/ EndDrain

StoreNext ==
    \/ \E w \in Savers : Saving(w)
    \/ AutosaveFires \/ SkipSave
    \/ SubmitTurn \/ TurnStep
    \/ \E n \in UserNames : SaveAs(User(n))
    \/ \E n \in Names : LoadSession(n)
    \/ \E n \in Names, f \in UserNames : ForkSession(n, User(f))
    \/ ClearSession \/ StartNewSession
    \/ Exit \/ Crash \/ StartProcess
    \/ \E n \in Names : ExecSession(n)

StoreSpec == StoreInit /\ [][StoreNext]_storeVars
-----------------------------------------------------------------------------
(* Properties. *)

(* Types, and the main thread's position: a turn is open exactly while the  *)
(* shell drains it, and the main thread saves only outside of turns.        *)
StoreTypeOK ==
    /\ backend \in Backends
    /\ session.id \in Ids /\ session.name \in Names \cup {NoName}
    /\ \A n \in Names : disk[n].state \in {"absent", "torn", "whole"}
    /\ shell \in {"prompt", "turn", "saving", "leaving", "down"}
    /\ \A w \in Savers : /\ saver[w].pc \in {"idle", "ready", "writing"}
                         /\ saver[w].target \in Names \cup {NoName}
    /\ turn.stage # "none" <=> shell = "turn"
    /\ saver["main"].pc # "idle" => shell \in {"saving", "leaving"}
    /\ made \in Ids /\ starts \in 1 .. MaxStarts /\ events \in 0 .. MaxEvents

(* The generated name of an autosave belongs to one session: what is found  *)
(* under it is the history of that session, whatever session the user had   *)
(* started, loaded or forked while the timer thread was saving.             *)
AutosaveHoldsItsSession ==
    \A i \in Ids : disk[AutosaveName(i)].state = "whole" => disk[AutosaveName(i)].id = i

(* A session of which a store has a readable version has lost no completed  *)
(* turn after it is loaded: whatever the crash or the failed save cut off   *)
(* is recovered from the event log, next to its own prompt.                 *)
LoadRecoversCompletedTurns ==
    [][\A n \in Names : LoadsSession(n) =>
          \A t \in Turns : IsCompleted(log[session'.id], t) /\ session'.name = n =>
              HasUserAssistantPair(session'.hist, Prompt[t], Answer[t])]_storeVars

(* Replaying the same log again changes nothing: two loads in a row agree.  *)
ReplayIsIdempotent ==
    LET records == log[session.id]
        once == Replay(session.hist, records)
    IN  Replay(once, records) = once

(* docs/session-and-config.md: recovery is idempotent for previously saved  *)
(* user/assistant pairs.  A turn whose prompt and answer are in the stored  *)
(* history is not appended again.                                           *)
Occurrences(hist, m) == Cardinality({i \in 1 .. Len(hist) : hist[i] = m})
SavedTurnsNotRepeated ==
    [][\A n \in Names : LoadsSession(n) =>
          \A t \in Turns :
              LET ask == Message("user", Prompt[t])
                  reply == Message("assistant", Answer[t])
              IN  Occurrences(disk[n].hist, ask) > 0 /\ Occurrences(disk[n].hist, reply) > 0 =>
                      Occurrences(session'.hist, ask) = Occurrences(disk[n].hist, ask)]_storeVars

(* docs/session-and-config.md: after each drained submission a flush runs   *)
(* so pending saves are applied before the next prompt.  With no command    *)
(* given and nothing failed in the first process, the file under the        *)
(* session's autosave name is then up to date.                              *)
FlushIsDurable ==
    shell = "prompt" /\ turn.t > 0 /\ events = 0 /\ starts = 1 /\ made = 1
        /\ session.hist # <<>> /\ "unnamed" \in Autosaved
    => disk[AutosaveName(1)].state = "whole" /\ disk[AutosaveName(1)].hist = session.hist
=============================================================================
