------------------------------- MODULE Rollback -------------------------------
(***************************************************************************)
(* Undo of agent changes: the hooks of the safety layer around a modifying *)
(* tool, the rollback log and backups on disk, and the two kinds of        *)
(* manager that work on them: the one the agent controller keeps, which    *)
(* reads the log once, and the fresh one of every /agent undo.             *)
(* (safety/rollback.py, safety/layer.py, runtime/core.py, shell/ui.py)     *)
(*                                                                         *)
(* The content of a file is a number; each write makes a new one, NoFile   *)
(* stands for its absence and Partial for a write that broke off.          *)
(***************************************************************************)
EXTENDS Naturals, Sequences, SequencesExt

CONSTANTS Files, MaxWrites, MaxChanges, MaxUndos

NoFile == 0
Partial == 1
Original == [f \in Files |-> IF f = CHOOSE g \in Files : TRUE THEN 2 ELSE NoFile]

VARIABLES
    workspace,  \* file -> content
    backups,    \* backup name -> content
    logged,     \* the entries rollback_log.json was last given to hold
    torn,       \* has that write not gone through? the file does not parse then
    entries,    \* _entries of the agent's manager
    hook,       \* where the modifying tool call is, and its pending rollback
    written,    \* contents made so far
    undone,     \* undo commands so far
    changes,    \* recorded agent changes not yet undone (history)
    disturbed   \* has something else touched the files? (history)

rollbackVars == <<workspace, backups, logged, torn, entries, hook, written, undone,
                  changes, disturbed>>

NoHook == [pc |-> "idle"]
Logging == [pc |-> "logging"]
NoManager == [pc |-> "no_manager"]   \* the session's log cannot be loaded
Exists(f) == workspace[f] # NoFile
NewContent == 2 + written'
Write(f, content) == workspace' = [workspace EXCEPT ![f] = content]

RollbackInit ==
    /\ workspace = Original
    /\ backups = << >>
    /\ logged = << >>
    /\ torn = FALSE
    /\ entries = << >>
    /\ hook = NoHook
    /\ written = 0
    /\ undone = 0
    /\ changes = {}
    /\ disturbed = FALSE
-----------------------------------------------------------------------------
(* A modifying tool call, in the tool's thread. *)

(* Mutant: the number of the change is left out of the backup's name. *)
FileNameOnlyMutant(f) == <<1, f>>

BackupName(f) == <<Len(entries) + 1, f>>

(* pre_action: back up what exists before the tool runs. *)
PreAction(f) ==
    /\ hook = NoHook
    /\ Len(entries) < MaxChanges /\ written < MaxWrites
    /\ hook' = [pc |-> "running", file |-> f, existed |-> Exists(f),
                backup |-> BackupName(f), before |-> workspace[f]]
    /\ backups' = IF Exists(f)
                  THEN [n \in DOMAIN backups \cup {BackupName(f)} |->
                           IF n = BackupName(f) THEN workspace[f] ELSE backups[n]]
                  ELSE backups
    /\ UNCHANGED <<workspace, logged, torn, entries, written, undone, changes, disturbed>>

ToolWrites ==
    /\ hook.pc = "running"
    /\ written' = written + 1
    /\ Write(hook.file, NewContent)
    /\ hook' = [hook EXCEPT !.pc = "succeeded"]
    /\ UNCHANGED <<backups, logged, torn, entries, undone, changes, disturbed>>

(* The patch does not match, or the write breaks off after the truncation;  *)
(* post_action then drops the pending rollback.                             *)
ToolFails ==
    /\ hook.pc = "running"
    /\ \/ UNCHANGED <<workspace, disturbed>>
       \/ Write(hook.file, Partial) /\ disturbed' = TRUE
    /\ hook' = NoHook
    /\ UNCHANGED <<backups, logged, torn, entries, written, undone, changes>>

(* An entry's timestamp tells it from every other: the content the tool made. *)
Entry == [file |-> hook.file,
          action |-> IF hook.existed THEN "modified" ELSE "created",
          backup |-> hook.backup,
          at |-> workspace[hook.file]]

(* _write_log, first half: write_text truncates the file and starts to      *)
(* write.                                                                   *)
RewriteLog(log) ==
    /\ logged' = log
    /\ torn' = TRUE
    /\ hook' = Logging

(* post_action: append the entry and write the whole log from memory.       *)
PostAction ==
    /\ hook.pc = "succeeded"
    /\ entries' = Append(entries, Entry)
    /\ RewriteLog(entries')
    /\ changes' = changes \cup {[at |-> Entry.at, file |-> hook.file, before |-> hook.before]}
    /\ UNCHANGED <<workspace, backups, written, undone, disturbed>>

(* The write goes through, or raises with the file cut off: the manager     *)
(* stays, if it is the agent's.                                             *)
LogWritten ==
    /\ hook = Logging
    /\ torn' \in BOOLEAN
    /\ hook' = NoHook
    /\ UNCHANGED <<workspace, backups, logged, entries, written, undone, changes, disturbed>>

(* The controller is replaced (another target, mode, reviewer): the new     *)
(* manager reads the log, and _load_log raises when it does not parse.      *)
NewController ==
    /\ hook = NoHook
    /\ ~torn /\ entries # logged
    /\ entries' = logged
    /\ UNCHANGED <<workspace, backups, logged, torn, hook, written, undone, changes, disturbed>>

(* The process dies in the middle of a tool call or an undo, or ends later  *)
(* with the log torn; when the session is loaded again, a log that does not *)
(* parse leaves it without a manager.                                       *)
Restart ==
    /\ hook # NoManager
    /\ hook # NoHook \/ torn
    /\ IF torn THEN hook' = NoManager /\ UNCHANGED entries
       ELSE hook' = NoHook /\ entries' = logged
    /\ disturbed' = (disturbed \/ hook.pc = "succeeded")
    /\ UNCHANGED <<workspace, backups, logged, torn, written, undone, changes>>
-----------------------------------------------------------------------------
(* Undo, by a manager that has just read the log.  The shell refuses it     *)
(* while a task is active.                                                  *)

Restored(entry) == IF entry.action = "created" THEN NoFile ELSE backups[entry.backup]

CanUndo == hook = NoHook /\ ~torn /\ logged # <<>> /\ undone < MaxUndos

UndoLast ==
    /\ CanUndo
    /\ undone' = undone + 1
    /\ Write(Last(logged).file, Restored(Last(logged)))
    /\ RewriteLog(Front(logged))
    /\ changes' = {c \in changes : c.at # Last(logged).at}
    /\ UNCHANGED <<backups, entries, written, disturbed>>

(* The copy fails, or breaks off after the truncation of the file, or the   *)
(* process dies after it: the entry is gone from a manager nobody keeps.    *)
UndoFails ==
    /\ CanUndo
    /\ undone' = undone + 1
    /\ \E content \in {workspace[Last(logged).file], Partial, Restored(Last(logged))} :
          Write(Last(logged).file, content)
    /\ UNCHANGED <<backups, logged, torn, entries, hook, written, changes, disturbed>>

(* Mutant: the entries are undone oldest first. *)
OldestFirstMutant(log) ==
    [f \in Files |->
        IF \E i \in DOMAIN log : log[i].file = f
        THEN Restored(log[CHOOSE i \in DOMAIN log :
                             log[i].file = f /\ \A j \in DOMAIN log : j > i => log[j].file # f])
        ELSE workspace[f]]

Oldest(log, f) ==
    CHOOSE i \in DOMAIN log : log[i].file = f /\ \A j \in 1 .. i - 1 : log[j].file # f

(* Undone newest first, so the oldest entry of a file has the last word. *)
RestoreAll(log) ==
    [f \in Files |-> IF \E i \in DOMAIN log : log[i].file = f
                     THEN Restored(log[Oldest(log, f)])
                     ELSE workspace[f]]

(* One manager undoes the whole log; a copy that fails ends it, with the     *)
(* entries from that one on still in the log.  The log is written after      *)
(* each of them; the last of these writes is the one LogWritten ends.        *)
UndoAll ==
    /\ CanUndo
    /\ undone' = undone + 1
    /\ \E left \in 0 .. Len(logged) - 1 :
          LET taken == SubSeq(logged, left + 1, Len(logged))
          IN  /\ workspace' = RestoreAll(taken)
              /\ RewriteLog(SubSeq(logged, 1, left))
              /\ changes' = {c \in changes : \A i \in 1 .. Len(taken) : taken[i].at # c.at}
    /\ UNCHANGED <<backups, entries, written, disturbed>>

UserEdits(f) ==
    /\ written < MaxWrites
    /\ written' = written + 1
    /\ Write(f, NewContent)
    /\ disturbed' = TRUE
    /\ UNCHANGED <<backups, logged, torn, entries, hook, undone, changes>>

RollbackNext ==
    \/ \E f \in Files : PreAction(f) \/ UserEdits(f)
    \/ ToolWrites \/ ToolFails \/ PostAction \/ LogWritten
    \/ NewController \/ Restart
    \/ UndoLast \/ UndoFails \/ UndoAll

RollbackSpec == RollbackInit /\ [][RollbackNext]_rollbackVars
-----------------------------------------------------------------------------
(* Properties. *)

(* Every change an agent's tool made and nobody undid can be undone: the    *)
(* log has its entry, the changes are in the order they were made, and the  *)
(* backup an entry names still has the content from before its change,      *)
(* whatever failed, crashed or was undone in between.  While the log is     *)
(* torn, the agent's manager holds the entries and its next change writes   *)
(* them all; a session that has lost this manager to a torn log can undo    *)
(* nothing any more.                                                        *)
EveryChangeUndoable ==
    LET known == IF torn THEN entries ELSE logged
    IN  hook # NoManager =>
          /\ \A c \in changes :
                \E i \in 1 .. Len(known) :
                   /\ known[i].at = c.at /\ known[i].file = c.file
                   /\ Restored(known[i]) = c.before
          /\ \A i, j \in 1 .. Len(known) : i < j => known[i].at < known[j].at

(* /agent undo-all that goes through takes the workspace back to where the  *)
(* session found it, when nobody else has touched the files, even if        *)
(* entries that were undone before have come back to the log.               *)
UndoAllRestoresWorkspace ==
    [][UndoAll /\ logged' = <<>> /\ ~disturbed => workspace' = Original]_rollbackVars

(* docs/roadmap.md: undo restores files to previous state.  An undo takes   *)
(* back a change that is still there; a change that was undone is not       *)
(* undone again over what was written since.                                *)
UndoneOnce ==
    [][UndoLast => \E c \in changes : c.at = Last(logged).at]_rollbackVars
=============================================================================
