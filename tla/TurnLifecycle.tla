---------------------------- MODULE TurnLifecycle ----------------------------
(***************************************************************************)
(* What the session runtime promises of the user turns it is given,        *)
(* whatever drives them: a turn is started after every earlier one, at     *)
(* most one turn is in progress, a paused turn is resumed or ended, and    *)
(* its end is reported once and for all.  A turn an exception breaks may   *)
(* be abandoned; the interrupt that follows a break still reports its end. *)
(***************************************************************************)
EXTENDS Integers

CONSTANT Turns    \* the turns, numbered in the order of submission

VARIABLES
  status,    \* of each turn
  reports    \* how often the end of each turn has been reported

lifecycleVars == <<status, reports>>

Statuses == {"new", "queued", "running", "paused", "ended", "abandoned"}

InProgress(t) == status[t] \in {"running", "paused"}
Settled(t) == status[t] \in {"ended", "abandoned"}

LifecycleInit ==
  /\ status = [t \in Turns |-> "new"]
  /\ reports = [t \in Turns |-> 0]

Moves(t, from, to) ==
  /\ status[t] \in from
  /\ status' = [status EXCEPT ![t] = to]

Submit(t) ==
  /\ \A u \in Turns : u < t => status[u] # "new"
  /\ Moves(t, {"new"}, "queued")
  /\ UNCHANGED reports

Start(t) ==
  /\ \A u \in Turns : u < t => Settled(u)
  /\ Moves(t, {"queued"}, "running")
  /\ UNCHANGED reports

Pause(t) == Moves(t, {"running"}, "paused") /\ UNCHANGED reports

Resume(t) == Moves(t, {"paused"}, "running") /\ UNCHANGED reports

End(t) ==
  /\ Moves(t, {"running", "paused"}, "ended")
  /\ reports' = [reports EXCEPT ![t] = @ + 1]

Abandon(t) == Moves(t, {"running", "paused"}, "abandoned") /\ UNCHANGED reports

LifecycleNext ==
  \E t \in Turns :
    Submit(t) \/ Start(t) \/ Pause(t) \/ Resume(t) \/ End(t) \/ Abandon(t)

LifecycleSpec == LifecycleInit /\ [][LifecycleNext]_lifecycleVars
-----------------------------------------------------------------------------
\* At most one turn is in progress, and the turns before it are settled.
OneAtATime ==
  \A t, u \in Turns : InProgress(t) /\ u < t => Settled(u)

\* The end of a turn is reported exactly when it has ended, and once.
ReportedOnce ==
  \A t \in Turns : reports[t] = IF status[t] = "ended" THEN 1 ELSE 0
=============================================================================
