------------------------- MODULE TurnLifecycleProofs -------------------------
(***************************************************************************)
(* What the life cycle of turns guarantees, for every set of turns.        *)
(***************************************************************************)
EXTENDS TurnLifecycle, TLAPS

\* The status and the report count are functions of the turns.
LifecycleTypeOK ==
  /\ status \in [Turns -> Statuses]
  /\ reports \in [Turns -> Int]

LifecycleInv == LifecycleTypeOK /\ OneAtATime /\ ReportedOnce

LEMMA InitHolds == LifecycleInit => LifecycleInv
  BY DEF LifecycleInit, LifecycleInv, LifecycleTypeOK, OneAtATime, ReportedOnce,
         InProgress, Settled, Statuses

\* A move changes one turn only, and from a status it may leave.
LEMMA MovesOne ==
  ASSUME LifecycleTypeOK, NEW t \in Turns, NEW from, NEW to \in Statuses,
         Moves(t, from, to)
  PROVE  /\ status' \in [Turns -> Statuses]
         /\ status[t] \in from
         /\ status'[t] = to
         /\ \A u \in Turns : u # t => status'[u] = status[u]
  BY DEF LifecycleTypeOK, Moves

\* A turn in progress keeps excluding the others: a move away from a status
\* that is not settled never makes a second one run, unless it is the start of
\* a turn whose predecessors are settled.
LEMMA OrderKept ==
  ASSUME LifecycleInv, NEW t \in Turns, NEW from, NEW to \in Statuses,
         Moves(t, from, to), from \cap {"ended", "abandoned"} = {},
         \/ to \notin {"running", "paused"}
         \/ from \subseteq {"running", "paused"}
         \/ \A u \in Turns : u < t => Settled(u)
  PROVE  OneAtATime'
<1>1. /\ status[t] \in from
      /\ status'[t] = to
      /\ \A u \in Turns : u # t => status'[u] = status[u]
  BY MovesOne DEF LifecycleInv
<1>2. SUFFICES ASSUME NEW v \in Turns, NEW u \in Turns, InProgress(v)', u < v
               PROVE  Settled(u)'
  BY DEF OneAtATime
<1>3. Settled(u)
  <2>1. CASE v # t
    BY <1>1, <1>2, <2>1 DEF InProgress, LifecycleInv, OneAtATime
  <2>2. CASE v = t
    BY <1>1, <1>2, <2>2 DEF InProgress, LifecycleInv, OneAtATime
  <2>3. QED  BY <2>1, <2>2
<1>4. u # t
  BY <1>1, <1>3 DEF Settled
<1>5. QED  BY <1>1, <1>3, <1>4 DEF Settled

\* Moves that report nothing and end nothing.
LEMMA ReportsKept ==
  ASSUME LifecycleInv, NEW t \in Turns, NEW from, NEW to \in Statuses \ {"ended"},
         Moves(t, from, to), "ended" \notin from, UNCHANGED reports
  PROVE  ReportedOnce'
  BY MovesOne DEF LifecycleInv, ReportedOnce

LEMMA StepHolds == LifecycleInv /\ [LifecycleNext]_lifecycleVars => LifecycleInv'
<1> SUFFICES ASSUME LifecycleInv, [LifecycleNext]_lifecycleVars PROVE LifecycleInv'
  OBVIOUS
<1>1. CASE UNCHANGED lifecycleVars
  BY <1>1 DEF lifecycleVars, LifecycleInv, LifecycleTypeOK, OneAtATime, ReportedOnce,
              InProgress, Settled
<1>2. ASSUME NEW t \in Turns, NEW from, NEW to \in Statuses \ {"ended"},
             Moves(t, from, to), from \cap {"ended", "abandoned"} = {}, UNCHANGED reports,
             \/ to \notin {"running", "paused"}
             \/ from \subseteq {"running", "paused"}
             \/ \A u \in Turns : u < t => Settled(u)
      PROVE  LifecycleInv'
  <2>1. LifecycleTypeOK'
    BY <1>2, MovesOne DEF LifecycleInv, LifecycleTypeOK
  <2>2. OneAtATime'
    BY <1>2, OrderKept
  <2>3. ReportedOnce'
    BY <1>2, ReportsKept
  <2>4. QED  BY <2>1, <2>2, <2>3 DEF LifecycleInv
<1>3. CASE \E t \in Turns : Submit(t)
  BY <1>2, <1>3 DEF Submit, Statuses
<1>4. CASE \E t \in Turns : Start(t)
  BY <1>2, <1>4 DEF Start, Statuses
<1>5. CASE \E t \in Turns : Pause(t)
  BY <1>2, <1>5 DEF Pause, Statuses
<1>6. CASE \E t \in Turns : Resume(t)
  BY <1>2, <1>6 DEF Resume, Statuses
<1>7. CASE \E t \in Turns : End(t)
  <2>1. PICK t \in Turns : End(t)
    BY <1>7
  <2> DEFINE from == {"running", "paused"}
  <2>2. Moves(t, from, "ended") /\ "ended" \in Statuses
    BY <2>1 DEF End, Statuses
  <2>3. LifecycleTypeOK'
    BY <2>1, <2>2, MovesOne DEF End, LifecycleInv, LifecycleTypeOK
  <2>4. OneAtATime'
    BY <2>2, OrderKept
  <2>5. ReportedOnce'
    BY <2>1, <2>2, MovesOne DEF End, LifecycleInv, LifecycleTypeOK, ReportedOnce
  <2>6. QED  BY <2>3, <2>4, <2>5 DEF LifecycleInv
<1>8. CASE \E t \in Turns : Abandon(t)
  BY <1>2, <1>8 DEF Abandon, Statuses
<1>9. QED
  BY <1>1, <1>3, <1>4, <1>5, <1>6, <1>7, <1>8 DEF LifecycleNext

LEMMA AlwaysHolds == LifecycleSpec => []LifecycleInv
  BY InitHolds, StepHolds, PTL DEF LifecycleSpec

\* At most one turn is in progress, whatever the number of turns, and all the
\* turns before it are settled: SessionRuntime drives one submission at a time.
THEOREM TurnsInOrder == LifecycleSpec => []OneAtATime
<1>1. LifecycleInv => OneAtATime
  BY DEF LifecycleInv
<1>2. QED  BY <1>1, AlwaysHolds, PTL

\* The end of every turn is reported once, and only then is it over:
\* turn_completed, turn_failed or turn_interrupted, never two of them.
THEOREM EndsReportedOnce == LifecycleSpec => []ReportedOnce
<1>1. LifecycleInv => ReportedOnce
  BY DEF LifecycleInv
<1>2. QED  BY <1>1, AlwaysHolds, PTL
=============================================================================
