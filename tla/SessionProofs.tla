---------------------------- MODULE SessionProofs ----------------------------
(***************************************************************************)
(* Theorems about what a session keeps beside its turns: what the stores   *)
(* hold of it, the model that answers for it, what that model is shown and *)
(* the form a provider is sent it in.                                      *)
(***************************************************************************)
EXTENDS SessionStore, Targets, ContextWindow, WireFormat, SequenceTheorems,
        NaturalsInduction, WellFoundedInduction, TLAPS

-----------------------------------------------------------------------------
(* SessionStore, for any number of sessions, turns and processes: an       *)
(* autosave name goes with the identifier it was made from, in the memory  *)
(* of the process, in the hands of a thread that saves and on disk.  What  *)
(* a history holds plays no part, so only the shape of the records is      *)
(* stated, not the type of what they hold.                                 *)

SessionShape ==
    session = [obj |-> session.obj, id |-> session.id, name |-> session.name,
               hist |-> session.hist]

SaverShape ==
    /\ saver = [w \in Savers |-> saver[w]]
    /\ \A w \in Savers :
          saver[w] = [pc |-> saver[w].pc, target |-> saver[w].target, obj |-> saver[w].obj,
                      restore |-> saver[w].restore, payload |-> saver[w].payload]

DiskShape == disk = [n \in Names |-> disk[n]]

\* Under the name made from an identifier goes a session that has it.
Fits(name, id) == \A i \in Ids : name = AutosaveName(i) => id = i

SessionFits == Fits(session.name, session.id)
SaversFit == \A w \in Savers : Fits(saver[w].target, saver[w].payload.id)
DiskFits == \A n \in Names : disk[n].state = "whole" => Fits(n, disk[n].id)

NamesInv ==
    /\ SessionShape /\ SaverShape /\ DiskShape
    /\ SessionFits /\ SaversFit /\ DiskFits

LEMMA OtherNames ==
  /\ \A id : Fits(NoName, id)
  /\ \A n, id : Fits(User(n), id)
  /\ \A i : Fits(AutosaveName(i), i)
<1>1. \A i : NoName # AutosaveName(i)
  BY DEF NoName, AutosaveName
<1>2. \A n, i : User(n) # AutosaveName(i)
  BY DEF User, AutosaveName
<1>3. \A i, j : AutosaveName(i) = AutosaveName(j) => i = j
  BY DEF AutosaveName
<1> QED
  BY <1>1, <1>2, <1>3 DEF Fits

LEMMA IdleFits ==
  /\ IdleSaver = [pc |-> IdleSaver.pc, target |-> IdleSaver.target, obj |-> IdleSaver.obj,
                  restore |-> IdleSaver.restore, payload |-> IdleSaver.payload]
  /\ Fits(IdleSaver.target, IdleSaver.payload.id)
<1>1. IdleSaver.target = NoName
  BY DEF IdleSaver
<1> QED
  BY <1>1, OtherNames DEF IdleSaver

\* A session that is new or cleared of its name fits whatever it is.
LEMMA NewSessionFits ==
  ASSUME NEW obj, NEW id, session' = NewSession(obj, id)
  PROVE  SessionShape' /\ SessionFits'
<1>1. session'.name = NoName
  BY DEF NewSession
<1> QED
  BY <1>1, OtherNames DEF SessionShape, SessionFits, NewSession

LEMMA NamesInvInit == StoreInit => NamesInv
<1> SUFFICES ASSUME StoreInit PROVE NamesInv
  OBVIOUS
<1>1. session = NewSession(1, 1) /\ session.name = NoName
  BY DEF StoreInit, NewSession
<1>2. SessionShape /\ SessionFits
  BY <1>1, OtherNames DEF SessionShape, SessionFits, NewSession
<1>3. SaverShape /\ SaversFit
  BY IdleFits DEF StoreInit, SaverShape, SaversFit
<1>4. DiskShape /\ DiskFits
  BY DEF StoreInit, DiskShape, DiskFits, Absent
<1> QED
  BY <1>2, <1>3, <1>4 DEF NamesInv

\* A thread takes what it has to save, under a name that fits.
LEMMA SaveStarts ==
  ASSUME SaverShape, SaversFit, NEW w \in Savers, NEW s, NEW name, NEW autosave,
         s = [obj |-> s.obj, id |-> s.id, name |-> s.name, hist |-> s.hist],
         Fits(name, s.id), StartSave(w, s, name, autosave)
  PROVE  SessionShape' /\ SessionFits' /\ SaverShape' /\ SaversFit'
<1> DEFINE r == [pc |-> "ready", target |-> name, obj |-> s.obj,
                 restore |-> autosave /\ s.name = NoName, payload |-> Payload(s)]
<1>1. saver' = [saver EXCEPT ![w] = r] /\ session' = [s EXCEPT !.name = name]
  BY DEF StartSave
<1>2. r.target = name /\ r.payload.id = s.id
  BY DEF Payload
<1>3. r = [pc |-> r.pc, target |-> r.target, obj |-> r.obj, restore |-> r.restore,
           payload |-> r.payload]
  OBVIOUS
<1> HIDE DEF r
<1>4. SaverShape' /\ SaversFit'
  BY <1>1, <1>2, <1>3 DEF SaverShape, SaversFit
<1>5. SessionShape' /\ SessionFits'
  BY <1>1 DEF SessionShape, SessionFits
<1> QED
  BY <1>4, <1>5

LEMMA AutosaveFits ==
  ASSUME SaverShape, SaversFit, NEW w \in Savers, NEW s,
         s = [obj |-> s.obj, id |-> s.id, name |-> s.name, hist |-> s.hist],
         Fits(s.name, s.id), Autosave(w, s)
  PROVE  SessionShape' /\ SessionFits' /\ SaverShape' /\ SaversFit'
<1>1. CASE AutosaveTargetName(s) = NoName
  BY <1>1 DEF Autosave, SessionShape, SessionFits, SaverShape, SaversFit
<1>2. CASE AutosaveTargetName(s) # NoName
  <2>1. AutosaveTargetName(s) \in {s.name, AutosaveName(s.id)}
    BY <1>2 DEF AutosaveTargetName
  <2>2. Fits(AutosaveTargetName(s), s.id)
    BY <2>1, OtherNames
  <2>3. StartSave(w, s, AutosaveTargetName(s), TRUE)
    BY <1>2 DEF Autosave
  <2> QED
    BY <2>2, <2>3, SaveStarts
<1> QED
  BY <1>1, <1>2

\* A step of a thread that saves.
LEMMA SavingKeeps ==
  ASSUME NamesInv, NEW w \in Savers, Saving(w)
  PROVE  NamesInv'
<1> USE DEF NamesInv
<1>1. CASE OpenFile(w)
  <2>1. TornFile.state # "whole"
    BY DEF TornFile, Absent
  <2>2. DiskShape' /\ DiskFits'
    BY <1>1, <2>1 DEF OpenFile, DiskShape, DiskFits
  <2>3. SaverShape' /\ SaversFit'
    BY <1>1 DEF OpenFile, SaverShape, SaversFit
  <2>4. SessionShape' /\ SessionFits'
    BY <1>1 DEF OpenFile, SessionShape, SessionFits
  <2> QED
    BY <2>2, <2>3, <2>4
<1>2. CASE FinishSave(w)
  <2>1. DiskShape' /\ DiskFits'
    BY <1>2 DEF FinishSave, DiskShape, DiskFits, SaversFit
  <2>2. SaverShape' /\ SaversFit'
    BY <1>2, IdleFits DEF FinishSave, SaverShape, SaversFit
  <2>3. SessionShape' /\ SessionFits'
    <3>1. CASE session' = session
      BY <3>1 DEF SessionShape, SessionFits
    <3>2. CASE session' = [session EXCEPT !.name = NoName]
      BY <3>2, OtherNames DEF SessionShape, SessionFits
    <3> QED
      BY <1>2, <3>1, <3>2 DEF FinishSave
  <2> QED
    BY <2>1, <2>2, <2>3
<1>3. CASE SaveFails(w)
  <2>1. SaverShape' /\ SaversFit'
    BY <1>3, IdleFits DEF SaveFails, SaverShape, SaversFit
  <2>2. SessionShape' /\ SessionFits' /\ DiskShape' /\ DiskFits'
    BY <1>3 DEF SaveFails, SessionShape, SessionFits, DiskShape, DiskFits
  <2> QED
    BY <2>1, <2>2
<1> QED
  BY <1>1, <1>2, <1>3 DEF Saving

LEMMA DiskKept ==
  ASSUME DiskShape, DiskFits, UNCHANGED disk
  PROVE  DiskShape' /\ DiskFits'
BY DEF DiskShape, DiskFits

LEMMA SaversKept ==
  ASSUME SaverShape, SaversFit, UNCHANGED saver
  PROVE  SaverShape' /\ SaversFit'
BY DEF SaverShape, SaversFit

\* The timer fires, a turn ends or the user leaves.
LEMMA AutosavesKeep ==
  ASSUME NamesInv, AutosaveFires \/ EndDrain \/ Exit
  PROVE  NamesInv'
<1> USE DEF NamesInv
<1>1. DiskShape' /\ DiskFits'
  BY DiskKept DEF AutosaveFires, EndDrain, Exit
<1>2. ASSUME NEW w \in Savers, Autosave(w, session)
      PROVE  SessionShape' /\ SessionFits' /\ SaverShape' /\ SaversFit'
  BY <1>2, AutosaveFits DEF SessionShape, SessionFits
<1>3. ASSUME NEW hist, Autosave("main", [session EXCEPT !.hist = hist])
      PROVE  SessionShape' /\ SessionFits' /\ SaverShape' /\ SaversFit'
  <2> DEFINE s == [session EXCEPT !.hist = hist]
  <2>1. /\ s = [obj |-> s.obj, id |-> s.id, name |-> s.name, hist |-> s.hist]
        /\ s.name = session.name /\ s.id = session.id
    BY DEF SessionShape
  <2>2. "main" \in Savers /\ Fits(s.name, s.id)
    BY <2>1 DEF SessionFits, Savers
  <2> HIDE DEF s
  <2>3. Autosave("main", s)
    BY <1>3 DEF s
  <2> QED
    BY <2>1, <2>2, <2>3, AutosaveFits
<1>4. "timer" \in Savers /\ "main" \in Savers
  BY DEF Savers
<1>5. CASE AutosaveFires
  BY <1>1, <1>2, <1>4, <1>5 DEF AutosaveFires
<1>6. CASE EndDrain
  <2>1. \/ Autosave("main", session)
        \/ Autosave("main", [session EXCEPT !.hist =
                                 Append(session.hist, Message("assistant", "stopped"))])
    BY <1>6 DEF EndDrain, SessionShape
  <2> QED
    BY <1>1, <1>2, <1>3, <1>4, <2>1
<1>7. CASE Exit
  BY <1>1, <1>2, <1>4, <1>7 DEF Exit
<1> QED
  BY <1>5, <1>6, <1>7

\* What is loaded has the identifier that its name stands for.
LEMMA LoadKeeps ==
  ASSUME NamesInv, NEW n \in Names, LoadsSession(n)
  PROVE  NamesInv'
<1> USE DEF NamesInv
<1>1. DiskShape' /\ DiskFits' /\ SaverShape' /\ SaversFit'
  BY DiskKept, SaversKept DEF LoadsSession
<1>2. Fits(n, disk[n].id)
  BY DEF LoadsSession, DiskFits
<1>3. session' = Loaded(n) /\ session'.name = n /\ session'.id = disk[n].id
  BY DEF LoadsSession, Loaded
<1>4. SessionShape'
  BY <1>3 DEF SessionShape, Loaded
<1>5. SessionFits'
  BY <1>2, <1>3 DEF SessionFits
<1> QED
  BY <1>1, <1>4, <1>5

LEMMA ForkKeeps ==
  ASSUME NamesInv, NEW n \in Names, NEW f \in UserNames, ForkSession(n, User(f))
  PROVE  NamesInv'
<1> USE DEF NamesInv
<1>1. DiskShape' /\ DiskFits' /\ SaverShape' /\ SaversFit'
  BY DiskKept, SaversKept DEF ForkSession
<1>2. session' = [Loaded(n) EXCEPT !.id = made', !.name = User(f)]
  BY DEF ForkSession
<1>3. SessionShape' /\ session'.name = User(f)
  BY <1>2 DEF SessionShape, Loaded
<1>4. SessionFits'
  BY <1>3, OtherNames DEF SessionFits
<1> QED
  BY <1>1, <1>3, <1>4

LEMMA SaveAsKeeps ==
  ASSUME NamesInv, NEW n \in UserNames, SaveAs(User(n))
  PROVE  NamesInv'
<1> USE DEF NamesInv
<1>1. DiskShape' /\ DiskFits'
  BY DiskKept DEF SaveAs
<1>2. "main" \in Savers /\ Fits(User(n), session.id)
  BY OtherNames DEF Savers
<1>3. StartSave("main", session, User(n), FALSE)
  BY DEF SaveAs
<1>4. SessionShape' /\ SessionFits' /\ SaverShape' /\ SaversFit'
  BY <1>2, <1>3, SaveStarts DEF SessionShape
<1> QED
  BY <1>1, <1>4

\* A turn changes what the session holds, neither its name nor its number.
LEMMA HistoryKeeps ==
  ASSUME NamesInv, UNCHANGED <<disk, saver>>,
         session' = session \/ \E hist : session' = [session EXCEPT !.hist = hist]
  PROVE  NamesInv'
<1> USE DEF NamesInv
<1>1. DiskShape' /\ DiskFits' /\ SaverShape' /\ SaversFit'
  BY DiskKept, SaversKept
<1>2. SessionShape' /\ session'.name = session.name /\ session'.id = session.id
  BY DEF SessionShape
<1>3. SessionFits'
  BY <1>2 DEF SessionFits
<1> QED
  BY <1>1, <1>2, <1>3

LEMMA ProcessKeeps ==
  ASSUME NamesInv, StartNewSession \/ Crash \/ StartProcess
  PROVE  NamesInv'
<1> USE DEF NamesInv
<1>1. \E obj, id : session' = NewSession(obj, id)
  BY DEF StartNewSession, Crash, LoseMemory, StartProcess
<1>2. SessionShape' /\ SessionFits'
  BY <1>1, NewSessionFits
<1>3. SaverShape' /\ SaversFit'
  <2>1. CASE saver' = [w \in Savers |-> IdleSaver]
    BY <2>1, IdleFits DEF SaverShape, SaversFit
  <2> QED
    BY <2>1, SaversKept DEF StartNewSession, Crash, LoseMemory, StartProcess
<1>4. DiskShape' /\ DiskFits'
  <2>1. CASE StartProcess
    <3>1. PICK old \in SUBSET Names :
             disk' = [n \in Names |-> IF n \in old THEN Absent ELSE disk[n]]
      BY <2>1 DEF StartProcess, PruneUnnamedAutosaves
    <3>2. Absent.state # "whole"
      BY DEF Absent
    <3> QED
      BY <3>1, <3>2 DEF DiskShape, DiskFits
  <2> QED
    BY <2>1, DiskKept DEF StartNewSession, Crash
<1> QED
  BY <1>2, <1>3, <1>4

LEMMA NamesInvStep == NamesInv /\ [StoreNext]_storeVars => NamesInv'
<1> SUFFICES ASSUME NamesInv, [StoreNext]_storeVars PROVE NamesInv'
  OBVIOUS
<1>1. CASE \E w \in Savers : Saving(w)
  BY <1>1, SavingKeeps
<1>2. CASE AutosaveFires \/ EndDrain \/ Exit
  BY <1>2, AutosavesKeep
<1>3. CASE \/ SkipSave \/ SubmitTurn \/ ClearSession \/ ReportCompleted
           \/ AppendUserInput \/ RecordTool \/ AppendAnswer
  BY <1>3, HistoryKeeps DEF SkipSave, SubmitTurn, ClearSession, ReportCompleted,
     AppendUserInput, RecordTool, AppendAnswer, AppendMessage
<1>4. CASE \E n \in UserNames : SaveAs(User(n))
  BY <1>4, SaveAsKeeps
<1>5. CASE \E n \in Names : LoadSession(n) \/ ExecSession(n)
  BY <1>5, LoadKeeps DEF LoadSession, ExecSession
<1>6. CASE \E n \in Names, f \in UserNames : ForkSession(n, User(f))
  BY <1>6, ForkKeeps
<1>7. CASE StartNewSession \/ Crash \/ StartProcess
  BY <1>7, ProcessKeeps
<1>8. CASE UNCHANGED storeVars
  BY <1>8, HistoryKeeps DEF storeVars
<1> QED
  BY <1>1, <1>2, <1>3, <1>4, <1>5, <1>6, <1>7, <1>8 DEF StoreNext, TurnStep

(* The generated name of an autosave holds the session it was made for,    *)
(* whatever the user starts, loads, forks or saves while the timer thread  *)
(* and the main thread save, whatever fails, and across crashes, pruning   *)
(* and new processes, for any number of sessions and names                 *)
(* (session/autosave.py, session/manager.py save_session).                 *)
THEOREM AutosavesBelong == StoreSpec => []AutosaveHoldsItsSession
<1>1. StoreInit => NamesInv
  BY NamesInvInit
<1>2. NamesInv /\ [StoreNext]_storeVars => NamesInv'
  BY NamesInvStep
<1>3. NamesInv => AutosaveHoldsItsSession
  BY DEF NamesInv, DiskFits, Fits, AutosaveHoldsItsSession, Names
<1> QED
  BY <1>1, <1>2, <1>3, PTL DEF StoreSpec

-----------------------------------------------------------------------------
(* Replay, for histories and logs of any length.  The prover has no        *)
(* induction over data; the smallest number at which a claim would fail    *)
(* stands in for it.                                                       *)

LEMMA LeastExists ==
  ASSUME NEW S, S \subseteq Nat, S # {}
  PROVE  \E m \in S : \A j \in S : m <= j
<1> DEFINE R == OpToRel(<, Nat)
<1>1. IsWellFoundedOn(R, Nat)
  BY NatLessThanWellFounded
<1>2. \A x, y \in Nat : y < x => <<y, x>> \in R
  BY DEF OpToRel
<1> HIDE DEF R
<1>3. PICK m \in S : \A j \in S : ~ (<<j, m>> \in R)
  BY <1>1, WFMin
<1>4. \A j \in S : ~ (j < m)
  BY <1>2, <1>3
<1>5. \A j \in S : j \in Nat /\ m \in Nat
  OBVIOUS
<1> QED
  BY <1>4, <1>5

\* What is iterated step by step has a sequence of intermediate values.
IteratesTo(f, n, S, a, g) ==
    /\ f \in [0 .. n -> S]
    /\ f[0] = a
    /\ \A k \in 1 .. n : f[k] = g[<<k, f[k - 1]>>]

LEMMA IterationExists ==
  ASSUME NEW S, NEW a \in S, NEW N \in Nat, NEW g \in [(1 .. N) \X S -> S]
  PROVE  \E f : IteratesTo(f, N, S, a, g)
<1> DEFINE Bad == {n \in 0 .. N : ~ \E f : IteratesTo(f, n, S, a, g)}
<1>1. SUFFICES ASSUME Bad # {} PROVE FALSE
  OBVIOUS
<1>2. Bad \subseteq Nat
  OBVIOUS
<1>3. PICK m \in Bad : \A j \in Bad : m <= j
  BY <1>1, <1>2, LeastExists
<1>4. m \in 0 .. N /\ ~ \E f : IteratesTo(f, m, S, a, g)
  OBVIOUS
<1>5. CASE m = 0
  <2>1. IteratesTo([k \in 0 .. 0 |-> a], 0, S, a, g)
    BY DEF IteratesTo
  <2> QED
    BY <1>4, <1>5, <2>1
<1>6. CASE m # 0
  <2>1. m - 1 \in 0 .. N /\ m \in 1 .. N /\ ~ (m <= m - 1)
    BY <1>4, <1>6
  <2>2. m - 1 \notin Bad
    BY <1>3, <2>1
  <2>3. PICK f : IteratesTo(f, m - 1, S, a, g)
    BY <2>1, <2>2
  <2> HIDE DEF Bad
  <2> DEFINE h == [k \in 0 .. m |-> IF k = m THEN g[<<m, f[m - 1]>>] ELSE f[k]]
  <2>4. f \in [0 .. m - 1 -> S] /\ f[m - 1] \in S
    BY <2>1, <2>3 DEF IteratesTo
  <2>5. g[<<m, f[m - 1]>>] \in S
    BY <2>1, <2>4
  <2>6. h \in [0 .. m -> S]
    BY <2>1, <2>4, <2>5
  <2>7. h[0] = a
    BY <2>1, <2>3 DEF IteratesTo
  <2>8. \A k \in 1 .. m : h[k] = g[<<k, h[k - 1]>>]
    <3> SUFFICES ASSUME NEW k \in 1 .. m PROVE h[k] = g[<<k, h[k - 1]>>]
      OBVIOUS
    <3>1. k - 1 \in 0 .. m /\ k \in 0 .. m /\ k - 1 # m
      BY <2>1
    <3>2. h[k - 1] = f[k - 1]
      BY <3>1
    <3>3. CASE k = m
      BY <3>1, <3>2, <3>3
    <3>4. CASE k # m
      <4>1. k \in 1 .. m - 1 /\ h[k] = f[k]
        BY <2>1, <3>1, <3>4
      <4> QED
        BY <2>3, <3>2, <4>1 DEF IteratesTo
    <3> QED
      BY <3>3, <3>4
  <2>9. IteratesTo(h, m, S, a, g)
    BY <2>6, <2>7, <2>8 DEF IteratesTo
  <2> QED
    BY <1>4, <2>9
<1> QED
  BY <1>5, <1>6

Messages ==
    {Summary, Message("tool", "result"), Message("assistant", "stopped")}
        \cup {Message("user", Prompt[t]) : t \in Turns}
        \cup {Message("assistant", Answer[t]) : t \in Turns}
Histories == Seq(Messages)
Records == [kind : {"submission", "completed"}, turn : Turns]

IsSubmitted(records, t) ==
    \E k \in 1 .. Len(records) : records[k] = [kind |-> "submission", turn |-> t]

HasTurn(hist, t) == HasUserAssistantPair(hist, Prompt[t], Answer[t])

LEMMA TurnsHaveMessages ==
  ASSUME NEW t \in Turns
  PROVE  Message("user", Prompt[t]) \in Messages /\ Message("assistant", Answer[t]) \in Messages
BY DEF Messages

\* Recovery only adds at the end, so it parts no pair.
LEMMA LongerHasTurn ==
  ASSUME NEW hist \in Histories, NEW more \in Histories, NEW t, HasTurn(hist, t)
  PROVE  HasTurn(hist \o more, t)
<1>1. PICK i \in 1 .. Len(hist) - 1 : /\ hist[i] = Message("user", Prompt[t])
                                      /\ hist[i + 1] = Message("assistant", Answer[t])
  BY DEF HasTurn, HasUserAssistantPair
<1>2. /\ i \in 1 .. Len(hist \o more) - 1
      /\ (hist \o more)[i] = hist[i] /\ (hist \o more)[i + 1] = hist[i + 1]
  BY DEF Histories
<1> QED
  BY <1>1, <1>2 DEF HasTurn, HasUserAssistantPair

LEMMA RecoverAppends ==
  ASSUME NEW hist \in Histories, NEW t \in Turns
  PROVE  /\ \E more \in Histories : RecoverTurn(hist, t) = hist \o more
         /\ HasTurn(RecoverTurn(hist, t), t)
         /\ HasTurn(hist, t) => RecoverTurn(hist, t) = hist
<1> DEFINE ask == Message("user", Prompt[t])
           reply == Message("assistant", Answer[t])
<1>1. ask \in Messages /\ reply \in Messages
  BY TurnsHaveMessages
<1>2. HasTurn(hist, t) => RecoverTurn(hist, t) = hist
  BY DEF HasTurn, RecoverTurn
<1> HIDE DEF ask, reply
<1>3. CASE HasTurn(hist, t)
  <2>1. hist = hist \o << >> /\ << >> \in Histories
    BY DEF Histories
  <2> QED
    BY <1>2, <1>3, <2>1
<1>4. CASE ~ HasTurn(hist, t) /\ hist # << >> /\ Last(hist) = ask
  <2>1. RecoverTurn(hist, t) = Append(hist, reply)
    BY <1>4 DEF HasTurn, RecoverTurn, ask, reply
  <2>2. <<reply>> \in Histories /\ Append(hist, reply) = hist \o <<reply>>
    BY <1>1 DEF Histories
  <2>3. Len(hist) \in Nat \ {0} /\ hist[Len(hist)] = ask
    BY <1>4 DEF Histories, Last
  <2>4. /\ Len(Append(hist, reply)) = Len(hist) + 1
        /\ Append(hist, reply)[Len(hist)] = ask
        /\ Append(hist, reply)[Len(hist) + 1] = reply
    BY <2>3, <1>1 DEF Histories
  <2>5. HasTurn(Append(hist, reply), t)
    BY <2>3, <2>4 DEF HasTurn, HasUserAssistantPair, ask, reply
  <2> QED
    BY <1>2, <2>1, <2>2, <2>5
<1>5. CASE ~ HasTurn(hist, t) /\ ~ (hist # << >> /\ Last(hist) = ask)
  <2> DEFINE pair == <<ask, reply>>
  <2>1. RecoverTurn(hist, t) = hist \o pair
    BY <1>5 DEF HasTurn, RecoverTurn, ask, reply
  <2>2. pair \in Histories /\ Len(pair) = 2 /\ pair[1] = ask /\ pair[2] = reply
    BY <1>1 DEF Histories
  <2> HIDE DEF pair
  <2>3. Len(hist) \in Nat
    BY DEF Histories
  <2>4. /\ Len(hist \o pair) = Len(hist) + 2
        /\ (hist \o pair)[Len(hist) + 1] = ask
        /\ (hist \o pair)[Len(hist) + 2] = reply
    <3>1. hist \in Seq(Messages) /\ pair \in Seq(Messages)
      BY <2>2 DEF Histories
    <3>2. Len(hist \o pair) = Len(hist) + Len(pair)
      BY <3>1
    <3>3. \A i \in 1 .. Len(pair) : (hist \o pair)[Len(hist) + i] = pair[i]
      BY <2>3, <3>1
    <3> QED
      BY <2>2, <2>3, <3>2, <3>3
  <2>5. HasTurn(hist \o pair, t)
    <3> DEFINE g == hist \o pair
               i == Len(hist) + 1
    <3>1. i \in 1 .. Len(g) - 1 /\ i + 1 = Len(hist) + 2
      BY <2>3, <2>4
    <3>2. g[i] = ask /\ g[i + 1] = reply
      BY <2>4, <3>1
    <3> HIDE DEF g, i
    <3>3. HasTurn(g, t)
      BY <3>1, <3>2 DEF HasTurn, HasUserAssistantPair, ask, reply
    <3> QED
      BY <3>3 DEF g
  <2> QED
    BY <1>2, <2>1, <2>2, <2>5
<1> QED
  BY <1>3, <1>4, <1>5

LEMMA ReplayRecordAppends ==
  ASSUME NEW hist \in Histories, NEW records, NEW r \in Records
  PROVE  /\ ReplayRecord(hist, r, records) \in Histories
         /\ \A t : HasTurn(hist, t) => HasTurn(ReplayRecord(hist, r, records), t)
<1>1. r.turn \in Turns
  BY DEF Records
<1>2. PICK more \in Histories : RecoverTurn(hist, r.turn) = hist \o more
  BY <1>1, RecoverAppends
<1>3. hist \o more \in Histories
  BY DEF Histories
<1>4. \A t : HasTurn(hist, t) => HasTurn(hist \o more, t)
  BY LongerHasTurn
<1> QED
  BY <1>2, <1>3, <1>4 DEF ReplayRecord

\* The histories that replay goes through.
Replays(f, hist, records) ==
    /\ f \in [0 .. Len(records) -> Histories]
    /\ f[0] = hist
    /\ \A k \in 1 .. Len(records) : f[k] = ReplayRecord(f[k - 1], records[k], records)
    /\ Replay(hist, records) = f[Len(records)]

LEMMA ReplayUnfolds ==
  ASSUME NEW hist \in Histories, NEW records \in Seq(Records)
  PROVE  \E f : Replays(f, hist, records)
<1> DEFINE N == Len(records)
           g == [x \in (1 .. N) \X Histories |-> ReplayRecord(x[2], records[x[1]], records)]
           IsReplay(r) == r = [k \in 0 .. N |-> IF k = 0 THEN hist
                                    ELSE ReplayRecord(r[k - 1], records[k], records)]
<1>1. N \in Nat /\ \A k \in 1 .. N : records[k] \in Records
  OBVIOUS
<1>2. g \in [(1 .. N) \X Histories -> Histories]
  BY <1>1, ReplayRecordAppends
<1>3. \A k \in 1 .. N, h \in Histories : g[<<k, h>>] = ReplayRecord(h, records[k], records)
  OBVIOUS
<1> HIDE DEF g
<1>4. PICK f : IteratesTo(f, N, Histories, hist, g)
  BY <1>1, <1>2, IterationExists
<1>5. f \in [0 .. N -> Histories] /\ f[0] = hist
  BY <1>4 DEF IteratesTo
<1>6. \A k \in 1 .. N : f[k] = ReplayRecord(f[k - 1], records[k], records)
  <2> SUFFICES ASSUME NEW k \in 1 .. N
               PROVE  f[k] = ReplayRecord(f[k - 1], records[k], records)
    OBVIOUS
  <2>1. k - 1 \in 0 .. N
    BY <1>1
  <2>2. f[k - 1] \in Histories
    BY <1>5, <2>1
  <2> QED
    BY <1>3, <1>4, <2>2 DEF IteratesTo
<1> HIDE DEF N
<1>7. IsReplay(f)
  <2>1. \A k \in 0 .. N : k = 0 \/ k \in 1 .. N
    BY <1>1
  <2> QED
    BY <1>5, <1>6, <2>1
<1> DEFINE c == CHOOSE r : IsReplay(r)
<1>8. IsReplay(c)
  BY <1>7
<1>9. Replay(hist, records) = c[N]
  BY DEF Replay, N
<1> HIDE DEF c
<1>10. c = [k \in 0 .. N |-> IF k = 0 THEN hist
                             ELSE ReplayRecord(c[k - 1], records[k], records)]
  BY <1>8
<1> HIDE DEF IsReplay
<1>11. \A k \in 0 .. N : c[k] = f[k]
  <2> DEFINE Bad == {k \in 0 .. N : c[k] # f[k]}
  <2>1. SUFFICES ASSUME Bad # {} PROVE FALSE
    OBVIOUS
  <2>2. Bad \subseteq Nat
    OBVIOUS
  <2>3. PICK m \in Bad : \A j \in Bad : m <= j
    BY <2>1, <2>2, LeastExists
  <2>4. m \in 0 .. N /\ c[m] # f[m]
    OBVIOUS
  <2>5. m # 0
    BY <1>5, <1>10, <2>4
  <2>6. m \in 1 .. N /\ m - 1 \in 0 .. N /\ ~ (m <= m - 1)
    BY <1>1, <2>4, <2>5
  <2>7. m - 1 \notin Bad
    BY <2>3, <2>6
  <2>8. c[m - 1] = f[m - 1]
    BY <2>6, <2>7
  <2>9. c[m] = ReplayRecord(c[m - 1], records[m], records)
    BY <1>10, <2>4, <2>5
  <2> QED
    BY <1>6, <2>4, <2>6, <2>8, <2>9
<1>12. Replay(hist, records) = f[N]
  BY <1>1, <1>9, <1>11
<1> QED
  BY <1>5, <1>6, <1>12 DEF Replays, N

LEMMA ReplayTyped ==
  ASSUME NEW hist \in Histories, NEW records \in Seq(Records)
  PROVE  Replay(hist, records) \in Histories
<1>1. PICK f : Replays(f, hist, records)
  BY ReplayUnfolds
<1>2. Len(records) \in 0 .. Len(records)
  OBVIOUS
<1> QED
  BY <1>1, <1>2 DEF Replays

\* Every completed turn of the log has its pair afterwards.
LEMMA ReplayRecovers ==
  ASSUME NEW hist \in Histories, NEW records \in Seq(Records), NEW t \in Turns,
         IsSubmitted(records, t), IsCompleted(records, t)
  PROVE  HasTurn(Replay(hist, records), t)
<1>1. PICK f : Replays(f, hist, records)
  BY ReplayUnfolds
<1> DEFINE N == Len(records)
<1>2. N \in Nat /\ \A k \in 1 .. N : records[k] \in Records
  OBVIOUS
<1>3. PICK s \in 1 .. N : records[s] = [kind |-> "submission", turn |-> t]
  BY DEF IsSubmitted
<1> HIDE DEF N
<1>4. /\ f \in [0 .. N -> Histories]
      /\ \A k \in 1 .. N : f[k] = ReplayRecord(f[k - 1], records[k], records)
      /\ Replay(hist, records) = f[N]
  BY <1>1 DEF Replays, N
<1>5. HasTurn(f[s], t)
  <2>1. s - 1 \in 0 .. N
    BY <1>2
  <2>2. f[s - 1] \in Histories /\ f[s] = ReplayRecord(f[s - 1], records[s], records)
    BY <1>4, <2>1
  <2>3. IsSubmission(records[s]) /\ records[s].turn = t
    BY <1>3 DEF IsSubmission
  <2>4. f[s] = RecoverTurn(f[s - 1], t)
    BY <2>2, <2>3 DEF ReplayRecord
  <2> QED
    BY <2>2, <2>4, RecoverAppends
<1>6. \A k \in s .. N : HasTurn(f[k], t)
  <2> DEFINE Bad == {k \in s .. N : ~ HasTurn(f[k], t)}
  <2>1. SUFFICES ASSUME Bad # {} PROVE FALSE
    OBVIOUS
  <2>2. Bad \subseteq Nat
    BY <1>2
  <2>3. PICK m \in Bad : \A j \in Bad : m <= j
    BY <2>1, <2>2, LeastExists
  <2>4. m \in s .. N /\ ~ HasTurn(f[m], t)
    OBVIOUS
  <2>5. m # s
    BY <1>5, <2>4
  <2>6. m \in 1 .. N /\ m - 1 \in s .. N /\ m - 1 \in 0 .. N /\ ~ (m <= m - 1)
    BY <1>2, <2>4, <2>5
  <2>7. m - 1 \notin Bad
    BY <2>3, <2>6
  <2>8. HasTurn(f[m - 1], t)
    BY <2>6, <2>7
  <2>9. f[m] = ReplayRecord(f[m - 1], records[m], records) /\ f[m - 1] \in Histories
    BY <1>4, <2>6
  <2>10. records[m] \in Records
    BY <1>2, <2>6
  <2> HIDE DEF Bad
  <2> QED
    BY <2>4, <2>8, <2>9, <2>10, ReplayRecordAppends
<1>7. N \in s .. N
  BY <1>2
<1> QED
  BY <1>4, <1>6, <1>7

\* What has the pairs of all turns completed in the log stays as it is.
LEMMA ReplayLeaves ==
  ASSUME NEW hist \in Histories, NEW records \in Seq(Records),
         \A t \in Turns : IsSubmitted(records, t) /\ IsCompleted(records, t) => HasTurn(hist, t)
  PROVE  Replay(hist, records) = hist
<1>1. PICK f : Replays(f, hist, records)
  BY ReplayUnfolds
<1> DEFINE N == Len(records)
<1>2. N \in Nat /\ \A k \in 1 .. N : records[k] \in Records
  OBVIOUS
<1>3. \A k \in 1 .. N : ReplayRecord(hist, records[k], records) = hist
  <2> SUFFICES ASSUME NEW k \in 1 .. N, IsSubmission(records[k]),
                      IsCompleted(records, records[k].turn)
               PROVE  RecoverTurn(hist, records[k].turn) = hist
    BY DEF ReplayRecord
  <2>1. records[k] = [kind |-> "submission", turn |-> records[k].turn]
        /\ records[k].turn \in Turns
    BY <1>2 DEF Records, IsSubmission
  <2>2. IsSubmitted(records, records[k].turn)
    BY <2>1 DEF IsSubmitted
  <2> QED
    BY <2>1, <2>2, RecoverAppends
<1> HIDE DEF N
<1>4. /\ f[0] = hist
      /\ \A k \in 1 .. N : f[k] = ReplayRecord(f[k - 1], records[k], records)
      /\ Replay(hist, records) = f[N]
  BY <1>1 DEF Replays, N
<1>5. \A k \in 0 .. N : f[k] = hist
  <2> DEFINE Bad == {k \in 0 .. N : f[k] # hist}
  <2>1. SUFFICES ASSUME Bad # {} PROVE FALSE
    OBVIOUS
  <2>2. Bad \subseteq Nat
    OBVIOUS
  <2>3. PICK m \in Bad : \A j \in Bad : m <= j
    BY <2>1, <2>2, LeastExists
  <2>4. m \in 0 .. N /\ f[m] # hist
    OBVIOUS
  <2>5. m \in 1 .. N /\ m - 1 \in 0 .. N /\ ~ (m <= m - 1)
    BY <1>2, <1>4, <2>4
  <2>6. m - 1 \notin Bad
    BY <2>3, <2>5
  <2>7. f[m - 1] = hist
    BY <2>5, <2>6
  <2> QED
    BY <1>3, <1>4, <2>4, <2>5, <2>7
<1> QED
  BY <1>2, <1>4, <1>5

\* What is in memory, on its way to disk, on disk and in the log.
Readable(p) == p.state = "whole" => p.id \in Ids /\ p.hist \in Histories

LogTyped == made \in Ids /\ log \in [Ids -> Seq(Records)]
SessionTyped == session.id \in Ids /\ session.hist \in Histories
SaversTyped == \A w \in Savers : Readable(saver[w].payload)
DiskTyped == \A n \in Names : Readable(disk[n])
TurnShape == turn = [t |-> turn.t, mode |-> turn.mode, stage |-> turn.stage]

\* While the shell drains a turn, the log of its session has the submission.
TurnLogged == shell = "turn" => turn.t \in Turns /\ IsSubmitted(log[session.id], turn.t)
SubmittedFirst ==
    \A i \in Ids, t \in Turns : IsCompleted(log[i], t) => IsSubmitted(log[i], t)

RecoveryInv ==
    /\ LogTyped /\ SessionTyped /\ SaversTyped /\ DiskTyped /\ TurnShape
    /\ TurnLogged /\ SubmittedFirst

LEMMA NothingReadable == Readable(Absent) /\ Readable(TornFile) /\ Readable(IdleSaver.payload)
<1>1. Absent.state # "whole" /\ TornFile.state # "whole" /\ IdleSaver.payload = Absent
  BY DEF Absent, TornFile, IdleSaver
<1> QED
  BY <1>1 DEF Readable

LEMMA NewSessionTyped ==
  ASSUME NEW obj, NEW id \in Ids, session' = NewSession(obj, id)
  PROVE  SessionTyped'
<1>1. << >> \in Histories
  BY DEF Histories
<1>2. session'.id = id /\ session'.hist = << >>
  BY DEF NewSession
<1> QED
  BY <1>1, <1>2 DEF SessionTyped

LEMMA RecoveryInvInit == StoreInit => RecoveryInv
<1> SUFFICES ASSUME StoreInit PROVE RecoveryInv
  OBVIOUS
<1>1. 1 \in Ids
  BY SessionStoreAssumption DEF Ids
<1>2. session.id = 1 /\ session.hist = << >> /\ << >> \in Histories
  BY DEF StoreInit, NewSession, Histories
<1>3. SessionTyped
  BY <1>1, <1>2 DEF SessionTyped
<1>4. << >> \in Seq(Records) /\ Len(<< >>) = 0
  OBVIOUS
<1>5. LogTyped
  BY <1>1, <1>4 DEF LogTyped, StoreInit
<1>6. SaversTyped /\ DiskTyped
  BY NothingReadable DEF SaversTyped, DiskTyped, StoreInit
<1>7. TurnShape /\ TurnLogged
  BY DEF TurnShape, TurnLogged, StoreInit
<1>8. \A i \in Ids : log[i] = << >>
  BY DEF StoreInit
<1>9. SubmittedFirst
  BY <1>4, <1>8 DEF SubmittedFirst, IsCompleted
<1> QED
  BY <1>3, <1>5, <1>6, <1>7, <1>9 DEF RecoveryInv

LEMMA CompactTyped ==
  ASSUME NEW hist \in Histories
  PROVE  CompactIfNeeded(hist) \in Histories
<1>1. Summary \in Messages
  BY DEF Messages
<1>2. CASE Len(hist) <= KeepRecent
  BY <1>2 DEF CompactIfNeeded, Compact
<1>3. CASE ~ (Len(hist) <= KeepRecent)
  <2>1. Len(hist) \in Nat /\ KeepRecent \in Nat
    BY SessionStoreAssumption DEF Histories
  <2>2. Len(hist) - KeepRecent + 1 \in 1 .. Len(hist) + 1
    BY <1>3, <2>1
  <2>3. SubSeq(hist, Len(hist) - KeepRecent + 1, Len(hist)) \in Seq(Messages)
    BY <2>1, <2>2, SubSeqProperties DEF Histories
  <2>4. <<Summary>> \o SubSeq(hist, Len(hist) - KeepRecent + 1, Len(hist)) \in Histories
    BY <1>1, <2>3 DEF Histories
  <2> QED
    BY <1>3, <2>4 DEF CompactIfNeeded, Compact
<1> QED
  BY <1>2, <1>3

\* A record more loses no submission, and completes only its own turn.
LEMMA LongerLog ==
  ASSUME NEW records \in Seq(Records), NEW r \in Records, NEW t
  PROVE  /\ IsSubmitted(records, t) => IsSubmitted(Append(records, r), t)
         /\ r = [kind |-> "submission", turn |-> t] => IsSubmitted(Append(records, r), t)
         /\ IsCompleted(Append(records, r), t) =>
               IsCompleted(records, t) \/ r = [kind |-> "completed", turn |-> t]
<1>1. /\ Len(records) \in Nat /\ Len(Append(records, r)) = Len(records) + 1
      /\ Append(records, r)[Len(records) + 1] = r
      /\ \A k \in 1 .. Len(records) : Append(records, r)[k] = records[k]
  OBVIOUS
<1>2. \A k \in 1 .. Len(records) + 1 : k \in 1 .. Len(records) \/ k = Len(records) + 1
  BY <1>1
<1>3. \A k \in 1 .. Len(records) : k \in 1 .. Len(records) + 1
  BY <1>1
<1>4. Len(records) + 1 \in 1 .. Len(records) + 1
  BY <1>1
<1> QED
  BY <1>1, <1>2, <1>3, <1>4 DEF IsSubmitted, IsCompleted

\* A record of the present turn in the log of the present session.
LEMMA RecordKeeps ==
  ASSUME LogTyped, SessionTyped, SubmittedFirst, NEW kind, Record(kind), made' = made,
         turn'.t \in Turns, session'.id = session.id,
         \/ kind = "submission"
         \/ kind = "completed" /\ IsSubmitted(log[session.id], turn'.t)
  PROVE  LogTyped' /\ SubmittedFirst' /\ IsSubmitted(log'[session'.id], turn'.t)
<1> DEFINE r == [kind |-> kind, turn |-> turn'.t]
           old == log[session.id]
<1>1. r \in Records
  BY DEF Records
<1>2. session.id \in Ids /\ old \in Seq(Records)
  BY DEF SessionTyped, LogTyped
<1>3. log' = [log EXCEPT ![session.id] = Append(old, r)]
  BY <1>2 DEF Record, LogTyped
<1>4. log'[session.id] = Append(old, r) /\ \A i \in Ids \ {session.id} : log'[i] = log[i]
  BY <1>2, <1>3 DEF LogTyped
<1>5. LogTyped'
  BY <1>1, <1>2, <1>3 DEF LogTyped
<1>6. IsSubmitted(log'[session'.id], turn'.t)
  BY <1>1, <1>2, <1>4, LongerLog
<1>7. ASSUME NEW i \in Ids, NEW t \in Turns, IsCompleted(log'[i], t)
      PROVE  IsSubmitted(log'[i], t)
  <2> HIDE DEF r, old
  <2>0. /\ IsSubmitted(old, t) => IsSubmitted(Append(old, r), t)
        /\ IsCompleted(Append(old, r), t) =>
              IsCompleted(old, t) \/ r = [kind |-> "completed", turn |-> t]
    BY <1>1, <1>2, LongerLog
  <2>1. CASE i # session.id
    BY <1>4, <1>7, <2>1 DEF SubmittedFirst
  <2>2. CASE i = session.id
    <3>1. IsCompleted(old, t) \/ r = [kind |-> "completed", turn |-> t]
      BY <1>4, <1>7, <2>0, <2>2
    <3>2. CASE IsCompleted(old, t)
      <4>1. IsSubmitted(old, t)
        BY <1>2, <3>2 DEF SubmittedFirst, old
      <4> QED
        BY <1>4, <2>0, <2>2, <4>1
    <3>3. CASE r = [kind |-> "completed", turn |-> t]
      <4>1. turn'.t = t
        BY <3>3 DEF r
      <4> QED
        BY <1>6, <2>2, <4>1
    <3> QED
      BY <3>1, <3>2, <3>3
  <2> QED
    BY <2>1, <2>2
<1> QED
  BY <1>5, <1>6, <1>7 DEF SubmittedFirst

\* Whatever a step does not touch stays recorded.
LEMMA LogKept ==
  ASSUME RecoveryInv, UNCHANGED log, made' \in Ids, session'.id = session.id,
         shell' = "turn" => shell = "turn", turn' = turn
  PROVE  LogTyped' /\ SubmittedFirst' /\ TurnLogged' /\ TurnShape'
BY DEF RecoveryInv, LogTyped, SubmittedFirst, TurnLogged, TurnShape

LEMMA LogKeptOutside ==
  ASSUME RecoveryInv, UNCHANGED log, made' \in Ids, shell' # "turn"
  PROVE  LogTyped' /\ SubmittedFirst' /\ TurnLogged'
BY DEF RecoveryInv, LogTyped, SubmittedFirst, TurnLogged

LEMMA StoreKept ==
  ASSUME RecoveryInv, UNCHANGED <<disk, saver>>
  PROVE  SaversTyped' /\ DiskTyped'
BY DEF RecoveryInv, SaversTyped, DiskTyped

\* A thread takes what the session holds.
LEMMA SaveTakes ==
  ASSUME NamesInv, SaversTyped, NEW w \in Savers, NEW s, s.id \in Ids, s.hist \in Histories,
         s = [obj |-> s.obj, id |-> s.id, name |-> s.name, hist |-> s.hist],
         \/ Autosave(w, s)
         \/ \E name, autosave : StartSave(w, s, name, autosave)
  PROVE  SaversTyped' /\ SessionTyped' /\ session'.id = s.id
<1>1. CASE session' = s /\ UNCHANGED saver
  BY <1>1 DEF SaversTyped, SessionTyped
<1>2. CASE \E name, autosave : StartSave(w, s, name, autosave)
  <2>1. PICK name, autosave : StartSave(w, s, name, autosave)
    BY <1>2
  <2> DEFINE r == [pc |-> "ready", target |-> name, obj |-> s.obj,
                   restore |-> autosave /\ s.name = NoName, payload |-> Payload(s)]
  <2>2. saver' = [saver EXCEPT ![w] = r] /\ session' = [s EXCEPT !.name = name]
    BY <2>1 DEF StartSave
  <2>3. Readable(r.payload)
    BY DEF Readable, Payload
  <2> HIDE DEF r
  <2>4. SaversTyped'
    BY <2>2, <2>3 DEF SaversTyped, NamesInv, SaverShape
  <2>5. SessionTyped' /\ session'.id = s.id
    BY <2>2 DEF SessionTyped
  <2> QED
    BY <2>4, <2>5
<1> QED
  BY <1>1, <1>2 DEF Autosave

LEMMA SavingTyped ==
  ASSUME NamesInv, RecoveryInv, NEW w \in Savers, Saving(w)
  PROVE  RecoveryInv'
<1> USE DEF RecoveryInv
<1>1. shell' = "turn" => shell = "turn"
  BY DEF Saving, OpenFile, FinishSave, SaveFails, Returns
<1>2. UNCHANGED <<log, turn, made>> /\ made' \in Ids
  BY DEF Saving, OpenFile, FinishSave, SaveFails, counters, LogTyped
<1>3. SessionTyped' /\ session'.id = session.id
  <2>1. CASE session' = session
    BY <2>1 DEF SessionTyped
  <2>2. CASE session' = [session EXCEPT !.name = NoName]
    BY <2>2 DEF SessionTyped, NamesInv, SessionShape
  <2> QED
    BY <2>1, <2>2 DEF Saving, OpenFile, FinishSave, SaveFails
<1>4. LogTyped' /\ SubmittedFirst' /\ TurnLogged' /\ TurnShape'
  BY <1>1, <1>2, <1>3, LogKept
<1>5. CASE OpenFile(w)
  <2>1. saver' = [saver EXCEPT ![w].pc = "writing"]
        /\ disk' = [disk EXCEPT ![saver[w].target] = TornFile]
    BY <1>5 DEF OpenFile
  <2>2. SaversTyped'
    BY <2>1 DEF SaversTyped, NamesInv, SaverShape
  <2>3. DiskTyped'
    BY <2>1, NothingReadable DEF DiskTyped, NamesInv, DiskShape
  <2> QED
    BY <1>3, <1>4, <2>2, <2>3
<1>6. CASE FinishSave(w)
  <2>1. saver' = [saver EXCEPT ![w] = IdleSaver]
        /\ disk' = [disk EXCEPT ![saver[w].target] = saver[w].payload]
    BY <1>6 DEF FinishSave
  <2>2. SaversTyped'
    BY <2>1, NothingReadable DEF SaversTyped, NamesInv, SaverShape
  <2>3. DiskTyped'
    BY <2>1 DEF DiskTyped, SaversTyped, NamesInv, DiskShape
  <2> QED
    BY <1>3, <1>4, <2>2, <2>3
<1>7. CASE SaveFails(w)
  <2>1. saver' = [saver EXCEPT ![w] = IdleSaver] /\ disk' = disk
    BY <1>7 DEF SaveFails
  <2>2. SaversTyped'
    BY <2>1, NothingReadable DEF SaversTyped, NamesInv, SaverShape
  <2>3. DiskTyped'
    BY <2>1 DEF DiskTyped
  <2> QED
    BY <1>3, <1>4, <2>2, <2>3
<1> QED
  BY <1>5, <1>6, <1>7 DEF Saving

\* The steps of a turn that only lengthen what the session holds.
LEMMA TurnGoesOn ==
  ASSUME NamesInv, RecoveryInv, AppendUserInput \/ RecordTool \/ AppendAnswer
  PROVE  RecoveryInv'
<1> USE DEF RecoveryInv
<1>1. shell = "turn" /\ UNCHANGED <<disk, log, shell, saver, made>>
  BY DEF AppendUserInput, RecordTool, AppendAnswer, At, counters
<1>2. SaversTyped' /\ DiskTyped'
  BY <1>1, StoreKept
<1>3. \E stage : turn' = [turn EXCEPT !.stage = stage]
  BY DEF AppendUserInput, RecordTool, AppendAnswer, Advance
<1>4. TurnShape' /\ turn'.t = turn.t
  BY <1>3 DEF TurnShape
<1>5. turn.t \in Turns
  BY <1>1 DEF TurnLogged
<1>6. /\ Message("user", Prompt[turn.t]) \in Messages
      /\ Message("assistant", Answer[turn.t]) \in Messages
      /\ Message("tool", "result") \in Messages
  BY <1>5, TurnsHaveMessages DEF Messages
<1>7. ASSUME NEW m \in Messages
      PROVE  Append(session.hist, m) \in Histories
  BY DEF SessionTyped, Histories
<1>8. \E hist \in Histories : session' = [session EXCEPT !.hist = hist]
  <2>1. CASE AppendUserInput
    <3> DEFINE longer == Append(session.hist, Message("user", Prompt[turn.t]))
    <3>1. session' = [session EXCEPT !.hist = CompactIfNeeded(longer)]
      BY <2>1 DEF AppendUserInput, NamesInv, SessionShape
    <3>2. longer \in Histories
      BY <1>6, <1>7
    <3> HIDE DEF longer
    <3> QED
      BY <3>1, <3>2, CompactTyped
  <2>2. ASSUME NEW m \in Messages, AppendMessage(m)
        PROVE  \E hist \in Histories : session' = [session EXCEPT !.hist = hist]
    <3>1. session' = [session EXCEPT !.hist = Append(session.hist, m)]
      BY <2>2 DEF AppendMessage, NamesInv, SessionShape
    <3> QED
      BY <1>7, <3>1
  <2>3. CASE RecordTool
    BY <1>6, <2>2, <2>3 DEF RecordTool
  <2>4. CASE AppendAnswer
    BY <1>6, <2>2, <2>4 DEF AppendAnswer
  <2> QED
    BY <2>1, <2>3, <2>4
<1>9. SessionTyped' /\ session'.id = session.id
  BY <1>8 DEF SessionTyped, NamesInv, SessionShape
<1>10. LogTyped' /\ SubmittedFirst' /\ TurnLogged'
  BY <1>1, <1>4, <1>9 DEF LogTyped, SubmittedFirst, TurnLogged
<1> QED
  BY <1>2, <1>4, <1>9, <1>10

\* The steps that write a record.
LEMMA RecordsWritten ==
  ASSUME NamesInv, RecoveryInv, SubmitTurn \/ ReportCompleted
  PROVE  RecoveryInv'
<1> USE DEF RecoveryInv
<1>1. UNCHANGED <<session, disk, saver, made>>
  BY DEF SubmitTurn, ReportCompleted, counters
<1>2. SaversTyped' /\ DiskTyped' /\ SessionTyped'
  BY <1>1, StoreKept DEF SessionTyped
<1>3. CASE SubmitTurn
  <2>1. PICK mode : turn' = [t |-> turn.t + 1, mode |-> mode, stage |-> "submitted"]
    BY <1>3 DEF SubmitTurn
  <2>2. TurnShape' /\ turn'.t \in Turns /\ Record("submission")
    BY <1>3, <2>1 DEF SubmitTurn, TurnShape
  <2>3. LogTyped' /\ SubmittedFirst' /\ IsSubmitted(log'[session'.id], turn'.t)
    BY <1>1, <2>2, RecordKeeps
  <2> QED
    BY <1>2, <2>2, <2>3 DEF TurnLogged
<1>4. CASE ReportCompleted
  <2>1. shell = "turn" /\ shell' = shell /\ \E stage : turn' = [turn EXCEPT !.stage = stage]
    BY <1>4 DEF ReportCompleted, At, Advance
  <2>2. TurnShape' /\ turn'.t = turn.t /\ Record("completed")
    BY <1>4, <2>1 DEF ReportCompleted, TurnShape
  <2>3. turn.t \in Turns /\ IsSubmitted(log[session.id], turn.t)
    BY <2>1 DEF TurnLogged
  <2>4. LogTyped' /\ SubmittedFirst' /\ IsSubmitted(log'[session'.id], turn'.t)
    BY <1>1, <2>2, <2>3, RecordKeeps
  <2> QED
    BY <1>2, <2>2, <2>3, <2>4 DEF TurnLogged
<1> QED
  BY <1>3, <1>4

\* The timer fires.
LEMMA TimerTyped ==
  ASSUME NamesInv, RecoveryInv, AutosaveFires
  PROVE  RecoveryInv'
<1> USE DEF RecoveryInv
<1>1. "timer" \in Savers /\ Autosave("timer", session) /\ SessionShape
  BY DEF Savers, AutosaveFires, NamesInv
<1>2. SaversTyped' /\ SessionTyped' /\ session'.id = session.id
  BY <1>1, SaveTakes DEF SessionTyped, SessionShape
<1>3. UNCHANGED <<log, shell, turn, disk, made>> /\ made' \in Ids
  BY DEF AutosaveFires, counters, LogTyped
<1>4. LogTyped' /\ SubmittedFirst' /\ TurnLogged' /\ TurnShape'
  BY <1>2, <1>3, LogKept
<1>5. DiskTyped'
  BY <1>3 DEF DiskTyped
<1> QED
  BY <1>2, <1>4, <1>5

\* The main thread saves: a turn ends, the user saves or leaves.
LEMMA MainSaveTyped ==
  ASSUME NamesInv, RecoveryInv, EndDrain \/ Exit \/ \E n \in UserNames : SaveAs(User(n))
  PROVE  RecoveryInv'
<1> USE DEF RecoveryInv
<1>1. shell' # "turn" /\ UNCHANGED <<log, disk, made>> /\ made' \in Ids
  BY DEF EndDrain, Exit, SaveAs, Flush, counters, LogTyped
<1>2. LogTyped' /\ SubmittedFirst' /\ TurnLogged'
  BY <1>1, LogKeptOutside
<1>3. DiskTyped'
  BY <1>1 DEF DiskTyped
<1>4. TurnShape'
  <2>1. turn' = turn \/ turn' = [turn EXCEPT !.stage = "none", !.mode = "chat"]
    BY DEF EndDrain, Exit, SaveAs
  <2> QED
    BY <2>1 DEF TurnShape
<1>5. "main" \in Savers /\ SessionShape
  BY DEF Savers, NamesInv
<1>6. ASSUME \/ Autosave("main", session)
             \/ \E name, autosave : StartSave("main", session, name, autosave)
      PROVE  SaversTyped' /\ SessionTyped'
  BY <1>5, <1>6, SaveTakes DEF SessionTyped, SessionShape
<1>7. CASE EndDrain /\ ~ Autosave("main", session)
  <2> DEFINE s == [session EXCEPT !.hist = Append(session.hist, Message("assistant", "stopped"))]
  <2>1. Autosave("main", s)
    BY <1>7 DEF EndDrain, NamesInv, SessionShape
  <2>2. Message("assistant", "stopped") \in Messages
    BY DEF Messages
  <2>3. Append(session.hist, Message("assistant", "stopped")) \in Histories
    BY <2>2 DEF SessionTyped, Histories
  <2>4. s.id \in Ids /\ s.hist \in Histories
        /\ s = [obj |-> s.obj, id |-> s.id, name |-> s.name, hist |-> s.hist]
    BY <1>5, <2>3 DEF SessionTyped, SessionShape
  <2> HIDE DEF s
  <2>5. SaversTyped' /\ SessionTyped'
    BY <1>5, <2>1, <2>4, SaveTakes
  <2> QED
    BY <1>2, <1>3, <1>4, <2>5
<1>8. CASE Autosave("main", session)
  BY <1>2, <1>3, <1>4, <1>6, <1>8
<1>9. CASE \E n \in UserNames : SaveAs(User(n))
  <2>1. \E name, autosave : StartSave("main", session, name, autosave)
    BY <1>9 DEF SaveAs
  <2> QED
    BY <1>2, <1>3, <1>4, <1>6, <2>1
<1> QED
  BY <1>7, <1>8, <1>9 DEF Exit

LEMMA LoadedTyped ==
  ASSUME RecoveryInv, NEW n \in Names, disk[n].state = "whole"
  PROVE  disk[n].id \in Ids /\ Replay(disk[n].hist, log[disk[n].id]) \in Histories
<1>1. disk[n].id \in Ids /\ disk[n].hist \in Histories
  BY DEF RecoveryInv, DiskTyped, Readable
<1>2. log[disk[n].id] \in Seq(Records)
  BY <1>1 DEF RecoveryInv, LogTyped
<1> QED
  BY <1>1, <1>2, ReplayTyped

\* Another session takes the place of the present one.
LEMMA OtherSessionTyped ==
  ASSUME RecoveryInv,
         \/ \E n \in Names : LoadSession(n) \/ ExecSession(n)
         \/ \E n \in Names, f \in UserNames : ForkSession(n, User(f))
         \/ StartNewSession
  PROVE  RecoveryInv'
<1> USE DEF RecoveryInv
<1>1. shell = "prompt" /\ shell' = shell /\ UNCHANGED <<log, turn, disk, saver>> /\ Fresh
  BY DEF LoadSession, ExecSession, LoadsSession, ForkSession, StartNewSession, Command
<1>2. made' \in Ids
  BY <1>1, SessionStoreAssumption DEF Fresh, LogTyped, Ids
<1>3. LogTyped' /\ SubmittedFirst' /\ TurnLogged'
  BY <1>1, <1>2, LogKeptOutside
<1>4. SaversTyped' /\ DiskTyped'
  BY <1>1, StoreKept
<1>5. TurnShape'
  BY <1>1 DEF TurnShape
<1>6. SessionTyped'
  <2>1. ASSUME NEW n \in Names, LoadSession(n) \/ ExecSession(n)
        PROVE  SessionTyped'
    <3>1. disk[n].state = "whole" /\ session' = Loaded(n)
      BY <2>1 DEF LoadSession, ExecSession, LoadsSession
    <3> QED
      BY <3>1, LoadedTyped DEF SessionTyped, Loaded
  <2>2. ASSUME NEW n \in Names, NEW f \in UserNames, ForkSession(n, User(f))
        PROVE  SessionTyped'
    <3>1. /\ disk[n].state = "whole"
          /\ session' = [Loaded(n) EXCEPT !.id = made', !.name = User(f)]
      BY <2>2 DEF ForkSession
    <3>2. session'.id = made' /\ session'.hist = Replay(disk[n].hist, log[disk[n].id])
      BY <3>1 DEF Loaded
    <3> QED
      BY <1>2, <3>1, <3>2, LoadedTyped DEF SessionTyped
  <2>3. CASE StartNewSession
    BY <1>2, <2>3, NewSessionTyped DEF StartNewSession
  <2> QED
    BY <2>1, <2>2, <2>3
<1> QED
  BY <1>3, <1>4, <1>5, <1>6

\* The process ends, and another starts.
LEMMA ProcessTyped ==
  ASSUME RecoveryInv, Crash \/ StartProcess
  PROVE  RecoveryInv'
<1> USE DEF RecoveryInv
<1>1. shell' # "turn" /\ UNCHANGED log
  BY DEF Crash, StartProcess
<1>2. made' \in Ids
  BY SessionStoreAssumption DEF Crash, StartProcess, Fresh, LogTyped, Ids
<1>3. LogTyped' /\ SubmittedFirst' /\ TurnLogged'
  BY <1>1, <1>2, LogKeptOutside
<1>4. \E obj : session' = NewSession(obj, made')
  BY DEF Crash, LoseMemory, StartProcess
<1>5. SessionTyped'
  BY <1>2, <1>4, NewSessionTyped
<1>6. saver' = [w \in Savers |-> IdleSaver]
  BY DEF Crash, LoseMemory, StartProcess
<1>7. SaversTyped'
  BY <1>6, NothingReadable DEF SaversTyped
<1>8. TurnShape'
  <2>1. turn' = turn \/ turn' = [turn EXCEPT !.stage = "none", !.mode = "chat"]
    BY DEF Crash, LoseMemory, StartProcess
  <2> QED
    BY <2>1 DEF TurnShape
<1>9. DiskTyped'
  <2>1. CASE StartProcess
    <3>1. PICK old \in SUBSET Names :
             disk' = [n \in Names |-> IF n \in old THEN Absent ELSE disk[n]]
      BY <2>1 DEF StartProcess, PruneUnnamedAutosaves
    <3> QED
      BY <3>1, NothingReadable DEF DiskTyped
  <2> QED
    BY <2>1 DEF DiskTyped, Crash
<1> QED
  BY <1>3, <1>5, <1>7, <1>8, <1>9

LEMMA RecoveryInvStep == NamesInv /\ RecoveryInv /\ [StoreNext]_storeVars => RecoveryInv'
<1> SUFFICES ASSUME NamesInv, RecoveryInv, [StoreNext]_storeVars PROVE RecoveryInv'
  OBVIOUS
<1>1. CASE \E w \in Savers : Saving(w)
  BY <1>1, SavingTyped
<1>2. CASE AutosaveFires
  BY <1>2, TimerTyped
<1>3. CASE AppendUserInput \/ RecordTool \/ AppendAnswer
  BY <1>3, TurnGoesOn
<1>4. CASE SubmitTurn \/ ReportCompleted
  BY <1>4, RecordsWritten
<1>5. CASE EndDrain \/ Exit \/ \E n \in UserNames : SaveAs(User(n))
  BY <1>5, MainSaveTyped
<1>6. CASE \/ \E n \in Names : LoadSession(n) \/ ExecSession(n)
           \/ \E n \in Names, f \in UserNames : ForkSession(n, User(f))
           \/ StartNewSession
  BY <1>6, OtherSessionTyped
<1>7. CASE Crash \/ StartProcess
  BY <1>7, ProcessTyped
<1>8. CASE SkipSave \/ ClearSession \/ UNCHANGED storeVars
  <2>1. UNCHANGED <<disk, saver, log, turn, made>> /\ made' \in Ids
    BY <1>8 DEF RecoveryInv, LogTyped, SkipSave, ClearSession, storeVars, counters
  <2>2. shell' = "turn" => shell = "turn"
    BY <1>8 DEF SkipSave, Returns, ClearSession, storeVars
  <2>3. SaversTyped' /\ DiskTyped'
    BY <2>1, StoreKept
  <2>4. SessionTyped' /\ session'.id = session.id
    <3>1. << >> \in Histories
      BY DEF Histories
    <3>2. session' = session \/ session' = [session EXCEPT !.hist = << >>]
      BY <1>8 DEF SkipSave, ClearSession, storeVars
    <3> QED
      BY <3>1, <3>2 DEF RecoveryInv, SessionTyped, NamesInv, SessionShape
  <2> QED
    BY <2>1, <2>2, <2>3, <2>4, LogKept DEF RecoveryInv
<1> QED
  BY <1>1, <1>2, <1>3, <1>4, <1>5, <1>6, <1>7, <1>8 DEF StoreNext, TurnStep

LEMMA RecoveryAlways == StoreSpec => [](NamesInv /\ RecoveryInv)
<1>1. StoreInit => NamesInv /\ RecoveryInv
  BY NamesInvInit, RecoveryInvInit
<1>2. NamesInv /\ RecoveryInv /\ [StoreNext]_storeVars => NamesInv' /\ RecoveryInv'
  BY NamesInvStep, RecoveryInvStep
<1> QED
  BY <1>1, <1>2, PTL DEF StoreSpec

(* Loading a session twice recovers nothing a second time: what replay     *)
(* makes of the history and the log of the present session, it leaves as   *)
(* it is, for histories and logs of any length and turns with any texts    *)
(* (session/replay.py replay_session_from_event_log).                      *)
THEOREM ReplaysOnce == StoreSpec => []ReplayIsIdempotent
<1>1. RecoveryInv => ReplayIsIdempotent
  <2> SUFFICES ASSUME RecoveryInv PROVE ReplayIsIdempotent
    OBVIOUS
  <2> DEFINE records == log[session.id]
             once == Replay(session.hist, records)
  <2>1. session.hist \in Histories /\ records \in Seq(Records)
    BY DEF RecoveryInv, SessionTyped, LogTyped
  <2>2. once \in Histories
    BY <2>1, ReplayTyped
  <2>3. \A t \in Turns : IsSubmitted(records, t) /\ IsCompleted(records, t) => HasTurn(once, t)
    BY <2>1, ReplayRecovers
  <2> HIDE DEF once, records
  <2>4. Replay(once, records) = once
    BY <2>1, <2>2, <2>3, ReplayLeaves
  <2> QED
    BY <2>4 DEF ReplayIsIdempotent, once, records
<1> QED
  BY <1>1, RecoveryAlways, PTL

(* A session loaded from a readable file has every turn that its log says  *)
(* was completed, answer next to prompt, whichever save was cut off by a   *)
(* crash or failed, and for any number of turns, sessions and processes    *)
(* (SessionManager.load_session, session/replay.py, runtime/event_log.py). *)
THEOREM CompletedTurnsRecovered == StoreSpec => LoadRecoversCompletedTurns
<1> DEFINE Recovers ==
      \A n \in Names : LoadsSession(n) =>
          \A t \in Turns : IsCompleted(log[session'.id], t) /\ session'.name = n =>
              HasUserAssistantPair(session'.hist, Prompt[t], Answer[t])
<1>1. RecoveryInv /\ [StoreNext]_storeVars => [Recovers]_storeVars
  <2> SUFFICES ASSUME RecoveryInv, NEW n \in Names, LoadsSession(n), NEW t \in Turns,
                      IsCompleted(log[session'.id], t)
               PROVE  HasTurn(session'.hist, t)
    BY DEF HasTurn
  <2>1. /\ session'.id = disk[n].id
        /\ session'.hist = Replay(disk[n].hist, log[disk[n].id])
        /\ disk[n].state = "whole"
    BY DEF LoadsSession, Loaded
  <2>2. disk[n].id \in Ids /\ disk[n].hist \in Histories
    BY <2>1 DEF RecoveryInv, DiskTyped, Readable
  <2>3. log[disk[n].id] \in Seq(Records)
    BY <2>2 DEF RecoveryInv, LogTyped
  <2>4. IsSubmitted(log[disk[n].id], t)
    BY <2>1, <2>2 DEF RecoveryInv, SubmittedFirst
  <2> QED
    BY <2>1, <2>2, <2>3, <2>4, ReplayRecovers
<1> QED
  BY <1>1, RecoveryAlways, PTL DEF StoreSpec, LoadRecoversCompletedTurns

-----------------------------------------------------------------------------
(* Targets, for every set of models, providers and addresses: whatever     *)
(* changes what a turn would talk to leaves no answer standing, and a turn *)
(* asks what the session names now.                                        *)

IsTarget(t) == t = Target(t.provider, t.model)

TargetsInv ==
    /\ IsTarget(target) /\ IsTarget(default) /\ IsTarget(saved)
    /\ AnswerComesFromTarget

LEMMA TargetsAre == \A p, m : IsTarget(Target(p, m))
BY DEF IsTarget, Target

LEMMA NoTargetIs == IsTarget(NoTarget)
BY TargetsAre, Zenon DEF NoTarget

LEMMA NothingAnswered == answer = NoAnswer => AnswerComesFromTarget
<1>1. NoAnswer.by # "local" /\ NoAnswer.by # "remote"
  BY DEF NoAnswer
<1> QED
  BY <1>1 DEF AnswerComesFromTarget

LEMMA TargetsInvInit == TargetsInit => TargetsInv
BY NoTargetIs, NothingAnswered DEF TargetsInit, TargetsInv

\* After a command nothing is answered yet.
LEMMA EditForgets == Edit => AnswerComesFromTarget'
<1>1. NoAnswer.by # "local" /\ NoAnswer.by # "remote"
  BY DEF NoAnswer
<1> QED
  BY <1>1 DEF AnswerComesFromTarget, Edit

LEMMA FallbacksAre == \A t \in FallbackTargets : IsTarget(t)
<1>1. \A t \in RemoteTargets : IsTarget(t)
  BY TargetsAre DEF RemoteTargets
<1> QED
  BY <1>1, TargetsAre, NoTargetIs, Zenon DEF FallbackTargets

LEMMA CommandKeeps ==
  ASSUME TargetsInv,
         \/ \E m \in LocalModels : InstallModel(m) \/ UninstallModel(m)
         \/ \E p \in Providers, url \in Endpoints : AddProvider(p, url)
         \/ \E p \in Providers : RemoveProvider(p) \/ UseProvider(p)
         \/ \E persist \in BOOLEAN :
              \/ \E m \in LocalModels : ChooseLocal(m, persist)
              \/ \E p \in Providers, m \in RemoteModels : ChooseProvider(p, m, persist)
         \/ StartSession \/ SaveTarget \/ LoadTarget
  PROVE  TargetsInv'
<1>1. Edit
  BY DEF InstallModel, UninstallModel, AddProvider, RemoveProvider, UseProvider, ChooseLocal,
     ChooseProvider, StartSession, SaveTarget, LoadTarget
<1>2. IsTarget(target') /\ IsTarget(default') /\ IsTarget(saved')
  <2> USE DEF TargetsInv
  <2>1. ASSUME NEW m \in LocalModels, InstallModel(m) \/ UninstallModel(m)
        PROVE  IsTarget(target') /\ IsTarget(default') /\ IsTarget(saved')
    BY <2>1 DEF InstallModel, UninstallModel
  <2>2. ASSUME NEW p \in Providers, NEW url \in Endpoints, AddProvider(p, url)
        PROVE  IsTarget(target') /\ IsTarget(default') /\ IsTarget(saved')
    BY <2>2 DEF AddProvider
  <2>3. ASSUME NEW p \in Providers, RemoveProvider(p) \/ UseProvider(p)
        PROVE  IsTarget(target') /\ IsTarget(default') /\ IsTarget(saved')
    BY <2>3, TargetsAre, Zenon DEF RemoveProvider, UseProvider
  <2>4. ASSUME NEW persist \in BOOLEAN, NEW m \in LocalModels, ChooseLocal(m, persist)
        PROVE  IsTarget(target') /\ IsTarget(default') /\ IsTarget(saved')
    BY <2>4, TargetsAre, Zenon DEF ChooseLocal
  <2>5. ASSUME NEW persist \in BOOLEAN, NEW p \in Providers, NEW m \in RemoteModels,
               ChooseProvider(p, m, persist)
        PROVE  IsTarget(target') /\ IsTarget(default') /\ IsTarget(saved')
    BY <2>5, TargetsAre, Zenon DEF ChooseProvider
  <2>6. CASE StartSession
    <3>1. PICK t \in ResolvedDefaults(default) : target' = t /\ default' = t
      BY <2>6 DEF StartSession
    <3>2. t = default \/ t \in FallbackTargets
      BY <3>1, Zenon DEF ResolvedDefaults
    <3>3. saved' = saved
      BY <2>6 DEF StartSession
    <3> QED
      BY <3>1, <3>2, <3>3, FallbacksAre
  <2>7. CASE SaveTarget \/ LoadTarget
    BY <2>7 DEF SaveTarget, LoadTarget
  <2> QED
    BY <2>1, <2>2, <2>3, <2>4, <2>5, <2>6, <2>7
<1> QED
  BY <1>1, <1>2, EditForgets DEF TargetsInv, IsTarget

\* What is kept from an earlier turn is kept because it is what is asked for.
LEMMA TurnKeeps ==
  ASSUME TargetsInv, Turn
  PROVE  TargetsInv'
<1>1. UNCHANGED <<target, default, saved, endpoint>> /\ IsTarget(target)
  BY DEF Turn, TargetsInv
<1>2. ASSUME answer' = NoAnswer PROVE AnswerComesFromTarget'
  <2>1. NoAnswer.by # "local" /\ NoAnswer.by # "remote"
    BY DEF NoAnswer
  <2> QED
    BY <1>2, <2>1 DEF AnswerComesFromTarget
<1> SUFFICES AnswerComesFromTarget'
  BY <1>1 DEF TargetsInv, IsTarget
<1>3. CASE TurnOnBackend
  <2> DEFINE a == [by |-> "local", model |-> loaded'.model, files |-> loaded'.files]
  <2>1. CASE answer' = a /\ loaded'.model = target.model
    <3>1. target.provider = ""
      BY <1>3 DEF TurnOnBackend
    <3>2. target = Target("", target.model)
      BY <1>1, <3>1, Zenon DEF IsTarget
    <3>3. a.by = "local" /\ a.model = loaded'.model
      OBVIOUS
    <3>4. a.by # "remote"
      BY <3>3
    <3> HIDE DEF a
    <3> QED
      BY <1>1, <2>1, <3>2, <3>3, <3>4, Zenon DEF AnswerComesFromTarget
  <2>2. CASE answer' = NoAnswer
    BY <1>2, <2>2
  <2>3. \/ answer' = NoAnswer
        \/ answer' = a /\ loaded'.model = target.model
    <3> DEFINE l == [model |-> target.model, files |-> installed[target.model]]
    <3>1. l.model = target.model
      OBVIOUS
    <3> HIDE DEF l
    <3>2. \/ answer' = NoAnswer
          \/ answer' = a /\ loaded' = l
          \/ answer' = a /\ loaded' = loaded /\ loaded.model = target.model
      BY <1>3, Zenon DEF TurnOnBackend, l
    <3> QED
      BY <3>1, <3>2
  <2> QED
    BY <2>1, <2>2, <2>3
<1>4. CASE TurnOnProvider
  <2> DEFINE p == target.provider
             b == Binding(p)
             a == [by |-> "remote", provider |-> p, url |-> client'.url, model |-> client'.model]
  <2>1. \/ answer' = NoAnswer
        \/ answer' = a /\ client' = b
    BY <1>4, Zenon DEF TurnOnProvider
  <2>2. b.url = endpoint[p] /\ b.model = target.model
    BY DEF Binding
  <2>3. CASE answer' = a /\ client' = b
    <3>1. /\ a.by = "remote" /\ a.by # "local" /\ a.provider = p
          /\ a.url = client'.url /\ a.model = client'.model
      OBVIOUS
    <3> HIDE DEF a, b
    <3>2. target' = Target(answer'.provider, answer'.model)
      BY <1>1, <2>2, <2>3, <3>1 DEF IsTarget
    <3>3. endpoint'[answer'.provider] = answer'.url
      BY <1>1, <2>2, <2>3, <3>1
    <3> QED
      BY <2>3, <3>1, <3>2, <3>3, Zenon DEF AnswerComesFromTarget
  <2> QED
    BY <1>2, <2>1, <2>3
<1> QED
  BY <1>3, <1>4 DEF Turn

LEMMA TargetsInvStep == TargetsInv /\ [TargetsNext]_targetVars => TargetsInv'
<1>1. ASSUME TargetsInv, UNCHANGED targetVars PROVE TargetsInv'
  BY <1>1, Zenon DEF targetVars, TargetsInv, IsTarget, AnswerComesFromTarget
<1> QED
  BY <1>1, CommandKeeps, TurnKeeps DEF TargetsNext

(* A turn is answered by the model, the provider and the address that the  *)
(* session names when it starts, whatever was chosen, installed, removed,  *)
(* configured anew, saved or loaded before, although the backend and the   *)
(* client are kept from turn to turn (runtime/core.py                      *)
(* resolve_active_model).                                                  *)
THEOREM AnswersFromTarget == TargetsSpec => []AnswerComesFromTarget
<1>1. TargetsInit => TargetsInv
  BY TargetsInvInit
<1>2. TargetsInv /\ [TargetsNext]_targetVars => TargetsInv'
  BY TargetsInvStep
<1>3. TargetsInv => AnswerComesFromTarget
  BY DEF TargetsInv
<1> QED
  BY <1>1, <1>2, <1>3, PTL DEF TargetsSpec

-----------------------------------------------------------------------------
(* ContextWindow, for histories of any length.  A definition by recursion  *)
(* is unfolded by giving its values and showing that it has no others.     *)

Agree(f, g, a, n) == \A k \in a .. n : f[k] = g[k]
AgreeStepwise(f, g, a, n) ==
    \A k \in a .. n : (k # a => f[k - 1] = g[k - 1]) => f[k] = g[k]

LEMMA OneIteration ==
  ASSUME NEW a \in Nat, NEW n \in Nat, NEW f, NEW g, AgreeStepwise(f, g, a, n)
  PROVE  Agree(f, g, a, n)
<1> DEFINE Bad == {k \in a .. n : f[k] # g[k]}
<1>1. SUFFICES ASSUME Bad # {} PROVE FALSE
  BY DEF Agree
<1>2. Bad \subseteq Nat
  OBVIOUS
<1>3. PICK m \in Bad : \A j \in Bad : m <= j
  BY <1>1, <1>2, LeastExists
<1>4. m \in a .. n /\ f[m] # g[m]
  OBVIOUS
<1>5. m # a => m - 1 \in a .. n /\ ~ (m <= m - 1)
  BY <1>4
<1>6. m # a => m - 1 \notin Bad
  BY <1>3, <1>5
<1>7. m # a => f[m - 1] = g[m - 1]
  BY <1>5, <1>6
<1> QED
  BY <1>4, <1>7 DEF AgreeStepwise

Flattens(f, seqs, n) ==
    f = [i \in 1 .. n |-> IF i = 1 THEN seqs[i] ELSE f[i - 1] \o seqs[i]]

LEMMA FlattenIs ==
  ASSUME NEW seqs, NEW n \in Nat \ {0}, Len(seqs) = n, NEW f, Flattens(f, seqs, n)
  PROVE  FlattenSeq(seqs) = f[n]
<1> DEFINE t == CHOOSE r : Flattens(r, seqs, n)
<1>0. Flattens(t, seqs, n) /\ FlattenSeq(seqs) = t[n]
  BY DEF FlattenSeq, Flattens
<1> HIDE DEF t
<1>1. PICK c : Flattens(c, seqs, n) /\ FlattenSeq(seqs) = c[n]
  BY <1>0
<1>2. FlattenSeq(seqs) = c[n]
  BY <1>1
<1>3. AgreeStepwise(c, f, 1, n)
  <2> SUFFICES ASSUME NEW k \in 1 .. n, k # 1 => c[k - 1] = f[k - 1] PROVE c[k] = f[k]
    BY DEF AgreeStepwise
  <2>1. c[k] = IF k = 1 THEN seqs[k] ELSE c[k - 1] \o seqs[k]
    BY <1>1 DEF Flattens
  <2>2. f[k] = IF k = 1 THEN seqs[k] ELSE f[k - 1] \o seqs[k]
    BY DEF Flattens
  <2> QED
    BY <2>1, <2>2
<1>4. 1 \in Nat /\ n \in Nat
  OBVIOUS
<1>5. Agree(c, f, 1, n)
  BY <1>3, <1>4, OneIteration, Zenon
<1> QED
  BY <1>2, <1>5 DEF Agree

Chooses(f, entries, roles, n) ==
    f = [k \in 0 .. n |-> IF k = 0 THEN << >>
                          ELSE IF entries[k].role \in roles THEN Append(f[k - 1], entries[k])
                          ELSE f[k - 1]]

LEMMA EntriesInIs ==
  ASSUME NEW entries, NEW roles, NEW n \in Nat, Len(entries) = n, NEW f,
         Chooses(f, entries, roles, n)
  PROVE  EntriesIn(entries, roles) = f[n]
<1> DEFINE t == CHOOSE r : Chooses(r, entries, roles, n)
<1>0. Chooses(t, entries, roles, n) /\ EntriesIn(entries, roles) = t[n]
  BY DEF EntriesIn, Chooses
<1> HIDE DEF t
<1>1. PICK c : Chooses(c, entries, roles, n) /\ EntriesIn(entries, roles) = c[n]
  BY <1>0
<1>2. EntriesIn(entries, roles) = c[n]
  BY <1>1
<1>3. AgreeStepwise(c, f, 0, n)
  <2> SUFFICES ASSUME NEW k \in 0 .. n, k # 0 => c[k - 1] = f[k - 1] PROVE c[k] = f[k]
    BY DEF AgreeStepwise
  <2>1. c[k] = IF k = 0 THEN << >>
               ELSE IF entries[k].role \in roles THEN Append(c[k - 1], entries[k]) ELSE c[k - 1]
    BY <1>1 DEF Chooses
  <2>2. f[k] = IF k = 0 THEN << >>
               ELSE IF entries[k].role \in roles THEN Append(f[k - 1], entries[k]) ELSE f[k - 1]
    BY DEF Chooses
  <2> QED
    BY <2>1, <2>2
<1>4. 0 \in Nat /\ n \in Nat
  OBVIOUS
<1>5. Agree(c, f, 0, n)
  BY <1>3, <1>4, OneIteration, Zenon
<1> QED
  BY <1>2, <1>5 DEF Agree

\* The numbers after c, as far as c + m.
Run(c, m) == [j \in 1 .. m |-> c + j]

LEMMA RunGrows ==
  ASSUME NEW c \in Nat, NEW m \in Nat
  PROVE  /\ Run(c, m) \in Seq(Nat) /\ Len(Run(c, m)) = m
         /\ Run(c, m) \o <<c + m + 1>> = Run(c, m + 1)
<1>1. Run(c, m) \in Seq(Nat) /\ Len(Run(c, m)) = m
  BY DEF Run
<1>2. Run(c, m) \o <<c + m + 1>> = Append(Run(c, m), c + m + 1)
  BY <1>1, AppendIsConcat
<1> DEFINE u == Append(Run(c, m), c + m + 1)
<1>3. u \in Seq(Nat) /\ Len(u) = m + 1 /\ u[m + 1] = c + m + 1
  BY <1>1
<1>4. \A j \in 1 .. m : u[j] = c + j
  BY <1>1 DEF Run
<1> HIDE DEF u
<1>5. \A j \in 1 .. m + 1 : u[j] = c + j
  <2>1. \A j \in 1 .. m + 1 : j \in 1 .. m \/ j = m + 1
    OBVIOUS
  <2>2. c + (m + 1) = c + m + 1
    OBVIOUS
  <2> QED
    BY <1>3, <1>4, <2>1, <2>2
<1>6. u = [j \in 1 .. m + 1 |-> c + j]
  BY <1>3, <1>5
<1> QED
  BY <1>1, <1>2, <1>6 DEF Run, u

LEMMA FlattenRuns ==
  ASSUME NEW seqs, NEW n \in Nat \ {0}, NEW b \in Nat \ {0}, NEW c \in Nat, Len(seqs) = n,
         seqs[1] = Run(c, b), \A k \in 2 .. n : seqs[k] = <<c + (b + k - 1)>>
  PROVE  FlattenSeq(seqs) = Run(c, b + n - 1)
<1> DEFINE f == [i \in 1 .. n |-> Run(c, b + i - 1)]
<1>1. ASSUME NEW i \in 1 .. n
      PROVE  f[i] = IF i = 1 THEN seqs[i] ELSE f[i - 1] \o seqs[i]
  <2>1. CASE i = 1
    <3>1. b + i - 1 = b
      BY <2>1
    <3> QED
      BY <2>1, <3>1
  <2>2. CASE i # 1
    <3>1. i \in 2 .. n /\ i - 1 \in 1 .. n /\ b + (i - 1) - 1 \in Nat
          /\ (b + (i - 1) - 1) + 1 = b + i - 1
      BY <2>2
    <3>2. seqs[i] = <<c + (b + i - 1)>>
      BY <3>1
    <3>3. c + (b + (i - 1) - 1) + 1 = c + (b + i - 1)
      BY <3>1
    <3>4. f[i - 1] = Run(c, b + (i - 1) - 1) /\ f[i] = Run(c, b + i - 1)
      BY <3>1
    <3>5. Run(c, b + (i - 1) - 1) \o <<c + (b + (i - 1) - 1) + 1>> = Run(c, (b + (i - 1) - 1) + 1)
      BY <3>1, RunGrows
    <3> QED
      BY <2>2, <3>1, <3>2, <3>3, <3>4, <3>5
  <2> QED
    BY <2>1, <2>2
<1>2. Flattens(f, seqs, n)
  BY <1>1 DEF Flattens
<1>3. f[n] = Run(c, b + n - 1)
  OBVIOUS
<1> HIDE DEF f
<1> QED
  BY <1>2, <1>3, FlattenIs

LEMMA RunIs ==
  ASSUME NEW c \in Nat, NEW m \in Nat
  PROVE  /\ Run(c, m) \in Seq(Nat) /\ Len(Run(c, m)) = m
         /\ \A j \in 1 .. m : Run(c, m)[j] = c + j
BY DEF Run

LEMMA RunsJoin ==
  ASSUME NEW b \in Nat, NEW m \in Nat
  PROVE  Run(0, b) \o Run(b, m) = Run(0, b + m)
<1> DEFINE s == Run(0, b)
           t == Run(b, m)
           u == Run(0, b + m)
<1>1. 0 \in Nat /\ b + m \in Nat
  OBVIOUS
<1>2. s \in Seq(Nat) /\ Len(s) = b /\ \A j \in 1 .. b : s[j] = 0 + j
  BY <1>1, RunIs
<1>3. t \in Seq(Nat) /\ Len(t) = m /\ \A j \in 1 .. m : t[j] = b + j
  BY RunIs
<1>4. u \in Seq(Nat) /\ Len(u) = b + m /\ \A j \in 1 .. b + m : u[j] = 0 + j
  BY <1>1, RunIs
<1> HIDE DEF s, t, u
<1>5. s \o t \in Seq(Nat) /\ Len(s \o t) = b + m
  BY <1>2, <1>3
<1>6. ASSUME NEW j \in 1 .. b + m PROVE (s \o t)[j] = j
  <2>1. s \in Seq(Nat) /\ t \in Seq(Nat) /\ Len(s) = b /\ Len(t) = m
    BY <1>2, <1>3
  <2>5. \A i \in 1 .. Len(s) + Len(t) :
           (s \o t)[i] = IF i <= Len(s) THEN s[i] ELSE t[i - Len(s)]
    BY <2>1, ConcatProperties
  <2>2. (s \o t)[j] = IF j <= b THEN s[j] ELSE t[j - b]
    BY <2>1, <2>5
  <2>3. CASE j <= b
    <3>1. j \in 1 .. b /\ 0 + j = j
      BY <2>3
    <3> QED
      BY <1>2, <2>2, <2>3, <3>1
  <2>4. CASE ~ (j <= b)
    <3>1. j - b \in 1 .. m /\ b + (j - b) = j
      BY <2>4
    <3> QED
      BY <1>3, <2>2, <2>4, <3>1
  <2> QED
    BY <2>3, <2>4
<1>7. s \o t = u
  BY <1>4, <1>5, <1>6
<1> QED
  BY <1>7 DEF s, t, u

-----------------------------------------------------------------------------
Entries == [role : TalkRoles \union {"system"}, ids : Seq(Nat), tells : SUBSET Nat,
            by : {"speaker", "model", "fallback"}, size : Nat]

\* A history of a session: its first entry covers b messages, either a
\* summary before the RecentKept latest or the first message itself, and every
\* other the one that follows.
Shape(h, b) ==
    /\ h \in Seq(Entries) /\ Len(h) # 0
    /\ h[1].ids = Run(0, b)
    /\ \A k \in 2 .. Len(h) : h[k].ids = <<b + k - 1>> /\ h[k].role \in TalkRoles
    /\ \/ /\ h[1].role = "system" /\ Len(h) > RecentKept
          /\ h[1].by = "fallback" => b \in h[1].tells
       \/ h[1].role \in TalkRoles /\ b = 1

LEMMA CoversRun ==
  ASSUME NEW h \in Seq(Entries), Len(h) # 0, NEW c \in Nat, NEW b \in Nat \ {0},
         h[1].ids = Run(c, b), \A k \in 2 .. Len(h) : h[k].ids = <<c + (b + k - 1)>>
  PROVE  Covers(h) = Run(c, b + Len(h) - 1)
<1> DEFINE s == [k \in DOMAIN h |-> h[k].ids]
<1>1. DOMAIN h = 1 .. Len(h) /\ Len(h) \in Nat \ {0}
  OBVIOUS
<1>2. s = [k \in 1 .. Len(h) |-> h[k].ids]
  BY <1>1
<1>3. Len(s) = Len(h) /\ s[1] = Run(c, b) /\ \A k \in 2 .. Len(h) : s[k] = <<c + (b + k - 1)>>
  BY <1>1, <1>2
<1>4. Covers(h) = FlattenSeq(s)
  BY DEF Covers
<1> HIDE DEF s
<1> DEFINE n == Len(h)
<1>5. n \in Nat \ {0} /\ Len(s) = n /\ s[1] = Run(c, b)
      /\ \A k \in 2 .. n : s[k] = <<c + (b + k - 1)>>
  BY <1>1, <1>3
<1> HIDE DEF n
<1>6. FlattenSeq(s) = Run(c, b + n - 1)
  BY <1>5, FlattenRuns
<1> QED
  BY <1>4, <1>6 DEF n

LEMMA ShapeCovers ==
  ASSUME NEW h, NEW b \in Nat \ {0}, Shape(h, b)
  PROVE  Covers(h) = Run(0, b + Len(h) - 1)
<1>1. h \in Seq(Entries) /\ Len(h) # 0 /\ h[1].ids = Run(0, b)
  BY DEF Shape
<1>2. \A k \in 2 .. Len(h) : h[k].ids = <<0 + (b + k - 1)>>
  <2>1. \A k \in 2 .. Len(h) : h[k].ids = <<b + k - 1>> /\ b + k - 1 = 0 + (b + k - 1)
    BY <1>1 DEF Shape
  <2> QED
    BY <2>1
<1>3. 0 \in Nat
  OBVIOUS
<1> QED
  BY <1>1, <1>2, <1>3, CoversRun

\* The history of a session of n messages.
History(h, n) ==
    \/ h = << >> /\ n = 0
    \/ \E b \in Nat \ {0} : Shape(h, b) /\ n = b + Len(h) - 1

LEMMA HistoryCovers ==
  ASSUME NEW h, NEW n, History(h, n)
  PROVE  n \in Nat /\ h \in Seq(Entries) /\ Covers(h) = Run(0, n)
<1>1. CASE h = << >> /\ n = 0
  <2>1. [k \in DOMAIN h |-> h[k].ids] = << >>
    BY <1>1
  <2>2. Covers(h) = << >>
    BY <2>1 DEF Covers, FlattenSeq
  <2>3. Run(0, 0) = << >>
    BY DEF Run
  <2> QED
    BY <1>1, <2>2, <2>3
<1>2. CASE \E b \in Nat \ {0} : Shape(h, b) /\ n = b + Len(h) - 1
  <2>1. PICK b \in Nat \ {0} : Shape(h, b) /\ n = b + Len(h) - 1
    BY <1>2
  <2>2. h \in Seq(Entries) /\ Len(h) # 0
    BY <2>1 DEF Shape
  <2>3. Len(h) \in Nat
    BY <2>2
  <2> QED
    BY <2>1, <2>2, <2>3, ShapeCovers
<1> QED
  BY <1>1, <1>2 DEF History

LEMMA HistoryGrows ==
  ASSUME NEW h, NEW n, History(h, n), NEW e \in Entries, e.role \in TalkRoles, e.ids = <<n + 1>>
  PROVE  /\ History(Append(h, e), n + 1)
         /\ Len(Append(h, e)) # 0 /\ Append(h, e)[Len(Append(h, e))] = e
         /\ Append(h, e)[1].role = "system" => Len(Append(h, e)) > RecentKept + 1
<1> DEFINE g == Append(h, e)
<1>1. h \in Seq(Entries) /\ n \in Nat
  BY HistoryCovers
<1>2. g \in Seq(Entries) /\ Len(g) = Len(h) + 1 /\ g[Len(h) + 1] = e
      /\ (\A k \in 1 .. Len(h) : g[k] = h[k]) /\ Len(h) \in Nat
  BY <1>1
<1> HIDE DEF g
<1>3. CASE h = << >> /\ n = 0
  <2>1. Len(h) = 0
    BY <1>3
  <2>2. Run(0, 1) = <<1>>
    <3>1. 0 \in Nat /\ 1 \in Nat /\ 0 + 1 = 1
      OBVIOUS
    <3>2. Run(0, 1) \in Seq(Nat) /\ Len(Run(0, 1)) = 1 /\ \A j \in 1 .. 1 : Run(0, 1)[j] = 0 + j
      BY <3>1, RunIs
    <3> QED
      BY <3>2
  <2>3. g[1] = e /\ Len(g) = 1 /\ e.ids = <<1>>
    BY <1>2, <1>3, <2>1
  <2>4. Shape(g, 1)
    <3>1. g[1].ids = Run(0, 1) /\ g[1].role \in TalkRoles
      BY <2>2, <2>3
    <3>2. \A k \in 2 .. Len(g) : FALSE
      BY <2>3
    <3> QED
      BY <1>2, <2>3, <3>1, <3>2 DEF Shape
  <2>5. n + 1 = 1 + Len(g) - 1
    BY <1>3, <2>3
  <2>6. g[1].role # "system"
    BY <2>3 DEF TalkRoles
  <2> QED
    BY <1>2, <2>4, <2>5, <2>6 DEF History, g
<1>4. CASE \E b \in Nat \ {0} : Shape(h, b) /\ n = b + Len(h) - 1
  <2>1. PICK b \in Nat \ {0} : Shape(h, b) /\ n = b + Len(h) - 1
    BY <1>4
  <2>2. Len(h) # 0 /\ h[1].ids = Run(0, b)
        /\ (\A k \in 2 .. Len(h) : h[k].ids = <<b + k - 1>> /\ h[k].role \in TalkRoles)
        /\ (\/ h[1].role = "system" /\ Len(h) > RecentKept
               /\ (h[1].by = "fallback" => b \in h[1].tells)
            \/ h[1].role \in TalkRoles /\ b = 1)
    BY <2>1 DEF Shape
  <2>3. g[1] = h[1]
    BY <1>2, <2>2
  <2>4. ASSUME NEW k \in 2 .. Len(g) PROVE g[k].ids = <<b + k - 1>> /\ g[k].role \in TalkRoles
    <3>1. CASE k \in 2 .. Len(h)
      BY <1>2, <2>2, <3>1
    <3>2. CASE k = Len(h) + 1
      <4>1. b + k - 1 = n + 1
        BY <1>2, <2>1, <3>2
      <4> QED
        BY <1>2, <3>2, <4>1
    <3> QED
      BY <1>2, <3>1, <3>2
  <2>5. RecentKept \in Nat
    BY ContextWindowAssumption
  <2>6. Shape(g, b)
    BY <1>2, <2>2, <2>3, <2>4, <2>5 DEF Shape
  <2>7. n + 1 = b + Len(g) - 1
    BY <1>2, <2>1
  <2>8. g[1].role = "system" => Len(g) > RecentKept + 1
    <3>1. "system" \notin TalkRoles
      BY DEF TalkRoles
    <3> QED
      BY <1>2, <2>2, <2>3, <2>5, <3>1
  <2> QED
    BY <1>2, <2>6, <2>7, <2>8 DEF History, g
<1> QED
  BY <1>3, <1>4 DEF History

\* Compaction keeps the shape, the number of messages and the last entry.
LEMMA CompactedShape ==
  ASSUME NEW h, NEW n, History(h, n), Len(h) # 0, NEW by \in {"model", "fallback"},
         h[1].role = "system" => Len(h) > RecentKept + 1
  PROVE  /\ History(CompactedIfNeeded(h, by), n) /\ Len(CompactedIfNeeded(h, by)) # 0
         /\ CompactedIfNeeded(h, by)[Len(CompactedIfNeeded(h, by))] = h[Len(h)]
<1> DEFINE L == Len(h)
           K == RecentKept
           g == Compacted(h, by)
           old == Older(h)
           new == Recent(h)
<1>1. h \in Seq(Entries) /\ n \in Nat /\ L \in Nat \ {0} /\ K \in Nat \ {0}
  BY HistoryCovers, ContextWindowAssumption
<1>2. CASE CompactedIfNeeded(h, by) = h
  BY <1>2
<1>3. CASE CompactedIfNeeded(h, by) = g /\ L > K
  <2>1. PICK b \in Nat \ {0} : Shape(h, b) /\ n = b + L - 1
    BY DEF History
  <2>2. h[1].ids = Run(0, b)
        /\ (\A k \in 2 .. L : h[k].ids = <<b + k - 1>> /\ h[k].role \in TalkRoles)
    BY <2>1 DEF Shape
  <2>3. old \in Seq(Entries) /\ Len(old) = L - K /\ \A k \in 1 .. L - K : old[k] = h[k]
    BY <1>1, <1>3 DEF Older
  <2>4. new \in Seq(Entries) /\ Len(new) = K /\ \A k \in 1 .. K : new[k] = h[L - K + k]
    BY <1>1, <1>3 DEF Recent
  <2> DEFINE c == b + (L - K) - 1
             first == SummaryOf(old, by)
  <2>5. Covers(old) = Run(0, c)
    <3>1. 0 \in Nat /\ Len(old) # 0 /\ 1 \in 1 .. L - K
      BY <1>1, <1>3, <2>3
    <3>2. old[1].ids = Run(0, b)
      BY <2>2, <2>3, <3>1
    <3>3. ASSUME NEW k \in 2 .. Len(old) PROVE old[k].ids = <<0 + (b + k - 1)>>
      <4>1. k \in 2 .. L /\ k \in 1 .. L - K /\ b + k - 1 = 0 + (b + k - 1)
        BY <1>1, <1>3, <2>3
      <4> QED
        BY <2>2, <2>3, <4>1
    <3>4. Covers(old) = Run(0, b + Len(old) - 1)
      BY <2>3, <3>1, <3>2, <3>3, CoversRun
    <3> QED
      BY <2>3, <3>4
  <2>6. c \in Nat \ {0} /\ n = c + (K + 1) - 1
    BY <1>1, <1>3, <2>1
  <2> DEFINE tells == IF by = "fallback" THEN ToldByFallback(old) ELSE {}
  <2>16. tells \subseteq Nat /\ (by = "fallback" => c \in tells)
    <3>1. ASSUME NEW k \in DOMAIN old, old[k].role # "system"
          PROVE  old[k].ids[1] = b + k - 1 /\ old[k].ids[1] \in Nat
      <4>1. k \in 1 .. L /\ old[k] = h[k] /\ (k = 1 \/ k \in 2 .. L)
        BY <1>1, <1>3, <2>3
      <4>2. CASE k = 1
        <5>1. b = 1 /\ old[1].ids = Run(0, 1)
          BY <2>1, <2>2, <3>1, <4>1, <4>2 DEF Shape
        <5>2. 0 \in Nat /\ 1 \in Nat
          OBVIOUS
        <5>3. Run(0, 1)[1] = 0 + 1
          BY <5>2, RunIs
        <5> QED
          BY <4>2, <5>1, <5>3
      <4>3. CASE k \in 2 .. L
        BY <2>2, <4>1, <4>3
      <4> QED
        BY <4>1, <4>2, <4>3
    <3>2. Len(old) \in DOMAIN old /\ Len(old) > Len(old) - FallbackShows
      BY <1>1, <1>3, <2>3, ContextWindowAssumption
    <3>3. old[Len(old)].role # "system"
      <4>1. "system" \notin TalkRoles
        BY DEF TalkRoles
      <4>2. CASE L - K = 1
        <5>1. ~ (L > K + 1)
          BY <1>1, <4>2
        <5> QED
          BY <2>3, <4>2, <5>1
      <4>3. CASE L - K # 1
        <5>1. L - K \in 2 .. L /\ L - K \in 1 .. L - K
          BY <1>1, <1>3, <4>3
        <5> QED
          BY <2>2, <2>3, <4>1, <5>1
      <4> QED
        BY <4>2, <4>3
    <3>4. old[Len(old)].ids[1] = c
      BY <2>3, <3>1, <3>2, <3>3
    <3>5. ToldByFallback(old) \subseteq Nat
      BY <3>1 DEF ToldByFallback
    <3>6. c \in ToldByFallback(old)
      <4> HIDE DEF c, old
      <4> QED
        BY <3>2, <3>3, <3>4 DEF ToldByFallback
    <3> QED
      BY <3>5, <3>6
  <2> HIDE DEF tells
  <2>7. /\ first \in Entries /\ first.role = "system" /\ first.ids = Run(0, c)
        /\ first.by = "fallback" => c \in first.tells
    <3>1. Run(0, c) \in Seq(Nat)
      BY <2>6, RunIs
    <3> DEFINE r == [role |-> "system", ids |-> Run(0, c), by |-> by, size |-> 1,
                     tells |-> tells]
    <3>2. first = r
      BY <2>5 DEF SummaryOf, tells
    <3>3. r \in Entries
      BY <2>16, <3>1 DEF Entries
    <3>4. r.role = "system" /\ r.ids = Run(0, c) /\ r.by = by /\ r.tells = tells
      OBVIOUS
    <3> HIDE DEF first, r
    <3> QED
      BY <2>16, <3>2, <3>3, <3>4
  <2>8. g = <<first>> \o new
    BY <1>1, <1>3 DEF Compacted
  <2> HIDE DEF first, c, old, new, g, L, K
  <2>9. g \in Seq(Entries) /\ Len(g) = K + 1 /\ g[1] = first
        /\ \A k \in 2 .. K + 1 : g[k] = new[k - 1]
    BY <1>1, <2>4, <2>7, <2>8
  <2>10. ASSUME NEW k \in 2 .. K + 1
         PROVE  /\ k - 1 \in 1 .. K /\ L - K + (k - 1) \in 2 .. L
                /\ b + (L - K + (k - 1)) - 1 = c + k - 1
    BY <1>1, <1>3 DEF c
  <2>11. ASSUME NEW k \in 2 .. Len(g) PROVE g[k].ids = <<c + k - 1>> /\ g[k].role \in TalkRoles
    <3>1. k \in 2 .. K + 1
      BY <2>9
    <3>2. g[k] = h[L - K + (k - 1)]
      BY <2>4, <2>9, <2>10, <3>1
    <3> QED
      BY <2>2, <2>10, <3>1, <3>2
  <2>12. Len(g) # 0 /\ Len(g) > K
    BY <1>1, <2>9
  <2>13. Shape(g, c)
    BY <2>7, <2>9, <2>11, <2>12 DEF Shape, K
  <2>14. g[Len(g)] = h[L]
    <3>1. K + 1 \in 2 .. K + 1 /\ (K + 1) - 1 \in 1 .. K /\ L - K + ((K + 1) - 1) = L
      BY <1>1
    <3> QED
      BY <2>4, <2>9, <3>1
  <2>15. History(g, n)
    BY <2>6, <2>9, <2>13 DEF History
  <2> QED
    BY <1>3, <2>12, <2>14, <2>15 DEF L
<1> QED
  BY <1>1, <1>2, <1>3 DEF CompactedIfNeeded, Compacted

LEMMA AppendIs ==
  ASSUME NEW S, NEW t \in Seq(S), NEW e \in S
  PROVE  /\ Append(t, e) \in Seq(S) /\ Len(Append(t, e)) = Len(t) + 1
         /\ (\A j \in 1 .. Len(t) : Append(t, e)[j] = t[j])
         /\ Append(t, e)[Len(t) + 1] = e
OBVIOUS

LEMMA LatterChosen ==
  ASSUME NEW h \in Seq(Entries), NEW roles, NEW m \in 1 .. Len(h) + 1,
         \A k \in 1 .. Len(h) : h[k].role \in roles <=> k >= m
  PROVE  EntriesIn(h, roles) = SubSeq(h, m, Len(h))
<1> DEFINE n == Len(h)
           f == [k \in 0 .. n |-> SubSeq(h, m, k)]
<1>1. n \in Nat
  OBVIOUS
<1>2. ASSUME NEW k \in 0 .. n
      PROVE  f[k] = IF k = 0 THEN << >>
                    ELSE IF h[k].role \in roles THEN Append(f[k - 1], h[k]) ELSE f[k - 1]
  <2>1. CASE k = 0
    BY <2>1
  <2>2. CASE k # 0 /\ k < m
    <3>1. k \in 1 .. n /\ k - 1 \in 0 .. n /\ ~ (k >= m)
      BY <2>2
    <3>2. SubSeq(h, m, k) = << >> /\ SubSeq(h, m, k - 1) = << >>
      BY <2>2
    <3> QED
      BY <2>2, <3>1, <3>2
  <2>3. CASE k # 0 /\ k >= m
    <3>1. k \in 1 .. n /\ k - 1 \in 0 .. n
      BY <2>3
    <3>2. SubSeq(h, m, k) = Append(SubSeq(h, m, k - 1), h[k])
      <4> DEFINE s == SubSeq(h, m, k)
                 t == SubSeq(h, m, k - 1)
      <4>1. s \in Seq(Entries) /\ Len(s) = k - m + 1
            /\ \A j \in 1 .. k - m + 1 : s[j] = h[m + j - 1]
        <5>1. m \in Nat \ {0} /\ k \in Nat /\ m <= k /\ k <= Len(h)
          BY <2>3, <3>1
        <5> QED
          BY <5>1
      <4>2. t \in Seq(Entries) /\ Len(t) = k - m /\ \A j \in 1 .. k - m : t[j] = h[m + j - 1]
        BY <2>3, <3>1
      <4>3. k - m \in Nat /\ h[k] \in Entries /\ m + (k - m + 1) - 1 = k
        BY <2>3, <3>1
      <4> HIDE DEF s, t
      <4>4. Append(t, h[k]) \in Seq(Entries) /\ Len(Append(t, h[k])) = k - m + 1
            /\ (\A j \in 1 .. k - m : Append(t, h[k])[j] = t[j])
            /\ Append(t, h[k])[k - m + 1] = h[k]
        <5>1. t \in Seq(Entries) /\ Len(t) = k - m /\ h[k] \in Entries
          BY <4>2, <4>3
        <5> QED
          BY <5>1, AppendIs
      <4>5. ASSUME NEW j \in 1 .. k - m + 1 PROVE s[j] = Append(t, h[k])[j]
        <5>1. j \in 1 .. k - m \/ j = k - m + 1
          BY <4>3
        <5> QED
          BY <4>1, <4>2, <4>3, <4>4, <5>1
      <4>6. s = Append(t, h[k])
        BY <4>1, <4>3, <4>4, <4>5
      <4> QED
        BY <4>6 DEF s, t
    <3> QED
      BY <2>3, <3>1, <3>2
  <2>4. k = 0 \/ (k # 0 /\ k < m) \/ (k # 0 /\ k >= m)
    BY <1>1
  <2> QED
    BY <2>1, <2>2, <2>3, <2>4
<1>3. Chooses(f, h, roles, n)
  BY <1>2 DEF Chooses
<1>4. f[n] = SubSeq(h, m, n)
  BY <1>1
<1> HIDE DEF f
<1>5. EntriesIn(h, roles) = f[n]
  <2> HIDE DEF n
  <2>1. Len(h) = n
    BY DEF n
  <2> QED
    BY <1>1, <1>3, <2>1, EntriesInIs
<1> QED
  BY <1>4, <1>5

LEMMA FirstChosen ==
  ASSUME NEW h \in Seq(Entries), NEW roles, Len(h) # 0,
         \A k \in 1 .. Len(h) : h[k].role \in roles <=> k = 1
  PROVE  EntriesIn(h, roles) = <<h[1]>>
<1> DEFINE n == Len(h)
           f == [k \in 0 .. n |-> IF k = 0 THEN << >> ELSE <<h[1]>>]
<1>1. n \in Nat \ {0}
  OBVIOUS
<1>2. Chooses(f, h, roles, n)
  <2>1. ASSUME NEW k \in 0 .. n
        PROVE  f[k] = IF k = 0 THEN << >>
                      ELSE IF h[k].role \in roles THEN Append(f[k - 1], h[k]) ELSE f[k - 1]
    <3>1. CASE k = 0
      BY <3>1
    <3>2. CASE k = 1
      <4>1. 1 \in 0 .. n /\ 0 \in 0 .. n /\ 1 \in 1 .. n
        BY <1>1
      <4>2. f[0] = << >> /\ f[1] = <<h[1]>> /\ h[1].role \in roles
        BY <4>1
      <4>3. Append(<< >>, h[1]) = <<h[1]>>
        OBVIOUS
      <4> QED
        BY <3>2, <4>2, <4>3
    <3>3. CASE k # 0 /\ k # 1
      <4>1. k \in 1 .. n /\ k - 1 \in 0 .. n /\ k - 1 # 0
        BY <3>3
      <4> QED
        BY <3>3, <4>1
    <3> QED
      BY <3>1, <3>2, <3>3
  <2> QED
    BY <2>1 DEF Chooses
<1>3. f[n] = <<h[1]>>
  BY <1>1
<1> HIDE DEF f
<1>4. EntriesIn(h, roles) = f[n]
  <2> HIDE DEF n
  <2>1. Len(h) = n
    BY DEF n
  <2> QED
    BY <1>1, <1>2, <2>1, EntriesInIs
<1> QED
  BY <1>3, <1>4

\* What a request made of a history of n messages says.
RequestOf(system, talk, n) ==
    /\ Covers(system) \o Covers(talk) = Run(0, n)
    /\ \A k \in DOMAIN talk : talk[k].ids = <<n - Len(talk) + k>>
    /\ talk[Len(talk)].role = "user"
    /\ Len(talk) >= RecentKept \/ n - Len(talk) = 0
    /\ \A k \in DOMAIN system :
           system[k].by = "fallback" => n - Len(talk) \in system[k].tells

LEMMA RequestFacts ==
  ASSUME NEW h, NEW n, History(h, n), Len(h) # 0, h[Len(h)].role = "user"
  PROVE  RequestOf(SystemEntries(h), TalkEntries(h), n)
<1> DEFINE L == Len(h)
<1>1. h \in Seq(Entries) /\ n \in Nat /\ L \in Nat \ {0} /\ Covers(h) = Run(0, n)
      /\ RecentKept \in Nat \ {0}
  BY HistoryCovers, ContextWindowAssumption
<1>2. PICK b \in Nat \ {0} : Shape(h, b) /\ n = b + L - 1
  BY DEF History
<1>3. h[1].ids = Run(0, b)
      /\ (\A k \in 2 .. L : h[k].ids = <<b + k - 1>> /\ h[k].role \in TalkRoles)
  BY <1>2 DEF Shape
<1>4. TalkRoles \intersect {"system"} = {}
  BY DEF TalkRoles
<1>5. CASE h[1].role \in TalkRoles /\ b = 1
  <2>1. ASSUME NEW k \in 1 .. L PROVE h[k].role \in TalkRoles /\ h[k].role \notin {"system"}
    <3>1. k = 1 \/ k \in 2 .. L
      BY <1>1
    <3> QED
      BY <1>3, <1>4, <1>5, <3>1
  <2>2. SystemEntries(h) = << >>
    <3>1. \A k \in 1 .. L : h[k].role \in {"system"} <=> k >= L + 1
      BY <1>1, <2>1
    <3>2. L + 1 \in 1 .. L + 1
      BY <1>1
    <3>3. EntriesIn(h, {"system"}) = SubSeq(h, L + 1, L)
      BY <1>1, <3>1, <3>2, LatterChosen
    <3>4. SubSeq(h, L + 1, L) = << >>
      BY <1>1
    <3> QED
      BY <3>3, <3>4 DEF SystemEntries
  <2>3. TalkEntries(h) = h
    <3>1. EntriesIn(h, TalkRoles) = SubSeq(h, 1, L)
      BY <1>1, <2>1, LatterChosen
    <3>2. SubSeq(h, 1, L) = h
      BY <1>1
    <3> QED
      BY <3>1, <3>2 DEF TalkEntries
  <2>4. Covers(<< >>) = << >>
    BY DEF Covers, FlattenSeq
  <2>5. Run(0, n) \in Seq(Nat)
    <3>1. 0 \in Nat
      OBVIOUS
    <3> QED
      BY <1>1, <3>1, RunIs
  <2>6. << >> \o Run(0, n) = Run(0, n)
    BY <2>5
  <2>7. Len(TalkEntries(h)) = n
    BY <1>1, <1>2, <1>5, <2>3
  <2>8. Covers(SystemEntries(h)) \o Covers(TalkEntries(h)) = Run(0, n)
    BY <1>1, <2>2, <2>3, <2>4, <2>6
  <2>9. \A k \in 1 .. L : h[k].ids = <<n - L + k>>
    <3>1. 0 \in Nat /\ 1 \in Nat /\ n - L = 0
      BY <1>1, <1>2, <1>5
    <3>2. Run(0, 1) \in Seq(Nat) /\ Len(Run(0, 1)) = 1
          /\ \A j \in 1 .. 1 : Run(0, 1)[j] = 0 + j
      BY <3>1, RunIs
    <3>3. Run(0, 1) = <<1>>
      BY <3>2
    <3>4. h[1].ids = <<n - L + 1>>
      BY <1>3, <1>5, <3>1, <3>3
    <3>5. ASSUME NEW k \in 2 .. L PROVE h[k].ids = <<n - L + k>>
      <4>1. 1 + k - 1 = n - L + k
        BY <1>1, <3>1
      <4> QED
        BY <1>3, <1>5, <4>1
    <3>6. \A k \in 1 .. L : k = 1 \/ k \in 2 .. L
      BY <1>1
    <3> QED
      BY <3>4, <3>5, <3>6
  <2>10. DOMAIN h = 1 .. L /\ n - L = 0 /\ DOMAIN << >> = {}
    BY <1>1, <1>2, <1>5
  <2> QED
    BY <2>2, <2>3, <2>8, <2>9, <2>10 DEF RequestOf
<1>6. CASE /\ h[1].role = "system" /\ L > RecentKept
           /\ h[1].by = "fallback" => b \in h[1].tells
  <2>16. h[1].role = "system" /\ L > RecentKept
    BY <1>6
  <2>17. h[1].by = "fallback" => b \in h[1].tells
    BY <1>6
  <2>1. ASSUME NEW k \in 1 .. L
        PROVE  /\ h[k].role \in TalkRoles <=> k >= 2
               /\ h[k].role \in {"system"} <=> k = 1
    <3>1. k = 1 \/ (k \in 2 .. L /\ k >= 2 /\ k # 1)
      BY <1>1
    <3>2. ~ (1 >= 2)
      OBVIOUS
    <3> QED
      BY <1>3, <1>4, <2>16, <3>1, <3>2
  <2>2. SystemEntries(h) = <<h[1]>>
    BY <1>1, <2>1, FirstChosen DEF SystemEntries
  <2> DEFINE t == SubSeq(h, 2, L)
             c == b + (L - 1)
  <2>3. TalkEntries(h) = t
    <3>1. 2 \in 1 .. L + 1
      BY <1>1
    <3>2. EntriesIn(h, TalkRoles) = SubSeq(h, 2, L)
      BY <1>1, <2>1, <3>1, LatterChosen
    <3> QED
      BY <3>2 DEF TalkEntries
  <2>4. t \in Seq(Entries) /\ Len(t) = L - 1 /\ \A k \in 1 .. L - 1 : t[k] = h[k + 1]
    BY <1>1, <2>16
  <2>5. L - 1 \in Nat \ {0} /\ L - 1 \in 1 .. L - 1 /\ (L - 1) + 1 = L
    BY <1>1, <2>16
  <2>6. t[Len(t)] = h[L]
    BY <2>4, <2>5
  <2>7. Covers(<<h[1]>>) = Run(0, b)
    <3> DEFINE s == <<h[1]>>
    <3>1. s \in Seq(Entries) /\ Len(s) = 1 /\ s[1] = h[1]
      BY <1>1
    <3> HIDE DEF s
    <3>2. 0 \in Nat /\ Len(s) # 0 /\ \A k \in 2 .. Len(s) : s[k].ids = <<0 + (b + k - 1)>>
      BY <3>1
    <3>3. Covers(s) = Run(0, b + Len(s) - 1)
      BY <1>3, <3>1, <3>2, CoversRun
    <3>4. b + Len(s) - 1 = b
      BY <3>1
    <3> QED
      BY <3>3, <3>4 DEF s
  <2>8. Covers(t) = Run(b, L - 1)
    <3> HIDE DEF t
    <3>1. t[1].ids = Run(b, 1)
      <4>1. 1 \in 1 .. L - 1 /\ 2 \in 2 .. L /\ b + 2 - 1 = b + 1 /\ 1 \in Nat
        BY <1>1, <2>16
      <4>2. t[1].ids = <<b + 1>>
        BY <1>3, <2>4, <4>1
      <4>3. Run(b, 1) \in Seq(Nat) /\ Len(Run(b, 1)) = 1
            /\ \A j \in 1 .. 1 : Run(b, 1)[j] = b + j
        BY <4>1, RunIs
      <4>4. Run(b, 1) = <<b + 1>>
        BY <4>3
      <4> QED
        BY <4>2, <4>4
    <3>2. ASSUME NEW k \in 2 .. Len(t) PROVE t[k].ids = <<b + (1 + k - 1)>>
      <4>1. k \in 1 .. L - 1 /\ k + 1 \in 2 .. L /\ b + (k + 1) - 1 = b + (1 + k - 1)
        BY <1>1, <2>4
      <4> QED
        BY <1>3, <2>4, <4>1
    <3>3. 1 \in Nat \ {0} /\ Len(t) # 0 /\ 1 + Len(t) - 1 = L - 1
      BY <2>4, <2>5
    <3>4. Covers(t) = Run(b, 1 + Len(t) - 1)
      BY <2>4, <3>1, <3>2, <3>3, CoversRun
    <3> QED
      BY <3>3, <3>4
  <2>9. Run(0, b) \o Run(b, L - 1) = Run(0, b + (L - 1))
    BY <2>5, RunsJoin
  <2>10. b + (L - 1) = n
    BY <1>1, <1>2
  <2>11. L - 1 >= RecentKept
    BY <1>1, <2>16
  <2>12. Len(t) = L - 1 /\ t[Len(t)].role = "user" /\ n - Len(t) = b
    <3> HIDE DEF t
    <3>1. Len(t) = L - 1 /\ t[Len(t)].role = "user"
      BY <2>4, <2>6
    <3>2. n - (L - 1) = b
      BY <1>1, <1>2
    <3> QED
      BY <3>1, <3>2
  <2>13. \A k \in DOMAIN t : t[k].ids = <<n - Len(t) + k>>
    <3> HIDE DEF t
    <3>1. ASSUME NEW k \in 1 .. L - 1 PROVE t[k].ids = <<b + k>>
      <4>1. k + 1 \in 2 .. L /\ b + (k + 1) - 1 = b + k
        BY <1>1
      <4> QED
        BY <1>3, <2>4, <4>1
    <3>2. DOMAIN t = 1 .. L - 1
      BY <2>4
    <3> QED
      BY <2>12, <3>1, <3>2
  <2>14. Covers(SystemEntries(h)) \o Covers(t) = Run(0, n)
    BY <2>2, <2>7, <2>8, <2>9, <2>10
  <2>15. \A k \in DOMAIN <<h[1]>> : <<h[1]>>[k] = h[1]
    OBVIOUS
  <2>18. \A k \in DOMAIN <<h[1]>> :
            <<h[1]>>[k].by = "fallback" => n - Len(t) \in <<h[1]>>[k].tells
    BY <2>12, <2>15, <2>17, Zenon
  <2>19. Len(t) >= RecentKept
    BY <2>11, <2>12
  <2> HIDE DEF t
  <2> QED
    BY <2>2, <2>3, <2>12, <2>13, <2>14, <2>18, <2>19, Zenon DEF RequestOf
<1> QED
  BY <1>2, <1>5, <1>6 DEF Shape

-----------------------------------------------------------------------------
\* Who knew all fields but some, and is shown part of what changed, knows
\* all fields but those that changed and were not shown, and those of the
\* others that did not change.
LEMMA DiffTells ==
  ASSUME NEW known, NEW old, NEW new, NEW but, NEW shown,
         shown \subseteq ChangedIn(DiffOf(old, new)), Knows(known, Before(old), but)
  PROVE  Knows(ApplyDiff(known, DiffOf(old, new), shown), new,
               (but \union ChangedIn(DiffOf(old, new))) \ shown)
<1> DEFINE before == Before(old)
           B == DOMAIN before
           N == DOMAIN new
           C == {g \in B \intersect N : before[g] # new[g]}
           d == DiffOf(old, new)
           added == [f \in N \ B |-> new[f]]
           changed == [f \in C |-> new[f]]
           after == ApplyDiff(known, d, shown)
<1>1. d = [added |-> added, removed |-> B \ N, changed |-> changed]
  BY DEF DiffOf
<1> HIDE DEF d
<1>2. d.added = added /\ d.removed = B \ N /\ d.changed = changed
  BY <1>1
<1>3. DOMAIN d.added = N \ B /\ DOMAIN d.changed = C
  BY <1>2
<1>4. ChangedIn(d) = (N \ B) \union (B \ N) \union C
  BY <1>2, <1>3 DEF ChangedIn
<1>5. DOMAIN after = (DOMAIN known \ ((B \ N) \intersect shown))
                       \union (((N \ B) \union C) \intersect shown)
  BY <1>2, <1>3 DEF ApplyDiff
<1>6. ASSUME NEW f \in DOMAIN after
      PROVE  after[f] = IF f \in (N \ B) \intersect shown THEN d.added[f]
                        ELSE IF f \in C \intersect shown THEN d.changed[f] ELSE known[f]
  BY <1>2, <1>3, <1>5 DEF ApplyDiff
<1>7. /\ \A f \in N \ B : d.added[f] = new[f]
      /\ \A f \in C : d.changed[f] = new[f]
  BY <1>2
<1>8. shown \subseteq ChangedIn(d) /\ Knows(known, before, but)
  BY DEF d
<1> HIDE DEF after, before
<1>9. ASSUME NEW f \in (DOMAIN after \union N) \ ((but \union ChangedIn(d)) \ shown)
      PROVE  f \in DOMAIN after \intersect N /\ after[f] = new[f]
  <2>1. CASE f \in shown
    <3>1. f \in N \ B \/ f \in C
      BY <1>4, <1>5, <1>8, <2>1
    <3>2. f \in DOMAIN after
      BY <1>5, <2>1, <3>1
    <3>3. after[f] = new[f]
      BY <1>6, <1>7, <2>1, <3>1, <3>2
    <3> QED
      BY <3>1, <3>2, <3>3
  <2>2. CASE f \notin shown
    <3>1. f \notin but /\ f \notin (N \ B) \union (B \ N) \union C
      BY <1>4, <2>2
    <3>2. f \in DOMAIN known \union B
      BY <1>5, <2>2, <3>1
    <3>3. f \in DOMAIN known /\ f \in B /\ known[f] = before[f]
      BY <1>8, <3>1, <3>2 DEF Knows
    <3>4. f \in N /\ before[f] = new[f]
      BY <3>1, <3>3
    <3>5. f \in DOMAIN after
      BY <1>5, <2>2, <3>3
    <3>6. after[f] = known[f]
      BY <1>6, <2>2, <3>5
    <3> QED
      BY <3>3, <3>4, <3>5, <3>6
  <2> QED
    BY <2>1, <2>2
<1> QED
  BY <1>9 DEF Knows, after, d

-----------------------------------------------------------------------------
ToldInv == Knows(told, Before(baseline), unshown)

RequestInv == inTurn => \E n \in Nat : RequestOf(request_.system, request_.talk, n)

ContextInv == History(shown_history, said) /\ RequestInv /\ ToldInv

LEMMA ContextInvInit == ContextInit => ContextInv
BY DEF ContextInit, ContextInv, History, RequestInv, ToldInv, Knows, Before

LEMMA SpokenEntry ==
  ASSUME NEW role \in TalkRoles, NEW n \in Nat, NEW size \in Nat
  PROVE  /\ EntryOf(role, n, size) \in Entries
         /\ EntryOf(role, n, size).role = role /\ EntryOf(role, n, size).ids = <<n>>
BY DEF EntryOf, Entries

LEMMA BaselineStep == ContextInv /\ AgentRound => ToldInv'
<1> SUFFICES ASSUME ContextInv, AgentRound PROVE ToldInv'
  OBVIOUS
<1> DEFINE new == Snapshot
           d == DiffOf(baseline, new)
<1>1. "instructions" \in DOMAIN new
  BY DEF Snapshot
<1>2. DOMAIN NoBaseline = {"none"} /\ "instructions" # "none"
  BY DEF NoBaseline
<1>3. new # NoBaseline
  BY <1>1, <1>2
<1>4. /\ baseline' = new /\ told' = ApplyDiff(told, d, ShownOf(d))
      /\ unshown' = (unshown \union ChangedIn(d)) \ ShownOf(d)
  BY DEF AgentRound
<1> HIDE DEF new
<1>5. Knows(told, Before(baseline), unshown)
  BY DEF ContextInv, ToldInv
<1>6. ShownOf(d) \subseteq ChangedIn(d)
  BY DEF ShownOf
<1>7. Knows(ApplyDiff(told, d, ShownOf(d)), new, (unshown \union ChangedIn(d)) \ ShownOf(d))
  BY <1>5, <1>6, DiffTells
<1>8. Before(baseline') = new
  BY <1>3, <1>4 DEF Before
<1> HIDE DEF d
<1> QED
  BY <1>4, <1>7, <1>8 DEF ToldInv

LEMMA ContextInvStep == ContextInv /\ [ContextNext]_contextVars => ContextInv'
<1> SUFFICES ASSUME ContextInv, [ContextNext]_contextVars PROVE ContextInv'
  OBVIOUS
<1>1. History(shown_history, said) /\ RequestInv /\ ToldInv
      /\ said \in Nat /\ shown_history \in Seq(Entries) /\ said + 1 \in Nat
  BY HistoryCovers DEF ContextInv
<1>2. {"user", "assistant", "tool"} \subseteq TalkRoles
  BY DEF TalkRoles
<1>3. ASSUME NEW size \in UserSizes, BeginInput(size) PROVE ContextInv'
  <2> DEFINE e == EntryOf("user", said + 1, size)
             g == Append(shown_history, e)
  <2>9. PICK by \in {"model", "fallback"} :
           LET next == CompactedIfNeeded(g, by)
           IN  shown_history' = next /\ request_' = RequestFor(next)
    BY <1>3 DEF BeginInput
  <2> DEFINE h == CompactedIfNeeded(g, by)
  <2>1. said' = said + 1 /\ shown_history' = h /\ request_' = RequestFor(h)
        /\ UNCHANGED <<baseline, told, unshown>>
    BY <1>3, <2>9 DEF BeginInput, diffVars
  <2>2. e \in Entries /\ e.role = "user" /\ e.ids = <<said + 1>>
    <3>1. size \in Nat
      BY ContextWindowAssumption
    <3> QED
      BY <1>1, <1>2, <3>1, SpokenEntry
  <2> HIDE DEF e
  <2>3. History(g, said + 1) /\ Len(g) # 0 /\ g[Len(g)] = e
        /\ (g[1].role = "system" => Len(g) > RecentKept + 1)
    BY <1>1, <1>2, <2>2, HistoryGrows
  <2> HIDE DEF g
  <2>4. History(h, said + 1) /\ Len(h) # 0 /\ h[Len(h)] = e
    BY <2>3, CompactedShape
  <2> HIDE DEF h
  <2>5. RequestOf(SystemEntries(h), TalkEntries(h), said + 1)
    BY <2>2, <2>4, RequestFacts
  <2>6. request_'.system = SystemEntries(h) /\ request_'.talk = TalkEntries(h)
    BY <2>1 DEF RequestFor
  <2>7. RequestInv'
    BY <1>1, <2>5, <2>6 DEF RequestInv
  <2>8. History(shown_history, said)' /\ ToldInv'
    BY <1>1, <2>1, <2>4 DEF ToldInv
  <2> QED
    BY <2>7, <2>8 DEF ContextInv
<1>4. ASSUME AgentRound PROVE ContextInv'
  <2>1. UNCHANGED <<shown_history, said, request_, inTurn>>
    BY <1>4 DEF AgentRound
  <2>2. History(shown_history, said)' /\ RequestInv'
    BY <1>1, <2>1 DEF RequestInv
  <2> QED
    BY <1>4, <2>2, BaselineStep DEF ContextInv
<1>5. ASSUME NEW role \in TalkRoles, said' = said + 1,
             shown_history' = Append(shown_history, EntryOf(role, said + 1, 1))
      PROVE  History(shown_history, said)'
  <2> DEFINE e == EntryOf(role, said + 1, 1)
  <2>1. e \in Entries /\ e.role = role /\ e.ids = <<said + 1>>
    BY <1>1, SpokenEntry
  <2>2. shown_history' = Append(shown_history, e)
    BY <1>5
  <2> HIDE DEF e
  <2>3. History(Append(shown_history, e), said + 1)
    BY <1>1, <2>1, HistoryGrows
  <2> QED
    BY <1>5, <2>2, <2>3
<1>6. ASSUME RecordResult PROVE ContextInv'
  <2>1. said' = said + 1 /\ UNCHANGED <<baseline, told, unshown, request_, inTurn>>
        /\ shown_history' = Append(shown_history, EntryOf("tool", said + 1, 1))
    BY <1>6 DEF RecordResult, diffVars
  <2>2. History(shown_history, said)'
    BY <1>2, <1>5, <2>1
  <2>3. RequestInv' /\ ToldInv'
    BY <1>1, <2>1 DEF RequestInv, ToldInv
  <2> QED
    BY <2>2, <2>3 DEF ContextInv
<1>7. ASSUME NEW reported \in BOOLEAN, EndAnswered(reported) PROVE ContextInv'
  <2>1. said' = said + 1 /\ UNCHANGED <<baseline, told, unshown>> /\ ~ inTurn'
        /\ shown_history' = Append(shown_history, EntryOf("assistant", said + 1, 1))
    BY <1>7 DEF EndAnswered, BackAtPrompt, diffVars
  <2>2. History(shown_history, said)'
    BY <1>2, <1>5, <2>1
  <2>3. RequestInv' /\ ToldInv'
    BY <1>1, <2>1 DEF RequestInv, ToldInv
  <2> QED
    BY <2>2, <2>3 DEF ContextInv
<1>8. ASSUME UNCHANGED <<shown_history, said, baseline, told, unshown, request_>>,
             ~ inTurn' \/ inTurn' = inTurn
      PROVE  ContextInv'
  <2>1. History(shown_history, said)' /\ ToldInv'
    BY <1>1, <1>8 DEF ToldInv
  <2>2. RequestInv'
    BY <1>1, <1>8 DEF RequestInv
  <2> QED
    BY <2>1, <2>2 DEF ContextInv
<1>9. ASSUME EndUnanswered \/ EditInstruction \/ SaveMemory \/ \E p \in Pins : Pin(p)
      PROVE  ContextInv'
  BY <1>8, <1>9 DEF EndUnanswered, EditInstruction, SaveMemory, Pin, BackAtPrompt, diffVars
<1>10. ASSUME ClearHistory PROVE ContextInv'
  <2>1. shown_history' = << >> /\ said' = 0 /\ ~ inTurn' /\ UNCHANGED <<baseline, told, unshown>>
    BY <1>10 DEF ClearHistory, BackAtPrompt, diffVars
  <2>2. History(shown_history, said)'
    BY <2>1 DEF History
  <2>3. RequestInv' /\ ToldInv'
    BY <1>1, <2>1 DEF RequestInv, ToldInv
  <2> QED
    BY <2>2, <2>3 DEF ContextInv
<1>11. ASSUME UNCHANGED contextVars PROVE ContextInv'
  BY <1>8, <1>11 DEF contextVars, diffVars
<1> QED
  BY <1>3, <1>4, <1>6, <1>7, <1>9, <1>10, <1>11 DEF ContextNext

LEMMA ContextInvGives == ContextInv => RequestCoversSession
<1> SUFFICES ASSUME ContextInv PROVE RequestCoversSession
  OBVIOUS
<1> DEFINE talk == request_.talk
           ids == Covers(request_.system) \o Covers(talk)
<1>1. ASSUME NEW n \in Nat PROVE Run(0, n) = [k \in 1 .. n |-> k] /\ Len(Run(0, n)) = n
  <2>1. [k \in 1 .. n |-> 0 + k] = [k \in 1 .. n |-> k]
    OBVIOUS
  <2>2. 0 \in Nat
    OBVIOUS
  <2> QED
    BY <2>1, <2>2, RunIs DEF Run
<1>2. Covers(shown_history) = [k \in 1 .. said |-> k]
  BY <1>1, HistoryCovers DEF ContextInv
<1>3. ASSUME inTurn
      PROVE  /\ ids = [k \in 1 .. Len(ids) |-> k]
             /\ \A k \in DOMAIN talk : talk[k].ids = <<Len(ids) - Len(talk) + k>>
             /\ talk[Len(talk)].role = "user"
             /\ Len(talk) >= RecentKept \/ Len(ids) - Len(talk) = 0
             /\ \A k \in DOMAIN request_.system :
                   request_.system[k].by = "fallback" =>
                     Len(ids) - Len(talk) \in request_.system[k].tells
  <2>1. PICK n \in Nat : RequestOf(request_.system, talk, n)
    BY <1>3 DEF ContextInv, RequestInv
  <2>2. ids = Run(0, n)
    BY <2>1 DEF RequestOf
  <2> HIDE DEF ids
  <2>3. Len(ids) = n
    BY <1>1, <2>2
  <2> QED
    BY <1>1, <2>1, <2>2, <2>3 DEF RequestOf
<1>4. Knows(told, Before(baseline), unshown)
  BY DEF ContextInv, ToldInv
<1> QED
  BY <1>2, <1>3, <1>4 DEF RequestCoversSession

(* What the model is asked covers the session: after any number of inputs, *)
(* tool results, compactions, interrupted and failed turns, clears and     *)
(* edits, the request of a turn (build_conversation_model_messages) ends   *)
(* with the latest keep_recent messages or more, verbatim, once and in     *)
(* order, the input last; the summary before them replaces the earlier     *)
(* ones and no other (ContextCompactor.compact), and one that              *)
(* _fallback_summary made tells of the last of these.  Fields whose latest *)
(* change was not cut from a diff (render_context_diff_for_prompt) are     *)
(* known to the agent as of its last round.  What a summary tells of the   *)
(* other messages is not said.                                             *)
THEOREM RequestsComplete == ContextSpec => []RequestCoversSession
BY ContextInvInit, ContextInvStep, ContextInvGives, PTL DEF ContextSpec

-----------------------------------------------------------------------------
(* WireFormat, for conversations of any length.                            *)

WireBlocks ==
    [type : {"text", "tool_use"}, is : Nat] \cup [type : {"tool_result"}, is : Nat, says : Nat]
WireMessages ==
    [role : {"system", "user", "assistant", "tool"}, text : Nat, calls : Seq(Nat), answers : Nat,
     segmented : BOOLEAN]
WireEntries == [role : {"user", "assistant"}, blocks : Seq(WireBlocks)]

\* What is put together of parts, one part more.
LEMMA FlattenGrows ==
  ASSUME NEW S, NEW s \in Seq(Seq(S)), NEW x \in Seq(S)
  PROVE  /\ FlattenSeq(s) \in Seq(S)
         /\ FlattenSeq(Append(s, x)) = FlattenSeq(s) \o x
<1> DEFINE n == Len(s)
           r == Append(s, x)
<1>1. n \in Nat /\ << >> \in Seq(S) /\ \A k \in 1 .. n : s[k] \in Seq(S)
  OBVIOUS
<1>2. /\ r \in Seq(Seq(S)) /\ Len(r) = n + 1
      /\ (\A j \in 1 .. n : r[j] = s[j]) /\ r[n + 1] = x
  BY AppendIs
<1>3. n + 1 \in Nat \ {0} /\ n + 1 \in 1 .. n + 1 /\ \A k \in 1 .. n + 1 : r[k] \in Seq(S)
  BY <1>1, <1>2
<1> HIDE DEF r, n
<1> DEFINE g == [p \in (1 .. n + 1) \X Seq(S) |-> p[2] \o r[p[1]]]
<1>4. g \in [(1 .. n + 1) \X Seq(S) -> Seq(S)]
  <2> SUFFICES ASSUME NEW k \in 1 .. n + 1, NEW t \in Seq(S) PROVE t \o r[k] \in Seq(S)
    OBVIOUS
  <2>1. r[k] \in Seq(S)
    BY <1>3
  <2> QED
    BY <2>1
<1>5. \A k \in 1 .. n + 1, t \in Seq(S) : g[<<k, t>>] = t \o r[k]
  OBVIOUS
<1> HIDE DEF g
<1>6. PICK c : IteratesTo(c, n + 1, Seq(S), << >>, g)
  <2>1. n + 1 \in Nat
    BY <1>3
  <2> QED
    BY <1>1, <1>4, <2>1, IterationExists, Zenon
<1>7. /\ c \in [0 .. n + 1 -> Seq(S)] /\ c[0] = << >>
      /\ \A k \in 1 .. n + 1 : c[k] = g[<<k, c[k - 1]>>]
  BY <1>6 DEF IteratesTo
<1>8. \A k \in 1 .. n + 1 : k - 1 \in 0 .. n + 1 /\ k \in 0 .. n + 1
  BY <1>1
<1>9. ASSUME NEW k \in 1 .. n + 1 PROVE c[k] = c[k - 1] \o r[k]
  <2>1. c[k - 1] \in Seq(S)
    BY <1>7, <1>8
  <2> QED
    BY <1>5, <1>7, <2>1
<1>10. ASSUME NEW k \in 1 .. n + 1
       PROVE  c[k] = IF k = 1 THEN r[k] ELSE c[k - 1] \o r[k]
  <2>1. CASE k = 1
    <3>0. c[k - 1] = << >>
      BY <1>7, <2>1
    <3>1. c[k] = << >> \o r[k] /\ r[k] \in Seq(S)
      BY <1>3, <1>9, <3>0
    <3>2. << >> \o r[k] = r[k]
      BY <3>1
    <3> QED
      BY <2>1, <3>1, <3>2
  <2>2. CASE k # 1
    BY <1>9, <2>2
  <2> QED
    BY <2>1, <2>2
<1> DEFINE d == [k \in 1 .. n + 1 |-> c[k]]
           e == [k \in 1 .. n |-> c[k]]
<1>11. Flattens(d, r, n + 1)
  <2>1. ASSUME NEW k \in 1 .. n + 1
        PROVE  d[k] = IF k = 1 THEN r[k] ELSE d[k - 1] \o r[k]
    <3>1. k # 1 => k - 1 \in 1 .. n + 1
      BY <1>1
    <3>2. d[k] = c[k] /\ (k # 1 => d[k - 1] = c[k - 1])
      BY <3>1
    <3> QED
      BY <1>10, <3>2
  <2> QED
    BY <2>1 DEF Flattens
<1>12. d[n + 1] = c[n + 1]
  BY <1>3
<1>13. FlattenSeq(r) = c[n + 1]
  <2> HIDE DEF d
  <2> QED
    BY <1>2, <1>3, <1>11, <1>12, FlattenIs
<1>14. FlattenSeq(s) = c[n]
  <2>1. CASE n = 0
    <3>1. s = << >> /\ c[n] = << >>
      BY <1>7, <2>1 DEF n
    <3>2. FlattenSeq(<< >>) = << >>
      BY DEF FlattenSeq
    <3> QED
      BY <3>1, <3>2
  <2>2. CASE n # 0
    <3>1. Flattens(e, s, n)
      <4>1. ASSUME NEW k \in 1 .. n
            PROVE  e[k] = IF k = 1 THEN s[k] ELSE e[k - 1] \o s[k]
        <5>1. k \in 1 .. n + 1 /\ (k # 1 => k - 1 \in 1 .. n)
          BY <1>1
        <5>2. e[k] = c[k] /\ (k # 1 => e[k - 1] = c[k - 1]) /\ r[k] = s[k]
          BY <1>2, <5>1
        <5> QED
          BY <1>10, <5>1, <5>2
      <4> QED
        BY <4>1 DEF Flattens
    <3>2. e[n] = c[n] /\ n \in Nat \ {0} /\ Len(s) = n
      BY <1>1, <2>2 DEF n
    <3> HIDE DEF e
    <3> QED
      BY <3>1, <3>2, FlattenIs
  <2> QED
    BY <2>1, <2>2
<1>15. c[n] \in Seq(S) /\ c[n + 1] = c[n] \o x
  <2>1. n \in 0 .. n + 1 /\ n + 1 - 1 = n
    BY <1>1
  <2>2. PICK k \in 1 .. n + 1 : k = n + 1
    BY <1>3
  <2>3. c[k] = c[k - 1] \o r[k]
    BY <1>9
  <2>4. k - 1 = n
    BY <1>1, <2>2
  <2> QED
    BY <1>2, <1>7, <2>1, <2>2, <2>3, <2>4
<1> QED
  BY <1>13, <1>14, <1>15 DEF r

LEMMA FlattenNone == FlattenSeq(<< >>) = << >>
BY DEF FlattenSeq

\* The calls blocks make, when the first of the blocks make none and all
\* that follow them do.
LEMMA UsesAre ==
  ASSUME NEW bs \in Seq(WireBlocks), NEW m \in 0 .. Len(bs),
         \A j \in 1 .. Len(bs) : bs[j].type = "tool_use" <=> j > m
  PROVE  UsesIn(bs) = [j \in 1 .. Len(bs) - m |-> bs[m + j].is]
<1> DEFINE n == Len(bs)
           u == [j \in 1 .. n |-> IF bs[j].type = "tool_use" THEN <<bs[j].is>> ELSE << >>]
           CallIds(k) == [j \in 1 .. k - m |-> bs[m + j].is]
           f == [k \in 1 .. n |-> CallIds(k)]
<1>1. n \in Nat /\ m \in Nat /\ m <= n /\ DOMAIN bs = 1 .. n
  OBVIOUS
<1>2. UsesIn(bs) = FlattenSeq(u)
  BY DEF UsesIn
<1>3. Len(u) = n
  BY <1>1
<1>4. \A j \in 1 .. n : bs[j].is \in Nat /\ (bs[j].type = "tool_use" <=> j > m)
  BY DEF WireBlocks
<1>5. \A j \in 1 .. n : u[j] = IF j > m THEN <<bs[j].is>> ELSE << >>
  BY <1>4
<1> HIDE DEF u, n
<1>6. ASSUME NEW k \in 0 .. n
      PROVE  /\ k <= m => CallIds(k) = << >>
             /\ CallIds(k) \in Seq(Nat)
             /\ k # 0 /\ k > m => CallIds(k) = CallIds(k - 1) \o <<bs[k].is>>
  <2>1. k <= m => CallIds(k) = << >>
    BY <1>1
  <2>2. CASE k <= m
    <3>1. << >> \in Seq(Nat) /\ ~ (k > m)
      BY <1>1, <2>2
    <3> HIDE DEF CallIds
    <3> QED
      BY <2>1, <2>2, <3>1
  <2>3. CASE k > m
    <3> DEFINE a == CallIds(k)
               b == CallIds(k - 1)
               z == <<bs[k].is>>
    <3>1. k - m \in Nat /\ k - 1 - m \in Nat /\ k - m = (k - 1 - m) + 1 /\ k \in 1 .. n
      BY <1>1, <2>3
    <3>2. \A j \in 1 .. k - m : m + j \in 1 .. n
      BY <1>1, <3>1
    <3>3. a \in Seq(Nat) /\ Len(a) = k - m /\ \A j \in 1 .. k - m : a[j] = bs[m + j].is
      BY <1>4, <3>1, <3>2
    <3>4. b \in Seq(Nat) /\ Len(b) = k - 1 - m /\ \A j \in 1 .. k - 1 - m : b[j] = bs[m + j].is
      BY <1>4, <3>1, <3>2
    <3>5. bs[k].is \in Nat /\ k = m + (k - m)
      BY <1>1, <1>4, <3>1
    <3>6. a[k - m] = bs[k].is
      <4>1. k - m \in 1 .. k - m
        BY <3>1, <2>3, <1>1
      <4> QED
        BY <3>3, <3>5, <4>1
    <3> HIDE DEF a, b
    <3>7. /\ Append(b, bs[k].is) \in Seq(Nat) /\ Len(Append(b, bs[k].is)) = k - m
          /\ (\A j \in 1 .. k - 1 - m : Append(b, bs[k].is)[j] = b[j])
          /\ Append(b, bs[k].is)[k - m] = bs[k].is
      BY <3>1, <3>4, <3>5, AppendIs
    <3>8. ASSUME NEW j \in 1 .. k - m PROVE a[j] = Append(b, bs[k].is)[j]
      <4>1. j \in 1 .. k - 1 - m \/ j = k - m
        BY <3>1
      <4> QED
        BY <3>3, <3>4, <3>6, <3>7, <4>1
    <3>9. a = Append(b, bs[k].is)
      BY <3>3, <3>7, <3>8, SeqEqual, Zenon
    <3>10. Append(b, bs[k].is) = b \o z
      BY <3>4, <3>5, AppendIsConcat
    <3>11. CallIds(k) \in Seq(Nat) /\ CallIds(k) = CallIds(k - 1) \o <<bs[k].is>>
      BY <3>3, <3>9, <3>10 DEF a, b
    <3> HIDE DEF CallIds
    <3>12. ~ (k <= m)
      BY <1>1, <2>3
    <3> QED
      BY <3>11, <3>12
  <2> HIDE DEF CallIds
  <2>4. (k <= m) \/ (k > m)
    BY <1>1
  <2> QED
    BY <2>2, <2>3, <2>4
<1> HIDE DEF CallIds
<1>7. ASSUME NEW k \in 1 .. n
      PROVE  f[k] = IF k = 1 THEN u[k] ELSE f[k - 1] \o u[k]
  <2>1. k \in 0 .. n /\ k - 1 \in 0 .. n /\ (k # 1 => k - 1 \in 1 .. n)
    BY <1>1
  <2>2. f[k] = CallIds(k) /\ (k # 1 => f[k - 1] = CallIds(k - 1))
    BY <2>1
  <2>3. (k - 1 <= m => CallIds(k - 1) = << >>) /\ CallIds(k - 1) \in Seq(Nat)
    BY <1>6, <2>1, Zenon
  <2>4. CASE k <= m
    <3>0. k - 1 <= m /\ ~ (k > m)
      BY <1>1, <2>4
    <3>1. CallIds(k) = << >> /\ CallIds(k - 1) = << >> /\ u[k] = << >>
      BY <1>5, <1>6, <2>1, <2>3, <2>4, <3>0
    <3>2. << >> \o << >> = << >>
      OBVIOUS
    <3> QED
      BY <2>2, <3>1, <3>2
  <2>5. CASE k > m
    <3>1. CallIds(k) = CallIds(k - 1) \o <<bs[k].is>> /\ u[k] = <<bs[k].is>>
      BY <1>1, <1>5, <1>6, <2>1, <2>5
    <3>2. k = 1 => CallIds(k - 1) = << >>
      BY <1>1, <2>1, <2>3
    <3>3. << >> \o <<bs[k].is>> = <<bs[k].is>>
      OBVIOUS
    <3> QED
      BY <2>2, <3>1, <3>2, <3>3
  <2>6. k <= m \/ k > m
    BY <1>1
  <2> HIDE DEF f
  <2> QED
    BY <2>4, <2>5, <2>6
<1>8. CASE n = 0
  <2>1. u = << >> /\ CallIds(n) = << >>
    <3>1. u = << >>
      BY <1>8 DEF u
    <3>2. n \in 0 .. n /\ n <= m
      BY <1>1, <1>8
    <3> QED
      BY <1>6, <3>1, <3>2
  <2> QED
    BY <1>2, <2>1, FlattenNone DEF CallIds, n
<1>9. CASE n # 0
  <2>1. Flattens(f, u, n)
    BY <1>7 DEF Flattens
  <2>2. f[n] = CallIds(n) /\ n \in Nat \ {0}
    BY <1>1, <1>9
  <2> HIDE DEF f
  <2>3. FlattenSeq(u) = f[n]
    BY <1>3, <2>1, <2>2, FlattenIs
  <2> QED
    BY <1>2, <2>2, <2>3 DEF CallIds, n
<1> QED
  BY <1>8, <1>9

\* The entries made of the first k messages.
Builds(f, ms, n) ==
    f = [k \in 0 .. n |-> IF k = 0 THEN << >> ELSE AnthropicStep(f[k - 1], ms[k])]

LEMMA EntriesAre ==
  ASSUME NEW ms, NEW n \in Nat, Len(ms) = n, NEW f, Builds(f, ms, n)
  PROVE  AnthropicEntries(ms) = f[n]
<1> DEFINE t == CHOOSE r : Builds(r, ms, n)
<1>0. Builds(t, ms, n) /\ AnthropicEntries(ms) = t[n]
  BY DEF AnthropicEntries, Builds
<1> HIDE DEF t
<1>1. PICK c : Builds(c, ms, n) /\ AnthropicEntries(ms) = c[n]
  BY <1>0
<1>2. AnthropicEntries(ms) = c[n]
  BY <1>1
<1>3. AgreeStepwise(c, f, 0, n)
  <2> SUFFICES ASSUME NEW k \in 0 .. n, k # 0 => c[k - 1] = f[k - 1] PROVE c[k] = f[k]
    BY DEF AgreeStepwise
  <2>1. c[k] = IF k = 0 THEN << >> ELSE AnthropicStep(c[k - 1], ms[k])
    BY <1>1 DEF Builds
  <2>2. f[k] = IF k = 0 THEN << >> ELSE AnthropicStep(f[k - 1], ms[k])
    BY DEF Builds
  <2> QED
    BY <2>1, <2>2
<1>4. 0 \in Nat /\ n \in Nat
  OBVIOUS
<1>5. Agree(c, f, 0, n)
  BY <1>3, <1>4, OneIteration, Zenon
<1> QED
  BY <1>2, <1>5 DEF Agree

LEMMA EntriesStart ==
  AnthropicEntries(<< >>) = << >> /\ \E f : Builds(f, << >>, 0)
<1> DEFINE f == [k \in 0 .. 0 |-> << >>]
<1>1. Builds(f, << >>, 0)
  BY DEF Builds
<1>2. f[0] = << >> /\ Len(<< >>) = 0 /\ 0 \in Nat
  OBVIOUS
<1> HIDE DEF f
<1> QED
  BY <1>1, <1>2, EntriesAre

\* One message more is one step more.
LEMMA EntriesGrow ==
  ASSUME NEW ms \in Seq(WireMessages), NEW m \in WireMessages,
         \E f : Builds(f, ms, Len(ms))
  PROVE  /\ AnthropicEntries(Append(ms, m)) = AnthropicStep(AnthropicEntries(ms), m)
         /\ \E f : Builds(f, Append(ms, m), Len(Append(ms, m)))
<1> DEFINE n == Len(ms)
           r == Append(ms, m)
<1>1. n \in Nat
  OBVIOUS
<1>2. Len(r) = n + 1 /\ (\A j \in 1 .. n : r[j] = ms[j]) /\ r[n + 1] = m
  BY AppendIs
<1>3. PICK f : Builds(f, ms, n)
  OBVIOUS
<1>4. AnthropicEntries(ms) = f[n]
  BY <1>1, <1>3, EntriesAre
<1> DEFINE g == [k \in 0 .. n + 1 |-> IF k = n + 1 THEN AnthropicStep(f[n], m) ELSE f[k]]
<1> HIDE DEF r, n
<1>5. ASSUME NEW k \in 0 .. n + 1
      PROVE  g[k] = IF k = 0 THEN << >> ELSE AnthropicStep(g[k - 1], r[k])
  <2>1. k # 0 => k - 1 \in 0 .. n + 1 /\ k - 1 # n + 1
    BY <1>1
  <2>2. k # 0 => g[k - 1] = f[k - 1]
    BY <2>1
  <2>3. CASE k = n + 1
    <3>1. k # 0 /\ k - 1 = n
      BY <1>1, <2>3
    <3>2. g[k] = AnthropicStep(f[n], m)
      BY <2>3
    <3> QED
      BY <1>2, <2>2, <2>3, <3>1, <3>2
  <2>4. CASE k # n + 1
    <3>1. k \in 0 .. n /\ (k # 0 => k \in 1 .. n)
      BY <1>1, <2>4
    <3>2. g[k] = f[k]
      BY <2>4
    <3>3. f[k] = IF k = 0 THEN << >> ELSE AnthropicStep(f[k - 1], ms[k])
      BY <1>3, <3>1 DEF Builds
    <3> QED
      BY <1>2, <2>2, <3>1, <3>2, <3>3
  <2> QED
    BY <2>3, <2>4
<1>6. Builds(g, r, n + 1)
  BY <1>5 DEF Builds
<1>7. g[n + 1] = AnthropicStep(f[n], m) /\ n + 1 \in Nat
  BY <1>1
<1> HIDE DEF g
<1>8. AnthropicEntries(r) = g[n + 1]
  BY <1>2, <1>6, <1>7, EntriesAre
<1>9. \E h : Builds(h, r, Len(r))
  BY <1>2, <1>6
<1> QED
  BY <1>4, <1>7, <1>8, <1>9 DEF r

-----------------------------------------------------------------------------
\* What a message adds to what is said.
SaidBy(m) == IF m.role = "system" THEN << >> ELSE OpenAIEntry(m).blocks

LEMMA SaidTyped ==
  ASSUME NEW m \in WireMessages
  PROVE  /\ ResultBlock(m) \in WireBlocks
         /\ TextBlocks(m.text) \o UseBlocks(m) \in Seq(WireBlocks)
         /\ SaidBy(m) \in Seq(WireBlocks)
         /\ SaidBy(m) = IF m.role = "system" THEN << >>
                        ELSE IF m.role = "tool" THEN <<ResultBlock(m)>>
                        ELSE TextBlocks(m.text) \o UseBlocks(m)
<1>1. m.text \in Nat /\ m.calls \in Seq(Nat) /\ m.answers \in Nat
  BY DEF WireMessages
<1>2. ResultBlock(m) \in WireBlocks
  BY <1>1 DEF ResultBlock, WireBlocks
<1>3. TextBlocks(m.text) \in Seq(WireBlocks)
  <2>1. TextBlock(m.text) \in WireBlocks
    BY <1>1 DEF TextBlock, WireBlocks
  <2> QED
    BY <2>1 DEF TextBlocks
<1>4. UseBlocks(m) \in Seq(WireBlocks)
  <2>1. \A k \in 1 .. Len(m.calls) : UseBlock(m.calls[k]) \in WireBlocks
    <3>1. \A k \in 1 .. Len(m.calls) : m.calls[k] \in Nat
      BY <1>1
    <3> QED
      BY <3>1 DEF UseBlock, WireBlocks
  <2>2. DOMAIN m.calls = 1 .. Len(m.calls) /\ Len(m.calls) \in Nat
    BY <1>1
  <2> QED
    BY <2>1, <2>2 DEF UseBlocks
<1>5. TextBlocks(m.text) \o UseBlocks(m) \in Seq(WireBlocks)
  BY <1>3, <1>4
<1>6. SaidBy(m) = IF m.role = "system" THEN << >>
                  ELSE IF m.role = "tool" THEN <<ResultBlock(m)>>
                  ELSE TextBlocks(m.text) \o UseBlocks(m)
  BY DEF SaidBy, OpenAIEntry, WireEntry
<1> QED
  BY <1>2, <1>5, <1>6

LEMMA TalkGrows ==
  ASSUME NEW ms \in Seq(WireMessages), NEW m \in WireMessages
  PROVE  /\ SaidInTalk(ms) \in Seq(WireBlocks)
         /\ SaidInTalk(Append(ms, m)) = SaidInTalk(ms) \o SaidBy(m)
<1> DEFINE n == Len(ms)
           r == Append(ms, m)
           s == [k \in 1 .. n |-> SaidBy(ms[k])]
           t == [k \in 1 .. n + 1 |-> SaidBy(r[k])]
<1>1. n \in Nat /\ DOMAIN ms = 1 .. n /\ \A k \in 1 .. n : ms[k] \in WireMessages
  OBVIOUS
<1>2. /\ Len(r) = n + 1 /\ r \in Seq(WireMessages)
      /\ (\A j \in 1 .. n : r[j] = ms[j]) /\ r[n + 1] = m
  BY AppendIs
<1>3. DOMAIN r = 1 .. n + 1
  BY <1>1, <1>2
<1>4. SaidInTalk(ms) = FlattenSeq(s) /\ SaidInTalk(r) = FlattenSeq(t)
  <2> HIDE DEF r, n
  <2> QED
    BY <1>1, <1>3 DEF SaidInTalk, SaidBy
<1>5. s \in Seq(Seq(WireBlocks)) /\ Len(s) = n
  BY <1>1, SaidTyped
<1>6. SaidBy(m) \in Seq(WireBlocks)
  BY SaidTyped
<1>7. t = Append(s, SaidBy(m))
  <2> DEFINE u == Append(s, SaidBy(m))
  <2> HIDE DEF r, n
  <2>1. \A k \in 1 .. n : s[k] = SaidBy(ms[k])
    OBVIOUS
  <2>2. t \in Seq(Seq(WireBlocks)) /\ Len(t) = n + 1
    <3>1. \A k \in 1 .. n + 1 : r[k] \in WireMessages
      BY <1>1, <1>2
    <3>2. \A k \in 1 .. n + 1 : SaidBy(r[k]) \in Seq(WireBlocks)
      BY <3>1, SaidTyped
    <3>3. n + 1 \in Nat
      BY <1>1
    <3> QED
      BY <3>2, <3>3
  <2>3. /\ u \in Seq(Seq(WireBlocks)) /\ Len(u) = n + 1
        /\ (\A j \in 1 .. n : u[j] = s[j]) /\ u[n + 1] = SaidBy(m)
    <3> HIDE DEF s
    <3> QED
      BY <1>5, <1>6, AppendIs
  <2> HIDE DEF u, s
  <2>4. ASSUME NEW k \in 1 .. n + 1 PROVE t[k] = u[k]
    <3>1. t[k] = SaidBy(r[k]) /\ (k \in 1 .. n \/ k = n + 1)
      BY <1>1
    <3> HIDE DEF t
    <3> QED
      BY <1>2, <2>1, <2>3, <3>1
  <2> HIDE DEF t
  <2>5. t = u
    BY <2>2, <2>3, <2>4, SeqEqual
  <2> QED
    BY <2>5 DEF u
<1> HIDE DEF s, t
<1>8. /\ FlattenSeq(s) \in Seq(WireBlocks)
      /\ FlattenSeq(Append(s, SaidBy(m))) = FlattenSeq(s) \o SaidBy(m)
  BY <1>5, <1>6, FlattenGrows
<1> QED
  BY <1>4, <1>7, <1>8

LEMMA BodyGrows ==
  ASSUME NEW es \in Seq(WireEntries), NEW e \in WireEntries
  PROVE  /\ BlocksOf(es) \in Seq(Seq(WireBlocks)) /\ Len(BlocksOf(es)) = Len(es)
         /\ BlocksOf(Append(es, e)) = Append(BlocksOf(es), e.blocks)
         /\ FlattenSeq(BlocksOf(es)) \in Seq(WireBlocks)
         /\ FlattenSeq(BlocksOf(Append(es, e))) = FlattenSeq(BlocksOf(es)) \o e.blocks
<1> DEFINE n == Len(es)
           r == Append(es, e)
           s == BlocksOf(es)
           t == BlocksOf(r)
           u == Append(s, e.blocks)
<1>1. n \in Nat /\ DOMAIN es = 1 .. n /\ \A k \in 1 .. n : es[k] \in WireEntries
  OBVIOUS
<1>2. /\ Len(r) = n + 1 /\ r \in Seq(WireEntries)
      /\ (\A j \in 1 .. n : r[j] = es[j]) /\ r[n + 1] = e
  BY AppendIs
<1>3. DOMAIN r = 1 .. n + 1
  BY <1>1, <1>2
<1>4. \A x \in WireEntries : x.blocks \in Seq(WireBlocks)
  BY DEF WireEntries
<1>5. /\ s \in Seq(Seq(WireBlocks)) /\ Len(s) = n
      /\ \A k \in 1 .. n : s[k] = es[k].blocks
  BY <1>1, <1>4 DEF BlocksOf
<1>6. /\ t \in Seq(Seq(WireBlocks)) /\ Len(t) = n + 1
      /\ \A k \in 1 .. n + 1 : t[k] = r[k].blocks
  <2> HIDE DEF r, n
  <2>1. \A k \in 1 .. n + 1 : r[k].blocks \in Seq(WireBlocks)
    BY <1>1, <1>2, <1>4
  <2>2. n + 1 \in Nat
    BY <1>1
  <2> QED
    BY <1>3, <2>1, <2>2 DEF BlocksOf
<1>7. e.blocks \in Seq(WireBlocks)
  BY <1>4
<1> HIDE DEF r, n, s, t
<1>8. /\ u \in Seq(Seq(WireBlocks)) /\ Len(u) = n + 1
      /\ (\A j \in 1 .. n : u[j] = s[j]) /\ u[n + 1] = e.blocks
  BY <1>5, <1>7, AppendIs
<1> HIDE DEF u
<1>9. ASSUME NEW k \in 1 .. n + 1 PROVE t[k] = u[k]
  <2>1. k \in 1 .. n \/ k = n + 1
    BY <1>1
  <2> QED
    BY <1>2, <1>5, <1>6, <1>8, <2>1
<1>10. t = u
  BY <1>6, <1>8, <1>9, SeqEqual
<1>11. FlattenSeq(s) \in Seq(WireBlocks)
       /\ FlattenSeq(Append(s, e.blocks)) = FlattenSeq(s) \o e.blocks
  BY <1>5, <1>7, FlattenGrows
<1> QED
  BY <1>5, <1>10, <1>11 DEF r, n, s, t, u

LEMMA ConcatOne ==
  ASSUME NEW S, NEW a \in Seq(S), NEW b \in Seq(S), NEW x \in S
  PROVE  a \o Append(b, x) = (a \o b) \o <<x>>
<1>1. Append(b, x) = b \o <<x>> /\ <<x>> \in Seq(S)
  BY AppendIsConcat
<1>2. a \o (b \o <<x>>) = (a \o b) \o <<x>>
  BY <1>1, ConcatAssociative
<1> QED
  BY <1>1, <1>2

\* The last entry with one block more.
Joined(r, es, n, b) == r = [es EXCEPT ![n].blocks = Append(@, b)]
Lengthened(r, es, n, b) ==
    /\ r \in Seq(WireEntries) /\ Len(r) = n
    /\ \A k \in 1 .. n - 1 : r[k] = es[k]
    /\ r[n].role = es[n].role /\ r[n].blocks = Append(es[n].blocks, b)

LEMMA BodyJoins ==
  ASSUME NEW es \in Seq(WireEntries), NEW n \in Nat \ {0}, Len(es) = n, NEW b \in WireBlocks,
         NEW r, Joined(r, es, n, b)
  PROVE  /\ r \in Seq(WireEntries)
         /\ Lengthened(r, es, n, b)
         /\ FlattenSeq(BlocksOf(r)) = FlattenSeq(BlocksOf(es)) \o <<b>>
<1>1. DOMAIN es = 1 .. n /\ n \in 1 .. n /\ \A k \in 1 .. n : es[k] \in WireEntries
  OBVIOUS
<1> DEFINE l == es[n]
           q == [role |-> l.role, blocks |-> Append(l.blocks, b)]
           p == SubSeq(es, 1, n - 1)
<1>2. /\ l \in WireEntries /\ l.role \in {"user", "assistant"} /\ l.blocks \in Seq(WireBlocks)
      /\ l = [role |-> l.role, blocks |-> l.blocks]
  BY <1>1 DEF WireEntries
<1>3. q \in WireEntries
  <2>1. Append(l.blocks, b) \in Seq(WireBlocks)
    BY <1>2, AppendProperties
  <2> QED
    BY <1>2, <2>1 DEF WireEntries
<1>4. r = [k \in 1 .. n |-> IF k = n THEN q ELSE es[k]]
  <2>1. ASSUME NEW e \in WireEntries, NEW bs \in Seq(WireBlocks)
        PROVE  [e EXCEPT !.blocks = bs] = [role |-> e.role, blocks |-> bs]
    BY DEF WireEntries
  <2>2. [l EXCEPT !.blocks = Append(@, b)] = q
    <3>1. Append(l.blocks, b) \in Seq(WireBlocks)
      BY <1>2, AppendProperties
    <3> HIDE DEF l
    <3> QED
      BY <1>2, <2>1, <3>1
  <2> QED
    BY <1>1, <2>2 DEF Joined
<1>5. /\ r \in Seq(WireEntries) /\ Len(r) = n /\ r[n] = q
      /\ \A k \in 1 .. n - 1 : r[k] = es[k]
  <2>1. \A k \in 1 .. n : (IF k = n THEN q ELSE es[k]) \in WireEntries
    BY <1>1, <1>3
  <2>2. n \in Nat /\ \A k \in 1 .. n - 1 : k \in 1 .. n /\ k # n
    OBVIOUS
  <2> HIDE DEF q, l
  <2>3. r \in Seq(WireEntries) /\ Len(r) = n
    <3>1. r \in [1 .. n -> WireEntries]
      BY <1>4, <2>1, Zenon
    <3> QED
      BY <2>2, <3>1
  <2>4. r[n] = q /\ \A k \in 1 .. n - 1 : r[k] = es[k]
    BY <1>1, <1>4, <2>2
  <2> QED
    BY <2>3, <2>4
<1>6. /\ p \in Seq(WireEntries) /\ Len(p) = n - 1
      /\ \A k \in 1 .. n - 1 : p[k] = es[k]
  BY <1>1
<1>7. n - 1 + 1 = n /\ \A k \in 1 .. n : k \in 1 .. n - 1 \/ k = n
  OBVIOUS
<1> HIDE DEF q, p
<1>8. ASSUME NEW x \in WireEntries
      PROVE  /\ Append(p, x) \in Seq(WireEntries) /\ Len(Append(p, x)) = n
             /\ (\A k \in 1 .. n - 1 : Append(p, x)[k] = p[k]) /\ Append(p, x)[n] = x
  BY <1>6, <1>7, AppendIs
<1>9. es = Append(p, l)
  <2> DEFINE u == Append(p, l)
  <2>1. /\ u \in Seq(WireEntries) /\ Len(u) = n
        /\ (\A k \in 1 .. n - 1 : u[k] = p[k]) /\ u[n] = es[n]
    BY <1>2, <1>8
  <2> HIDE DEF u
  <2>2. \A k \in 1 .. n : es[k] = u[k]
    BY <1>6, <1>7, <2>1
  <2>3. es = u
    BY <2>1, <2>2, SeqEqual
  <2> QED
    BY <2>3 DEF u
<1>10. r = Append(p, q)
  <2> DEFINE u == Append(p, q)
  <2>1. /\ u \in Seq(WireEntries) /\ Len(u) = n
        /\ (\A k \in 1 .. n - 1 : u[k] = p[k]) /\ u[n] = q
    BY <1>3, <1>8
  <2> HIDE DEF u
  <2>2. \A k \in 1 .. n : r[k] = u[k]
    BY <1>5, <1>6, <1>7, <2>1
  <2>3. r = u
    BY <1>5, <2>1, <2>2, SeqEqual
  <2> QED
    BY <2>3 DEF u
<1> DEFINE f == FlattenSeq(BlocksOf(p))
<1>11. f \in Seq(WireBlocks) /\ FlattenSeq(BlocksOf(Append(p, l))) = f \o l.blocks
  BY <1>2, <1>6, BodyGrows
<1>12. FlattenSeq(BlocksOf(Append(p, q))) = f \o q.blocks
  BY <1>3, <1>6, BodyGrows
<1>13. q.blocks = Append(l.blocks, b) /\ q.role = l.role
  BY DEF q
<1> HIDE DEF f, l
<1>14. f \o Append(l.blocks, b) = (f \o l.blocks) \o <<b>>
  BY <1>2, <1>11, ConcatOne
<1>15. FlattenSeq(BlocksOf(r)) = FlattenSeq(BlocksOf(es)) \o <<b>>
  BY <1>9, <1>10, <1>11, <1>12, <1>13, <1>14
<1> QED
  BY <1>5, <1>13, <1>15 DEF l, Lengthened

-----------------------------------------------------------------------------
\* An entry that gathers results, and one that results do not join.
Gathers(e) ==
    /\ e.role = "user" /\ e.blocks # << >>
    /\ \A j \in 1 .. Len(e.blocks) : e.blocks[j].type = "tool_result"
OpensEntry(e) ==
    \/ e.role = "assistant"
    \/ e.blocks # << >> /\ e.blocks[1].type = "text"

\* Every call is answered in the entry after its own, but for the pending
\* ones: those of the last entry, or of the one before it, where the last
\* gathers their results.
Answering(es, pending) ==
    \/ es = << >> /\ pending = << >>
    \/ \E n \in Nat \ {0} :
          /\ n = Len(es)
          /\ \A k \in 1 .. n - 2 : AnsweredInNext(es, k)
          /\ \/ /\ OpensEntry(es[n]) /\ UsesIn(es[n].blocks) = pending
                /\ n > 1 => AnsweredInNext(es, n - 1)
             \/ /\ Gathers(es[n]) /\ n > 1
                /\ UsesIn(es[n - 1].blocks) = SubjectsOf(es[n].blocks) \o pending

LEMMA GatheringUsesNone ==
  ASSUME NEW e \in WireEntries, Gathers(e)
  PROVE  UsesIn(e.blocks) = << >>
<1>1. e.blocks \in Seq(WireBlocks) /\ Len(e.blocks) \in 0 .. Len(e.blocks)
  BY DEF WireEntries
<1>2. \A j \in 1 .. Len(e.blocks) : e.blocks[j].type = "tool_use" <=> j > Len(e.blocks)
  BY <1>1 DEF Gathers
<1>3. UsesIn(e.blocks)
        = [j \in 1 .. Len(e.blocks) - Len(e.blocks) |-> e.blocks[Len(e.blocks) + j].is]
  BY <1>1, <1>2, UsesAre
<1>4. 1 .. Len(e.blocks) - Len(e.blocks) = {}
  BY <1>1
<1> QED
  BY <1>3, <1>4

LEMMA SaidUses ==
  ASSUME NEW m \in WireMessages
  PROVE  UsesIn(TextBlocks(m.text) \o UseBlocks(m)) = m.calls
<1> DEFINE t == TextBlocks(m.text)
           u == UseBlocks(m)
           bs == t \o u
           c == m.calls
<1>1. m.text \in Nat /\ c \in Seq(Nat)
  BY DEF WireMessages
<1>2. bs \in Seq(WireBlocks)
  BY SaidTyped
<1>3. /\ t \in Seq(WireBlocks) /\ Len(t) \in {0, 1}
      /\ \A j \in 1 .. Len(t) : t[j].type = "text"
  <2>1. TextBlock(m.text) \in WireBlocks /\ TextBlock(m.text).type = "text"
    BY <1>1 DEF TextBlock, WireBlocks
  <2> QED
    BY <2>1 DEF TextBlocks
<1>4. /\ u \in Seq(WireBlocks) /\ Len(u) = Len(c)
      /\ \A j \in 1 .. Len(c) : u[j].type = "tool_use" /\ u[j].is = c[j]
  <2>1. DOMAIN c = 1 .. Len(c) /\ Len(c) \in Nat
    BY <1>1
  <2>2. \A j \in 1 .. Len(c) : c[j] \in Nat
    BY <1>1
  <2>3. \A j \in 1 .. Len(c) : /\ UseBlock(c[j]) \in WireBlocks
                               /\ UseBlock(c[j]).type = "tool_use" /\ UseBlock(c[j]).is = c[j]
    BY <2>2 DEF UseBlock, WireBlocks
  <2>4. u = [j \in 1 .. Len(c) |-> UseBlock(c[j])]
    BY <2>1 DEF UseBlocks
  <2> HIDE DEF u, c
  <2> QED
    BY <2>1, <2>3, <2>4
<1>5. Len(c) \in Nat
  BY <1>1
<1> HIDE DEF t, u, c
<1>6. /\ Len(bs) = Len(t) + Len(c)
      /\ \A j \in 1 .. Len(bs) : bs[j] = IF j <= Len(t) THEN t[j] ELSE u[j - Len(t)]
  BY <1>3, <1>4, ConcatProperties
<1> HIDE DEF bs
<1>7. \A j \in 1 .. Len(bs) : bs[j].type = "tool_use" <=> j > Len(t)
  <2> SUFFICES ASSUME NEW j \in 1 .. Len(bs) PROVE bs[j].type = "tool_use" <=> j > Len(t)
    OBVIOUS
  <2>1. CASE j <= Len(t)
    <3>1. j \in 1 .. Len(t) /\ bs[j] = t[j] /\ ~ (j > Len(t))
      BY <1>3, <1>6, <2>1
    <3> QED
      BY <1>3, <3>1
  <2>2. CASE j > Len(t)
    <3>1. j - Len(t) \in 1 .. Len(c) /\ bs[j] = u[j - Len(t)]
      BY <1>3, <1>5, <1>6, <2>2
    <3> QED
      BY <1>4, <2>2, <3>1
  <2> QED
    BY <1>3, <2>1, <2>2
<1>8. UsesIn(bs) = [j \in 1 .. Len(bs) - Len(t) |-> bs[Len(t) + j].is]
  <2>1. Len(t) \in 0 .. Len(bs)
    BY <1>3, <1>5, <1>6
  <2> QED
    BY <1>2, <1>7, <2>1, UsesAre
<1>9. Len(bs) - Len(t) = Len(c)
  BY <1>3, <1>5, <1>6
<1>10. \A j \in 1 .. Len(c) : bs[Len(t) + j].is = c[j]
  <2> SUFFICES ASSUME NEW j \in 1 .. Len(c) PROVE bs[Len(t) + j].is = c[j]
    OBVIOUS
  <2>1. Len(t) + j \in 1 .. Len(bs) /\ ~ (Len(t) + j <= Len(t)) /\ Len(t) + j - Len(t) = j
    BY <1>3, <1>5, <1>6
  <2>2. bs[Len(t) + j] = u[j]
    BY <1>6, <2>1
  <2> QED
    BY <1>4, <2>2
<1>11. c = [j \in 1 .. Len(c) |-> c[j]]
  BY <1>1 DEF c
<1>12. UsesIn(bs) = c
  BY <1>8, <1>9, <1>10, <1>11
<1> QED
  BY <1>12 DEF bs, t, u, c

LEMMA AllAnswered ==
  ASSUME NEW es \in Seq(WireEntries), Answering(es, << >>)
  PROVE  \A k \in 1 .. Len(es) : AnsweredInNext(es, k)
<1>1. CASE es = << >>
  BY <1>1
<1>2. CASE es # << >>
  <2>1. PICK n \in Nat \ {0} :
          /\ n = Len(es)
          /\ \A k \in 1 .. n - 2 : AnsweredInNext(es, k)
          /\ \/ /\ OpensEntry(es[n]) /\ UsesIn(es[n].blocks) = << >>
                /\ n > 1 => AnsweredInNext(es, n - 1)
             \/ /\ Gathers(es[n]) /\ n > 1
                /\ UsesIn(es[n - 1].blocks) = SubjectsOf(es[n].blocks) \o << >>
    BY <1>2 DEF Answering
  <2>2. es[n] \in WireEntries
    BY <2>1
  <2>3. UsesIn(es[n].blocks) = << >>
    BY <2>1, <2>2, GatheringUsesNone
  <2>4. AnsweredInNext(es, n)
    BY <2>3 DEF AnsweredInNext
  <2>5. n > 1 => AnsweredInNext(es, n - 1)
    <3>1. SUFFICES ASSUME Gathers(es[n]), n > 1,
                          UsesIn(es[n - 1].blocks) = SubjectsOf(es[n].blocks) \o << >>
                   PROVE  AnsweredInNext(es, n - 1)
      BY <2>1
    <3>2. SubjectsOf(es[n].blocks) \in Seq(Nat)
      <4>1. es[n].blocks \in Seq(WireBlocks)
        BY <2>2 DEF WireEntries
      <4>2. \A b \in WireBlocks : b.is \in Nat
        BY DEF WireBlocks
      <4> QED
        BY <4>1, <4>2 DEF SubjectsOf
    <3>3. UsesIn(es[n - 1].blocks) = SubjectsOf(es[n].blocks)
      BY <3>1, <3>2
    <3>4. n - 1 < Len(es) /\ n - 1 + 1 = n
      BY <2>1
    <3> QED
      BY <3>3, <3>4 DEF AnsweredInNext
  <2>6. \A k \in 1 .. n : k \in 1 .. n - 2 \/ (k = n - 1 /\ n > 1) \/ k = n
    OBVIOUS
  <2> QED
    BY <2>1, <2>4, <2>5, <2>6
<1> QED
  BY <1>1, <1>2

LEMMA StillAnswered ==
  ASSUME NEW es, NEW r, NEW p \in Nat, p <= Len(r), Len(r) \in Nat,
         \A j \in 1 .. p : r[j] = es[j],
         NEW k \in 1 .. p - 1, AnsweredInNext(es, k)
  PROVE  AnsweredInNext(r, k)
<1>1. k \in 1 .. p /\ k + 1 \in 1 .. p /\ k < Len(r)
  OBVIOUS
<1>2. r[k] = es[k] /\ r[k + 1] = es[k + 1]
  BY <1>1
<1> QED
  BY <1>1, <1>2 DEF AnsweredInNext

\* An answer, an instruction or an input.
LEMMA OpensNext ==
  ASSUME NEW es \in Seq(WireEntries), Answering(es, << >>),
         NEW e \in WireEntries, OpensEntry(e)
  PROVE  Answering(Append(es, e), UsesIn(e.blocks))
<1> DEFINE r == Append(es, e)
           n == Len(es)
<1>1. n \in Nat /\ n + 1 \in Nat \ {0} /\ \A k \in 1 .. n : AnsweredInNext(es, k)
  BY AllAnswered
<1>2. Len(r) = n + 1 /\ (\A j \in 1 .. n : r[j] = es[j]) /\ r[n + 1] = e
  BY AppendIs
<1> HIDE DEF r
<1>3. ASSUME NEW k \in 1 .. n PROVE AnsweredInNext(r, k)
  <2>1. AnsweredInNext(es, k)
    BY <1>1
  <2>2. CASE k < n
    <3>1. k \in 1 .. n - 1 /\ n <= Len(r) /\ Len(r) \in Nat
      BY <1>1, <1>2, <2>2
    <3> HIDE DEF n
    <3> QED
      BY <1>1, <1>2, <2>1, <3>1, StillAnswered
  <2>3. CASE k = n
    <3>1. r[k] = es[k] /\ ~ (k < Len(es))
      BY <1>1, <1>2, <2>3
    <3>2. UsesIn(es[k].blocks) = << >>
      BY <2>1, <3>1 DEF AnsweredInNext
    <3> QED
      BY <3>1, <3>2 DEF AnsweredInNext
  <2> QED
    BY <1>1, <2>2, <2>3
<1>4. /\ \A k \in 1 .. n + 1 - 2 : AnsweredInNext(r, k)
      /\ n + 1 > 1 => AnsweredInNext(r, n + 1 - 1)
  <2>1. \A k \in 1 .. n + 1 - 2 : k \in 1 .. n
    BY <1>1
  <2>2. n + 1 - 1 = n /\ (n + 1 > 1 => n \in 1 .. n)
    BY <1>1
  <2> QED
    BY <1>3, <2>1, <2>2
<1> HIDE DEF n
<1> QED
  BY <1>1, <1>2, <1>4 DEF Answering, r

LEMMA SubjectsGrow ==
  ASSUME NEW bs \in Seq(WireBlocks), NEW b \in WireBlocks
  PROVE  /\ SubjectsOf(bs) \in Seq(Nat)
         /\ SubjectsOf(Append(bs, b)) = Append(SubjectsOf(bs), b.is)
<1> DEFINE n == Len(bs)
           r == Append(bs, b)
           s == SubjectsOf(bs)
           t == SubjectsOf(r)
           u == Append(s, b.is)
<1>1. \A x \in WireBlocks : x.is \in Nat
  BY DEF WireBlocks
<1>2. n \in Nat /\ DOMAIN bs = 1 .. n /\ \A k \in 1 .. n : bs[k] \in WireBlocks
  OBVIOUS
<1>3. /\ r \in Seq(WireBlocks) /\ Len(r) = n + 1 /\ DOMAIN r = 1 .. n + 1
      /\ (\A j \in 1 .. n : r[j] = bs[j]) /\ r[n + 1] = b
  <2>1. /\ r \in Seq(WireBlocks) /\ Len(r) = n + 1
        /\ (\A j \in 1 .. n : r[j] = bs[j]) /\ r[n + 1] = b
    BY AppendIs
  <2> HIDE DEF r, n
  <2> QED
    BY <2>1, LenProperties
<1> HIDE DEF r, n
<1>4. s \in Seq(Nat) /\ Len(s) = n /\ \A k \in 1 .. n : s[k] = bs[k].is
  BY <1>1, <1>2 DEF SubjectsOf
<1>5. \A k \in 1 .. n + 1 : r[k] \in WireBlocks /\ (k \in 1 .. n \/ k = n + 1)
  BY <1>2, <1>3
<1>6. t \in Seq(Nat) /\ Len(t) = n + 1 /\ \A k \in 1 .. n + 1 : t[k] = r[k].is
  <2>1. n + 1 \in Nat
    BY <1>2
  <2> QED
    BY <1>1, <1>3, <1>5, <2>1 DEF SubjectsOf
<1>7. b.is \in Nat
  BY <1>1
<1> HIDE DEF s, t
<1>8. /\ u \in Seq(Nat) /\ Len(u) = n + 1
      /\ (\A j \in 1 .. n : u[j] = s[j]) /\ u[n + 1] = b.is
  BY <1>4, <1>7, AppendIs
<1> HIDE DEF u
<1>9. \A k \in 1 .. n + 1 : t[k] = u[k]
  BY <1>3, <1>4, <1>5, <1>6, <1>8
<1>10. t = u
  BY <1>6, <1>8, <1>9, SeqEqual
<1> QED
  BY <1>4, <1>10 DEF r, s, t, u

LEMMA FirstMoves ==
  ASSUME NEW s \in Seq(Nat), NEW h \in Nat, NEW t \in Seq(Nat)
  PROVE  Append(s, h) \o t = s \o (<<h>> \o t)
<1>1. Append(s, h) = s \o <<h>>
  BY AppendIsConcat
<1>2. <<h>> \in Seq(Nat)
  OBVIOUS
<1>3. (s \o <<h>>) \o t = s \o (<<h>> \o t)
  BY <1>2, ConcatAssociative
<1> QED
  BY <1>1, <1>3

\* A result in an entry of its own, and one that joins those before it.
LEMMA ResultStarts ==
  ASSUME NEW es \in Seq(WireEntries), NEW pending \in Seq(Nat), pending # << >>,
         Answering(es, pending), NEW n, n = Len(es), n # 0 => ~ Gathers(es[n]),
         NEW b \in WireBlocks, b.type = "tool_result", b.is = Head(pending)
  PROVE  Answering(Append(es, WireEntry("user", <<b>>)), Tail(pending))
<1> DEFINE e == WireEntry("user", <<b>>)
           r == Append(es, e)
<1>1. /\ n \in Nat \ {0}
      /\ \A k \in 1 .. n - 2 : AnsweredInNext(es, k)
      /\ UsesIn(es[n].blocks) = pending
      /\ n > 1 => AnsweredInNext(es, n - 1)
  BY DEF Answering
<1>2. e \in WireEntries /\ e.role = "user" /\ e.blocks = <<b>>
  BY DEF WireEntry, WireEntries
<1>3. Len(r) = n + 1 /\ (\A j \in 1 .. n : r[j] = es[j]) /\ r[n + 1] = e
  BY <1>2, AppendIs
<1>4. Gathers(e)
  <2> HIDE DEF e, r
  <2>1. <<b>> # << >> /\ Len(<<b>>) = 1 /\ <<b>>[1] = b
    OBVIOUS
  <2> QED
    BY <1>2, <2>1 DEF Gathers
<1>5. SubjectsOf(e.blocks) \o Tail(pending) = pending
  <2>1. SubjectsOf(<<b>>) = <<b.is>>
    BY DEF SubjectsOf
  <2>2. <<Head(pending)>> \o Tail(pending) = pending
    OBVIOUS
  <2> QED
    BY <1>2, <2>1, <2>2
<1> HIDE DEF r, e
<1>6. \A k \in 1 .. n + 1 - 2 : AnsweredInNext(r, k)
  <2> SUFFICES ASSUME NEW k \in 1 .. n - 1 PROVE AnsweredInNext(r, k)
    BY <1>1
  <2>1. k \in 1 .. n - 2 \/ (k = n - 1 /\ n > 1)
    BY <1>1
  <2>2. AnsweredInNext(es, k)
    BY <1>1, <2>1
  <2>3. n \in Nat /\ n <= Len(r) /\ Len(r) \in Nat
    BY <1>1, <1>3
  <2> QED
    BY <1>3, <2>2, <2>3, StillAnswered
<1>7. r[n + 1 - 1] = es[n] /\ n + 1 > 1 /\ n + 1 \in Nat \ {0}
  BY <1>1, <1>3
<1>8. UsesIn(r[n + 1 - 1].blocks) = SubjectsOf(r[n + 1].blocks) \o Tail(pending)
  BY <1>1, <1>3, <1>5, <1>7
<1>9. Answering(r, Tail(pending))
  <2>1. PICK p : p = n + 1
    OBVIOUS
  <2>2. /\ p \in Nat \ {0} /\ p = Len(r) /\ p > 1
        /\ \A k \in 1 .. p - 2 : AnsweredInNext(r, k)
        /\ Gathers(r[p])
        /\ UsesIn(r[p - 1].blocks) = SubjectsOf(r[p].blocks) \o Tail(pending)
    <3>1. p \in Nat \ {0} /\ p = Len(r) /\ p > 1
      BY <1>3, <1>7, <2>1
    <3>2. \A k \in 1 .. p - 2 : AnsweredInNext(r, k)
      BY <1>6, <2>1
    <3>3. Gathers(r[p])
      BY <1>3, <1>4, <2>1
    <3>4. UsesIn(r[p - 1].blocks) = SubjectsOf(r[p].blocks) \o Tail(pending)
      BY <1>8, <2>1
    <3> QED
      BY <3>1, <3>2, <3>3, <3>4
  <2> QED
    BY <2>2 DEF Answering
<1> QED
  BY <1>9 DEF r, e

LEMMA ResultJoins ==
  ASSUME NEW es \in Seq(WireEntries), NEW pending \in Seq(Nat), pending # << >>,
         Answering(es, pending), NEW n \in Nat \ {0}, n = Len(es), Gathers(es[n]),
         NEW b \in WireBlocks, b.type = "tool_result", b.is = Head(pending),
         NEW r, Lengthened(r, es, n, b)
  PROVE  Answering(r, Tail(pending))
<1>0. /\ r \in Seq(WireEntries) /\ Len(r) = n
      /\ (\A k \in 1 .. n - 1 : r[k] = es[k])
      /\ r[n].role = es[n].role /\ r[n].blocks = Append(es[n].blocks, b)
  BY DEF Lengthened
<1>1. es[n] \in WireEntries /\ es[n].blocks \in Seq(WireBlocks)
  <2>1. es[n] \in WireEntries
    OBVIOUS
  <2> QED
    BY <2>1 DEF WireEntries
<1>2. ~ OpensEntry(es[n])
  <2>1. 1 \in 1 .. Len(es[n].blocks)
    BY <1>1 DEF Gathers
  <2>2. es[n].blocks[1].type = "tool_result" /\ es[n].role = "user"
    BY <2>1 DEF Gathers
  <2> QED
    BY <2>2 DEF OpensEntry
<1>3. /\ \A k \in 1 .. n - 2 : AnsweredInNext(es, k)
      /\ n > 1
      /\ UsesIn(es[n - 1].blocks) = SubjectsOf(es[n].blocks) \o pending
  BY <1>2 DEF Answering
<1> DEFINE s == SubjectsOf(es[n].blocks)
<1>4. s \in Seq(Nat) /\ SubjectsOf(r[n].blocks) = Append(s, b.is)
  BY <1>0, <1>1, SubjectsGrow
<1>5. Append(s, Head(pending)) \o Tail(pending) = s \o pending
  <2> DEFINE h == Head(pending)
             t == Tail(pending)
  <2>1. h \in Nat /\ t \in Seq(Nat) /\ <<h>> \o t = pending
    OBVIOUS
  <2> HIDE DEF s, h, t
  <2>4. Append(s, h) \o t = s \o pending
    <3>1. Append(s, h) \o t = s \o (<<h>> \o t)
      BY <1>4, <2>1, FirstMoves
    <3> QED
      BY <2>1, <3>1
  <2> QED
    BY <2>4 DEF h, t
<1>6. Gathers(r[n])
  <2> DEFINE bs == es[n].blocks
  <2>0. bs \in Seq(WireBlocks)
    BY <1>1
  <2>3. \A j \in 1 .. Len(bs) : bs[j].type = "tool_result"
    BY DEF Gathers
  <2>4. r[n].role = "user" /\ r[n].blocks = Append(bs, b)
    BY <1>0 DEF Gathers
  <2> HIDE DEF bs
  <2>1. /\ Append(bs, b) # << >> /\ Len(Append(bs, b)) = Len(bs) + 1 /\ Len(bs) \in Nat
        /\ (\A j \in 1 .. Len(bs) : Append(bs, b)[j] = bs[j])
        /\ Append(bs, b)[Len(bs) + 1] = b
    BY <2>0, AppendProperties, AppendIs
  <2>2. \A j \in 1 .. Len(bs) + 1 : j \in 1 .. Len(bs) \/ j = Len(bs) + 1
    BY <2>1
  <2> QED
    BY <2>1, <2>2, <2>3, <2>4 DEF Gathers
<1>7. \A k \in 1 .. n - 2 : AnsweredInNext(r, k)
  <2> SUFFICES ASSUME NEW k \in 1 .. n - 2 PROVE AnsweredInNext(r, k)
    OBVIOUS
  <2>1. n - 1 \in Nat /\ n - 1 <= Len(r) /\ Len(r) \in Nat /\ k \in 1 .. (n - 1) - 1
        /\ \A j \in 1 .. n - 1 : r[j] = es[j]
    BY <1>0
  <2>2. AnsweredInNext(es, k)
    BY <1>3
  <2> QED
    BY <2>1, <2>2, StillAnswered
<1>8. r[n - 1] = es[n - 1]
  BY <1>0, <1>3
<1>9. UsesIn(r[n - 1].blocks) = SubjectsOf(r[n].blocks) \o Tail(pending)
  BY <1>3, <1>4, <1>5, <1>8
<1> QED
  BY <1>0, <1>3, <1>6, <1>7, <1>9 DEF Answering

\* What is said is kept, and the answering goes on, with one message more.
LEMMA StepSays ==
  ASSUME NEW es \in Seq(WireEntries), NEW m \in WireMessages
  PROVE  /\ AnthropicStep(es, m) \in Seq(WireEntries)
         /\ FlattenSeq(BlocksOf(AnthropicStep(es, m))) = FlattenSeq(BlocksOf(es)) \o SaidBy(m)
<1> DEFINE r == AnthropicStep(es, m)
           role == IF m.role = "tool" THEN "user" ELSE m.role
           blocks == IF m.role = "tool" THEN <<ResultBlock(m)>>
                     ELSE TextBlocks(m.text) \o UseBlocks(m)
<1>1. /\ ResultBlock(m) \in WireBlocks
      /\ m.role # "system" => SaidBy(m) = blocks
      /\ m.role = "tool" => SaidBy(m) = <<ResultBlock(m)>>
      /\ m.role = "system" => SaidBy(m) = << >>
      /\ SaidBy(m) \in Seq(WireBlocks)
  BY SaidTyped
<1>2. m.role \in {"system", "user", "assistant", "tool"}
  BY DEF WireMessages
<1> HIDE DEF blocks
<1>3. CASE m.role = "system"
  <2>1. r = es
    BY <1>3 DEF AnthropicStep
  <2>2. PICK e : e \in WireEntries
    <3>1. [role |-> "user", blocks |-> SaidBy(m)] \in WireEntries
      BY <1>1 DEF WireEntries
    <3> QED
      BY <3>1
  <2>3. FlattenSeq(BlocksOf(es)) \in Seq(WireBlocks)
    BY <2>2, BodyGrows
  <2>4. FlattenSeq(BlocksOf(es)) \o << >> = FlattenSeq(BlocksOf(es))
    BY <2>3
  <2> QED
    BY <1>1, <1>3, <2>1, <2>4
<1>4. CASE m.role # "system" /\ Joins(es, m)
  <2>1. PICK n \in Nat \ {0} : n = Len(es)
    BY <1>4 DEF Joins
  <2>2. Joined(r, es, n, ResultBlock(m)) /\ m.role = "tool"
    BY <1>4, <2>1 DEF AnthropicStep, Joins, Joined
  <2> HIDE DEF r
  <2>3. r \in Seq(WireEntries)
        /\ FlattenSeq(BlocksOf(r)) = FlattenSeq(BlocksOf(es)) \o <<ResultBlock(m)>>
    BY <1>1, <2>1, <2>2, BodyJoins
  <2> QED
    BY <1>1, <2>2, <2>3 DEF r
<1>5. CASE m.role # "system" /\ ~ Joins(es, m)
  <2>1. r = Append(es, WireEntry(role, blocks))
    BY <1>5 DEF AnthropicStep, blocks
  <2>2. WireEntry(role, blocks) \in WireEntries /\ WireEntry(role, blocks).blocks = blocks
    BY <1>1, <1>2, <1>5 DEF WireEntry, WireEntries
  <2> HIDE DEF r, role
  <2>3. FlattenSeq(BlocksOf(r)) = FlattenSeq(BlocksOf(es)) \o blocks
    BY <2>1, <2>2, BodyGrows
  <2>4. r \in Seq(WireEntries)
    BY <2>1, <2>2, AppendProperties
  <2> QED
    BY <1>1, <1>5, <2>3, <2>4 DEF r
<1> QED
  BY <1>3, <1>4, <1>5

LEMMA SaysNoResult ==
  ASSUME NEW es \in Seq(WireEntries), Answering(es, << >>), NEW m \in WireMessages,
         m.role # "tool", m.role # "assistant" => m.text # 0 /\ m.calls = << >>
  PROVE  Answering(AnthropicStep(es, m), IF m.role = "system" THEN << >> ELSE m.calls)
<1>1. CASE m.role = "system"
  BY <1>1 DEF AnthropicStep
<1>2. CASE m.role # "system"
  <2> DEFINE bs == TextBlocks(m.text) \o UseBlocks(m)
             e == WireEntry(m.role, bs)
  <2>1. AnthropicStep(es, m) = Append(es, e)
    BY <1>2 DEF AnthropicStep, Joins
  <2>2. bs \in Seq(WireBlocks) /\ UsesIn(bs) = m.calls
    BY SaidTyped, SaidUses
  <2>3. m.role \in {"user", "assistant"}
    BY <1>2 DEF WireMessages
  <2>4. m.role = "user" => bs # << >> /\ bs[1].type = "text"
    <3> SUFFICES ASSUME m.role = "user" PROVE bs # << >> /\ bs[1].type = "text"
      OBVIOUS
    <3>1. m.text # 0 /\ m.calls = << >>
      OBVIOUS
    <3>2. TextBlocks(m.text) = <<TextBlock(m.text)>> /\ UseBlocks(m) = << >>
      BY <3>1 DEF TextBlocks, UseBlocks
    <3>3. bs = <<TextBlock(m.text)>>
      BY <3>2
    <3>4. TextBlock(m.text).type = "text"
      BY DEF TextBlock
    <3> HIDE DEF bs
    <3> QED
      BY <3>3, <3>4
  <2> HIDE DEF bs
  <2>5. e \in WireEntries /\ OpensEntry(e) /\ e.blocks = bs
    BY <2>2, <2>3, <2>4 DEF WireEntry, WireEntries, OpensEntry
  <2> HIDE DEF e
  <2>6. Answering(Append(es, e), m.calls)
    BY <2>2, <2>5, OpensNext
  <2> QED
    BY <1>2, <2>1, <2>6
<1> QED
  BY <1>1, <1>2

LEMMA SaysResult ==
  ASSUME NEW es \in Seq(WireEntries), NEW pending \in Seq(Nat), pending # << >>,
         Answering(es, pending), NEW m \in WireMessages,
         m.role = "tool", m.answers = Head(pending)
  PROVE  Answering(AnthropicStep(es, m), Tail(pending))
<1> DEFINE b == ResultBlock(m)
           r == AnthropicStep(es, m)
<1>1. b \in WireBlocks /\ b.type = "tool_result" /\ b.is = Head(pending)
  <2>1. b \in WireBlocks
    BY SaidTyped
  <2> QED
    BY <2>1 DEF ResultBlock
<1>2. PICK n \in Nat \ {0} :
        /\ n = Len(es)
        /\ \/ OpensEntry(es[n])
           \/ Gathers(es[n])
  BY DEF Answering
<1>3. es[n] \in WireEntries /\ Last(es) = es[n] /\ es # << >>
  BY <1>2 DEF Last
<1>4. Gathers(es[n]) => Joins(es, m)
  <2> SUFFICES ASSUME Gathers(es[n]) PROVE Joins(es, m)
    OBVIOUS
  <2>1. 1 \in 1 .. Len(es[n].blocks)
    <3>1. es[n].blocks \in Seq(WireBlocks)
      BY <1>3 DEF WireEntries
    <3> QED
      BY <3>1 DEF Gathers
  <2> QED
    BY <1>3, <2>1 DEF Joins, Gathers
<1>5. OpensEntry(es[n]) => ~ Joins(es, m) /\ ~ Gathers(es[n])
  <2>1. OpensEntry(es[n]) => ~ Joins(es, m)
    BY <1>3 DEF Joins, OpensEntry
  <2> QED
    BY <1>4, <2>1
<1>6. CASE Gathers(es[n])
  <2>1. Joined(r, es, n, b)
    BY <1>2, <1>4, <1>6 DEF AnthropicStep, Joined
  <2> HIDE DEF r, b
  <2>2. Lengthened(r, es, n, b)
    BY <1>1, <1>2, <2>1, BodyJoins
  <2>3. Answering(r, Tail(pending))
    BY <1>1, <1>2, <1>6, <2>2, ResultJoins
  <2> QED
    BY <2>3 DEF r
<1>7. CASE ~ Gathers(es[n])
  <2>1. r = Append(es, WireEntry("user", <<b>>))
    BY <1>2, <1>5, <1>7 DEF AnthropicStep
  <2> HIDE DEF r, b
  <2>2. Answering(Append(es, WireEntry("user", <<b>>)), Tail(pending))
    BY <1>1, <1>2, <1>7, ResultStarts
  <2> QED
    BY <2>1, <2>2 DEF r
<1> QED
  BY <1>6, <1>7

-----------------------------------------------------------------------------
\* What is known of a conversation and of the body made of it, between steps.
WireInv ==
    /\ messages \in Seq(WireMessages) /\ open_calls \in Seq(Nat)
    /\ \E f : Builds(f, messages, Len(messages))
    /\ AnthropicEntries(messages) \in Seq(WireEntries)
    /\ FlattenSeq(BlocksOf(AnthropicEntries(messages))) = SaidInTalk(messages)
    /\ Answering(AnthropicEntries(messages), open_calls)
    /\ WireKeepsConversation

LEMMA WireInvInit == WireInit => WireInv
<1> SUFFICES ASSUME WireInit PROVE WireInv
  OBVIOUS
<1>1. messages = << >> /\ open_calls = << >> /\ body.provider # "anthropic"
  BY DEF WireInit
<1>2. AnthropicEntries(<< >>) = << >> /\ \E f : Builds(f, << >>, Len(<< >>))
  BY EntriesStart
<1>3. BlocksOf(<< >>) = << >> /\ SaidInTalk(<< >>) = << >>
  BY FlattenNone DEF BlocksOf, SaidInTalk
<1>4. Answering(<< >>, << >>)
  BY DEF Answering
<1>5. WireKeepsConversation
  BY <1>1 DEF WireKeepsConversation, BodySays
<1> QED
  <2>1. messages \in Seq(WireMessages) /\ open_calls \in Seq(Nat)
    BY <1>1
  <2>2. AnthropicEntries(messages) = << >> /\ \E f : Builds(f, messages, Len(messages))
    BY <1>1, <1>2
  <2>3. FlattenSeq(BlocksOf(<< >>)) = SaidInTalk(messages) /\ << >> \in Seq(WireEntries)
    BY <1>1, <1>3, FlattenNone
  <2>4. Answering(<< >>, open_calls)
    BY <1>1, <1>4
  <2> QED
    BY <1>5, <2>1, <2>2, <2>3, <2>4 DEF WireInv

\* A message that joins the conversation.
LEMMA MessageJoins ==
  ASSUME WireInv, NEW m \in WireMessages, Grow(m), open_calls' \in Seq(Nat),
         Answering(AnthropicStep(AnthropicEntries(messages), m), open_calls')
  PROVE  WireInv'
<1> DEFINE es == AnthropicEntries(messages)
<1>1. messages' = Append(messages, m) /\ body' = body
  BY DEF Grow
<1>2. messages \in Seq(WireMessages) /\ es \in Seq(WireEntries)
  BY DEF WireInv
<1>3. messages' \in Seq(WireMessages)
  BY <1>1, <1>2, AppendProperties
<1>4. AnthropicEntries(messages') = AnthropicStep(es, m)
      /\ \E f : Builds(f, messages', Len(messages'))
  <2>1. \E f : Builds(f, messages, Len(messages))
    BY DEF WireInv
  <2> QED
    BY <1>1, <1>2, <2>1, EntriesGrow
<1>5. SaidInTalk(messages') = SaidInTalk(messages) \o SaidBy(m)
  BY <1>1, <1>2, TalkGrows
<1>6. FlattenSeq(BlocksOf(es)) = SaidInTalk(messages)
  BY DEF WireInv
<1> HIDE DEF es
<1>7. /\ AnthropicStep(es, m) \in Seq(WireEntries)
      /\ FlattenSeq(BlocksOf(AnthropicStep(es, m))) = FlattenSeq(BlocksOf(es)) \o SaidBy(m)
  BY <1>2, StepSays
<1>8. Answering(AnthropicEntries(messages'), open_calls')
  BY <1>4 DEF es
<1>9. WireKeepsConversation'
  BY <1>1 DEF WireInv, WireKeepsConversation, BodySays
<1> QED
  BY <1>3, <1>4, <1>5, <1>6, <1>7, <1>8, <1>9 DEF WireInv

LEMMA BuildKeeps == WireInv /\ Build => WireInv'
<1> SUFFICES ASSUME WireInv, Build PROVE WireInv'
  OBVIOUS
<1>1. messages' = messages /\ open_calls' = open_calls /\ open_calls = << >>
  BY DEF Build
<1> DEFINE es == AnthropicEntries(messages)
<1>2. WireKeepsConversation'
  <2>1. CASE BuildAnthropicBody
    <3>1. body'.of = messages /\ body'.entries = es
      BY <2>1 DEF BuildAnthropicBody
    <3>2. es \in Seq(WireEntries) /\ FlattenSeq(BlocksOf(es)) = SaidInTalk(messages)
          /\ Answering(es, << >>)
      BY <1>1 DEF WireInv
    <3> HIDE DEF es
    <3>3. DOMAIN es = 1 .. Len(es)
      BY <3>2
    <3>4. \A k \in DOMAIN body'.entries : AnsweredInNext(body'.entries, k)
      BY <3>1, <3>2, <3>3, AllAnswered
    <3>5. BodySays' = SaidInTalk(body'.of)
      BY <3>1, <3>2 DEF BodySays
    <3> QED
      BY <3>4, <3>5 DEF WireKeepsConversation
  <2>2. CASE BuildOpenAIBody \/ BuildRestBody
    <3>1. body'.provider # "anthropic"
      BY <2>2 DEF BuildOpenAIBody, BuildRestBody
    <3> QED
      BY <3>1 DEF WireKeepsConversation
  <2> QED
    BY <2>1, <2>2 DEF Build
<1> QED
  BY <1>1, <1>2 DEF WireInv

LEMMA WireInvStep == WireInv /\ [WireNext]_wireVars => WireInv'
<1> SUFFICES ASSUME WireInv, [WireNext]_wireVars PROVE WireInv'
  OBVIOUS
<1> DEFINE es == AnthropicEntries(messages)
<1>1. /\ messages \in Seq(WireMessages) /\ open_calls \in Seq(Nat)
      /\ es \in Seq(WireEntries) /\ Answering(es, open_calls)
  BY DEF WireInv
<1>2. NextText \in Nat \ {0}
  BY <1>1 DEF NextText
<1> HIDE DEF es
<1>3. ASSUME NEW role \in {"system", "user", "assistant"}, AddText(role) PROVE WireInv'
  <2> DEFINE m == WireMessage(role, NextText, << >>, 0)
  <2>1. /\ m \in WireMessages /\ m.role = role /\ m.text = NextText /\ m.calls = << >>
    BY <1>2 DEF WireMessage, WireMessages
  <2>2. open_calls = << >> /\ open_calls' = << >> /\ Grow(m)
    BY <1>3 DEF AddText
  <2> HIDE DEF m
  <2>3. Answering(AnthropicStep(es, m), IF m.role = "system" THEN << >> ELSE m.calls)
    BY <1>1, <1>2, <2>1, <2>2, SaysNoResult
  <2>4. Answering(AnthropicStep(es, m), open_calls')
    BY <2>1, <2>2, <2>3
  <2> QED
    BY <2>1, <2>2, <2>4, MessageJoins DEF es
<1>8. CASE AddSegments
  <2> DEFINE m == SegmentedMessage(NextText)
  <2>1. /\ m \in WireMessages /\ m.role = "system" /\ m.text = NextText /\ m.calls = << >>
    BY <1>2 DEF SegmentedMessage, WireMessages
  <2>2. open_calls = << >> /\ open_calls' = << >> /\ Grow(m)
    BY <1>8 DEF AddSegments
  <2> HIDE DEF m
  <2>3. Answering(AnthropicStep(es, m), IF m.role = "system" THEN << >> ELSE m.calls)
    BY <1>1, <1>2, <2>1, <2>2, SaysNoResult
  <2>4. Answering(AnthropicStep(es, m), open_calls')
    BY <2>1, <2>2, <2>3
  <2> QED
    BY <2>1, <2>2, <2>4, MessageJoins DEF es
<1>4. ASSUME NEW n \in 1 .. MaxWireCalls, NEW text \in {0, NextText}, AddCalls(n, text)
      PROVE  WireInv'
  <2> DEFINE ids == [k \in 1 .. n |-> 10 * NextText + k]
             m == WireMessage("assistant", text, ids, 0)
  <2>1. ids \in Seq(Nat)
    <3>1. \A k \in 1 .. n : 10 * NextText + k \in Nat
      BY <1>2
    <3>2. n \in Nat
      BY WireFormatAssumption
    <3> QED
      BY <3>1, <3>2
  <2>2. open_calls = << >> /\ open_calls' = ids /\ Grow(m)
    BY <1>4 DEF AddCalls
  <2> HIDE DEF ids
  <2>3. m \in WireMessages /\ m.role = "assistant" /\ m.calls = ids
    BY <1>2, <2>1 DEF WireMessage, WireMessages
  <2> HIDE DEF m
  <2>4. Answering(AnthropicStep(es, m), IF m.role = "system" THEN << >> ELSE m.calls)
    BY <1>1, <2>2, <2>3, SaysNoResult
  <2>5. Answering(AnthropicStep(es, m), open_calls')
    BY <2>2, <2>3, <2>4
  <2> QED
    BY <2>1, <2>2, <2>3, <2>5, MessageJoins DEF es
<1>5. CASE AddResult
  <2> DEFINE m == WireMessage("tool", NextText, << >>, Head(open_calls))
  <2>1. open_calls # << >> /\ open_calls' = Tail(open_calls) /\ Grow(m)
    BY <1>5 DEF AddResult
  <2>2. Head(open_calls) \in Nat /\ open_calls' \in Seq(Nat)
    BY <1>1, <2>1
  <2>3. m \in WireMessages /\ m.role = "tool" /\ m.answers = Head(open_calls)
    BY <1>2, <2>2 DEF WireMessage, WireMessages
  <2> HIDE DEF m
  <2>4. Answering(AnthropicStep(es, m), open_calls')
    BY <1>1, <2>1, <2>3, SaysResult
  <2> QED
    BY <2>1, <2>2, <2>3, <2>4, MessageJoins DEF es
<1>6. CASE Build
  BY <1>6, BuildKeeps
<1>7. CASE UNCHANGED wireVars
  BY <1>7 DEF wireVars, WireInv, WireKeepsConversation, BodySays
<1> QED
  BY <1>3, <1>4, <1>5, <1>6, <1>7, <1>8 DEF WireNext

(* Anthropic's format has no tool role; still, however long the            *)
(* conversation and however many calls its answers make, the entries that  *)
(* _build_request_body makes of it say all that the user, the model and    *)
(* the tools said, in its order, and every call is answered in the entry   *)
(* right after the one that makes it, by all the results of that entry's   *)
(* calls and by nothing else.  Of the system's texts it says nothing.      *)
THEOREM AnthropicKeepsConversation == WireSpec => []WireKeepsConversation
<1>1. WireInv => WireKeepsConversation
  BY DEF WireInv
<1> QED
  BY <1>1, WireInvInit, WireInvStep, PTL DEF WireSpec
=============================================================================
