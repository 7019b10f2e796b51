-------------------------- MODULE OrchestratorProofs --------------------------
(***************************************************************************)
(* Proofs about the orchestrator of one session, for every set of events,  *)
(* candidates and modes and any number of steps and abandon calls.         *)
(***************************************************************************)
EXTENDS OrchestratorProps, FiniteSetTheorems, TLAPS

-----------------------------------------------------------------------------
(* What the helpers return. *)

\* A transition leads to a row in the state asked for.
LEMMA MovedTyped ==
  \A s \in Session : \A to \in States :
    /\ Moved(s, to) \in Session
    /\ Moved(s, to).state = to
    /\ Moved(s, to).repairs = s.repairs
<1> SUFFICES ASSUME NEW s \in Session, NEW to \in States
             PROVE  /\ Moved(s, to) \in Session
                    /\ Moved(s, to).state = to
                    /\ Moved(s, to).repairs = s.repairs
  OBVIOUS
<1>1. [s EXCEPT !.state = to] \in Session
  BY DEF Session
<1>2. ASSUME NEW r \in Session, NEW v \in Nat
      PROVE  [r EXCEPT !.version = v] \in Session
  BY DEF Session
<1>3. Moved(s, to) = [[s EXCEPT !.state = to] EXCEPT !.version = s.version + 1]
  BY DEF Moved, Session
<1>4. s.version + 1 \in Nat
  BY DEF Session
<1>5. Moved(s, to) \in Session
  BY <1>1, <1>2, <1>3, <1>4
<1>6. Moved(s, to).state = to /\ Moved(s, to).repairs = s.repairs
  BY DEF Moved, Session
<1>7. QED
  BY <1>5, <1>6

\* It is no step further and one version on.
LEMMA MovedKeeps ==
  ASSUME NEW s \in Session, NEW to
  PROVE  /\ Moved(s, to).repairs = s.repairs
         /\ Moved(s, to).step = s.step
         /\ Moved(s, to).version = s.version + 1
BY DEF Moved, Session

\* Entering REPAIRING keeps the attempts within two.
LEMMA RepairingTyped ==
  \A s \in Session : \A n \in 0..2 :
    /\ Repairing(s, n) \in Session
    /\ Repairing(s, n).state = "repairing"
<1> SUFFICES ASSUME NEW s \in Session, NEW n \in 0..2
             PROVE  /\ Repairing(s, n) \in Session
                    /\ Repairing(s, n).state = "repairing"
  OBVIOUS
<1> DEFINE k == IF n >= 1 THEN 2 ELSE n + 1
<1>1. k \in 0..2
  OBVIOUS
<1>2. ASSUME NEW r \in Session
      PROVE  /\ [r EXCEPT !.repairs = k] \in Session
             /\ [r EXCEPT !.repairs = k].state = r.state
  BY <1>1 DEF Session
<1>3. Moved(s, "repairing") \in Session /\ Moved(s, "repairing").state = "repairing"
  BY MovedTyped DEF States
<1>4. Repairing(s, n) = [Moved(s, "repairing") EXCEPT !.repairs = k]
  BY DEF Repairing
<1>5. QED
  BY <1>2, <1>3, <1>4

\* It takes the routine no step further, and one attempt, or the last one again.
LEMMA RepairingKeeps ==
  ASSUME NEW s \in Session, NEW n
  PROVE  /\ Repairing(s, n).step = s.step
         /\ Repairing(s, n).repairs = IF n >= 1 THEN 2 ELSE n + 1
BY DEF Repairing, Moved, Session

\* Moving the step index or binding the browser keeps the row a row, in its state.
LEMMA SteppedTyped ==
  \A s \in Session : \A n \in Nat :
    /\ [s EXCEPT !.step = n] \in Session
    /\ [s EXCEPT !.step = n].state = s.state
    /\ [s EXCEPT !.step = n].repairs = s.repairs
    /\ [s EXCEPT !.step = n].step = n
BY DEF Session

LEMMA BoundTyped ==
  \A s \in Session : /\ [s EXCEPT !.bound = TRUE] \in Session
                     /\ [s EXCEPT !.bound = TRUE].state = s.state
                     /\ [s EXCEPT !.bound = TRUE].repairs = s.repairs
                     /\ [s EXCEPT !.bound = TRUE].step = s.step
BY DEF Session

LEMMA FieldsTyped ==
  \A s \in Session : /\ s.state \in States /\ s.version \in Nat
                     /\ s.step \in Nat /\ s.repairs \in 0..2
BY DEF Session

\* Starting and taking up background tasks keeps their counts natural numbers.
LEMMA SpawnTyped ==
  ASSUME tasks \in [TaskKinds -> Nat], NEW kind \in TaskKinds, Spawn(kind)
  PROVE  tasks' \in [TaskKinds -> Nat]
BY DEF Spawn

LEMMA SpawnCounts ==
  ASSUME tasks \in [TaskKinds -> Nat], NEW kind \in TaskKinds, Spawn(kind)
  PROVE  /\ tasks'[kind] > 0
         /\ \A k \in TaskKinds : tasks'[k] >= tasks[k]
BY DEF Spawn

LEMMA TakenTyped ==
  ASSUME NEW t \in [TaskKinds -> Nat], NEW kind \in TaskKinds, t[kind] > 0
  PROVE  [t EXCEPT ![kind] = @ - 1] \in [TaskKinds -> Nat]
OBVIOUS

LEMMA PanelTyped ==
  \A type \in PanelTypes, v \in Nat, c \in Candidates \cup {None} :
    Panel(type, v, c) \in Command
BY DEF Panel, Command

\* No transition leaves a terminal state.
LEMMA TerminalStays ==
  \A s \in Terminal, t \in States : MayMove(s, t) => t = s
BY DEF Terminal, States, MayMove, Allowed

\* What begin_guidance continues with is a row again.
LEMMA EnteredTyped ==
  ASSUME session \in Session, view = session, NEW decided \in BOOLEAN
  PROVE  /\ Entered(decided) \in Session
         /\ EnteredView(decided) = Entered(decided)
BY RepairingTyped, FieldsTyped DEF Entered, EnteredView, EntersRepair

-----------------------------------------------------------------------------
(* Types.  A handler computes the new row from its view, so the step needs   *)
(* the lock invariant too.                                                   *)

LEMMA TypeStep == Inv /\ [Next]_vars => TypeOK'
<1> SUFFICES ASSUME Inv, [Next]_vars PROVE TypeOK'
  OBVIOUS
<1> USE ConstantsOK, FieldsTyped
    DEF Inv, TypeOK, LockedViewIsCurrent, ReasonKnown, States, Terminal, Awaits, PanelTypes,
        GuideReasons, EscalationReasons, TaskKinds, ConstantsOK, fixed, store, memory,
        Reports, Pends, Routed
<1>1. CASE AttachBrowser
  BY <1>1 DEF AttachBrowser, Hold
<1>2. CASE ParticipantStop
  BY <1>2 DEF ParticipantStop, BrowserStop
<1>3. ASSUME NEW e \in EventIds, HelpRequested(e) PROVE TypeOK'
  BY <1>3, SpawnTyped DEF HelpRequested, Accept
<1>4. ASSUME NEW e \in EventIds, GuidanceDismissed(e) PROVE TypeOK'
  BY <1>4, MovedTyped DEF GuidanceDismissed, Accept
<1>5. ASSUME NEW e \in EventIds, PageEvent(e) PROVE TypeOK'
  BY <1>5, MovedTyped, PanelTyped DEF PageEvent, Accept
<1>6. ASSUME NEW e \in EventIds, ActionIgnored(e) PROVE TypeOK'
  BY <1>6 DEF ActionIgnored, Accept
<1>7. ASSUME NEW e \in EventIds, SilentAction(e) PROVE TypeOK'
  BY <1>7 DEF SilentAction, Accept, Hold
<1>8. ASSUME NEW e \in EventIds, NEW c \in Candidates, WrongAction(e, c) PROVE TypeOK'
  BY <1>8, MovedTyped DEF WrongAction, Accept, Hold
<1>9. ASSUME NEW e \in EventIds, RightAction(e) PROVE TypeOK'
  BY <1>9, MovedTyped DEF RightAction, Accept, Hold
<1>10. CASE BrowserStarted
  BY <1>10, MovedTyped, BoundTyped, SpawnTyped DEF BrowserStarted, Release
<1>11. CASE BrowserUnavailable
  BY <1>11, MovedTyped DEF BrowserUnavailable, Release
<1>12. CASE HighlightCleared
  BY <1>12, SpawnTyped DEF HighlightCleared, Release
<1>13. CASE ActionCheckRaises
  BY <1>13 DEF ActionCheckRaises, Raises, Release
<1>14. CASE StepNotVerified
  BY <1>14, MovedTyped, SpawnTyped DEF StepNotVerified, Release
<1>15. CASE ReplayedStepNotVerified
  <2> DEFINE repairing == Repairing(session, view.repairs)
  <2>1. repairing \in Session
    BY <1>15, RepairingTyped DEF ReplayedStepNotVerified
  <2> DEFINE framed == /\ failures' = failures + 1
                       /\ Release
                       /\ UNCHANGED <<mode, crashed, abandons, browser, accepted,
                                      recorded, runtime, active>>
  <2>0. framed
    BY <1>15 DEF ReplayedStepNotVerified
  <2>2. CASE repairing.repairs >= 2
    <3>1. /\ Escalate(repairing, repairing, "two_failed_attempts", command)
          /\ Moved(repairing, "escalated") \in Session
          /\ repairing.version + 1 \in Nat
      BY <1>15, <2>1, <2>2, MovedTyped DEF ReplayedStepNotVerified
    <3>2. session' \in Session /\ command' \in Command \cup {None}
      BY <2>1, <3>1, PanelTyped DEF Escalate
    <3>3. tasks' \in [TaskKinds -> Nat]
      BY <3>1, SpawnTyped DEF Escalate
    <3>4. /\ finished' \subseteq Terminal
          /\ escalations' \subseteq EscalationReasons
      BY <3>1 DEF Escalate
    <3>5. QED
      BY <2>0, <3>2, <3>3, <3>4 DEF Release
  <2>3. CASE ~(repairing.repairs >= 2)
    <3>1. /\ session' = repairing /\ Spawn("verification_failed")
          /\ UNCHANGED <<escalations, finished, command>>
      BY <1>15, <2>3 DEF ReplayedStepNotVerified
    <3>2. tasks' \in [TaskKinds -> Nat]
      BY <3>1, SpawnTyped
    <3>3. QED
      BY <2>0, <2>1, <3>1, <3>2 DEF Release
  <2>4. QED
    BY <2>2, <2>3
<1>16. CASE StepVerified
  BY <1>16 DEF StepVerified, Hold
<1>17. CASE SilentActionChecked
  BY <1>17, MovedTyped DEF SilentActionChecked, Hold, Release
<1>18. CASE TaskCompleted
  BY <1>18, MovedTyped DEF TaskCompleted, Hold
<1>19. CASE CompletionSaved
  BY <1>19, SpawnTyped, PanelTyped DEF CompletionSaved, Release
<1>20. CASE ReplayFinished
  <2>1. PICK outcome \in {"completed", "prepared"} :
          /\ session' = [Moved(session, outcome) EXCEPT !.step = view.step + 1]
          /\ finished' = finished \cup {outcome}
          /\ command' = Panel(outcome, session'.version, None)
    BY <1>20 DEF ReplayFinished
  <2>2. Moved(session, outcome) \in Session /\ view.step + 1 \in Nat
    BY <1>20, MovedTyped DEF ReplayFinished
  <2>3. session' \in Session
    BY <2>1, <2>2, SteppedTyped
  <2>4. command' \in Command
    BY <2>1, <2>3, PanelTyped
  <2>5. tasks' \in [TaskKinds -> Nat]
    BY <1>20, SpawnTyped DEF ReplayFinished
  <2>6. QED
    BY <1>20, <2>1, <2>3, <2>4, <2>5 DEF ReplayFinished, Release
<1>21. CASE NextStep
  <2>1. Moved(session, "observing") \in Session /\ view.step + 1 \in Nat
    BY <1>21, MovedTyped DEF NextStep
  <2>2. session' \in Session
    BY <1>21, <2>1, SteppedTyped DEF NextStep
  <2>3. tasks' \in [TaskKinds -> Nat]
    BY <1>21, SpawnTyped DEF NextStep
  <2>4. QED
    BY <1>21, <2>2, <2>3 DEF NextStep, Release
<1>22. CASE RepairRefused
  BY <1>22 DEF RepairRefused, Raises, Release
<1>23. ASSUME NEW c \in Candidates, NEW decided \in BOOLEAN, GuidancePresented(c, decided) PROVE TypeOK'
  <2> DEFINE entered == Entered(decided)
             shown == Moved(Moved(entered, "guiding"), "awaiting_user_action")
  <2>1. /\ entered \in Session
        /\ EnteredView(decided) = entered
        /\ view.version + 1 \in Nat
    BY <1>23, EnteredTyped DEF GuidancePresented
  <2>2. shown \in Session /\ shown.version \in Nat
    BY <2>1, MovedTyped
  <2>3. session' \in Session
    BY <1>23, <2>1, <2>2 DEF GuidancePresented
  <2>4. command' \in Command
    BY <1>23, <2>1, <2>2, PanelTyped DEF GuidancePresented
  <2>5. active' \in ActiveStep \cup {None}
    BY <1>23, <2>2 DEF GuidancePresented, ActiveStep
  <2>6. QED
    BY <1>23, <2>3, <2>4, <2>5 DEF GuidancePresented, Release
<1>24. ASSUME NEW decided \in BOOLEAN, GuidanceWithheld(decided) PROVE TypeOK'
  <2> DEFINE to == IF decided THEN "safety_paused" ELSE "provider_unavailable"
             panel == Panel(IF decided THEN "safety_pause" ELSE "provider_unavailable",
                            view.version + 1, None)
  <2>1. /\ Entered(decided) \in Session
        /\ EnteredView(decided) = Entered(decided)
        /\ view.version + 1 \in Nat
    BY <1>24, EnteredTyped DEF GuidanceWithheld
  <2>2. session' \in {Entered(decided), Moved(Entered(decided), to)}
    BY <1>24 DEF GuidanceWithheld
  <2>3. session' \in Session
    BY <2>1, <2>2, MovedTyped
  <2>4. panel \in Command
    BY <2>1, PanelTyped
  <2>5. command' \in Command
    BY <1>24, <2>4 DEF GuidanceWithheld
  <2>6. QED
    BY <1>24, <2>3, <2>5 DEF GuidanceWithheld, Release
<1>25. ASSUME NEW decided \in BOOLEAN, GuidanceEscalates(decided) PROVE TypeOK'
  <2> DEFINE entered == Entered(decided)
             panel == Panel(IF decided THEN "safety_pause" ELSE "escalated",
                            view.version + 1, None)
  <2>1. /\ entered \in Session
        /\ EnteredView(decided) = entered
        /\ view.version + 1 \in Nat
    BY <1>25, EnteredTyped DEF GuidanceEscalates
  <2>2. Escalate(entered, entered, reason, panel) /\ reason \in GuideReasons
    BY <1>25, <2>1 DEF GuidanceEscalates
  <2>3. Moved(entered, "escalated") \in Session /\ entered.version + 1 \in Nat
    BY <2>1, MovedTyped
  <2>4. panel \in Command
    BY <2>1, PanelTyped
  <2>5. session' \in Session /\ command' \in Command
    BY <2>1, <2>2, <2>3, <2>4, PanelTyped DEF Escalate
  <2>6. tasks' \in [TaskKinds -> Nat]
    BY <2>2, SpawnTyped DEF Escalate
  <2>7. escalations' \subseteq EscalationReasons /\ finished' \subseteq Terminal
    BY <2>2 DEF Escalate
  <2>8. QED
    BY <1>25, <2>5, <2>6, <2>7 DEF GuidanceEscalates, Release
<1>26. ASSUME NEW kind \in GuideReasons, GuidanceMoot(kind) PROVE TypeOK'
  BY <1>26, TakenTyped DEF GuidanceMoot, TakeTask
<1>27. ASSUME NEW kind \in GuideReasons, BeginGuidance(kind) PROVE TypeOK'
  BY <1>27, TakenTyped DEF BeginGuidance, TakeTask
<1>28. CASE ResumeAfterReroute
  BY <1>28, MovedTyped DEF ResumeAfterReroute
<1>29. CASE StopTask
  BY <1>29, TakenTyped DEF StopTask, BrowserStop
<1>30. CASE Abandon
  BY <1>30, MovedTyped, SpawnTyped DEF Abandon
<1>31. CASE Crash
  BY <1>31 DEF Crash, Release
<1>32. CASE UNCHANGED vars
  BY <1>32 DEF vars
<1>33. QED
  BY <1>1, <1>2, <1>3, <1>4, <1>5, <1>6, <1>7, <1>8, <1>9,
     <1>10, <1>11, <1>12, <1>13, <1>14, <1>15, <1>16, <1>17, <1>18,
     <1>19, <1>20, <1>21, <1>22, <1>23, <1>24, <1>25, <1>26,
     <1>27, <1>28, <1>29, <1>30, <1>31, <1>32
  DEF Next, Event, Continue, Background

-----------------------------------------------------------------------------
(* The lock.  A handler either works on under the row it has just written or *)
(* lets go of the lock, and nothing else writes the row meanwhile.           *)

\* Steps after which the lock is free, and steps that run while it is and do not take it.
Frees ==
  \/ BrowserStarted \/ BrowserUnavailable \/ HighlightCleared
  \/ ActionCheckRaises \/ StepNotVerified \/ ReplayedStepNotVerified
  \/ CompletionSaved \/ ReplayFinished \/ NextStep \/ RepairRefused \/ Crash
  \/ \E c \in Candidates, decided \in BOOLEAN : GuidancePresented(c, decided)
  \/ \E decided \in BOOLEAN : GuidanceWithheld(decided)
  \/ \E decided \in BOOLEAN : GuidanceEscalates(decided)
Passes ==
  \/ \E e \in EventIds : \/ HelpRequested(e) \/ GuidanceDismissed(e)
                         \/ PageEvent(e) \/ ActionIgnored(e)
  \/ \E r \in GuideReasons : GuidanceMoot(r)
  \/ ResumeAfterReroute \/ Abandon

LEMMA LockFreed == Frees => lock' = "free"
BY DEF Frees, BrowserStarted, BrowserUnavailable, HighlightCleared, ActionCheckRaises,
       Raises, StepNotVerified, ReplayedStepNotVerified, CompletionSaved,
       ReplayFinished, NextStep, RepairRefused, Crash, GuidancePresented,
       GuidanceWithheld, GuidanceEscalates, Release

LEMMA LockPassed == Passes => lock = "free" /\ lock' = "free"
BY DEF Passes, HelpRequested, GuidanceDismissed, PageEvent, ActionIgnored, Accept,
       GuidanceMoot, TakeTask, ResumeAfterReroute, Abandon, LockIsFree

\* A step of a handler that holds the lock.
LEMMA ContinueHolds == Continue => lock # "free"
BY DEF Continue, BrowserStarted, BrowserUnavailable, HighlightCleared, ActionCheckRaises,
       StepNotVerified, ReplayedStepNotVerified, StepVerified, SilentActionChecked,
       TaskCompleted, CompletionSaved, ReplayFinished, NextStep, RepairRefused,
       GuidancePresented, GuidanceWithheld, GuidanceEscalates

LEMMA LockStep == Inv /\ [Next]_vars => LockedViewIsCurrent' /\ ReasonKnown'
<1> SUFFICES ASSUME Inv, [Next]_vars PROVE LockedViewIsCurrent' /\ ReasonKnown'
  OBVIOUS
<1> USE DEF Inv, LockedViewIsCurrent, ReasonKnown, fixed, store, memory
\* Some steps start or keep the lock held, with the row they leave as their view.
<1>1. ASSUME \/ AttachBrowser
             \/ \E e \in EventIds :
                  \/ SilentAction(e)
                  \/ \E c \in Candidates : WrongAction(e, c)
                  \/ RightAction(e)
             \/ StepVerified \/ TaskCompleted
      PROVE LockedViewIsCurrent' /\ ReasonKnown'
  BY <1>1 DEF AttachBrowser, SilentAction, WrongAction, RightAction, StepVerified,
              TaskCompleted, Hold, Accept
<1>2. CASE SilentActionChecked
  BY <1>2 DEF SilentActionChecked, Hold, Release
<1>3. ASSUME NEW r \in GuideReasons, BeginGuidance(r)
      PROVE LockedViewIsCurrent' /\ ReasonKnown'
  BY <1>3 DEF BeginGuidance
\* Others end with the lock free.
<1>4. ASSUME Frees \/ Passes PROVE LockedViewIsCurrent' /\ ReasonKnown'
  BY <1>4, LockFreed, LockPassed
\* The rest leave row and lock alone.
<1>6. ASSUME ParticipantStop \/ StopTask \/ UNCHANGED vars
      PROVE LockedViewIsCurrent' /\ ReasonKnown'
  BY <1>6 DEF ParticipantStop, StopTask, BrowserStop, vars
<1>7. QED
  BY <1>1, <1>2, <1>3, <1>4, <1>6 DEF Next, Event, Continue, Background, Frees, Passes

-----------------------------------------------------------------------------
(* The end of a session. *)

\* Steps that leave the row alone.
KeepsRow ==
  \/ AttachBrowser \/ ParticipantStop \/ HighlightCleared \/ ActionCheckRaises
  \/ StepVerified \/ CompletionSaved \/ RepairRefused \/ Crash \/ StopTask
  \/ \E e \in EventIds : \/ HelpRequested(e) \/ ActionIgnored(e) \/ SilentAction(e)
  \/ \E r \in GuideReasons : GuidanceMoot(r) \/ BeginGuidance(r)

LEMMA RowKept == KeepsRow => session' = session
BY DEF KeepsRow, AttachBrowser, ParticipantStop, BrowserStop, HighlightCleared,
       ActionCheckRaises, Raises, StepVerified, CompletionSaved, RepairRefused, Crash,
       StopTask, HelpRequested, ActionIgnored, SilentAction, GuidanceMoot, BeginGuidance,
       fixed, store

\* What Entered returns is the row itself, or a row MayMove led to REPAIRING.
LEMMA EnteredEnds ==
  ASSUME session \in Session, view = session, NEW decided \in BOOLEAN,
         MayEnter(decided), Ended
  PROVE  Entered(decided) = session
<1>1. ~EntersRepair(decided)
  BY FieldsTyped, TerminalStays
  DEF MayEnter, EntersRepair, Ended, States, Terminal
<1>2. QED
  BY <1>1 DEF Entered

\* A session that has ended is not moved to another state by any step.
LEMMA RowStep ==
  ASSUME Inv, Next, Ended
  PROVE  session'.state = session.state
<1> USE FieldsTyped, TerminalStays DEF Inv, TypeOK, LockedViewIsCurrent, Ended, fixed, store
<1>1. CASE KeepsRow
  BY <1>1, RowKept
<1>2. ASSUME NEW to \in States, MayMove(session.state, to),
             session' = Moved(session, to)
      PROVE session'.state = session.state
  BY <1>2, MovedTyped
<1>3. {"observing", "provider_unavailable", "rerouting", "verifying", "completed",
       "prepared", "abandoned", "escalated", "repairing", "guiding", "safety_paused",
       "help_offered", "awaiting_user_action"} \subseteq States
      /\ "help_offered" \notin Terminal /\ "observing" \notin Terminal
  BY DEF States, Terminal
<1>4. ASSUME \/ BrowserUnavailable \/ StepNotVerified \/ TaskCompleted
             \/ \E e \in EventIds : \/ RightAction(e)
                                    \/ \E c \in Candidates : WrongAction(e, c)
             \/ Abandon
      PROVE session'.state = session.state
  <2>1. \E to \in States : MayMove(session.state, to) /\ session' = Moved(session, to)
    BY <1>3, <1>4 DEF BrowserUnavailable, StepNotVerified, TaskCompleted, RightAction,
                      WrongAction, Abandon
  <2>2. QED
    BY <1>2, <2>1
<1>5. ASSUME \/ SilentActionChecked \/ ResumeAfterReroute
             \/ \E e \in EventIds : GuidanceDismissed(e) \/ PageEvent(e)
      PROVE session'.state = session.state
  <2>1. \/ session' = session
        \/ \E to \in States : MayMove(session.state, to) /\ session' = Moved(session, to)
    BY <1>3, <1>5 DEF SilentActionChecked, ResumeAfterReroute, GuidanceDismissed, PageEvent
  <2>2. QED
    BY <1>2, <2>1
<1>6. CASE BrowserStarted
  BY <1>3, <1>6, MovedTyped, BoundTyped DEF BrowserStarted
<1>7. CASE NextStep
  BY <1>3, <1>7 DEF NextStep
<1>8. CASE ReplayFinished
  <2>1. PICK outcome \in {"completed", "prepared"} :
          /\ MayMove(view.state, outcome)
          /\ session' = [Moved(session, outcome) EXCEPT !.step = view.step + 1]
    BY <1>8 DEF ReplayFinished
  <2>2. view = session /\ outcome \in States /\ view.step + 1 \in Nat
    BY <1>3, <1>8 DEF ReplayFinished
  <2>3. Moved(session, outcome) \in Session /\ Moved(session, outcome).state = outcome
    BY <2>2, MovedTyped
  <2>4. session'.state = outcome
    BY <2>1, <2>2, <2>3, SteppedTyped
  <2>5. QED
    BY <2>1, <2>2, <2>4
<1>9. CASE ReplayedStepNotVerified
  <2>1. lock = "checking" /\ MayMove(view.state, "repairing")
    BY <1>9 DEF ReplayedStepNotVerified
  <2>2. QED
    BY <1>3, <2>1 DEF Terminal
<1>10. ASSUME NEW c \in Candidates, NEW decided \in BOOLEAN, GuidancePresented(c, decided)
       PROVE session'.state = session.state
  <2>1. view = session /\ Entered(decided) = session /\ EnteredView(decided) = session
    BY <1>10, EnteredEnds, EnteredTyped DEF GuidancePresented
  <2>2. ~MayMove(session.state, "guiding")
    BY <1>3 DEF Terminal
  <2>3. QED
    BY <1>10, <2>1, <2>2 DEF GuidancePresented
<1>11. ASSUME NEW decided \in BOOLEAN, GuidanceWithheld(decided)
       PROVE session'.state = session.state
  <2>1. view = session /\ Entered(decided) = session /\ EnteredView(decided) = session
    BY <1>11, EnteredEnds, EnteredTyped DEF GuidanceWithheld
  <2>2. \/ session' = session
        \/ \E to \in States : MayMove(session.state, to) /\ session' = Moved(session, to)
    BY <1>3, <1>11, <2>1 DEF GuidanceWithheld
  <2>3. QED
    BY <1>2, <2>2
<1>12. ASSUME NEW decided \in BOOLEAN, GuidanceEscalates(decided)
       PROVE session'.state = session.state
  <2>1. view = session /\ Entered(decided) = session /\ EnteredView(decided) = session
    BY <1>12, EnteredEnds, EnteredTyped DEF GuidanceEscalates
  <2>2. \/ session' = session
        \/ \E to \in States : MayMove(session.state, to) /\ session' = Moved(session, to)
    BY <1>3, <1>12, <2>1 DEF GuidanceEscalates, Escalate
  <2>3. QED
    BY <1>2, <2>2
<1>13. QED
  BY <1>1, <1>4, <1>5, <1>6, <1>7, <1>8, <1>9, <1>10, <1>11, <1>12
  DEF Next, Event, Continue, Background, KeepsRow

\* An outcome is only ever reported for a session that is then in that state.
LEMMA ReportStep ==
  ASSUME Inv, Next
  PROVE  \/ finished' = finished
         \/ session'.state \in Terminal /\ finished' = finished \cup {session'.state}
<1> DEFINE Goal == \/ finished' = finished
                   \/ /\ session'.state \in Terminal
                      /\ finished' = finished \cup {session'.state}
<1> USE FieldsTyped DEF Inv, TypeOK, LockedViewIsCurrent, fixed, store, Reports
<1>1. {"escalated", "completed", "prepared", "abandoned"} \subseteq Terminal
      /\ Terminal \subseteq States
  BY DEF States, Terminal
<1>2. CASE CompletionSaved
  BY <1>1, <1>2 DEF CompletionSaved, HandlerKnowsState, HeldIn
<1>3. CASE Abandon
  BY <1>1, <1>3, MovedTyped DEF Abandon
<1>4. CASE ReplayFinished
  <2>1. PICK outcome \in {"completed", "prepared"} :
          /\ session' = [Moved(session, outcome) EXCEPT !.step = view.step + 1]
          /\ finished' = finished \cup {outcome}
    BY <1>4 DEF ReplayFinished
  <2>2. view = session /\ outcome \in States /\ view.step + 1 \in Nat
    BY <1>1, <1>4 DEF ReplayFinished
  <2>3. session'.state = outcome
    BY <2>1, <2>2, MovedTyped, SteppedTyped
  <2>4. QED
    BY <1>1, <2>1, <2>3
\* Escalating a row either moves it to ESCALATED and reports that, or does neither.
<1>5. ASSUME NEW s \in Session, NEW why, NEW panel, Escalate(s, s, why, panel)
      PROVE  Goal
  BY <1>1, <1>5, MovedTyped DEF Escalate
<1>6. CASE ReplayedStepNotVerified
  <2> DEFINE repairing == Repairing(session, view.repairs)
  <2>1. repairing \in Session
    BY <1>6, RepairingTyped DEF ReplayedStepNotVerified
  <2>2. CASE repairing.repairs >= 2
    BY <1>5, <1>6, <2>1, <2>2 DEF ReplayedStepNotVerified
  <2>3. CASE ~(repairing.repairs >= 2)
    BY <1>6, <2>3 DEF ReplayedStepNotVerified
  <2>4. QED
    BY <2>2, <2>3
<1>7. ASSUME NEW decided \in BOOLEAN, GuidanceEscalates(decided)
      PROVE  Goal
  <2>1. Entered(decided) \in Session /\ EnteredView(decided) = Entered(decided)
    BY <1>7, EnteredTyped DEF GuidanceEscalates
  <2>2. \E panel : Escalate(Entered(decided), Entered(decided), reason, panel)
    BY <1>7, <2>1 DEF GuidanceEscalates
  <2>3. QED
    BY <1>5, <2>1, <2>2
\* No other step touches the outbox rows.
<1>8. ASSUME \/ AttachBrowser \/ ParticipantStop \/ BrowserStarted \/ BrowserUnavailable
             \/ HighlightCleared \/ ActionCheckRaises \/ StepNotVerified \/ StepVerified
             \/ SilentActionChecked \/ TaskCompleted \/ NextStep \/ RepairRefused
             \/ ResumeAfterReroute \/ StopTask \/ Crash
             \/ \E e \in EventIds : Event(e)
             \/ \E r \in GuideReasons : GuidanceMoot(r) \/ BeginGuidance(r)
             \/ \E c \in Candidates, decided \in BOOLEAN : GuidancePresented(c, decided)
             \/ \E decided \in BOOLEAN : GuidanceWithheld(decided)
      PROVE  finished' = finished
  BY <1>8
  DEF AttachBrowser, ParticipantStop, BrowserStop, BrowserStarted, BrowserUnavailable,
      HighlightCleared, ActionCheckRaises, Raises, StepNotVerified, StepVerified,
      SilentActionChecked, TaskCompleted, NextStep, RepairRefused, ResumeAfterReroute,
      StopTask, Crash, Event, HelpRequested, GuidanceDismissed, PageEvent, ActionIgnored,
      SilentAction, WrongAction, RightAction, GuidanceMoot, BeginGuidance,
      GuidancePresented, GuidanceWithheld
<1>9. QED
  BY <1>2, <1>3, <1>4, <1>6, <1>7, <1>8 DEF Next, Continue, Background

\* The handler that holds the lock knows the state of the session.
LEMMA HandlerStep ==
  ASSUME Inv, Next
  PROVE  HandlerKnowsState'
<1> USE FieldsTyped DEF Inv, TypeOK, HandlerKnowsState, HeldIn, fixed, store, Hold
<1>1. {"rerouting", "verifying", "completed"} \subseteq States
  BY DEF States, Terminal
<1>2. ASSUME Frees \/ Passes PROVE HandlerKnowsState'
  BY <1>2, LockFreed, LockPassed
<1>3. CASE AttachBrowser
  BY <1>3 DEF AttachBrowser
<1>4. ASSUME NEW e \in EventIds, SilentAction(e) PROVE HandlerKnowsState'
  BY <1>4 DEF SilentAction, RecordsSilently
<1>5. ASSUME NEW e \in EventIds, NEW c \in Candidates, WrongAction(e, c)
      PROVE HandlerKnowsState'
  BY <1>1, <1>5, MovedTyped DEF WrongAction
<1>6. ASSUME NEW e \in EventIds, RightAction(e) PROVE HandlerKnowsState'
  BY <1>1, <1>6, MovedTyped DEF RightAction
<1>7. CASE StepVerified
  BY <1>7 DEF StepVerified
<1>8. CASE TaskCompleted
  BY <1>1, <1>8, MovedTyped DEF TaskCompleted
<1>9. CASE SilentActionChecked
  <2>1. lock' = "free" \/ (lock' = "saving" /\ session' = Moved(session, "completed"))
    BY <1>9 DEF SilentActionChecked, Release
  <2>2. CASE lock' = "free"
    BY <2>2
  <2>3. CASE lock' = "saving" /\ session' = Moved(session, "completed")
    <3>1. session'.state = "completed"
      BY <1>1, <2>3, MovedTyped
    <3>2. QED
      BY <2>3, <3>1
  <2>4. QED
    BY <2>1, <2>2, <2>3
<1>10. ASSUME NEW r \in GuideReasons, BeginGuidance(r) PROVE HandlerKnowsState'
  BY <1>10 DEF BeginGuidance, TakeTask, LockIsFree
<1>11. ASSUME ParticipantStop \/ StopTask PROVE HandlerKnowsState'
  BY <1>11 DEF ParticipantStop, StopTask, BrowserStop
<1>12. QED
  BY <1>2, <1>3, <1>4, <1>5, <1>6, <1>7, <1>8, <1>9, <1>10, <1>11
  DEF Next, Event, Continue, Background, Frees, Passes

-----------------------------------------------------------------------------
(* Steps and attempts. *)

\* What begin_guidance continues with is no step further and has lost no attempt.
LEMMA EnteredKeeps ==
  ASSUME session \in Session, view = session, NEW decided \in BOOLEAN
  PROVE  /\ Entered(decided).step = session.step
         /\ Entered(decided).repairs >= session.repairs
BY RepairingKeeps, FieldsTyped DEF Entered, EntersRepair

\* No handler takes an attempt at repair back, and only one that has verified an action
\* takes the routine a step further.
LEMMA RowChanges ==
  ASSUME Inv, Next
  PROVE  /\ session'.repairs >= session.repairs
         /\ \/ session'.step = session.step
            \/ lock = "completing" /\ lock' = "free" /\ session'.step = session.step + 1
<1> DEFINE Kept(s) == s.repairs >= session.repairs /\ s.step = session.step
<1>0. session \in Session /\ (lock # "free" => view = session)
  BY DEF Inv, TypeOK, LockedViewIsCurrent
<1> USE <1>0, FieldsTyped DEF fixed, store
<1>1. {"observing", "provider_unavailable", "rerouting", "verifying", "completed",
       "prepared", "abandoned", "escalated", "repairing", "guiding", "safety_paused",
       "help_offered", "awaiting_user_action"} \subseteq States
  BY DEF States, Terminal
<1>2. CASE KeepsRow
  BY <1>2, RowKept
<1>3. ASSUME \/ BrowserUnavailable \/ StepNotVerified \/ TaskCompleted \/ Abandon
             \/ SilentActionChecked \/ ResumeAfterReroute
             \/ \E e \in EventIds : \/ RightAction(e)
                                    \/ \E c \in Candidates : WrongAction(e, c)
                                    \/ GuidanceDismissed(e) \/ PageEvent(e)
      PROVE Kept(session')
  <2>1. session' = session \/ \E to \in States : session' = Moved(session, to)
    BY <1>1, <1>3 DEF BrowserUnavailable, StepNotVerified, TaskCompleted, Abandon,
       SilentActionChecked, ResumeAfterReroute, RightAction, WrongAction,
       GuidanceDismissed, PageEvent
  <2>2. QED
    BY <2>1, MovedKeeps
<1>4. CASE BrowserStarted
  <2>1. Moved(session, "observing") \in Session
    BY <1>1, MovedTyped
  <2>2. Kept(Moved(session, "observing"))
    BY MovedKeeps
  <2>3. session' = [Moved(session, "observing") EXCEPT !.bound = TRUE]
    BY <1>4 DEF BrowserStarted
  <2>4. QED
    BY <2>1, <2>2, <2>3, BoundTyped
<1>5. ASSUME NextStep \/ ReplayFinished
      PROVE  /\ lock = "completing" /\ lock' = "free"
             /\ session'.repairs = session.repairs /\ session'.step = session.step + 1
  <2>1. PICK to \in States : session' = [Moved(session, to) EXCEPT !.step = view.step + 1]
    BY <1>1, <1>5 DEF NextStep, ReplayFinished
  <2>2. view = session /\ lock = "completing" /\ lock' = "free"
    BY <1>5 DEF NextStep, ReplayFinished, Release
  <2>3. Moved(session, to) \in Session /\ session.step + 1 \in Nat
    BY MovedTyped
  <2>4. QED
    BY <2>1, <2>2, <2>3, MovedKeeps, SteppedTyped
\* Escalating a row moves its state only.
<1>6. ASSUME NEW s \in Session, Kept(s), NEW why, NEW panel, Escalate(s, s, why, panel)
      PROVE  Kept(session')
  BY <1>6, MovedKeeps DEF Escalate
<1>7. CASE ReplayedStepNotVerified
  <2> DEFINE repairing == Repairing(session, view.repairs)
  <2>1. repairing \in Session /\ Kept(repairing)
    BY <1>7, RepairingTyped, RepairingKeeps DEF ReplayedStepNotVerified
  <2>2. session' = repairing
          \/ Escalate(repairing, repairing, "two_failed_attempts", command)
    BY <1>7 DEF ReplayedStepNotVerified
  <2>3. Kept(session')
    BY <1>6, <2>1, <2>2
  <2>4. QED
    BY <2>3
<1>8. ASSUME NEW decided \in BOOLEAN,
             \/ \E c \in Candidates : GuidancePresented(c, decided)
             \/ GuidanceWithheld(decided)
             \/ GuidanceEscalates(decided)
      PROVE Kept(session')
  <2>1. view = session /\ Entered(decided) \in Session /\ Kept(Entered(decided))
        /\ EnteredView(decided) = Entered(decided)
    BY <1>8, EnteredTyped, EnteredKeeps
    DEF GuidancePresented, GuidanceWithheld, GuidanceEscalates
  <2>2. CASE \E c \in Candidates : GuidancePresented(c, decided)
    <3>1. session' \in {Moved(Moved(Entered(decided), "guiding"), "awaiting_user_action"),
                        Entered(decided)}
      BY <2>2 DEF GuidancePresented
    <3>2. ASSUME NEW s \in Session, Kept(s), NEW to \in States
          PROVE  Moved(s, to) \in Session /\ Kept(Moved(s, to))
      BY <3>2, MovedTyped, MovedKeeps
    <3>3. Kept(Moved(Moved(Entered(decided), "guiding"), "awaiting_user_action"))
      BY <1>1, <2>1, <3>2
    <3>4. QED
      BY <2>1, <3>1, <3>3
  <2>3. CASE GuidanceWithheld(decided)
    <3>1. session' = Entered(decided)
            \/ \E to \in States : session' = Moved(Entered(decided), to)
      BY <1>1, <2>3 DEF GuidanceWithheld
    <3>2. QED
      BY <2>1, <3>1, MovedKeeps
  <2>4. CASE GuidanceEscalates(decided)
    BY <1>6, <2>1, <2>4 DEF GuidanceEscalates
  <2>5. QED
    BY <1>8, <2>2, <2>3, <2>4
<1>9. QED
  BY <1>2, <1>3, <1>4, <1>5, <1>7, <1>8 DEF Next, Event, Continue, Background, KeepsRow

\* A verification of a replayed step that fails is the only thing that counts as a failure,
\* and the second one, or the second attempt at repair, ends the session.
LEMMA FailuresStep ==
  ASSUME Inv, Next
  PROVE  FailuresAreAttempts' /\ TwoFailuresStopReplay'
<1> USE FieldsTyped DEF Inv, TypeOK, FailuresAreAttempts, TwoFailuresStopReplay
<1>1. {"repairing", "escalated"} \subseteq States /\ "escalated" \in Terminal
  BY DEF States, Terminal
<1>2. CASE ReplayedStepNotVerified
  <2> DEFINE repairing == Repairing(session, view.repairs)
  <2>1. /\ view = session /\ session.state = "verifying"
        /\ failures' = failures + 1
        /\ IF repairing.repairs >= 2
           THEN Escalate(repairing, repairing, "two_failed_attempts", command)
           ELSE session' = repairing
    BY <1>2 DEF ReplayedStepNotVerified, LockedViewIsCurrent, HandlerKnowsState, HeldIn
  <2>2. /\ repairing \in Session /\ repairing.state = "repairing"
        /\ repairing.repairs = IF session.repairs >= 1 THEN 2 ELSE session.repairs + 1
    BY <2>1, RepairingTyped, RepairingKeeps
  <2>3. failures \in {0, 1} /\ failures <= session.repairs
    BY <2>1
  <2>4. CASE repairing.repairs >= 2
    <3>1. MayMove(repairing.state, "escalated")
      BY <2>2 DEF MayMove, Allowed
    <3>2. session' = Moved(repairing, "escalated")
      BY <2>1, <2>4, <3>1 DEF Escalate
    <3>3. repairing.repairs = 2
      BY <2>2, <2>4
    <3>4. session'.repairs = 2 /\ session'.state = "escalated"
      BY <1>1, <2>2, <3>2, <3>3, MovedTyped
    <3>5. QED
      BY <2>1, <2>3, <3>4
  <2>5. CASE ~(repairing.repairs >= 2)
    <3>1. session.repairs = 0 /\ session'.repairs = 1
      BY <2>1, <2>2, <2>5
    <3>2. QED
      BY <2>1, <2>3, <3>1
  <2>6. QED
    BY <2>4, <2>5
<1>3. ASSUME ~ReplayedStepNotVerified PROVE failures' = failures
  BY <1>3
  DEF Next, Event, Continue, Background, fixed,
      AttachBrowser, ParticipantStop, BrowserStop, BrowserStarted, BrowserUnavailable,
      HighlightCleared, ActionCheckRaises, StepNotVerified, StepVerified, SilentActionChecked,
      TaskCompleted, CompletionSaved, ReplayFinished, NextStep, RepairRefused,
      ResumeAfterReroute, StopTask, Crash, HelpRequested, GuidanceDismissed, PageEvent,
      ActionIgnored, SilentAction, WrongAction, RightAction, GuidanceMoot, BeginGuidance,
      GuidancePresented, GuidanceWithheld, GuidanceEscalates, Abandon
<1>4. CASE ~ReplayedStepNotVerified
  <2>1. session' \in Session /\ session'.repairs >= session.repairs
    BY RowChanges, TypeStep
  <2>2. failures = 2 => session'.state = "escalated"
    BY <1>1, RowStep DEF Ended
  <2>3. QED
    BY <1>3, <1>4, <2>1, <2>2
<1>5. QED
  BY <1>2, <1>4

\* An accepted action is one more.
LEMMA ActionAdded ==
  ASSUME TypeOK, NEW e \in EventIds, Accept(e, "action")
  PROVE  /\ Cardinality(Actions) \in Nat
         /\ Cardinality(Actions)' = Cardinality(Actions) + 1
<1>1. IsFiniteSet(Actions)
  BY FS_Subset, ConstantsOK DEF Actions, ConstantsOK
<1>2. Actions' = Actions \cup {e} /\ e \notin Actions
  BY DEF Accept, IsNew, Actions, TypeOK
<1>3. QED
  BY <1>1, <1>2, FS_AddElement, FS_CardinalityType

\* Nothing else is.
LEMMA ActionsKept ==
  ASSUME TypeOK, Next,
         ~ \E e \in EventIds : \/ ActionIgnored(e) \/ SilentAction(e) \/ RightAction(e)
                               \/ \E c \in Candidates : WrongAction(e, c)
  PROVE  Actions' = Actions
<1>1. ASSUME NEW e \in EventIds, NEW kind \in {"help", "dismiss", "other"}, Accept(e, kind)
      PROVE  Actions' = Actions
  BY <1>1 DEF Accept, IsNew, Actions, TypeOK
<1>2. ASSUME NEW e \in EventIds, HelpRequested(e) \/ GuidanceDismissed(e) \/ PageEvent(e)
      PROVE  Actions' = Actions
  BY <1>1, <1>2 DEF HelpRequested, GuidanceDismissed, PageEvent
<1>3. ASSUME ~ \E e \in EventIds : Event(e) PROVE accepted' = accepted
  BY <1>3
  DEF Next, Continue, Background, store, Raises,
      AttachBrowser, ParticipantStop, BrowserStop, BrowserStarted, BrowserUnavailable,
      HighlightCleared, ActionCheckRaises, StepNotVerified, ReplayedStepNotVerified,
      StepVerified, SilentActionChecked, TaskCompleted, CompletionSaved, ReplayFinished,
      NextStep, RepairRefused, ResumeAfterReroute, StopTask, Crash, GuidanceMoot,
      BeginGuidance, GuidancePresented, GuidanceWithheld, GuidanceEscalates, Abandon
<1>4. QED
  BY <1>2, <1>3 DEF Event, Actions

\* Every step of the routine and of the recorded route is taken by an accepted action.
LEMMA CountStep ==
  ASSUME Inv, Next
  PROVE  StepsCounted'
<1> USE FieldsTyped DEF Inv, TypeOK, StepsCounted, MayStep, MayRecord
<1> DEFINE n == Cardinality(Actions)
<1>1. n \in Nat
  BY FS_Subset, FS_CardinalityType, ConstantsOK DEF Actions, ConstantsOK
<1>2. session' \in Session /\ recorded' \in Nat
  BY TypeStep
<1>3. ASSUME NEW e \in EventIds, ActionIgnored(e) \/ SilentAction(e)
                                 \/ \E c \in Candidates : WrongAction(e, c)
      PROVE StepsCounted'
  <2>1. Cardinality(Actions)' = n + 1 /\ recorded' = recorded /\ lock = "free"
    BY <1>3, ActionAdded
    DEF ActionIgnored, SilentAction, WrongAction, Accept, LockIsFree
  <2>2. session'.step = session.step
    BY <2>1, RowChanges
  <2>3. lock' \notin {"checking", "completing"}
    BY <1>3, <2>1 DEF ActionIgnored, SilentAction, WrongAction, Hold
  <2>4. QED
    BY <1>1, <1>2, <2>1, <2>2, <2>3
<1>4. ASSUME NEW e \in EventIds, RightAction(e) PROVE StepsCounted'
  <2>1. Cardinality(Actions)' = n + 1 /\ recorded' = recorded /\ lock = "free"
    BY <1>4, ActionAdded DEF RightAction, Accept, LockIsFree
  <2>2. session'.step = session.step
    BY <2>1, RowChanges
  <2>3. QED
    BY <1>1, <1>2, <2>1, <2>2
<1>5. ASSUME ~ \E e \in EventIds : \/ ActionIgnored(e) \/ SilentAction(e) \/ RightAction(e)
                                   \/ \E c \in Candidates : WrongAction(e, c)
      PROVE StepsCounted'
  <2>1. Cardinality(Actions)' = n
    BY <1>5, ActionsKept
  <2>2. CASE StepVerified
    <3>1. /\ lock = "checking" /\ lock' = "completing"
          /\ session' = session /\ recorded' \in {recorded, recorded + 1}
      BY <2>2 DEF StepVerified, Hold, Routed
    <3>2. QED
      BY <1>1, <1>2, <2>1, <3>1
  <2>3. CASE SilentActionChecked
    <3>1. /\ lock = "silent" /\ lock' \in {"free", "saving"}
          /\ recorded' \in {recorded, recorded + 1}
      BY <2>3 DEF SilentActionChecked, Hold, Release, Routed
    <3>2. session'.step = session.step
      BY <3>1, RowChanges
    <3>3. QED
      BY <1>1, <1>2, <2>1, <3>1, <3>2
  <2>4. ASSUME ~StepVerified, ~SilentActionChecked
        PROVE  /\ recorded' = recorded
               /\ lock' \in {"free", "attaching", "saving", "guiding", lock}
    BY <1>5, <2>4
    DEF Next, Event, Continue, Background, store, memory, fixed, Raises, Hold, Release,
      AttachBrowser, ParticipantStop, BrowserStop, BrowserStarted, BrowserUnavailable,
      HighlightCleared, ActionCheckRaises, StepNotVerified, ReplayedStepNotVerified,
      TaskCompleted, CompletionSaved, ReplayFinished, NextStep, RepairRefused,
      ResumeAfterReroute, StopTask, Crash, HelpRequested, GuidanceDismissed, PageEvent,
      GuidanceMoot, BeginGuidance, GuidancePresented, GuidanceWithheld, GuidanceEscalates,
      Abandon
  <2>5. CASE ~StepVerified /\ ~SilentActionChecked
    <3>1. /\ session'.step \in {session.step, session.step + 1}
          /\ session'.step = session.step + 1 => lock = "completing" /\ lock' = "free"
      BY RowChanges
    <3>2. QED
      BY <1>1, <1>2, <2>1, <2>4, <2>5, <3>1
  <2>6. QED
    BY <2>2, <2>3, <2>5
<1>6. QED
  BY <1>3, <1>4, <1>5

-----------------------------------------------------------------------------
(* How a session ends, and what it waits for meanwhile. *)

\* States the session goes on from.
Ongoing == {"observing", "provider_unavailable", "rerouting", "verifying", "help_offered",
            "repairing", "safety_paused"}

\* Whatever a step does to the row: it asks for a step and keeps what it asked for, goes on,
\* or ends the session, which is then reported and stopped unless that comes after a save.
LEMMA RowMoves ==
  ASSUME Inv, Next
  PROVE  \/ session' = session /\ (Crash \/ active' = active)
         \/ session'.state \in Ongoing
         \/ /\ session'.state = "awaiting_user_action"
            /\ active' # None /\ active'.version = session'.version
         \/ /\ session'.state \in Terminal
            /\ lock' # "free" \/ (finished' # {} /\ tasks'["stop"] > 0)
<1> DEFINE Same == session' = session /\ (Crash \/ active' = active)
           Asks == /\ session'.state = "awaiting_user_action"
                   /\ active' # None /\ active'.version = session'.version
           Ends == /\ session'.state \in Terminal
                   /\ lock' # "free" \/ (finished' # {} /\ tasks'["stop"] > 0)
           Goal == Same \/ session'.state \in Ongoing \/ Asks \/ Ends
<1> SUFFICES Goal
  OBVIOUS
<1>0. /\ session \in Session /\ (lock # "free" => view = session)
      /\ tasks \in [TaskKinds -> Nat]
  BY DEF Inv, TypeOK, LockedViewIsCurrent
<1>1. /\ Ongoing \cup {"awaiting_user_action", "guiding", "completed", "prepared", "abandoned",
                       "escalated"} \subseteq States
      /\ {"completed", "prepared", "abandoned", "escalated"} \subseteq Terminal
  BY DEF States, Terminal, Ongoing
<1> USE <1>0 DEF fixed, store, Hold
<1> HIDE DEF Same, Asks, Ends
<1>2. CASE KeepsRow
  <2>1. active' = active \/ Crash
    BY <1>2 DEF KeepsRow, AttachBrowser, ParticipantStop, BrowserStop, HighlightCleared,
       ActionCheckRaises, Raises, StepVerified, CompletionSaved, RepairRefused, StopTask,
       HelpRequested, ActionIgnored, SilentAction, GuidanceMoot, BeginGuidance
  <2>2. QED
    BY <1>2, <2>1, RowKept DEF Same
<1>3. ASSUME \/ BrowserUnavailable \/ StepNotVerified \/ ResumeAfterReroute
             \/ \E e \in EventIds : \/ RightAction(e)
                                    \/ \E c \in Candidates : WrongAction(e, c)
                                    \/ GuidanceDismissed(e) \/ PageEvent(e)
      PROVE Goal
  <2>1. Same \/ \E to \in Ongoing : session' = Moved(session, to)
    BY <1>3 DEF BrowserUnavailable, StepNotVerified, ResumeAfterReroute, RightAction,
                WrongAction, GuidanceDismissed, PageEvent, Ongoing, Same
  <2>2. QED
    BY <1>1, <2>1, MovedTyped
<1>4. CASE BrowserStarted
  <2>1. /\ Moved(session, "observing") \in Session
        /\ Moved(session, "observing").state \in Ongoing
    BY <1>1, MovedTyped DEF Ongoing
  <2>2. session' = [Moved(session, "observing") EXCEPT !.bound = TRUE]
    BY <1>4 DEF BrowserStarted
  <2>3. session'.state \in Ongoing
    BY <2>1, <2>2, BoundTyped
  <2>4. QED
    BY <2>3
<1>5. ASSUME NEW to \in States, view.step + 1 \in Nat,
             session' = [Moved(session, to) EXCEPT !.step = view.step + 1]
      PROVE  session'.state = to
  BY <1>5, MovedTyped, SteppedTyped
<1>6. CASE NextStep
  <2>1. session' = [Moved(session, "observing") EXCEPT !.step = view.step + 1]
        /\ view.step + 1 \in Nat
    BY <1>6, FieldsTyped DEF NextStep
  <2>2. session'.state = "observing" /\ "observing" \in Ongoing
    BY <1>1, <1>5, <2>1 DEF Ongoing
  <2>3. QED
    BY <2>2
<1>7. CASE ReplayFinished
  <2>1. PICK outcome \in {"completed", "prepared"} :
          /\ session' = [Moved(session, outcome) EXCEPT !.step = view.step + 1]
          /\ Reports(outcome)
    BY <1>7 DEF ReplayFinished
  <2>2. view.step + 1 \in Nat /\ outcome \in States
    BY <1>1, <1>7, FieldsTyped DEF ReplayFinished
  <2>3. session'.state = outcome /\ outcome \in Terminal
    BY <1>1, <1>5, <2>1, <2>2
  <2>4. finished' # {} /\ tasks'["stop"] > 0
    BY <1>7, <2>1, SpawnCounts DEF ReplayFinished, Reports, TaskKinds
  <2>5. QED
    BY <2>4, <2>3 DEF Ends
<1>8. CASE Abandon
  <2>1. session'.state = "abandoned"
    BY <1>1, <1>8, MovedTyped DEF Abandon
  <2>2. finished' # {} /\ tasks'["stop"] > 0
    BY <1>8, SpawnCounts DEF Abandon, Reports, TaskKinds
  <2>3. QED
    BY <1>1, <2>1, <2>2 DEF Ends
<1>9. ASSUME session' = Moved(session, "completed"), lock' = "saving"
      PROVE  Ends
  BY <1>1, <1>9, MovedTyped DEF Ends
<1>10. CASE SilentActionChecked
  <2>1. \/ session' = Moved(session, "completed") /\ lock' = "saving"
        \/ Same
    BY <1>10 DEF SilentActionChecked, Same
  <2>2. QED
    BY <1>9, <2>1
<1>11. CASE TaskCompleted
  BY <1>9, <1>11 DEF TaskCompleted
\* A row that cannot be escalated stays as it is.
<1>12. ASSUME NEW s \in Session, NEW why, NEW panel, Escalate(s, s, why, panel)
       PROVE  session' = s \/ Ends
  <2>1. CASE MayMove(s.state, "escalated")
    <3>1. session'.state = "escalated"
      BY <1>1, <1>12, <2>1, MovedTyped DEF Escalate
    <3>2. finished' # {} /\ tasks'["stop"] > 0
      BY <1>12, <2>1, SpawnCounts DEF Escalate, Reports, TaskKinds
    <3>3. QED
      BY <1>1, <3>1, <3>2 DEF Ends
  <2>2. CASE ~MayMove(s.state, "escalated")
    BY <1>12, <2>2 DEF Escalate
  <2>3. QED
    BY <2>1, <2>2
<1>13. CASE ReplayedStepNotVerified
  <2> DEFINE repairing == Repairing(session, view.repairs)
  <2>1. repairing \in Session /\ repairing.state \in Ongoing
    BY <1>13, RepairingTyped, FieldsTyped DEF ReplayedStepNotVerified, Ongoing
  <2>2. session' = repairing
          \/ Escalate(repairing, repairing, "two_failed_attempts", command)
    BY <1>13 DEF ReplayedStepNotVerified
  <2>3. session' = repairing \/ Ends
    BY <1>12, <2>1, <2>2
  <2>4. QED
    BY <2>1, <2>3
<1>14. ASSUME NEW decided \in BOOLEAN,
              \/ \E c \in Candidates : GuidancePresented(c, decided)
              \/ GuidanceWithheld(decided)
              \/ GuidanceEscalates(decided)
       PROVE Goal
  <2>1. view = session /\ Entered(decided) \in Session
        /\ EnteredView(decided) = Entered(decided)
    BY <1>14, EnteredTyped DEF GuidancePresented, GuidanceWithheld, GuidanceEscalates
  <2>2. Entered(decided) = session \/ Entered(decided).state \in Ongoing
    BY <2>1, RepairingTyped, FieldsTyped DEF Entered, Ongoing
  <2>3. CASE \E c \in Candidates : GuidancePresented(c, decided)
    <3> DEFINE shown == Moved(Moved(Entered(decided), "guiding"), "awaiting_user_action")
    <3>1. PICK c \in Candidates :
            \/ session' = Entered(decided) /\ active' = active
            \/ /\ session' = shown
               /\ active' = [target |-> c, version |-> shown.version, decided |-> decided]
      BY <2>3 DEF GuidancePresented
    <3>2. shown \in Session /\ shown.state = "awaiting_user_action" /\ shown.version \in Nat
      BY <1>1, <2>1, MovedTyped, FieldsTyped
    <3>3. CASE session' = Entered(decided) /\ active' = active
      BY <2>2, <3>3 DEF Same
    <3>4. CASE /\ session' = shown
               /\ active' = [target |-> c, version |-> shown.version, decided |-> decided]
      <4> DEFINE step == [target |-> c, version |-> shown.version, decided |-> decided]
      <4>1. step.version = shown.version
        OBVIOUS
      <4>2. step # None
        BY <3>2, NoneIsNoStep DEF ActiveStep
      <4>3. QED
        BY <3>2, <3>4, <4>1, <4>2 DEF Asks
    <3>5. QED
      BY <3>1, <3>3, <3>4
  <2>4. CASE GuidanceWithheld(decided)
    <3>1. active' = active
            /\ \/ session' = Entered(decided)
               \/ \E to \in Ongoing : session' = Moved(Entered(decided), to)
      BY <2>4 DEF GuidanceWithheld, Ongoing
    <3>2. QED
      BY <1>1, <2>1, <2>2, <3>1, MovedTyped DEF Same
  <2>5. CASE GuidanceEscalates(decided)
    <3>1. active' = active /\ (session' = Entered(decided) \/ Ends)
      BY <1>12, <2>1, <2>5 DEF GuidanceEscalates
    <3>2. QED
      BY <2>2, <3>1 DEF Same
  <2>6. QED
    BY <1>14, <2>3, <2>4, <2>5
<1>15. QED
  BY <1>2, <1>3, <1>4, <1>6, <1>7, <1>8, <1>9, <1>10, <1>11, <1>13, <1>14
  DEF Next, Event, Continue, Background, KeepsRow

\* While the lock is free nothing connects a browser, and only the stop task itself or a
\* crash takes a waiting stop task away.
LEMMA StopWaits ==
  ASSUME Inv, Next, lock = "free", ~Crash
  PROVE  browser' = "connected" =>
           browser = "connected" /\ tasks'["stop"] >= tasks["stop"]
<1> USE DEF fixed, store
<1>0. tasks \in [TaskKinds -> Nat] /\ "stop" \in TaskKinds /\ "stop" \notin GuideReasons
  BY DEF Inv, TypeOK, TaskKinds, GuideReasons
<1>1. ~Continue
  BY ContinueHolds
<1>2. ASSUME ParticipantStop \/ StopTask PROVE browser' # "connected"
  BY <1>2 DEF ParticipantStop, StopTask, BrowserStop
<1>3. ASSUME NEW e \in EventIds, Event(e)
      PROVE  browser' = browser /\ tasks'["stop"] >= tasks["stop"]
  <2>1. browser' = browser
    BY <1>3 DEF Event, HelpRequested, GuidanceDismissed, PageEvent, ActionIgnored, SilentAction,
       WrongAction, RightAction
  <2>2. tasks' = tasks \/ (Spawn("explicit_help") /\ "explicit_help" \in TaskKinds)
    BY <1>3 DEF Event, HelpRequested, GuidanceDismissed, PageEvent, ActionIgnored, SilentAction,
       WrongAction, RightAction, TaskKinds, GuideReasons
  <2>3. QED
    BY <1>0, <2>1, <2>2, SpawnCounts
<1>4. ASSUME NEW r \in GuideReasons, GuidanceMoot(r) \/ BeginGuidance(r)
      PROVE  browser' = browser /\ tasks'["stop"] = tasks["stop"]
  BY <1>0, <1>4 DEF GuidanceMoot, BeginGuidance, TakeTask, TaskKinds
<1>5. CASE ResumeAfterReroute
  BY <1>0, <1>5 DEF ResumeAfterReroute, TaskKinds
<1>6. CASE Abandon
  BY <1>0, <1>6, SpawnCounts DEF Abandon
<1>7. CASE AttachBrowser
  BY <1>0, <1>7 DEF AttachBrowser
<1>8. QED
  BY <1>0, <1>1, <1>2, <1>3, <1>4, <1>5, <1>6, <1>7 DEF Next, Background

\* A run that has ended is reported, and its browser given back or about to be.
LEMMA EndedStep ==
  ASSUME Inv, Next
  PROVE  EndedRunsAreReported'
<1> SUFFICES ASSUME Ended', Idle', ~crashed'
             PROVE  /\ finished' = {session'.state}
                    /\ browser' = "connected" => tasks'["stop"] > 0
  BY DEF EndedRunsAreReported
<1>0. /\ tasks \in [TaskKinds -> Nat] /\ "stop" \in TaskKinds
      /\ lock' = "free" /\ session'.state \in Terminal
      /\ tasks'["stop"] \in Nat
  BY TypeStep DEF Inv, TypeOK, TaskKinds, Ended, Idle
<1>1. finished' # {} => finished' = {session'.state}
  BY RowStep, ReportStep DEF Inv, OneOutcomeReported, Ended
<1>2. ~Crash /\ ~crashed
  <2>1. ~Crash
    BY DEF Crash
  <2>2. crashed' = crashed
    BY <2>1
    DEF Next, Event, Continue, Background, fixed,
        AttachBrowser, ParticipantStop, BrowserStop, BrowserStarted, BrowserUnavailable,
        HighlightCleared, ActionCheckRaises, StepNotVerified, ReplayedStepNotVerified,
        StepVerified, SilentActionChecked, TaskCompleted, CompletionSaved, ReplayFinished,
        NextStep, RepairRefused, ResumeAfterReroute, StopTask, HelpRequested,
        GuidanceDismissed, PageEvent, ActionIgnored, SilentAction, WrongAction, RightAction,
        GuidanceMoot, BeginGuidance, GuidancePresented, GuidanceWithheld, GuidanceEscalates,
        Abandon
  <2>3. QED
    BY <2>1, <2>2
\* It ended before this step, and its handler was done then.
<1>3. CASE Ended /\ Idle
  <2>1. finished # {} /\ (browser = "connected" => tasks["stop"] > 0)
    BY <1>2, <1>3 DEF Inv, EndedRunsAreReported
  <2>2. finished' # {}
    BY <2>1, ReportStep
  <2>3. browser' = "connected" => tasks'["stop"] > 0
    BY <1>0, <1>2, <1>3, <2>1, StopWaits DEF Idle
  <2>4. QED
    BY <1>1, <2>2, <2>3
\* It ended before, and what it had learned was being saved.
<1>4. CASE Ended /\ ~Idle
  <2>1. lock = "saving"
    BY <1>4 DEF Inv, HandlerKnowsState, HeldIn, Ended, Idle, Terminal, TypeOK, Awaits
  <2>2. ~ Frees \/ CompletionSaved
    BY <1>2, <2>1
    DEF Frees, BrowserStarted, BrowserUnavailable, HighlightCleared, ActionCheckRaises,
        StepNotVerified, ReplayedStepNotVerified, ReplayFinished, NextStep, RepairRefused,
        GuidancePresented, GuidanceWithheld, GuidanceEscalates
  <2>3. ~ Passes
    BY <2>1, LockPassed
  <2>4. CompletionSaved
    BY <1>0, <2>1, <2>2, <2>3
    DEF Next, Event, Continue, Background, Frees, Passes, AttachBrowser, SilentAction,
        WrongAction, RightAction, Accept, LockIsFree, Hold, ParticipantStop, StopTask,
        BrowserStop, StepVerified, SilentActionChecked, TaskCompleted, BeginGuidance, TakeTask
  <2>5. finished' # {} /\ tasks'["stop"] > 0
    BY <1>0, <2>4, SpawnCounts DEF CompletionSaved, Reports
  <2>6. QED
    BY <1>1, <2>5
\* It ends with this step.
<1>5. CASE ~Ended
  <2>1. session' # session
    BY <1>0, <1>5 DEF Ended
  <2>2. session'.state \notin Ongoing /\ session'.state # "awaiting_user_action"
    BY <1>0 DEF Terminal, Ongoing
  <2>3. finished' # {} /\ tasks'["stop"] > 0
    BY <1>0, <2>1, <2>2, RowMoves
  <2>4. QED
    BY <1>1, <2>3
<1>6. QED
  BY <1>3, <1>4, <1>5

\* The step a participant is asked for is the one the row was versioned with.
LEMMA AwaitedStep ==
  ASSUME Inv, Next
  PROVE  AwaitedStepIsCurrent'
<1> SUFFICES ASSUME session'.state = "awaiting_user_action", ~crashed'
             PROVE  active' # None /\ active'.version = session'.version
  BY DEF AwaitedStepIsCurrent
<1>1. ~Crash
  BY DEF Crash
<1>2. ~crashed
  BY <1>1
  DEF Next, Event, Continue, Background, fixed,
      AttachBrowser, ParticipantStop, BrowserStop, BrowserStarted, BrowserUnavailable,
      HighlightCleared, ActionCheckRaises, StepNotVerified, ReplayedStepNotVerified,
      StepVerified, SilentActionChecked, TaskCompleted, CompletionSaved, ReplayFinished,
      NextStep, RepairRefused, ResumeAfterReroute, StopTask, HelpRequested,
      GuidanceDismissed, PageEvent, ActionIgnored, SilentAction, WrongAction, RightAction,
      GuidanceMoot, BeginGuidance, GuidancePresented, GuidanceWithheld, GuidanceEscalates,
      Abandon
<1>3. "awaiting_user_action" \notin Ongoing \cup Terminal
  BY DEF Ongoing, Terminal
<1>4. CASE session' = session /\ active' = active
  BY <1>2, <1>4 DEF Inv, AwaitedStepIsCurrent
<1>5. QED
  BY <1>1, <1>3, <1>4, RowMoves

\* What can happen to a paused session.
LEMMA PauseStep ==
  ASSUME Inv, Next, session.state = "safety_paused", session'.state # "safety_paused"
  PROVE  \/ session'.state = "observing" /\ \E e \in EventIds : IsNew(e) /\ accepted'[e] = "dismiss"
         \/ session'.state \in {"abandoned", "escalated"}
<1> DEFINE Dismissed == /\ session'.state = "observing"
                        /\ \E e \in EventIds : IsNew(e) /\ accepted'[e] = "dismiss"
<1>0. /\ session \in Session /\ (lock # "free" => view = session)
      /\ session' # session
      /\ accepted \in [EventIds -> {"none", "help", "dismiss", "action", "other"}]
  BY DEF Inv, TypeOK, LockedViewIsCurrent
<1>1. lock \in {"free", "guiding"}
  BY DEF Inv, TypeOK, Awaits, HandlerKnowsState, HeldIn
<1>2. /\ {"observing", "safety_paused", "abandoned", "escalated"} \subseteq States
      /\ \A to \in {"guiding", "repairing", "provider_unavailable"} :
           ~MayMove("safety_paused", to)
  BY DEF States, Terminal, MayMove, Allowed
<1>3. ~KeepsRow
  BY <1>0, RowKept
<1>4. ASSUME NEW e \in EventIds, GuidanceDismissed(e) PROVE Dismissed
  <2>1. session' = Moved(session, "observing")
    BY <1>0, <1>4 DEF GuidanceDismissed
  <2>2. session'.state = "observing"
    BY <1>0, <1>2, <2>1, MovedTyped
  <2>3. IsNew(e) /\ accepted'[e] = "dismiss"
    BY <1>0, <1>4 DEF GuidanceDismissed, Accept
  <2>4. QED
    BY <2>2, <2>3
<1>5. CASE Abandon
  BY <1>0, <1>2, <1>5, MovedTyped DEF Abandon
<1>6. ASSUME NEW decided \in BOOLEAN, MayEnter(decided), lock = "guiding"
      PROVE  Entered(decided) = session /\ EnteredView(decided) = session
  BY <1>0, <1>2, <1>6 DEF MayEnter, EntersRepair, Entered, EnteredView
<1>7. ASSUME NEW c \in Candidates, NEW decided \in BOOLEAN, GuidancePresented(c, decided)
      PROVE  FALSE
  BY <1>0, <1>2, <1>6, <1>7 DEF GuidancePresented
<1>8. ASSUME NEW decided \in BOOLEAN, GuidanceWithheld(decided)
      PROVE  FALSE
  <2>1. session' = session \/ session' = Moved(session, "safety_paused")
    BY <1>0, <1>2, <1>6, <1>8 DEF GuidanceWithheld
  <2>2. Moved(session, "safety_paused").state = "safety_paused"
    BY <1>0, <1>2, MovedTyped
  <2>3. QED
    BY <1>0, <2>1, <2>2
<1>9. ASSUME NEW decided \in BOOLEAN, GuidanceEscalates(decided)
      PROVE  session'.state = "escalated"
  <2>1. session' = Moved(session, "escalated")
    BY <1>0, <1>6, <1>9 DEF GuidanceEscalates, Escalate
  <2>2. QED
    BY <1>0, <1>2, <2>1, MovedTyped
\* The other steps need another state, or a handler that waits elsewhere.
<1>10. QED
  BY <1>0, <1>1, <1>3, <1>4, <1>5, <1>7, <1>8, <1>9
  DEF Next, Event, Continue, Background, KeepsRow, PageEvent, WrongAction, RightAction,
      AwaitsStep, BrowserStarted, BrowserUnavailable, StepNotVerified,
      ReplayedStepNotVerified, SilentActionChecked, TaskCompleted, ReplayFinished, NextStep,
      ResumeAfterReroute

LEMMA InitInv == Init => Inv
<1> SUFFICES ASSUME Init PROVE Inv
  OBVIOUS
<1>1. TypeOK
  <2>1. session \in Session
    BY DEF Init, Session, States
  <2>2. accepted \in [EventIds -> {"none", "help", "dismiss", "action", "other"}]
    BY DEF Init
  <2>3. tasks \in [TaskKinds -> Nat]
    BY DEF Init
  <2>4. abandons \in 0..MaxAbandons
    BY ConstantsOK DEF Init, ConstantsOK
  <2>5. QED
    BY <2>1, <2>2, <2>3, <2>4 DEF Init, TypeOK, Awaits
<1>2. StepsCounted
  <2>1. Actions = {}
    BY DEF Init, Actions
  <2>2. Cardinality(Actions) = 0
    BY <2>1, FS_EmptySet
  <2>3. QED
    BY <2>2 DEF Init, StepsCounted, MayStep, MayRecord
<1>3. LockedViewIsCurrent /\ ReasonKnown /\ HandlerKnowsState /\ OneOutcomeReported
  BY DEF Init, LockedViewIsCurrent, ReasonKnown, HandlerKnowsState, OneOutcomeReported
<1>4. EndedRunsAreReported /\ AwaitedStepIsCurrent
  BY DEF Init, EndedRunsAreReported, AwaitedStepIsCurrent, Ended, Terminal
<1>5. FailuresAreAttempts /\ TwoFailuresStopReplay
  BY DEF Init, FailuresAreAttempts, TwoFailuresStopReplay
<1>6. QED
  BY <1>1, <1>2, <1>3, <1>4, <1>5 DEF Inv

LEMMA InvStep == Inv /\ [Next]_vars => Inv'
<1> SUFFICES ASSUME Inv, [Next]_vars PROVE Inv'
  OBVIOUS
<1>1. CASE Next
  <2>1. TypeOK' /\ LockedViewIsCurrent' /\ ReasonKnown' /\ HandlerKnowsState'
    BY <1>1, TypeStep, LockStep, HandlerStep
  <2>2. OneOutcomeReported'
    BY <1>1, RowStep, ReportStep DEF Inv, OneOutcomeReported, Ended
  <2>3. EndedRunsAreReported' /\ AwaitedStepIsCurrent'
    BY <1>1, EndedStep, AwaitedStep
  <2>4. StepsCounted' /\ FailuresAreAttempts' /\ TwoFailuresStopReplay'
    BY <1>1, CountStep, FailuresStep
  <2>5. QED
    BY <2>1, <2>2, <2>3, <2>4 DEF Inv
<1>2. CASE UNCHANGED vars
  <2>1. TypeOK' /\ LockedViewIsCurrent' /\ ReasonKnown'
    BY TypeStep, LockStep
  <2>2. HandlerKnowsState' /\ OneOutcomeReported' /\ EndedRunsAreReported'
        /\ AwaitedStepIsCurrent'
    BY <1>2
    DEF vars, store, memory, Inv, HandlerKnowsState, OneOutcomeReported, EndedRunsAreReported,
        AwaitedStepIsCurrent, Ended, Idle
  <2>3. StepsCounted' /\ FailuresAreAttempts' /\ TwoFailuresStopReplay'
    BY <1>2
    DEF vars, store, memory, Inv, StepsCounted, MayStep, MayRecord, Actions,
        FailuresAreAttempts, TwoFailuresStopReplay
  <2>4. QED
    BY <2>1, <2>2, <2>3 DEF Inv
<1>3. QED
  BY <1>1, <1>2

-----------------------------------------------------------------------------
(* The theorems. *)

\* The inductive invariant holds of every session.
THEOREM InvHolds == Spec => []Inv
BY InitInv, InvStep, PTL DEF Spec

\* Every value stays of its type, whatever events arrive in whatever order.
THEOREM TypeCorrect == Spec => []TypeOK
<1>1. Inv => TypeOK
  BY DEF Inv
<1>2. QED
  BY <1>1, InvHolds, PTL

\* No handler of the session works with a row another one has changed.
THEOREM LockExcludes == Spec => []LockedViewIsCurrent
<1>1. Inv => LockedViewIsCurrent
  BY DEF Inv
<1>2. QED
  BY <1>1, InvHolds, PTL

\* A session's end is reported under one outcome only, the one it ended with.
THEOREM OutcomeUnique == Spec => []OneOutcomeReported
<1>1. Inv => OneOutcomeReported
  BY DEF Inv
<1>2. QED
  BY <1>1, InvHolds, PTL

\* Every end is reported and every browser given back, whatever failed on the way there.
THEOREM RunsReported == Spec => []EndedRunsAreReported
<1>1. Inv => EndedRunsAreReported
  BY DEF Inv
<1>2. QED
  BY <1>1, InvHolds, PTL

\* No redelivered or unasked action advances the routine or lengthens the route, however
\* many events there are.
THEOREM StepsAreActions == Spec => []StepsTakeActions
<1>1. Inv => StepsTakeActions
  <2> SUFFICES ASSUME Inv PROVE StepsTakeActions
    OBVIOUS
  <2>1. Cardinality(Actions) \in Nat
    BY FS_Subset, FS_CardinalityType, ConstantsOK DEF Actions, ConstantsOK
  <2>2. session.step \in Nat /\ recorded \in Nat
    BY FieldsTyped DEF Inv, TypeOK
  <2>3. QED
    BY <2>1, <2>2 DEF Inv, StepsCounted, MayStep, MayRecord, StepsTakeActions
<1>2. QED
  BY <1>1, InvHolds, PTL

\* The second failed verification of a replay ends it, however long the routine is.
THEOREM TwoFailuresEnd == Spec => []TwoFailuresStopReplay
<1>1. Inv => TwoFailuresStopReplay
  BY DEF Inv
<1>2. QED
  BY <1>1, InvHolds, PTL

\* A participant asked for an action is asked for the step the orchestrator holds.
THEOREM AwaitedCurrent == Spec => []AwaitedStepIsCurrent
<1>1. Inv => AwaitedStepIsCurrent
  BY DEF Inv
<1>2. QED
  BY <1>1, InvHolds, PTL

\* A terminal state is final.
THEOREM EndStays == Spec => EndIsFinal
<1>1. Inv /\ [Next]_vars => [Ended => session'.state = session.state]_session
  <2>1. Inv /\ Next => (Ended => session'.state = session.state)
    BY RowStep
  <2>2. UNCHANGED vars => UNCHANGED session
    BY DEF vars, store
  <2>3. QED
    BY <2>1, <2>2
<1>2. QED
  BY <1>1, InvHolds, PTL DEF Spec, EndIsFinal

\* Nothing the backend does on its own leaves a safety pause, except escalating it.
THEOREM PauseHolds == Spec => PauseNeedsAPerson
<1> DEFINE Person ==
      \/ session'.state = "observing" /\ \E e \in EventIds : IsNew(e) /\ accepted'[e] = "dismiss"
      \/ session'.state \in {"abandoned", "escalated"}
<1>1. Inv /\ [Next]_vars =>
        [session.state = "safety_paused" /\ session'.state # "safety_paused" => Person]_session
  <2>1. Inv /\ Next => (session.state = "safety_paused" /\ session'.state # "safety_paused"
                        => Person)
    BY PauseStep
  <2>2. UNCHANGED vars => UNCHANGED session
    BY DEF vars, store
  <2>3. QED
    BY <2>1, <2>2
<1>2. QED
  BY <1>1, InvHolds, PTL DEF Spec, PauseNeedsAPerson

\* The orchestrator implements the lifecycle: a session ends once, is reported
\* once, with that outcome, and changes neither afterwards.
THEOREM LifecycleImplemented == Spec => ImplementsLifecycle
<1> DEFINE ended == IF Ended THEN {session.state} ELSE {}
<1>1. Init => Lifecycle!Init
  BY DEF Init, Lifecycle!Init, Ended, Terminal
<1>2. Inv /\ [Next]_vars => [Lifecycle!Next]_(Lifecycle!vars)
  <2> SUFFICES ASSUME Inv, [Next]_vars PROVE [Lifecycle!Next]_(Lifecycle!vars)
    OBVIOUS
  <2>1. CASE Next /\ Ended
    <3>1. session'.state = session.state /\ ended' = ended /\ ended # {}
      BY <2>1, RowStep DEF Ended
    <3>2. \/ finished' = finished
          \/ finished = {} /\ finished' = ended
      BY <2>1, <3>1, ReportStep DEF Inv, OneOutcomeReported, Ended
    <3>3. QED
      BY <3>1, <3>2 DEF Lifecycle!Next, Lifecycle!Report, Lifecycle!vars
  <2>2. CASE Next /\ ~Ended
    <3>1. ended = {} /\ finished = {}
      BY <2>2 DEF Inv, OneOutcomeReported
    <3>2. CASE session'.state \in Terminal
      <4>1. ended' = {session'.state} /\ finished' \in {{}, {session'.state}}
        BY <2>2, <3>1, <3>2, ReportStep DEF Ended
      <4>2. Lifecycle!End(session'.state)
        BY <3>1, <4>1 DEF Lifecycle!End
      <4>3. QED
        BY <3>2, <4>2 DEF Lifecycle!Next
    <3>3. CASE session'.state \notin Terminal
      BY <2>2, <3>1, <3>3, ReportStep DEF Ended, Lifecycle!vars
    <3>4. QED
      BY <3>2, <3>3
  <2>3. CASE UNCHANGED vars
    BY <2>3 DEF vars, store, Lifecycle!vars, Ended
  <2>4. QED
    BY <2>1, <2>2, <2>3
<1>3. QED
  BY <1>1, <1>2, InvHolds, PTL DEF Spec, ImplementsLifecycle, Lifecycle!Spec
=============================================================================
