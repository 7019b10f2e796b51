---------------------------- MODULE Orchestrator ----------------------------
(***************************************************************************)
(* One guided web session under services/orchestrator.py.                  *)
(*                                                                         *)
(* Every handler that changes the session takes the session's asyncio lock *)
(* and reads the row once; it then checks each transition against THAT     *)
(* copy (`view`), while repository.update_session merges the change into   *)
(* the row as it is by then.  A handler is cut at its awaits: what it runs *)
(* between two of them is one step, `lock` names the await it stands at.   *)
(* stop_browser runs without the lock.  Handlers that asyncio.create_task  *)
(* started and that have not taken the lock yet are counted in `tasks`.    *)
(* A crash loses everything but the SQLite rows.                           *)
(***************************************************************************)
EXTENDS Sessions, Naturals, FiniteSets

CONSTANTS
  Modes,        \* the modes a session may be created in
  EventIds,     \* event_id values a client may send
  Candidates,   \* page elements guidance may point at
  SkillSteps,   \* len(skill.steps) of the routine a replay session runs
  MaxAbandons,  \* bound: calls of abandon that change the row
  Faults,       \* which of "provider" (a browser call raises) and "crash" occur
  None

GuideReasons == {"replay_started", "explicit_help", "step_verified",
                 "verification_failed", "wrong_click"}
EscalationReasons == GuideReasons \cup {"two_failed_attempts"}
TaskKinds == GuideReasons \cup {"resume", "stop"}

ASSUME ConstantsOK ==
  /\ Modes \subseteq {"observe", "cold_teach", "replay"}
  /\ IsFiniteSet(EventIds)
  /\ SkillSteps \in Nat \ {0}
  /\ MaxAbandons \in Nat
  /\ None \notin Candidates \cup GuideReasons

VARIABLES
  mode,         \* session.mode, fixed when the session is created
  session,      \* the web_sessions row
  browser,      \* session.browser_status
  accepted,     \* event_ledger: what each recorded event_id was
  recorded,     \* number of recorded_steps rows
  escalations,  \* reasons in the escalations table
  finished,     \* outcomes of the session_run ":finished:" outbox rows
  runtime,      \* the controller holds a live browser for the session
  active,       \* _active: the step the participant is asked to take
  command,      \* _commands: the panel command of the session
  tasks,        \* handlers started with create_task, waiting for the lock
  lock,         \* "free", or where the handler that holds the lock waits
  view,         \* the row as that handler read it
  reason,       \* the reason of a running begin_guidance
  crashed,      \* the process has been restarted once
  abandons,     \* abandon calls so far (bounded by MaxAbandons)
  failures      \* history: verifications of a replayed step that failed

store  == <<session, browser, accepted, recorded, escalations, finished>>
memory == <<runtime, active, command, tasks, lock, view, reason>>
vars   == <<mode, store, memory, crashed, abandons, failures>>

Awaits == {"attaching", "clearing", "checking", "completing", "silent",
           "saving", "guiding"}

Session == [state: States, version: Nat, step: Nat, repairs: 0..2,
            bound: BOOLEAN]
ActiveStep == [target: Candidates, version: Nat, decided: BOOLEAN]
PanelTypes == {"offer_help", "present_guidance", "safety_pause",
               "provider_unavailable", "completed", "prepared", "escalated"}
Command == [type: PanelTypes, version: Nat, target: Candidates \cup {None}]

ASSUME NoneIsNoStep == None \notin ActiveStep

TypeOK ==
  /\ mode \in Modes
  /\ session \in Session
  /\ browser \in {"none", "connected", "unavailable", "stopped",
                  "termination_failed"}
  /\ accepted \in [EventIds -> {"none", "help", "dismiss", "action", "other"}]
  /\ recorded \in Nat
  /\ escalations \subseteq EscalationReasons
  /\ finished \subseteq Terminal
  /\ runtime \in BOOLEAN
  /\ active \in ActiveStep \cup {None}
  /\ command \in Command \cup {None}
  /\ tasks \in [TaskKinds -> Nat]
  /\ lock \in Awaits \cup {"free"}
  /\ view \in Session \cup {None}
  /\ reason \in GuideReasons \cup {None}
  /\ crashed \in BOOLEAN
  /\ abandons \in 0..MaxAbandons
  /\ failures \in Nat

Init ==
  /\ mode \in Modes
  /\ session = [state |-> "created", version |-> 0, step |-> 0,
                repairs |-> 0, bound |-> FALSE]
  /\ browser = "none"
  /\ accepted = [e \in EventIds |-> "none"]
  /\ recorded = 0
  /\ escalations = {}
  /\ finished = {}
  /\ runtime = FALSE
  /\ active = None
  /\ command = None
  /\ tasks = [k \in TaskKinds |-> 0]
  /\ lock = "free"
  /\ view = None
  /\ reason = None
  /\ crashed = FALSE
  /\ abandons = 0
  /\ failures = 0

-----------------------------------------------------------------------------
(* Helpers *)

\* A row after _transition(view, to): the check is made on the view, the
\* update on the row.
Moved(row, to) == [row EXCEPT !.state = to, !.version = @ + 1]

\* Mutants of Repairing: the cap of two is lost, attempts do not add up.
RepairingUncapped(row, attempts) ==
  [Moved(row, "repairing") EXCEPT !.repairs = attempts + 1]
RepairingForgetful(row, attempts) ==
  [Moved(row, "repairing") EXCEPT !.repairs = 1]

\* repair_attempts=min(view.repair_attempts + 1, 2)
Repairing(row, attempts) ==
  [Moved(row, "repairing") EXCEPT
     !.repairs = IF attempts >= 1 THEN 2 ELSE attempts + 1]

Panel(type, version, target) ==
  [type |-> type, version |-> version, target |-> target]

Spawn(kind) == tasks' = [tasks EXCEPT ![kind] = @ + 1]

\* Mutant of LockIsFree: begin_guidance lets go of the lock while it awaits.
LockIsOpen == lock \in {"free", "guiding"}

LockIsFree == lock = "free"

Hold(op, copy) == lock' = op /\ view' = copy /\ reason' = None
Release == lock' = "free" /\ view' = None /\ reason' = None

\* A handler that raises leaves what it has already written.
Raises == Release /\ UNCHANGED <<store, runtime, active, command, tasks>>

\* A browser call may raise: the runtime is gone, or the provider fails.
BrowserCallFails == ~runtime \/ "provider" \in Faults

\* _finish_run: INSERT OR IGNORE under the key of this outcome.
Reports(outcome) == finished' = finished \cup {outcome}

\* create_escalation: INSERT OR IGNORE, one row per session and reason.
Pends(why) == escalations' = escalations \cup {why}

\* record_verified_step appends a step to the route of the session.
Routed(verified) == IF verified THEN recorded + 1 ELSE recorded

fixed == <<mode, crashed, abandons, failures>>

-----------------------------------------------------------------------------
(* Attaching a browser *)

AttachBrowser ==
  /\ LockIsFree
  /\ session.state = "created"
  /\ Hold("attaching", session)
  /\ UNCHANGED <<fixed, store, runtime, active, command, tasks>>

BrowserStarted ==
  /\ lock = "attaching"
  /\ MayMove(view.state, "observing")
  /\ session' = [Moved(session, "observing") EXCEPT !.bound = TRUE]
  /\ browser' = "connected"
  /\ runtime' = TRUE
  /\ IF mode = "replay" THEN Spawn("replay_started") ELSE UNCHANGED tasks
  /\ Release
  /\ UNCHANGED <<fixed, accepted, recorded, escalations, finished, active,
                 command>>

BrowserUnavailable ==
  /\ lock = "attaching"
  /\ MayMove(view.state, "provider_unavailable")
  /\ session' = Moved(session, "provider_unavailable")
  /\ browser' = "unavailable"
  /\ Release
  /\ UNCHANGED <<fixed, accepted, recorded, escalations, finished, runtime,
                 active, command, tasks>>

\* Mutant of BrowserStop: the update is not marked increment_version=False.
BrowserStopVersioned ==
  /\ lock # "attaching"
  /\ runtime' = FALSE
  /\ browser' \in {"stopped", "termination_failed"}
  /\ session' = [session EXCEPT !.version = @ + 1]
  /\ UNCHANGED <<fixed, accepted, recorded, escalations, finished, active,
                 command, lock, view, reason>>

\* stop_browser, called by a route or by a "stop" task.  browser.stop waits
\* for the controller lock, which browser.start holds while it attaches.
BrowserStop ==
  /\ lock # "attaching"
  /\ runtime' = FALSE
  /\ browser' \in {"stopped", "termination_failed"}
  /\ UNCHANGED <<fixed, session, accepted, recorded, escalations, finished,
                 active, command, lock, view, reason>>

ParticipantStop == BrowserStop /\ UNCHANGED tasks

StopTask ==
  /\ tasks["stop"] > 0
  /\ BrowserStop
  /\ tasks' = [tasks EXCEPT !["stop"] = @ - 1]

-----------------------------------------------------------------------------
(* Events: handle_event appends the event, INSERT OR IGNORE by event_id, and
   returns at once when it was there already. *)

\* Mutant of IsNew: the event ledger has no unique event_id.
IsNewOrRedelivered(e) == accepted[e] \in {"none", "action"}

IsNew(e) == accepted[e] = "none"

Accept(e, kind) ==
  /\ LockIsFree
  /\ session.bound
  /\ IsNew(e)
  /\ accepted' = [accepted EXCEPT ![e] = kind]

HelpRequested(e) ==
  /\ Accept(e, "help")
  /\ Spawn("explicit_help")
  /\ UNCHANGED <<fixed, session, browser, recorded, escalations, finished,
                 runtime, active, command, lock, view, reason>>

\* The event stays in the ledger when the transition is refused.
GuidanceDismissed(e) ==
  /\ Accept(e, "dismiss")
  /\ IF MayMove(session.state, "observing")
     THEN session' = Moved(session, "observing") /\ command' = None
     ELSE UNCHANGED <<session, command>>
  /\ UNCHANGED <<fixed, browser, recorded, escalations, finished, runtime,
                 active, tasks, lock, view, reason>>

\* Any other event.  The stuck detector may find a reason to offer help,
\* which is offered in OBSERVING only, and outside the dismissal cooldown.
PageEvent(e) ==
  /\ Accept(e, "other")
  /\ \/ /\ session.state = "observing"
        /\ session' = Moved(session, "help_offered")
        /\ command' = Panel("offer_help", session.version + 1, None)
     \/ UNCHANGED <<session, command>>
  /\ UNCHANGED <<fixed, browser, recorded, escalations, finished, runtime,
                 active, tasks, lock, view, reason>>

-----------------------------------------------------------------------------
(* _handle_user_action *)

RecordsSilently == mode = "observe" /\ session.state = "observing"
AwaitsStep == active # None /\ session.state = "awaiting_user_action"

\* A trusted action while no step is pending changes nothing else.
ActionIgnored(e) ==
  /\ Accept(e, "action")
  /\ ~RecordsSilently /\ ~AwaitsStep
  /\ UNCHANGED <<fixed, session, browser, recorded, escalations, finished,
                 runtime, active, command, tasks, lock, view, reason>>

SilentAction(e) ==
  /\ Accept(e, "action")
  /\ RecordsSilently
  /\ Hold("silent", session)
  /\ UNCHANGED <<fixed, session, browser, recorded, escalations, finished,
                 runtime, active, command, tasks>>

WrongAction(e, c) ==
  /\ Accept(e, "action")
  /\ ~RecordsSilently /\ AwaitsStep
  /\ c # active.target
  /\ MayMove(session.state, "rerouting")
  /\ session' = Moved(session, "rerouting")
  /\ Hold("clearing", session')
  /\ UNCHANGED <<fixed, browser, recorded, escalations, finished, runtime,
                 active, command, tasks>>

RightAction(e) ==
  /\ Accept(e, "action")
  /\ ~RecordsSilently /\ AwaitsStep
  /\ MayMove(session.state, "verifying")
  /\ session' = Moved(session, "verifying")
  /\ Hold("checking", session')
  /\ UNCHANGED <<fixed, browser, recorded, escalations, finished, runtime,
                 active, command, tasks>>

\* After clear_highlight of a wrong action.
HighlightCleared ==
  /\ lock = "clearing"
  /\ runtime
  /\ Spawn("resume")
  /\ Release
  /\ UNCHANGED <<fixed, store, runtime, active, command>>

\* clear_highlight, verify or the completion predicate raises.
ActionCheckRaises ==
  /\ \/ lock \in {"clearing", "checking", "silent"}
     \/ lock = "completing" /\ mode # "replay"
  /\ BrowserCallFails
  /\ Raises
  /\ UNCHANGED fixed

\* _escalate(v, why) on the row s: the escalations row is committed before
\* the transition is checked, and `panel` is then all that is left behind.
Escalate(s, v, why, panel) ==
  /\ Pends(why)
  /\ IF MayMove(v.state, "escalated")
     THEN /\ session' = Moved(s, "escalated")
          /\ Reports("escalated")
          /\ command' = Panel("escalated", s.version + 1, None)
          /\ Spawn("stop")
     ELSE /\ session' = s
          /\ command' = panel
          /\ UNCHANGED <<finished, tasks>>

\* verify returned False.
StepNotVerified ==
  /\ lock = "checking" /\ runtime
  /\ mode # "replay"
  /\ MayMove(view.state, "rerouting")
  /\ session' = Moved(session, "rerouting")
  /\ Spawn("resume")
  /\ Release
  /\ UNCHANGED <<fixed, browser, accepted, recorded, escalations, finished,
                 runtime, active, command>>

ReplayedStepNotVerified ==
  /\ lock = "checking" /\ runtime
  /\ mode = "replay"
  /\ MayMove(view.state, "repairing")
  /\ failures' = failures + 1
  /\ LET repairing == Repairing(session, view.repairs)
     IN  IF repairing.repairs >= 2
         THEN Escalate(repairing, repairing, "two_failed_attempts", command)
         ELSE /\ session' = repairing
              /\ Spawn("verification_failed")
              /\ UNCHANGED <<escalations, finished, command>>
  /\ Release
  /\ UNCHANGED <<mode, crashed, abandons, browser, accepted, recorded, runtime,
                 active>>

\* verify returned True: a step guidance decided on is added to the route.
StepVerified ==
  /\ lock = "checking" /\ runtime
  /\ active # None
  /\ recorded' = Routed(active.decided)
  /\ Hold("completing", view)
  /\ UNCHANGED <<fixed, session, browser, accepted, escalations, finished,
                 runtime, active, command, tasks>>

\* _record_silent_action: verified or not, completion is looked at.
SilentActionChecked ==
  /\ lock = "silent" /\ runtime
  /\ \E verified \in BOOLEAN : recorded' = Routed(verified)
  /\ \/ /\ MayMove(view.state, "completed")
        /\ session' = Moved(session, "completed")
        /\ Hold("saving", session')
     \/ /\ UNCHANGED session
        /\ Release
  /\ UNCHANGED <<fixed, browser, accepted, escalations, finished, runtime,
                 active, command, tasks>>

\* The completion predicate holds; _complete then awaits save_teach_run.
TaskCompleted ==
  /\ lock = "completing" /\ runtime
  /\ mode # "replay"
  /\ MayMove(view.state, "completed")
  /\ session' = Moved(session, "completed")
  /\ Hold("saving", session')
  /\ UNCHANGED <<fixed, browser, accepted, recorded, escalations, finished,
                 runtime, active, command, tasks>>

\* Mutant of CompletionSaved: an error of save_teach_run ends the handler.
CompletionRaises ==
  /\ lock = "saving"
  /\ Raises
  /\ UNCHANGED fixed

\* save_teach_run returned or raised: _complete goes on either way.
CompletionSaved ==
  /\ lock = "saving"
  /\ Reports("completed")
  /\ command' = Panel("completed", session.version, None)
  /\ Spawn("stop")
  /\ Release
  /\ UNCHANGED <<fixed, session, browser, accepted, recorded, escalations,
                 runtime, active>>

LastStep == mode = "replay" /\ view.step + 1 >= SkillSteps

\* _finish_replay: the outcome is the one the skill was saved with.
ReplayFinished ==
  /\ lock = "completing"
  /\ LastStep
  /\ \E outcome \in {"completed", "prepared"} :
       /\ MayMove(view.state, outcome)
       /\ session' = [Moved(session, outcome) EXCEPT !.step = view.step + 1]
       /\ Reports(outcome)
       /\ command' = Panel(outcome, session'.version, None)
  /\ active' = None
  /\ Spawn("stop")
  /\ Release
  /\ UNCHANGED <<fixed, browser, accepted, recorded, escalations, runtime>>

NextStep ==
  /\ lock = "completing"
  /\ IF mode = "replay" THEN ~LastStep ELSE runtime
  /\ MayMove(view.state, "observing")
  /\ session' = [Moved(session, "observing") EXCEPT !.step = view.step + 1]
  /\ active' = None
  /\ Spawn("step_verified")
  /\ Release
  /\ UNCHANGED <<fixed, browser, accepted, recorded, escalations, finished,
                 runtime, command>>

-----------------------------------------------------------------------------
(* begin_guidance, as a task *)

TakeTask(kind) ==
  /\ LockIsFree
  /\ tasks[kind] > 0
  /\ tasks' = [tasks EXCEPT ![kind] = @ - 1]

\* The session is over, or snapshot raises: nothing happens.
GuidanceMoot(r) ==
  /\ TakeTask(r)
  /\ session.state \in Terminal \/ BrowserCallFails
  /\ UNCHANGED <<fixed, store, runtime, active, command, lock, view, reason>>

BeginGuidance(r) ==
  /\ TakeTask(r)
  /\ session.state \notin Terminal
  /\ runtime
  /\ lock' = "guiding" /\ view' = session /\ reason' = r
  /\ UNCHANGED <<fixed, store, runtime, active, command>>

\* A replay session whose step the model had to decide is repairing it; the
\* handler continues with the row that transition returned.
EntersRepair(decided) ==
  mode = "replay" /\ decided /\ view.state # "repairing"
Entered(decided) ==
  IF EntersRepair(decided) THEN Repairing(session, view.repairs) ELSE session
EnteredView(decided) ==
  IF EntersRepair(decided) THEN Entered(decided) ELSE view
MayEnter(decided) ==
  EntersRepair(decided) => MayMove(view.state, "repairing")

\* Whether a model decision is in the result.  Replay resolves stored selectors
\* first and asks the model only while fewer than two repairs were attempted.
Decides(decided) ==
  IF decided THEN mode # "replay" \/ view.repairs < 2 ELSE mode = "replay"

\* The transition to REPAIRING is refused before the result is looked at.
RepairRefused ==
  /\ lock = "guiding"
  /\ Decides(TRUE) /\ ~MayEnter(TRUE)
  /\ Raises
  /\ UNCHANGED fixed

\* One target is highlighted and asked for.
GuidancePresented(c, decided) ==
  /\ lock = "guiding" /\ runtime
  /\ Decides(decided) /\ MayEnter(decided)
  /\ LET entered == Entered(decided)
         shown == Moved(Moved(entered, "guiding"), "awaiting_user_action")
     IN  IF MayMove(EnteredView(decided).state, "guiding")
         THEN /\ session' = shown
              /\ command' = Panel("present_guidance", shown.version, c)
              /\ active' = [target |-> c, version |-> shown.version,
                            decided |-> decided]
         ELSE /\ session' = entered
              /\ command' = Panel("present_guidance", view.version + 1, c)
              /\ UNCHANGED active
  /\ Release
  /\ UNCHANGED <<fixed, browser, accepted, recorded, escalations, finished,
                 runtime, tasks>>

\* A result that shows no step: a safety pause on a decision, or the provider
\* being unavailable (guidance.decide turns every error into this, and so does
\* a replay whose skill cannot be loaded).  The command is stored, then the
\* transition is tried.
GuidanceWithheld(decided) ==
  /\ lock = "guiding"
  /\ decided => Decides(decided)
  /\ MayEnter(decided)
  /\ LET to == IF decided THEN "safety_paused" ELSE "provider_unavailable"
     IN  session' = IF MayMove(EnteredView(decided).state, to)
                    THEN Moved(Entered(decided), to)
                    ELSE Entered(decided)
  /\ command' = Panel(IF decided THEN "safety_pause" ELSE "provider_unavailable",
                      view.version + 1, None)
  /\ Release
  /\ UNCHANGED <<fixed, browser, accepted, recorded, escalations, finished,
                 runtime, active, tasks>>

\* Low confidence or an escalating safety verdict on a decision, or a replay
\* step that cannot be resolved after two repairs.
GuidanceEscalates(decided) ==
  /\ lock = "guiding"
  /\ IF decided THEN Decides(TRUE) ELSE mode = "replay" /\ view.repairs >= 2
  /\ MayEnter(decided)
  /\ Escalate(Entered(decided), EnteredView(decided), reason,
              Panel(IF decided THEN "safety_pause" ELSE "escalated",
                    view.version + 1, None))
  /\ Release
  /\ UNCHANGED <<fixed, browser, accepted, recorded, runtime, active>>

-----------------------------------------------------------------------------
(* _resume_after_reroute, abandon, restart *)

\* The transition it wants is REROUTING -> OBSERVING.
ResumeAfterReroute ==
  /\ LockIsFree
  /\ tasks["resume"] > 0
  /\ IF session.state = "rerouting" /\ MayMove(session.state, "observing")
     THEN /\ session' = Moved(session, "observing")
          /\ tasks' = [tasks EXCEPT !["resume"] = @ - 1, !["wrong_click"] = @ + 1]
     ELSE /\ tasks' = [tasks EXCEPT !["resume"] = @ - 1]
          /\ UNCHANGED session
  /\ UNCHANGED <<fixed, browser, accepted, recorded, escalations, finished,
                 runtime, active, command, lock, view, reason>>

\* abandon: a completed or prepared session is returned as it is.
Abandon ==
  /\ LockIsFree
  /\ abandons < MaxAbandons
  /\ session.state \notin {"completed", "prepared"}
  /\ MayMove(session.state, "abandoned")
  /\ session' = Moved(session, "abandoned")
  /\ Reports("abandoned")
  /\ Spawn("stop")
  /\ abandons' = abandons + 1
  /\ UNCHANGED <<mode, crashed, failures, browser, accepted, recorded,
                 escalations, runtime, active, command, lock, view, reason>>

\* The process dies and starts again: the rows stay, nothing else does.
Crash ==
  /\ "crash" \in Faults /\ ~crashed
  /\ crashed' = TRUE
  /\ runtime' = FALSE
  /\ active' = None
  /\ command' = None
  /\ tasks' = [k \in TaskKinds |-> 0]
  /\ Release
  /\ UNCHANGED <<mode, store, abandons, failures>>

-----------------------------------------------------------------------------
Event(e) ==
  \/ HelpRequested(e)
  \/ GuidanceDismissed(e)
  \/ PageEvent(e)
  \/ ActionIgnored(e)
  \/ SilentAction(e)
  \/ \E c \in Candidates : WrongAction(e, c)
  \/ RightAction(e)

\* Steps of a handler that holds the lock.
Continue ==
  \/ BrowserStarted
  \/ BrowserUnavailable
  \/ HighlightCleared
  \/ ActionCheckRaises
  \/ StepNotVerified
  \/ ReplayedStepNotVerified
  \/ StepVerified
  \/ SilentActionChecked
  \/ TaskCompleted
  \/ CompletionSaved
  \/ ReplayFinished
  \/ NextStep
  \/ RepairRefused
  \/ \E c \in Candidates, decided \in BOOLEAN : GuidancePresented(c, decided)
  \/ \E decided \in BOOLEAN : GuidanceWithheld(decided)
  \/ \E decided \in BOOLEAN : GuidanceEscalates(decided)

Background(kind) ==
  \/ kind \in GuideReasons /\ GuidanceMoot(kind)
  \/ kind \in GuideReasons /\ BeginGuidance(kind)
  \/ kind = "resume" /\ ResumeAfterReroute
  \/ kind = "stop" /\ StopTask

Next ==
  \/ AttachBrowser
  \/ ParticipantStop
  \/ \E e \in EventIds : Event(e)
  \/ Continue
  \/ \E kind \in TaskKinds : Background(kind)
  \/ Abandon
  \/ Crash

Spec == Init /\ [][Next]_vars
=============================================================================
