-------------------------- MODULE OrchestratorProps --------------------------
(* What must hold of a session run by the orchestrator. *)
EXTENDS Orchestrator

Idle == lock = "free"
Ended == session.state \in Terminal
Actions == {e \in EventIds : accepted[e] = "action"}

\* The lock does its work: no handler ever continues with a row that another
\* handler has changed while it awaited a browser, a model or a memory service.
LockedViewIsCurrent == lock # "free" => view = session

\* A run's end is reported under one outcome, the one the session ended with:
\* the ":finished:<outcome>" outbox keys differ per outcome, so the
\* INSERT OR IGNORE on the key does not prevent two of them.
OneOutcomeReported ==
  finished # {} => /\ Ended
                   /\ finished = {session.state}

\* Unless the process died meanwhile, a session that has ended and whose handler is done has
\* been reported, and its browser is given back or the task that will do so waits: whatever
\* failed on the way (orchestrator.py:1019, 1048).
EndedRunsAreReported ==
  Ended /\ Idle /\ ~crashed =>
    /\ finished = {session.state}
    /\ browser = "connected" => tasks["stop"] > 0

\* A redelivered event or an action nobody asked for does not advance the
\* routine or lengthen the recorded route: each step took an accepted action.
StepsTakeActions ==
  /\ session.step <= Cardinality(Actions)
  /\ recorded <= Cardinality(Actions)

\* Two failures stop a replay; no third guess occurs (IMPLEMENTATION_PLAN.md:857).
TwoFailuresStopReplay ==
  /\ failures <= 2
  /\ failures = 2 => session.state = "escalated"

\* While the participant is asked for an action, the step the orchestrator will
\* compare the action with exists and carries the version the row has.
AwaitedStepIsCurrent ==
  session.state = "awaiting_user_action" /\ ~crashed =>
    active # None /\ active.version = session.version

-----------------------------------------------------------------------------
(* The inductive invariant behind them.  A handler that holds the lock knows the row as it *)
(* is; only then do the types and the checks it makes mean anything.                       *)

ReasonKnown == lock = "guiding" => reason \in GuideReasons

\* The states a session may be in where the handler that holds its lock waits: only that
\* handler moves it.
HeldIn ==
  [attaching |-> {"created"}, clearing |-> {"rerouting"}, silent |-> {"observing"},
   checking |-> {"verifying"}, completing |-> {"verifying"}, saving |-> {"completed"},
   guiding |-> States \ Terminal]
HandlerKnowsState == lock # "free" => session.state \in HeldIn[lock]

\* An action that is being checked may still take the step, or lengthen the route, by one.
MayStep == lock \in {"checking", "completing"}
MayRecord == lock \in {"checking", "silent"}
StepsCounted ==
  /\ session.step + (IF MayStep THEN 1 ELSE 0) <= Cardinality(Actions)
  /\ recorded + (IF MayRecord THEN 1 ELSE 0) <= Cardinality(Actions)

\* Each failure has used up an attempt at repair.
FailuresAreAttempts == failures <= session.repairs

Inv ==
  /\ TypeOK
  /\ LockedViewIsCurrent
  /\ ReasonKnown
  /\ HandlerKnowsState
  /\ OneOutcomeReported
  /\ EndedRunsAreReported
  /\ StepsCounted
  /\ FailuresAreAttempts
  /\ TwoFailuresStopReplay
  /\ AwaitedStepIsCurrent

-----------------------------------------------------------------------------
\* A state the session cannot leave is never left, and never left for another.
EndIsFinal == [][Ended => session'.state = session.state]_session

\* A safety pause is not left by anything the backend does on its own, only by
\* the participant dismissing it, stopping the task, or by a caregiver escalation.
PauseNeedsAPerson ==
  [][session.state = "safety_paused" /\ session'.state # "safety_paused" =>
       \/ session'.state = "observing" /\ \E e \in EventIds : IsNew(e) /\ accepted'[e] = "dismiss"
       \/ session'.state \in {"abandoned", "escalated"}]_session

\* The awaited browser, model and memory calls return (each has a timeout), and
\* asyncio.Lock is fair: a waiting handler gets the lock in its turn.  Nothing is
\* assumed of the participant.
FairSpec ==
  /\ Spec
  /\ WF_vars(Continue)
  /\ \A kind \in TaskKinds : SF_vars(Background(kind))

\* Violated.  After an action that was not the one asked for, the session says
\* "let's find the next step from here" and starts _resume_after_reroute: while
\* the browser lives, the session does get out of REROUTING.
RerouteComes ==
  session.state = "rerouting" /\ tasks["resume"] > 0 ~>
    session.state # "rerouting" \/ ~runtime

\* Violated.  A session about which an escalation was recorded is paused for the
\* caregiver.
EscalationPausesSession ==
  escalations # {} /\ Idle => session.state = "escalated"

\* Violated.  The participant has one current target: the stored panel command,
\* and with it the halo on the page, points at the step the orchestrator waits for.
OneCurrentTarget ==
  session.state = "awaiting_user_action" /\ active # None /\ command # None =>
    command.target = active.target

Lifecycle == INSTANCE SessionLifecycle WITH
  Outcomes <- Terminal,
  ended <- IF Ended THEN {session.state} ELSE {},
  reported <- finished

\* The orchestrator implements the lifecycle a session promises.
ImplementsLifecycle == Lifecycle!Spec
=============================================================================
