--------------------------- MODULE AutopilotProps ---------------------------
(* What must hold of an autonomous run. *)
EXTENDS Autopilot

\* The run's state and its task agree: a running run is always being driven, and
\* nothing drives a run that has paused, ended or been stopped.
RunningIsDriven == state = "running" <=> at # "none"

\* The step ceiling holds with the pauses and the closing step counted.
StepCeiling == Len(steps) <= MaxSteps

\* A free-form run never clicks a control twice while the page stays the same, not
\* even when the goal's own row was put in place of the planner's.
NoSecondClick == ~demo => \A c \in Controls : clicks[c] <= 1

\* One page is not scrolled for ever, in whatever order planners ask for it.
ScrollsBounded == scrolled <= MaxScrolls

\* Password fields are left to the person in every run, payment fields in a
\* free-form run.
HandedBack ==
  at = "act" => /\ plan.target \notin Password
                /\ ~demo => plan.target \notin Costly

\* A demo never asks, except for a password.
DemoNeverAsks == demo /\ state = "needs_confirmation" => pending = "password"

\* The inductive invariant behind them.  The loop is entered, and a planner asked, only
\* with a step to spare; a planner is asked about a page; and acts that count against
\* the page are written down before they are performed.
StepToSpare == at \in {"snapshot", "planner"} => Len(steps) < MaxSteps
PlannerHasPage == at = "planner" => seen \in Pages
PlanInHand == at = "act" => plan \in Plan

InFlight(kind) == at = "act" /\ plan.action = kind
ClicksWritten ==
  ~demo => \A c \in Controls :
             /\ clicks[c] > 0 => clicks[c] = 1 /\ c \in tried
             /\ InFlight("click") /\ plan.target = c => clicks[c] = 0 /\ c \in tried
ScrollsWritten ==
  /\ scrolls <= MaxScrolls
  /\ scrolled <= scrolls
  /\ InFlight("scroll") => scrolled < scrolls

AutopilotInv ==
  /\ TypeOK
  /\ RunningIsDriven
  /\ StepCeiling /\ StepToSpare
  /\ PlannerHasPage /\ PlanInHand
  /\ ClicksWritten
  /\ ScrollsWritten
  /\ HandedBack
  /\ DemoNeverAsks

\* Each call the driver waits for returns or times out.
FairSpec == Spec /\ WF_vars(Drive)

\* So a run comes to rest, whatever the planner, the page and the person do: it ends,
\* or it waits for the person.
ComesToRest == state = "running" ~> state # "running"

\* Violated.  A sign-in or a paid membership is never touched.
WithheldUntouched == at = "act" => plan.target \notin Withheld
=============================================================================
