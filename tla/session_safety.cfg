SPECIFICATION Spec
CONSTANTS
  Modes = {"observe", "cold_teach", "replay"}
  EventIds = {e1, e2, e3}
  Candidates = {c1, c2}
  SkillSteps = 2
  MaxAbandons = 2
  Faults = {"provider", "crash"}
  None = None
SYMMETRY Symmetry
INVARIANTS
  Inv
  LockedViewIsCurrent
  EndedRunsAreReported
  StepsTakeActions
  TwoFailuresStopReplay
  AwaitedStepIsCurrent
PROPERTIES
  PauseNeedsAPerson
  ImplementsLifecycle
CHECK_DEADLOCK FALSE
