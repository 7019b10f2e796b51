SPECIFICATION FairSpec
CONSTANTS
  Modes = {"observe", "cold_teach", "replay"}
  EventIds = {e1, e2}
  Candidates = {c1, c2}
  SkillSteps = 2
  MaxAbandons = 1
  Faults = {}
  None = None
PROPERTIES
  RerouteComes
CHECK_DEADLOCK FALSE
