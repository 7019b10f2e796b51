SPECIFICATION Spec
CONSTANTS
  SkillIds = {k1, k2, k3}
  PageSize = 2
  Outages = {"timeout", "not_found", "unauthorized"}
  MaxOutages = 1
  MaxRuns = 3
PROPERTIES
  ReceiptIsTrue
CHECK_DEADLOCK FALSE
