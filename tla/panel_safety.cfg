SPECIFICATION Spec
CONSTANTS
  QueueSize = 1
  MaxUpdates = 3
  MaxLosses = 2
  MaxRestarts = 1
PROPERTIES
  OverIsFinal
  NoticesTheEnd
CHECK_DEADLOCK FALSE
