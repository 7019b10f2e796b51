SPECIFICATION Spec
CONSTANTS
  s1 = s1  s2 = s2  a1 = a1  a2 = a2
  Sessions <- MCSessions
  Earlier = {s1}
  TaskOf <- OneTask
  Askers = {a1}
  Attempts = 2
  Outages = {"timeout", "unauthorized"}
  MaxSkills = 2
  MaxOutages = 1
  MaxRestarts = 1
  EverosTime = 1
  LedgerTime = 1
  ModelTime = 1
  CacheTime = 1
  CacheLimit = 0
  Unread = Unread
INVARIANTS
  ReadyIsReplayable
PROPERTIES
  CompletionIsTold
  StaleNoLonger
CHECK_DEADLOCK FALSE
