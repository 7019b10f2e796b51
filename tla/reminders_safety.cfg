SPECIFICATION Spec
CONSTANTS
  t1 = t1  bill = bill  other = other  billTask = billTask  otherTask = otherTask
  pay = pay  light = light  shop = shop
  Tabs <- MCTabs
  Consent <- MCConsent
  Watched <- MCWatched
  Zone <- MCZone
  Moments <- MCDueMoments
  FirstStarts <- MCFirstStarts
  Confirmed <- MCConfirmed
  Starters <- MCStarters
  Typed <- MCTyped
  WordsOf <- MCWordsOf
  TaskOf <- MCTaskOf
  NoRoutine = NoRoutine
  Snooze = 240
  QueueSize = 1
  MaxStarts = 1
  MaxStreams = 2
  MaxFaults = 1
  None = None
INVARIANTS
  TypeOK
  WatchersCounted
PROPERTIES
  StartSettles
  LapsedReturns
CHECK_DEADLOCK FALSE
