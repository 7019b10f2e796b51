SPECIFICATION FairSpec
CONSTANTS
  browser = browser
  other = other
  Log <- MCLog
  Columns <- MCColumns
  Rejected = {2}
  Keys = {browser, other}
  Null = Null
  BatchSize = 2
  ScanLimit = 3
  MaxConcurrency = 2
  MaxRestarts = 1
INVARIANTS
  ReportedColumnsStay
PROPERTIES
  ImplementsDelivery
  Drains
  StopReturns
CHECK_DEADLOCK FALSE
