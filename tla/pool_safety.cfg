SPECIFICATION FairSpec
CONSTANTS
  Threads = {t1, t2, t3}
  Connections = {c1, c2, c3}
  MaxSize = 2
INVARIANTS
  PoolInv
  ConnectionsOwned
PROPERTIES
  ClosedPoolLogsOut
