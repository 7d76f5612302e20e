SPECIFICATION LiveSpec
CONSTANTS
  N = 3
  Workloads <- MCLoads
  Budget <- MCPair
  Targets <- MCTargets
  MaxLost <- MCLost
  Timeouts = TRUE
INVARIANTS
  TypeOK
  AckMeansDone
  NoRequestSwallowed
  StackVisible
PROPERTIES
  ImplementsSyncCall
  SyncReturns
CHECK_DEADLOCK FALSE
