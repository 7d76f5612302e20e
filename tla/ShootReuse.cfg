SPECIFICATION Spec
CONSTANTS
  N = 3
  Workloads <- MCRanges
  Budget <- MCReuse
  Targets <- MCAny
  MaxLost <- MCNoLoss
  Timeouts = FALSE
INVARIANT
  AckMeansDone
CHECK_DEADLOCK FALSE
