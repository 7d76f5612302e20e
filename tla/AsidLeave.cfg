SPECIFICATION Spec
CONSTANTS
  CPUs = {c1, c2}
  MMs = {m1, m2}
  Written = {m1, m2}
  NoMm = NoMm
  Machines <- MCLeaving
  MaxEpoch = 2
  MaxSwitches = 5
  MaxVersion = 0
INVARIANT
  NoStaleInstall
CHECK_DEADLOCK FALSE
