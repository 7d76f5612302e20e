SPECIFICATION Spec
CONSTANTS
  CPUs = {c1, c2}
  MMs = {m1, m2, m3}
  Written = {m1}
  NoMm = NoMm
  Machines <- MCMachines
  MaxEpoch = 2
  MaxSwitches = 4
  MaxVersion = 1
SYMMETRY Sym
INVARIANTS
  TypeOK
  Isolated
  NoFreedFrame
  NoStaleInstall
  LeaderHeard
CHECK_DEADLOCK FALSE
