CONSTANTS
  c0 = c0
  c1 = c1
  p0 = p0
  p1 = p1
  f0 = f0
  f1 = f1
  NoFrame = NoFrame
  CPUs <- MCTwoCpus
  Pages <- MCPages
  Frames <- MCFrames
  MaxGen = 3
SPECIFICATION Spec
INVARIANTS FrameSafe StaleIsPending
SYMMETRY Symmetry
CHECK_DEADLOCK FALSE
