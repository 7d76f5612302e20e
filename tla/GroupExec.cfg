SPECIFICATION Spec
CONSTANTS
  Threads = {t1, t2}
  Leader = t1
  NoOwner = NoOwner
  Codes = {0}
  MaxExecs = 1
INVARIANTS ExecSparesOwner
