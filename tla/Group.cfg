SPECIFICATION FairSpec
CONSTANTS
  Threads = {t1, t2, t3}
  Leader = t1
  NoOwner = NoOwner
  Codes = {0}
  MaxExecs = 1
INVARIANTS TypeOK ExecAlone ExitIsFinal NoPanic
PROPERTIES StopCompletes
