CONSTANTS
  w0 = w0
  w1 = w1
  q0 = q0
  q1 = q1
  o0 = o0
  Nobody = Nobody
  Never = Never
  Waiters = {w0}
  Producers = {1, 2}
  Queues = {q0, q1}
  Registrations <- MCRegistrations
  Consumers = {w0}
  Limits = {2}
  Deadlines <- MCDeadlines
  Interrupted = {w0}
  Others = {o0}
  MaxTimers = 1
  MaxBatch = 1
  MaxTime = 1
  MaxCalls = 2
  MaxItems = 2
  MaxArms = 2
  MaxOps = 3
SPECIFICATION FairSpec
INVARIANTS TypeOK TimeoutNotLost SignalNotLost RoundsSeparate WakeNotLost
CHECK_DEADLOCK FALSE
PROPERTIES TimedWaitReturns ReadyWaitReturns
