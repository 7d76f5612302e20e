CONSTANTS
  w0 = w0
  w1 = w1
  q0 = q0
  q1 = q1
  o0 = o0
  Nobody = Nobody
  Never = Never
  Waiters = {w0, w1}
  Producers = {1}
  Queues = {q0}
  Registrations <- MCOneQueue
  Consumers = {w0, w1}
  Limits = {1}
  Deadlines <- MCDeadlines
  Interrupted = {}
  Others = {}
  MaxTimers = 2
  MaxBatch = 1
  MaxTime = 1
  MaxCalls = 2
  MaxItems = 1
  MaxArms = 0
  MaxOps = 3
SPECIFICATION Spec
INVARIANT WakeNotLost
CHECK_DEADLOCK FALSE
