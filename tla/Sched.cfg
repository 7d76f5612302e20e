CONSTANTS
  c0 = c0
  c1 = c1
  t0 = t0
  t1 = t1
  CPUs <- MCCpus
  BootCpu = c0
  Tasks <- MCTwo
  InitTask = t0
  Sleepers <- MCOne
  Mortals <- MCOne
  NoCpu = NoCpu
  NoTask = NoTask
  SelfMasks <- MCPin0
  RemoteMasks <- MCPin1
  Callers <- MCInit
  MaxCalls = 2
SPECIFICATION FairSpec
INVARIANTS TypeOK OneOwner RegistryExact RequestExact AffinityRespected NoStrandedTask ResultMatchesMask
PROPERTIES RequestCompletes QueueServed
CHECK_DEADLOCK FALSE
