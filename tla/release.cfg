\* No faults; the command of a1 launches an exclusive and a free job.
SPECIFICATION FairSpec
CONSTANTS
  a1 = a1
  a2 = a2
  h1 = h1
  h2 = h2
  n1 = n1
  NoJob = NoJob
  Jobs = {a1, a2, h1, h2, n1}
  Pools <- HostPools
  PoolOf <- HostPoolOf
  ExclusiveWith <- HostExclusions
  Parent <- Nested
  MaxRetries = 1
  Faults = {}
INVARIANT HoldIsInForce
PROPERTY HeldIsReleased
