\* A documented property the code does not keep: RetryStashIsHeld.
SPECIFICATION Spec
CONSTANTS
  a1 = a1
  a2 = a2
  h1 = h1
  h2 = h2
  n1 = n1
  NoJob = NoJob
  Jobs = {a1, h1}
  Pools <- HostPools
  PoolOf <- HostPoolOf
  ExclusiveWith <- HostExclusions
  Parent <- NoParents
  MaxRetries = 1
  Faults = {"query"}
INVARIANT RetryStashIsHeld
