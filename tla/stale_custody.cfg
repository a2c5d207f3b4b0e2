\* A documented property the code does not keep: CustodyRetained.
SPECIFICATION Spec
CONSTANTS
  c1 = c1
  c2 = c2
  MaxRuns = 2
  Cancellers = {c1}
  Guarded = {}
  UsesScratch = FALSE
  BusRetries = 0
  Faults = {"survivor", "die", "query"}
INVARIANT CustodyRetained
