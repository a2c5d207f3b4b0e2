\* A documented property the code does not keep: OutcomeIsOwn.
SPECIFICATION Spec
CONSTANTS
  c1 = c1
  c2 = c2
  MaxRuns = 2
  Cancellers = {}
  Guarded = {}
  UsesScratch = FALSE
  BusRetries = 0
  Faults = {"kill"}
INVARIANT OutcomeIsOwn
