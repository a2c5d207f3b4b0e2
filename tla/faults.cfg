\* Every fault of the environment and of the daemons; retries, no cancellation.
SPECIFICATION Spec
CONSTANTS
  c1 = c1
  c2 = c2
  MaxRuns = 3
  Cancellers = {}
  Guarded = {}
  UsesScratch = FALSE
  BusRetries = 1
  Faults = {"survivor", "forget", "query", "kill"}
INVARIANT OneAttemptInCgroup
INVARIANT CustodyRetained
PROPERTY OutcomeStable
