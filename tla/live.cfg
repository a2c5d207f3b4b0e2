\* A guarded and an unguarded cancel that contend for the allocation lock, and a
\* clean; the task owns scratch.
SPECIFICATION FairSpec
CONSTANTS
  c1 = c1
  c2 = c2
  MaxRuns = 1
  Cancellers = {c1, c2}
  Guarded = {c2}
  UsesScratch = TRUE
  BusRetries = 0
  Faults = {"overlap"}
INVARIANT TypeOK
PROPERTY CancelReturns
PROPERTY CancelEndsRun
