\* One operator command at a time, two unguarded cancels among them, over
\* survivors and killed wrappers.
SPECIFICATION Spec
CONSTANTS
  c1 = c1
  c2 = c2
  MaxRuns = 2
  Cancellers = {c1, c2}
  Guarded = {}
  UsesScratch = FALSE
  BusRetries = 1
  Faults = {"survivor", "kill"}
INVARIANT StoppedMeansStopped
INVARIANT ReportedIsDrained
INVARIANT CancelledWasRequested
PROPERTY NoStartAfterStop
