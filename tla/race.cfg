\* A guarded cancel, and a clean, beside two starts of a task that owns scratch.
SPECIFICATION Spec
CONSTANTS
  c1 = c1
  c2 = c2
  MaxRuns = 2
  Cancellers = {c1}
  Guarded = {c1}
  UsesScratch = TRUE
  BusRetries = 0
  Faults = {"survivor", "overlap", "die", "query"}
INVARIANT ScratchOutlivesMembers
PROPERTY GuardedKillSparesNewerAttempts
