\* Two request threads for each part, and a fault or two of every kind.
SPECIFICATION PhoneSpec
CONSTANTS
  h1 = h1
  h2 = h2
  a = a
  b = b
  m1 = m1
  m2 = m2
  m3 = m3
  Threads = {h1, h2}
  Sweep = Sweep
  MaxPosts = 2
  MaxSweeps = 1
  MaxTraces = 1
  MaxLosses = 1
  Repair = Repair
  Day = 3
  MaxFaults = 1
  MaxRestores = 1
  MaxRepairs = 1
  Contents = {a, b}
  Queued = a
  Main = Main
  NoContent = NoContent
  MaxUploadFaults = 2
  Messages = {m1, m2, m3}
  Empty = Empty
  MaxInboxFaults = 1
INVARIANT Types
INVARIANT ActsOnce
INVARIANT ForgottenWasDone
INVARIANT MirroredOnce
INVARIANT DeletedIsKept
PROPERTY TraceIsScanned
PROPERTY OkIsDurable
PROPERTY DurableStays
PROPERTY DayArrives
PROPERTY AllHandedOver
PROPERTY OnlyLandedIsDeleted
