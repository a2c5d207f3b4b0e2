\* Any one loss of a tick's, and a few moves of the operator, of pressure and of
\* faults; two callers of one key; two calls of one session that may fail once.
SPECIFICATION ControlSpec
CONSTANTS
  Managed <- HostManaged
  CloseOrder <- HostCloseOrder
  NoGroup = NoGroup
  MaxMoves = 3
  MaxLosses = 1
  c1 = c1
  c2 = c2
  r1 = r1
  r2 = r2
  Callers = {c1, c2}
  Requests = {r1, r2}
  NoRequest = NoRequest
  Nobody = Nobody
  MaxCalls = 3
  Reader = Reader
  MaxRequests = 3
  MaxReads = 1
  MaxRestarts = 1
  Slots = 1
  MaxSessions = 2
INVARIANT TypeOK
INVARIANT Types
INVARIANT ExecutesOnce
INVARIANT AnswersAreTrue
INVARIANT DeadSessionIsDropped
PROPERTY OperatorPauseKept
PROPERTY ClosedIsReopened
PROPERTY KeepsPromise
PROPERTY OneAnswer
PROPERTY CallReturns
PROPERTY RunsWhileWanted
PROPERTY WaitingEnds
