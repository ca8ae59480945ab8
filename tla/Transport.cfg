SPECIFICATION FairSpec
CONSTANTS
  Requests = {r1, r2, r3}
  SendCap = 1
  ErrCap = 3
  MaxOutages = 2
  None = None
INVARIANTS Accounted HangNeedsOutage
PROPERTIES WorkerReconnects
CHECK_DEADLOCK FALSE
