CONSTANTS
  Requests = {r}
  Own = {o}
  Questions = {r}
  MaxLoops = 2
  MaxBridges = 2
  MaxRuns = 1
SPECIFICATION Spec
INVARIANTS MarkerSettledOnce SettledIsWithdrawn WaiterIsAnswerable
PROPERTIES CancelEnds
CHECK_DEADLOCK FALSE
