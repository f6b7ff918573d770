CONSTANTS
  MaxSubmissions = 2
  Horizon = 3
  MaxCalls = 1
  MaxDelay = 1
  Leads <- FromNow
  Lifetimes <- Unending
SPECIFICATION Spec
INVARIANT NoOrphanedPendingResult
CHECK_DEADLOCK FALSE
