SPECIFICATION Spec
CONSTANTS
  t1 = t1
  t2 = t2
  o1 = o1
  Nothing = Nothing
  Turns <- MCTurns
  Observations <- MCObservations
  MaxRequests = 2
  HardCancel = TRUE
INVARIANT ProofIsKept
CHECK_DEADLOCK FALSE
