SPECIFICATION Spec
CONSTANTS
  c1 = c1
  c2 = c2
  Cells = {c1, c2}
  Workers = 1
  Boundaries = 2
  MaxStarts = 3
  MaxAttempts = 2
  MaxInvocations = 3
  MaxDeaths = 1
  MaxExtensions = 1
INVARIANT DeathsLeaveItOpen
SYMMETRY Symmetry
CHECK_DEADLOCK FALSE
