CONSTANTS
  c1 = c1
  c2 = c2
  Callers = {c1, c2}
  NoCaller = NoCaller
  Rpm <- OneAndThree
  Rpd <- NoDailyLimit
  Window = 3
  Day = 5
  MaxUptime = 7
  MaxBehind = 0
  MaxRequests = 5
SPECIFICATION Spec
INVARIANTS OwnStateReadable
CHECK_DEADLOCK FALSE
