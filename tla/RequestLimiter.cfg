CONSTANTS
  c1 = c1
  c2 = c2
  Callers = {c1, c2}
  NoCaller = NoCaller
  Rpm <- TwoPerWindow
  Rpd <- ThreePerDay
  Window = 3
  Day = 5
  MaxUptime = 6
  MaxBehind = 1
  MaxRequests = 4
SPECIFICATION FairSpec
INVARIANTS RollingWindow DailyBudget
PROPERTIES GrantedOnTime EveryCallDecided
CHECK_DEADLOCK FALSE
