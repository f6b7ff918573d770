CONSTANTS
  low = low  high = high  wrong = wrong  query = query  native = native  pause = pause
  k1 = k1
  Contents <- Calls
  Tools <- AllTools
  Tool <- CallTool
  Changing <- Controls
  Meta <- Waits
  Delay <- Delays
  Managed <- Natives
  Cancelable <- Natives
  Cost <- Costs
  Invalid = {wrong}
  Keys = {k1}
  NoKey = NoKey
  PerTick = 2
  CostPerTick = 2
  Total = 3
  DuplicateWindow = 1
  Cooldown = 1
  Horizon = 3
  SharesBudget = TRUE
SPECIFICATION Spec
INVARIANTS OneBudgetPerTick OneMeaningPerKey DuplicatesApart QueuedCallsSettle
CHECK_DEADLOCK FALSE
