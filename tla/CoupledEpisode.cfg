SPECIFICATION Spec
CONSTANTS
  grid = grid
  town = town
  Audit = Audit
  Order <- MCOrder
  Subscribers <- MCSubscribers
  MaxCalls = 1
  MaxCost = 1
  MaxTick = 2
  MaxEvents = 2
INVARIANTS DeliveredOnce NeverEarly ReportIsExact
PROPERTIES LockStep
CHECK_DEADLOCK FALSE
