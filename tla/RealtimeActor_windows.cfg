CONSTANTS
  MaxSubmissions = 2
  Horizon = 3
  MaxCalls = 2
  MaxDelay = 2
  Leads <- NearNow
  Lifetimes <- Brief
SPECIFICATION Spec
INVARIANTS DispatchIsCurrent
PROPERTIES NoEffectAfterReceipt EffectWithinLifetime EverySubmissionAnswered ImplementsLifecycle
CHECK_DEADLOCK FALSE
