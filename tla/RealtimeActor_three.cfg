CONSTANTS
  MaxSubmissions = 3
  Horizon = 2
  MaxCalls = 1
  MaxDelay = 1
  Leads <- FromNow
  Lifetimes <- Unending
SPECIFICATION Spec
INVARIANTS OneWinnerPerVersion AcceptedOnce ReplacedWorkIsGone
CHECK_DEADLOCK FALSE
