SPECIFICATION OSpec
CONSTANTS
  a = a
  b = b
  EngineMax = 3
  SmartThreshold = 1
  SmartCooldown = 1
  DefaultThreshold = 2
  DefaultCooldown = 2
  FixedDelay = 7
  Initial = 10
  Multiplier = 2
  MaxDelay = 30
  LatencyWeight = 1
  LossWeight = 1
  MaxRetries = 2
  MaxTime = 2
  Policies = {"Immediate", "Fixed", "ExponentialBackoff", "Adaptive", "Smart"}
  JobIds <- MCJobIds
  Errors <- MCErrors
  Conditions <- MCConditions
INVARIANTS
  OTypeOK
  ClosedIffBelowThreshold
  EventsMatchOutcome
  JobBudgetHolds
  DelayCapped
PROPERTIES
  OpenHoldsUntilCooled
  SpentBudgetStopsAllJobs
