SPECIFICATION NSpec
CONSTANTS
  t1 = t1
  t2 = t2
  t3 = t3
  failing = failing
  Targets <- MCTargets
  Answers <- MCAnswers
  Failing = failing
  Cooldown = 2
  LogSize = 2
  MaxFlips = 3
  MaxTime = 4
  Configs <- MCConfigs
  MaxFailures = 5
INVARIANTS
  NTypeOK
  MetricsMatchEvents
  TotalsWithinLife
  SuggestionFits
PROPERTIES
  MutedByRecentFiring
  VerdictCatchesUp
