SPECIFICATION QSpec
CONSTANTS
  Plugins = {curl}
  Priorities = {1, 2}
  MaxRetries = 1
  MaxJobs = 3
INVARIANTS
  QTypeOK
  EachJobInOnePlace
  FailuresMatchRetries
  FailuresBounded
PROPERTIES
  NoPriorityInversion
  CancelledIsFinal
