SPECIFICATION PluginSpec
CONSTANTS
  git = git
  podman = podman
  rsync = rsync
  t1 = t1
  t2 = t2
  free = free
  manager = manager
  Builtin <- MCBuiltin
  Community <- MCCommunity
  Resumable <- MCResumable
  Tasks <- MCTasks
  MaxPlugins = 2
  Manager = manager
  Free = free
INVARIANTS
  BatchDone
  UnloadedIsDown
PROPERTIES
  CallsReturn
\* A manager that waits for ever violates CallsReturn, whatever the tasks can
\* still do; TLC would stop at the state and name no property.
CHECK_DEADLOCK FALSE
