SPECIFICATION CSpec
CONSTANTS
  a = a
  b = b
  c = c
  d = d
  git = git
  Keys <- MCKeys
  Types <- MCTypes
  FileOf <- MCFileOf
  Sizes <- MCSizes
  MaxSize = 3
  MaxClock = 5
INVARIANTS
  CTypeOK
  FilesHaveTheirEntry
  DiskWithinLimit
  LeastUsedGoFirst
