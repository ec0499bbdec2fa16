SPECIFICATION StorageSpec
CONSTANTS
  p1 = p1
  p2 = p2
  none = none
  Procs <- MCProcs
  MaxId = 2
  Manifests <- MCManifests
  Nothing = none
  MaxStarts = 3
  MaxEdits = 2
SYMMETRY Symmetry
INVARIANTS
  StorageTypeOK
  SavedIsKept
  ConfigIsTheUsers
CHECK_DEADLOCK FALSE
