SPECIFICATION SSpec
CONSTANTS
  p1 = p1
  p2 = p2
  p3 = p3
  git = git
  curl = curl
  Plugins <- MCPlugins
  Pids <- MCPids
  Recycled <- MCRecycled
SYMMETRY Symmetry
INVARIANTS
  STypeOK
  LiveIsTracked
  EndedIsDead
