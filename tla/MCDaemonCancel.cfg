SPECIFICATION DSafetySpec
CONSTANTS
  Plugins = {"curl", "nosuch"}
  Priorities = {1}
  MaxRetries = 3
  MaxJobs = 1
  p1 = p1
  p2 = p2
  none = none
  Pids <- MCPids
  NoPid = none
  Recycled = {}
  Capacity = 2
  Loaded = {"curl"}
  Downloaders = {"curl"}
  MaxConcurrent = 1
  Timeout = 1
  MaxRequests = 1
PROPERTIES
  CancelBeatsTimeout
CHECK_DEADLOCK FALSE
