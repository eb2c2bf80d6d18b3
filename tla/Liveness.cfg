CONSTANTS
  MaxJobs = 2
  Workspaces = {w1, w2}
  NoWorkspace = none
  Priorities = {1, 2}
  RetryRequests = {0}
  DefaultRetries = 1
  MaxConcurrentJobs = 1
  MaxFaults = 0
  Loads = {l1, l2, l3}
  Keys = {k1, k2, k3}
  NoLoad = noload
  NoKey = nokey
  Subscribers = {s1, s2}
  Capacity = 2
  MaxUpdates = 4
  Clients = {d1, d2, d3, d4}
  MinConnections = 1
  MaxConnections = 2
  MaxCreated = 5
  NoConnection = noconnection
SPECIFICATION LivenessSpec
PROPERTIES
  HeadServed
  ShutdownCompletes
  LoadsSettle
  StopEndsAll
  ReturnedIsUsed
CHECK_DEADLOCK FALSE
