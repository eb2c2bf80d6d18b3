CONSTANTS
  MaxJobs = 2
  Workspaces = {w1, w2}
  NoWorkspace = none
  Priorities = {1}
  RetryRequests = {0}
  DefaultRetries = 1
  MaxConcurrentJobs = 1
  MaxFaults = 2
SPECIFICATION Spec
SYMMETRY Symmetry
INVARIANTS
  TypeOK
  ConcurrencyBound
  NoSlotLeak
  StatusMatchesTask
  LiveTaskHasJob
  NothingLostByCrash
PROPERTIES
  NoHandleLost
  ImplementsQueue
