CONSTANTS
  MaxJobs = 2
  Workspaces = {w1, w2}
  NoWorkspace = none
  Priorities = {1}
  RetryRequests = {0}
  DefaultRetries = 1
  MaxConcurrentJobs = 2
  MaxFaults = 0
SPECIFICATION Spec
INVARIANT OneActiveJob
