CONSTANTS
  Users = {u1}
  NoPair = none
  MaxPairs = 3
  MaxPasswords = 1
  NoSession = none
  MaxIds = 3
  MaxPerUser = 2
  SessionTimeout = 1
  MaxIdle = 1
  ExtendBelow = 1
  Threshold = 2
  MaxSessionTime = 2
  Limit = 2
  Period = 4
  Burst = 1
  BurstPeriod = 2
  Keep = 5
  CleanupInterval = 3
  TicksPerSecond = 2
  MaxLimiterTime = 10
  NoKey = none
  Never = never
  MaxKeys = 1
  Quota = 1
  NewConfigs <- MCNewConfigs
  ConfigChanges <- MCConfigChanges
  Unset = unset
  Minute = 1
  Hour = 2
  Day = 3
  MaxAttempts = 3
  MaxKeyTime = 4
  MaxTokens = 1
  MaxIssued = 2
  MaxAudit = 5
  MasterConfigured = TRUE
  NoCredential = none
  Master = master
  Addresses = {x1, x2}
  AlertFrom = 1
  SuspectFrom = 2
  BlockFrom = 3
  Window = 2
  StatusWindow = 3
  KeptAlerts = 2
  MaxMoment = 3
  MaxRaised = 5
SPECIFICATION AuthSpec
CONSTRAINT ShortLogs
INVARIANTS
  AuthTypeOK
  OneLiveTokenPerLogin
  SessionsFollowPassword
  SessionsConsistent
  LimitsHold
  WaitingHelps
  LogsTellState
PROPERTY NoRevival
CHECK_DEADLOCK FALSE
