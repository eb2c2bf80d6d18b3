CONSTANTS
  MaxTokens = 1
  MaxIssued = 1
  MaxAudit = 2
  MasterConfigured = TRUE
  NoCredential = none
  Master = master
SPECIFICATION Spec
INVARIANT IssuedKeysWork
CHECK_DEADLOCK FALSE
