CONSTANTS
  Users = {u1}
  NoPair = none
  MaxPairs = 2
  MaxPasswords = 1
SPECIFICATION Spec
PROPERTY LogoutEndsLogin
CHECK_DEADLOCK FALSE
