CONSTANTS
  Clients = {c1, c2, c3}
  MinConnections = 1
  MaxConnections = 1
  MaxCreated = 3
  NoConnection = none
SPECIFICATION Spec
INVARIANT WithinLimit
