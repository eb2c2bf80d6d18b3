CONSTANTS
  Threads = {t1, t2}
  Loop = loop
  Names = {n1, n2}
  Spellings = {"plain", "blanks"}
  MaxIds = 2
  MaxFaults = 1
  NoWorkspace = none
  NoDir = nodir
  Bare = bare
  Torn = torn
  NoName = noname
  Callers = {c1, c2}
  Titles = {w1, w2}
  NoRow = none
  MaxMade = 3
  Migrators = {m1, m2}
  MaxSpaces = 2
  MaxTasks = 2
  MaxRetried = 1
  MaxCuts = 1
SPECIFICATION StorageSpec
SYMMETRY Symmetry
CONSTRAINT Unclashed
INVARIANTS
  StorageTypeOK
  ClashAside
  IndexCurrentUnlessOverlap
  StoresAgree
  ListingsTell
  MigrationSound
CHECK_DEADLOCK FALSE
