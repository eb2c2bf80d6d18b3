CONSTANTS
  Threads = {t1, t2}
  Loop = loop
  Names = {n1}
  Spellings = {"plain"}
  MaxIds = 3
  MaxFaults = 0
  NoWorkspace = none
  NoDir = nodir
  Bare = bare
  Torn = torn
  NoName = noname
SPECIFICATION Spec
INVARIANT NamesUnique
