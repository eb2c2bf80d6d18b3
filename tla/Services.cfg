CONSTANTS
  Loads = {l1, l2, l3}
  Keys = {k1, k2, k3}
  NoLoad = none
  NoKey = none
  Subscribers = {s1, s2}
  Capacity = 2
  MaxUpdates = 4
  Items = {i1, i2, i3}
  NoEntry = none
  MaxEntries = 2
  MaxMemory = 3
  DefaultTtl = 2
  MaxClock = 3
  Switches = {c1, c2, c3}
  Providers = {p1, p2, p3}
  First = p1
  Incomplete = {p3}
  EntityTables <- MCEntityTables
  RelationTables <- MCRelationTables
  Size = 3
  MaxPages = 4
  MaxWrites = 1
  MaxExported = 4
  Files = 2
  MaxRetries = 1
  Clients = {d1, d2, d3, d4}
  MinConnections = 1
  MaxConnections = 2
  MaxCreated = 5
  NoConnection = none
  Askers = {a1, a2}
  Topics = {t1, t2}
  Entities = {e1}
  NoResult = none
  FrameTtl = 2
  EntityTtl = 2
  MaxFrames = 1
  MaxHour = 3
  MaxClears = 1
  Ids = {w1, w2}
  Short = w1
  Nothing = none
  Invalidators = {v1}
  MaxSets = 2
  Requests = {q1, q2, q3}
  Endpoints = {f1, f2}
  Root = f1
  KeptRequests = 2
  KeptTimes = 2
  MaxTick = 1
  Stoppers = {x1, x2}
  Spaces = {y1}
  MaxTasks = 3
  Values <- MCValues
  Dated = {128}
  ChunkSize = 2
  MaxPageSize = 3
  MinSize = 2
  MaxRows = 4
SPECIFICATION ServicesSpec
INVARIANTS
  ServicesTypeOK
  NoGaps
  CachesSound
  MonitorSound
  FailedSwitchLeavesNoTrace
  PagesComplete
  AnalysesConsistent
  NeverOverstated
  InOnePlace
  LimitOvershoot
  NoLostWakeup
CHECK_DEADLOCK FALSE
