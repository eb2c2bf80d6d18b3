----------------------------- MODULE MCServices -----------------------------
(***************************************************************************)
(* The parts of the service layer that share no state with one another,    *)
(* side by side: a behaviour exercises one of them, chosen at the start,   *)
(* while the others stay as they are, so that the states are the sum of    *)
(* theirs and not the product.                                             *)
(***************************************************************************)
EXTENDS Integers, Sequences

CONSTANTS
  Loads, Keys, NoLoad, NoKey,
  Subscribers, Capacity, MaxUpdates,
  Items, NoEntry, MaxEntries, MaxMemory, DefaultTtl, MaxClock,
  Switches, Providers, First, Incomplete,
  EntityTables, RelationTables, Size, MaxPages, MaxWrites, MaxExported,
  Files, MaxRetries,
  Clients, MinConnections, MaxConnections, MaxCreated, NoConnection,
  Askers, Topics, Entities, NoResult, FrameTtl, EntityTtl, MaxFrames, MaxHour, MaxClears,
  Ids, Short, Nothing, Invalidators, MaxSets,
  Requests, Endpoints, Root, KeptRequests, KeptTimes, MaxTick,
  Stoppers, Spaces, MaxTasks,
  Values, Dated, ChunkSize, MaxPageSize, MinSize, MaxRows

VARIABLES
  part,
  key, on, future, cache, batch, ticking, inflight, answered,
  up, listed, queue, at, published, since, got,
  clock, entries, order,
  setting, call, completed, last, disturbed,
  entities, relations, rest, graphql, writes,
  job, fresh, saved,
  initialized, connections, available, getters, woken, held, created,
  hour, clears, frames, replies, asking, reply,
  linked, server, sets, work, finished,
  tick, tracked, active, requests, errors, history, times,
  made, live, ending, monitorTask, cleanupTask, flag, stops, overlapped, state, idle, odd, stats,
  rows, short

\* Entities and relationships of the tables: numbers stand for ids and titles.
E(n, degree) == [id |-> n, title |-> 10 + n, type |-> n % 2, degree |-> degree, created |-> n % 4]
R(n, a, b) == [id |-> 20 + n, source |-> 10 + a, target |-> 10 + b, weight |-> (3 * n) % 5]

\* An empty table, and two of different runs of the indexing tool.
MCEntityTables == {<<>>, <<E(1, 1), E(2, 2), E(3, 1)>>, <<E(2, 1), E(4, 3), E(1, 1), E(5, 1), E(3, 0)>>}
MCRelationTables == {<<>>, <<R(1, 1, 2), R(2, 2, 3)>>, <<R(3, 4, 1), R(1, 1, 2), R(4, 4, 5), R(5, 4, 4)>>}

\* The last that fit into 8 bits, and the first that do not.
MCValues == {-129, -128, 127, 128}

Loader == INSTANCE DataLoader
Topic == INSTANCE Subscriptions
Cache == INSTANCE CacheManager
Switch == INSTANCE ProviderSwitch
Graph == INSTANCE GraphAnalyses
           WITH Thresholds <- 0..10, PageSizes <- 1..Size
Progress == INSTANCE IndexingProgress
Pool == INSTANCE ConnectionPool
Results == INSTANCE ResultCaches
Redis == INSTANCE RedisCache
Monitor == INSTANCE PerformanceMonitor
Tasks == INSTANCE BackgroundTasks
Large == INSTANCE LargeResults

ASSUME ServicesAssumption ==
  /\ Topic!TopicAssumption /\ Cache!CacheAssumption /\ Switch!ProviderAssumption
  /\ Graph!GraphAssumption /\ Graph!AnalysesAssumption /\ Progress!ProgressAssumption
  /\ Pool!PoolAssumption /\ Results!ResultAssumption /\ Redis!RedisAssumption
  /\ Monitor!MonitorAssumption /\ Tasks!TasksAssumption /\ Large!LargeAssumption

LoaderVars == <<key, on, future, cache, batch, ticking, inflight, answered>>
TopicVars == <<up, listed, queue, at, published, since, got>>
CacheVars == <<clock, entries, order>>
SwitchVars == <<setting, call, completed, last, disturbed>>
GraphVars == <<entities, relations, rest, graphql, writes>>
ProgressVars == <<job, fresh, saved>>
PoolVars == <<initialized, connections, available, getters, woken, held, created>>
ResultVars == <<hour, clears, frames, replies, asking, reply>>
RedisVars == <<linked, server, sets, work, finished>>
MonitorVars == <<tick, tracked, active, requests, errors, history, times>>
TaskVars ==
  <<made, live, ending, monitorTask, cleanupTask, flag, stops, overlapped, state, idle, odd, stats>>
LargeVars == <<rows, short>>

ServicesInit ==
  /\ part \in {"loader", "topic", "cache", "switch", "graph", "progress", "pool",
               "results", "redis", "monitor", "tasks", "large"}
  /\ Loader!Init /\ Topic!Init /\ Cache!Init /\ Switch!Init /\ Graph!Init /\ Progress!Init
  /\ Pool!Init /\ Results!Init /\ Redis!Init /\ Monitor!Init /\ Tasks!Init /\ Large!Init
  /\ part # "graph" => entities = <<>> /\ relations = <<>> /\ rest.size = 1 /\ graphql.size = 1

\* One of the parts takes its step, and the others stay as they are.
Others(name) ==
  /\ name # "loader" => UNCHANGED LoaderVars
  /\ name # "topic" => UNCHANGED TopicVars
  /\ name # "cache" => UNCHANGED CacheVars
  /\ name # "switch" => UNCHANGED SwitchVars
  /\ name # "graph" => UNCHANGED GraphVars
  /\ name # "progress" => UNCHANGED ProgressVars
  /\ name # "pool" => UNCHANGED PoolVars
  /\ name # "results" => UNCHANGED ResultVars
  /\ name # "redis" => UNCHANGED RedisVars
  /\ name # "monitor" => UNCHANGED MonitorVars
  /\ name # "tasks" => UNCHANGED TaskVars
  /\ name # "large" => UNCHANGED LargeVars

ServicesNext ==
  /\ UNCHANGED part
  /\ \/ part = "loader" /\ Loader!Next
     \/ part = "topic" /\ Topic!Next
     \/ part = "cache" /\ Cache!Next
     \/ part = "switch" /\ Switch!Next
     \/ part = "graph" /\ Graph!Next
     \/ part = "progress" /\ Progress!Next
     \/ part = "pool" /\ Pool!Next
     \/ part = "results" /\ Results!Next
     \/ part = "redis" /\ Redis!Next
     \/ part = "monitor" /\ Monitor!Next
     \/ part = "tasks" /\ Tasks!Next
     \/ part = "large" /\ Large!Next
  /\ Others(part)

ServicesVars ==
  <<part, LoaderVars, TopicVars, CacheVars, SwitchVars, GraphVars, ProgressVars, PoolVars,
    ResultVars, RedisVars, MonitorVars, TaskVars, LargeVars>>

ServicesSpec == ServicesInit /\ [][ServicesNext]_ServicesVars

---------------------------------------------------------------------------
(* The properties of the parts.                                            *)

\* The type invariants of the parts.
ServicesTypeOK ==
  /\ part = "loader" => Loader!TypeOK
  /\ part = "topic" => Topic!TypeOK
  /\ part = "cache" => Cache!TypeOK
  /\ part = "switch" => Switch!TypeOK
  /\ part = "graph" => Graph!TypeOK
  /\ part = "progress" => Progress!TypeOK
  /\ part = "pool" => Pool!TypeOK
  /\ part = "results" => Results!TypeOK
  /\ part = "redis" => Redis!TypeOK
  /\ part = "monitor" => Monitor!TypeOK
  /\ part = "tasks" => Tasks!TypeOK
  /\ part = "large" => Large!TypeOK

\* Subscriptions: a subscriber is given an unbroken run of updates.
NoGaps == Topic!NoGaps

\* CacheManager: the order of use lists the entries, each once, and neither limit of the
\* cache is ever passed.  ResultCaches and RedisCache: nobody is given a result that is
\* out of date or was cleared, and an invalidation leaves nothing older than itself.
CachesSound ==
  /\ Cache!OrderAgrees /\ Cache!WithinBounds
  /\ Results!ResultsFresh /\ Redis!InvalidationHolds

\* PerformanceMonitor: its figures are those of the requests.  BackgroundTasks: the
\* services know the tasks that run for them, and the cleanup counts what it did.
MonitorSound == Monitor!ActiveShown /\ Monitor!CountsAgree /\ Tasks!TasksSound

\* ProviderSwitch: a failed switch is undone, unless it was disturbed.
FailedSwitchLeavesNoTrace == Switch!FailedSwitchLeavesNoTrace

\* GraphQueries: a client that pages through a table sees every row.
PagesComplete == part = "graph" => Graph!PagesComplete

\* GraphQueries and GraphAnalyses: the edges of a drawing join its nodes, clusters and
\* communities share the entities out, and statistics, exports, queries and anomalies are
\* what is said there.  They are of the tables only, each pair of which is there before
\* the clients have read a page.  LargeResults: chunks, pages and compression hand on what
\* a table holds.  PerformanceMonitor: a percentile is one of the times that are kept.
AnalysesConsistent ==
  /\ part = "graph" /\ rest.pages = 0 /\ graphql.pages = 0 =>
       /\ Graph!DrawingsClosed /\ Graph!GroupsPartition
       /\ Graph!StatisticsFair /\ Graph!ExportsTold /\ Graph!QueriesTold /\ Graph!AnomaliesRare
  /\ part = "large" => Large!ResultsWhole
  /\ part = "monitor" => Monitor!PercentilesRight

\* IndexingProgress: the figure of a running job claims no more than was done, and the
\* whole is shown of whole work only.
NeverOverstated == Progress!NeverOverstated

\* ConnectionPool: every connection is in one place, with one user or in the queue.
InOnePlace == Pool!InOnePlace

\* ConnectionPool: the limit is passed only after a clean-up, by min_connections at most.
LimitOvershoot == Pool!LimitOvershoot

\* ConnectionPool: no connection lies idle beside a client that sleeps.
NoLostWakeup == Pool!NoLostWakeup

=============================================================================
