# A TLA+ model of the GraphRAG API service

This directory is the formal companion of `src/src/graphrag_api_service`: TLA+
modules translated from the Python source, TLC configurations that check them on
small instances, and TLAPS proofs for every value of the constants.
`PROJECT.json` is the machine-readable index: components, runs, the source lines
behind each definition, the hazards each property is for, and, for every
property, a mutation of the model (a bug one could write in that code) which
breaks it. The definitions whose comment starts with "Mutant:" are these bugs;
nothing else refers to them.

Below, paths are relative to `src/src/graphrag_api_service`.

## The system

One Python process: a FastAPI application on one asyncio event loop, plus the
threads of the default executor. Its state is in memory, in two JSON index files
(`jobs.json`, `workspaces.json`), in SQLite and, if configured, in Redis. What is
concurrent is the interleaving of request handlers, background tasks, executor
threads and clients of the database at their awaits and statements; what is
unreliable is the disk and the Redis server; what is abrupt is the end of the
process.

| Component | State | Operations | Hard behaviour | Module |
|---|---|---|---|---|
| Indexing manager (`indexing/`) | jobs, task handles, slots, queue processor, `jobs.json` | create, cancel, retry, a turn of the processor, the steps of a task, start, stop, load, save; progress figures; listings | handlers between two steps of a task; slots under cancellation; crash and restart; failed and torn writes; shutdown | `IndexingManager`, `JobQueue`, `IndexingProgress` |
| Indexing routes (`routes/indexing.py`, `graphql/`) | status of the workspaces beside the jobs, two index files | create, cancel, retry, listings, statistics | two saves that a crash or a failure separates; a status nothing resets | `IndexingService` |
| Service container (`dependencies.py`, `main.py`) | which services exist and which run | the two initialisations, shutdown | one initialisation excludes the other | `ServiceContainer` |
| Workspace store (`workspace/`) | workspaces, directories, `workspaces.json`, or rows of SQLite | create, update, delete, status changes | threads racing over names, directories and the index; partial failure | `WorkspaceStore`, `SqliteWorkspaces` |
| Workspace cleanup (`workspace/cleanup.py`) | periodic task, statistics | start, stop, cycle, forced cleanup | two starts, a cancelled task, errors taken for activity | `BackgroundTasks`, `WorkspaceStore` |
| Connection pool and query cache (`performance/connection_pool.py`) | connections, queue of available ones, cached frames | acquire with a time-out, grow, release, cleanup, query | waiters against releases, time-outs and cancellation; a cleanup under use; a cache read before a wait and stored after it | `ConnectionPool`, `ResultCaches` |
| Cache manager, Redis cache | entries, order of use; keys of the server | get, set with eviction, delete, expiry; invalidation in several commands | entries and order must agree; other clients between two commands | `CacheManager`, `RedisCache` |
| Tokens and users (`auth/`, `database/`) | users, sessions, refresh tokens, blacklist | register, log in, refresh, log out, change password, expire, clean up, restart | two records of one login that nobody compares | `Accounts` |
| Session manager (`auth/session_manager.py`) | three maps of sessions | create, get, touch, revoke, clean up | the maps must agree; limit per user | `SessionManager` |
| Rate limiting (`auth/`, `middleware/`, `utils/security.py`) | windows, buckets, time stamps | check, headers, cleanup, reset | window boundaries, rounding of waits, keys | `RateLimiting` |
| API keys (`auth/api_keys.py`, `auth/admin_api_keys.py`) | keys, usage, audit log | create, authenticate, revoke, batch operations | quotas, resets and expiry; several managers for one kind of key | `ApiKeys`, `AccessControl` |
| Security logger (`security/`) | failures per address, suspicions, alerts | failed log-in, pardon, reset | lists trimmed only when something is entered | `SecurityWatch` |
| Subscriptions (`graphql/subscriptions.py`) | one bounded queue per subscriber | subscribe, publish, stop | slow subscribers; a lost end signal | `Subscriptions` |
| GraphQL layer (`graphql/`) | batches, futures, entity cache | load, dispatch, answer, clear | one future shared by several loads, one of them cancelled | `DataLoader`, `ResultCaches` |
| System operations (`system/operations.py`, `providers/`) | the provider in use | switch with an awaited health check | overlapping switches, rollback | `ProviderSwitch` |
| Knowledge graph (`graph/`, `routes/graph.py`, resolvers) | tables on disk, read with every request | page, draw, cluster, export, analyse | tables rewritten between two pages | `GraphQueries`, `GraphAnalyses` |
| Monitoring and performance tools (`performance/`, `monitoring/`) | requests in flight, figures, a sampling task | track, record, sample, start, stop; chunking, pages, compression | requests that share a name; two stops at once; boundaries of pages and of integer widths | `PerformanceMonitor`, `BackgroundTasks`, `LargeResults` |
| Auth migration (`database/`) | users, migrations table | migrate, register | two runs between each other's statements | `AuthMigration` |

The components call each other in one direction: routes and resolvers call the
managers, the container builds them and hands them out. What couples them is the
workspace object (its status is set by the indexing route and read by
`is_ready_for_indexing`), the directories (made by the workspace manager, used by
indexing tasks, removed by deletion and cleanup), the tables of the indexing tool
(which the graph operations and the query cache read), and the order in which the
container starts things. The first of these couplings is `IndexingService`, the
second is in `WorkspaceStore`, the third in `GraphQueries` and `ResultCaches`, the
last in `ServiceContainer`. The remaining components share no state, which is why
they can be checked side by side (see Runs).

## What is modelled

Every handler whose awaits cannot suspend is one action; a handler that can
suspend, a thread or a client of a server is cut at its suspensions. Variables
marked "history" in the modules are not in the program: they remember what a
property has to compare with. Constants whose comment starts with "bound" make
the instances finite and stand for nothing in the program.

### `IndexingManager`

The model of `indexing/manager.py`, `indexing/models.py` and `indexing/tasks.py`.

| Variable | Code |
|---|---|
| `jobs` | `_jobs`, as a function from job ids to records; `NoJob` for an id that is not a key |
| `task` | `_active_tasks`: `"none"` (no entry), `"created"` (scheduled, first step to come), `"running"`, `"cancelling"` (`task.cancel()` called, the task has not seen it yet), `"done"` (finished, handle not swept yet) |
| `running` | `_running_jobs` |
| `proc` | `_queue_processor_task` |
| `phase` | the process: down, up, in `stop` before or after the queue processor was awaited, stopped |
| `disk` | what loading `jobs.json` would yield |
| `unsaved` | history variable: the last write of the index failed or was cut short |
| `nextId`, `faults` | bounds of the model: ids handed out so far, failed writes so far |

A job record keeps status, workspace, priority, retry count, limit, and the
age of `completed_at`; progress figures, messages and the other timestamps are
left out, because no control decision reads them.

The grain of an action is what the event loop runs without a suspension:

- `Create`, `Cancel`, `Retry` are `create_indexing_job`, `cancel_job` and
  `retry_job`, each with the save at its end. None of them awaits.
- `Tick` is one iteration of `_process_queue`: `_cleanup_old_jobs` (with its
  save), `_process_queued_jobs`, `_cleanup_completed_tasks`. There are awaits in it
  but none that suspends; the next suspension is the 5 s wait. `TickDies` is the
  iteration whose save fails: the exception leaves the loop and the processor ends.
  That starting a job fails it (`manager.py:376-378`) does not happen: what could raise is
  the validation of the mock workspace, whose name, made of a UUID, is always valid.
- `TaskBegin`, or `TaskRejected`, is the first step of a task, up to its first
  sleep; `TaskEnd` its last one; `TaskCancelled` the delivery of a cancellation.
  All but `TaskBegin` end in the `finally` of `_execute_job` (`Finish`).
  The sleeps between the stages change nothing the model keeps.
- `StopBegin`, `StopTasks`, `StopFinish` are `stop` cut at its two awaits.
- `Boot` is `__init__` with `_load_jobs_index`, `Start` is `start`.
- `Crash` ends the process anywhere; `CrashInSave` ends it between the truncation
  and the completion of a write. `SaveFails` is a write that raises: the old
  file, or an unparsable one that loads as no jobs (`_load_jobs_index` catches the
  `JSONDecodeError`).
- `Age` lets `job_cleanup_hours` pass for a finished job.

Two facts about asyncio are built in, both from the order of its ready queue.
A task created by one iteration of the processor has taken its first step
before the processor's next timer, 5 s later (`NoTaskIsFresh` in `Tick`); and
the processor's cancellation in `stop` takes a turn of the loop, in which tasks
already scheduled take theirs (`NoTaskIsFresh` in `StopTasks`). Requests are
over when `stop` is called (the server drains them before the lifespan ends), and
nothing calls `start` after `stop`. `Create` is the manager's operation for a
workspace that is ready; the status of workspaces belongs to `IndexingService`.

### `JobQueue`

What the manager promises, without tasks, polling or files: jobs wait, are active
in one of `Slots` slots, are done; a done job waits again only against one more
attempt; while the queue is durable a restart puts active jobs back (or finds
that they were done) and changes nothing else. `IndexingManager` implements it
(`ImplementsQueue`) under the mapping: a job is active while it holds a slot,
otherwise its status says whether it waits or is done; while the process is
down the queue is what the file would load; durable is "the last write worked".

### `ServiceContainer`

The two initialisation paths of `dependencies.py` and the lifespan of the
application, with the two services with background work that the container owns.

### `ConnectionPool`

`ConnectionPool`, `ConnectionPoolState` and the queue of `performance/connection_pool.py`.

| Variable | Code |
|---|---|
| `initialized` | `_initialized` |
| `connections` | `_connections`; `_active_connections` is always its size, and the `active` field of a record says whether it is in it |
| `available` | the items of `_available_connections` |
| `getters`, `woken` | inside that `asyncio.Queue`: clients with a pending getter, oldest first, and clients whose getter is done but who have not run since |
| `held` | the local `connection` of each client inside its `async with` block |
| `created` | bound of the model: connections are numbered in the order of their creation |

A client is a coroutine in `get_connection`. It is suspended only while it waits
for the queue and in the body of its `async with` block: the queue is unbounded,
so `put` never waits; `wait_for` of the Python versions the project supports (3.12)
runs `get` in the same task; and as nothing suspends under `_lock`, the lock is
never contended. So the actions are: entering (`Acquire`, or `Wait` when the queue
is empty, each with the initialisation at the start), running after a wake-up
(`Take`, or `WaitAgain` when a newcomer was faster), the time-out (`Grow` below
the limit, `GiveUp` at it), cancellation while waiting (`GiveUp` too), the end of
the block (`Release`) and `Cleanup`. A waiter that leaves after it was woken
passes the wake-up on, as `asyncio.Queue.get` does (`Leave`). That queue is
the external part of this model; everything else is the pool's code. A time-out
may strike at any time.

The metrics are left out: they read the connection and change nothing of the pool.
Query execution and the query cache are in `ResultCaches`.

### `IndexingProgress` and `IndexingService`

`IndexingProgress` is one job seen by a client that asks how far it is:
`indexing/tasks.py` runs through eight stages and reports after each step; which
stages count as done is decided by the alphabetical order of their names, so that
the figure jumps. `saved` is the job in the index, which is rewritten whenever
another job changes (`Save`); `Restart` goes on from it. `Cancel` asks for nothing, as
`cancel_job` and its route do not: a completed job that is cancelled goes on showing the
whole, and one cancelled before its task's first step (`fresh`) runs all the same.

`IndexingService` joins the jobs and the workspaces: `CreateJob` stores the job
(`tasks`, `taskIndex`) and then marks the workspace (`spaces`, `spaceIndex`);
`FirstSaveFails`, `SecondSaveFails`, `CrashBeforeJob` and `CrashBetween` are its other
ends, and any later save writes what memory has. Here a task is one step that begins
and one that ends it; the queue is in `IndexingManager`. The listings of the REST and
GraphQL layers and the statistics are operators on the same jobs, `JobsPage` with the
page information it promises. Nothing takes the mark of a workspace back, so through
the routes a workspace is indexed once.

### `WorkspaceStore` and `SqliteWorkspaces`

`WorkspaceStore` is `workspace/manager.py` with its callers. A creation runs in a
thread (`op` says where each thread stands): name check, the directory, its output
directory and settings, the registration, and the save, cut into the copy of the
registry, the truncation of the file and the write. The check compares the name as the
request has it, while `WorkspaceConfig` stores it without the blanks around it: a name
with blanks (`Spellings`) passes although it is taken. Updates, deletions, the mark of
an indexing and the forced cleanup run on the event loop; one of these that saves
occupies the loop (`Loop` is an actor like a thread). `SaveFails`, `CopyFails` (the
registry changed size while it was copied), `Undo` (the removal of the directory by
a failed creation), `Crash` and `Boot` (with an index that may be torn) complete it.

`SqliteWorkspaces` is `workspace/sqlite_manager.py`: names are unique in the table,
but the directory is made before the row is inserted and removed before it is
deleted, and its path is only in the row's config, which an update may overwrite.

### `Accounts`, `AccessControl`, `ApiKeys`, `SessionManager`

`Accounts` follows logins: `users` is the table of users, `pairs` each access token
with the refresh token and the database session made with it (`from` is the pair it
was exchanged for, `login` the first of that chain). The REST routes work through the
JWT manager's memory, the authentication service through the database; `Restart`
forgets the first and keeps the second. `Register` and `ChangePassword` are two transactions
each, and what fails between them leaves the first done: a user without a login, or
sessions of the old password (`spared`). That bcrypt hashes only the first 72 bytes of
a refresh token is in `Validates`: any open session of the user will do.

`AccessControl` is which manager each route asks: two JWT managers with a blacklist
each, three managers of API keys, the master key, the batch operation of the
administrator and the audit log, which grows until the process ends. `ApiKeys` is one
such manager with its counters, their resets and the limits of the authenticator. The limits
of a key are positive when it is made, but an administrator's update sets any of them to
any number while the key is in use (`config`, `ConfigChanges`).
`SessionManager` is the in-memory manager with its three maps.

### `RateLimiting` and `SecurityWatch`

The nine limiters of the code base, one chosen at the start by `kind`, with the
state each keeps, and the answer (`told`) in whole seconds although the clock is
finer. Two let everybody in (`Open`): the window strategies of `AdvancedRateLimiter`, its
default among them, which are stubs, and the fixed window under an identifier with colons,
which removes its counter with every request. `SecurityWatch` is what `security/logging.py` remembers of failed log-ins.

### `CacheManager`, `RedisCache`, `ResultCaches`

The in-memory cache with expiry, eviction of the least recently used, its two
limits and the removal of all keys that begin with a given text, which is the empty one
where `routes/system.py` clears the cache; the Redis client, whose commands are steps of the server with other clients'
commands between them; and the two caches of results inside the process, with the
awaits between asking the cache and storing the answer.

### `Subscriptions`, `DataLoader`, `ProviderSwitch`

One topic with its subscribers, whose queues are bounded and whose end signal may be
lost; the batching loader with one future for several loads of a key; the switch of
the provider with its awaited health check, calls of which may overlap.

### `GraphQueries`, `GraphAnalyses`, `LargeResults`

Tables that an external run rewrites one after the other while two clients page
through them (`RestPage`, by offset; `ConnectionPage`, by cursor), and what is computed
from a table: drawings, clusters, communities, statistics, exports, queries,
centrality, anomalies. The ends of relationships are titles while some computations look for ids among them:
`IdsApart` says that the two are different, and what is claimed of those computations is claimed under it.
`LargeResults` is a table that grows and what
`performance/memory_optimizer.py` and `compression.py` make of it.

### `PerformanceMonitor`, `BackgroundTasks`, `AuthMigration`

Requests in flight under names of endpoint and time, counters and kept figures; the
tasks of the monitor and of the workspace cleanup under every order of starts and
stops; the migration that makes the first administrator, statement by statement.

## Runs

| Run | Instance | Shows |
|---|---|---|
| `indexing_safety` (`MCIndexing`) | 2 jobs, 2 workspaces (symmetric), 1 slot, 1 retry, 2 failed writes | safety of the manager, and the refinement of `JobQueue` |
| `liveness` (`MCLiveness`) | the manager with 2 jobs, 2 priorities, 1 slot and no failed writes; the loader, the subscriptions and the pool of the `services` run; `LivenessSpec` | `HeadServed`, `ShutdownCompletes`, `LoadsSettle`, `StopEndsAll`, `ReturnedIsUsed` |
| `workspaces` (`MCWorkspaces`) | 2 threads beside the loop, 2 names in 2 spellings, 2 workspaces, 1 failed write; 2 callers, 3 directories; 2 migrations; 2 workspaces and 2 jobs with 1 failed save or crash | what is kept on disk |
| `auth` (`MCAuth`) | 3 pairs and 1 change of password; 3 sessions, 2 per user; 9 limiters over 10 ticks; 1 key over 4 ticks, of which an hour is 2; 2 issued keys; 2 addresses | the authentication layer |
| `services` (`MCServices`) | 3 loads; 2 subscribers with queues of 2; a cache of 2 entries; 3 switches; tables of up to 5 rows; a pool of 1 to 2 connections with 4 clients; and the other parts | safety of the service layer |
| `lost_cancel` | 2 jobs, 2 slots | violation: a job runs after its cancellation was confirmed |
| `duplicate_active` | 2 jobs, 2 slots | violation: a workspace with two active jobs |
| `startup` | the container | violation: requests are served by a manager that was never started |
| `pool_limit` | 3 clients, 1 connection | violation: more than `max_connections` connections |
| `workspace_names` | 2 threads, 1 name, 3 ids | violation: two workspaces of one name |
| `logout` | 2 pairs | violation: a refresh after a logout |
| `issued_keys` | 1 key | violation: an issued key is refused |

**Side by side.** `MCAuth`, `MCLiveness`, `MCServices` and `MCWorkspaces` instantiate modules that
share no state in the program. Their product would be large and would say nothing new:
a step of one part changes nothing that another part's guard or property looks at. So a
behaviour exercises one part, chosen by `part` in the initial state, and the states are
the sum of those of the parts. Parts that do interact are in one module.
A type invariant is asked of the part at work.

Properties of the manager (`indexing_safety`; `HeadServed` and `ShutdownCompletes` in `liveness`):

- `ConcurrencyBound`, `NoSlotLeak`: every path of cancellation, rejection, failure,
  shutdown and restart releases a slot exactly once, and no job works without one.
- `StatusMatchesTask`: a job is shown running exactly while a task runs it,
  although both `cancel_job` and the task write the status.
- `LiveTaskHasJob`: `_cleanup_old_jobs` drops no record a task still writes to.
- `NothingLostByCrash`: unless the last write failed, the file loads as the jobs in
  memory, with running ones queued again; the one exception is a lost cancellation
  (first finding), which the file remembers and the memory does not.
- `NoHandleLost`: no live task is replaced in `_active_tasks`.
- `ImplementsQueue`: the refinement.
- `HeadServed`: the first waiting job in sort order is started, cancelled, or
  overtaken by another of higher priority. Not more: there is no ageing, so
  a job of low priority waits for ever if better ones keep coming.
- `ShutdownCompletes`: `stop` ends.

Of the `workspaces` run:

- `ClashAside`: creations of different names never disturb one another; a workspace
  keeps its directory with its own settings. It claims nothing once a name was in use by
  two, which needs two creations at a time, the restart of an older index, or a name with
  blanks. `NamesUnique` without the proviso is the `workspace_names` violation.
- `IndexCurrentUnlessOverlap`: after operations that did not overlap the index is what
  memory is. With overlaps it may be older, or torn.
- `StoresAgree`: rows and directories of the SQLite store; a marked workspace has a
  job; no workspace has two active jobs through the routes unless a creation was cut
  short.
- `ListingsTell`: listings, pages and statistics tell the same of the jobs.
- `MigrationSound`: overlapping migrations make one administrator.

Of the `auth` run:

- `OneLiveTokenPerLogin`, `SessionsFollowPassword`: rotation and the change of password,
  whatever the two ways to refresh, logouts, restarts and clean-ups do. A change that is
  cut short between its two transactions excuses the sessions open then, and no others.
- `SessionsConsistent`, `NoRevival`: the three maps agree, the limit holds, an ended
  session stays ended.
- `LimitsHold`: no stretch of a period sees more requests than the limit of its limiter. Of the
  fixed window it is every minute of the calendar (around a boundary it lets twice the limit
  through), and of the limiters that let everybody in nothing. An API key is accepted only
  if the uses of the hour up to then are as few as the limit it has then, whatever its
  limits were before.
- `WaitingHelps`: whoever waits as long as a limiter told him, a second more where the code
  rounds down, is let in. So is a key that pauses for an hour, if its limits let in anybody
  (an update may set them to 0 or less) and its day is not used up - except in the first minute,
  or hour, of the days after the last reset of its counters, when the code takes those for new.
- `LogsTellState`: the audit log says what each key is now, whatever failed half-way and
  whoever read it, which turns it round; suspicions are exact.

Of the `services` run, and of `liveness` (`LoadsSettle`, `StopEndsAll`, `ReturnedIsUsed`):

- `LoadsSettle`: a load is answered, unless it stands in a batch behind a cancelled one:
  `set_result` on a cancelled future raises and leaves the rest unanswered.
- `NoGaps`, `StopEndsAll`: a slow subscriber is cut off and never made to skip; after
  `stop` every generator ends, with or without the end signal.
- `CachesSound`: order and entries agree, limits hold; no result is given that was
  cleared before it was asked for; an invalidation leaves nothing older than itself.
- `FailedSwitchLeavesNoTrace`: and where it does not hold (overlaps, cancellation, a
  provider that cannot be made) is its proviso.
- `PagesComplete`, `AnalysesConsistent`: a client that pages through an unchanged table
  sees every row; drawings are closed, groups are partitions, exports, statistics,
  queries and anomalies are what their comments say; chunks, pages and integer widths
  lose nothing.
- `NeverOverstated`: a running job claims no more than was done, and only a job whose work was
  all done shows the whole; it is completed, or was cancelled after that.
- `MonitorSound`: counters and tasks of the monitor and of the cleanup. (That a percentile
  is one of the times kept, and no smaller than it has to be, is in `AnalysesConsistent`.)
- `InOnePlace`, `NoLostWakeup`, `LimitOvershoot`, `ReturnedIsUsed`: the pool.

All liveness properties are in one run, because they are checked on the whole graph of states, which
parts that have none would only make larger.

**Bounds.** Two jobs and one slot make a job wait for the other, and let one be retried,
cancelled or expire while the other holds the slot; the violations use two slots so that
two jobs can be active at once. `DefaultRetries` is 1, so that a job can be retried and
then have no attempt left; two failed writes allow one to repair and one to repeat.
Two threads and the loop are enough for every overlap of two saves with a handler; a third
workspace is what the violation of the names needs. The `workspaces` run has a constraint, `Unclashed`:
nothing ends a clash, and past one the properties of the store claim nothing but its types (which are proved), so
TLC checks the first state of a clash and does not go on from it. In the `auth` run the audit log has up to five
entries, which is two creations and a batch over both keys, as long as nobody has logged in, and three
afterwards (`ShortLogs`): tokens and the log have only the numbers of the keys in common. One key is
enough for the limits, which are each key's own; it is used three times in an hour, once more than the highest
limit, and the changes of its limits raise, lower and forbid.
Three pairs are a login, its refresh
and another of either. Limiters run for more than two periods, so that a window is left,
cleaned up and entered again. Four clients at two connections put two waiters in the
queue while both connections are out, so that a wake-up can be passed on and overtaken;
five connections let a pool of two be cleaned up with both in use and fill again.
Capacities of two (queues, caches, kept alerts and figures) are reached and passed.
`MinConnections <= MaxConnections` is an assumption: the configuration does not validate
it, its defaults (2 and 10) satisfy it.

**Fairness.** The event loop runs due timers and ready tasks: `WF` of `Tick`, of each
task's steps (finite loops of sleeps) and of `StopTasks` and `StopFinish`; in the pool, of
a woken client; in the loader, of the dispatch at the end of the tick, and of the answer to
a query that was sent; of a subscriber's generator, whose queue is waited for with a
time-out of a second, and of its consumer, the transport's loop, which asks for the next
item. Clients, crashes, failures, cancellations, `Start` and the beginning of a shutdown are
not fair; no client of the pool need time out or return what it holds. Weak fairness
is enough: each of these steps stays enabled until it is taken, or another replaces it. In a part that
`MCLiveness` leaves alone no fair step is enabled, so its fairness excludes no behaviour of the others.

**Deadlock** is checked in `indexing_safety`, `lost_cancel`, `duplicate_active`, `pool_limit` and `workspace_names`. The other
configurations switch it off: their instances end at a bound, and the container at its end.

## Findings

1. `lost_cancel`. `cancel_job` cancels the task only if the status is
   `RUNNING`, but the status is set by the task's own first step. A cancellation
   handled in the same turn of the loop in which the processor created the task
   answers "cancelled", and the job runs to completion.
2. `duplicate_active`. Only creation checks for an active job of the workspace;
   `retry_job` does not, nor does a job revived by a lost cancellation. (Through the
   routes the mark of the workspace, which nothing takes back, hides this:
   `OneActiveUnlessCut`.)
3. `startup`. `main.py` initialises the container at import, so `initialize()` in
   the lifespan returns at once and `indexing_manager.start()` is never reached:
   in the application as it is wired, jobs stay queued. (The model of
   `IndexingManager` is about the manager once started, as its unit tests and
   `initialize` use it.)
4. `pool_limit`. `cleanup()` while a client waits resets the count and the
   initialised flag. The waiter times out and grows the pool up to the limit; the
   next use of the pool initialises it again and adds `min_connections`.
   This needs the `ConnectionPool` object to be kept over its cleanup, as waiting
   clients do; `cleanup_connection_pool` drops the global one.
5. `workspace_names`. The name is checked long before the workspace is registered, and a
   creation that finds the directory taken removes it; a third one makes it again. (The run
   has requests without blanks only. With blanks, `CheckName` shows that no overlap is needed: the
   second creation passes the check, meets the directory and removes it, and the third registers the name.)
6. `logout`. The route blacklists the access token and leaves the refresh token alive. (It also does so in
   one of two JWT managers: the unified authenticator, which the other routes ask, goes on
   accepting the token, although the route speaks of a consistent logout across the system.)
7. `issued_keys`. The managers that issue keys are not the one that accepts them.

Other things the translation met, which no run is about: a cached GraphQL entity cannot
be given back (`Entity(**entity_obj)` raises until it expires); `list_workspaces` of the
SQLite manager fails whenever there is a row; the idle cleanup asks for a field that the
summaries lack and takes the `AttributeError` for activity, so it never removes anything;
`max_retries` of 0 becomes the default; failed API keys are not told to the
security logger; `entities` of the GraphQL schema fails once fields are selected; a completed job
can be cancelled; an update may give a key limits with which it is never accepted; `/auth/csrf-token`
asks for no token.

## Proofs

Eight modules hold theorems. Each is proved for every value of the constants, from the named
assumptions of the modules (bounds are naturals, null values are not values). Those of the
side-by-side modules are about the specification the run checks, and state the property under
the name it has there.

| Module | Theorems | What they state |
|---|---|---|
| `IndexingManagerProofs` | `Inductive`, and from it `TypeCorrect`, `ConcurrencyIsBounded`, `SlotsAreNotLeaked`, `StatusIsTruthful`, `LiveTasksHaveJobs`, `CrashLosesNothing`, `HandlesAreNotLost` | `[]IndInv`; `TypeOK`, `ConcurrencyBound`, `NoSlotLeak`, `StatusMatchesTask`, `LiveTaskHasJob`, `NothingLostByCrash`, `NoHandleLost` |
| | `ManagerImplementsQueue` | `ImplementsQueue`: every step of the manager is one of `JobQueue`, or none |
| `ConnectionPoolProofs` | `PoolInvariant`, `ConnectionsInOnePlace`, `WakeupsNotLost`, `OvershootBounded`, `PoolTypes` | `[]IndInv`; `InOnePlace`, `NoLostWakeup`, `LimitOvershoot`, `TypeOK` of the pool |
| `StorageProofs` | `IndInvHolds`, `ClashesAside`, `IndexStaysCurrent`, `RowsKeepDirs`, `JobsAndMarksAgree`, `DisksAgree`, `ListingsAgree`, `MigrationsAreSound`, `StorageTypes` | `[]IndInv` of the store; `ClashAside`, `IndexCurrentUnlessOverlap`, `StoresAgree` with its two halves, `ListingsTell`, `MigrationSound`, `StorageTypeOK` |
| `AuthProofs` | `TokensRotate`, `PasswordEndsSessions`, `SessionsStayConsistent`, `EndedSessionsStayEnded` | `OneLiveTokenPerLogin`, `SessionsFollowPassword`, `SessionsConsistent`, `NoRevival` |
| | `AccessInvariant` | `[]AccessInv` |
| | `LimiterInvariant`, `KeysInvariant`, `WatchInvariant` | the inductive invariants of the limiters, the API keys and the watch |
| | `LimitsAreKept`, `ClientsGetBackIn`, `LogsTell`, `AuthTypes` | `LimitsHold`, `WaitingHelps`, `LogsTellState`, `AuthTypeOK` |
| `AnswerProofs` | `ResultInvariant`, `RedisInvariant`, `CacheInvariant`, `ProgressInvariant`, `GraphInvariant` | the inductive invariants of the caches, the figures of progress and the clients that page |
| | `CachesAreSound`, `FiguresNeverOverstate`, `PagesAreWhole` | `CachesSound`, `NeverOverstated`, `PagesComplete` |
| `ServicesProofs` | `SwitchInvariant`, `TaskInvariant`, `TopicInvariant`, `MonitorInvariant` | the inductive invariants of the provider switch, the background tasks, the subscriptions and the monitor |
| | `FailedSwitchesAreUndone`, `UpdatesComeWithoutGaps`, `FiguresAreSound`, `TypesAreKept` | `FailedSwitchLeavesNoTrace`, `NoGaps`, `MonitorSound`, `ServicesTypeOK` |
| | `PoolIsSound`, `PoolWakesClients`, `PoolStaysBounded` | `InOnePlace`, `NoLostWakeup`, `LimitOvershoot` of the `services` run |
| | `AnalysesAreConsistent` | `AnalysesConsistent` |
| `AnalysesProofs` | lemmas only | that percentiles, large results and what is read from the graph are right in every state that has its types |
| `SelectionProofs` | lemmas only | what `Selection` keeps of a list, joins, sorts and adds up, and how to count it |

**The manager.** That a new slot is really new (and so that the bound holds after a turn of
the processor) needs that a queued job has no live task; for a job whose task is
`"created"` and whose status `Cancel` overwrote this is not visible in `NoSlotLeak` or
`StatusMatchesTask`, so `TaskAgreesWithJob` says which statuses each state of a task allows,
and which task states each phase does. Its clause on `"cancelling"` also carries the age of
the record, which is what keeps `_cleanup_old_jobs` from dropping it. `FreshIdsUnused` (ids not
handed out name nothing, in memory or in the file) is what makes creation safe.
The proofs are layered: facts about records, about the cardinality of the set of slots,
about a save whatever its outcome, then one step per action.

**The refinement.** The mapping shows the file while the process is down and the memory
while it is up, so a crash must show the same queue from the other side. For that `MapInv`
adds to the invariant that an id without a job carries no data (`AbsentIsEmpty`), that no
record says "running" once `stop` has cancelled the tasks (`NoneRunsAfterStop`), and
that after a good write the file says of each job what the memory says, but for jobs in
a slot (`FileIsCurrent`). Then one lemma per kind of step of the queue (`Submits`, `Withdraws`,
`Ends`, `Resubmits`, `Schedules`, `Restarts`, `NothingMoves`), and each step of
the manager is one of them.

**The pool.** The invariant places every connection (`Placed`: the queue has no connection
twice, users none in common, and what is listed was created), says of the waiters that each
is once in the queue (`Queued`), and carries `NoLostWakeup` and `LimitOvershoot`. The step
that needs care is a client that leaves after it was woken.

**Tokens.** `FirstIssued` (pairs are issued in order) makes a new pair new; `Chained` says that
a pair's predecessor belongs to the same login and is used up, which is why the next of that
login can be the only live one. Every action either issues one pair (`IssuingKeeps`) or only ends
what there is (`EndingKeeps`).

**Sessions.** Every operation but `create_session` only ends sessions and takes the same ones off
the lists (`SessionsEnd`), so the maps go on agreeing. A creation stays within the limit because at the
limit there is a least recently used session (`SomeoneGivesWay`, from the well-foundedness of the
naturals) and it leaves before the new one enters. That the invariant speaks of the lists and not of the
active sessions (`ListsWithinLimit`) makes the two halves independent: the limit follows once the maps agree.

**The log of the keys.** `AuditTellsState` is about the newest entry of a key. `Numbered` says that the
entries have the times from 0 on, each once, in whatever order the log holds them; so an entry
that is added is newer than all, and reading the log, which sorts it in place, changes none (`SortedSays`).

**The store.** `Shape` says what a thread can be doing, `NamesApart` that two actors work on different
names and that the name of a creation is free until it registers, so that names stay unique in
the registry, in the copy that is being saved and in the file. `DirsAgree` follows a directory through
creation, undoing and removal, `OneAtATime` the index when nothing overlaps. In `SqliteInv` a directory
that no row names yet is held by exactly one caller. `ServiceInv` counts what each file and memory say of one
workspace: one job at most, and none until it is marked, unless a creation was cut short.

**Listings.** The newest jobs of a list are those of the last places that are kept, so a page is a prefix of a
longer one (`Selected`), and it is the whole list when there is no more to keep. The counts by status and by
workspace are a partition of the tasks, each of which is counted once (`Summed`); that needs only that the
tasks are finitely many and each of a known workspace (`ServiceInv`, `FewTasks`). `MaxTasks` is the bound of
the instance, so that the list of all is really of all.

**Limiters.** That a log has at most `Limit` entries says nothing by itself of the requests let
through. `Covered` does: each that is younger than the period has an entry in its place, counted from
the end, that came no earlier. So the request that finds room is more than a period after the one `Limit`
before it (`Spaced`), and no stretch of a period holds more. For buckets `Paid` is the account: what was
taken since any request, with what is left, is no more than the capacity and the refills since. `Told` says
that the time a client was told is late enough for the state the limiter is in, whoever else comes
meanwhile. For the fixed window `WindowKept` says that the count is that of the requests let through in its
minute, so that none has had more. Of the API keys it is said when they are accepted, because the limits change: the list
of the uses of the last hour covers those that were accepted (`UseCovered`), so its length, which is less than the limit
of that moment, bounds them (`Bounded`).

**The watch.** An address is held for suspicious exactly if five of its failures were ever within the
window (`Close`), although the list is trimmed only at a failure: what was trimmed is too old to be
close to any later one. The alerts are the newest of those raised (`LatestOf`).

**Provider, tasks, subscriptions.** While nothing was disturbed one switch at most is under way, and it
remembers the provider of the last success. A loop that nobody knows can only be one that is ending,
unless two stops overlapped. What a subscriber was given and what waits for it is one run of updates
(`RunOn`): the n-th update in the queue, the end signals left out, is the n-th after those it was given.

**The monitor.** The history forgets its oldest entries and marks the newest of an endpoint when an error is
recorded, so the marks are at most the errors recorded (`CountsInv`), not as many. Two requests that share a
name share an entry of what is shown, hence `SameName`.

**The caches.** In the cache manager the list has every entry once and in the order of use, so the head of the
list is an entry and is the least recently used; that is also why the loop that makes room ends
(`RoomIsMade`). Memory is counted in units, one pair for each unit of each entry (`Units`), which makes the
sum over the entries a cardinality. A cached table was read since the last clearing (`FramesCurrent`), and what
an asker read, it read after it asked. An invalidation whose commands worked has emptied the namespaces it has
passed of all that was stored before it began (`Emptied`), and knows the keys that are to go from the
one it is at.

**Progress.** A running job stands in a stage that has steps and has not done its last one, and its figure
is no more than the stages before and the steps of this one are worth (`Underway`); the alphabetical order,
which makes the figure fall, can only make it smaller. So the whole is reached by completing and in no other way, and what
was reached stays with a job that is cancelled later, in memory and in the index.

**Pages.** As long as nobody writes, the client of the route has exactly the rows before its offset
(`RestGoes`). The one of the GraphQL field has one row more than its offset, and each page after the first has
cost it a row that it had (`ConnectionGoes`); this holds for pages of one row too, where the client never
comes to the end.

**Analyses.** What is computed from a table depends on the table alone, so `AnalysesConsistent` follows from
the types (`TypesAreKept`), state by state, and the work is in the lemmas on the operators. All of them are counted and
none is unrolled. The groups and chunks of a table are cuts of its places, one after the other (`PartsAre`,
`ClustersJoined`), and what is counted in each adds up to what is counted in all (`CountsJoined`). A list sorted by keys has
at its n-th place an element with n no later than it (`SortingOnce`): so the percentile has enough of the times
below it (`PercentilesHold`), an interpolated quantile at most the share above it that was asked for (`FewAbove`),
and a sort by equal keys changes nothing (`SortingSame`). Relationships that join each pair once, with their reverses
and the pairs of a title with itself, are no more than all pairs of titles, which bounds the density (`PairsCounted`).

**Composition.** The steps of the other parts leave the variables of this one alone (`OnePartMoves`,
`OneAnswerMoves`), so an invariant of the part is one of the whole. The pool is proved as a component of its
own, and each behaviour of `MCServices` is one of it, with stutters (`PoolsAreSteps`). `ServicesProofs` extends
`AnswerProofs` and `AnalysesProofs` because the types, and the analyses, are statements about several parts.

**What the proofs asked of the model.** What is kept of a list where the code has a comprehension with a
condition is stated by the places that are kept; joining lists, a stable sort and a sum by places and by counting
(`Selection`); the sums of `CacheManager` and `IndexingProgress`, and the order of the updates in
`Subscriptions`, by cardinalities; the connected components of the graph, with which the estimate of the code is
compared, by the sets of titles that no relationship leaves. Recursive definitions say the same but cannot be
reasoned about here. Some assumptions turned out to be needed and became explicit:
`KeyAssumption` has positive limits of new keys (`ge=1` in `auth/api_keys.py`) and any integers in updates;
`WatchAssumption` has `SuspectFrom < BlockFrom`, as the code's 5 and 10 are (with equal ones an address is
blocked before it is found suspicious, and `WatchExact` fails); `NoEntry` is no entry, the spaces of the
cleanup are finite, and the tables of the graph are sequences of rows. None of them excludes a state of the program.

**Only model-checked.** The liveness properties (`HeadServed`, `ShutdownCompletes`, `LoadsSettle`,
`StopEndsAll`, `ReturnedIsUsed`), which are out of the provers' reach. Every invariant and action property
of the passing runs is proved.

## Not modelled

- Role-based access (`auth/jwt_auth.py`): tables of constants. CSRF protection: `main.py`
  leaves it disabled. Header, CORS and validation middleware: a function of one request.
- Health and status reports of `SystemOperations`, the metrics endpoints, the Prometheus exporter,
  the set-up of tracing, the load tester, the benchmarks and the scripts: they forward or
  produce figures and keep no state another part reads.
- The mutations `set_active_workspace`, `rebuild_graph_index` and `clear_cache` of a workspace:
  the code answers without doing anything.
- The LLM providers' generation and embeddings, the indexing tool itself, SQLite and Redis:
  external; what the service relies on of them is in the modules that use them.
- The GraphQL type definitions and the settings: declarations.
- Violation counters of `AuthRateLimitMiddleware` (nothing reads them), the hit and miss counters of
  the caches, and the description that an update of a workspace leaves behind in memory when it
  is rejected half-way (descriptions are not part of the model).

`PROJECT.json` lists every component with its status and reason, and every hazard with the
properties that would catch it, or why none does.
