--------------------------- MODULE BackgroundTasks ---------------------------
(***************************************************************************)
(* Two tasks that run beside the requests, and how they are started and    *)
(* stopped: that of the performance monitor, which is known by a           *)
(* reference, and that of the workspace cleanup, which is known by a flag  *)
(* and a reference.  A cycle of the cleanup, and the forced cleanup of one *)
(* workspace, do not suspend.  The cleanup is meant to remove workspaces   *)
(* that are idle; what it does is in Cycle.                                *)
(***************************************************************************)
EXTENDS Naturals, FiniteSets

CONSTANTS
  Stoppers,  \* callers of stop
  Spaces,    \* workspaces
  MaxTasks   \* bound: tasks ever made

TasksAssumption == MaxTasks \in Nat /\ IsFiniteSet(Spaces)

VARIABLES
  made,        \* tasks ever made; they are numbered
  live, ending, \* the tasks that have not ended, and those that were cancelled
  monitorTask, \* _monitoring_task, or 0
  cleanupTask, \* _cleanup_task, or 0
  flag,        \* _running of the cleanup
  stops,       \* the task of the monitor each caller of stop waits for, or 0
  overlapped,  \* history: two calls of stop_monitoring waited at once
  state,       \* the status of each workspace: created, indexing, archived or gone
  idle,        \* the workspaces that are older than workspace_max_idle_hours: nothing
               \* ever updates the time of the last access
  odd,         \* whether the number of cycles is odd
  stats        \* idle_cleaned, size_cleaned and errors

taskVars == <<made, live, ending, monitorTask, cleanupTask, flag, stops, overlapped>>
spaceVars == <<state, idle, odd, stats>>
vars == <<taskVars, spaceVars>>

---------------------------------------------------------------------------
(* The task of the monitor.                                                *)

StartMonitoring ==
  /\ monitorTask = 0 /\ made < MaxTasks
  /\ made' = made + 1
  /\ monitorTask' = made' /\ live' = live \cup {made'}
  /\ UNCHANGED <<ending, cleanupTask, flag, stops, overlapped, spaceVars>>

\* stop_monitoring cancels the task, waits for its end ...
StopMonitoring(s) ==
  /\ stops[s] = 0 /\ monitorTask # 0
  /\ ending' = ending \cup {monitorTask}
  /\ stops' = [stops EXCEPT ![s] = monitorTask]
  /\ overlapped' = (overlapped \/ \E other \in Stoppers : stops[other] # 0)
  /\ UNCHANGED <<made, live, monitorTask, cleanupTask, flag, spaceVars>>

\* ... and forgets the task, whichever is there by then.
MonitoringStopped(s) ==
  /\ stops[s] # 0 /\ stops[s] \notin live
  /\ monitorTask' = 0
  /\ stops' = [stops EXCEPT ![s] = 0]
  /\ UNCHANGED <<made, live, ending, cleanupTask, flag, overlapped, spaceVars>>

\* A cancelled task ends when it is resumed.
End(n) ==
  /\ n \in live \cap ending
  /\ live' = live \ {n}
  /\ UNCHANGED <<made, ending, monitorTask, cleanupTask, flag, stops, overlapped, spaceVars>>

---------------------------------------------------------------------------
(* The task of the cleanup.                                                *)

\* Mutant: start does not look at the flag.
StartAlways ==
  /\ made < MaxTasks
  /\ flag' = TRUE
  /\ made' = made + 1
  /\ cleanupTask' = made' /\ live' = live \cup {made'}
  /\ UNCHANGED <<ending, monitorTask, stops, overlapped, spaceVars>>

\* start, with the cleanup enabled.
StartCleanup ==
  /\ ~flag /\ made < MaxTasks
  /\ flag' = TRUE
  /\ made' = made + 1
  /\ cleanupTask' = made' /\ live' = live \cup {made'}
  /\ UNCHANGED <<ending, monitorTask, stops, overlapped, spaceVars>>

\* stop: a second call returns at once, also while the first one waits.
StopCleanup ==
  /\ flag
  /\ flag' = FALSE
  /\ ending' = ending \cup {cleanupTask}
  /\ UNCHANGED <<made, live, monitorTask, cleanupTask, stops, overlapped, spaceVars>>

\* _has_active_operations is asked about a summary, which has no time of the last access:
\* the error is taken for activity.
ActiveOperations(w) == TRUE

ShouldCleanup(w) ==
  /\ state[w] \notin {"gone", "indexing"}
  /\ ~ActiveOperations(w)
  /\ w \in idle

\* A cycle of the task, or one that a route asks for.  A candidate would end the cycle by
\* an error, counted where it occurs and by the loop, since a summary has no config.
Cycle ==
  /\ odd' = ~odd
  /\ stats' = IF \E w \in Spaces : ShouldCleanup(w) THEN [stats EXCEPT !.errors = @ + 2] ELSE stats
  /\ UNCHANGED <<taskVars, state, idle>>

TaskCycle == flag /\ cleanupTask \in live \ ending /\ Cycle

\* force_cleanup, which does not ask for the status.  The first one archives the workspace
\* in memory and then fails, since it passes the workspace for a request ...
ForceCleanupFails(w) ==
  /\ state[w] \in {"created", "indexing"}
  /\ state' = [state EXCEPT ![w] = "archived"]
  /\ stats' = [stats EXCEPT !.errors = @ + 1]
  /\ UNCHANGED <<taskVars, idle, odd>>

\* ... and the second one removes it.
ForceCleanup(w) ==
  /\ state[w] = "archived"
  /\ state' = [state EXCEPT ![w] = "gone"]
  /\ stats' = IF w \in idle THEN [stats EXCEPT !.idle = @ + 1] ELSE [stats EXCEPT !.size = @ + 1]
  /\ UNCHANGED <<taskVars, idle, odd>>

\* The route of the jobs, and time.
StartIndexing(w) ==
  /\ state[w] = "created"
  /\ state' = [state EXCEPT ![w] = "indexing"]
  /\ UNCHANGED <<taskVars, idle, odd, stats>>

Age(w) ==
  /\ w \notin idle /\ idle' = idle \cup {w}
  /\ UNCHANGED <<taskVars, state, odd, stats>>

Init ==
  /\ made = 0 /\ live = {} /\ ending = {}
  /\ monitorTask = 0 /\ cleanupTask = 0 /\ flag = FALSE
  /\ stops = [s \in Stoppers |-> 0] /\ overlapped = FALSE
  /\ state = [w \in Spaces |-> "created"] /\ idle = {} /\ odd = FALSE
  /\ stats = [idle |-> 0, size |-> 0, errors |-> 0]

Next ==
  \/ StartMonitoring \/ StartCleanup \/ StopCleanup \/ TaskCycle
  \/ \E s \in Stoppers : StopMonitoring(s) \/ MonitoringStopped(s)
  \/ \E n \in live : End(n)
  \/ \E w \in Spaces : ForceCleanupFails(w) \/ ForceCleanup(w) \/ StartIndexing(w) \/ Age(w)

Spec == Init /\ [][Next]_vars

---------------------------------------------------------------------------
(* Properties.                                                             *)

TypeOK ==
  /\ made \in 0..MaxTasks /\ live \cup ending \subseteq 1..made
  /\ monitorTask \in 0..made /\ cleanupTask \in 0..made /\ stops \in [Stoppers -> 0..made]
  /\ state \in [Spaces -> {"created", "indexing", "archived", "gone"}]
  /\ idle \subseteq Spaces
  /\ {stats.idle, stats.size, stats.errors} \subseteq 0..(2 * Cardinality(Spaces))

\* Of the tasks that are not cancelled each service knows its own: the cleanup one, exactly
\* as long as it runs, however starts and stops follow one another, and the monitor one,
\* unless two calls of stop_monitoring overlapped with a start between them.
TasksKnown ==
  LET loops == live \ ending IN
  /\ ~overlapped => loops = {n \in {monitorTask, cleanupTask} : n \in loops}
  /\ flag <=> cleanupTask \in loops
  /\ Cardinality({n \in loops : n # cleanupTask}) > 1 => overlapped

\* The statistics are those of the workspaces: each one that is gone was cleaned by name,
\* after one error, and each that is archived had its error.
CleanupsCounted ==
  /\ stats.idle + stats.size = Cardinality({w \in Spaces : state[w] = "gone"})
  /\ stats.errors = Cardinality({w \in Spaces : state[w] \in {"gone", "archived"}})

TasksSound == TasksKnown /\ CleanupsCounted

=============================================================================
