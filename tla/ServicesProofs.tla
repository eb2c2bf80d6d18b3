--------------------------- MODULE ServicesProofs ---------------------------
(***************************************************************************)
(* What is proved of the parts of MCServices that keep the service going,  *)
(* for the specification that the model checker runs: a step of it is a    *)
(* step of one part, and leaves the variables of the others alone.         *)
(***************************************************************************)
EXTENDS AnswerProofs, AnalysesProofs

PoolProved == INSTANCE ConnectionPoolProofs

---------------------------------------------------------------------------
(* The composition.                                                        *)

\* A step takes each part by a step of its own, or leaves it alone.
LEMMA OnePartMoves ==
  ASSUME [ServicesNext]_ServicesVars
  PROVE  /\ Switch!Next \/ UNCHANGED SwitchVars
         /\ Topic!Next \/ UNCHANGED TopicVars
         /\ Monitor!Next \/ UNCHANGED MonitorVars
         /\ Tasks!Next \/ UNCHANGED TaskVars
  <1>1. CASE UNCHANGED ServicesVars
    BY <1>1, Zenon DEF ServicesVars
  <1>2. CASE ServicesNext
    <2>1. Switch!Next \/ UNCHANGED SwitchVars
      BY <1>2, Zenon DEF ServicesNext, Others
    <2>2. Topic!Next \/ UNCHANGED TopicVars
      BY <1>2, Zenon DEF ServicesNext, Others
    <2>3. Monitor!Next \/ UNCHANGED MonitorVars
      BY <1>2, Zenon DEF ServicesNext, Others
    <2>4. Tasks!Next \/ UNCHANGED TaskVars
      BY <1>2, Zenon DEF ServicesNext, Others
    <2>5. QED
      BY <2>1, <2>2, <2>3, <2>4, Zenon
  <1>3. QED
    BY <1>1, <1>2, Zenon

---------------------------------------------------------------------------
(* The switch of the provider.                                             *)

Switchings == [at : {"new", "checking", "switched", "failed"}, to : Providers, previous : Providers]
Switched == {c \in Switches : call[c].at = "switched"}

\* As long as nothing was disturbed, one call at most is under way, its provider is in
\* use, and the one before is that of the last call that succeeded.
OneSwitch ==
  /\ \A c, d \in Switch!Checking : c = d
  /\ \A c \in Switch!Checking : setting = call[c].to /\ last = call[c].previous
  /\ Switch!Checking = {} => setting = last

SwitchInv ==
  /\ setting \in Providers /\ last \in Providers
  /\ call \in [Switches -> Switchings]
  /\ IsFiniteSet(Switched) /\ completed = Cardinality(Switched)
  /\ disturbed \in BOOLEAN
  /\ ~disturbed => OneSwitch

\* At the start no switch is under way.
LEMMA SwitchInit == Switch!Init => SwitchInv
  <1> SUFFICES ASSUME Switch!Init PROVE SwitchInv
    OBVIOUS
  <1>1. First \in Providers
    BY ServicesAssumption DEF Switch!ProviderAssumption
  <1>2. Switch!Checking = {} /\ Switched = {}
    BY DEF Switch!Init, Switch!Checking, Switched
  <1>3. call \in [Switches -> Switchings]
    BY <1>1 DEF Switch!Init, Switchings
  <1>4. setting = First /\ last = First /\ completed = 0 /\ disturbed = FALSE
    BY Zenon DEF Switch!Init
  <1>5. OneSwitch
    BY <1>2, <1>4 DEF OneSwitch
  <1>6. IsFiniteSet(Switched) /\ completed = Cardinality(Switched)
    BY <1>2, <1>4, FS_EmptySet
  <1>7. QED
    BY <1>1, <1>3, <1>4, <1>5, <1>6, Zenon DEF SwitchInv

\* A call begins its health check: if no other is under way, it is the only one.
LEMMA SwitchBegins ==
  ASSUME SwitchInv, NEW c \in Switches, NEW p \in Providers, Switch!Switch(c, p)
  PROVE  SwitchInv'
  <1>1. ~disturbed' => ~disturbed /\ Switch!Checking = {}
    BY Zenon DEF Switch!Switch
  <1>2. /\ setting' \in Providers /\ last' \in Providers
        /\ call' \in [Switches -> Switchings]
    BY DEF Switch!Switch, Switch!Begin, SwitchInv, Switchings
  <1>3. ASSUME ~disturbed PROVE OneSwitch
    BY <1>3 DEF SwitchInv
  <1>4. ASSUME Switch!Checking = {} PROVE Switch!Checking' = {c}
    BY <1>4 DEF Switch!Switch, Switch!Begin, SwitchInv, Switchings, Switch!Checking
  <1>5. ASSUME ~disturbed' PROVE OneSwitch'
    <2>1. Switch!Checking = {} /\ Switch!Checking' = {c} /\ setting = last
      BY <1>1, <1>3, <1>4, <1>5 DEF OneSwitch
    <2>2. /\ setting' = p /\ last' = last
          /\ call'[c].to = p /\ call'[c].previous = setting
      BY DEF Switch!Switch, Switch!Begin, SwitchInv
    <2>3. QED
      BY <2>1, <2>2 DEF OneSwitch
  <1>6. Switched' = Switched /\ completed' = completed
    BY DEF Switch!Switch, Switch!Begin, SwitchInv, Switched
  <1>7. disturbed' \in BOOLEAN
    BY Zenon DEF Switch!Switch
  <1>8. IsFiniteSet(Switched') /\ completed' = Cardinality(Switched')
    BY <1>6, Zenon DEF SwitchInv
  <1>9. QED
    BY <1>2, <1>5, <1>7, <1>8, Zenon DEF SwitchInv

\* A call that ends its check leaves none under way.
LEMMA SwitchEnds ==
  ASSUME SwitchInv, NEW c \in Switches, Switch!Healthy(c) \/ Switch!Unhealthy(c)
  PROVE  SwitchInv'
  <1>1. disturbed' = disturbed /\ c \in Switch!Checking
    BY DEF Switch!Healthy, Switch!Unhealthy, Switch!Checking
  <1>2. /\ setting' \in Providers /\ last' \in Providers
        /\ call' \in [Switches -> Switchings]
    BY DEF Switch!Healthy, Switch!Unhealthy, SwitchInv, Switchings
  <1>3. Switch!Checking' = Switch!Checking \ {c}
    BY DEF Switch!Healthy, Switch!Unhealthy, SwitchInv, Switchings, Switch!Checking
  <1>4. ASSUME OneSwitch PROVE OneSwitch'
    <2>1. Switch!Checking' = {}
      BY <1>1, <1>3, <1>4 DEF OneSwitch
    <2>2. setting' = last'
      BY <1>1, <1>4 DEF OneSwitch, Switch!Healthy, Switch!Unhealthy
    <2>3. QED
      BY <2>1, <2>2 DEF OneSwitch
  <1>5. IsFiniteSet(Switched') /\ completed' = Cardinality(Switched')
    <2>1. CASE Switch!Healthy(c)
      <3>1. Switched' = Switched \cup {c} /\ c \notin Switched /\ completed' = completed + 1
        BY <2>1 DEF Switch!Healthy, SwitchInv, Switchings, Switched
      <3>2. IsFiniteSet(Switched) /\ completed = Cardinality(Switched)
        BY Zenon DEF SwitchInv
      <3>3. QED
        BY <3>1, <3>2, FS_AddElement
    <2>2. CASE Switch!Unhealthy(c)
      <3>1. Switched' = Switched /\ completed' = completed
        BY <2>2 DEF Switch!Unhealthy, SwitchInv, Switchings, Switched
      <3>2. QED
        BY <3>1, Zenon DEF SwitchInv
    <2>3. QED
      BY <2>1, <2>2
  <1>6. (~disturbed => OneSwitch) /\ disturbed \in BOOLEAN
    BY Zenon DEF SwitchInv
  <1>7. (~disturbed' => OneSwitch') /\ disturbed' \in BOOLEAN
    BY <1>1, <1>4, <1>6, Zenon
  <1>8. QED
    BY <1>2, <1>5, <1>7, Zenon DEF SwitchInv

\* Once something was disturbed, only the types are left to keep.
LEMMA SwitchDisturbed ==
  ASSUME SwitchInv, NEW c \in Switches,
         (\E p \in Providers : Switch!CannotBeMade(c, p)) \/ Switch!Cancelled(c)
  PROVE  SwitchInv'
  <1>1. disturbed' = TRUE
    BY Zenon DEF Switch!CannotBeMade, Switch!Cancelled
  <1>2. /\ setting' \in Providers /\ last' \in Providers
        /\ call' \in [Switches -> Switchings]
    BY DEF Switch!CannotBeMade, Switch!Cancelled, Switch!Begin, SwitchInv, Switchings
  <1>3. Switched' = Switched /\ completed' = completed
    BY DEF Switch!CannotBeMade, Switch!Cancelled, Switch!Begin, SwitchInv, Switched, Switchings
  <1>4. IsFiniteSet(Switched') /\ completed' = Cardinality(Switched')
    BY <1>3, Zenon DEF SwitchInv
  <1>5. QED
    BY <1>1, <1>2, <1>4, Zenon DEF SwitchInv

\* What the switches keep, however they overlap, fail and are cancelled.
THEOREM SwitchInvariant == ServicesSpec => []SwitchInv
  <1>1. ServicesInit => SwitchInv
    BY SwitchInit, Zenon DEF ServicesInit
  <1>2. SwitchInv /\ [ServicesNext]_ServicesVars => SwitchInv'
    <2> SUFFICES ASSUME SwitchInv, [ServicesNext]_ServicesVars PROVE SwitchInv'
      OBVIOUS
    <2>1. CASE Switch!Next
      BY <2>1, SwitchBegins, SwitchEnds, SwitchDisturbed, Zenon DEF Switch!Next
    <2>2. CASE UNCHANGED SwitchVars
      <3>1. /\ setting' = setting /\ last' = last /\ call' = call
            /\ disturbed' = disturbed /\ Switch!Checking' = Switch!Checking
            /\ Switched' = Switched /\ completed' = completed
        BY <2>2 DEF SwitchVars, Switch!Checking, Switched
      <3>2. OneSwitch => OneSwitch'
        BY <3>1 DEF OneSwitch
      <3>3. QED
        BY <3>1, <3>2, Zenon DEF SwitchInv
    <2>3. QED
      BY <2>1, <2>2, OnePartMoves, Zenon
  <1>3. QED
    BY <1>1, <1>2, PTL DEF ServicesSpec

\* ProviderSwitch, "Rollback on validation failure": a switch that fails leaves the provider
\* of the last one that succeeded in use, unless it was disturbed.
THEOREM FailedSwitchesAreUndone == ServicesSpec => []FailedSwitchLeavesNoTrace
  <1>1. SwitchInv => FailedSwitchLeavesNoTrace
    BY Zenon DEF SwitchInv, OneSwitch, FailedSwitchLeavesNoTrace, Switch!FailedSwitchLeavesNoTrace
  <1>2. QED
    BY <1>1, SwitchInvariant, PTL

---------------------------------------------------------------------------
(* The connection pool.                                                    *)

\* The specification of the run has the behaviours of ConnectionPool, and stutters.
LEMMA PoolsAreSteps ==
  ServicesSpec => PoolProved!Spec
  <1>1. ServicesInit => PoolProved!Init
    BY Zenon DEF ServicesInit, Pool!Init, PoolProved!Init
  <1>2. [ServicesNext]_ServicesVars => [PoolProved!Next]_PoolProved!vars
    <2> USE DEF Pool!Elements, PoolProved!Elements, Pool!Wakes, PoolProved!Wakes,
                Pool!StillWaiting, PoolProved!StillWaiting, Pool!NowWoken, PoolProved!NowWoken,
                Pool!Initial, PoolProved!Initial
    <2>1. ASSUME NEW c \in Clients, Pool!Acquire(c) PROVE PoolProved!Acquire(c)
      BY <2>1, Zenon DEF Pool!Acquire, PoolProved!Acquire, Pool!Enter, PoolProved!Enter,
                         Pool!Idle, PoolProved!Idle
    <2>2. ASSUME NEW c \in Clients, Pool!Wait(c) PROVE PoolProved!Wait(c)
      BY <2>2, Zenon DEF Pool!Wait, PoolProved!Wait, Pool!Enter, PoolProved!Enter,
                         Pool!Idle, PoolProved!Idle
    <2>3. ASSUME NEW c \in Clients, Pool!Take(c) \/ Pool!WaitAgain(c) \/ Pool!Release(c)
          PROVE  PoolProved!Take(c) \/ PoolProved!WaitAgain(c) \/ PoolProved!Release(c)
      BY <2>3, Zenon DEF Pool!Take, PoolProved!Take, Pool!WaitAgain, PoolProved!WaitAgain,
                         Pool!Release, PoolProved!Release
    <2>4. ASSUME NEW c \in Clients, Pool!Grow(c) \/ Pool!GiveUp(c)
          PROVE  PoolProved!Grow(c) \/ PoolProved!GiveUp(c)
      BY <2>4, Zenon DEF Pool!Grow, PoolProved!Grow, Pool!GiveUp, PoolProved!GiveUp,
                         Pool!Waiting, PoolProved!Waiting, Pool!Leave, PoolProved!Leave,
                         Pool!Cardinality, PoolProved!Cardinality
    <2>5. Pool!Cleanup => PoolProved!Cleanup
      BY Zenon DEF Pool!Cleanup, PoolProved!Cleanup
    <2>6. Pool!Next => PoolProved!Next
      BY <2>1, <2>2, <2>3, <2>4, <2>5, Zenon DEF Pool!Next, PoolProved!Next
    <2>7. UNCHANGED PoolVars => UNCHANGED PoolProved!vars
      BY DEF PoolVars, PoolProved!vars
    <2>8. UNCHANGED ServicesVars => UNCHANGED PoolVars
      BY Zenon DEF ServicesVars
    <2>9. ServicesNext => Pool!Next \/ UNCHANGED PoolVars
      BY Zenon DEF ServicesNext, Others
    <2>10. QED
      BY <2>6, <2>7, <2>8, <2>9, Zenon
  <1>3. QED
    BY <1>1, <1>2, PTL DEF ServicesSpec, PoolProved!Spec

\* The assumptions of the two instances of the pool are the same.
LEMMA PoolConstants == PoolProved!PoolAssumption
  BY ServicesAssumption, Zenon DEF PoolProved!PoolAssumption, Pool!PoolAssumption,
                               PoolProved!IsFiniteSet, Pool!IsFiniteSet

\* ConnectionPool: every connection of the pool is in one place, with one user or in the
\* queue, whoever timed out, was cancelled or failed in between.
THEOREM PoolIsSound == ServicesSpec => []InOnePlace
  <1>1. PoolProved!InOnePlace => InOnePlace
    BY Zenon DEF PoolProved!InOnePlace, InOnePlace, Pool!InOnePlace, PoolProved!Exclusive,
                 Pool!Exclusive, PoolProved!NothingLost, Pool!NothingLost,
                 PoolProved!Elements, Pool!Elements
  <1>2. QED
    BY <1>1, PoolConstants, PoolsAreSteps, PoolProved!ConnectionsInOnePlace, PTL

\* ConnectionPool: while clients wait there is a woken one for each available connection.
THEOREM PoolWakesClients == ServicesSpec => []NoLostWakeup
  <1>1. PoolProved!NoLostWakeup => NoLostWakeup
    BY Zenon DEF PoolProved!NoLostWakeup, NoLostWakeup, Pool!NoLostWakeup,
                 PoolProved!Cardinality, Pool!Cardinality
  <1>2. QED
    BY <1>1, PoolConstants, PoolsAreSteps, PoolProved!WakeupsNotLost, PTL

\* ConnectionPool: a clean-up in between lets the pool pass its limit, but by no more than
\* min_connections.
THEOREM PoolStaysBounded == ServicesSpec => []LimitOvershoot
  <1>1. PoolProved!LimitOvershoot => LimitOvershoot
    BY Zenon DEF PoolProved!LimitOvershoot, LimitOvershoot, Pool!LimitOvershoot,
                 PoolProved!Cardinality, Pool!Cardinality
  <1>2. QED
    BY <1>1, PoolConstants, PoolsAreSteps, PoolProved!OvershootBounded, PTL

---------------------------------------------------------------------------
(* The background tasks.                                                   *)

\* The instances count as FiniteSets does.
LEMMA SameCounts ==
  \A X : /\ Tasks!Cardinality(X) = Cardinality(X)
         /\ Tasks!IsFiniteSet(X) <=> IsFiniteSet(X)
  BY DEF Tasks!Cardinality, Cardinality, Tasks!IsFiniteSet, IsFiniteSet

Loops == live \ ending
Waiters == {s \in Stoppers : stops[s] # 0}

\* Tasks are numbered, and no two references are to one task.
TasksNumbered ==
  /\ made \in 0..MaxTasks /\ live \subseteq 1..made /\ ending \subseteq 1..made
  /\ monitorTask \in 0..made /\ cleanupTask \in 0..made
  /\ stops \in [Stoppers -> 0..made]
  /\ overlapped \in BOOLEAN /\ flag \in BOOLEAN
  /\ monitorTask # 0 => monitorTask # cleanupTask

\* As long as no two calls of stop_monitoring overlapped, the one that waits, if any, waits
\* for the task that is known.
OneWaits ==
  overlapped = FALSE =>
    /\ \A s \in Waiters : monitorTask = stops[s] /\ stops[s] \in ending
    /\ \A s, r \in Waiters : s = r
    /\ Loops \subseteq {monitorTask, cleanupTask}

CleanupKnown == flag = TRUE <=> cleanupTask \in Loops

TasksInv == TasksNumbered /\ OneWaits /\ CleanupKnown

\* The workspaces that are gone, and those that had their error.
Gone == {w \in Spaces : state[w] = "gone"}
Failed == {w \in Spaces : state[w] \in {"gone", "archived"}}

SpacesInv ==
  /\ state \in [Spaces -> {"created", "indexing", "archived", "gone"}]
  /\ idle \subseteq Spaces
  /\ stats \in [idle : Nat, size : Nat, errors : Nat]
  /\ stats.idle + stats.size = Cardinality(Gone)
  /\ stats.errors = Cardinality(Failed)

LEMMA TasksConstants == MaxTasks \in Nat /\ IsFiniteSet(Spaces)
  <1>1. MaxTasks \in Nat /\ Tasks!IsFiniteSet(Spaces)
    BY ServicesAssumption, Zenon DEF ServicesAssumption, Tasks!TasksAssumption
  <1>2. QED
    BY <1>1, SameCounts, Zenon

LEMMA TasksInit == Tasks!Init => TasksInv /\ SpacesInv
  <1>1. SUFFICES ASSUME Tasks!Init PROVE TasksInv /\ SpacesInv
    OBVIOUS
  <1>2. /\ made = 0 /\ live = {} /\ ending = {}
        /\ monitorTask = 0 /\ cleanupTask = 0 /\ flag = FALSE
        /\ stops = [s \in Stoppers |-> 0] /\ overlapped = FALSE
        /\ state = [w \in Spaces |-> "created"] /\ idle = {}
        /\ stats = [idle |-> 0, size |-> 0, errors |-> 0]
    BY <1>1, Zenon DEF Tasks!Init
  <1>3. TasksNumbered
    <2>1. stops \in [Stoppers -> 0..0]
      BY <1>2
    <2>2. flag \in BOOLEAN /\ overlapped \in BOOLEAN
      BY <1>2, Zenon
    <2>3. /\ made \in 0..MaxTasks /\ live \subseteq 1..made /\ ending \subseteq 1..made
          /\ monitorTask \in 0..made /\ cleanupTask \in 0..made /\ made = 0
          /\ monitorTask # 0 => monitorTask # cleanupTask
      BY <1>2, TasksConstants
    <2>4. QED
      BY <2>1, <2>2, <2>3 DEF TasksNumbered
  <1>4. OneWaits /\ CleanupKnown
    BY <1>2 DEF OneWaits, CleanupKnown, Waiters, Loops
  <1>5. Gone = {} /\ Failed = {}
    BY <1>2 DEF Gone, Failed
  <1>6. stats \in [idle : Nat, size : Nat, errors : Nat] /\ stats.idle + stats.size = 0 /\ stats.errors = 0
    BY <1>2
  <1>7. state \in [Spaces -> {"created", "indexing", "archived", "gone"}] /\ idle \subseteq Spaces
    BY <1>2
  <1>8. SpacesInv
    BY <1>5, <1>6, <1>7, FS_EmptySet DEF SpacesInv
  <1>9. QED
    BY <1>3, <1>4, <1>8 DEF TasksInv

\* The starts, stops and ends of the two tasks.
LEMMA TasksStep ==
  ASSUME TasksInv, Tasks!Next
  PROVE  TasksInv'
  <1>1. /\ made \in Nat /\ live \subseteq 1..made /\ ending \subseteq 1..made
        /\ made \in 0..MaxTasks /\ MaxTasks \in Nat
        /\ monitorTask \in 0..made /\ cleanupTask \in 0..made
        /\ stops \in [Stoppers -> 0..made]
        /\ overlapped \in BOOLEAN /\ flag \in BOOLEAN
        /\ monitorTask # 0 => monitorTask # cleanupTask
        /\ OneWaits /\ CleanupKnown
    BY TasksConstants DEF TasksInv, TasksNumbered
  <1>2. TasksNumbered' /\ OneWaits' /\ CleanupKnown' => TasksInv'
    BY Zenon DEF TasksInv
  <1>3. CASE UNCHANGED Tasks!taskVars
    <2>1. UNCHANGED <<made, live, ending, monitorTask, cleanupTask, flag, stops, overlapped>>
      BY <1>3 DEF Tasks!taskVars
    <2>2. QED
      BY <2>1, Zenon DEF TasksInv, TasksNumbered, OneWaits, CleanupKnown, Waiters, Loops
  <1>4. CASE Tasks!StartMonitoring
    <2>1. /\ monitorTask = 0 /\ made < MaxTasks /\ made' = made + 1
          /\ monitorTask' = made + 1 /\ live' = live \cup {made + 1}
          /\ UNCHANGED <<ending, cleanupTask, flag, stops, overlapped>>
      BY <1>4 DEF Tasks!StartMonitoring
    <2>2. TasksNumbered'
      BY <1>1, <2>1 DEF TasksNumbered
    <2>3. Loops' = Loops \cup {made + 1} /\ Waiters' = Waiters /\ cleanupTask # made + 1
      BY <1>1, <2>1 DEF Loops, Waiters
    <2>4. OneWaits'
      <3>1. SUFFICES ASSUME overlapped = FALSE
                     PROVE  /\ Waiters = {}
                            /\ Loops \subseteq {cleanupTask}
        BY <2>1, <2>3 DEF OneWaits
      <3>2. \A s \in Waiters : stops[s] # 0 /\ monitorTask = stops[s]
        BY <1>1, <3>1 DEF OneWaits, Waiters
      <3>3. Loops \subseteq {0, cleanupTask} /\ 0 \notin Loops
        BY <1>1, <2>1, <3>1 DEF OneWaits, Loops
      <3>4. QED
        BY <2>1, <3>2, <3>3
    <2>5. CleanupKnown'
      BY <1>1, <2>1, <2>3 DEF CleanupKnown
    <2>6. QED
      BY <1>2, <2>2, <2>4, <2>5
  <1>5. ASSUME NEW s \in Stoppers, Tasks!StopMonitoring(s) PROVE TasksInv'
    <2>1. /\ stops[s] = 0 /\ monitorTask # 0 /\ ending' = ending \cup {monitorTask}
          /\ stops' = [stops EXCEPT ![s] = monitorTask]
          /\ overlapped' = (overlapped \/ \E other \in Stoppers : stops[other] # 0)
          /\ UNCHANGED <<made, live, monitorTask, cleanupTask, flag>>
      BY <1>5, Zenon DEF Tasks!StopMonitoring
    <2>2. overlapped' \in BOOLEAN
      BY <2>1, Zenon
    <2>3. TasksNumbered'
      BY <1>1, <2>1, <2>2 DEF TasksNumbered
    <2>4. Loops' = Loops \ {monitorTask} /\ Waiters' = Waiters \cup {s}
      BY <1>1, <2>1 DEF Loops, Waiters
    <2>5. OneWaits'
      <3>1. SUFFICES ASSUME overlapped' = FALSE PROVE OneWaits'
        BY Zenon DEF OneWaits
      <3>2. overlapped = FALSE /\ Waiters = {}
        BY <1>1, <2>1, <3>1, Zenon DEF Waiters
      <3>3. Waiters' = {s} /\ stops'[s] = monitorTask /\ monitorTask \in ending'
        BY <1>1, <2>1, <2>4, <3>2
      <3>4. Loops' \subseteq {monitorTask', cleanupTask'}
        BY <1>1, <2>1, <2>4, <3>2 DEF OneWaits
      <3>5. QED
        BY <2>1, <3>3, <3>4 DEF OneWaits
    <2>6. CleanupKnown'
      BY <1>1, <2>1, <2>4 DEF CleanupKnown
    <2>7. QED
      BY <1>2, <2>3, <2>5, <2>6
  <1>6. ASSUME NEW s \in Stoppers, Tasks!MonitoringStopped(s) PROVE TasksInv'
    <2>1. /\ stops[s] # 0 /\ stops[s] \notin live /\ monitorTask' = 0
          /\ stops' = [stops EXCEPT ![s] = 0]
          /\ UNCHANGED <<made, live, ending, cleanupTask, flag, overlapped>>
      BY <1>6, Zenon DEF Tasks!MonitoringStopped
    <2>2. TasksNumbered'
      BY <1>1, <2>1 DEF TasksNumbered
    <2>3. Loops' = Loops /\ Waiters' = Waiters \ {s} /\ s \in Waiters
      BY <1>1, <2>1 DEF Loops, Waiters
    <2>4. OneWaits'
      <3>1. SUFFICES ASSUME overlapped = FALSE
                     PROVE  /\ Waiters' = {}
                            /\ Loops \subseteq {0, cleanupTask}
        BY <2>1, <2>3 DEF OneWaits
      <3>2. monitorTask = stops[s] /\ Loops \subseteq {monitorTask, cleanupTask} /\ \A r \in Waiters : r = s
        BY <1>1, <2>3, <3>1 DEF OneWaits
      <3>3. monitorTask \notin Loops
        BY <2>1, <3>2 DEF Loops
      <3>4. QED
        BY <2>3, <3>2, <3>3
    <2>5. CleanupKnown'
      BY <1>1, <2>1, <2>3 DEF CleanupKnown
    <2>6. QED
      BY <1>2, <2>2, <2>4, <2>5
  <1>7. ASSUME NEW n \in live, Tasks!End(n) PROVE TasksInv'
    <2>1. /\ n \in ending /\ live' = live \ {n}
          /\ UNCHANGED <<made, ending, monitorTask, cleanupTask, flag, stops, overlapped>>
      BY <1>7 DEF Tasks!End
    <2>2. TasksNumbered'
      BY <1>1, <2>1 DEF TasksNumbered
    <2>3. Loops' = Loops /\ Waiters' = Waiters
      BY <2>1 DEF Loops, Waiters
    <2>4. OneWaits' /\ CleanupKnown'
      BY <1>1, <2>1, <2>3 DEF OneWaits, CleanupKnown
    <2>5. QED
      BY <1>2, <2>2, <2>4
  <1>8. CASE Tasks!StartCleanup
    <2>1. /\ ~flag /\ made < MaxTasks /\ flag' = TRUE /\ made' = made + 1
          /\ cleanupTask' = made + 1 /\ live' = live \cup {made + 1}
          /\ UNCHANGED <<ending, monitorTask, stops, overlapped>>
      BY <1>8 DEF Tasks!StartCleanup
    <2>2. TasksNumbered'
      BY <1>1, <2>1 DEF TasksNumbered
    <2>3. Loops' = Loops \cup {made + 1} /\ Waiters' = Waiters
      BY <1>1, <2>1 DEF Loops, Waiters
    <2>4. cleanupTask \notin Loops
      BY <1>1, <2>1 DEF CleanupKnown
    <2>5. OneWaits'
      BY <1>1, <2>1, <2>3, <2>4 DEF OneWaits
    <2>6. CleanupKnown'
      BY <2>1, <2>3 DEF CleanupKnown
    <2>7. QED
      BY <1>2, <2>2, <2>5, <2>6
  <1>9. CASE Tasks!StopCleanup
    <2>1. /\ flag /\ flag' = FALSE /\ ending' = ending \cup {cleanupTask}
          /\ UNCHANGED <<made, live, monitorTask, cleanupTask, stops, overlapped>>
      BY <1>9, Zenon DEF Tasks!StopCleanup
    <2>2. cleanupTask \in Loops
      BY <1>1, <2>1 DEF CleanupKnown
    <2>3. TasksNumbered'
      BY <1>1, <2>1, <2>2 DEF TasksNumbered, Loops
    <2>4. Loops' = Loops \ {cleanupTask} /\ Waiters' = Waiters
      BY <2>1 DEF Loops, Waiters
    <2>5. OneWaits' /\ CleanupKnown'
      BY <1>1, <2>1, <2>4 DEF OneWaits, CleanupKnown
    <2>6. QED
      BY <1>2, <2>3, <2>5
  <1>10. QED
    BY <1>3, <1>4, <1>5, <1>6, <1>7, <1>8, <1>9, Zenon
    DEF Tasks!Next, Tasks!TaskCycle, Tasks!Cycle, Tasks!ForceCleanupFails, Tasks!ForceCleanup,
        Tasks!StartIndexing, Tasks!Age

\* The forced clean-ups, each of which is counted.
LEMMA SpacesStep ==
  ASSUME SpacesInv, Tasks!Next
  PROVE  SpacesInv'
  <1>1. /\ state \in [Spaces -> {"created", "indexing", "archived", "gone"}]
        /\ idle \subseteq Spaces
        /\ stats \in [idle : Nat, size : Nat, errors : Nat]
        /\ stats.idle + stats.size = Cardinality(Gone)
        /\ stats.errors = Cardinality(Failed)
    BY DEF SpacesInv
  <1>2. IsFiniteSet(Gone) /\ IsFiniteSet(Failed)
    BY TasksConstants, FS_Subset DEF Gone, Failed
  <1>3. ASSUME NEW w \in Spaces, Tasks!ForceCleanupFails(w) PROVE SpacesInv'
    <2>1. /\ state[w] \in {"created", "indexing"}
          /\ state' = [state EXCEPT ![w] = "archived"]
          /\ stats' = [stats EXCEPT !.errors = @ + 1] /\ idle' = idle
      BY <1>3, Zenon DEF Tasks!ForceCleanupFails
    <2>2. Gone' = Gone /\ Failed' = Failed \cup {w} /\ w \notin Failed
      BY <1>1, <2>1 DEF Gone, Failed
    <2>3. Cardinality(Failed') = Cardinality(Failed) + 1
      BY <1>2, <2>2, FS_AddElement
    <2>4. /\ stats' \in [idle : Nat, size : Nat, errors : Nat]
          /\ stats'.idle = stats.idle /\ stats'.size = stats.size /\ stats'.errors = stats.errors + 1
      BY <1>1, <2>1
    <2>5. state' \in [Spaces -> {"created", "indexing", "archived", "gone"}]
      BY <1>1, <2>1
    <2>6. QED
      BY <1>1, <2>1, <2>2, <2>3, <2>4, <2>5 DEF SpacesInv
  <1>4. ASSUME NEW w \in Spaces, Tasks!ForceCleanup(w) PROVE SpacesInv'
    <2>1. /\ state[w] = "archived" /\ state' = [state EXCEPT ![w] = "gone"] /\ idle' = idle
          /\ \/ stats' = [stats EXCEPT !.idle = @ + 1]
             \/ stats' = [stats EXCEPT !.size = @ + 1]
      BY <1>4, Zenon DEF Tasks!ForceCleanup
    <2>2. Failed' = Failed /\ Gone' = Gone \cup {w} /\ w \notin Gone
      BY <1>1, <2>1 DEF Gone, Failed
    <2>3. Cardinality(Gone') = Cardinality(Gone) + 1
      BY <1>2, <2>2, FS_AddElement
    <2>4. /\ stats' \in [idle : Nat, size : Nat, errors : Nat]
          /\ stats'.errors = stats.errors /\ stats'.idle + stats'.size = stats.idle + stats.size + 1
      BY <1>1, <2>1
    <2>5. state' \in [Spaces -> {"created", "indexing", "archived", "gone"}]
      BY <1>1, <2>1
    <2>6. QED
      BY <1>1, <2>1, <2>2, <2>3, <2>4, <2>5 DEF SpacesInv
  <1>5. ASSUME NEW w \in Spaces, Tasks!StartIndexing(w) PROVE SpacesInv'
    <2>1. /\ state[w] = "created" /\ state' = [state EXCEPT ![w] = "indexing"]
          /\ UNCHANGED <<idle, stats>>
      BY <1>5 DEF Tasks!StartIndexing
    <2>2. Failed' = Failed /\ Gone' = Gone
      BY <1>1, <2>1 DEF Gone, Failed
    <2>3. state' \in [Spaces -> {"created", "indexing", "archived", "gone"}]
      BY <1>1, <2>1
    <2>4. QED
      BY <1>1, <2>1, <2>2, <2>3 DEF SpacesInv
  <1>6. ASSUME UNCHANGED <<state, stats>>, idle' \subseteq Spaces PROVE SpacesInv'
    BY <1>1, <1>6 DEF SpacesInv, Gone, Failed
  <1>7. ASSUME NEW w \in Spaces, Tasks!Age(w) PROVE SpacesInv'
    BY <1>1, <1>6, <1>7 DEF Tasks!Age
  <1>8. CASE Tasks!TaskCycle
    <2>1. \A w \in Spaces : ~Tasks!ShouldCleanup(w)
      BY Zenon DEF Tasks!ShouldCleanup, Tasks!ActiveOperations
    <2>2. UNCHANGED <<state, stats, idle>>
      BY <1>8, <2>1, Zenon DEF Tasks!TaskCycle, Tasks!Cycle
    <2>3. QED
      BY <1>1, <1>6, <2>2
  <1>9. CASE UNCHANGED Tasks!spaceVars
    BY <1>1, <1>6, <1>9 DEF Tasks!spaceVars
  <1>10. QED
    BY <1>3, <1>4, <1>5, <1>7, <1>8, <1>9, Zenon
    DEF Tasks!Next, Tasks!StartMonitoring, Tasks!StartCleanup, Tasks!StopCleanup,
        Tasks!StopMonitoring, Tasks!MonitoringStopped, Tasks!End

LEMMA TasksAreSound == TasksInv /\ SpacesInv => Tasks!TasksSound /\ Tasks!TypeOK
  <1>1. SUFFICES ASSUME TasksInv, SpacesInv PROVE Tasks!TasksSound /\ Tasks!TypeOK
    OBVIOUS
  <1>2. TasksNumbered /\ OneWaits /\ CleanupKnown
    BY <1>1, Zenon DEF TasksInv
  <1>3. /\ ~overlapped => Loops = {n \in {monitorTask, cleanupTask} : n \in Loops}
        /\ flag <=> cleanupTask \in Loops
    <2>1. overlapped \in BOOLEAN /\ flag \in BOOLEAN
      BY <1>2, Zenon DEF TasksNumbered
    <2>2. flag <=> flag = TRUE
      BY <2>1, Zenon
    <2>3. ~overlapped => overlapped = FALSE
      BY <2>1, Zenon
    <2>4. ~overlapped => Loops \subseteq {monitorTask, cleanupTask}
      BY <1>2, <2>3, Zenon DEF OneWaits
    <2>5. QED
      BY <1>2, <2>2, <2>4, Zenon DEF CleanupKnown
  <1>4. Cardinality({n \in Loops : n # cleanupTask}) > 1 => overlapped
    <2>1. SUFFICES ASSUME ~overlapped PROVE ~(Cardinality({n \in Loops : n # cleanupTask}) > 1)
      BY Zenon
    <2>2. {n \in Loops : n # cleanupTask} \in SUBSET {monitorTask}
      BY <1>3, <2>1
    <2>3. IsFiniteSet({monitorTask}) /\ Cardinality({monitorTask}) = 1
      BY FS_Singleton
    <2>4. IsFiniteSet({n \in Loops : n # cleanupTask}) /\ Cardinality({n \in Loops : n # cleanupTask}) <= 1
      BY <2>2, <2>3, FS_Subset
    <2>5. Cardinality({n \in Loops : n # cleanupTask}) \in Nat
      BY <2>4, FS_CardinalityType
    <2>6. QED
      BY <2>4, <2>5
  <1>5. Tasks!TasksKnown
    BY <1>3, <1>4, SameCounts, Zenon DEF Tasks!TasksKnown, Loops
  <1>6. Tasks!CleanupsCounted
    BY <1>1, SameCounts, Zenon DEF SpacesInv, Tasks!CleanupsCounted, Gone, Failed
  <1>7. Tasks!TypeOK
    <2>1. /\ made \in 0..MaxTasks /\ live \cup ending \subseteq 1..made
          /\ monitorTask \in 0..made /\ cleanupTask \in 0..made /\ stops \in [Stoppers -> 0..made]
      BY <1>2 DEF TasksNumbered
    <2>2. /\ state \in [Spaces -> {"created", "indexing", "archived", "gone"}]
          /\ idle \subseteq Spaces
          /\ stats \in [idle : Nat, size : Nat, errors : Nat]
          /\ stats.idle + stats.size = Cardinality(Gone)
          /\ stats.errors = Cardinality(Failed)
      BY <1>1 DEF SpacesInv
    <2>3. Cardinality(Gone) <= Cardinality(Spaces) /\ Cardinality(Failed) <= Cardinality(Spaces)
      BY TasksConstants, FS_Subset DEF Gone, Failed
    <2>4. Cardinality(Spaces) \in Nat /\ Cardinality(Gone) \in Nat /\ Cardinality(Failed) \in Nat
      BY TasksConstants, FS_Subset, FS_CardinalityType DEF Gone, Failed
    <2>5. {stats.idle, stats.size, stats.errors} \subseteq 0..(2 * Cardinality(Spaces))
      BY <2>2, <2>3, <2>4
    <2>6. QED
      BY <2>1, <2>2, <2>5, SameCounts, Zenon DEF Tasks!TypeOK
  <1>8. QED
    BY <1>5, <1>6, <1>7, Zenon DEF Tasks!TasksSound

\* What the background tasks keep, however their starts and stops overlap.
THEOREM TaskInvariant == ServicesSpec => [](TasksInv /\ SpacesInv)
  <1>1. ServicesInit => TasksInv /\ SpacesInv
    BY TasksInit, Zenon DEF ServicesInit
  <1>2. TasksInv /\ SpacesInv /\ [ServicesNext]_ServicesVars => TasksInv' /\ SpacesInv'
    <2> SUFFICES ASSUME TasksInv, SpacesInv, [ServicesNext]_ServicesVars PROVE TasksInv' /\ SpacesInv'
      OBVIOUS
    <2>1. CASE Tasks!Next
      BY <2>1, TasksStep, SpacesStep
    <2>2. CASE UNCHANGED TaskVars
      <3>1. TasksInv'
        BY <2>2 DEF TaskVars, TasksInv, TasksNumbered, OneWaits, CleanupKnown, Loops, Waiters
      <3>2. SpacesInv'
        BY <2>2, Zenon DEF TaskVars, SpacesInv, Gone, Failed
      <3>3. QED
        BY <3>1, <3>2
    <2>3. QED
      BY <2>1, <2>2, OnePartMoves, Zenon
  <1>3. QED
    BY <1>1, <1>2, PTL DEF ServicesSpec

---------------------------------------------------------------------------
(* The subscriptions.                                                      *)

\* The updates among the first k places of the queue q.
Fresh(q, k) == Cardinality({n \in 1..k : q[n] # Topic!End})

LEMMA SameUpdates == \A s, k : Topic!Updates(s, k) = Fresh(queue[s], k)
  BY Zenon DEF Topic!Updates, Fresh, Topic!Cardinality, Cardinality

\* What was given and what waits are an unbroken run after the first k updates.
RunOn(q, g, k) ==
  /\ \A n \in DOMAIN g : g[n] = k + n
  /\ \A n \in DOMAIN q : q[n] # Topic!End => q[n] = k + Len(g) + Fresh(q, n)

\* Its last update.
LastOfRun(q, g, k) == k + Len(g) + Fresh(q, Len(q))

\* Counting at the head and at the end of a queue.
LEMMA FreshCounts ==
  ASSUME NEW q \in Seq(Nat), NEW k \in 0..Len(q)
  PROVE  /\ Fresh(q, k) \in Nat
         /\ k = 0 => Fresh(q, k) = 0
         /\ k > 0 => Fresh(q, k) = Fresh(q, k - 1) + IF q[k] = Topic!End THEN 0 ELSE 1
  <1> DEFINE F(j) == {n \in 1..j : q[n] # Topic!End}
  <1>1. Len(q) \in Nat /\ k \in Nat
    OBVIOUS
  <1>2. F(k) \in SUBSET (1..k)
    OBVIOUS
  <1>3. k = 0 => F(k) = {}
    OBVIOUS
  <1>4. Fresh(q, k) = Cardinality(F(k))
    BY DEF Fresh
  <1>5. ASSUME k > 0
        PROVE  Fresh(q, k) = Fresh(q, k - 1) + IF q[k] = Topic!End THEN 0 ELSE 1
    <2>1. k - 1 \in Nat /\ F(k - 1) \in SUBSET (1..(k - 1)) /\ k \notin F(k - 1)
      BY <1>1, <1>5
    <2>2. F(k) = IF q[k] = Topic!End THEN F(k - 1) ELSE F(k - 1) \cup {k}
      BY <1>1, <1>5
    <2>3. Fresh(q, k - 1) = Cardinality(F(k - 1))
      BY DEF Fresh
    <2> HIDE DEF F
    <2>4. IsFiniteSet(F(k - 1)) /\ Cardinality(F(k - 1)) \in Nat
      BY <2>1, SomeOfFirst
    <2>5. Cardinality(F(k - 1) \cup {k}) = Cardinality(F(k - 1)) + 1
      BY <2>1, <2>4, FS_AddElement
    <2>6. QED
      BY <1>4, <2>2, <2>3, <2>4, <2>5
  <1> HIDE DEF F
  <1>6. Cardinality(F(k)) \in Nat
    BY <1>1, <1>2, SomeOfFirst
  <1>7. k = 0 => Fresh(q, k) = 0
    BY <1>3, <1>4, FS_EmptySet
  <1>8. QED
    BY <1>4, <1>5, <1>6, <1>7

LEMMA FreshTail ==
  ASSUME NEW q \in Seq(Nat), q # <<>>, NEW k \in 0..(Len(q) - 1)
  PROVE  Fresh(q, k + 1) = Fresh(Tail(q), k) + IF Head(q) = Topic!End THEN 0 ELSE 1
  <1> DEFINE t == Tail(q)
             S == {n \in 1..k : t[n] # Topic!End}
             U == {n + 1 : n \in S}
             V == {n \in 1..(k + 1) : q[n] # Topic!End}
  <1>1. /\ Len(q) \in Nat /\ k \in Nat /\ Head(q) = q[1]
        /\ \A n \in 1..k : t[n] = q[n + 1]
    OBVIOUS
  <1>2. S \subseteq Nat /\ S \in SUBSET (1..k) /\ 1 \notin U
    BY <1>1
  <1>3. V = IF Head(q) = Topic!End THEN U ELSE U \cup {1}
    <2>1. \A n \in 2..(k + 1) : n - 1 \in 1..k /\ (n - 1) + 1 = n /\ t[n - 1] = q[n]
      BY <1>1
    <2>2. \A n \in 1..k : n + 1 \in 1..(k + 1) /\ t[n] = q[n + 1]
      BY <1>1
    <2>3. \A n \in 1..(k + 1) : n = 1 \/ n \in 2..(k + 1)
      BY <1>1
    <2>4. ASSUME NEW n \in 1..(k + 1), q[n] # Topic!End, n # 1 PROVE n \in U
      BY <2>1, <2>3, <2>4
    <2>5. ASSUME NEW n \in U PROVE n \in 1..(k + 1) /\ q[n] # Topic!End
      BY <2>2, <2>5
    <2>6. 1 \in 1..(k + 1)
      BY <1>1
    <2> HIDE DEF U
    <2>7. QED
      BY <1>1, <2>4, <2>5, <2>6
  <1>4. Fresh(t, k) = Cardinality(S) /\ Fresh(q, k + 1) = Cardinality(V)
    BY DEF Fresh
  <1>5. IsFiniteSet(S) /\ Cardinality(S) \in Nat
    BY <1>1, <1>2, SomeOfFirst
  <1>6. IsFiniteSet(U) /\ Cardinality(U) = Cardinality(S)
    BY <1>2, <1>5, MovedUp
  <1> HIDE DEF S, U, V
  <1>7. Cardinality(U \cup {1}) = Cardinality(U) + 1
    BY <1>2, <1>6, FS_AddElement
  <1>8. CASE Head(q) = Topic!End
    BY <1>3, <1>4, <1>5, <1>6, <1>8
  <1>9. CASE Head(q) # Topic!End
    BY <1>3, <1>4, <1>5, <1>6, <1>7, <1>9
  <1>10. QED
    BY <1>8, <1>9

LEMMA FreshAppend ==
  ASSUME NEW q \in Seq(Nat), NEW e \in Nat, NEW k \in 0..Len(q)
  PROVE  Fresh(Append(q, e), k) = Fresh(q, k)
  <1>1. \A n \in 1..k : Append(q, e)[n] = q[n]
    OBVIOUS
  <1>2. {n \in 1..k : Append(q, e)[n] # Topic!End} = {n \in 1..k : q[n] # Topic!End}
    BY <1>1
  <1>3. QED
    BY <1>2 DEF Fresh

\* The consumer is given the first of the queue.
LEMMA RunReceived ==
  ASSUME NEW q \in Seq(Nat), q # <<>>, NEW g \in Seq(Nat), NEW k \in Nat, RunOn(q, g, k)
  PROVE  LET h == IF Head(q) = Topic!End THEN g ELSE Append(g, Head(q))
         IN  RunOn(Tail(q), h, k) /\ LastOfRun(Tail(q), h, k) = LastOfRun(q, g, k)
  <1> DEFINE one == IF Head(q) = Topic!End THEN 0 ELSE 1
             h == IF Head(q) = Topic!End THEN g ELSE Append(g, Head(q))
             t == Tail(q)
  <1>1. /\ Len(q) \in Nat \ {0} /\ Len(g) \in Nat /\ t \in Seq(Nat) /\ Len(t) = Len(q) - 1
        /\ \A n \in 1..Len(t) : t[n] = q[n + 1]
        /\ Head(q) = q[1] /\ Head(q) \in Nat /\ one \in {0, 1}
    OBVIOUS
  <1>2. h \in Seq(Nat) /\ Len(h) = Len(g) + one
    BY <1>1
  <1>3. \A n \in 0..Len(t) : Fresh(t, n) \in Nat /\ Fresh(q, n + 1) = Fresh(t, n) + one
    BY <1>1, FreshTail, FreshCounts
  <1>4. Head(q) # Topic!End => Head(q) = k + Len(g) + 1
    <2>1. Fresh(q, 1) = Fresh(t, 0) + one /\ Fresh(t, 0) = 0
      <3>1. 0 \in 0..Len(t) /\ 0 + 1 = 1
        BY <1>1
      <3> HIDE DEF t, one
      <3>2. Fresh(t, 0) = 0
        BY <1>1, <3>1, FreshCounts
      <3>3. QED
        BY <1>3, <3>1, <3>2
    <2>2. Head(q) # Topic!End => Head(q) = k + Len(g) + Fresh(q, 1)
      BY <1>1 DEF RunOn
    <2>3. QED
      BY <2>1, <2>2
  <1>5. \A n \in 1..Len(h) : h[n] = k + n
    <2>1. \A n \in 1..Len(g) : g[n] = k + n
      BY <1>1 DEF RunOn
    <2>2. CASE Head(q) = Topic!End
      BY <2>1, <2>2
    <2>3. CASE Head(q) # Topic!End
      <3>1. h = Append(g, Head(q)) /\ Head(q) = k + (Len(g) + 1)
        BY <1>1, <1>4, <2>3
      <3> HIDE DEF h
      <3>2. /\ Len(h) = Len(g) + 1 /\ h[Len(g) + 1] = Head(q)
            /\ \A n \in 1..Len(g) : h[n] = g[n]
        BY <1>1, <3>1
      <3>3. \A n \in 1..Len(h) : n \in 1..Len(g) \/ n = Len(g) + 1
        BY <1>1, <3>2
      <3>4. QED
        BY <2>1, <3>1, <3>2, <3>3
    <2>4. QED
      BY <2>2, <2>3
  <1>6. ASSUME NEW n \in 1..Len(t), t[n] # Topic!End
        PROVE  t[n] = k + Len(h) + Fresh(t, n)
    <2>1. n + 1 \in 1..Len(q) /\ t[n] = q[n + 1] /\ n \in 0..Len(t)
      BY <1>1
    <2>2. q[n + 1] = k + Len(g) + Fresh(q, n + 1)
      BY <1>6, <2>1 DEF RunOn
    <2> HIDE DEF h, t, one
    <2>3. Fresh(q, n + 1) = Fresh(t, n) + one /\ Fresh(t, n) \in Nat
      BY <1>3, <2>1
    <2>4. QED
      BY <1>1, <1>2, <2>1, <2>2, <2>3
  <1>7. LastOfRun(t, h, k) = LastOfRun(q, g, k)
    <2> HIDE DEF h, t, one
    <2>1. Fresh(q, Len(t) + 1) = Fresh(t, Len(t)) + one /\ Fresh(t, Len(t)) \in Nat
      BY <1>1, <1>3
    <2>2. Len(t) + 1 = Len(q)
      BY <1>1
    <2>3. QED
      BY <1>1, <1>2, <2>1, <2>2 DEF LastOfRun
  <1>8. RunOn(t, h, k)
    <2> HIDE DEF h, t, one
    <2>1. DOMAIN h = 1..Len(h) /\ DOMAIN t = 1..Len(t)
      BY <1>1, <1>2
    <2>2. QED
      BY <1>5, <1>6, <2>1 DEF RunOn
  <1>9. QED
    BY <1>7, <1>8

\* The queue is given the next update, or the end signal.
LEMMA RunQueued ==
  ASSUME NEW q \in Seq(Nat), NEW g \in Seq(Nat), NEW k \in Nat, RunOn(q, g, k), NEW e \in Nat,
         e # Topic!End => e = LastOfRun(q, g, k) + 1
  PROVE  /\ RunOn(Append(q, e), g, k)
         /\ LastOfRun(Append(q, e), g, k) = LastOfRun(q, g, k) + IF e = Topic!End THEN 0 ELSE 1
  <1> DEFINE r == Append(q, e)
             one == IF e = Topic!End THEN 0 ELSE 1
  <1>1. /\ Len(q) \in Nat /\ Len(g) \in Nat /\ r \in Seq(Nat) /\ Len(r) = Len(q) + 1
        /\ \A n \in 1..Len(q) : r[n] = q[n]
        /\ r[Len(q) + 1] = e /\ one \in {0, 1}
    OBVIOUS
  <1>2. \A n \in 0..Len(q) : Fresh(r, n) = Fresh(q, n) /\ Fresh(q, n) \in Nat
    BY FreshAppend, FreshCounts
  <1> HIDE DEF r
  <1>3. Fresh(r, Len(r)) = Fresh(q, Len(q)) + one
    <2>1. Len(r) \in 0..Len(r) /\ Len(r) > 0 /\ Len(r) - 1 = Len(q) /\ Len(q) \in 0..Len(q)
      BY <1>1
    <2>2. Fresh(r, Len(r)) = Fresh(r, Len(r) - 1) + IF r[Len(r)] = Topic!End THEN 0 ELSE 1
      BY <1>1, <2>1, FreshCounts
    <2>3. QED
      BY <1>1, <1>2, <2>1, <2>2
  <1>4. LastOfRun(r, g, k) = LastOfRun(q, g, k) + one
    <2>1. Fresh(q, Len(q)) \in Nat
      BY <1>1, <1>2
    <2>2. QED
      BY <1>1, <1>3, <2>1 DEF LastOfRun
  <1>5. ASSUME NEW n \in 1..Len(r), r[n] # Topic!End
        PROVE  r[n] = k + Len(g) + Fresh(r, n)
    <2>1. CASE n \in 1..Len(q)
      <3>1. r[n] = q[n] /\ Fresh(r, n) = Fresh(q, n)
        BY <1>1, <1>2, <2>1
      <3>2. q[n] # Topic!End => q[n] = k + Len(g) + Fresh(q, n)
        BY <1>1, <2>1 DEF RunOn
      <3>3. QED
        BY <1>5, <3>1, <3>2
    <2>2. CASE n = Len(r)
      <3>1. r[n] = e /\ e # Topic!End
        BY <1>1, <1>5, <2>2
      <3>2. e = LastOfRun(q, g, k) + 1 /\ one = 1
        BY <3>1
      <3>3. Fresh(q, Len(q)) \in Nat /\ Fresh(r, n) = Fresh(q, Len(q)) + 1
        BY <1>1, <1>2, <1>3, <2>2, <3>2
      <3>4. QED
        BY <1>1, <3>1, <3>2, <3>3 DEF LastOfRun
    <2>3. n \in 1..Len(q) \/ n = Len(r)
      BY <1>1
    <2>4. QED
      BY <2>1, <2>2, <2>3
  <1>6. RunOn(r, g, k)
    <2>1. DOMAIN r = 1..Len(r)
      BY <1>1
    <2>2. QED
      BY <1>5, <2>1 DEF RunOn
  <1>7. QED
    BY <1>4, <1>6 DEF r

\* Whoever subscribed stands in an unbroken run, which ends with the last update published
\* if its queue is still listed.
TopicInv ==
  /\ Topic!TypeOK
  /\ queue \in [Subscribers -> Seq(Nat)] /\ got \in [Subscribers -> Seq(Nat)]
  /\ \A s \in Subscribers :
       /\ at[s] = "new" => queue[s] = <<>> /\ got[s] = <<>>
       /\ RunOn(queue[s], got[s], since[s])
       /\ s \in listed => LastOfRun(queue[s], got[s], since[s]) = published

LEMMA TopicNumbers == Capacity \in Nat \ {0} /\ MaxUpdates \in Nat
  BY ServicesAssumption DEF Topic!TopicAssumption

\* Nothing was given and nothing waits.
LEMMA NothingRuns ==
  ASSUME NEW k \in Nat
  PROVE  RunOn(<<>>, <<>>, k) /\ LastOfRun(<<>>, <<>>, k) = k
  <1>1. <<>> \in Seq(Nat) /\ Len(<<>>) = 0 /\ 0 \in 0..Len(<<>>)
    OBVIOUS
  <1>2. Fresh(<<>>, 0) = 0
    BY <1>1, FreshCounts, Zenon
  <1>3. DOMAIN <<>> = {}
    OBVIOUS
  <1>4. QED
    BY <1>1, <1>2, <1>3 DEF RunOn, LastOfRun

LEMMA TopicInit == Topic!Init => TopicInv
  <1> SUFFICES ASSUME Topic!Init PROVE TopicInv
    OBVIOUS
  <1>1. /\ up = TRUE /\ listed = {} /\ published = 0
        /\ at = [s \in Subscribers |-> "new"] /\ since = [s \in Subscribers |-> 0]
        /\ queue = [s \in Subscribers |-> <<>>] /\ got = [s \in Subscribers |-> <<>>]
    BY DEF Topic!Init
  <1>2. Topic!TypeOK
    BY <1>1, TopicNumbers DEF Topic!TypeOK
  <1>3. queue \in [Subscribers -> Seq(Nat)] /\ got \in [Subscribers -> Seq(Nat)]
    BY <1>1
  <1>4. ASSUME NEW s \in Subscribers
        PROVE  /\ queue[s] = <<>> /\ got[s] = <<>> /\ s \notin listed
               /\ RunOn(queue[s], got[s], since[s])
    <2>1. queue[s] = <<>> /\ got[s] = <<>> /\ since[s] = 0 /\ s \notin listed
      BY <1>1
    <2>2. QED
      BY <2>1, NothingRuns
  <1>5. QED
    BY <1>2, <1>3, <1>4, Zenon DEF TopicInv

\* A step that leaves the queues and what was given as they are, of those who stand in a
\* run, keeps it.
LEMMA RunsKept ==
  ASSUME TopicInv, Topic!TypeOK', UNCHANGED <<queue, got, published, since>>,
         listed' \subseteq listed,
         \A s \in Subscribers : at'[s] = "new" => at[s] = "new"
  PROVE  TopicInv'
  BY DEF TopicInv

\* The consumer asks for its first update.
LEMMA SubscribeKeeps ==
  ASSUME TopicInv, NEW s \in Subscribers, Topic!Subscribe(s)
  PROVE  TopicInv'
  <1>1. /\ at[s] = "new" /\ queue' = queue /\ got' = got /\ published' = published /\ up' = up
        /\ at' = [at EXCEPT ![s] = IF up THEN "waiting" ELSE "ended"]
        /\ listed' = IF up THEN listed \cup {s} ELSE listed
        /\ since' = [since EXCEPT ![s] = published]
    BY Zenon DEF Topic!Subscribe
  <1>2. Topic!TypeOK
    BY DEF TopicInv
  <1>3. Topic!TypeOK'
    <2>1. /\ up' \in BOOLEAN /\ published' \in 0..MaxUpdates
          /\ since' \in [Subscribers -> 0..MaxUpdates]
          /\ at' \in [Subscribers -> {"new", "waiting", "consumer", "ended"}]
      BY <1>1, <1>2 DEF Topic!TypeOK
    <2>2. listed' \subseteq {r \in Subscribers : at'[r] \in {"waiting", "consumer"}}
      BY <1>1, <1>2 DEF Topic!TypeOK
    <2>3. QED
      BY <1>1, <1>2, <2>1, <2>2, Zenon DEF Topic!TypeOK
  <1>4. queue' \in [Subscribers -> Seq(Nat)] /\ got' \in [Subscribers -> Seq(Nat)]
    BY <1>1 DEF TopicInv
  <1>5. ASSUME NEW r \in Subscribers
        PROVE  /\ at'[r] = "new" => queue'[r] = <<>> /\ got'[r] = <<>>
               /\ RunOn(queue'[r], got'[r], since'[r])
               /\ r \in listed' => LastOfRun(queue'[r], got'[r], since'[r]) = published'
    <2>1. CASE r = s
      <3>1. queue'[r] = <<>> /\ got'[r] = <<>> /\ since'[r] = published /\ published \in Nat
        BY <1>1, <1>2, <2>1 DEF TopicInv, Topic!TypeOK
      <3>2. QED
        BY <1>1, <3>1, NothingRuns
    <2>2. CASE r # s
      <3>1. at'[r] = at[r] /\ since'[r] = since[r] /\ (r \in listed' <=> r \in listed)
        BY <1>1, <1>2, <2>2 DEF Topic!TypeOK
      <3>2. QED
        BY <1>1, <3>1 DEF TopicInv
    <2>3. QED
      BY <2>1, <2>2
  <1>6. QED
    BY <1>3, <1>4, <1>5, Zenon DEF TopicInv

\* The generator takes the first of its queue.
LEMMA ReceiveKeeps ==
  ASSUME TopicInv, NEW s \in Subscribers, Topic!Receive(s)
  PROVE  TopicInv'
  <1> DEFINE q == queue[s]
             h == IF Head(q) = Topic!End THEN got[s] ELSE Append(got[s], Head(q))
  <1>1. /\ at[s] = "waiting" /\ q # <<>> /\ queue' = [queue EXCEPT ![s] = Tail(q)]
        /\ up' = up /\ published' = published /\ since' = since
    BY Zenon DEF Topic!Receive
  <1>2. /\ Topic!TypeOK /\ queue \in [Subscribers -> Seq(Nat)] /\ got \in [Subscribers -> Seq(Nat)]
        /\ q \in Seq(0..MaxUpdates) /\ q \in Seq(Nat) /\ got[s] \in Seq(1..MaxUpdates)
        /\ Len(q) <= Capacity /\ since[s] \in Nat
    BY DEF TopicInv, Topic!TypeOK
  <1>3. /\ Tail(q) \in Seq(0..MaxUpdates) /\ Tail(q) \in Seq(Nat) /\ Len(Tail(q)) <= Capacity
        /\ Head(q) \in 0..MaxUpdates
    BY <1>1, <1>2, TopicNumbers
  <1>4. /\ got' = [got EXCEPT ![s] = h]
        /\ listed' = IF Head(q) = Topic!End THEN listed \ {s} ELSE listed
        /\ at' = [at EXCEPT ![s] = IF Head(q) = Topic!End THEN "ended" ELSE "consumer"]
    <2>1. CASE Head(q) = Topic!End
      <3>1. got' = got /\ listed' = listed \ {s} /\ at' = [at EXCEPT ![s] = "ended"]
        BY <2>1, Zenon DEF Topic!Receive, Topic!Ends
      <3>2. [got EXCEPT ![s] = got[s]] = got
        BY <1>2
      <3>3. QED
        BY <2>1, <3>1, <3>2
    <2>2. CASE Head(q) # Topic!End
      BY <2>2 DEF Topic!Receive
    <2>3. QED
      BY <2>1, <2>2
  <1>5. h \in Seq(1..MaxUpdates) /\ h \in Seq(Nat)
    <2>1. got[s] \in Seq(1..MaxUpdates) /\ got[s] \in Seq(Nat)
      BY <1>2
    <2>2. CASE Head(q) = Topic!End
      BY <2>1, <2>2
    <2>3. CASE Head(q) # Topic!End
      <3>1. Head(q) \in 1..MaxUpdates /\ Head(q) \in Nat
        BY <1>3, <2>3 DEF Topic!End
      <3>2. h = Append(got[s], Head(q))
        BY <2>3
      <3> HIDE DEF q, h
      <3>3. QED
        BY <2>1, <3>1, <3>2
    <2>4. QED
      BY <2>2, <2>3
  <1>6. RunOn(Tail(q), h, since[s]) /\ LastOfRun(Tail(q), h, since[s]) = LastOfRun(q, got[s], since[s])
    <2>1. RunOn(q, got[s], since[s]) /\ got[s] \in Seq(Nat)
      BY <1>2 DEF TopicInv
    <2> HIDE DEF q
    <2>2. QED
      BY <1>1, <1>2, <2>1, RunReceived
  <1> HIDE DEF q, h
  <1>7. queue' \in [Subscribers -> Seq(Nat)] /\ got' \in [Subscribers -> Seq(Nat)]
    BY <1>1, <1>2, <1>3, <1>4, <1>5
  <1>8. /\ queue'[s] = Tail(q) /\ got'[s] = h
        /\ \A r \in Subscribers : r # s => queue'[r] = queue[r] /\ got'[r] = got[r]
    BY <1>1, <1>2, <1>4
  <1>9. /\ at'[s] \in {"ended", "consumer"} /\ (s \in listed' => s \in listed)
        /\ \A r \in Subscribers : r # s => at'[r] = at[r] /\ (r \in listed' <=> r \in listed)
    BY <1>2, <1>4 DEF Topic!TypeOK
  <1>10. Topic!TypeOK'
    <2>1. /\ up' \in BOOLEAN /\ published' \in 0..MaxUpdates /\ since' \in [Subscribers -> 0..MaxUpdates]
      BY <1>1, <1>2 DEF Topic!TypeOK
    <2>2. at' \in [Subscribers -> {"new", "waiting", "consumer", "ended"}]
      BY <1>2, <1>4 DEF Topic!TypeOK
    <2>3. listed' \subseteq {r \in Subscribers : at'[r] \in {"waiting", "consumer"}}
      <3>1. ASSUME NEW r \in listed' PROVE r \in Subscribers /\ at'[r] \in {"waiting", "consumer"}
        <4>1. r \in listed /\ r \in Subscribers /\ at[r] \in {"waiting", "consumer"}
          BY <1>2, <1>4 DEF Topic!TypeOK
        <4>2. CASE r = s
          <5>1. Head(q) # Topic!End
            BY <1>4, <4>2
          <5>2. QED
            BY <1>2, <1>4, <4>2, <5>1 DEF Topic!TypeOK
        <4>3. CASE r # s
          BY <1>9, <4>1, <4>3
        <4>4. QED
          BY <4>2, <4>3
      <3>2. QED
        BY <3>1
    <2>4. ASSUME NEW r \in Subscribers
          PROVE  /\ queue'[r] \in Seq(0..MaxUpdates) /\ Len(queue'[r]) <= Capacity
                 /\ got'[r] \in Seq(1..MaxUpdates)
      BY <1>2, <1>3, <1>5, <1>8, Zenon DEF Topic!TypeOK
    <2>5. QED
      BY <2>1, <2>2, <2>3, <2>4, Zenon DEF Topic!TypeOK
  <1>11. ASSUME NEW r \in Subscribers
         PROVE  /\ at'[r] = "new" => queue'[r] = <<>> /\ got'[r] = <<>>
                /\ RunOn(queue'[r], got'[r], since'[r])
                /\ r \in listed' => LastOfRun(queue'[r], got'[r], since'[r]) = published'
    <2>1. CASE r = s
      <3>1. s \in listed => LastOfRun(q, got[s], since[s]) = published
        BY Zenon DEF TopicInv, q
      <3>2. QED
        BY <1>1, <1>6, <1>8, <1>9, <2>1, <3>1
    <2>2. CASE r # s
      BY <1>1, <1>8, <1>9, <2>2, Zenon DEF TopicInv
    <2>3. QED
      BY <2>1, <2>2
  <1>12. QED
    BY <1>7, <1>10, <1>11, Zenon DEF TopicInv

\* All listed queues that are not full are given the same.
LEMMA QueuedKeeps ==
  ASSUME TopicInv, NEW e \in 0..MaxUpdates, NEW p \in 0..MaxUpdates,
         p = published + IF e = Topic!End THEN 0 ELSE 1,
         e # Topic!End => e = published + 1,
         queue' = [s \in Subscribers |->
           IF s \in listed /\ ~Topic!Full(s) THEN Append(queue[s], e) ELSE queue[s]],
         published' = p, up' \in BOOLEAN, at' = at, since' = since, got' = got,
         listed' = IF e = Topic!End THEN listed ELSE {s \in listed : ~Topic!Full(s)}
  PROVE  TopicInv'
  <1>1. /\ Topic!TypeOK /\ queue \in [Subscribers -> Seq(Nat)] /\ got \in [Subscribers -> Seq(Nat)]
        /\ published \in Nat
    BY DEF TopicInv, Topic!TypeOK
  <1>2. ASSUME NEW s \in Subscribers
        PROVE  /\ queue'[s] \in Seq(0..MaxUpdates) /\ queue'[s] \in Seq(Nat) /\ Len(queue'[s]) <= Capacity
    <2>1. queue[s] \in Seq(0..MaxUpdates) /\ queue[s] \in Seq(Nat) /\ Len(queue[s]) \in Nat /\ Len(queue[s]) <= Capacity
      BY <1>1 DEF Topic!TypeOK
    <2>2. ASSUME ~Topic!Full(s) PROVE Len(queue[s]) + 1 <= Capacity
      BY <2>1, <2>2, TopicNumbers DEF Topic!Full
    <2>3. /\ Append(queue[s], e) \in Seq(0..MaxUpdates) /\ Append(queue[s], e) \in Seq(Nat)
          /\ Len(Append(queue[s], e)) = Len(queue[s]) + 1
      BY <2>1
    <2>4. CASE s \in listed /\ ~Topic!Full(s)
      BY <2>2, <2>3, <2>4
    <2>5. CASE ~(s \in listed /\ ~Topic!Full(s))
      BY <2>1, <2>5
    <2>6. QED
      BY <2>4, <2>5
  <1>3. Topic!TypeOK'
    <2>1. listed' \subseteq {s \in Subscribers : at'[s] \in {"waiting", "consumer"}}
      BY <1>1 DEF Topic!TypeOK
    <2>2. /\ published' \in 0..MaxUpdates /\ since' \in [Subscribers -> 0..MaxUpdates]
          /\ at' \in [Subscribers -> {"new", "waiting", "consumer", "ended"}]
      BY <1>1 DEF Topic!TypeOK
    <2>3. \A s \in Subscribers : got'[s] \in Seq(1..MaxUpdates)
      BY <1>1 DEF Topic!TypeOK
    <2>4. QED
      BY <1>2, <2>1, <2>2, <2>3, Zenon DEF Topic!TypeOK
  <1>4. queue' \in [Subscribers -> Seq(Nat)]
    <2>1. queue' = [s \in Subscribers |-> queue'[s]]
      OBVIOUS
    <2>2. QED
      BY <1>2, <2>1
  <1>5. ASSUME NEW s \in Subscribers
        PROVE  /\ at'[s] = "new" => queue'[s] = <<>> /\ got'[s] = <<>>
               /\ RunOn(queue'[s], got'[s], since'[s])
               /\ s \in listed' => LastOfRun(queue'[s], got'[s], since'[s]) = published'
    <2>1. /\ at[s] = "new" => queue[s] = <<>> /\ got[s] = <<>>
          /\ RunOn(queue[s], got[s], since[s])
          /\ s \in listed => LastOfRun(queue[s], got[s], since[s]) = published
      BY Zenon DEF TopicInv
    <2>2. CASE s \in listed /\ ~Topic!Full(s)
      <3>1. queue'[s] = Append(queue[s], e) /\ at[s] # "new"
        BY <1>1, <2>2 DEF Topic!TypeOK
      <3>2. /\ queue[s] \in Seq(Nat) /\ got[s] \in Seq(Nat) /\ since[s] \in Nat /\ e \in Nat
            /\ e # Topic!End => e = LastOfRun(queue[s], got[s], since[s]) + 1
        BY <1>1, <2>1, <2>2 DEF Topic!TypeOK
      <3>3. /\ RunOn(Append(queue[s], e), got[s], since[s])
            /\ LastOfRun(Append(queue[s], e), got[s], since[s])
                 = LastOfRun(queue[s], got[s], since[s]) + IF e = Topic!End THEN 0 ELSE 1
        BY <2>1, <3>2, RunQueued
      <3>4. QED
        BY <2>1, <2>2, <3>1, <3>3, Zenon
    <2>3. CASE ~(s \in listed /\ ~Topic!Full(s))
      <3>1. queue'[s] = queue[s]
        BY <2>3
      <3>2. s \in listed' => s \in listed /\ published' = published
        BY <1>1, <2>3
      <3>3. QED
        BY <2>1, <3>1, <3>2
    <2>4. QED
      BY <2>2, <2>3
  <1>6. QED
    BY <1>1, <1>3, <1>4, <1>5, Zenon DEF TopicInv

\* What the subscriptions keep, whoever is slow, leaves or is stopped meanwhile.
THEOREM TopicInvariant == ServicesSpec => []TopicInv
  <1>1. ServicesInit => TopicInv
    BY TopicInit, Zenon DEF ServicesInit
  <1>2. TopicInv /\ [ServicesNext]_ServicesVars => TopicInv'
    <2> SUFFICES ASSUME TopicInv, [ServicesNext]_ServicesVars PROVE TopicInv'
      OBVIOUS
    <2>1. ASSUME NEW s \in Subscribers, Topic!NextTurn(s) \/ Topic!Leave(s) PROVE TopicInv'
      <3>1. /\ UNCHANGED <<up, queue, published, since, got>>
            /\ \/ at[s] \in {"waiting", "consumer"} /\ at' = [at EXCEPT ![s] = "ended"] /\ listed' = listed \ {s}
               \/ at[s] \in {"waiting", "consumer"} /\ at' = [at EXCEPT ![s] = "waiting"] /\ listed' = listed
        BY <2>1 DEF Topic!NextTurn, Topic!Leave, Topic!Ends
      <3>2. Topic!TypeOK
        BY DEF TopicInv
      <3>3. /\ at' \in [Subscribers -> {"new", "waiting", "consumer", "ended"}]
            /\ listed' \subseteq {r \in Subscribers : at'[r] \in {"waiting", "consumer"}}
            /\ listed' \subseteq listed
            /\ \A r \in Subscribers : at'[r] = "new" => at[r] = "new"
        BY <3>1, <3>2 DEF Topic!TypeOK
      <3>4. Topic!TypeOK'
        BY <3>1, <3>2, <3>3, Zenon DEF Topic!TypeOK
      <3>5. QED
        BY <3>1, <3>3, <3>4, RunsKept
    <2>2. CASE Topic!Publish
      <3> DEFINE e == published + 1
      <3>1. /\ published \in Nat /\ e \in 0..MaxUpdates /\ e # Topic!End
            /\ up' \in BOOLEAN
        BY <2>2, TopicNumbers DEF Topic!Publish, TopicInv, Topic!TypeOK, Topic!End
      <3>2. /\ queue' = [s \in Subscribers |->
                 IF s \in listed /\ ~Topic!Full(s) THEN Append(queue[s], e) ELSE queue[s]]
            /\ published' = e /\ at' = at /\ since' = since /\ got' = got
            /\ listed' = {s \in listed : ~Topic!Full(s)}
        BY <2>2, Zenon DEF Topic!Publish
      <3>3. e = published + 1
        OBVIOUS
      <3> HIDE DEF e
      <3>4. QED
        BY <3>1, <3>2, <3>3, QueuedKeeps
    <2>3. CASE Topic!Stop
      <3> DEFINE e == Topic!End
      <3>1. published \in 0..MaxUpdates /\ published + 0 = published /\ e \in 0..MaxUpdates
        BY TopicNumbers DEF TopicInv, Topic!TypeOK, Topic!End
      <3>2. /\ queue' = [s \in Subscribers |->
                 IF s \in listed /\ ~Topic!Full(s) THEN Append(queue[s], e) ELSE queue[s]]
            /\ published' = published /\ at' = at /\ since' = since /\ got' = got /\ listed' = listed
            /\ up' = FALSE
        BY <2>3, Zenon DEF Topic!Stop
      <3>3. e = Topic!End
        OBVIOUS
      <3> HIDE DEF e
      <3>4. QED
        BY <3>1, <3>2, <3>3, QueuedKeeps
    <2>4. CASE UNCHANGED TopicVars
      BY <2>4, Zenon DEF TopicVars, TopicInv, Topic!TypeOK
    <2>5. CASE Topic!Next
      BY <2>1, <2>2, <2>3, <2>5, SubscribeKeeps, ReceiveKeeps, Zenon DEF Topic!Next
    <2>6. QED
      BY <2>4, <2>5, OnePartMoves, Zenon
  <1>3. QED
    BY <1>1, <1>2, PTL DEF ServicesSpec

\* Subscriptions: a subscriber is given the updates since it subscribed without a gap, up to
\* the last one for as long as it is listed, for any number of subscribers and updates and
\* any size of the queues.
THEOREM UpdatesComeWithoutGaps == ServicesSpec => []NoGaps
  <1>1. TopicInv => NoGaps
    <2> SUFFICES ASSUME TopicInv, NEW s \in Subscribers
                 PROVE  /\ \A n \in DOMAIN got[s] : got[s][n] = since[s] + n
                        /\ \A n \in DOMAIN queue[s] :
                             queue[s][n] # Topic!End
                               => queue[s][n] = since[s] + Len(got[s]) + Topic!Updates(s, n)
                        /\ s \in listed
                             => since[s] + Len(got[s]) + Topic!Updates(s, Len(queue[s])) = published
      BY Zenon DEF NoGaps, Topic!NoGaps
    <2>1. /\ RunOn(queue[s], got[s], since[s])
          /\ s \in listed => LastOfRun(queue[s], got[s], since[s]) = published
      BY Zenon DEF TopicInv
    <2>2. QED
      BY <2>1, SameUpdates, Zenon DEF RunOn, LastOfRun
  <1>2. QED
    BY <1>1, TopicInvariant, PTL

---------------------------------------------------------------------------
(* The performance monitor.                                                *)

Tracking == [status : {"running", "over"}, of : Endpoints, began : 0..MaxTick,
             raised : BOOLEAN, recorded : BOOLEAN]
HistoryEntry == [of : Endpoints, error : BOOLEAN]

Raised == {r \in Monitor!Started : tracked[r].raised = TRUE}
Recorded == {r \in Monitor!Started : tracked[r].recorded = TRUE}

\* The entries of a history that are marked, and those of an endpoint.
Marked(h) == {n \in DOMAIN h : h[n].error = TRUE}
MarkedOf(h, endpoint) == {n \in DOMAIN h : h[n].of = endpoint /\ h[n].error = TRUE}

LEMMA MonitorNumbers ==
  Root \in Endpoints /\ KeptRequests \in Nat \ {0} /\ KeptTimes \in Nat \ {0} /\ MaxTick \in Nat
  BY ServicesAssumption DEF Monitor!MonitorAssumption

\* The last elements of a list are those from some place on.
LEMMA LastOnes ==
  ASSUME NEW S, NEW s \in Seq(S), NEW kept \in Nat \ {0}
  PROVE  /\ Monitor!LastOf(s, kept) \in Seq(S) /\ Len(Monitor!LastOf(s, kept)) <= kept
         /\ \E d \in Nat :
              /\ Len(Monitor!LastOf(s, kept)) + d = Len(s)
              /\ \A n \in 1..Len(Monitor!LastOf(s, kept)) : Monitor!LastOf(s, kept)[n] = s[n + d]
  <1> DEFINE u == Monitor!LastOf(s, kept)
  <1>1. Len(s) \in Nat /\ \A n \in 1..Len(s) : s[n] \in S
    OBVIOUS
  <1>2. CASE Len(s) > kept
    <2> DEFINE d == Len(s) - kept
               t == SubSeq(s, d + 1, Len(s))
    <2>1. d \in Nat /\ kept + d = Len(s) /\ Len(s) - kept + 1 = d + 1
      BY <1>1, <1>2
    <2>2. u = t
      BY <1>2 DEF Monitor!LastOf
    <2>3. t \in Seq(S) /\ Len(t) = kept /\ \A n \in 1..kept : t[n] = s[n + d]
      BY <1>1, <1>2
    <2> HIDE DEF t, d, u
    <2>4. Len(u) = kept /\ u \in Seq(S) /\ \A n \in 1..kept : u[n] = s[n + d]
      BY <2>2, <2>3
    <2>5. Len(u) <= kept /\ Len(u) + d = Len(s) /\ \A n \in 1..Len(u) : u[n] = s[n + d]
      BY <2>1, <2>4
    <2>6. QED
      BY <2>1, <2>4, <2>5, Zenon DEF u
  <1>3. CASE ~(Len(s) > kept)
    <2>1. u = s
      BY <1>3 DEF Monitor!LastOf
    <2>2. 0 \in Nat /\ Len(s) + 0 = Len(s) /\ \A n \in 1..Len(s) : s[n] = s[n + 0]
      BY <1>1
    <2> HIDE DEF u
    <2>3. Len(u) <= kept /\ u \in Seq(S)
      BY <1>1, <1>3, <2>1
    <2>4. QED
      BY <2>1, <2>2, <2>3, Zenon DEF u
  <1>4. QED
    BY <1>2, <1>3

\* Those of them that are marked are no more than were marked.
LEMMA MarkedLast ==
  ASSUME NEW h \in Seq(HistoryEntry), NEW x \in HistoryEntry, x.error = FALSE, NEW k \in Nat \ {0}
  PROVE  LET t == Monitor!LastOf(Append(h, x), k)
         IN  /\ t \in Seq(HistoryEntry) /\ Len(t) <= k
             /\ Cardinality(Marked(t)) <= Cardinality(Marked(h))
             /\ \A endpoint : Cardinality(MarkedOf(t, endpoint)) <= Cardinality(MarkedOf(h, endpoint))
  <1> DEFINE s == Append(h, x)
             t == Monitor!LastOf(s, k)
  <1>1. /\ s \in Seq(HistoryEntry) /\ Len(h) \in Nat /\ Len(s) = Len(h) + 1
        /\ \A n \in 1..Len(h) : s[n] = h[n]
        /\ s[Len(h) + 1] = x
    OBVIOUS
  <1> HIDE DEF s
  <1>2. t \in Seq(HistoryEntry) /\ Len(t) <= k
    BY <1>1, LastOnes
  <1>3. PICK d \in Nat : Len(t) + d = Len(s) /\ \A n \in 1..Len(t) : t[n] = s[n + d]
    BY <1>1, LastOnes
  <1> HIDE DEF t
  <1>4. Len(t) \in Nat /\ DOMAIN t = 1..Len(t) /\ DOMAIN h = 1..Len(h)
    BY <1>2
  <1>5. ASSUME NEW n \in Marked(t)
        PROVE  n + d \in 1..Len(h) /\ t[n] = h[n + d]
    <2>1. n \in 1..Len(t) /\ t[n].error = TRUE
      BY <1>4 DEF Marked
    <2>2. n + d \in 1..Len(s) /\ t[n] = s[n + d]
      BY <1>1, <1>3, <1>4, <2>1
    <2>3. n + d # Len(h) + 1
      BY <1>1, <2>1, <2>2
    <2>4. QED
      BY <1>1, <2>2, <2>3
  <1>6. ASSUME NEW A \in SUBSET (1..Len(t)), NEW B \in SUBSET (1..Len(h)), {n + d : n \in A} \subseteq B
        PROVE  Cardinality(A) <= Cardinality(B)
    <2>1. IsFiniteSet(A) /\ IsFiniteSet(B) /\ A \subseteq Nat
      BY <1>1, <1>4, SomeOfFirst
    <2>2. Cardinality({n + d : n \in A}) = Cardinality(A)
      BY <2>1, MovedUp
    <2>3. {n + d : n \in A} \in SUBSET B
      BY <1>6
    <2>4. Cardinality({n + d : n \in A}) <= Cardinality(B)
      BY <2>1, <2>3, FS_Subset
    <2>5. QED
      BY <2>2, <2>4
  <1>7. Cardinality(Marked(t)) <= Cardinality(Marked(h))
    <2>1. Marked(t) \in SUBSET (1..Len(t)) /\ Marked(h) \in SUBSET (1..Len(h))
      BY <1>4 DEF Marked
    <2>2. ASSUME NEW n \in Marked(t) PROVE n + d \in Marked(h)
      BY <1>4, <1>5 DEF Marked
    <2>3. {n + d : n \in Marked(t)} \subseteq Marked(h)
      BY <2>2
    <2>4. QED
      BY <1>6, <2>1, <2>3
  <1>8. ASSUME NEW endpoint
        PROVE  Cardinality(MarkedOf(t, endpoint)) <= Cardinality(MarkedOf(h, endpoint))
    <2>1. MarkedOf(t, endpoint) \in SUBSET (1..Len(t)) /\ MarkedOf(h, endpoint) \in SUBSET (1..Len(h))
      BY <1>4 DEF MarkedOf
    <2>2. ASSUME NEW n \in MarkedOf(t, endpoint) PROVE n + d \in MarkedOf(h, endpoint)
      BY <1>4, <1>5 DEF Marked, MarkedOf
    <2>3. {n + d : n \in MarkedOf(t, endpoint)} \subseteq MarkedOf(h, endpoint)
      BY <2>2
    <2>4. QED
      BY <1>6, <2>1, <2>3
  <1>9. QED
    BY <1>2, <1>7, <1>8 DEF s, t

\* Names and times are typed, and no time is to come.
MonitorTypes ==
  /\ tick \in 0..MaxTick
  /\ history \in Seq(HistoryEntry) /\ Len(history) <= KeptRequests
  /\ times \in Seq(0..MaxTick) /\ Len(times) <= KeptTimes
  /\ tracked \in [Requests -> {Monitor!Idle} \cup Tracking]
  /\ \A r \in Monitor!Started : tracked[r].began <= tick
  /\ \A r \in Monitor!Running : tracked[r].raised = FALSE

LEMMA Trackings ==
  ASSUME MonitorTypes, NEW r \in Requests
  PROVE  /\ r \in Monitor!Started <=> tracked[r] # Monitor!Idle
         /\ r \in Monitor!Started <=> tracked[r] \in Tracking
         /\ r \in Monitor!Running => r \in Monitor!Started
  <1>1. tracked[r] \in {Monitor!Idle} \cup Tracking
    BY DEF MonitorTypes
  <1>2. Monitor!Idle.status = "idle"
    BY DEF Monitor!Idle
  <1>3. \A t \in Tracking : t.status # "idle" 
    BY DEF Tracking
  <1>4. QED
    BY <1>1, <1>2, <1>3 DEF Monitor!Started, Monitor!Running

\* A request that is entered.
LEMMA EnterChanges ==
  ASSUME MonitorTypes, NEW r \in Requests, NEW endpoint \in Endpoints, Monitor!Enter(r, endpoint)
  PROVE  /\ r \notin Monitor!Started /\ r \notin Monitor!Running
         /\ tracked'[r].of = endpoint /\ tracked'[r].began = tick
         /\ \A q \in Requests : q # r => tracked'[q] = tracked[q]
         /\ tracked' \in [Requests -> {Monitor!Idle} \cup Tracking]
         /\ Monitor!Started' = Monitor!Started \cup {r}
         /\ Monitor!Running' = Monitor!Running \cup {r}
         /\ tracked'[r].raised = FALSE
         /\ Raised' = Raised /\ Recorded' = Recorded
  <1> DEFINE t == [status |-> "running", of |-> endpoint, began |-> tick, raised |-> FALSE, recorded |-> FALSE]
  <1>1. tracked[r] = Monitor!Idle /\ tracked' = [tracked EXCEPT ![r] = t]
    BY Zenon DEF Monitor!Enter
  <1>2. /\ t \in Tracking /\ t.status = "running" /\ t.of = endpoint /\ t.began = tick
        /\ t.raised = FALSE /\ t.recorded = FALSE
    BY DEF MonitorTypes, Tracking
  <1>3. tracked \in [Requests -> {Monitor!Idle} \cup Tracking]
    BY DEF MonitorTypes
  <1> HIDE DEF t
  <1>4. tracked'[r] = t /\ \A q \in Requests : q # r => tracked'[q] = tracked[q]
    BY <1>1, <1>3
  <1>5. tracked' \in [Requests -> {Monitor!Idle} \cup Tracking]
    BY <1>1, <1>2, <1>3
  <1>6. Monitor!Idle.status = "idle"
    BY DEF Monitor!Idle
  <1>7. r \notin Monitor!Started /\ r \notin Monitor!Running
    BY <1>1, <1>6 DEF Monitor!Started, Monitor!Running
  <1>8. Monitor!Started' = Monitor!Started \cup {r} /\ Monitor!Running' = Monitor!Running \cup {r}
    BY <1>2, <1>4 DEF Monitor!Started, Monitor!Running
  <1>9. Raised' = Raised /\ Recorded' = Recorded
    BY <1>2, <1>4, <1>7, <1>8 DEF Raised, Recorded, Monitor!Started
  <1>10. QED
    BY <1>2, <1>4, <1>5, <1>7, <1>8, <1>9

\* A request that ends.
LEMMA LeaveChanges ==
  ASSUME MonitorTypes, NEW r \in Requests, NEW how, Monitor!Leave(r, how)
  PROVE  /\ r \in Monitor!Running /\ r \in Monitor!Started /\ r \notin Raised
         /\ tracked' \in [Requests -> {Monitor!Idle} \cup Tracking]
         /\ \A q \in Requests : q # r => tracked'[q] = tracked[q]
         /\ tracked'[r].of = tracked[r].of /\ tracked'[r].began = tracked[r].began
         /\ Monitor!Started' = Monitor!Started
         /\ Monitor!Running' = Monitor!Running \ {r}
         /\ Raised' = (IF how = "exception" THEN Raised \cup {r} ELSE Raised)
         /\ Recorded' = Recorded
  <1> DEFINE t == [tracked[r] EXCEPT !.status = "over", !.raised = how = "exception"]
  <1>1. r \in Monitor!Running /\ tracked' = [tracked EXCEPT ![r] = t]
    BY DEF Monitor!Leave
  <1>2. r \in Monitor!Started /\ tracked[r] \in Tracking /\ tracked[r].raised = FALSE
    BY <1>1, Trackings DEF MonitorTypes
  <1>3. /\ t \in Tracking /\ t.status = "over" /\ t.of = tracked[r].of /\ t.began = tracked[r].began
        /\ t.recorded = tracked[r].recorded
    BY <1>2 DEF Tracking
  <1>4. t.raised = TRUE <=> how = "exception"
    BY <1>2 DEF Tracking
  <1>5. tracked \in [Requests -> {Monitor!Idle} \cup Tracking]
    BY DEF MonitorTypes
  <1> HIDE DEF t
  <1>6. tracked'[r] = t /\ \A q \in Requests : q # r => tracked'[q] = tracked[q]
    BY <1>1, <1>2, <1>5
  <1>7. tracked' \in [Requests -> {Monitor!Idle} \cup Tracking]
    BY <1>1, <1>3, <1>5
  <1>8. Monitor!Started' = Monitor!Started
    BY <1>2, <1>3, <1>6 DEF Monitor!Started
  <1>9. Monitor!Running' = Monitor!Running \ {r}
    BY <1>2, <1>3, <1>6 DEF Monitor!Running
  <1>10. r \notin Raised
    BY <1>2 DEF Raised
  <1>11. Raised' = (IF how = "exception" THEN Raised \cup {r} ELSE Raised)
    BY <1>2, <1>4, <1>6, <1>8, <1>10 DEF Raised, Monitor!Started
  <1>12. Recorded' = Recorded
    BY <1>2, <1>3, <1>6, <1>8 DEF Recorded, Monitor!Started
  <1>13. QED
    BY <1>1, <1>2, <1>3, <1>6, <1>7, <1>8, <1>9, <1>10, <1>11, <1>12

\* An error that is recorded.
LEMMA RecordChanges ==
  ASSUME MonitorTypes, NEW r \in Requests, Monitor!RecordError(r)
  PROVE  /\ r \in Monitor!Started /\ r \notin Recorded
         /\ tracked' \in [Requests -> {Monitor!Idle} \cup Tracking]
         /\ \A q \in Requests : q # r => tracked'[q] = tracked[q]
         /\ tracked'[r].of = tracked[r].of /\ tracked'[r].began = tracked[r].began
         /\ tracked'[r].raised = tracked[r].raised
         /\ Monitor!Started' = Monitor!Started
         /\ Monitor!Running' = Monitor!Running
         /\ Raised' = Raised
         /\ Recorded' = Recorded \cup {r}
  <1> DEFINE t == [tracked[r] EXCEPT !.recorded = TRUE]
  <1>1. /\ tracked[r].status \in {"running", "over"} /\ ~tracked[r].recorded
        /\ tracked' = [tracked EXCEPT ![r] = t]
    BY DEF Monitor!RecordError
  <1>2. r \in Monitor!Started /\ tracked[r] \in Tracking
    BY <1>1, Trackings DEF Monitor!Started
  <1>3. /\ t \in Tracking /\ t.status = tracked[r].status /\ t.of = tracked[r].of
        /\ t.began = tracked[r].began /\ t.raised = tracked[r].raised /\ t.recorded = TRUE
    BY <1>2 DEF Tracking
  <1>4. tracked[r].recorded # TRUE
    BY <1>1
  <1>5. tracked \in [Requests -> {Monitor!Idle} \cup Tracking]
    BY DEF MonitorTypes
  <1> HIDE DEF t
  <1>6. tracked'[r] = t /\ \A q \in Requests : q # r => tracked'[q] = tracked[q]
    BY <1>1, <1>2, <1>5
  <1>7. tracked' \in [Requests -> {Monitor!Idle} \cup Tracking]
    BY <1>1, <1>3, <1>5
  <1>8. Monitor!Started' = Monitor!Started
    BY <1>2, <1>3, <1>6 DEF Monitor!Started
  <1>9. Monitor!Running' = Monitor!Running
    BY <1>2, <1>3, <1>6 DEF Monitor!Running
  <1>10. Raised' = Raised
    BY <1>2, <1>3, <1>6, <1>8 DEF Raised, Monitor!Started
  <1>11. Recorded' = Recorded \cup {r}
    BY <1>2, <1>3, <1>6, <1>8 DEF Recorded, Monitor!Started
  <1>12. QED
    BY <1>2, <1>3, <1>4, <1>6, <1>7, <1>8, <1>9, <1>10, <1>11 DEF Recorded

\* The entries of some endpoints, and the history with the newest of some entries marked.
EntriesOf(h, names) == {n \in DOMAIN h : h[n].of \in names}
MarkNewest(h, found) ==
  [n \in DOMAIN h |->
    IF n \in found /\ \A m \in found : m <= n THEN [h[n] EXCEPT !.error = TRUE] ELSE h[n]]

\* There may be one more of an endpoint in t, if it is one of the names.
MarkedMore(t, h, endpoint, names) ==
  /\ Cardinality(MarkedOf(t, endpoint)) <= Cardinality(MarkedOf(h, endpoint)) + 1
  /\ endpoint \notin names => Cardinality(MarkedOf(t, endpoint)) <= Cardinality(MarkedOf(h, endpoint))

\* One more may be marked then, of their endpoints.
LEMMA NewestMarked ==
  ASSUME NEW h \in Seq(HistoryEntry), NEW names
  PROVE  LET t == MarkNewest(h, EntriesOf(h, names))
         IN  /\ t \in Seq(HistoryEntry) /\ Len(t) = Len(h)
             /\ Cardinality(Marked(t)) <= Cardinality(Marked(h)) + 1
             /\ \A endpoint : MarkedMore(t, h, endpoint, names)
  <1> DEFINE found == EntriesOf(h, names)
             t == MarkNewest(h, found)
  <1>1. /\ Len(h) \in Nat /\ DOMAIN h = 1..Len(h) /\ \A n \in 1..Len(h) : h[n] \in HistoryEntry
        /\ found = {n \in DOMAIN h : h[n].of \in names}
        /\ t = MarkNewest(h, found)
    BY DEF EntriesOf
  <1> HIDE DEF found, t
  <1> DEFINE newest(n) == n \in found /\ \A m \in found : m <= n
  <1>2. /\ \A n \in 1..Len(h) : t[n] \in HistoryEntry /\ t[n].of = h[n].of
        /\ \A n \in 1..Len(h) : ~newest(n) => t[n] = h[n]
        /\ DOMAIN t = 1..Len(h)
    BY <1>1 DEF HistoryEntry, MarkNewest
  <1>3. t \in Seq(HistoryEntry) /\ Len(t) = Len(h)
    <2>1. t = [n \in 1..Len(h) |-> t[n]]
      BY <1>1 DEF MarkNewest
    <2>2. t \in [1..Len(h) -> HistoryEntry]
      BY <1>2, <2>1
    <2>3. QED
      BY <1>1, <2>2
  <1>4. \A n, m \in 1..Len(h) : newest(n) /\ newest(m) => n = m
    <2>1. \A n, m \in 1..Len(h) : n <= m /\ m <= n => n = m
      BY <1>1
    <2>2. QED
      BY <2>1
  <1>5. PICK p : \A n \in 1..Len(h) : newest(n) => n = p
    BY <1>4, Zenon
  <1>6. \A n \in 1..Len(h) : newest(n) => h[n].of \in names
    BY <1>1
  <1> HIDE DEF newest
  <1>7. ASSUME NEW A \in SUBSET (1..Len(h)), NEW B \in SUBSET (1..Len(h)), A \subseteq B \cup {p}
        PROVE  Cardinality(A) <= Cardinality(B) + 1
    <2>1. IsFiniteSet(B) /\ Cardinality(B) \in Nat /\ IsFiniteSet(A) /\ Cardinality(A) \in Nat
      BY <1>1, SomeOfFirst
    <2>2. IsFiniteSet(B \cup {p}) /\ Cardinality(B \cup {p}) <= Cardinality(B) + 1
      <3>1. /\ IsFiniteSet(B \cup {p})
            /\ Cardinality(B \cup {p}) = IF p \in B THEN Cardinality(B) ELSE Cardinality(B) + 1
        BY <2>1, FS_AddElement, Zenon
      <3>2. QED
        BY <2>1, <3>1
    <2>3. Cardinality(A) <= Cardinality(B \cup {p}) /\ Cardinality(B \cup {p}) \in Nat
      BY <1>7, <2>2, FS_Subset, FS_CardinalityType
    <2>4. QED
      BY <2>1, <2>2, <2>3
  <1>8. Cardinality(Marked(t)) <= Cardinality(Marked(h)) + 1
    <2>1. Marked(t) \in SUBSET (1..Len(h)) /\ Marked(h) \in SUBSET (1..Len(h))
      BY <1>1, <1>2 DEF Marked
    <2>2. ASSUME NEW n \in Marked(t), n # p PROVE n \in Marked(h)
      BY <1>1, <1>2, <1>5, <2>2 DEF Marked
    <2>3. Marked(t) \subseteq Marked(h) \cup {p}
      BY <2>2
    <2>4. QED
      BY <1>7, <2>1, <2>3
  <1>9. ASSUME NEW endpoint
        PROVE  MarkedMore(t, h, endpoint, names)
    <2> DEFINE A == MarkedOf(t, endpoint)
               B == MarkedOf(h, endpoint)
    <2>1. A \in SUBSET (1..Len(h)) /\ B \in SUBSET (1..Len(h))
      BY <1>1, <1>2 DEF MarkedOf
    <2>2. ASSUME NEW n \in A, ~newest(n) PROVE n \in B
      BY <1>1, <1>2, <2>2 DEF MarkedOf
    <2>3. ASSUME NEW n \in A, newest(n) PROVE n = p /\ endpoint \in names
      BY <1>1, <1>2, <1>5, <1>6, <2>3 DEF MarkedOf
    <2>4. IsFiniteSet(B) /\ Cardinality(B) \in Nat
      BY <1>1, <2>1, SomeOfFirst
    <2> HIDE DEF A, B
    <2>5. CASE endpoint \in names
      <3>1. A \subseteq B \cup {p}
        BY <2>2, <2>3
      <3>2. Cardinality(A) <= Cardinality(B) + 1
        BY <1>7, <2>1, <3>1
      <3>3. QED
        BY <2>5, <3>2 DEF A, B, MarkedMore
    <2>6. CASE endpoint \notin names
      <3>1. A \in SUBSET B
        BY <2>2, <2>3, <2>6
      <3>2. Cardinality(A) <= Cardinality(B)
        BY <2>4, <3>1, FS_Subset
      <3>3. IsFiniteSet(A) /\ Cardinality(A) \in Nat
        BY <1>1, <2>1, SomeOfFirst
      <3>4. QED
        BY <2>4, <2>6, <3>2, <3>3 DEF A, B, MarkedMore
    <2>7. QED
      BY <2>5, <2>6
  <1>10. QED
    BY <1>3, <1>8, <1>9 DEF found, t

RecordedIn(endpoint) == {r \in Recorded : Monitor!InName(endpoint, r)}

\* The counters are those of the requests, and no more entries are marked than were recorded.
CountsInv ==
  /\ IsFiniteSet(Monitor!Started) /\ requests = Cardinality(Monitor!Started)
  /\ errors = Cardinality(Raised) + Cardinality(Recorded)
  /\ Cardinality(Marked(history)) <= Cardinality(Recorded)
  /\ \A endpoint \in Endpoints : Cardinality(MarkedOf(history, endpoint)) <= Cardinality(RecordedIn(endpoint))

MonitorInv == MonitorTypes /\ Monitor!ActiveShown /\ CountsInv

LEMMA CountsFinite ==
  ASSUME IsFiniteSet(Monitor!Started)
  PROVE  /\ IsFiniteSet(Raised) /\ Cardinality(Raised) \in Nat
         /\ IsFiniteSet(Recorded) /\ Cardinality(Recorded) \in Nat
         /\ \A endpoint : IsFiniteSet(RecordedIn(endpoint)) /\ Cardinality(RecordedIn(endpoint)) \in Nat
  <1>1. /\ Raised \in SUBSET Monitor!Started /\ Recorded \in SUBSET Monitor!Started
        /\ \A endpoint : RecordedIn(endpoint) \in SUBSET Monitor!Started
    BY DEF Raised, Recorded, RecordedIn
  <1>2. QED
    BY <1>1, FS_Subset, FS_CardinalityType

LEMMA MarkedNumbers ==
  ASSUME NEW h \in Seq(HistoryEntry)
  PROVE  Cardinality(Marked(h)) \in Nat /\ \A endpoint : Cardinality(MarkedOf(h, endpoint)) \in Nat
  <1>1. Len(h) \in Nat /\ Marked(h) \in SUBSET (1..Len(h)) /\ \A endpoint : MarkedOf(h, endpoint) \in SUBSET (1..Len(h))
    BY DEF Marked, MarkedOf
  <1>2. QED
    BY <1>1, SomeOfFirst

LEMMA MonitorInit == Monitor!Init => MonitorInv
  <1> SUFFICES ASSUME Monitor!Init PROVE MonitorInv
    OBVIOUS
  <1>1. /\ tick = 0 /\ tracked = [r \in Requests |-> Monitor!Idle]
        /\ active = {} /\ requests = 0 /\ errors = 0 /\ history = <<>> /\ times = <<>>
    BY DEF Monitor!Init
  <1>2. Monitor!Idle.status = "idle"
    BY DEF Monitor!Idle
  <1>3. Monitor!Started = {} /\ Monitor!Running = {}
    BY <1>1, <1>2 DEF Monitor!Started, Monitor!Running
  <1>4. Raised = {} /\ Recorded = {} /\ Marked(history) = {}
        /\ \A e : RecordedIn(e) = {} /\ MarkedOf(history, e) = {}
    BY <1>1, <1>3 DEF Raised, Recorded, RecordedIn, Marked, MarkedOf
  <1>5. MonitorTypes
    BY <1>1, <1>3, MonitorNumbers DEF MonitorTypes
  <1>6. Monitor!ActiveShown
    BY <1>1, <1>3 DEF Monitor!ActiveShown
  <1>7. CountsInv
    <2>1. IsFiniteSet({}) /\ Cardinality({}) = 0
      BY FS_EmptySet
    <2>2. IsFiniteSet(Monitor!Started) /\ requests = Cardinality(Monitor!Started)
      BY <1>1, <1>3, <2>1
    <2>3. errors = Cardinality(Raised) + Cardinality(Recorded)
      BY <1>1, <1>4, <2>1
    <2>4. Cardinality(Marked(history)) <= Cardinality(Recorded)
      BY <1>4, <2>1
    <2>5. ASSUME NEW e \in Endpoints PROVE Cardinality(MarkedOf(history, e)) <= Cardinality(RecordedIn(e))
      <3>1. MarkedOf(history, e) = {} /\ RecordedIn(e) = {}
        BY <1>4
      <3>2. QED
        BY <2>1, <3>1
    <2>6. QED
      BY <2>2, <2>3, <2>4, <2>5, Zenon DEF CountsInv
  <1>8. QED
    BY <1>5, <1>6, <1>7, Zenon DEF MonitorInv

\* What is shown, when the names of those that have begun stay as they are.
LEMMA ShownStays ==
  ASSUME Monitor!ActiveShown, NEW r \in Requests,
         Monitor!Started \subseteq Requests, Monitor!Running \subseteq Monitor!Started,
         \A q \in Monitor!Started : tracked'[q].of = tracked[q].of /\ tracked'[q].began = tracked[q].began,
         \/ /\ r \notin Monitor!Started
            /\ Monitor!Started' = Monitor!Started \cup {r}
            /\ Monitor!Running' = Monitor!Running \cup {r}
            /\ active' = active \cup {Monitor!Name(r)'}
         \/ /\ r \in Monitor!Running /\ Monitor!Started' = Monitor!Started
            /\ Monitor!Running' = Monitor!Running \ {r}
            /\ active' = active \ {Monitor!Name(r)}
         \/ UNCHANGED active /\ Monitor!Started' = Monitor!Started /\ Monitor!Running' = Monitor!Running
  PROVE  Monitor!ActiveShown'
  <1> DEFINE N == [q \in Requests |-> Monitor!Name(q)]
             M == [q \in Requests |-> Monitor!Name(q)']
             S == Monitor!Started
             U == Monitor!Running
             T == Monitor!Started'
             V == Monitor!Running'
  <1>1. \A q \in S : M[q] = N[q]
    BY DEF Monitor!Name
  <1>2. /\ active \subseteq {N[q] : q \in U}
        /\ (\E p, q \in S : p # q /\ N[p] = N[q]) \/ active = {N[q] : q \in U}
    <2>1. U \subseteq Requests /\ S \subseteq Requests
      OBVIOUS
    <2>2. {Monitor!Name(q) : q \in U} = {N[q] : q \in U}
      BY <2>1
    <2>3. Monitor!SameName => \E p, q \in S : p # q /\ N[p] = N[q]
      BY <2>1 DEF Monitor!SameName
    <2>4. QED
      BY <2>2, <2>3, Zenon DEF Monitor!ActiveShown
  <1>3. /\ {q \in Requests : q \in V} = V /\ T \subseteq Requests /\ V \subseteq Requests
    OBVIOUS
  <1>4. Monitor!SameName' <=> \E p, q \in T : p # q /\ M[p] = M[q]
    BY <1>3 DEF Monitor!SameName
  <1>5. {Monitor!Name(q)' : q \in V} = {M[q] : q \in V}
    BY <1>3
  <1>6. M[r] = Monitor!Name(r)' /\ N[r] = Monitor!Name(r)
    OBVIOUS
  <1>7. \/ r \notin S /\ T = S \cup {r} /\ V = U \cup {r} /\ active' = active \cup {M[r]}
        \/ r \in U /\ T = S /\ V = U \ {r} /\ active' = active \ {N[r]}
        \/ active' = active /\ T = S /\ V = U
    BY <1>6
  <1>8. U \subseteq S
    OBVIOUS
  <1>9. Monitor!ActiveShown' <=>
          /\ active' \subseteq {Monitor!Name(q)' : q \in V}
          /\ Monitor!SameName' \/ active' = {Monitor!Name(q)' : q \in V}
    BY Zenon DEF Monitor!ActiveShown
  <1> HIDE DEF N, M, S, U, T, V
  <1>10. active' \subseteq {M[q] : q \in V}
    <2>1. CASE T = S /\ V = U \ {r} /\ active' = active \ {N[r]}
      BY <1>1, <1>2, <1>8, <2>1
    <2>2. CASE T = S \cup {r} /\ V = U \cup {r} /\ active' = active \cup {M[r]}
      BY <1>1, <1>2, <1>8, <2>2
    <2>3. CASE active' = active /\ T = S /\ V = U
      BY <1>1, <1>2, <1>8, <2>3
    <2>4. QED
      BY <1>7, <2>1, <2>2, <2>3
  <1>11. ASSUME ~ \E p, q \in T : p # q /\ M[p] = M[q]
         PROVE  active' = {M[q] : q \in V}
    <2>1. ~ \E p, q \in S : p # q /\ N[p] = N[q]
      BY <1>1, <1>7, <1>11
    <2>2. active = {N[q] : q \in U}
      BY <1>2, <2>1
    <2>3. CASE r \in U /\ T = S /\ V = U \ {r} /\ active' = active \ {N[r]}
      <3>1. \A q \in V : M[q] = N[q] /\ N[q] # N[r]
        BY <1>1, <1>8, <2>1, <2>3
      <3>2. QED
        BY <2>2, <2>3, <3>1
    <2>4. CASE T = S \cup {r} /\ V = U \cup {r} /\ active' = active \cup {M[r]}
      BY <1>1, <1>8, <2>2, <2>4
    <2>5. CASE active' = active /\ T = S /\ V = U
      BY <1>1, <1>8, <2>2, <2>5
    <2>6. QED
      BY <1>7, <2>3, <2>4, <2>5
  <1>12. QED
    BY <1>4, <1>5, <1>9, <1>10, <1>11, Zenon

LEMMA InvParts ==
  ASSUME MonitorInv
  PROVE  /\ MonitorTypes /\ Monitor!ActiveShown
         /\ IsFiniteSet(Monitor!Started) /\ requests = Cardinality(Monitor!Started) /\ requests \in Nat
         /\ errors = Cardinality(Raised) + Cardinality(Recorded)
         /\ Cardinality(Marked(history)) <= Cardinality(Recorded)
         /\ \A e \in Endpoints : Cardinality(MarkedOf(history, e)) <= Cardinality(RecordedIn(e))
         /\ Monitor!Started \subseteq Requests /\ Monitor!Running \subseteq Monitor!Started
         /\ history \in Seq(HistoryEntry) /\ tick \in 0..MaxTick
  <1>1. MonitorTypes /\ Monitor!ActiveShown /\ CountsInv
    BY Zenon DEF MonitorInv
  <1>2. Monitor!Started \subseteq Requests /\ Monitor!Running \subseteq Monitor!Started
    BY <1>1, Trackings DEF Monitor!Started, Monitor!Running
  <1>3. requests \in Nat
    BY <1>1, FS_CardinalityType DEF CountsInv
  <1>4. QED
    BY <1>1, <1>2, <1>3, Zenon DEF CountsInv, MonitorTypes

\* What is recorded of an endpoint depends on the endpoints of those that have begun.
LEMMA RecordedStays ==
  ASSUME Recorded' = Recorded, \A q \in Recorded : tracked'[q].of = tracked[q].of, NEW e
  PROVE  RecordedIn(e)' = RecordedIn(e)
  BY DEF RecordedIn, Monitor!InName

LEMMA EnterKeeps ==
  ASSUME MonitorInv, NEW r \in Requests, NEW endpoint \in Endpoints, Monitor!Enter(r, endpoint)
  PROVE  MonitorInv'
  <1>1. /\ active' = active \cup {Monitor!Name(r)'} /\ requests' = requests + 1
        /\ tick' = tick /\ errors' = errors /\ history' = history /\ times' = times
    BY Zenon DEF Monitor!Enter
  <1>2. /\ r \notin Monitor!Started /\ r \notin Monitor!Running
        /\ tracked'[r].of = endpoint /\ tracked'[r].began = tick
        /\ \A q \in Requests : q # r => tracked'[q] = tracked[q]
        /\ tracked' \in [Requests -> {Monitor!Idle} \cup Tracking]
        /\ Monitor!Started' = Monitor!Started \cup {r}
        /\ Monitor!Running' = Monitor!Running \cup {r}
        /\ tracked'[r].raised = FALSE
        /\ Raised' = Raised /\ Recorded' = Recorded
    BY InvParts, EnterChanges, Zenon
  <1>3. /\ MonitorTypes /\ Monitor!ActiveShown
        /\ IsFiniteSet(Monitor!Started) /\ requests = Cardinality(Monitor!Started) /\ requests \in Nat
        /\ errors = Cardinality(Raised) + Cardinality(Recorded)
        /\ Cardinality(Marked(history)) <= Cardinality(Recorded)
        /\ \A e \in Endpoints : Cardinality(MarkedOf(history, e)) <= Cardinality(RecordedIn(e))
        /\ Monitor!Started \subseteq Requests /\ Monitor!Running \subseteq Monitor!Started
        /\ tick \in 0..MaxTick
    BY InvParts, Zenon
  <1>4. \A q \in Monitor!Started : tracked'[q] = tracked[q]
    BY <1>2, <1>3, Zenon
  <1>5. MonitorTypes'
    <2>1. \A q \in Monitor!Started' : tracked'[q].began <= tick'
      <3>1. \A q \in Monitor!Started : tracked[q].began <= tick
        BY <1>3, Zenon DEF MonitorTypes
      <3>2. tick \in Nat
        BY <1>3, MonitorNumbers
      <3>3. QED
        BY <1>1, <1>2, <1>4, <3>1, <3>2
    <2>2. \A q \in Monitor!Running' : tracked'[q].raised = FALSE
      <3>1. \A q \in Monitor!Running : tracked[q].raised = FALSE
        BY <1>3, Zenon DEF MonitorTypes
      <3>2. QED
        BY <1>2, <1>3, <1>4, <3>1, Zenon
    <2>3. QED
      BY <1>1, <1>2, <1>3, <2>1, <2>2, Zenon DEF MonitorTypes
  <1>6. Monitor!ActiveShown'
    BY <1>1, <1>2, <1>3, <1>4, ShownStays, Zenon
  <1>7. \A e : RecordedIn(e)' = RecordedIn(e)
    <2>1. \A q \in Recorded : tracked'[q].of = tracked[q].of
      BY <1>4, Zenon DEF Recorded
    <2>2. QED
      BY <1>2, <2>1, RecordedStays, Zenon
  <1>8. IsFiniteSet(Monitor!Started') /\ requests' = Cardinality(Monitor!Started')
    BY <1>1, <1>2, <1>3, FS_AddElement
  <1>9. CountsInv'
    BY <1>1, <1>2, <1>3, <1>7, <1>8, Zenon DEF CountsInv
  <1>10. QED
    BY <1>5, <1>6, <1>9, Zenon DEF MonitorInv

LEMMA LeaveKeeps ==
  ASSUME MonitorInv, NEW r \in Requests, NEW how, Monitor!Leave(r, how)
  PROVE  MonitorInv'
  <1> DEFINE x == [of |-> tracked[r].of, error |-> FALSE]
             d == tick - tracked[r].began
  <1>1. /\ active' = active \ {Monitor!Name(r)} /\ requests' = requests /\ tick' = tick
        /\ errors' = (IF how = "exception" THEN errors + 1 ELSE errors)
        /\ history' = Monitor!LastOf(Append(history, x), KeptRequests)
        /\ times' = Monitor!LastOf(Append(times, d), KeptTimes)
    BY Zenon DEF Monitor!Leave
  <1>2. /\ r \in Monitor!Running /\ r \in Monitor!Started /\ r \notin Raised
        /\ tracked' \in [Requests -> {Monitor!Idle} \cup Tracking]
        /\ \A q \in Requests : q # r => tracked'[q] = tracked[q]
        /\ tracked'[r].of = tracked[r].of /\ tracked'[r].began = tracked[r].began
        /\ Monitor!Started' = Monitor!Started
        /\ Monitor!Running' = Monitor!Running \ {r}
        /\ Raised' = (IF how = "exception" THEN Raised \cup {r} ELSE Raised)
        /\ Recorded' = Recorded
    BY InvParts, LeaveChanges, Zenon
  <1>3. /\ MonitorTypes /\ Monitor!ActiveShown
        /\ IsFiniteSet(Monitor!Started) /\ requests = Cardinality(Monitor!Started) /\ requests \in Nat
        /\ errors = Cardinality(Raised) + Cardinality(Recorded)
        /\ Cardinality(Marked(history)) <= Cardinality(Recorded)
        /\ \A e \in Endpoints : Cardinality(MarkedOf(history, e)) <= Cardinality(RecordedIn(e))
        /\ Monitor!Started \subseteq Requests /\ Monitor!Running \subseteq Monitor!Started
        /\ history \in Seq(HistoryEntry) /\ tick \in 0..MaxTick
    BY InvParts, Zenon
  <1>4. \A q \in Monitor!Started : tracked'[q].of = tracked[q].of /\ tracked'[q].began = tracked[q].began
    BY <1>2, <1>3, Zenon
  <1>5. tracked[r] \in Tracking /\ tracked[r].began <= tick /\ tracked[r].began \in 0..MaxTick
    <2>1. tracked[r] \in Tracking
      BY <1>2, <1>3, Trackings, Zenon
    <2>2. tracked[r].began <= tick
      BY <1>2, <1>3, Zenon DEF MonitorTypes
    <2>3. QED
      BY <2>1, <2>2 DEF Tracking
  <1>6. x \in HistoryEntry /\ x.error = FALSE /\ d \in 0..MaxTick
    BY <1>3, <1>5, MonitorNumbers DEF Tracking, HistoryEntry
  <1> HIDE DEF x, d
  <1>7. /\ history' \in Seq(HistoryEntry) /\ Len(history') <= KeptRequests
        /\ Cardinality(Marked(history')) <= Cardinality(Marked(history))
        /\ \A e : Cardinality(MarkedOf(history', e)) <= Cardinality(MarkedOf(history, e))
    BY <1>1, <1>3, <1>6, MonitorNumbers, MarkedLast, Zenon
  <1>8. times' \in Seq(0..MaxTick) /\ Len(times') <= KeptTimes
    <2>1. Append(times, d) \in Seq(0..MaxTick)
      BY <1>3, <1>6 DEF MonitorTypes
    <2>2. QED
      BY <1>1, <2>1, MonitorNumbers, LastOnes, Zenon
  <1>9. MonitorTypes'
    <2>1. \A q \in Monitor!Started' : tracked'[q].began <= tick'
      BY <1>1, <1>2, <1>3, <1>4, Zenon DEF MonitorTypes
    <2>2. \A q \in Monitor!Running' : tracked'[q].raised = FALSE
      <3>1. \A q \in Monitor!Running' : q # r /\ q \in Monitor!Running /\ q \in Requests
        BY <1>2, <1>3, Zenon
      <3>2. \A q \in Monitor!Running : tracked[q].raised = FALSE
        BY <1>3, Zenon DEF MonitorTypes
      <3>3. QED
        BY <1>2, <3>1, <3>2, Zenon
    <2>3. tick' \in 0..MaxTick
      BY <1>1, <1>3
    <2>4. QED
      BY <1>2, <1>7, <1>8, <2>1, <2>2, <2>3, Zenon DEF MonitorTypes
  <1>10. Monitor!ActiveShown'
    BY <1>1, <1>2, <1>3, <1>4, ShownStays, Zenon
  <1>11. \A e : RecordedIn(e)' = RecordedIn(e)
    <2>1. \A q \in Recorded : tracked'[q].of = tracked[q].of
      BY <1>4, Zenon DEF Recorded
    <2>2. QED
      BY <1>2, <2>1, RecordedStays, Zenon
  <1>12. errors' = Cardinality(Raised') + Cardinality(Recorded')
    <2>1. IsFiniteSet(Raised) /\ Cardinality(Raised) \in Nat /\ Cardinality(Recorded) \in Nat
      BY <1>3, CountsFinite, Zenon
    <2>2. Cardinality(Raised \cup {r}) = Cardinality(Raised) + 1
      BY <1>2, <2>1, FS_AddElement
    <2>3. CASE how = "exception"
      BY <1>1, <1>2, <1>3, <2>1, <2>2, <2>3
    <2>4. CASE how # "exception"
      BY <1>1, <1>2, <1>3, <2>4
    <2>5. QED
      BY <2>3, <2>4
  <1>13. Cardinality(Marked(history')) <= Cardinality(Recorded')
    <2>1. /\ Cardinality(Marked(history')) \in Nat /\ Cardinality(Marked(history)) \in Nat
          /\ Cardinality(Recorded) \in Nat
      BY <1>3, <1>7, MarkedNumbers, CountsFinite, Zenon
    <2>2. QED
      BY <1>2, <1>3, <1>7, <2>1
  <1>14. ASSUME NEW e \in Endpoints
         PROVE  Cardinality(MarkedOf(history', e)) <= Cardinality(RecordedIn(e)')
    <2>1. /\ Cardinality(MarkedOf(history', e)) \in Nat /\ Cardinality(MarkedOf(history, e)) \in Nat
          /\ Cardinality(RecordedIn(e)) \in Nat
      BY <1>3, <1>7, MarkedNumbers, CountsFinite, Zenon
    <2>2. RecordedIn(e)' = RecordedIn(e)
      BY <1>11
    <2>3. QED
      BY <1>3, <1>7, <2>1, <2>2
  <1>15. CountsInv'
    BY <1>1, <1>2, <1>3, <1>12, <1>13, <1>14, Zenon DEF CountsInv
  <1>16. QED
    BY <1>9, <1>10, <1>15, Zenon DEF MonitorInv

LEMMA RecordKeeps ==
  ASSUME MonitorInv, NEW r \in Requests, Monitor!RecordError(r)
  PROVE  MonitorInv'
  <1> DEFINE names == {Root, tracked[r].of}
  <1>1. /\ active' = active /\ requests' = requests /\ tick' = tick /\ times' = times
        /\ errors' = errors + 1
        /\ history' = MarkNewest(history, EntriesOf(history, names))
    BY Zenon DEF Monitor!RecordError, Monitor!InName, MarkNewest, EntriesOf
  <1>2. /\ r \in Monitor!Started /\ r \notin Recorded
        /\ tracked' \in [Requests -> {Monitor!Idle} \cup Tracking]
        /\ \A q \in Requests : q # r => tracked'[q] = tracked[q]
        /\ tracked'[r].of = tracked[r].of /\ tracked'[r].began = tracked[r].began
        /\ tracked'[r].raised = tracked[r].raised
        /\ Monitor!Started' = Monitor!Started
        /\ Monitor!Running' = Monitor!Running
        /\ Raised' = Raised
        /\ Recorded' = Recorded \cup {r}
    BY InvParts, RecordChanges, Zenon
  <1>3. /\ MonitorTypes /\ Monitor!ActiveShown
        /\ IsFiniteSet(Monitor!Started) /\ requests = Cardinality(Monitor!Started) /\ requests \in Nat
        /\ errors = Cardinality(Raised) + Cardinality(Recorded)
        /\ Cardinality(Marked(history)) <= Cardinality(Recorded)
        /\ \A e \in Endpoints : Cardinality(MarkedOf(history, e)) <= Cardinality(RecordedIn(e))
        /\ Monitor!Started \subseteq Requests /\ Monitor!Running \subseteq Monitor!Started
        /\ history \in Seq(HistoryEntry) /\ tick \in 0..MaxTick
    BY InvParts, Zenon
  <1>4. \A q \in Monitor!Started :
          tracked'[q].of = tracked[q].of /\ tracked'[q].began = tracked[q].began
            /\ tracked'[q].raised = tracked[q].raised
    BY <1>2, <1>3, Zenon
  <1>5. /\ history' \in Seq(HistoryEntry) /\ Len(history') = Len(history)
        /\ Cardinality(Marked(history')) <= Cardinality(Marked(history)) + 1
        /\ \A e : MarkedMore(history', history, e, names)
    <2> HIDE DEF names
    <2>1. QED
      BY <1>1, <1>3, NewestMarked, Zenon
  <1>6. MonitorTypes'
    <2>1. \A q \in Monitor!Started' : tracked'[q].began <= tick'
      BY <1>1, <1>2, <1>3, <1>4, Zenon DEF MonitorTypes
    <2>2. \A q \in Monitor!Running' : tracked'[q].raised = FALSE
      BY <1>2, <1>3, <1>4, Zenon DEF MonitorTypes
    <2>3. /\ history' \in Seq(HistoryEntry) /\ Len(history') <= KeptRequests
          /\ tick' \in 0..MaxTick /\ times' \in Seq(0..MaxTick) /\ Len(times') <= KeptTimes
      <3>1. Len(history) <= KeptRequests /\ times \in Seq(0..MaxTick) /\ Len(times) <= KeptTimes
        BY <1>3, Zenon DEF MonitorTypes
      <3>2. QED
        BY <1>1, <1>3, <1>5, <3>1, Zenon
    <2>4. QED
      BY <1>2, <2>1, <2>2, <2>3, Zenon DEF MonitorTypes
  <1>7. Monitor!ActiveShown'
    BY <1>1, <1>2, <1>3, <1>4, ShownStays, Zenon
  <1>8. /\ Cardinality(Raised) \in Nat /\ IsFiniteSet(Recorded) /\ Cardinality(Recorded) \in Nat
        /\ Cardinality(Recorded') = Cardinality(Recorded) + 1
    <2>1. Cardinality(Raised) \in Nat /\ IsFiniteSet(Recorded) /\ Cardinality(Recorded) \in Nat
      BY <1>3, CountsFinite, Zenon
    <2>2. QED
      BY <1>2, <2>1, FS_AddElement
  <1>9. errors' = Cardinality(Raised') + Cardinality(Recorded')
    BY <1>1, <1>2, <1>3, <1>8
  <1>10. Cardinality(Marked(history')) <= Cardinality(Recorded')
    <2>1. Cardinality(Marked(history')) \in Nat /\ Cardinality(Marked(history)) \in Nat
      BY <1>3, <1>5, MarkedNumbers, Zenon
    <2>2. QED
      BY <1>3, <1>5, <1>8, <2>1
  <1>11. ASSUME NEW e \in Endpoints
         PROVE  Cardinality(MarkedOf(history', e)) <= Cardinality(RecordedIn(e)')
    <2>1. /\ Cardinality(MarkedOf(history', e)) \in Nat /\ Cardinality(MarkedOf(history, e)) \in Nat
          /\ IsFiniteSet(RecordedIn(e)) /\ Cardinality(RecordedIn(e)) \in Nat
      BY <1>3, <1>5, MarkedNumbers, CountsFinite, Zenon
    <2>2. RecordedIn(e)' = IF e \in names THEN RecordedIn(e) \cup {r} ELSE RecordedIn(e)
      <3>1. Recorded \subseteq Monitor!Started
        BY DEF Recorded
      <3>2. \A q \in Recorded : tracked'[q].of = tracked[q].of
        BY <1>4, <3>1, Zenon
      <3>3. QED
        BY <1>2, <3>2 DEF RecordedIn, Monitor!InName
    <2>3. r \notin RecordedIn(e)
      BY <1>2 DEF RecordedIn
    <2>4. Cardinality(RecordedIn(e) \cup {r}) = Cardinality(RecordedIn(e)) + 1
      BY <2>1, <2>3, FS_AddElement
    <2>5. Cardinality(MarkedOf(history, e)) <= Cardinality(RecordedIn(e))
      BY <1>3
    <2>6. MarkedMore(history', history, e, names)
      BY <1>5, Zenon
    <2> HIDE DEF names
    <2>7. CASE e \in names
      BY <2>1, <2>2, <2>4, <2>5, <2>6, <2>7 DEF MarkedMore
    <2>8. CASE e \notin names
      BY <2>1, <2>2, <2>5, <2>6, <2>8 DEF MarkedMore
    <2>9. QED
      BY <2>7, <2>8
  <1>12. IsFiniteSet(Monitor!Started') /\ requests' = Cardinality(Monitor!Started')
    BY <1>1, <1>2, <1>3, Zenon
  <1>13. CountsInv'
    BY <1>9, <1>10, <1>11, <1>12, Zenon DEF CountsInv
  <1>14. QED
    BY <1>6, <1>7, <1>13, Zenon DEF MonitorInv

\* What the monitor keeps, whichever requests overlap, fail and are recorded.
THEOREM MonitorInvariant == ServicesSpec => []MonitorInv
  <1>1. ServicesInit => MonitorInv
    BY MonitorInit, Zenon DEF ServicesInit
  <1>2. MonitorInv /\ [ServicesNext]_ServicesVars => MonitorInv'
    <2> SUFFICES ASSUME MonitorInv, [ServicesNext]_ServicesVars PROVE MonitorInv'
      OBVIOUS
    <2>1. CASE Monitor!Tick
      <3>1. /\ tick < MaxTick /\ tick' = tick + 1
            /\ UNCHANGED <<tracked, active, requests, errors, history, times>>
        BY <2>1, Zenon DEF Monitor!Tick
      <3>2. MonitorTypes /\ Monitor!ActiveShown /\ CountsInv
        BY Zenon DEF MonitorInv
      <3>3. Monitor!Started' = Monitor!Started /\ Monitor!Running' = Monitor!Running
        BY <3>1, Zenon DEF Monitor!Started, Monitor!Running
      <3>4. MonitorTypes'
        <4>1. /\ history' \in Seq(HistoryEntry) /\ Len(history') <= KeptRequests
              /\ times' \in Seq(0..MaxTick) /\ Len(times') <= KeptTimes
              /\ tracked' \in [Requests -> {Monitor!Idle} \cup Tracking]
              /\ \A r \in Monitor!Running' : tracked'[r].raised = FALSE
          BY <3>1, <3>2, <3>3, Zenon DEF MonitorTypes
        <4>2. tick \in 0..MaxTick /\ tick' \in 0..MaxTick
          BY <3>1, <3>2, MonitorNumbers DEF MonitorTypes
        <4>3. ASSUME NEW r \in Monitor!Started' PROVE tracked'[r].began <= tick'
          <5>1. /\ r \in Monitor!Started /\ tracked'[r] = tracked[r] /\ tracked[r].began <= tick
                /\ r \in Requests
            BY <3>1, <3>2, <3>3, Zenon DEF MonitorTypes, Monitor!Started
          <5>2. tracked[r] \in Tracking
            BY <3>2, <5>1, Trackings, Zenon
          <5>3. tracked[r].began \in Nat
            BY <5>2 DEF Tracking
          <5>4. QED
            BY <3>1, <4>2, <5>1, <5>3
        <4>4. QED
          BY <4>1, <4>2, <4>3, Zenon DEF MonitorTypes
      <3>5. Monitor!ActiveShown'
        BY <3>1, <3>2, <3>3, Zenon DEF Monitor!ActiveShown, Monitor!SameName, Monitor!Name
      <3>6. CountsInv'
        <4>1. Raised' = Raised /\ Recorded' = Recorded /\ \A e : RecordedIn(e)' = RecordedIn(e)
          BY <3>1, <3>3, Zenon DEF Raised, Recorded, RecordedIn, Monitor!InName
        <4>2. QED
          BY <3>1, <3>2, <3>3, <4>1, Zenon DEF CountsInv
      <3>7. QED
        BY <3>4, <3>5, <3>6, Zenon DEF MonitorInv
    <2>2. CASE UNCHANGED MonitorVars
      <3>1. UNCHANGED <<tick, tracked, active, requests, errors, history, times>>
        BY <2>2, Zenon DEF MonitorVars
      <3>2. Monitor!Started' = Monitor!Started /\ Monitor!Running' = Monitor!Running
        BY <3>1, Zenon DEF Monitor!Started, Monitor!Running
      <3>3. Raised' = Raised /\ Recorded' = Recorded /\ \A e : RecordedIn(e)' = RecordedIn(e)
        BY <3>1, <3>2, Zenon DEF Raised, Recorded, RecordedIn, Monitor!InName
      <3>4. MonitorTypes => MonitorTypes'
        BY <3>1, <3>2, Zenon DEF MonitorTypes
      <3>5. Monitor!ActiveShown => Monitor!ActiveShown'
        BY <3>1, <3>2, Zenon DEF Monitor!ActiveShown, Monitor!SameName, Monitor!Name
      <3>6. CountsInv => CountsInv'
        BY <3>1, <3>2, <3>3, Zenon DEF CountsInv
      <3>7. QED
        BY <3>4, <3>5, <3>6, Zenon DEF MonitorInv
    <2>3. CASE Monitor!Next
      BY <2>1, <2>3, EnterKeeps, LeaveKeeps, RecordKeeps, Zenon DEF Monitor!Next
    <2>4. QED
      BY <2>2, <2>3, OnePartMoves, Zenon
  <1>3. QED
    BY <1>1, <1>2, PTL DEF ServicesSpec

\* The sets that the properties count are those above.
LEMMA MonitorSame ==
  ASSUME MonitorInv
  PROVE  /\ \A X : Monitor!Cardinality(X) = Cardinality(X)
         /\ {r \in Monitor!Started : tracked[r].raised} = Raised
         /\ {r \in Monitor!Started : tracked[r].recorded} = Recorded
         /\ {n \in DOMAIN history : history[n].error} = Marked(history)
         /\ \A e : {n \in DOMAIN history : history[n].of = e /\ history[n].error} = MarkedOf(history, e)
  <1>1. \A X : Monitor!Cardinality(X) = Cardinality(X)
    BY Zenon DEF Monitor!Cardinality, Cardinality
  <1>2. \A r \in Monitor!Started : tracked[r].raised \in BOOLEAN /\ tracked[r].recorded \in BOOLEAN
    <2>1. \A r \in Monitor!Started : tracked[r] \in Tracking
      BY Trackings, Zenon DEF MonitorInv, Monitor!Started
    <2>2. QED
      BY <2>1 DEF Tracking
  <1>3. \A n \in DOMAIN history : history[n].error \in BOOLEAN
    <2>1. history \in Seq(HistoryEntry)
      BY Zenon DEF MonitorInv, MonitorTypes
    <2>2. \A n \in DOMAIN history : history[n] \in HistoryEntry
      BY <2>1
    <2>3. QED
      BY <2>2 DEF HistoryEntry
  <1>4. {r \in Monitor!Started : tracked[r].raised} = Raised
    BY <1>2, Zenon DEF Raised
  <1>5. {r \in Monitor!Started : tracked[r].recorded} = Recorded
    BY <1>2, Zenon DEF Recorded
  <1>6. {n \in DOMAIN history : history[n].error} = Marked(history)
    BY <1>3, Zenon DEF Marked
  <1>7. \A e : {n \in DOMAIN history : history[n].of = e /\ history[n].error} = MarkedOf(history, e)
    BY <1>3, Zenon DEF MarkedOf
  <1>8. QED
    BY <1>1, <1>4, <1>5, <1>6, <1>7, Zenon

\* No more names are shown than requests run.
LEMMA ShownAreFew ==
  ASSUME MonitorInv
  PROVE  Cardinality(active) <= Cardinality(Monitor!Running)
  <1> DEFINE f == [r \in Monitor!Running |-> Monitor!Name(r)]
             N == {Monitor!Name(r) : r \in Monitor!Running}
  <1>1. IsFiniteSet(Monitor!Running)
    <2>1. IsFiniteSet(Monitor!Started) /\ Monitor!Running \in SUBSET Monitor!Started
      BY InvParts, Zenon
    <2>2. QED
      BY <2>1, FS_Subset
  <1>2. f \in [Monitor!Running -> N] /\ \A t \in N : \E r \in Monitor!Running : f[r] = t
    OBVIOUS
  <1>3. active \in SUBSET N
    BY Zenon DEF MonitorInv, Monitor!ActiveShown
  <1> HIDE DEF f, N
  <1>4. IsFiniteSet(N) /\ Cardinality(N) <= Cardinality(Monitor!Running)
    BY <1>1, <1>2, ImageOf
  <1>5. IsFiniteSet(active) /\ Cardinality(active) <= Cardinality(N)
    BY <1>3, <1>4, FS_Subset
  <1>6. Cardinality(active) \in Nat /\ Cardinality(N) \in Nat /\ Cardinality(Monitor!Running) \in Nat
    BY <1>1, <1>4, <1>5, FS_CardinalityType
  <1>7. QED
    BY <1>4, <1>5, <1>6

LEMMA MonitorCounts == MonitorInv => Monitor!CountsAgree
  <1> SUFFICES ASSUME MonitorInv PROVE Monitor!CountsAgree
    OBVIOUS
  <1>1. /\ IsFiniteSet(Monitor!Started) /\ requests = Cardinality(Monitor!Started)
        /\ errors = Cardinality(Raised) + Cardinality(Recorded)
        /\ Cardinality(Marked(history)) <= Cardinality(Recorded)
        /\ \A e \in Endpoints : Cardinality(MarkedOf(history, e)) <= Cardinality(RecordedIn(e))
    BY InvParts, Zenon
  <1>2. /\ Monitor!Sample.requests = requests /\ Monitor!Sample.errors = errors
        /\ Monitor!Sample.active = Monitor!Cardinality(active)
    BY DEF Monitor!Sample
  <1>3. \A e : Monitor!EndpointErrors(e) = Cardinality(MarkedOf(history, e))
    BY MonitorSame, Zenon DEF Monitor!EndpointErrors
  <1>4. QED
    BY <1>1, <1>2, <1>3, MonitorSame, ShownAreFew, Zenon DEF Monitor!CountsAgree, RecordedIn

\* PerformanceMonitor: the requests shown as active are those that run, and the counters and
\* marks are those of the requests.  BackgroundTasks: each service knows its own loop, and
\* the statistics of the cleanup are what it did.  For any number of requests, endpoints,
\* tasks and workspaces.
THEOREM FiguresAreSound == ServicesSpec => []MonitorSound
  <1>1. MonitorInv => Monitor!ActiveShown
    BY Zenon DEF MonitorInv
  <1>2. MonitorInv /\ TasksInv /\ SpacesInv => MonitorSound
    BY <1>1, MonitorCounts, TasksAreSound, Zenon DEF MonitorSound
  <1>3. QED
    BY <1>2, MonitorInvariant, TaskInvariant, PTL

---------------------------------------------------------------------------
(* The types of all the parts.                                             *)

LEMMA SwitchTyped == SwitchInv => Switch!TypeOK
  <1>1. \A X : Switch!Cardinality(X) = Cardinality(X)
    BY Zenon DEF Switch!Cardinality, Cardinality
  <1>2. QED
    BY <1>1, Zenon DEF SwitchInv, Switch!TypeOK, Switchings, Switched

LEMMA MonitorTyped == MonitorInv => Monitor!TypeOK
  BY Zenon DEF MonitorInv, MonitorTypes, HistoryEntry, Monitor!TypeOK

LEMMA PoolTyped == ServicesSpec => []Pool!TypeOK
  <1>1. PoolProved!TypeOK => Pool!TypeOK
    BY Zenon DEF PoolProved!TypeOK, Pool!TypeOK, PoolProved!Connections, Pool!Connections
  <1>2. QED
    BY <1>1, PoolConstants, PoolsAreSteps, PoolProved!PoolTypes, PTL

\* Every variable of the service layer has a value of its type, whatever the other parts do.
THEOREM TypesAreKept == ServicesSpec => []ServicesTypeOK
  <1>1. /\ AnswerTypesOK /\ SwitchInv /\ TasksInv /\ SpacesInv /\ TopicInv /\ MonitorInv /\ Pool!TypeOK
        => ServicesTypeOK
    BY SwitchTyped, MonitorTyped, TasksAreSound, Zenon DEF AnswerTypesOK, TopicInv, ServicesTypeOK
  <1>2. QED
    BY <1>1, AnswersTyped, SwitchInvariant, TaskInvariant, TopicInvariant, MonitorInvariant,
       PoolTyped, PTL

---------------------------------------------------------------------------
(* The answers together.                                                   *)

\* What is computed from the tables of a graph, from large results and from the times of
\* requests says what it promises, whatever tables and results there are and whatever the
\* parts do.
THEOREM AnalysesAreConsistent == ServicesSpec => []AnalysesConsistent
  <1>1. ASSUME ServicesTypeOK PROVE AnalysesConsistent
    <2>1. ASSUME part = "graph"
          PROVE  /\ Graph!DrawingsClosed /\ Graph!GroupsPartition /\ Graph!StatisticsFair
                 /\ Graph!ExportsTold /\ Graph!QueriesTold /\ Graph!AnomaliesRare
      <3>1. Graph!TypeOK
        BY <1>1, <2>1, Zenon DEF ServicesTypeOK
      <3>2. QED
        BY <3>1, DrawingsHold, GroupsHold, StatisticsHold, ExportsHold, QueriesHold, AnomaliesHold, Zenon
    <2>2. part = "large" => Large!ResultsWhole
      BY <1>1, ResultsAreWhole, Zenon DEF ServicesTypeOK
    <2>3. part = "monitor" => Monitor!PercentilesRight
      BY <1>1, PercentilesHold, Zenon DEF ServicesTypeOK
    <2>4. QED
      BY <2>1, <2>2, <2>3, Zenon DEF AnalysesConsistent
  <1>2. ServicesTypeOK => AnalysesConsistent
    BY <1>1, Zenon
  <1>3. QED
    BY <1>2, TypesAreKept, PTL

=============================================================================
