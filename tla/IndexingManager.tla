-------------------------- MODULE IndexingManager --------------------------
(***************************************************************************)
(* The indexing manager: a queue of jobs held in memory and mirrored in    *)
(* one JSON index, a background queue processor that starts at most        *)
(* MaxConcurrentJobs asyncio tasks, the tasks themselves, the client       *)
(* operations (create, cancel, retry), and what shutdown, a crash, a       *)
(* failed save and a restart leave behind.                                 *)
(*                                                                         *)
(* Everything runs on one event loop, so code between two awaits is one    *)
(* action.  A client handler never awaits.  One iteration of the queue     *)
(* processor does not suspend before its wait_for(shutdown, 5 s), so it is *)
(* one action too (Tick).  A task runs from its first step to the first    *)
(* sleep of the initialization stage (TaskBegin), then sleeps in the       *)
(* stages until its last step (TaskEnd).                                   *)
(***************************************************************************)
EXTENDS Naturals, FiniteSets

CONSTANTS
  MaxJobs,            \* bound: jobs ever created; job ids are 1..MaxJobs
  Workspaces,         \* workspace ids
  NoWorkspace,        \* the workspace field of a job that is not in _jobs
  Priorities,         \* priorities clients ask for (1 = highest)
  RetryRequests,      \* max_retries values clients ask for; 0 also stands for null
  DefaultRetries,     \* the 3 of `request.max_retries or 3`
  MaxConcurrentJobs,  \* max_concurrent_jobs
  MaxFaults           \* bound: failed or torn writes of the index

ASSUME IndexingAssumption ==
  /\ MaxJobs \in Nat
  /\ NoWorkspace \notin Workspaces
  /\ Priorities \subseteq Nat
  /\ RetryRequests \subseteq Nat
  /\ DefaultRetries \in Nat
  /\ MaxConcurrentJobs \in Nat \ {0}
  /\ MaxFaults \in Nat

VARIABLES
  jobs,     \* _jobs: the record of every job id, NoJob when it is not a key
  task,     \* _active_tasks: "none", or the state of the asyncio task
  running,  \* _running_jobs: the jobs that occupy a slot
  proc,     \* _queue_processor_task: "none", "alive" or "dead"
  phase,    \* the process: "down", "up", "stopping", "draining" or "stopped"
  disk,     \* the jobs that loading jobs.json would yield
  unsaved,  \* history: the last write of the index failed or was cut short
  nextId,   \* the id of the next job (ids are fresh uuids)
  faults    \* writes that failed so far

vars == <<jobs, task, running, proc, phase, disk, unsaved, nextId, faults>>

Jobs == 1..MaxJobs

---------------------------------------------------------------------------
(* Job records: IndexingJob and its transition methods.  doneAt abstracts  *)
(* completed_at: unset, within job_cleanup_hours, or older.                *)

Status == {"absent", "queued", "running", "completed", "failed", "cancelled"}

JobRecord == [status     : Status,
              ws         : Workspaces \cup {NoWorkspace},
              prio       : Nat,
              retries    : Nat,
              maxRetries : Nat,
              doneAt     : {"unset", "recent", "old"}]

NoJob == [status |-> "absent", ws |-> NoWorkspace, prio |-> 0, retries |-> 0,
          maxRetries |-> 0, doneAt |-> "unset"]

NoJobs == [j \in Jobs |-> NoJob]

StartJob(job)    == [job EXCEPT !.status = "running"]
CompleteJob(job) == [job EXCEPT !.status = "completed", !.doneAt = "recent"]
\* Mutant: the workspace enumeration's ERROR instead of FAILED.
FailJobAsError(job) == [job EXCEPT !.status = "error", !.doneAt = "recent"]
FailJob(job)     == [job EXCEPT !.status = "failed", !.doneAt = "recent"]
CancelJob(job)   == [job EXCEPT !.status = "cancelled", !.doneAt = "recent"]

\* Mutant: only the count is checked, so a running job can be retried too.
CanRetryAny(job) == job.retries < job.maxRetries

CanRetry(job) == job.status = "failed" /\ job.retries < job.maxRetries

\* Mutant: the attempt is not counted.
IncrementRetryUncounted(job) == [job EXCEPT !.status = "queued", !.doneAt = "unset"]

IncrementRetry(job) ==
  [job EXCEPT !.retries = @ + 1, !.status = "queued", !.doneAt = "unset"]

IsActive(job)   == job.status \in {"queued", "running"}
IsFinished(job) == job.status \in {"completed", "failed", "cancelled"}

\* `request.max_retries or 3`: an explicit zero is falsy too.
EffectiveRetries(r) == IF r = 0 THEN DefaultRetries ELSE r

NewJob(w, p, r) ==
  [status |-> "queued", ws |-> w, prio |-> p, retries |-> 0,
   maxRetries |-> EffectiveRetries(r), doneAt |-> "unset"]

\* What loading makes of a stored record: a running job goes back to the queue.
Reload(job) == IF job.status = "running" THEN [job EXCEPT !.status = "queued"] ELSE job

Loaded(d) == [j \in Jobs |-> Reload(d[j])]

---------------------------------------------------------------------------
(* The index file.  _save_jobs_index truncates the file and then writes it *)
(* so a failed write leaves either the old file (open failed) or a file    *)
(* that does not parse, which loads as no jobs at all.                     *)

SaveOK(js) == disk' = js /\ unsaved' = FALSE /\ UNCHANGED faults

SaveFails ==
  /\ faults < MaxFaults
  /\ faults' = faults + 1
  /\ disk' \in {disk, NoJobs}
  /\ unsaved' = TRUE

Save(js) == SaveOK(js) \/ SaveFails

---------------------------------------------------------------------------
(* Client operations.                                                      *)

ActiveIn(w) == {j \in Jobs : jobs[j].ws = w /\ IsActive(jobs[j])}

\* create_indexing_job for a workspace that is ready for indexing; if the save
\* fails the client gets an error but the job stays in memory.
Create(w, p, r) ==
  /\ phase = "up"
  /\ nextId \in Jobs
  /\ ActiveIn(w) = {}
  /\ jobs' = [jobs EXCEPT ![nextId] = NewJob(w, p, r)]
  /\ nextId' = nextId + 1
  /\ Save(jobs')
  /\ UNCHANGED <<task, running, proc, phase>>

\* Mutant: the task of a running job is not cancelled.
CancelOnlyMarks(j) ==
  /\ phase = "up"
  /\ jobs[j].status # "absent"
  /\ jobs' = [jobs EXCEPT ![j] = CancelJob(@)]
  /\ Save(jobs')
  /\ UNCHANGED <<task, running, proc, phase, nextId>>

\* cancel_job: only a job that is already "running" has its task cancelled.
Cancel(j) ==
  /\ phase = "up"
  /\ jobs[j].status # "absent"
  /\ IF jobs[j].status = "running"
       THEN /\ task' = [task EXCEPT ![j] = IF @ = "running" THEN "cancelling" ELSE @]
            /\ running' = running \ {j}
       ELSE UNCHANGED <<task, running>>
  /\ jobs' = [jobs EXCEPT ![j] = CancelJob(@)]
  /\ Save(jobs')
  /\ UNCHANGED <<proc, phase, nextId>>

\* Mutant: the index is not saved.
RetryUnsaved(j) ==
  /\ phase = "up"
  /\ CanRetry(jobs[j])
  /\ jobs' = [jobs EXCEPT ![j] = IncrementRetry(@)]
  /\ UNCHANGED <<task, running, proc, phase, disk, unsaved, nextId, faults>>

\* retry_job
Retry(j) ==
  /\ phase = "up"
  /\ CanRetry(jobs[j])
  /\ jobs' = [jobs EXCEPT ![j] = IncrementRetry(@)]
  /\ Save(jobs')
  /\ UNCHANGED <<task, running, proc, phase, nextId>>

---------------------------------------------------------------------------
(* The queue processor.                                                    *)

\* The sort key (priority, created_at): ids grow with the time of creation.
Before(i, j) ==
  \/ jobs[i].prio < jobs[j].prio
  \/ jobs[i].prio = jobs[j].prio /\ i < j

\* Mutant: is_finished is not checked.
ExpiredUnfinished == {j \in Jobs : jobs[j].doneAt = "old"}

Expired == {j \in Jobs : IsFinished(jobs[j]) /\ jobs[j].doneAt = "old"}

Queued == {j \in Jobs : jobs[j].status = "queued"}

\* Mutant: > for >= in the test of the limit.
FreeSlotsOffByOne ==
  IF Cardinality(running) > MaxConcurrentJobs
    THEN 0 ELSE MaxConcurrentJobs + 1 - Cardinality(running)

FreeSlots ==
  IF Cardinality(running) >= MaxConcurrentJobs
    THEN 0 ELSE MaxConcurrentJobs - Cardinality(running)

\* Mutant: the last free slot is never given away.
StartableButLast(S) ==
  /\ S \subseteq Queued
  /\ Cardinality(S) < FreeSlots \/ S = {}
  /\ Cardinality(S) + 1 >= FreeSlots \/ S = Queued
  /\ \A i \in S, j \in Queued \ S : Before(i, j)

\* _process_queued_jobs starts S: the first queued jobs in sort order, one per free slot.
Startable(S) ==
  /\ S \subseteq Queued
  /\ Cardinality(S) <= FreeSlots
  /\ Cardinality(S) = FreeSlots \/ S = Queued
  /\ \A i \in S, j \in Queued \ S : Before(i, j)

\* _cleanup_completed_tasks, and the handles of the tasks just created.
TasksAfter(S) ==
  [j \in Jobs |-> IF j \in S THEN "created"
                  ELSE IF task[j] = "done" THEN "none" ELSE task[j]]

WithoutExpired == [j \in Jobs |-> IF j \in Expired THEN NoJob ELSE jobs[j]]

NoTaskIsFresh == \A j \in Jobs : task[j] # "created"

\* One iteration of _process_queue.  The tasks created by the previous iteration
\* were scheduled before its timer fires, so they have taken their first step.
\* Starting a job fails no job (manager.py:376-378): what it may raise is the
\* validation of the mock workspace's name, "workspace-" and the UUID every workspace
\* store draws as its id, 46 of at most 50 characters and all of them allowed.
Tick ==
  /\ phase = "up" /\ proc = "alive"
  /\ NoTaskIsFresh
  /\ jobs' = WithoutExpired
  /\ IF Expired = {} THEN UNCHANGED <<disk, unsaved, faults>> ELSE SaveOK(jobs')
  /\ \E S \in SUBSET Queued :
       /\ Startable(S)
       /\ task' = TasksAfter(S)
       /\ running' = running \cup S
  /\ UNCHANGED <<proc, phase, nextId>>

\* A save that fails in _cleanup_old_jobs escapes the while loop: the processor ends.
TickDies ==
  /\ phase = "up" /\ proc = "alive"
  /\ NoTaskIsFresh
  /\ Expired # {}
  /\ jobs' = WithoutExpired
  /\ SaveFails
  /\ proc' = "dead"
  /\ UNCHANGED <<task, running, phase, nextId>>

---------------------------------------------------------------------------
(* The tasks: _execute_job around IndexingTask.execute_indexing.           *)

\* Mutant: the slot is not released.
FinishKeepsSlot(j, job) ==
  /\ jobs' = [jobs EXCEPT ![j] = job]
  /\ task' = [task EXCEPT ![j] = "done"]
  /\ Save(jobs')
  /\ UNCHANGED <<running, proc, phase, nextId>>

\* The end of _execute_job: the outcome is recorded, the slot is released, and
\* the index is saved (a failing save only fails the task that is ending).
Finish(j, job) ==
  /\ jobs' = [jobs EXCEPT ![j] = job]
  /\ task' = [task EXCEPT ![j] = "done"]
  /\ running' = running \ {j}
  /\ Save(jobs')
  /\ UNCHANGED <<proc, phase, nextId>>

\* First step: start_job, then the initialization stage up to its sleep ...
TaskBegin(j) ==
  /\ task[j] = "created"
  /\ jobs' = [jobs EXCEPT ![j] = StartJob(@)]
  /\ task' = [task EXCEPT ![j] = "running"]
  /\ UNCHANGED <<running, proc, phase, disk, unsaved, nextId, faults>>

\* ... or its failure, when the workspace directory or settings.yaml is missing.
TaskRejected(j) == task[j] = "created" /\ Finish(j, FailJob(jobs[j]))

\* Last step: finalization writes its summary and the job completes, or it raises.
TaskEnd(j) ==
  /\ task[j] = "running"
  /\ \E job \in {CompleteJob(jobs[j]), FailJob(jobs[j])} : Finish(j, job)

\* CancelledError is delivered at the await in which the task is suspended.
TaskCancelled(j) == task[j] = "cancelling" /\ Finish(j, CancelJob(jobs[j]))

---------------------------------------------------------------------------
(* Lifecycle.                                                              *)

\* __init__: load the index; start is a separate call of the container.
Boot ==
  /\ phase = "down"
  /\ phase' = "up"
  /\ jobs' = Loaded(disk)
  /\ unsaved' = FALSE
  /\ UNCHANGED <<task, running, proc, disk, nextId, faults>>

Start ==
  /\ phase = "up" /\ proc = "none"
  /\ proc' = "alive"
  /\ UNCHANGED <<jobs, task, running, phase, disk, unsaved, nextId, faults>>

\* stop, up to the await of the cancelled queue processor: requests are over by then.
StopBegin ==
  /\ phase = "up"
  /\ phase' = "stopping"
  /\ proc' = IF proc = "none" THEN "none" ELSE "dead"
  /\ UNCHANGED <<jobs, task, running, disk, unsaved, nextId, faults>>

Live(j) == task[j] \in {"created", "running", "cancelling"}

\* stop, from there to gather: every live task is cancelled and its job marked.
\* The processor's last tasks have taken their first step before it is awaited.
StopTasks ==
  /\ phase = "stopping"
  /\ NoTaskIsFresh
  /\ phase' = "draining"
  /\ jobs' = [j \in Jobs |-> IF Live(j) /\ jobs[j].status # "absent"
                               THEN CancelJob(jobs[j]) ELSE jobs[j]]
  /\ task' = [j \in Jobs |-> IF Live(j) THEN "cancelling" ELSE task[j]]
  /\ UNCHANGED <<running, proc, disk, unsaved, nextId, faults>>

\* Mutant: stop waits until the processor has swept every task handle.
StopFinishAfterSweep ==
  /\ phase = "draining"
  /\ \A j \in Jobs : task[j] = "none"
  /\ phase' = "stopped"
  /\ running' = {}
  /\ Save(jobs)
  /\ UNCHANGED <<jobs, task, proc, nextId>>

\* stop, after gather.
StopFinish ==
  /\ phase = "draining"
  /\ \A j \in Jobs : ~Live(j)
  /\ phase' = "stopped"
  /\ task' = [j \in Jobs |-> "none"]
  /\ running' = {}
  /\ Save(jobs)
  /\ UNCHANGED <<jobs, proc, nextId>>

Forget ==
  /\ phase' = "down"
  /\ jobs' = NoJobs
  /\ task' = [j \in Jobs |-> "none"]
  /\ running' = {}
  /\ proc' = "none"
  /\ UNCHANGED nextId

\* The process ends, or is killed: only the file survives.
Crash == phase # "down" /\ Forget /\ UNCHANGED <<disk, unsaved, faults>>

\* It is killed between the truncation and the end of a write: cancel_job
\* saves for any job that exists, so a save may be under way.
CrashInSave ==
  /\ phase \in {"up", "draining"}
  /\ jobs # NoJobs
  /\ Forget
  /\ faults < MaxFaults
  /\ faults' = faults + 1
  /\ unsaved' = TRUE
  /\ disk' = NoJobs

Older(job) == IF job.doneAt = "recent" THEN [job EXCEPT !.doneAt = "old"] ELSE job

\* job_cleanup_hours pass.  A task that is due to run does not wait that long.
Age(j) ==
  /\ \A i \in Jobs : task[i] \notin {"created", "cancelling"}
  /\ jobs' = [jobs EXCEPT ![j] = Older(@)]
  /\ disk' = [disk EXCEPT ![j] = Older(@)]
  /\ UNCHANGED <<task, running, proc, phase, unsaved, nextId, faults>>

---------------------------------------------------------------------------

Init ==
  /\ jobs = NoJobs
  /\ task = [j \in Jobs |-> "none"]
  /\ running = {}
  /\ proc = "none"
  /\ phase = "down"
  /\ disk = NoJobs
  /\ unsaved = FALSE
  /\ nextId = 1
  /\ faults = 0

Client ==
  \/ \E w \in Workspaces, p \in Priorities, r \in RetryRequests : Create(w, p, r)
  \/ \E j \in Jobs : Cancel(j)
  \/ \E j \in Jobs : Retry(j)

TaskStep(j) == TaskBegin(j) \/ TaskRejected(j) \/ TaskEnd(j) \/ TaskCancelled(j)

Lifecycle ==
  Boot \/ Start \/ StopBegin \/ StopTasks \/ StopFinish \/ Crash \/ CrashInSave

Next ==
  \/ Client
  \/ Tick
  \/ TickDies
  \/ \E j \in Jobs : TaskStep(j)
  \/ Lifecycle
  \/ \E j \in Jobs : Age(j)

Spec == Init /\ [][Next]_vars

\* The event loop runs due timers and ready tasks, the stages of a task are
\* finite loops of sleeps, and stop runs to its end once called.
Fairness ==
  /\ WF_vars(Tick)
  /\ \A j \in Jobs : WF_vars(TaskStep(j))
  /\ WF_vars(StopTasks)
  /\ WF_vars(StopFinish)

FairSpec == Spec /\ Fairness

---------------------------------------------------------------------------
(* Properties.                                                             *)

TypeOK ==
  /\ jobs \in [Jobs -> JobRecord]
  /\ task \in [Jobs -> {"none", "created", "running", "cancelling", "done"}]
  /\ running \subseteq Jobs
  /\ proc \in {"none", "alive", "dead"}
  /\ phase \in {"down", "up", "stopping", "draining", "stopped"}
  /\ disk \in [Jobs -> JobRecord]
  /\ unsaved \in BOOLEAN
  /\ nextId \in 1..MaxJobs + 1
  /\ faults \in 0..MaxFaults

\* max_concurrent_jobs is never exceeded, whatever is cancelled, retried or restarted.
ConcurrencyBound == Cardinality(running) <= MaxConcurrentJobs

Holders == {j \in Jobs : task[j] \in {"created", "running"}}

\* A slot is held exactly while its task may still work: a slot leaked by any
\* path of cancel_job, _execute_job or the processor would stall the queue for good.
NoSlotLeak ==
  /\ phase \in {"up", "stopping"} => running = Holders
  /\ \A j \in running : Live(j)

\* A job that clients see running has a task that runs, and the other way round.
StatusMatchesTask ==
  phase \in {"up", "stopping"} =>
    \A j \in Jobs : jobs[j].status = "running" <=> task[j] = "running"

\* _cleanup_old_jobs never drops the record of a job whose task has yet to
\* write its outcome.
LiveTaskHasJob == \A j \in Jobs : Live(j) => jobs[j].status # "absent"

\* How the task of a job, its record and the phase of the process go together.
TaskAgreesWithJob ==
  \A j \in Jobs :
    /\ task[j] = "created" => jobs[j].status \in {"queued", "cancelled"}
    /\ task[j] = "cancelling" => jobs[j].status = "cancelled" /\ jobs[j].doneAt = "recent"
    /\ phase = "draining" => task[j] \in {"none", "cancelling", "done"}
    /\ phase \in {"down", "stopped"} => task[j] = "none"

\* An id that has not been given out names no job, in memory or in the file.
FreshIdsUnused ==
  \A j \in Jobs : j >= nextId => jobs[j].status = "absent" /\ disk[j].status = "absent"

\* The inductive invariant behind the safety properties above.
IndInv ==
  /\ TypeOK
  /\ ConcurrencyBound
  /\ NoSlotLeak
  /\ StatusMatchesTask
  /\ TaskAgreesWithJob
  /\ FreshIdsUnused

\* _start_indexing_job never replaces the handle of a task that is still alive:
\* that task could no longer be cancelled.
NoHandleLost ==
  [][\A j \in Jobs : Live(j) /\ task'[j] = "created" => task[j] = "created"]_vars

\* If the last save worked, a crash now loses nothing: the next process loads
\* the jobs of this one, running ones queued again.  The one exception is a
\* cancellation that the start of its task has overwritten in memory.
NothingLostByCrash ==
  phase \in {"up", "stopping"} /\ ~unsaved =>
    \A j \in Jobs :
      \/ Reload(jobs[j]) = Reload(disk[j])
      \/ task[j] = "running" /\ disk[j].status = "cancelled"

\* No job is worked on after its client was told it is cancelled.
CancelSticks ==
  [][\A j \in Jobs : jobs[j].status = "cancelled" => jobs'[j].status # "running"]_vars

\* A workspace has at most one active job.
OneActiveJob == \A w \in Workspaces : Cardinality(ActiveIn(w)) <= 1

Head(j) == j \in Queued /\ j \notin running /\ \A i \in Queued \ {j} : i \in running \/ Before(j, i)

Serving == phase = "up" /\ proc = "alive"

\* The job at the head of the queue is started, cancelled or overtaken, as long
\* as the processor lives: no sequence of calls leaves it waiting beside a slot
\* that nobody holds.
HeadServed == \A j \in Jobs : (Head(j) /\ Serving) ~> ~(Head(j) /\ Serving)

\* stop never hangs in gather on a task that does not end.
ShutdownCompletes == (phase = "stopping") ~> (phase \in {"stopped", "down"})

---------------------------------------------------------------------------
(* Refinement: the manager implements the abstract queue.                  *)

View == IF phase = "down" THEN Loaded(disk) ELSE jobs

AbstractState(j) ==
  IF j \in running THEN "active"
  ELSE IF View[j].status = "absent" THEN "absent"
  ELSE IF View[j].status = "queued" THEN "waiting" ELSE "done"

Queue == INSTANCE JobQueue WITH
  Slots    <- MaxConcurrentJobs,
  state    <- [j \in Jobs |-> AbstractState(j)],
  attempts <- [j \in Jobs |-> View[j].retries],
  durable  <- ~unsaved

\* Jobs move only as the abstract queue allows: each start takes a slot and comes
\* from the queue, each return to the queue costs a retry, and a restart with
\* an intact index neither loses a job nor runs a finished one again.
ImplementsQueue == Queue!Spec

=============================================================================
