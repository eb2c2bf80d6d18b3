----------------------- MODULE IndexingManagerProofs -----------------------
(***************************************************************************)
(* Safety of the indexing manager, and that it implements the abstract     *)
(* queue of JobQueue, for every number of jobs, workspaces, slots and      *)
(* failed writes.                                                          *)
(***************************************************************************)
EXTENDS IndexingManager, FiniteSetTheorems, TLAPS

---------------------------------------------------------------------------
(* Job records.                                                            *)

\* The transition methods of IndexingJob yield job records.
LEMMA RecordTypes ==
  ASSUME NEW job \in JobRecord
  PROVE  /\ StartJob(job) \in JobRecord
         /\ CompleteJob(job) \in JobRecord
         /\ FailJob(job) \in JobRecord
         /\ CancelJob(job) \in JobRecord
         /\ IncrementRetry(job) \in JobRecord
         /\ Reload(job) \in JobRecord
         /\ Older(job) \in JobRecord
  <1> USE DEF JobRecord, Status
  <1>1. StartJob(job) \in JobRecord
    BY DEF StartJob
  <1>2. CompleteJob(job) \in JobRecord
    BY DEF CompleteJob
  <1>3. FailJob(job) \in JobRecord
    BY DEF FailJob
  <1>4. CancelJob(job) \in JobRecord
    BY DEF CancelJob
  <1>5. IncrementRetry(job) \in JobRecord
    <2>1. job.retries + 1 \in Nat
      OBVIOUS
    <2>2. QED
      BY <2>1 DEF IncrementRetry
  <1>6. Reload(job) \in JobRecord
    BY DEF Reload
  <1>7. Older(job) \in JobRecord
    BY DEF Older
  <1>8. QED
    BY <1>1, <1>2, <1>3, <1>4, <1>5, <1>6, <1>7

\* The fields they set.
LEMMA RecordFields ==
  ASSUME NEW job \in JobRecord
  PROVE  /\ StartJob(job).status = "running"
         /\ CompleteJob(job).status = "completed"
         /\ FailJob(job).status = "failed"
         /\ CancelJob(job).status = "cancelled" /\ CancelJob(job).doneAt = "recent"
         /\ IncrementRetry(job).status = "queued"
         /\ Reload(job).status # "running"
         /\ Older(job).status = job.status
  <1> USE DEF JobRecord
  <1>1. StartJob(job).status = "running"
    BY DEF StartJob
  <1>2. CompleteJob(job).status = "completed"
    BY DEF CompleteJob
  <1>3. FailJob(job).status = "failed"
    BY DEF FailJob
  <1>4. CancelJob(job).status = "cancelled" /\ CancelJob(job).doneAt = "recent"
    BY DEF CancelJob
  <1>5. IncrementRetry(job).status = "queued"
    BY DEF IncrementRetry
  <1>6. Reload(job).status # "running"
    BY DEF Reload
  <1>7. Older(job).status = job.status
    BY DEF Older
  <1>8. QED
    BY <1>1, <1>2, <1>3, <1>4, <1>5, <1>6, <1>7

\* Job creation yields a job record, and so does an id that names no job.
LEMMA NewRecordTypes ==
  /\ NoJob \in JobRecord
  /\ NoJobs \in [Jobs -> JobRecord]
  /\ \A w \in Workspaces, p \in Priorities, r \in RetryRequests :
        NewJob(w, p, r) \in JobRecord
  BY IndexingAssumption
  DEF NoJobs, NoJob, NewJob, EffectiveRetries, JobRecord, Status

\* Loading the index yields job records.
LEMMA LoadedType ==
  ASSUME disk \in [Jobs -> JobRecord]
  PROVE  Loaded(disk) \in [Jobs -> JobRecord]
  BY RecordTypes DEF Loaded

---------------------------------------------------------------------------
(* Slots are a finite set of jobs.                                         *)

\* Sets of jobs are finite.
LEMMA JobsFinite ==
  ASSUME NEW S \in SUBSET Jobs
  PROVE  IsFiniteSet(S) /\ Cardinality(S) \in Nat
  <1>1. IsFiniteSet(Jobs)
    BY FS_Interval, IndexingAssumption DEF Jobs
  <1>2. QED
    BY <1>1, FS_Subset, FS_CardinalityType

\* Releasing a slot cannot exceed the limit.
LEMMA ReleaseKeepsBound ==
  ASSUME running \subseteq Jobs, ConcurrencyBound, NEW T, T \subseteq running
  PROVE  Cardinality(T) <= MaxConcurrentJobs
  <1>1. IsFiniteSet(running) /\ Cardinality(running) \in Nat
    BY JobsFinite
  <1>2. Cardinality(T) <= Cardinality(running) /\ Cardinality(T) \in Nat
    BY <1>1, FS_Subset, FS_CardinalityType
  <1>3. QED
    BY <1>1, <1>2, IndexingAssumption DEF ConcurrencyBound

\* Starting as many jobs as there are free slots cannot exceed it either.
LEMMA StartKeepsBound ==
  ASSUME running \subseteq Jobs, ConcurrencyBound, NEW S, Startable(S)
  PROVE  Cardinality(running \cup S) <= MaxConcurrentJobs
  <1>1. S \in SUBSET Jobs
    BY DEF Startable, Queued
  <1>2. IsFiniteSet(running) /\ Cardinality(running) \in Nat
    BY JobsFinite
  <1>3. IsFiniteSet(S) /\ Cardinality(S) \in Nat
    BY <1>1, JobsFinite
  <1>4. /\ IsFiniteSet(running \cup S)
        /\ Cardinality(running \cup S) =
             Cardinality(running) + Cardinality(S) - Cardinality(running \cap S)
    BY <1>2, <1>3, FS_Union
  <1>5. Cardinality(running \cap S) \in Nat
    BY <1>2, <1>3, FS_Intersection, FS_CardinalityType
  <1>6. Cardinality(S) <= MaxConcurrentJobs - Cardinality(running)
    BY <1>2, <1>3, IndexingAssumption DEF Startable, FreeSlots, ConcurrencyBound
  <1>7. QED
    BY <1>2, <1>3, <1>4, <1>5, <1>6, IndexingAssumption

---------------------------------------------------------------------------
(* The inductive invariant.                                                *)

\* Initially the process is down, and nothing has happened.
LEMMA InitIndInv == Init => IndInv
  <1> SUFFICES ASSUME Init PROVE IndInv
    OBVIOUS
  <1> USE IndexingAssumption DEF Init
  <1>1. TypeOK
    <2>1. unsaved \in BOOLEAN
      BY Zenon
    <2>2. nextId \in 1..MaxJobs + 1 /\ faults \in 0..MaxFaults
      OBVIOUS
    <2>3. QED
      BY <2>1, <2>2, NewRecordTypes DEF TypeOK
  <1>2. ConcurrencyBound
    BY FS_EmptySet DEF ConcurrencyBound
  <1>3. NoSlotLeak /\ StatusMatchesTask /\ TaskAgreesWithJob /\ FreshIdsUnused
    BY DEF NoSlotLeak, StatusMatchesTask, TaskAgreesWithJob, FreshIdsUnused, NoJobs, NoJob
  <1>4. QED
    BY <1>1, <1>2, <1>3 DEF IndInv

\* The file then holds what was saved, what it held before, or nothing.
LEMMA SaveCases ==
  ASSUME NEW js, Save(js)
  PROVE  disk' = js \/ disk' = disk \/ disk' = NoJobs
  BY DEF Save, SaveOK, SaveFails

\* A save keeps the types of the variables it writes.
LEMMA SaveTypes ==
  ASSUME TypeOK, NEW js \in [Jobs -> JobRecord], Save(js)
  PROVE  /\ disk' \in [Jobs -> JobRecord]
         /\ unsaved' \in BOOLEAN
         /\ faults' \in 0..MaxFaults
  <1>1. disk' \in [Jobs -> JobRecord]
    BY SaveCases, NewRecordTypes DEF TypeOK
  <1>2. unsaved' \in BOOLEAN
    BY Zenon DEF Save, SaveOK, SaveFails
  <1>3. faults' \in 0..MaxFaults
    BY IndexingAssumption DEF Save, SaveOK, SaveFails, TypeOK
  <1>4. QED
    BY <1>1, <1>2, <1>3

\* So an id that is unused in memory before and after a save is unused in the file.
LEMMA SaveKeepsFreshIds ==
  ASSUME FreshIdsUnused, nextId \in Nat, nextId' \in {nextId, nextId + 1}, Save(jobs'),
         \A j \in Jobs : j >= nextId' => jobs'[j].status = "absent"
  PROVE  FreshIdsUnused'
  <1>1. \A j \in Jobs : j \in Nat
    BY DEF Jobs
  <1>2. \A j \in Jobs : j >= nextId' => disk[j].status = "absent"
    BY <1>1 DEF FreshIdsUnused
  <1>3. \A j \in Jobs : NoJobs[j].status = "absent"
    BY DEF NoJobs, NoJob
  <1>4. \A j \in Jobs : j >= nextId' => disk'[j].status = "absent"
    BY <1>2, <1>3, SaveCases
  <1>5. QED
    BY <1>4 DEF FreshIdsUnused

\* Whatever the outcome it records, the last step of a task keeps the invariant.
LEMMA FinishKeepsIndInv ==
  ASSUME IndInv, NEW j \in Jobs, Live(j),
         NEW job \in JobRecord, IsFinished(job), Finish(j, job)
  PROVE  IndInv'
  <1> USE DEF Finish
  <1>0. /\ TypeOK /\ jobs \in [Jobs -> JobRecord] /\ running \subseteq Jobs
        /\ task \in [Jobs -> {"none", "created", "running", "cancelling", "done"}]
        /\ ConcurrencyBound /\ NoSlotLeak /\ StatusMatchesTask /\ TaskAgreesWithJob
        /\ FreshIdsUnused /\ nextId \in Nat
        /\ phase \in {"down", "up", "stopping", "draining", "stopped"}
    BY IndexingAssumption DEF IndInv, TypeOK
  <1>1. TypeOK'
    <2>1. jobs' \in [Jobs -> JobRecord]
      BY <1>0
    <2>2. QED
      BY <1>0, <2>1, SaveTypes DEF TypeOK
  <1>2. ConcurrencyBound'
    BY <1>0, ReleaseKeepsBound DEF IndInv, TypeOK, ConcurrencyBound
  <1>3. NoSlotLeak'
    BY <1>0 DEF IndInv, TypeOK, NoSlotLeak, Holders, Live
  <1>4. StatusMatchesTask'
    BY <1>0 DEF IndInv, StatusMatchesTask, IsFinished
  <1>5. TaskAgreesWithJob'
    BY <1>0 DEF IndInv, TaskAgreesWithJob, Live
  <1>6. FreshIdsUnused'
    <2>1. jobs' \in [Jobs -> JobRecord]
      BY <1>0
    <2>2. jobs[j].status # "absent"
      BY <1>0 DEF Live, StatusMatchesTask, TaskAgreesWithJob
    <2>3. \A i \in Jobs : i >= nextId' => jobs'[i].status = "absent"
      BY <1>0, <2>2 DEF FreshIdsUnused
    <2>4. QED
      BY <1>0, <2>1, <2>3, SaveKeepsFreshIds
  <1>7. QED
    BY <1>1, <1>2, <1>3, <1>4, <1>5, <1>6 DEF IndInv

\* Every step keeps the invariant.
LEMMA NextKeepsIndInv == IndInv /\ [Next]_vars => IndInv'
  <1> SUFFICES ASSUME IndInv, [Next]_vars PROVE IndInv'
    OBVIOUS
  <1> USE IndexingAssumption
  <1>0. /\ TypeOK /\ ConcurrencyBound /\ NoSlotLeak /\ StatusMatchesTask /\ TaskAgreesWithJob
        /\ FreshIdsUnused /\ nextId \in Nat /\ nextId \in 1..MaxJobs + 1
        /\ unsaved \in BOOLEAN /\ faults \in 0..MaxFaults
        /\ proc \in {"none", "alive", "dead"}
        /\ phase \in {"down", "up", "stopping", "draining", "stopped"}
        /\ jobs \in [Jobs -> JobRecord]
        /\ running \subseteq Jobs
        /\ disk \in [Jobs -> JobRecord]
        /\ task \in [Jobs -> {"none", "created", "running", "cancelling", "done"}]
    BY DEF IndInv, TypeOK
  <1>1. ASSUME NEW w \in Workspaces, NEW p \in Priorities, NEW r \in RetryRequests,
               Create(w, p, r)
        PROVE  IndInv'
    <2> USE <1>1 DEF Create
    <2>1. NewJob(w, p, r) \in JobRecord /\ NewJob(w, p, r).status = "queued"
      BY NewRecordTypes DEF NewJob
    <2>2. jobs' \in [Jobs -> JobRecord]
      BY <1>0, <2>1
    <2>3. TypeOK'
      <3>1. nextId' \in 1..MaxJobs + 1
        BY <1>0 DEF Jobs
      <3>2. QED
        BY <1>0, <2>2, <3>1, SaveTypes DEF TypeOK
    <2>4. ConcurrencyBound' /\ NoSlotLeak'
      BY <1>0 DEF ConcurrencyBound, NoSlotLeak, Holders, Live
    <2>5. nextId \in Jobs /\ phase = "up"
      OBVIOUS
    <2>6. StatusMatchesTask' /\ TaskAgreesWithJob'
      BY <1>0, <2>1 DEF StatusMatchesTask, TaskAgreesWithJob, FreshIdsUnused
    <2>7. FreshIdsUnused'
      <3>1. \A j \in Jobs : j >= nextId' => jobs'[j].status = "absent"
        BY <1>0 DEF FreshIdsUnused, Jobs
      <3>2. QED
        BY <1>0, <2>2, <3>1, SaveKeepsFreshIds
    <2>8. QED
      BY <2>3, <2>4, <2>6, <2>7 DEF IndInv
  <1>2. ASSUME NEW j \in Jobs, Cancel(j)
        PROVE  IndInv'
    <2> USE <1>2 DEF Cancel
    <2>1. CancelJob(jobs[j]) \in JobRecord /\ CancelJob(jobs[j]).status = "cancelled"
            /\ CancelJob(jobs[j]).doneAt = "recent"
      BY <1>0, RecordTypes, RecordFields
    <2>2. jobs' \in [Jobs -> JobRecord]
      BY <1>0, <2>1
    <2>3. TypeOK'
      BY <1>0, <2>2, SaveTypes DEF TypeOK
    <2>4. ConcurrencyBound'
      BY <1>0, ReleaseKeepsBound DEF ConcurrencyBound
    <2>5. NoSlotLeak'
      BY <1>0 DEF NoSlotLeak, Holders, Live, StatusMatchesTask
    <2>6. StatusMatchesTask'
      BY <1>0, <2>1 DEF StatusMatchesTask
    <2>7. TaskAgreesWithJob'
      BY <1>0, <2>1 DEF TaskAgreesWithJob, StatusMatchesTask
    <2>8. FreshIdsUnused'
      <3>1. \A i \in Jobs : i >= nextId' => jobs'[i].status = "absent"
        BY <1>0 DEF FreshIdsUnused
      <3>2. QED
        BY <1>0, <2>2, <3>1, SaveKeepsFreshIds
    <2>9. QED
      BY <2>3, <2>4, <2>5, <2>6, <2>7, <2>8 DEF IndInv
  <1>3. ASSUME NEW j \in Jobs, Retry(j)
        PROVE  IndInv'
    <2> USE <1>3 DEF Retry
    <2>1. IncrementRetry(jobs[j]) \in JobRecord /\ IncrementRetry(jobs[j]).status = "queued"
      BY <1>0, RecordTypes, RecordFields
    <2>2. jobs' \in [Jobs -> JobRecord]
      BY <1>0, <2>1
    <2>3. TypeOK'
      BY <1>0, <2>2, SaveTypes DEF TypeOK
    <2>4. ConcurrencyBound' /\ NoSlotLeak'
      BY <1>0 DEF ConcurrencyBound, NoSlotLeak, Holders, Live
    <2>5. StatusMatchesTask'
      BY <1>0, <2>1 DEF StatusMatchesTask, CanRetry
    <2>6. TaskAgreesWithJob'
      BY <1>0, <2>1 DEF TaskAgreesWithJob, CanRetry
    <2>7. FreshIdsUnused'
      <3>1. \A i \in Jobs : i >= nextId' => jobs'[i].status = "absent"
        BY <1>0 DEF FreshIdsUnused, CanRetry
      <3>2. QED
        BY <1>0, <2>2, <3>1, SaveKeepsFreshIds
    <2>8. QED
      BY <2>3, <2>4, <2>5, <2>6, <2>7 DEF IndInv
  <1>4. CASE Tick
    <2> USE <1>4 DEF Tick
    <2>1. PICK S \in SUBSET Queued :
            Startable(S) /\ task' = TasksAfter(S) /\ running' = running \cup S
      OBVIOUS
    <2>2. jobs' \in [Jobs -> JobRecord]
      BY <1>0, NewRecordTypes DEF WithoutExpired
    <2>3. TypeOK'
      BY <1>0, <2>1, <2>2, SaveTypes DEF TypeOK, TasksAfter, Queued, Save
    <2>4. ConcurrencyBound'
      BY <1>0, <2>1, StartKeepsBound DEF ConcurrencyBound
    <2>5. \A j \in S : jobs'[j].status = "queued" /\ task[j] \in {"none", "done"}
      BY <1>0, <2>1 DEF Queued, WithoutExpired, Expired, IsFinished, NoTaskIsFresh,
         StatusMatchesTask, TaskAgreesWithJob
    <2>6. NoSlotLeak'
      BY <1>0, <2>1, <2>5 DEF NoSlotLeak, Holders, Live, TasksAfter, Queued
    <2>7. StatusMatchesTask'
      BY <1>0, <2>1, <2>5 DEF StatusMatchesTask, TasksAfter, WithoutExpired, Expired,
         IsFinished, NoJob
    <2>8. TaskAgreesWithJob'
      BY <1>0, <2>1, <2>5 DEF TaskAgreesWithJob, TasksAfter, WithoutExpired, Expired,
         NoTaskIsFresh
    <2>9. FreshIdsUnused'
      <3>1. \A i \in Jobs : i >= nextId' => jobs'[i].status = "absent"
        BY <1>0 DEF FreshIdsUnused, WithoutExpired, NoJob
      <3>2. CASE disk' = disk
        BY <1>0, <3>1, <3>2 DEF FreshIdsUnused
      <3>3. CASE Save(jobs')
        BY <1>0, <3>1, <3>3, SaveKeepsFreshIds
      <3>4. QED
        BY <3>2, <3>3 DEF Save
    <2>10. QED
      BY <2>3, <2>4, <2>6, <2>7, <2>8, <2>9 DEF IndInv
  <1>5. CASE TickDies
    <2> USE <1>5 DEF TickDies
    <2>1. jobs' \in [Jobs -> JobRecord]
      BY <1>0, NewRecordTypes DEF WithoutExpired
    <2>2. TypeOK'
      BY <1>0, <2>1, SaveTypes DEF TypeOK, Save
    <2>3. ConcurrencyBound' /\ NoSlotLeak'
      BY <1>0 DEF ConcurrencyBound, NoSlotLeak, Holders, Live
    <2>4. StatusMatchesTask'
      BY <1>0 DEF StatusMatchesTask, WithoutExpired, Expired, IsFinished, NoJob
    <2>5. TaskAgreesWithJob'
      BY <1>0 DEF TaskAgreesWithJob, WithoutExpired, Expired, NoTaskIsFresh
    <2>6. FreshIdsUnused'
      <3>1. \A i \in Jobs : i >= nextId' => jobs'[i].status = "absent"
        BY <1>0 DEF FreshIdsUnused, WithoutExpired, NoJob
      <3>2. Save(jobs')
        BY DEF Save
      <3>3. QED
        BY <1>0, <3>1, <3>2, SaveKeepsFreshIds
    <2>7. QED
      BY <2>2, <2>3, <2>4, <2>5, <2>6 DEF IndInv
  <1>6. ASSUME NEW j \in Jobs, TaskBegin(j)
        PROVE  IndInv'
    <2> USE <1>6 DEF TaskBegin
    <2>1. StartJob(jobs[j]) \in JobRecord /\ StartJob(jobs[j]).status = "running"
      BY <1>0, RecordTypes, RecordFields
    <2>2. jobs' \in [Jobs -> JobRecord]
      BY <1>0, <2>1
    <2>3. TypeOK'
      BY <1>0, <2>2 DEF TypeOK
    <2>4. ConcurrencyBound' /\ NoSlotLeak'
      BY <1>0 DEF ConcurrencyBound, NoSlotLeak, Holders, Live
    <2>5. StatusMatchesTask' /\ TaskAgreesWithJob'
      BY <1>0, <2>1 DEF StatusMatchesTask, TaskAgreesWithJob
    <2>6. FreshIdsUnused'
      BY <1>0, <2>1 DEF FreshIdsUnused, TaskAgreesWithJob
    <2>7. QED
      BY <2>3, <2>4, <2>5, <2>6 DEF IndInv
  <1>7. ASSUME NEW j \in Jobs, TaskRejected(j) \/ TaskEnd(j) \/ TaskCancelled(j)
        PROVE  IndInv'
    <2>1. Live(j)
      BY <1>7 DEF TaskRejected, TaskEnd, TaskCancelled, Live
    <2>2. \A job \in {FailJob(jobs[j]), CompleteJob(jobs[j]), CancelJob(jobs[j])} :
            job \in JobRecord /\ IsFinished(job)
      <3>1. jobs[j] \in JobRecord
        BY <1>0
      <3>2. FailJob(jobs[j]) \in JobRecord /\ FailJob(jobs[j]).status = "failed"
        BY <3>1, RecordTypes, RecordFields
      <3>3. CompleteJob(jobs[j]) \in JobRecord /\ CompleteJob(jobs[j]).status = "completed"
        BY <3>1, RecordTypes, RecordFields
      <3>4. CancelJob(jobs[j]) \in JobRecord /\ CancelJob(jobs[j]).status = "cancelled"
        BY <3>1, RecordTypes, RecordFields
      <3>5. QED
        BY <3>2, <3>3, <3>4 DEF IsFinished
    <2>3. PICK job \in {FailJob(jobs[j]), CompleteJob(jobs[j]), CancelJob(jobs[j])} :
            Finish(j, job)
      BY <1>7 DEF TaskRejected, TaskEnd, TaskCancelled
    <2>4. QED
      BY <2>1, <2>2, <2>3, FinishKeepsIndInv
  <1>8. CASE Boot
    <2> USE <1>8 DEF Boot
    <2>1. jobs' \in [Jobs -> JobRecord]
      BY <1>0, LoadedType
    <2>2. TypeOK'
      BY <1>0, <2>1 DEF TypeOK
    <2>3. ConcurrencyBound' /\ NoSlotLeak'
      BY <1>0 DEF ConcurrencyBound, NoSlotLeak, Holders, Live, TaskAgreesWithJob
    <2>4. \A j \in Jobs : jobs'[j].status # "running"
      BY <1>0, RecordFields DEF Loaded
    <2>5. StatusMatchesTask' /\ TaskAgreesWithJob'
      BY <1>0, <2>4 DEF StatusMatchesTask, TaskAgreesWithJob
    <2>6. FreshIdsUnused'
      BY <1>0 DEF FreshIdsUnused, Loaded, Reload
    <2>7. QED
      BY <2>2, <2>3, <2>5, <2>6 DEF IndInv
  <1>9. CASE Start \/ StopBegin
    BY <1>0, <1>9 DEF Start, StopBegin, IndInv, TypeOK, ConcurrencyBound, NoSlotLeak,
       Holders, Live, StatusMatchesTask, TaskAgreesWithJob, FreshIdsUnused
  <1>10. CASE StopTasks
    <2> USE <1>10 DEF StopTasks
    <2>1. \A j \in Jobs : /\ CancelJob(jobs[j]) \in JobRecord
                          /\ CancelJob(jobs[j]).status = "cancelled"
                          /\ CancelJob(jobs[j]).doneAt = "recent"
      BY <1>0, RecordTypes, RecordFields
    <2>2. jobs' \in [Jobs -> JobRecord]
      BY <1>0, <2>1
    <2>3. TypeOK'
      BY <1>0, <2>2 DEF TypeOK
    <2>4. ConcurrencyBound' /\ NoSlotLeak'
      BY <1>0 DEF ConcurrencyBound, NoSlotLeak, Live
    <2>5. \A j \in Jobs : Live(j) => jobs[j].status # "absent"
      BY <1>0 DEF Live, StatusMatchesTask, TaskAgreesWithJob
    <2>6. StatusMatchesTask' /\ TaskAgreesWithJob'
      BY <1>0, <2>1, <2>5 DEF StatusMatchesTask, TaskAgreesWithJob, Live
    <2>7. FreshIdsUnused'
      BY <1>0 DEF FreshIdsUnused
    <2>8. QED
      BY <2>3, <2>4, <2>6, <2>7 DEF IndInv
  <1>11. CASE StopFinish
    <2> USE <1>11 DEF StopFinish
    <2>1. TypeOK'
      BY <1>0, SaveTypes DEF TypeOK
    <2>2. ConcurrencyBound' /\ NoSlotLeak'
      BY <1>0, FS_EmptySet DEF ConcurrencyBound, NoSlotLeak
    <2>3. StatusMatchesTask' /\ TaskAgreesWithJob'
      BY <1>0 DEF StatusMatchesTask, TaskAgreesWithJob
    <2>4. FreshIdsUnused'
      <3>1. Save(jobs') /\ nextId' = nextId
        OBVIOUS
      <3>2. \A j \in Jobs : j >= nextId' => jobs'[j].status = "absent"
        BY <1>0 DEF FreshIdsUnused
      <3>3. QED
        BY <1>0, <3>1, <3>2, SaveKeepsFreshIds
    <2>5. QED
      BY <2>1, <2>2, <2>3, <2>4 DEF IndInv
  <1>12. CASE Crash \/ CrashInSave
    <2> USE <1>12 DEF Crash, CrashInSave, Forget
    <2>1. TypeOK'
      <3>1. disk' \in [Jobs -> JobRecord] /\ jobs' \in [Jobs -> JobRecord]
        BY <1>0, NewRecordTypes
      <3>2. unsaved' \in BOOLEAN
        BY <1>0, Zenon
      <3>3. faults' \in 0..MaxFaults
        BY <1>0
      <3>4. QED
        BY <1>0, <3>1, <3>2, <3>3 DEF TypeOK
    <2>2. ConcurrencyBound' /\ NoSlotLeak'
      BY <1>0, FS_EmptySet DEF ConcurrencyBound, NoSlotLeak
    <2>3. StatusMatchesTask' /\ TaskAgreesWithJob'
      BY <1>0 DEF StatusMatchesTask, TaskAgreesWithJob
    <2>4. FreshIdsUnused'
      BY <1>0 DEF FreshIdsUnused, NoJobs, NoJob
    <2>5. QED
      BY <2>1, <2>2, <2>3, <2>4 DEF IndInv
  <1>13. ASSUME NEW j \in Jobs, Age(j)
         PROVE  IndInv'
    <2> USE <1>13 DEF Age
    <2>1. \A job \in JobRecord : Older(job) \in JobRecord /\ Older(job).status = job.status
      BY RecordTypes, RecordFields
    <2>2. jobs' \in [Jobs -> JobRecord] /\ disk' \in [Jobs -> JobRecord]
      BY <1>0, <2>1
    <2>3. TypeOK'
      BY <1>0, <2>2 DEF TypeOK
    <2>4. ConcurrencyBound' /\ NoSlotLeak'
      BY <1>0 DEF ConcurrencyBound, NoSlotLeak, Holders, Live
    <2>5. \A i \in Jobs : /\ jobs'[i].status = jobs[i].status
                          /\ disk'[i].status = disk[i].status
      BY <1>0, <2>1
    <2>6. StatusMatchesTask' /\ TaskAgreesWithJob' /\ FreshIdsUnused'
      BY <1>0, <2>5 DEF StatusMatchesTask, TaskAgreesWithJob, FreshIdsUnused
    <2>7. QED
      BY <2>3, <2>4, <2>6 DEF IndInv
  <1>14. CASE UNCHANGED vars
    BY <1>14 DEF vars, IndInv, TypeOK, ConcurrencyBound, NoSlotLeak, Holders, Live,
       StatusMatchesTask, TaskAgreesWithJob, FreshIdsUnused
  <1>15. QED
    BY <1>1, <1>2, <1>3, <1>4, <1>5, <1>6, <1>7, <1>8, <1>9, <1>10, <1>11, <1>12,
       <1>13, <1>14 DEF Next, Client, TaskStep, Lifecycle

\* The inductive invariant holds in every behaviour of the manager.
THEOREM Inductive == Spec => []IndInv
  BY InitIndInv, NextKeepsIndInv, PTL DEF Spec

\* Type correctness.
THEOREM TypeCorrect == Spec => []TypeOK
  BY Inductive, PTL DEF IndInv

\* max_concurrent_jobs is never exceeded.
THEOREM ConcurrencyIsBounded == Spec => []ConcurrencyBound
  BY Inductive, PTL DEF IndInv

\* No slot is leaked, and none is used without being held.
THEOREM SlotsAreNotLeaked == Spec => []NoSlotLeak
  BY Inductive, PTL DEF IndInv

\* A job is shown running exactly while a task runs it.
THEOREM StatusIsTruthful == Spec => []StatusMatchesTask
  BY Inductive, PTL DEF IndInv

\* No cleanup drops the record of a job whose task has yet to write its outcome.
THEOREM LiveTasksHaveJobs == Spec => []LiveTaskHasJob
  <1>1. IndInv => LiveTaskHasJob
    BY DEF IndInv, TypeOK, StatusMatchesTask, TaskAgreesWithJob, LiveTaskHasJob, Live
  <1>2. QED
    BY <1>1, Inductive, PTL

---------------------------------------------------------------------------
(* What a crash can lose.                                                  *)

\* Loading a record twice is loading it once, loading one whose job has just been
\* started is undoing the start, and the age of a record does not matter to it.
LEMMA ReloadFacts ==
  ASSUME NEW job \in JobRecord
  PROVE  /\ Reload(Reload(job)) = Reload(job)
         /\ job.status = "queued" => Reload(StartJob(job)) = Reload(job)
         /\ Reload(Older(job)) = Older(Reload(job))
         /\ Reload(job).status = "cancelled" => job.status = "cancelled"
         /\ job.status = "cancelled" => Reload(job) = job
  <1> USE DEF JobRecord
  <1>1. Reload(Reload(job)) = Reload(job)
    BY DEF Reload
  <1>2. job.status = "queued" => Reload(StartJob(job)) = Reload(job)
    BY DEF Reload, StartJob
  <1>3. Reload(Older(job)) = Older(Reload(job))
    BY DEF Reload, Older
  <1>4. Reload(job).status = "cancelled" => job.status = "cancelled"
    BY DEF Reload
  <1>5. job.status = "cancelled" => Reload(job) = job
    BY DEF Reload
  <1>6. QED
    BY <1>1, <1>2, <1>3, <1>4, <1>5

\* After a save, a crash loses nothing, or the save failed.
LEMMA SaveLosesNothing ==
  ASSUME Save(jobs')
  PROVE  NothingLostByCrash'
  <1>1. CASE SaveOK(jobs')
    BY <1>1 DEF SaveOK, NothingLostByCrash
  <1>2. CASE SaveFails
    BY <1>2 DEF SaveFails, NothingLostByCrash
  <1>3. QED
    BY <1>1, <1>2 DEF Save

\* Every step keeps what a crash can lose within these bounds.
LEMMA NextLosesNothing ==
  IndInv /\ NothingLostByCrash /\ [Next]_vars => NothingLostByCrash'
  <1> SUFFICES ASSUME IndInv, NothingLostByCrash, [Next]_vars PROVE NothingLostByCrash'
    OBVIOUS
  <1>0. /\ jobs \in [Jobs -> JobRecord] /\ disk \in [Jobs -> JobRecord]
        /\ task \in [Jobs -> {"none", "created", "running", "cancelling", "done"}]
        /\ StatusMatchesTask /\ TaskAgreesWithJob
    BY DEF IndInv, TypeOK
  <1>1. CASE Client \/ TickDies \/ \E j \in Jobs : TaskRejected(j) \/ TaskEnd(j) \/ TaskCancelled(j)
    <2>1. Save(jobs')
      BY <1>1 DEF Client, Create, Cancel, Retry, TickDies, TaskRejected, TaskEnd,
         TaskCancelled, Finish, Save
    <2>2. QED
      BY <2>1, SaveLosesNothing
  <1>2. CASE Tick
    <2>1. CASE Expired = {}
      <3>1. jobs' = jobs /\ disk' = disk /\ unsaved' = unsaved /\ phase' = phase
        BY <1>0, <1>2, <2>1 DEF Tick, WithoutExpired
      <3>2. \A j \in Jobs : phase = "up" /\ task[j] = "running" => task'[j] = "running"
        BY <1>0, <1>2 DEF Tick, TasksAfter, Queued, StatusMatchesTask
      <3>3. phase = "up"
        BY <1>2 DEF Tick
      <3>4. QED
        BY <3>1, <3>2, <3>3 DEF NothingLostByCrash
    <2>2. CASE Expired # {}
      BY <1>2, <2>2, SaveLosesNothing DEF Tick, Save
    <2>3. QED
      BY <2>1, <2>2
  <1>3. ASSUME NEW j \in Jobs, TaskBegin(j)
        PROVE  NothingLostByCrash'
    <2> SUFFICES ASSUME phase \in {"up", "stopping"}, ~unsaved, NEW i \in Jobs
                 PROVE  \/ Reload(jobs'[i]) = Reload(disk[i])
                        \/ task'[i] = "running" /\ disk[i].status = "cancelled"
      BY <1>3 DEF TaskBegin, NothingLostByCrash
    <2>1. \/ Reload(jobs[i]) = Reload(disk[i])
          \/ task[i] = "running" /\ disk[i].status = "cancelled"
      BY DEF NothingLostByCrash
    <2>2. CASE i # j
      BY <1>0, <1>3, <2>1, <2>2 DEF TaskBegin
    <2>3. CASE i = j
      <3>1. /\ jobs'[j] = StartJob(jobs[j]) /\ task'[j] = "running"
            /\ jobs[j].status \in {"queued", "cancelled"}
            /\ Reload(jobs[j]) = Reload(disk[j])
        BY <1>0, <1>3, <2>1, <2>3 DEF TaskBegin, TaskAgreesWithJob
      <3>2. CASE jobs[j].status = "queued"
        BY <1>0, <2>3, <3>1, <3>2, ReloadFacts
      <3>3. CASE jobs[j].status = "cancelled"
        <4>1. Reload(disk[j]).status = "cancelled"
          BY <1>0, <3>1, <3>3, ReloadFacts
        <4>2. QED
          BY <1>0, <2>3, <3>1, <4>1, ReloadFacts
      <3>4. QED
        BY <3>1, <3>2, <3>3
    <2>4. QED
      BY <2>2, <2>3
  <1>4. CASE Boot
    <2>1. \A j \in Jobs : Reload(Reload(disk[j])) = Reload(disk[j])
      BY <1>0, ReloadFacts
    <2>2. QED
      BY <1>4, <2>1 DEF Boot, Loaded, NothingLostByCrash
  <1>5. CASE Start \/ StopBegin
    BY <1>5 DEF Start, StopBegin, NothingLostByCrash
  <1>6. CASE StopTasks \/ StopFinish \/ Crash \/ CrashInSave
    BY <1>6 DEF StopTasks, StopFinish, Crash, CrashInSave, Forget, NothingLostByCrash
  <1>7. ASSUME NEW j \in Jobs, Age(j)
        PROVE  NothingLostByCrash'
    <2>1. \A job \in JobRecord : Reload(Older(job)) = Older(Reload(job))
      BY ReloadFacts
    <2>2. \A job \in JobRecord : Older(job).status = job.status
      BY RecordFields
    <2>3. \A i \in Jobs : Reload(jobs[i]) = Reload(disk[i]) => Reload(jobs'[i]) = Reload(disk'[i])
      BY <1>0, <1>7, <2>1 DEF Age
    <2>4. \A i \in Jobs : disk'[i].status = disk[i].status
      BY <1>0, <1>7, <2>2 DEF Age
    <2>5. task' = task /\ phase' = phase /\ unsaved' = unsaved
      BY <1>7 DEF Age
    <2>6. QED
      BY <2>3, <2>4, <2>5 DEF NothingLostByCrash
  <1>8. CASE UNCHANGED vars
    BY <1>8 DEF vars, NothingLostByCrash
  <1>9. QED
    BY <1>1, <1>2, <1>3, <1>4, <1>5, <1>6, <1>7, <1>8 DEF Next, TaskStep, Lifecycle

\* If the last save worked, a restart finds every job as the process left it.
THEOREM CrashLosesNothing == Spec => []NothingLostByCrash
  <1>1. Init => NothingLostByCrash
    BY DEF Init, NothingLostByCrash
  <1>2. QED
    BY <1>1, Inductive, NextLosesNothing, PTL DEF Spec

\* A live task's handle is never replaced, so a job has at most one live task.
THEOREM HandlesAreNotLost == Spec => NoHandleLost
  <1>1. IndInv /\ [Next]_vars =>
          [\A j \in Jobs : Live(j) /\ task'[j] = "created" => task[j] = "created"]_vars
    <2> SUFFICES ASSUME IndInv, Next, NEW j \in Jobs, Live(j), task'[j] = "created"
                 PROVE  task[j] = "created"
      OBVIOUS
    <2>1. /\ task \in [Jobs -> {"none", "created", "running", "cancelling", "done"}]
          /\ StatusMatchesTask /\ TaskAgreesWithJob
      BY DEF IndInv, TypeOK
    <2>2. CASE Tick
      BY <2>1, <2>2 DEF Tick, TasksAfter, Queued, Live, StatusMatchesTask, TaskAgreesWithJob
    <2>3. CASE ~Tick
      BY <2>1, <2>3 DEF Next, Client, Create, Cancel, Retry, TickDies, TaskStep, TaskBegin,
         TaskRejected, TaskEnd, TaskCancelled, Finish, Lifecycle, Boot, Start, StopBegin,
         StopTasks, StopFinish, Crash, CrashInSave, Forget, Age
    <2>4. QED
      BY <2>2, <2>3
  <1>2. QED
    BY <1>1, Inductive, PTL DEF Spec, NoHandleLost

---------------------------------------------------------------------------
(* The refinement: the manager implements the abstract queue of JobQueue.  *)

---------------------------------------------------------------------------
(* What the mapping needs beside the inductive invariant of the manager.   *)

\* An id that names no job carries no data of one.
AbsentIsEmpty ==
  \A j \in Jobs : /\ jobs[j].status = "absent" => jobs[j] = NoJob
                  /\ disk[j].status = "absent" => disk[j] = NoJob

\* Once stop has cancelled the tasks, no record is left that says running.
NoneRunsAfterStop ==
  phase \in {"draining", "stopped"} => \A j \in Jobs : jobs[j].status # "running"

\* The file says of each job what the memory says, but of one that holds a slot it may
\* say less: that it waits, or that it was cancelled.
FileIsCurrent ==
  phase # "down" /\ ~unsaved =>
    \A j \in Jobs :
      \/ Reload(jobs[j]) = Reload(disk[j])
      \/ j \in running /\ disk[j].status # "absent" /\ disk[j].retries = jobs[j].retries

MapInv == IndInv /\ AbsentIsEmpty /\ NoneRunsAfterStop /\ FileIsCurrent

---------------------------------------------------------------------------
(* The records again.                                                      *)

\* The transitions keep the number of retries, but for a retry.
LEMMA RecordRetries ==
  ASSUME NEW job \in JobRecord
  PROVE  /\ StartJob(job).retries = job.retries
         /\ CompleteJob(job).retries = job.retries
         /\ FailJob(job).retries = job.retries
         /\ CancelJob(job).retries = job.retries
         /\ IncrementRetry(job).retries = job.retries + 1
         /\ Reload(job).retries = job.retries
         /\ Older(job).retries = job.retries
  <1> USE DEF JobRecord
  <1>1. StartJob(job).retries = job.retries
    BY DEF StartJob
  <1>2. CompleteJob(job).retries = job.retries
    BY DEF CompleteJob
  <1>3. FailJob(job).retries = job.retries
    BY DEF FailJob
  <1>4. CancelJob(job).retries = job.retries
    BY DEF CancelJob
  <1>5. IncrementRetry(job).retries = job.retries + 1
    BY DEF IncrementRetry
  <1>6. Reload(job).retries = job.retries
    BY DEF Reload
  <1>7. Older(job).retries = job.retries
    BY DEF Older
  <1>8. QED
    BY <1>1, <1>2, <1>3, <1>4, <1>5, <1>6, <1>7

\* Loading a record keeps its status, but for that of a running job, which is queued.
LEMMA ReloadStatus ==
  ASSUME NEW job \in JobRecord
  PROVE  /\ job.status = "running" => Reload(job).status = "queued"
         /\ job.status # "running" => Reload(job) = job
         /\ Reload(job).status \in Status \ {"running"}
  BY DEF Reload, JobRecord, Status

\* What neither a restart nor time changes: the record of a job that does not exist.
LEMMA NoJobFacts ==
  /\ NoJob.status = "absent" /\ NoJob.retries = 0
  /\ Reload(NoJob) = NoJob /\ Older(NoJob) = NoJob
  /\ \A j \in Jobs : NoJobs[j] = NoJob
  BY DEF NoJob, NoJobs, Reload, Older

\* What the inductive invariant says of the state, in one place.
LEMMA Known ==
  ASSUME IndInv
  PROVE  /\ jobs \in [Jobs -> JobRecord] /\ disk \in [Jobs -> JobRecord]
         /\ task \in [Jobs -> {"none", "created", "running", "cancelling", "done"}]
         /\ running \subseteq Jobs
         /\ phase \in {"down", "up", "stopping", "draining", "stopped"}
         /\ NoSlotLeak /\ StatusMatchesTask /\ TaskAgreesWithJob /\ FreshIdsUnused
         /\ ConcurrencyBound
         /\ \A j \in Jobs : Live(j) => jobs[j].status # "absent"
         /\ phase \in {"down", "stopped"} => running = {}
  BY DEF IndInv, TypeOK, NoSlotLeak, StatusMatchesTask, TaskAgreesWithJob, Live

---------------------------------------------------------------------------
(* The invariant of the mapping.                                           *)

\* If a save leaves no data of a job that is gone in memory, then none in the file.
LEMMA SaveKeepsEmpty ==
  ASSUME AbsentIsEmpty, Save(jobs'),
         \A j \in Jobs : jobs'[j].status = "absent" => jobs'[j] = NoJob
  PROVE  AbsentIsEmpty'
  BY SaveCases, NoJobFacts DEF AbsentIsEmpty

\* Every step leaves the records of jobs that do not exist empty.
LEMMA NextKeepsEmpty ==
  ASSUME IndInv, AbsentIsEmpty, [Next]_vars
  PROVE  AbsentIsEmpty'
  <1>0. /\ jobs \in [Jobs -> JobRecord] /\ disk \in [Jobs -> JobRecord]
        /\ \A j \in Jobs : Live(j) => jobs[j].status # "absent"
    BY Known
  <1>1. ASSUME NEW w \in Workspaces, NEW p \in Priorities, NEW r \in RetryRequests,
               Create(w, p, r)
        PROVE  AbsentIsEmpty'
    <2>1. NewJob(w, p, r).status = "queued"
      BY DEF NewJob
    <2>2. Save(jobs') /\ jobs' = [jobs EXCEPT ![nextId] = NewJob(w, p, r)]
      BY <1>1 DEF Create
    <2>3. QED
      BY <1>0, <2>1, <2>2, SaveKeepsEmpty DEF AbsentIsEmpty
  <1>2. ASSUME NEW j \in Jobs, Cancel(j) \/ Retry(j)
        PROVE  AbsentIsEmpty'
    <2>1. Save(jobs')
      BY <1>2 DEF Cancel, Retry
    <2>2. \/ jobs' = [jobs EXCEPT ![j] = CancelJob(@)]
          \/ jobs' = [jobs EXCEPT ![j] = IncrementRetry(@)]
      BY <1>2 DEF Cancel, Retry
    <2>3. CancelJob(jobs[j]).status = "cancelled" /\ IncrementRetry(jobs[j]).status = "queued"
      BY <1>0, RecordFields
    <2>4. QED
      BY <1>0, <2>1, <2>2, <2>3, SaveKeepsEmpty DEF AbsentIsEmpty
  <1>3. CASE Tick \/ TickDies
    <2>1. \A j \in Jobs : jobs'[j].status = "absent" => jobs'[j] = NoJob
      BY <1>0, <1>3 DEF Tick, TickDies, WithoutExpired, AbsentIsEmpty
    <2>2. Save(jobs') \/ disk' = disk
      BY <1>3 DEF Tick, TickDies, Save
    <2>3. QED
      BY <2>1, <2>2, SaveKeepsEmpty DEF AbsentIsEmpty
  <1>4. ASSUME NEW j \in Jobs, TaskBegin(j)
        PROVE  AbsentIsEmpty'
    <2>1. StartJob(jobs[j]).status = "running"
      BY <1>0, RecordFields
    <2>2. QED
      BY <1>0, <1>4, <2>1 DEF TaskBegin, AbsentIsEmpty
  <1>5. ASSUME NEW j \in Jobs, TaskRejected(j) \/ TaskEnd(j) \/ TaskCancelled(j)
        PROVE  AbsentIsEmpty'
    <2>1. PICK job \in {CompleteJob(jobs[j]), FailJob(jobs[j]), CancelJob(jobs[j])} : Finish(j, job)
      BY <1>5 DEF TaskRejected, TaskEnd, TaskCancelled
    <2>2. job.status # "absent"
      BY <1>0, RecordFields
    <2>3. Save(jobs') /\ jobs' = [jobs EXCEPT ![j] = job]
      BY <2>1 DEF Finish
    <2>4. QED
      BY <1>0, <2>2, <2>3, SaveKeepsEmpty DEF AbsentIsEmpty
  <1>6. CASE Boot
    <2>1. \A j \in Jobs : Reload(disk[j]).status = "absent" => Reload(disk[j]) = NoJob
      BY <1>0, ReloadStatus DEF AbsentIsEmpty
    <2>2. QED
      BY <1>6, <2>1 DEF Boot, Loaded, AbsentIsEmpty
  <1>7. CASE Start \/ StopBegin
    BY <1>7 DEF Start, StopBegin, AbsentIsEmpty
  <1>8. CASE StopTasks
    <2>1. \A j \in Jobs : CancelJob(jobs[j]).status = "cancelled"
      BY <1>0, RecordFields
    <2>2. QED
      BY <1>8, <2>1 DEF StopTasks, AbsentIsEmpty
  <1>9. CASE StopFinish
    BY <1>9, SaveKeepsEmpty DEF StopFinish, AbsentIsEmpty
  <1>10. CASE Crash \/ CrashInSave
    BY <1>10, NoJobFacts DEF Crash, CrashInSave, Forget, AbsentIsEmpty
  <1>11. ASSUME NEW j \in Jobs, Age(j)
         PROVE  AbsentIsEmpty'
    <2>1. /\ Older(jobs[j]).status = jobs[j].status
          /\ Older(disk[j]).status = disk[j].status
      BY <1>0, RecordFields
    <2>2. QED
      BY <1>0, <1>11, <2>1, NoJobFacts DEF Age, AbsentIsEmpty
  <1>12. CASE UNCHANGED vars
    BY <1>12 DEF vars, AbsentIsEmpty
  <1>13. QED
    BY <1>1, <1>2, <1>3, <1>4, <1>5, <1>6, <1>7, <1>8, <1>9, <1>10, <1>11, <1>12
    DEF Next, Client, TaskStep, Lifecycle

\* Every step leaves it so that nothing runs once stop() has cancelled the tasks.
LEMMA NextKeepsNoneRuns ==
  ASSUME IndInv, NoneRunsAfterStop, [Next]_vars
  PROVE  NoneRunsAfterStop'
  <1>0. /\ jobs \in [Jobs -> JobRecord] /\ StatusMatchesTask /\ TaskAgreesWithJob
    BY Known
  <1>1. ASSUME NEW j \in Jobs, TaskRejected(j) \/ TaskEnd(j) \/ TaskCancelled(j)
        PROVE  NoneRunsAfterStop'
    <2>1. PICK job \in {CompleteJob(jobs[j]), FailJob(jobs[j]), CancelJob(jobs[j])} : Finish(j, job)
      BY <1>1 DEF TaskRejected, TaskEnd, TaskCancelled
    <2>2. job.status # "running"
      BY <1>0, RecordFields
    <2>3. QED
      BY <1>0, <2>1, <2>2 DEF Finish, NoneRunsAfterStop
  <1>2. CASE StopTasks
    <2>1. \A j \in Jobs : CancelJob(jobs[j]).status = "cancelled"
      BY <1>0, RecordFields
    <2>2. \A j \in Jobs : jobs[j].status = "running" => Live(j)
      BY <1>0, <1>2 DEF StopTasks, StatusMatchesTask, Live
    <2>3. QED
      BY <1>2, <2>1, <2>2 DEF StopTasks, NoneRunsAfterStop
  <1>3. ASSUME NEW j \in Jobs, Age(j)
        PROVE  NoneRunsAfterStop'
    <2>1. Older(jobs[j]).status = jobs[j].status
      BY <1>0, RecordFields
    <2>2. QED
      BY <1>0, <1>3, <2>1 DEF Age, NoneRunsAfterStop
  <1>4. ASSUME NEW j \in Jobs, TaskBegin(j)
        PROVE  NoneRunsAfterStop'
    BY <1>0, <1>4 DEF TaskBegin, TaskAgreesWithJob, NoneRunsAfterStop
  <1>5. CASE Client \/ Tick \/ TickDies \/ Boot \/ Start \/ StopBegin \/ Crash \/ CrashInSave
    BY <1>5 DEF Client, Create, Cancel, Retry, Tick, TickDies, Boot, Start, StopBegin, Crash,
       CrashInSave, Forget, NoneRunsAfterStop
  <1>6. CASE StopFinish \/ UNCHANGED vars
    BY <1>6 DEF StopFinish, vars, NoneRunsAfterStop
  <1>7. QED
    BY <1>1, <1>2, <1>3, <1>4, <1>5, <1>6 DEF Next, TaskStep, Lifecycle

\* After a save that worked, the file is the memory.
LEMMA SaveMakesCurrent ==
  ASSUME Save(jobs')
  PROVE  FileIsCurrent'
  <1>1. CASE SaveOK(jobs')
    BY <1>1 DEF SaveOK, FileIsCurrent
  <1>2. CASE SaveFails
    BY <1>2 DEF SaveFails, FileIsCurrent
  <1>3. QED
    BY <1>1, <1>2 DEF Save

\* After every step the index file is what the memory is, unless its save failed.
LEMMA NextKeepsFile ==
  ASSUME IndInv, AbsentIsEmpty, FileIsCurrent, [Next]_vars
  PROVE  FileIsCurrent'
  <1>0. /\ jobs \in [Jobs -> JobRecord] /\ disk \in [Jobs -> JobRecord]
        /\ task \in [Jobs -> {"none", "created", "running", "cancelling", "done"}]
        /\ phase \in {"down", "up", "stopping", "draining", "stopped"}
        /\ NoSlotLeak /\ StatusMatchesTask /\ TaskAgreesWithJob
        /\ \A j \in Jobs : Live(j) => jobs[j].status # "absent"
    BY Known
  <1>1. CASE Client \/ TickDies \/ StopFinish
             \/ \E j \in Jobs : TaskRejected(j) \/ TaskEnd(j) \/ TaskCancelled(j)
    <2>1. CASE StopFinish
      <3>1. Save(jobs) /\ jobs' = jobs
        BY <2>1 DEF StopFinish
      <3>2. QED
        BY <3>1, SaveMakesCurrent
    <2>2. CASE ~StopFinish
      <3>1. Save(jobs')
        BY <1>1, <2>2 DEF Client, Create, Cancel, Retry, TickDies, TaskRejected, TaskEnd,
           TaskCancelled, Finish, Save
      <3>2. QED
        BY <3>1, SaveMakesCurrent
    <2>3. QED
      BY <2>1, <2>2
  <1>2. CASE Tick
    <2>1. CASE Expired = {}
      <3>1. jobs' = jobs /\ disk' = disk /\ unsaved' = unsaved /\ phase' = phase
        BY <1>0, <1>2, <2>1 DEF Tick, WithoutExpired
      <3>2. running \subseteq running'
        BY <1>2 DEF Tick
      <3>3. QED
        BY <3>1, <3>2 DEF FileIsCurrent
    <2>2. CASE Expired # {}
      BY <1>2, <2>2, SaveMakesCurrent DEF Tick, Save
    <2>3. QED
      BY <2>1, <2>2
  <1>3. ASSUME NEW j \in Jobs, TaskBegin(j)
        PROVE  FileIsCurrent'
    <2> SUFFICES ASSUME phase # "down", ~unsaved, NEW i \in Jobs
                 PROVE  \/ Reload(jobs'[i]) = Reload(disk[i])
                        \/ i \in running /\ disk[i].status # "absent" /\ disk[i].retries = jobs'[i].retries
      BY <1>3 DEF TaskBegin, FileIsCurrent
    <2>1. \/ Reload(jobs[i]) = Reload(disk[i])
          \/ i \in running /\ disk[i].status # "absent" /\ disk[i].retries = jobs[i].retries
      BY DEF FileIsCurrent
    <2>2. CASE i # j
      BY <1>0, <1>3, <2>1, <2>2 DEF TaskBegin
    <2>3. CASE i = j
      <3>1. jobs'[j] = StartJob(jobs[j]) /\ jobs'[j].retries = jobs[j].retries
        BY <1>0, <1>3, RecordRetries DEF TaskBegin
      <3>2. j \in running /\ jobs[j].status \in {"queued", "cancelled"}
        BY <1>0, <1>3 DEF TaskBegin, TaskAgreesWithJob, NoSlotLeak, Holders
      <3>3. CASE Reload(jobs[j]) = Reload(disk[j])
        <4>1. disk[j].retries = jobs[j].retries
          BY <1>0, <3>3, RecordRetries
        <4>2. disk[j].status # "absent"
          BY <1>0, <3>2, <3>3, ReloadStatus
        <4>3. QED
          BY <2>3, <3>1, <3>2, <4>1, <4>2
      <3>4. CASE Reload(jobs[j]) # Reload(disk[j])
        BY <2>1, <2>3, <3>1, <3>4
      <3>5. QED
        BY <3>3, <3>4
    <2>4. QED
      BY <2>2, <2>3
  <1>4. CASE Boot
    <2>1. \A j \in Jobs : Reload(Reload(disk[j])) = Reload(disk[j])
      BY <1>0, ReloadFacts
    <2>2. QED
      BY <1>4, <2>1 DEF Boot, Loaded, FileIsCurrent
  <1>5. CASE Start \/ StopBegin
    BY <1>5 DEF Start, StopBegin, FileIsCurrent
  <1>6. CASE StopTasks
    <2> SUFFICES ASSUME ~unsaved, NEW j \in Jobs
                 PROVE  \/ Reload(jobs'[j]) = Reload(disk[j])
                        \/ j \in running /\ disk[j].status # "absent" /\ disk[j].retries = jobs'[j].retries
      BY <1>6 DEF StopTasks, FileIsCurrent
    <2>1. /\ phase = "stopping"
          /\ jobs'[j] = IF Live(j) /\ jobs[j].status # "absent" THEN CancelJob(jobs[j]) ELSE jobs[j]
      BY <1>6 DEF StopTasks
    <2>2. \/ Reload(jobs[j]) = Reload(disk[j])
          \/ j \in running /\ disk[j].status # "absent" /\ disk[j].retries = jobs[j].retries
      BY <2>1 DEF FileIsCurrent
    <2>3. jobs'[j].retries = jobs[j].retries
      BY <1>0, <2>1, RecordRetries
    <2>4. CASE ~Live(j)
      BY <2>1, <2>2, <2>4
    <2>5. CASE Live(j) /\ j \in running
      <3>1. CASE Reload(jobs[j]) = Reload(disk[j])
        <4>1. disk[j].retries = jobs[j].retries
          BY <1>0, <3>1, RecordRetries
        <4>2. disk[j].status # "absent"
          <5>1. jobs[j].status # "absent" /\ Reload(jobs[j]).status # "absent"
            BY <1>0, <2>5, ReloadStatus
          <5>2. disk[j].status = "absent" => Reload(disk[j]).status = "absent"
            BY <1>0, ReloadStatus
          <5>3. QED
            BY <3>1, <5>1, <5>2
        <4>3. QED
          BY <2>3, <2>5, <4>1, <4>2
      <3>2. QED
        BY <2>2, <2>3, <3>1
    <2>6. CASE Live(j) /\ j \notin running
      <3>1. task[j] = "cancelling"
        BY <1>0, <2>1, <2>6 DEF NoSlotLeak, Holders, Live
      <3>2. jobs[j].status = "cancelled" /\ jobs[j].doneAt = "recent"
        BY <1>0, <3>1 DEF TaskAgreesWithJob
      <3>3. CancelJob(jobs[j]) = jobs[j]
        BY <1>0, <3>2 DEF CancelJob, JobRecord
      <3>4. QED
        BY <2>1, <2>2, <2>6, <3>3
    <2>7. QED
      BY <2>4, <2>5, <2>6
  <1>7. CASE Crash \/ CrashInSave
    BY <1>7 DEF Crash, CrashInSave, Forget, FileIsCurrent
  <1>8. ASSUME NEW j \in Jobs, Age(j)
        PROVE  FileIsCurrent'
    <2>1. \A job \in JobRecord : /\ Reload(Older(job)) = Older(Reload(job))
                                 /\ Older(job).status = job.status
                                 /\ Older(job).retries = job.retries
      BY ReloadFacts, RecordFields, RecordRetries
    <2>2. \A i \in Jobs :
            /\ Reload(jobs[i]) = Reload(disk[i]) => Reload(jobs'[i]) = Reload(disk'[i])
            /\ disk'[i].status = disk[i].status
            /\ disk'[i].retries = disk[i].retries /\ jobs'[i].retries = jobs[i].retries
      BY <1>0, <1>8, <2>1 DEF Age
    <2>3. phase' = phase /\ unsaved' = unsaved /\ running' = running
      BY <1>8 DEF Age
    <2>4. QED
      BY <2>2, <2>3 DEF FileIsCurrent
  <1>9. CASE UNCHANGED vars
    BY <1>9 DEF vars, FileIsCurrent
  <1>10. QED
    BY <1>1, <1>2, <1>3, <1>4, <1>5, <1>6, <1>7, <1>8, <1>9 DEF Next, TaskStep, Lifecycle

\* A first start has no jobs, no tasks and an empty file.
LEMMA InitMapInv == Init => MapInv
  <1> SUFFICES ASSUME Init PROVE MapInv
    OBVIOUS
  <1>1. IndInv
    BY InitIndInv
  <1>2. AbsentIsEmpty /\ NoneRunsAfterStop /\ FileIsCurrent
    BY NoJobFacts DEF Init, AbsentIsEmpty, NoneRunsAfterStop, FileIsCurrent
  <1>3. QED
    BY <1>1, <1>2 DEF MapInv

\* Every step keeps the invariant of the mapping.
LEMMA NextKeepsMapInv == MapInv /\ [Next]_vars => MapInv'
  <1> SUFFICES ASSUME MapInv, [Next]_vars PROVE MapInv'
    OBVIOUS
  <1>1. IndInv'
    BY NextKeepsIndInv DEF MapInv
  <1>2. AbsentIsEmpty' /\ NoneRunsAfterStop' /\ FileIsCurrent'
    BY NextKeepsEmpty, NextKeepsNoneRuns, NextKeepsFile DEF MapInv
  <1>3. QED
    BY <1>1, <1>2 DEF MapInv

---------------------------------------------------------------------------
(* Steps of the abstract queue, told by what becomes of each job.          *)

Retries(j) == View[j].retries

\* One job moves, and its attempts stay.
LEMMA MovesOne ==
  ASSUME NEW j \in Jobs, NEW from, NEW to,
         AbstractState(j) = from, AbstractState(j)' = to,
         \A i \in Jobs \ {j} : AbstractState(i)' = AbstractState(i)
  PROVE  Queue!Move(j, from, to)
  BY DEF Queue!Move

\* All retries stay.
LEMMA RetriesStay ==
  ASSUME \A i \in Jobs : Retries(i)' = Retries(i)
  PROVE  [i \in Jobs |-> View[i].retries]' = [i \in Jobs |-> View[i].retries]
  BY DEF Retries

\* Nothing moves: the abstract queue may have become durable, or ceased to be.
LEMMA NothingMoves ==
  ASSUME \A i \in Jobs : AbstractState(i)' = AbstractState(i),
         \A i \in Jobs : Retries(i)' = Retries(i)
  PROVE  Queue!Next
  BY RetriesStay DEF Queue!Next

\* One job appears.
LEMMA Submits ==
  ASSUME NEW j \in Jobs, AbstractState(j) = "absent", AbstractState(j)' = "waiting",
         \A i \in Jobs \ {j} : AbstractState(i)' = AbstractState(i),
         \A i \in Jobs : Retries(i)' = Retries(i)
  PROVE  Queue!Next
  BY MovesOne, RetriesStay DEF Queue!Next, Queue!Submit

\* One job is cancelled before it got a slot.
LEMMA Withdraws ==
  ASSUME NEW j \in Jobs, AbstractState(j) = "waiting", AbstractState(j)' = "done",
         \A i \in Jobs \ {j} : AbstractState(i)' = AbstractState(i),
         \A i \in Jobs : Retries(i)' = Retries(i)
  PROVE  Queue!Next
  BY MovesOne, RetriesStay DEF Queue!Next, Queue!Withdraw

\* One job gives up its slot.
LEMMA Ends ==
  ASSUME NEW j \in Jobs, AbstractState(j) = "active", AbstractState(j)' = "done",
         \A i \in Jobs \ {j} : AbstractState(i)' = AbstractState(i),
         \A i \in Jobs : Retries(i)' = Retries(i)
  PROVE  Queue!Next
  BY MovesOne, RetriesStay DEF Queue!Next, Queue!End

\* One job is retried.
LEMMA Resubmits ==
  ASSUME NEW j \in Jobs, AbstractState(j) = "done", AbstractState(j)' = "waiting",
         \A i \in Jobs \ {j} : AbstractState(i)' = AbstractState(i),
         Retries(j)' = Retries(j) + 1,
         \A i \in Jobs \ {j} : Retries(i)' = Retries(i)
  PROVE  Queue!Next
  <1>1. Queue!Move(j, "done", "waiting")
    BY MovesOne
  <1>2. [i \in Jobs |-> View[i].retries]' =
          [[i \in Jobs |-> View[i].retries] EXCEPT ![j] = @ + 1]
    BY DEF Retries
  <1>3. QED
    BY <1>1, <1>2 DEF Queue!Next, Queue!Resubmit

\* The jobs of F are dropped, those of S get a slot.
LEMMA Schedules ==
  ASSUME NEW F \in SUBSET Jobs, NEW S \in SUBSET Jobs,
         \A i \in F : AbstractState(i) = "done",
         \A i \in S : AbstractState(i) = "waiting",
         Cardinality({i \in Jobs : AbstractState(i) = "active"} \cup S) <= MaxConcurrentJobs,
         \A i \in Jobs : AbstractState(i)' = IF i \in F THEN "absent"
                                             ELSE IF i \in S THEN "active" ELSE AbstractState(i),
         \A i \in Jobs : Retries(i)' = IF i \in F THEN 0 ELSE Retries(i)
  PROVE  Queue!Next
  <1>1. /\ F \in SUBSET Queue!In("done") /\ S \in SUBSET Queue!In("waiting")
        /\ Queue!In("active") = {i \in Jobs : AbstractState(i) = "active"}
    BY DEF Queue!In
  <1>2. Queue!Cardinality(Queue!In("active") \cup S) <= MaxConcurrentJobs
    <2>1. \A T : Queue!Cardinality(T) = Cardinality(T)
      BY Zenon DEF Queue!Cardinality, Cardinality
    <2>2. QED
      BY <1>1, <2>1
  <1>3. [i \in Jobs |-> AbstractState(i)]' =
          [i \in Jobs |-> IF i \in F THEN "absent"
                          ELSE IF i \in S THEN "active" ELSE [k \in Jobs |-> AbstractState(k)][i]]
    OBVIOUS
  <1>4. [i \in Jobs |-> View[i].retries]' =
          [i \in Jobs |-> IF i \in F THEN 0 ELSE [k \in Jobs |-> View[k].retries][i]]
    BY DEF Retries
  <1>5. Queue!Schedule(F, S)
    BY <1>2, <1>3, <1>4 DEF Queue!Schedule
  <1>6. QED
    BY <1>1, <1>5 DEF Queue!Next

\* Nothing is active any more, and if the file is the memory nothing else is different.
LEMMA Restarts ==
  ASSUME \A i \in Jobs : AbstractState(i)' \in {"absent", "waiting", "done"},
         \A i \in Jobs : Retries(i)' \in Nat,
         ~unsaved' => /\ ~unsaved
                      /\ \A i \in Jobs : AbstractState(i)' \in Queue!RestartedFrom(AbstractState(i))
                      /\ \A i \in Jobs : Retries(i)' = Retries(i)
  PROVE  Queue!Next
  <1>1. [i \in Jobs |-> AbstractState(i)]' \in [Jobs -> {"absent", "waiting", "done"}]
    OBVIOUS
  <1>2. [i \in Jobs |-> View[i].retries]' \in [Jobs -> Nat]
    BY DEF Retries
  <1>3. ASSUME ~unsaved'
        PROVE  /\ ~unsaved
               /\ \A i \in Jobs : [k \in Jobs |-> AbstractState(k)]'[i]
                                    \in Queue!RestartedFrom([k \in Jobs |-> AbstractState(k)][i])
               /\ [i \in Jobs |-> View[i].retries]' = [i \in Jobs |-> View[i].retries]
    BY <1>3, RetriesStay
  <1>4. QED
    BY <1>1, <1>2, <1>3 DEF Queue!Next, Queue!Restart

---------------------------------------------------------------------------
(* Every step of the manager is one of the abstract queue.                 *)

\* What the abstract queue sees of the memory of a process.
SeenInMemory ==
  phase # "down" => \A j \in Jobs :
    /\ Retries(j) = jobs[j].retries
    /\ AbstractState(j) = IF j \in running THEN "active"
                          ELSE IF jobs[j].status = "absent" THEN "absent"
                          ELSE IF jobs[j].status = "queued" THEN "waiting" ELSE "done"

\* What it sees of the file, while there is none.
SeenInFile ==
  phase = "down" => \A j \in Jobs :
    /\ Retries(j) = disk[j].retries
    /\ AbstractState(j) = IF disk[j].status = "absent" THEN "absent"
                          ELSE IF disk[j].status \in {"queued", "running"}
                            THEN "waiting" ELSE "done"

\* The two cases of what the queue shows: the memory of a process, or the file it left.
LEMMA Seen == IndInv => SeenInMemory /\ SeenInFile
  <1> SUFFICES ASSUME IndInv PROVE SeenInMemory /\ SeenInFile
    OBVIOUS
  <1>0. /\ jobs \in [Jobs -> JobRecord] /\ disk \in [Jobs -> JobRecord]
        /\ phase \in {"down", "stopped"} => running = {}
    BY Known
  <1>1. SeenInMemory
    BY DEF View, AbstractState, Retries, SeenInMemory
  <1>2. SeenInFile
    <2> SUFFICES ASSUME phase = "down", NEW j \in Jobs
                 PROVE  /\ Retries(j) = disk[j].retries
                        /\ AbstractState(j) = IF disk[j].status = "absent" THEN "absent"
                                              ELSE IF disk[j].status \in {"queued", "running"}
                                                THEN "waiting" ELSE "done"
      BY DEF SeenInFile
    <2>1. View[j] = Reload(disk[j])
      BY DEF View, Loaded
    <2>2. Retries(j) = disk[j].retries
      BY <1>0, <2>1, RecordRetries DEF Retries
    <2>3. /\ disk[j].status = "running" => View[j].status = "queued"
          /\ disk[j].status # "running" => View[j].status = disk[j].status
      BY <1>0, <2>1, ReloadStatus
    <2>4. QED
      BY <1>0, <2>2, <2>3 DEF AbstractState
  <1>3. QED
    BY <1>1, <1>2

\* The same of the next state.
LEMMA SeenNext == IndInv' => SeenInMemory' /\ SeenInFile'
  BY Seen, PTL

\* create, cancel and retry are steps of the queue.
LEMMA ClientSteps ==
  ASSUME MapInv, MapInv', Client
  PROVE  Queue!Next
  <1>0. /\ jobs \in [Jobs -> JobRecord] /\ running \subseteq Jobs
        /\ NoSlotLeak /\ StatusMatchesTask /\ TaskAgreesWithJob /\ FreshIdsUnused
        /\ AbsentIsEmpty
        /\ \A j \in Jobs : Live(j) => jobs[j].status # "absent"
    BY Known DEF MapInv
  <1>1. /\ phase = "up" /\ phase' = "up"
    BY DEF Client, Create, Cancel, Retry
  <1>2. \A j \in Jobs :
          /\ Retries(j) = jobs[j].retries
          /\ AbstractState(j) = IF j \in running THEN "active"
                                ELSE IF jobs[j].status = "absent" THEN "absent"
                                ELSE IF jobs[j].status = "queued" THEN "waiting" ELSE "done"
    BY <1>1, Seen DEF MapInv, SeenInMemory
  <1>3. \A j \in Jobs :
          /\ Retries(j)' = jobs'[j].retries
          /\ AbstractState(j)' = IF j \in running' THEN "active"
                                 ELSE IF jobs'[j].status = "absent" THEN "absent"
                                 ELSE IF jobs'[j].status = "queued" THEN "waiting" ELSE "done"
    BY <1>1, SeenNext DEF MapInv, SeenInMemory
  <1>4. ASSUME NEW w \in Workspaces, NEW p \in Priorities, NEW r \in RetryRequests,
               Create(w, p, r)
        PROVE  Queue!Next
    <2>0. PICK n \in Jobs : n = nextId
      BY <1>4 DEF Create
    <2>1. /\ jobs' = [jobs EXCEPT ![n] = NewJob(w, p, r)] /\ running' = running
      BY <1>4, <2>0 DEF Create
    <2>2. n >= nextId /\ jobs[n].status = "absent" /\ jobs[n].retries = 0
      BY <1>0, <2>0, NoJobFacts DEF FreshIdsUnused, AbsentIsEmpty, Jobs
    <2>3. n \notin running
      BY <1>0, <2>2 DEF NoSlotLeak
    <2>4. NewJob(w, p, r).status = "queued" /\ NewJob(w, p, r).retries = 0
      BY DEF NewJob
    <2>5. jobs'[n] = NewJob(w, p, r) /\ \A i \in Jobs \ {n} : jobs'[i] = jobs[i]
      BY <1>0, <2>1
    <2>6. AbstractState(n) = "absent" /\ AbstractState(n)' = "waiting"
      BY <1>2, <1>3, <2>1, <2>2, <2>3, <2>4, <2>5
    <2>7. /\ \A i \in Jobs \ {n} : AbstractState(i)' = AbstractState(i)
          /\ \A i \in Jobs : Retries(i)' = Retries(i)
      BY <1>2, <1>3, <2>1, <2>2, <2>4, <2>5
    <2>8. QED
      BY <2>1, <2>6, <2>7, Submits
  <1>5. ASSUME NEW j \in Jobs, Cancel(j)
        PROVE  Queue!Next
    <2>1. /\ jobs'[j] = CancelJob(jobs[j]) /\ \A i \in Jobs \ {j} : jobs'[i] = jobs[i]
          /\ jobs[j].status # "absent"
          /\ jobs'[j].status = "cancelled" /\ jobs'[j].retries = jobs[j].retries
      BY <1>0, <1>5, RecordFields, RecordRetries DEF Cancel
    <2>2. running' = IF jobs[j].status = "running" THEN running \ {j} ELSE running
      BY <1>5 DEF Cancel
    <2>3. /\ \A i \in Jobs \ {j} : AbstractState(i)' = AbstractState(i)
          /\ \A i \in Jobs : Retries(i)' = Retries(i)
      BY <1>2, <1>3, <2>1, <2>2
    <2>4. CASE jobs[j].status = "running"
      <3>1. j \in running
        BY <1>0, <1>1, <2>4 DEF NoSlotLeak, StatusMatchesTask, Holders
      <3>2. AbstractState(j) = "active" /\ AbstractState(j)' = "done"
        BY <1>2, <1>3, <2>1, <2>2, <2>4, <3>1
      <3>3. QED
        BY <2>3, <3>2, Ends
    <2>5. CASE jobs[j].status # "running" /\ j \notin running /\ jobs[j].status = "queued"
      <3>1. AbstractState(j) = "waiting" /\ AbstractState(j)' = "done"
        BY <1>2, <1>3, <2>1, <2>2, <2>5
      <3>2. QED
        BY <2>3, <3>1, Withdraws
    <2>6. CASE jobs[j].status # "running" /\ (j \in running \/ jobs[j].status # "queued")
      <3>1. AbstractState(j)' = AbstractState(j)
        BY <1>2, <1>3, <2>1, <2>2, <2>6
      <3>2. QED
        BY <2>3, <3>1, NothingMoves
    <2>7. QED
      BY <2>4, <2>5, <2>6
  <1>6. ASSUME NEW j \in Jobs, Retry(j)
        PROVE  Queue!Next
    <2>1. /\ jobs'[j] = IncrementRetry(jobs[j]) /\ \A i \in Jobs \ {j} : jobs'[i] = jobs[i]
          /\ jobs[j].status = "failed" /\ running' = running
          /\ jobs'[j].status = "queued" /\ jobs'[j].retries = jobs[j].retries + 1
      BY <1>0, <1>6, RecordFields, RecordRetries DEF Retry, CanRetry
    <2>2. j \notin running
      BY <1>0, <1>1, <2>1 DEF NoSlotLeak, StatusMatchesTask, TaskAgreesWithJob, Holders
    <2>3. AbstractState(j) = "done" /\ AbstractState(j)' = "waiting" /\ Retries(j)' = Retries(j) + 1
      BY <1>2, <1>3, <2>1, <2>2
    <2>4. \A i \in Jobs \ {j} : AbstractState(i)' = AbstractState(i) /\ Retries(i)' = Retries(i)
      BY <1>2, <1>3, <2>1
    <2>5. QED
      BY <2>3, <2>4, Resubmits
  <1>7. QED
    BY <1>4, <1>5, <1>6 DEF Client

\* A turn of the queue processor drops old jobs and gives slots: a step of the queue.
LEMMA TickSteps ==
  ASSUME MapInv, MapInv', Tick \/ TickDies
  PROVE  Queue!Next
  <1>0. /\ jobs \in [Jobs -> JobRecord] /\ running \subseteq Jobs
        /\ task \in [Jobs -> {"none", "created", "running", "cancelling", "done"}]
        /\ NoSlotLeak /\ StatusMatchesTask /\ TaskAgreesWithJob /\ ConcurrencyBound
    BY Known DEF MapInv
  <1>1. /\ phase = "up" /\ phase' = "up" /\ NoTaskIsFresh /\ jobs' = WithoutExpired
    BY DEF Tick, TickDies
  <1>2. \A j \in Jobs :
          /\ Retries(j) = jobs[j].retries
          /\ AbstractState(j) = IF j \in running THEN "active"
                                ELSE IF jobs[j].status = "absent" THEN "absent"
                                ELSE IF jobs[j].status = "queued" THEN "waiting" ELSE "done"
    BY <1>1, Seen DEF MapInv, SeenInMemory
  <1>3. \A j \in Jobs :
          /\ Retries(j)' = jobs'[j].retries
          /\ AbstractState(j)' = IF j \in running' THEN "active"
                                 ELSE IF jobs'[j].status = "absent" THEN "absent"
                                 ELSE IF jobs'[j].status = "queued" THEN "waiting" ELSE "done"
    BY <1>1, SeenNext DEF MapInv, SeenInMemory
  <1>4. \A j \in running : jobs[j].status = "running"
    BY <1>0, <1>1 DEF NoSlotLeak, StatusMatchesTask, NoTaskIsFresh, Holders
  <1>5. /\ Expired \in SUBSET Jobs
        /\ \A j \in Expired : j \notin running /\ AbstractState(j) = "done"
    BY <1>2, <1>4 DEF Expired, IsFinished
  <1>6. PICK S \in SUBSET Jobs : /\ Startable(S) \/ S = {}
                                 /\ S \subseteq Queued /\ running' = running \cup S
    <2>1. CASE Tick
      BY <2>1 DEF Tick, Startable, Queued
    <2>2. CASE TickDies
      <3>1. running' = running
        BY <2>2 DEF TickDies
      <3>2. running' = running \cup {} /\ {} \in SUBSET Jobs /\ {} \subseteq Queued
        BY <3>1
      <3>3. QED
        BY <3>2
    <2>3. QED
      BY <2>1, <2>2
  <1>7. \A j \in S : j \notin running /\ j \notin Expired /\ AbstractState(j) = "waiting"
    BY <1>2, <1>4, <1>6 DEF Queued, Expired, IsFinished
  <1>8. {i \in Jobs : AbstractState(i) = "active"} = running
    BY <1>0, <1>2
  <1>9. Cardinality(running \cup S) <= MaxConcurrentJobs
    <2>1. CASE Startable(S)
      BY <1>0, <2>1, StartKeepsBound
    <2>2. CASE S = {}
      <3>1. running \cup S = running
        BY <2>2
      <3>2. QED
        BY <1>0, <3>1 DEF ConcurrencyBound
    <2>3. QED
      BY <1>6, <2>1, <2>2
  <1>10. \A j \in Jobs : jobs'[j] = IF j \in Expired THEN NoJob ELSE jobs[j]
    BY <1>1 DEF WithoutExpired
  <1>11. \A i \in Jobs : Retries(i)' = IF i \in Expired THEN 0 ELSE Retries(i)
    BY <1>2, <1>3, <1>10, NoJobFacts
  <1>12. \A i \in Jobs : AbstractState(i)' = IF i \in Expired THEN "absent"
                                             ELSE IF i \in S THEN "active" ELSE AbstractState(i)
    BY <1>2, <1>3, <1>5, <1>6, <1>7, <1>10, NoJobFacts
  <1>13. QED
    BY <1>5, <1>7, <1>8, <1>9, <1>11, <1>12, Schedules

\* What the task of a job does is an end of the job or nothing.
LEMMA TaskSteps ==
  ASSUME MapInv, MapInv', NEW j \in Jobs, TaskStep(j)
  PROVE  Queue!Next
  <1>0. /\ jobs \in [Jobs -> JobRecord] /\ running \subseteq Jobs
        /\ NoSlotLeak /\ StatusMatchesTask /\ TaskAgreesWithJob
        /\ phase \in {"down", "up", "stopping", "draining", "stopped"}
        /\ jobs[j].status # "absent"
    BY Known DEF MapInv, TaskStep, TaskBegin, TaskRejected, TaskEnd, TaskCancelled, Live
  <1>1. phase \notin {"down", "stopped"} /\ phase' = phase
    BY <1>0 DEF TaskStep, TaskBegin, TaskRejected, TaskEnd, TaskCancelled, Finish, TaskAgreesWithJob
  <1>2. \A i \in Jobs :
          /\ Retries(i) = jobs[i].retries
          /\ AbstractState(i) = IF i \in running THEN "active"
                                ELSE IF jobs[i].status = "absent" THEN "absent"
                                ELSE IF jobs[i].status = "queued" THEN "waiting" ELSE "done"
    BY <1>1, Seen DEF MapInv, SeenInMemory
  <1>3. \A i \in Jobs :
          /\ Retries(i)' = jobs'[i].retries
          /\ AbstractState(i)' = IF i \in running' THEN "active"
                                 ELSE IF jobs'[i].status = "absent" THEN "absent"
                                 ELSE IF jobs'[i].status = "queued" THEN "waiting" ELSE "done"
    BY <1>1, SeenNext DEF MapInv, SeenInMemory
  <1>4. CASE TaskBegin(j)
    <2>1. j \in running
      BY <1>0, <1>1, <1>4 DEF TaskBegin, NoSlotLeak, TaskAgreesWithJob, Holders
    <2>2. /\ running' = running /\ \A i \in Jobs \ {j} : jobs'[i] = jobs[i]
          /\ jobs'[j].retries = jobs[j].retries
      BY <1>0, <1>4, RecordRetries DEF TaskBegin
    <2>3. QED
      BY <1>2, <1>3, <2>1, <2>2, NothingMoves
  <1>5. CASE ~TaskBegin(j)
    <2>1. PICK job \in {CompleteJob(jobs[j]), FailJob(jobs[j]), CancelJob(jobs[j])} : Finish(j, job)
      BY <1>5 DEF TaskStep, TaskRejected, TaskEnd, TaskCancelled
    <2>2. /\ job.status \in {"completed", "failed", "cancelled"}
          /\ job.retries = jobs[j].retries
      BY <1>0, RecordFields, RecordRetries
    <2>3. /\ jobs'[j] = job /\ \A i \in Jobs \ {j} : jobs'[i] = jobs[i]
          /\ running' = running \ {j}
      BY <1>0, <2>1 DEF Finish
    <2>4. /\ \A i \in Jobs \ {j} : AbstractState(i)' = AbstractState(i)
          /\ \A i \in Jobs : Retries(i)' = Retries(i)
          /\ AbstractState(j)' = "done"
      BY <1>2, <1>3, <2>2, <2>3
    <2>5. CASE j \in running
      <3>1. AbstractState(j) = "active"
        BY <1>2, <2>5
      <3>2. QED
        BY <2>4, <3>1, Ends
    <2>6. CASE j \notin running
      <3>1. task[j] \in {"created", "running", "cancelling"}
        BY <1>5 DEF TaskStep, TaskRejected, TaskEnd, TaskCancelled
      <3>2. task[j] = "cancelling"
        BY <1>0, <1>1, <2>6, <3>1 DEF NoSlotLeak, TaskAgreesWithJob, Holders
      <3>3. jobs[j].status = "cancelled"
        BY <1>0, <3>2 DEF TaskAgreesWithJob
      <3>4. AbstractState(j) = "done"
        BY <1>2, <2>6, <3>3
      <3>5. QED
        BY <2>4, <3>4, NothingMoves
    <2>7. QED
      BY <2>5, <2>6
  <1>6. QED
    BY <1>4, <1>5

\* Boot, Start and the steps of stop change nothing that the abstract queue shows.
LEMMA LifecycleSteps ==
  ASSUME MapInv, MapInv', Boot \/ Start \/ StopBegin \/ StopTasks \/ StopFinish
  PROVE  Queue!Next
  <1>0. /\ jobs \in [Jobs -> JobRecord] /\ disk \in [Jobs -> JobRecord]
        /\ task \in [Jobs -> {"none", "created", "running", "cancelling", "done"}]
        /\ running \subseteq Jobs /\ NoSlotLeak /\ StatusMatchesTask /\ TaskAgreesWithJob
        /\ \A j \in Jobs : Live(j) => jobs[j].status # "absent"
        /\ phase \in {"down", "stopped"} => running = {}
        /\ SeenInMemory /\ SeenInFile /\ SeenInMemory'
    BY Known, Seen, SeenNext DEF MapInv
  <1>1. CASE Boot
    <2>1. /\ phase = "down" /\ phase' = "up" /\ running' = {}
          /\ \A j \in Jobs : jobs'[j] = Reload(disk[j])
      BY <1>0, <1>1 DEF Boot, Loaded
    <2>2. \A j \in Jobs : /\ jobs'[j].retries = disk[j].retries
                          /\ disk[j].status = "running" => jobs'[j].status = "queued"
                          /\ disk[j].status # "running" => jobs'[j].status = disk[j].status
      BY <1>0, <2>1, RecordRetries, ReloadStatus
    <2>3. \A j \in Jobs : AbstractState(j)' = AbstractState(j) /\ Retries(j)' = Retries(j)
      BY <1>0, <2>1, <2>2 DEF SeenInFile, SeenInMemory
    <2>4. QED
      BY <2>3, NothingMoves
  <1>2. CASE Start \/ StopBegin
    <2>1. jobs' = jobs /\ running' = running /\ phase # "down" /\ phase' # "down"
      BY <1>2 DEF Start, StopBegin
    <2>2. \A j \in Jobs : AbstractState(j)' = AbstractState(j) /\ Retries(j)' = Retries(j)
      BY <1>0, <2>1 DEF SeenInMemory
    <2>3. QED
      BY <2>2, NothingMoves
  <1>3. CASE StopTasks
    <2>1. /\ phase = "stopping" /\ phase' = "draining" /\ running' = running
          /\ \A j \in Jobs : jobs'[j] = IF Live(j) /\ jobs[j].status # "absent"
                                          THEN CancelJob(jobs[j]) ELSE jobs[j]
      BY <1>3 DEF StopTasks
    <2>2. \A j \in Jobs : jobs'[j].retries = jobs[j].retries
      BY <1>0, <2>1, RecordRetries
    <2>3. \A j \in Jobs : Live(j) => j \in running \/ jobs[j].status = "cancelled"
      BY <1>0, <2>1 DEF Live, NoSlotLeak, TaskAgreesWithJob, Holders
    <2>4. \A j \in Jobs : CancelJob(jobs[j]).status = "cancelled"
      BY <1>0, RecordFields
    <2>5. \A j \in Jobs : AbstractState(j)' = AbstractState(j) /\ Retries(j)' = Retries(j)
      BY <1>0, <2>1, <2>2, <2>3, <2>4 DEF SeenInMemory
    <2>6. QED
      BY <2>5, NothingMoves
  <1>4. CASE StopFinish
    <2>1. /\ phase # "down" /\ phase' # "down" /\ jobs' = jobs /\ running' = {}
          /\ running = {}
      BY <1>0, <1>4 DEF StopFinish, NoSlotLeak
    <2>2. \A j \in Jobs : AbstractState(j)' = AbstractState(j) /\ Retries(j)' = Retries(j)
      BY <1>0, <2>1 DEF SeenInMemory
    <2>3. QED
      BY <2>2, NothingMoves
  <1>5. QED
    BY <1>1, <1>2, <1>3, <1>4

\* The end of the process restarts the queue: it is then what the file holds.
LEMMA CrashSteps ==
  ASSUME MapInv, MapInv', Crash \/ CrashInSave
  PROVE  Queue!Next
  <1>0. /\ jobs \in [Jobs -> JobRecord] /\ disk \in [Jobs -> JobRecord]
        /\ running \subseteq Jobs /\ NoSlotLeak /\ StatusMatchesTask
        /\ phase \in {"down", "up", "stopping", "draining", "stopped"}
        /\ \A j \in Jobs : Live(j) => jobs[j].status # "absent"
        /\ SeenInMemory /\ SeenInFile' /\ disk' \in [Jobs -> JobRecord]
        /\ NoneRunsAfterStop /\ FileIsCurrent
    <2>1. disk' \in [Jobs -> JobRecord]
      BY DEF MapInv, IndInv, TypeOK
    <2>2. QED
      BY <2>1, Known, Seen, SeenNext DEF MapInv
  <1>1. phase # "down" /\ phase' = "down"
    BY DEF Crash, CrashInSave, Forget
  <1>2. \A j \in Jobs : AbstractState(j)' \in {"absent", "waiting", "done"}
    BY <1>0, <1>1 DEF SeenInFile
  <1>3. \A j \in Jobs : Retries(j)' \in Nat
    BY <1>0, <1>1 DEF SeenInFile, JobRecord
  <1>4. ASSUME ~unsaved'
        PROVE  /\ ~unsaved
               /\ \A j \in Jobs : AbstractState(j)' \in Queue!RestartedFrom(AbstractState(j))
               /\ \A j \in Jobs : Retries(j)' = Retries(j)
    <2>1. Crash
      BY <1>4 DEF CrashInSave
    <2>2. ~unsaved /\ disk' = disk
      BY <1>4, <2>1 DEF Crash
    <2>3. ASSUME NEW j \in Jobs
          PROVE  /\ AbstractState(j)' \in Queue!RestartedFrom(AbstractState(j))
                 /\ Retries(j)' = Retries(j)
      <3>1. /\ Retries(j) = jobs[j].retries /\ Retries(j)' = disk[j].retries
            /\ AbstractState(j) = IF j \in running THEN "active"
                                  ELSE IF jobs[j].status = "absent" THEN "absent"
                                  ELSE IF jobs[j].status = "queued" THEN "waiting" ELSE "done"
            /\ AbstractState(j)' = IF disk[j].status = "absent" THEN "absent"
                                   ELSE IF disk[j].status \in {"queued", "running"}
                                     THEN "waiting" ELSE "done"
        BY <1>0, <1>1, <2>2 DEF SeenInMemory, SeenInFile
      <3>2. CASE Reload(jobs[j]) = Reload(disk[j])
        <4>1. disk[j].retries = jobs[j].retries
          BY <1>0, <3>2, RecordRetries
        <4>2. /\ jobs[j].status = "running" => Reload(jobs[j]).status = "queued"
              /\ jobs[j].status # "running" => Reload(jobs[j]).status = jobs[j].status
              /\ disk[j].status = "running" => Reload(jobs[j]).status = "queued"
              /\ disk[j].status # "running" => Reload(jobs[j]).status = disk[j].status
          BY <1>0, <3>2, ReloadStatus
        <4>3. CASE j \in running
          <5>1. jobs[j].status # "absent"
            BY <1>0, <4>3 DEF NoSlotLeak
          <5>2. disk[j].status # "absent"
            BY <4>2, <5>1
          <5>3. AbstractState(j) = "active" /\ AbstractState(j)' \in {"waiting", "done"}
            BY <3>1, <4>3, <5>2
          <5>4. QED
            BY <3>1, <4>1, <5>3 DEF Queue!RestartedFrom
        <4>4. CASE j \notin running
          <5>1. jobs[j].status # "running"
            BY <1>0, <1>1, <4>4
            DEF NoneRunsAfterStop, StatusMatchesTask, NoSlotLeak, Holders
          <5>2. AbstractState(j)' = AbstractState(j)
            BY <3>1, <4>2, <4>4, <5>1
          <5>3. AbstractState(j) # "active"
            BY <3>1, <4>4
          <5>4. QED
            BY <3>1, <4>1, <5>2, <5>3 DEF Queue!RestartedFrom
        <4>5. QED
          BY <4>3, <4>4
      <3>3. CASE Reload(jobs[j]) # Reload(disk[j])
        <4>1. j \in running /\ disk[j].status # "absent" /\ disk[j].retries = jobs[j].retries
          BY <1>0, <1>1, <2>2, <3>3 DEF FileIsCurrent
        <4>2. AbstractState(j) = "active" /\ AbstractState(j)' \in {"waiting", "done"}
          BY <3>1, <4>1
        <4>3. QED
          BY <3>1, <4>1, <4>2 DEF Queue!RestartedFrom
      <3>4. QED
        BY <3>2, <3>3
    <2>4. QED
      BY <2>2, <2>3
  <1>5. QED
    BY <1>2, <1>3, <1>4, Restarts

\* That time passes is nothing to the queue.
LEMMA AgeSteps ==
  ASSUME MapInv, MapInv', NEW j \in Jobs, Age(j)
  PROVE  Queue!Next
  <1>0. /\ jobs \in [Jobs -> JobRecord] /\ disk \in [Jobs -> JobRecord]
        /\ SeenInMemory /\ SeenInFile /\ SeenInMemory' /\ SeenInFile'
    BY Known, Seen, SeenNext DEF MapInv
  <1>1. /\ running' = running /\ phase' = phase
        /\ jobs' = [jobs EXCEPT ![j] = Older(@)] /\ disk' = [disk EXCEPT ![j] = Older(@)]
    BY DEF Age
  <1>2. /\ Older(jobs[j]).status = jobs[j].status /\ Older(jobs[j]).retries = jobs[j].retries
        /\ Older(disk[j]).status = disk[j].status /\ Older(disk[j]).retries = disk[j].retries
    BY <1>0, RecordFields, RecordRetries
  <1>3. \A i \in Jobs :
          /\ jobs'[i].status = jobs[i].status /\ jobs'[i].retries = jobs[i].retries
          /\ disk'[i].status = disk[i].status /\ disk'[i].retries = disk[i].retries
    BY <1>0, <1>1, <1>2
  <1>4. \A i \in Jobs : AbstractState(i)' = AbstractState(i) /\ Retries(i)' = Retries(i)
    <2>1. CASE phase = "down"
      BY <1>0, <1>1, <1>3, <2>1 DEF SeenInFile
    <2>2. CASE phase # "down"
      BY <1>0, <1>1, <1>3, <2>2 DEF SeenInMemory
    <2>3. QED
      BY <2>1, <2>2
  <1>5. QED
    BY <1>4, NothingMoves

\* The queue starts empty.
LEMMA InitMaps == Init => Queue!Init
  <1> SUFFICES ASSUME Init PROVE Queue!Init
    OBVIOUS
  <1>1. SeenInFile
    BY InitIndInv, Seen
  <1>2. \A j \in Jobs : AbstractState(j) = "absent" /\ Retries(j) = 0
    BY <1>1, NoJobFacts DEF Init, SeenInFile
  <1>3. ~unsaved
    BY Zenon DEF Init
  <1>4. /\ [j \in Jobs |-> AbstractState(j)] = [j \in Jobs |-> "absent"]
        /\ [j \in Jobs |-> View[j].retries] = [j \in Jobs |-> 0]
    BY <1>2 DEF Retries
  <1>5. QED
    BY <1>3, <1>4 DEF Queue!Init

\* Every step of the manager is a step of the queue or a stutter.
LEMMA NextMaps ==
  MapInv /\ MapInv' /\ [Next]_vars => [Queue!Next]_Queue!vars
  <1> SUFFICES ASSUME MapInv, MapInv', [Next]_vars PROVE [Queue!Next]_Queue!vars
    OBVIOUS
  <1>1. CASE Next
    <2>1. Queue!Next
      BY <1>1, ClientSteps, TickSteps, TaskSteps, LifecycleSteps, CrashSteps, AgeSteps
      DEF Next, Lifecycle
    <2>2. QED
      BY <2>1
  <1>2. CASE UNCHANGED vars
    BY <1>2 DEF vars, Queue!vars, AbstractState, View, Loaded
  <1>3. QED
    BY <1>1, <1>2

\* The manager, with its tasks, its polling processor, its one file and the writes of it
\* that fail, implements the abstract queue: a start takes a slot and comes from the queue,
\* a return to the queue costs a retry, and a restart from an intact file loses no job and
\* runs no finished one again.
THEOREM ManagerImplementsQueue == Spec => ImplementsQueue
  BY InitMapInv, NextKeepsMapInv, InitMaps, NextMaps, PTL DEF Spec, Queue!Spec, ImplementsQueue

=============================================================================
