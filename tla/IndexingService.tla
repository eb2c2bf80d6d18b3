-------------------------- MODULE IndexingService --------------------------
(***************************************************************************)
(* The indexing routes over the two managers they join: that of the jobs   *)
(* and that of the workspaces, each with an index file of its own.  A      *)
(* handler does not suspend, so that it is one step, but it saves twice,   *)
(* and either save may fail, or the process end between them.  The queue   *)
(* of the jobs in detail is in IndexingManager, the writing of the         *)
(* workspaces' index beside the threads of creations in WorkspaceStore.    *)
(***************************************************************************)
EXTENDS Integers, FiniteSets, SequencesExt, Selection

CONSTANTS
  MaxSpaces, MaxTasks, \* bounds: workspaces ever created, which are numbered, and jobs kept
  MaxRetried,          \* max_retries of a job
  MaxCuts              \* bound: saves that fail, and crashes between two saves

ServiceAssumption == MaxSpaces \in Nat /\ MaxTasks \in Nat /\ MaxRetried \in Nat /\ MaxCuts \in Nat

VARIABLES
  alive,       \* the process runs
  known,       \* workspaces ever created
  spaces,      \* the status of each workspace, or "absent", in memory ...
  spaceIndex,  \* ... and in workspaces.json
  tasks,       \* jobs in memory, the oldest first: of which workspace, status, retries and
               \* whether created in the last 24 hours ...
  taskIndex,   \* ... and in jobs.json
  cuts,        \* saves that failed, and crashes between two saves
  cutShort,    \* history: workspaces whose job was created without the marking being saved
  dropped      \* history: workspaces one of whose jobs was cleaned up or lost with its index

vars == <<alive, known, spaces, spaceIndex, tasks, taskIndex, cuts, cutShort, dropped>>

Spaces == 1..MaxSpaces
Statuses == {"queued", "running", "completed", "failed", "cancelled"}
Finished == {"completed", "failed", "cancelled"}

NoSpaces == [w \in Spaces |-> "absent"]

TasksOf(w) == {j \in DOMAIN tasks : tasks[j].of = w}
ActiveTasks(w) == {j \in TasksOf(w) : tasks[j].status \in {"queued", "running"}}
InService(j) == alive /\ j \in DOMAIN tasks

\* A write of the whole index; one that fails leaves a file that loads as empty.
SaveTasks == taskIndex' = tasks'

Fault == cuts < MaxCuts /\ cuts' = cuts + 1

NewTask(w) == Append(tasks, [of |-> w, status |-> "queued", retries |-> 0, recent |-> TRUE])

\* Mutant: any workspace will do.
AcceptedAlways(w) ==
  /\ alive /\ spaces[w] # "absent"
  /\ ActiveTasks(w) = {}
  /\ Len(tasks) < MaxTasks

\* create_indexing_job accepts the workspace.
Accepted(w) ==
  /\ alive /\ spaces[w] = "created"
  /\ ActiveTasks(w) = {}
  /\ Len(tasks) < MaxTasks

\* POST /indexing/jobs: the job is stored and saved, then the workspace is marked and saved.
CreateJob(w) ==
  /\ Accepted(w)
  /\ tasks' = NewTask(w) /\ SaveTasks
  /\ spaces' = [spaces EXCEPT ![w] = "indexing"]
  /\ spaceIndex' = spaces'
  /\ UNCHANGED <<alive, known, cuts, cutShort, dropped>>

\* The first save fails: the client is told so, but the job stays in memory, and the
\* workspace is not marked.
FirstSaveFails(w) ==
  /\ Accepted(w) /\ Fault
  /\ tasks' = NewTask(w)
  /\ taskIndex' = <<>>
  /\ cutShort' = cutShort \cup {w}
  /\ dropped' = dropped \cup {v \in Spaces : TasksOf(v) # {}}
  /\ UNCHANGED <<alive, known, spaces, spaceIndex>>

\* The second save fails: job and mark stay in memory.
SecondSaveFails(w) ==
  /\ Accepted(w) /\ Fault
  /\ tasks' = NewTask(w) /\ SaveTasks
  /\ spaces' = [spaces EXCEPT ![w] = "indexing"]
  /\ spaceIndex' = NoSpaces
  /\ cutShort' = cutShort \cup {w}
  /\ UNCHANGED <<alive, known, dropped>>

\* Mutant: the workspace is marked and saved before the job.
CrashBeforeJob(w) ==
  /\ Accepted(w) /\ Fault
  /\ alive' = FALSE
  /\ spaceIndex' = [spaces EXCEPT ![w] = "indexing"]
  /\ tasks' = <<>> /\ spaces' = NoSpaces
  /\ UNCHANGED <<known, taskIndex, cutShort, dropped>>

\* The process ends between the saves.
CrashBetween(w) ==
  /\ Accepted(w) /\ Fault
  /\ alive' = FALSE
  /\ taskIndex' = NewTask(w)
  /\ cutShort' = cutShort \cup {w}
  /\ tasks' = <<>> /\ spaces' = NoSpaces
  /\ UNCHANGED <<known, spaceIndex, dropped>>

---------------------------------------------------------------------------
(* The other operations.                                                   *)

\* DELETE /indexing/jobs/{id}, and the GraphQL mutations: any job, one that has ended too.
\* (That a cancellation may be lost is in IndexingManager.)
CancelJob(j) ==
  /\ InService(j)
  /\ tasks' = [tasks EXCEPT ![j].status = "cancelled"] /\ SaveTasks
  /\ UNCHANGED <<alive, known, spaces, spaceIndex, cuts, cutShort, dropped>>

\* POST /indexing/jobs/{id}/retry: the workspace is not asked for.
RetryJob(j) ==
  /\ InService(j) /\ tasks[j].status = "failed" /\ tasks[j].retries < MaxRetried
  /\ tasks' = [tasks EXCEPT ![j] = [@ EXCEPT !.status = "queued", !.retries = tasks[j].retries + 1]] /\ SaveTasks
  /\ UNCHANGED <<alive, known, spaces, spaceIndex, cuts, cutShort, dropped>>

\* The queue processor starts a job; it does not ask for the workspace either, which may
\* have been deleted ...
RunJob(j) ==
  /\ InService(j) /\ tasks[j].status = "queued"
  /\ tasks' = [tasks EXCEPT ![j].status = "running"]
  /\ UNCHANGED <<alive, known, spaces, spaceIndex, taskIndex, cuts, cutShort, dropped>>

\* ... and the end of a job leaves the status of the workspace alone.
EndJob(j, status) ==
  /\ InService(j) /\ tasks[j].status = "running"
  /\ tasks' = [tasks EXCEPT ![j].status = status] /\ SaveTasks
  /\ UNCHANGED <<alive, known, spaces, spaceIndex, cuts, cutShort, dropped>>

\* The jobs, the oldest first, become older than a day.
Age(j) ==
  /\ InService(j) /\ tasks[j].recent
  /\ tasks' = [i \in DOMAIN tasks |-> IF i <= j THEN [tasks[i] EXCEPT !.recent = FALSE] ELSE tasks[i]]
  /\ taskIndex' = [i \in DOMAIN taskIndex |-> IF i <= j THEN [taskIndex[i] EXCEPT !.recent = FALSE] ELSE taskIndex[i]]
  /\ UNCHANGED <<alive, known, spaces, spaceIndex, cuts, cutShort, dropped>>

\* The clean-up of jobs that ended more than two days ago; kept are the places of the others.
DropOld(kept) ==
  LET old == DOMAIN tasks \ {kept[n] : n \in DOMAIN kept} IN
  /\ \A m, n \in DOMAIN kept : m < n => kept[m] < kept[n]
  /\ \A j \in old : InService(j) /\ tasks[j].status \in Finished /\ ~tasks[j].recent
  /\ tasks' = [n \in DOMAIN kept |-> tasks[kept[n]]] /\ SaveTasks
  /\ dropped' = dropped \cup {tasks[j].of : j \in old}
  /\ UNCHANGED <<alive, known, spaces, spaceIndex, cuts, cutShort>>

\* POST /workspaces and DELETE /workspaces/{id}.
CreateSpace ==
  /\ alive /\ known < MaxSpaces
  /\ known' = known + 1
  /\ spaces' = [spaces EXCEPT ![known + 1] = "created"]
  /\ spaceIndex' = spaces'
  /\ UNCHANGED <<alive, tasks, taskIndex, cuts, cutShort, dropped>>

DeleteSpace(w) ==
  /\ alive /\ spaces[w] # "absent"
  /\ spaces' = [spaces EXCEPT ![w] = "absent"]
  /\ spaceIndex' = spaces'
  /\ UNCHANGED <<alive, known, tasks, taskIndex, cuts, cutShort, dropped>>

Kill ==
  /\ alive /\ alive' = FALSE
  /\ tasks' = <<>> /\ spaces' = NoSpaces
  /\ UNCHANGED <<known, spaceIndex, taskIndex, cuts, cutShort, dropped>>

\* Both indexes are loaded; running jobs are queued again.
Reboot ==
  /\ ~alive /\ alive' = TRUE
  /\ spaces' = spaceIndex
  /\ tasks' = [j \in DOMAIN taskIndex |->
       IF taskIndex[j].status = "running" THEN [taskIndex[j] EXCEPT !.status = "queued"] ELSE taskIndex[j]]
  /\ UNCHANGED <<known, spaceIndex, taskIndex, cuts, cutShort, dropped>>

Init ==
  /\ alive = TRUE /\ known = 0 /\ cuts = 0
  /\ spaces = NoSpaces /\ spaceIndex = NoSpaces
  /\ tasks = <<>> /\ taskIndex = <<>>
  /\ cutShort = {} /\ dropped = {}

Next ==
  \/ \E w \in Spaces :
       CreateJob(w) \/ FirstSaveFails(w) \/ SecondSaveFails(w) \/ CrashBetween(w) \/ DeleteSpace(w)
  \/ \E n \in 0..(Len(tasks) - 1) : \E kept \in [1..n -> DOMAIN tasks] : DropOld(kept)
  \/ \E j \in DOMAIN tasks :
       \/ CancelJob(j) \/ RetryJob(j) \/ RunJob(j) \/ Age(j)
       \/ \E status \in {"completed", "failed"} : EndJob(j, status)
  \/ CreateSpace \/ Kill \/ Reboot

Spec == Init /\ [][Next]_vars

---------------------------------------------------------------------------
(* What the clients are told of the jobs.                                  *)

WithStatus(status) == Selected(tasks, {j \in DOMAIN tasks : tasks[j].status = status})

\* list_jobs, with a status or for "any": the newest first.
ListJobs(status, limit) ==
  LET listed == Reverse(IF status = "any" THEN tasks ELSE WithStatus(status))
  IN SubSeq(listed, 1, IF limit < 0 THEN Len(listed) + limit ELSE Min({limit, Len(listed)}))

\* Mutant: a full page is taken for the last one.
PageThatFits(status, first) ==
  LET listed == ListJobs(status, first)
  IN [jobs |-> listed, next |-> Len(listed) > first, total |-> Len(listed)]

\* The GraphQL field indexing_jobs: where the client asks to go on from is ignored.
JobsPage(status, first) ==
  LET listed == ListJobs(status, first)
  IN [jobs |-> listed, next |-> Len(listed) = first, total |-> Len(listed)]

\* GET /indexing/workspaces/{id}/jobs: the workspace is not really asked for, so that the
\* jobs of one that was deleted, or never was, are told as well.
WorkspaceJobs(w) == Selected(tasks, TasksOf(w))

\* get_indexing_stats, without the times; the rate is that of good among ended.
Recent == {j \in DOMAIN tasks : tasks[j].recent}
IndexingStats ==
  [total |-> Len(tasks),
   counts |-> [status \in Statuses |-> Len(WithStatus(status))],
   good |-> Len(WithStatus("completed")),
   ended |-> Len(WithStatus("completed")) + Len(WithStatus("failed")),
   recentJobs |-> Cardinality(Recent),
   recentCompletions |-> Cardinality({j \in Recent : tasks[j].status \in Finished})]

---------------------------------------------------------------------------
(* Properties.                                                             *)

TypeOK ==
  /\ alive \in BOOLEAN /\ known \in 0..MaxSpaces /\ cuts \in 0..MaxCuts
  /\ {spaces, spaceIndex} \subseteq [Spaces -> {"absent", "created", "indexing"}]
  /\ {tasks, taskIndex} \subseteq
       Seq([of : Spaces, status : Statuses, retries : 0..MaxRetried, recent : BOOLEAN])

\* A workspace that is marked as being indexed has a job, unless its old jobs were cleaned
\* up or their index was lost, whichever save failed and wherever the process ended.
MarkedHaveJobs ==
  alive => \A w \in Spaces \ dropped : spaces[w] = "indexing" => TasksOf(w) # {}

\* No workspace has two active jobs, retries included, as long as no creation of a job for
\* it was cut short between its two saves: it is the mark of the workspace, which nothing
\* ever takes back, that keeps a second job from being created after a failed one.
OneActiveUnlessCut ==
  \A w \in Spaces \ cutShort : Cardinality(ActiveTasks(w)) <= 1

\* The readings agree with one another.  A page is the newest jobs, and whoever is told
\* that there is no next one was given them all, though a next one may be promised where
\* there is none.  The lists of the workspaces, deleted ones too, share out the list of
\* all.  The counts share out the total, and whatever has ended in the last day, failed
\* and cancelled jobs too, is a completion.
ListingsTell ==
  LET all == ListJobs("any", MaxTasks)
      told == IndexingStats
  IN /\ \A first \in 0..MaxTasks : LET page == JobsPage("any", first) IN
          /\ IsPrefix(page.jobs, all)
          /\ ~page.next => page.jobs = all
          /\ page.next /\ page.jobs = all => Len(all) = first
     /\ \A status \in Statuses : Len(ListJobs(status, MaxTasks)) = told.counts[status]
     /\ Summed([w \in 1..known |-> Len(WorkspaceJobs(w))]) = Len(all)
     /\ Summed(told.counts) = told.total
     /\ told.good <= told.ended /\ told.recentCompletions <= told.recentJobs
     /\ told.recentCompletions >= Cardinality({j \in Recent : tasks[j].status = "completed"})

=============================================================================
