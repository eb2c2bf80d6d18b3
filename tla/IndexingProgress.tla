-------------------------- MODULE IndexingProgress --------------------------
(***************************************************************************)
(* The progress figures of one indexing job.  The task runs through eight  *)
(* stages and reports after each step of a stage; between two reports it   *)
(* sleeps, and only then do clients see the figures.  Which stages count   *)
(* as done is decided by the alphabetical order of their names.  Slots,    *)
(* queue and index are those of IndexingManager; here the index keeps what *)
(* was last saved of this job, and is saved whenever another job changes.  *)
(* A job may be cancelled whatever became of it, also between the creation *)
(* of its task and the first step of it, which the task does not notice.   *)
(*                                                                         *)
(* Progress is counted in units of 1/120 of a percent, in which every step *)
(* of a stage is a whole number.                                           *)
(***************************************************************************)
EXTENDS Integers, Sequences, FiniteSetsExt

CONSTANTS
  Files,       \* text files of the workspace: a step of the text processing each
  MaxRetries

ProgressAssumption == Files \in 0..6 /\ MaxRetries \in Nat

VARIABLES
  job,    \* status, retries, stage, step within the stage, overall progress
  fresh,  \* a task was made for the job and has not taken its first step
  saved   \* the job in the index

vars == <<job, fresh, saved>>

\* stage_weights, in the order in which the stages run, in percent.
Weight == <<5, 25, 25, 20, 15, 5, 3, 2>>
Stages == DOMAIN Weight

\* Steps of each stage.
Steps == <<1, Files, 10, 8, 6, 4, 3, 1>>

\* Alphabetical places of initialization, text_processing, entity_extraction,
\* relationship_extraction, community_detection, embedding_generation, index_creation
\* and finalization.
Place == <<6, 8, 3, 7, 1, 2, 5, 4>>

Unit == 120
Whole == 100 * Unit

\* What some of the stages are worth.
WorthOf(S) ==
  LET share(j) == IF j \in S THEN Weight[j] * Unit ELSE 0
  IN share(1) + share(2) + share(3) + share(4) + share(5) + share(6) + share(7) + share(8)

\* What the first n steps of the stage k are worth.
Worth(k, n) == IF Steps[k] = 0 THEN 0 ELSE (Weight[k] * Unit * n) \div Steps[k]

\* Mutant: every stage of a smaller name counts, also one still to come.
OverallUnbroken(k, n) ==
  WorthOf({j \in Stages : Place[j] < Place[k]}) + Worth(k, n)

\* _update_overall_progress: the stages before the present one whose name is smaller.
Overall(k, n) ==
  WorthOf({j \in 1..(k - 1) : Place[j] < Place[k]}) + Worth(k, n)

\* The stage whose first step follows the stage k.
After(k) == Min({j \in Stages : j > k /\ Steps[j] > 0})

---------------------------------------------------------------------------

\* _start_indexing_job.
StartTask ==
  /\ job.status = "queued" /\ ~fresh
  /\ fresh' = TRUE
  /\ UNCHANGED <<job, saved>>

\* execute_indexing and the initialization, up to its sleep: the job runs, also when it
\* was cancelled since the task was made.
Begin ==
  /\ fresh /\ fresh' = FALSE
  /\ job' = [job EXCEPT !.status = "running", !.stage = 1, !.step = 1, !.overall = Overall(1, 1)]
  /\ UNCHANGED saved

\* The directory of the workspace is not found: the figure stays that of the attempt
\* before.
BeginFails ==
  /\ fresh /\ fresh' = FALSE
  /\ job' = [job EXCEPT !.status = "failed", !.stage = 1, !.step = 0]
  /\ saved' = job'

\* The initialization has slept, and the next stage is entered, up to its sleep.
Enter ==
  /\ job.status = "running" /\ job.stage = 1
  /\ job' = [job EXCEPT !.stage = After(1), !.step = 0]
  /\ UNCHANGED <<fresh, saved>>

\* A step of a stage; the last one enters the next stage.
Step ==
  /\ job.status = "running" /\ job.stage \in 2..6
  /\ LET n == job.step + 1
         last == n = Steps[job.stage]
     IN job' = [job EXCEPT !.stage = IF last THEN After(@) ELSE @,
                           !.step = IF last THEN 0 ELSE n,
                           !.overall = Overall(job.stage, n)]
  /\ UNCHANGED <<fresh, saved>>

\* A step of the index creation; the last one is followed by the finalization, which
\* does not sleep, and complete_job sets the figure itself.
IndexStep ==
  /\ job.status = "running" /\ job.stage = 7
  /\ IF job.step + 1 < Steps[7]
       THEN /\ job' = [job EXCEPT !.step = @ + 1, !.overall = Overall(7, job.step + 1)]
            /\ UNCHANGED saved
       ELSE /\ job' = [job EXCEPT !.status = "completed", !.stage = 8, !.step = 1, !.overall = Whole]
            /\ saved' = job'
  /\ UNCHANGED fresh

\* The summary cannot be written.
SummaryFails ==
  /\ job.status = "running" /\ job.stage = 7 /\ job.step + 1 = Steps[7]
  /\ job' = [job EXCEPT !.status = "failed", !.stage = 8, !.step = 0, !.overall = Overall(7, Steps[7])]
  /\ saved' = job'
  /\ UNCHANGED fresh

\* cancel_job, of a job in any state; the figures stay.  A task that runs is stopped at
\* its sleep and changes nothing any more; one that has not begun goes on.
Cancel ==
  /\ job' = [job EXCEPT !.status = "cancelled"]
  /\ saved' = job'
  /\ UNCHANGED fresh

\* stop: a task is cancelled, and one that has not begun never does.
Stop ==
  /\ fresh \/ job.status = "running"
  /\ job' = [job EXCEPT !.status = "cancelled"]
  /\ fresh' = FALSE
  /\ saved' = job'

\* Mutant: a job that was cancelled can be tried again.
RetryCancelled ==
  /\ job.status \in {"failed", "cancelled"} /\ job.retries < MaxRetries
  /\ job' = [job EXCEPT !.status = "queued", !.retries = @ + 1]
  /\ saved' = job'
  /\ UNCHANGED fresh

\* retry_job; the figures stay.
Retry ==
  /\ job.status = "failed" /\ job.retries < MaxRetries
  /\ job' = [job EXCEPT !.status = "queued", !.retries = @ + 1]
  /\ saved' = job'
  /\ UNCHANGED fresh

\* Another job changes, and the index is saved.
Save == saved' = job /\ UNCHANGED <<job, fresh>>

\* A crash and the restart: a job that ran is queued again, with the figures saved last.
Restart ==
  /\ job' = [saved EXCEPT !.status = IF @ = "running" THEN "queued" ELSE @]
  /\ fresh' = FALSE
  /\ UNCHANGED saved

Init ==
  /\ job = [status |-> "queued", retries |-> 0, stage |-> 1, step |-> 0, overall |-> 0]
  /\ fresh = FALSE
  /\ saved = job

Next ==
  \/ StartTask \/ Begin \/ BeginFails \/ Enter \/ Step \/ IndexStep \/ SummaryFails
  \/ Cancel \/ Stop \/ Retry \/ Save \/ Restart

Spec == Init /\ [][Next]_vars

---------------------------------------------------------------------------
(* Properties.                                                             *)

Job == [status : {"queued", "running", "completed", "failed", "cancelled"},
        retries : 0..MaxRetries, stage : Stages, step : 0..10, overall : 0..Whole]

TypeOK == job \in Job /\ saved \in Job /\ fresh \in BOOLEAN

\* The share of the work that is done.
Done == WorthOf(1..(job.stage - 1)) + Worth(job.stage, job.step)

\* While a task runs, the figure never claims more than the task has done, though it
\* falls when a stage of a smaller name begins.  A completed job shows the whole, and
\* what shows the whole has done all of its work, even if it was cancelled afterwards:
\* no attempt, lost cancellation, crash or save leaves a whole figure on other work.
NeverOverstated ==
  /\ job.status = "running" => job.overall <= Done
  /\ job.status = "completed" => job.overall = Whole
  /\ job.overall = Whole => job.status \in {"completed", "cancelled"} /\ Done = Whole

=============================================================================
