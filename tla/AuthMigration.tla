---------------------------- MODULE AuthMigration ----------------------------
(***************************************************************************)
(* The migration that makes the first administrator, run by hand or by a   *)
(* script, and by more than one of them, beside a service in which people  *)
(* may register.  Each database statement is a step.  Users are never      *)
(* taken out of the table, which is why a table with users is taken for    *)
(* one that was migrated.                                                  *)
(***************************************************************************)
EXTENDS Naturals, FiniteSets

CONSTANTS Migrators

VARIABLES
  adminName,  \* who has the administrator's name: "nobody", "admin" or "user"
  others,     \* whether there are other users
  recorded,   \* whether the migrations table has the record
  stage,      \* of each run of the migration
  outcome,    \* of each run, when it has ended: what it returned
  creations   \* history: administrators ever created

vars == <<adminName, others, recorded, stage, outcome, creations>>

Return(m, result) ==
  /\ stage' = [stage EXCEPT ![m] = "ended"]
  /\ outcome' = [outcome EXCEPT ![m] = result]

\* _migration_already_run: with users in the table there is nothing to do.
Check(m, createAdmin) ==
  /\ stage[m] = "begin"
  /\ IF others \/ adminName # "nobody"
       THEN Return(m, TRUE)
       ELSE /\ stage' = [stage EXCEPT ![m] = IF createAdmin THEN "exists" ELSE "mark"]
            /\ UNCHANGED outcome
  /\ UNCHANGED <<adminName, others, recorded, creations>>

\* user_exists, by name or e-mail address.
Exists(m) ==
  /\ stage[m] = "exists"
  /\ stage' = [stage EXCEPT ![m] = IF adminName = "nobody" THEN "create" ELSE "mark"]
  /\ UNCHANGED <<adminName, others, recorded, outcome, creations>>

\* Mutant: the insertion replaces who has the name.
CreateReplacing(m) ==
  /\ stage[m] = "create"
  /\ adminName' = "admin" /\ creations' = creations + 1
  /\ stage' = [stage EXCEPT ![m] = "mark"]
  /\ UNCHANGED <<others, recorded, outcome>>

\* create_user: a name that was taken meanwhile fails the run.
Create(m) ==
  /\ stage[m] = "create"
  /\ IF adminName = "nobody"
       THEN /\ adminName' = "admin" /\ creations' = creations + 1
            /\ stage' = [stage EXCEPT ![m] = "mark"]
            /\ UNCHANGED outcome
       ELSE Return(m, FALSE) /\ UNCHANGED <<adminName, creations>>
  /\ UNCHANGED <<others, recorded>>

\* _mark_migration_complete.
Mark(m) ==
  /\ stage[m] = "mark"
  /\ recorded' = TRUE
  /\ Return(m, TRUE)
  /\ UNCHANGED <<adminName, others, creations>>

\* The database is locked: the run returns False.  (A run that is killed is as good as one
\* that never goes on.)
Fail(m) ==
  /\ stage[m] \in {"exists", "create", "mark"}
  /\ Return(m, FALSE)
  /\ UNCHANGED <<adminName, others, recorded, creations>>

\* The script is run again.
Again(m) ==
  /\ stage[m] = "ended"
  /\ stage' = [stage EXCEPT ![m] = "begin"]
  /\ UNCHANGED <<adminName, others, recorded, outcome, creations>>

\* Somebody registers, perhaps under the administrator's name.
Register(asAdmin) ==
  /\ IF asAdmin THEN adminName = "nobody" /\ adminName' = "user" /\ UNCHANGED others
                ELSE others' = TRUE /\ UNCHANGED adminName
  /\ UNCHANGED <<recorded, stage, outcome, creations>>

Init ==
  /\ adminName = "nobody" /\ others = FALSE /\ recorded = FALSE
  /\ stage = [m \in Migrators |-> "begin"]
  /\ outcome = [m \in Migrators |-> FALSE]
  /\ creations = 0

Next ==
  \/ \E m \in Migrators :
       \/ \E createAdmin \in BOOLEAN : Check(m, createAdmin)
       \/ Exists(m) \/ Create(m) \/ Mark(m) \/ Fail(m) \/ Again(m)
  \/ \E asAdmin \in BOOLEAN : Register(asAdmin)

Spec == Init /\ [][Next]_vars

---------------------------------------------------------------------------
(* Properties.                                                             *)

TypeOK ==
  /\ adminName \in {"nobody", "admin", "user"} /\ others \in BOOLEAN /\ recorded \in BOOLEAN
  /\ stage \in [Migrators -> {"begin", "exists", "create", "mark", "ended"}]
  /\ outcome \in [Migrators -> BOOLEAN] /\ creations \in Nat

\* Runs of the migration that overlap make one administrator between them, and none over
\* a user who has the name; and once a run has returned True, the next finds users, or
\* the record, there.
MigrationSound ==
  /\ creations = (IF adminName = "admin" THEN 1 ELSE 0)
  /\ \A m \in Migrators : outcome[m] => recorded \/ others \/ adminName # "nobody"

=============================================================================
