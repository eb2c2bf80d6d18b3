---------------------------- MODULE MCWorkspaces ----------------------------
(***************************************************************************)
(* What the program keeps on disk, side by side: the workspace store with  *)
(* its index file, the workspaces in SQLite, and the migration of the      *)
(* users.  They share nothing, so a behaviour exercises one of them,       *)
(* chosen at the start, and the states are the sum of theirs.  A fourth    *)
(* part, the indexing routes over jobs.json and workspaces.json, is a      *)
(* model of its own, in which the store is less detailed.                  *)
(***************************************************************************)
EXTENDS WorkspaceStore, TLC

CONSTANTS Callers, Titles, NoRow, MaxMade, Migrators,
  MaxSpaces, MaxTasks, MaxRetried, MaxCuts

VARIABLES
  part,
  rows, tree, made, step, forgot, doomed,
  adminName, others, recorded, stage, outcome, creations,
  alive, known, spaces, spaceIndex, tasks, taskIndex, cuts, cutShort, dropped

Sqlite == INSTANCE SqliteWorkspaces
Migration == INSTANCE AuthMigration
Service == INSTANCE IndexingService

ASSUME PartsAssumption == Sqlite!SqliteAssumption /\ Service!ServiceAssumption

SqliteVars == <<rows, tree, made, step, forgot, doomed>>
MigrationVars == <<adminName, others, recorded, stage, outcome, creations>>
ServiceVars == <<alive, known, spaces, spaceIndex, tasks, taskIndex, cuts, cutShort, dropped>>

StorageInit ==
  /\ part \in {"store", "sqlite", "migration", "service"}
  /\ Init /\ Sqlite!Init /\ Migration!Init /\ Service!Init

StorageNext ==
  /\ UNCHANGED part
  /\ \/ part = "store" /\ Next /\ UNCHANGED <<SqliteVars, MigrationVars, ServiceVars>>
     \/ part = "sqlite" /\ Sqlite!Next /\ UNCHANGED <<vars, MigrationVars, ServiceVars>>
     \/ part = "migration" /\ Migration!Next /\ UNCHANGED <<vars, SqliteVars, ServiceVars>>
     \/ part = "service" /\ Service!Next /\ UNCHANGED <<vars, SqliteVars, MigrationVars>>

StorageSpec == StorageInit /\ [][StorageNext]_<<part, vars, SqliteVars, MigrationVars, ServiceVars>>

Symmetry == Permutations(Threads) \cup Permutations(Names) \cup Permutations(Callers)

\* The constraint of the run.  Nothing ends a clash, and past one the properties
\* of the store claim nothing but its types: TLC need not go on from there.
Unclashed == ~clashed

---------------------------------------------------------------------------
(* The properties of the parts; those of the store have their names there. *)

\* The type invariants of the parts.
StorageTypeOK ==
  /\ TypeOK
  /\ part = "sqlite" => Sqlite!TypeOK
  /\ part = "migration" => Migration!TypeOK
  /\ part = "service" => Service!TypeOK

\* WorkspaceStore: as long as no two operations on one name overlap, and nobody gets a name
\* that is taken by writing it with blanks, a name has one workspace, and a workspace its
\* directory with its own settings, if no save failed.
ClashAside == NamesUniqueUnlessClash /\ DirsKeptUnlessClash

\* SqliteWorkspaces: rows and directories go together.  IndexingService: a workspace that
\* is marked as being indexed has a job, and no second active one unless a creation was
\* cut short between its saves.
StoresAgree == Sqlite!RowsAndDirsAgree /\ Service!MarkedHaveJobs /\ Service!OneActiveUnlessCut

\* IndexingService: what clients are told of jobs, in pages, lists and counts, agrees.
ListingsTell == part = "service" => Service!ListingsTell

\* AuthMigration: one administrator, and something to find after a success.
MigrationSound == Migration!MigrationSound

=============================================================================
