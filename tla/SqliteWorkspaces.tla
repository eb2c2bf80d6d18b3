-------------------------- MODULE SqliteWorkspaces --------------------------
(***************************************************************************)
(* The workspace manager that keeps its workspaces in SQLite.  Callers are *)
(* threads or processes: each statement is atomic, and names are unique in *)
(* the database, but the directory of a workspace is made before its row   *)
(* and removed before it.  A directory has a name of its own, not the id   *)
(* of the row, which alone remembers it.                                   *)
(***************************************************************************)
EXTENDS Naturals, FiniteSets

CONSTANTS
  Callers,
  Titles,   \* workspace names
  NoRow,
  MaxMade   \* bound: creations that come to make a directory; they are numbered

Row == [name : Titles, title : Titles, path : BOOLEAN]

SqliteAssumption == MaxMade \in Nat /\ NoRow \notin Row

VARIABLES
  rows,    \* by number of the creation: the name of the row, and the name in its config
  tree,    \* directories that exist, by the same number
  made,    \* creations so far
  step,    \* of each caller: where it stands, and with which name or number
  forgot,  \* history: directories that nobody was to remove: of a creation or deletion that
           \* a crash or a swallowed error cut short, of a workspace deleted without its
           \* files, or whose config was overwritten
  doomed   \* history: rows whose directory a deletion has removed

vars == <<rows, tree, made, step, forgot, doomed>>

Numbers == 1..MaxMade
InRows == {i \in Numbers : rows[i] # NoRow}
Ready == [at |-> "ready"]

\* The UNIQUE of the table.
NameInUse(n) == \E i \in InRows : rows[i].name = n

---------------------------------------------------------------------------
(* create_workspace.                                                       *)

\* The name is looked up ...
LookUp(c, n) ==
  /\ step[c] = Ready
  /\ ~NameInUse(n)
  /\ step' = [step EXCEPT ![c] = [at |-> "mkdir", name |-> n]]
  /\ UNCHANGED <<rows, tree, made, forgot, doomed>>

\* ... the directories and settings.yaml are made ...
MakeDirs(c) ==
  /\ step[c].at = "mkdir" /\ made < MaxMade
  /\ made' = made + 1
  /\ tree' = tree \cup {made + 1}
  /\ step' = [step EXCEPT ![c] = [at |-> "insert", name |-> step[c].name, dir |-> made + 1]]
  /\ UNCHANGED <<rows, forgot, doomed>>

\* ... and the row is inserted, unless somebody else has the name by now.
Insert(c) ==
  /\ step[c].at = "insert"
  /\ IF NameInUse(step[c].name)
       THEN step' = [step EXCEPT ![c].at = "undo"] /\ UNCHANGED rows
       ELSE /\ rows' = [rows EXCEPT ![step[c].dir] =
                         [name |-> step[c].name, title |-> step[c].name, path |-> TRUE]]
            /\ step' = [step EXCEPT ![c] = Ready]
  /\ UNCHANGED <<tree, made, forgot, doomed>>

\* The configuration cannot be written, or the database is locked.
CreationFails(c) ==
  /\ step[c].at = "insert"
  /\ step' = [step EXCEPT ![c].at = "undo"]
  /\ UNCHANGED <<rows, tree, made, forgot, doomed>>

\* Mutant: the directories of a failed creation stay.
UndoNothing(c) ==
  /\ step[c].at = "undo"
  /\ step' = [step EXCEPT ![c] = Ready]
  /\ UNCHANGED <<rows, tree, made, forgot, doomed>>

\* What rmtree does with ignore_errors: it removes the directory, or it does not.
RemoveTree(d) ==
  \/ tree' = tree \ {d} /\ UNCHANGED forgot
  \/ forgot' = forgot \cup {d} /\ UNCHANGED tree

\* The handler of the exception.
Undo(c) ==
  /\ step[c].at = "undo"
  /\ RemoveTree(step[c].dir)
  /\ step' = [step EXCEPT ![c] = Ready]
  /\ UNCHANGED <<rows, made, doomed>>

---------------------------------------------------------------------------
(* The other operations, and the end of the callers.                       *)

\* update_workspace with a name: the row is renamed, the name in its config is not.
Rename(i, n) ==
  /\ i \in InRows /\ ~NameInUse(n)
  /\ rows' = [rows EXCEPT ![i].name = n]
  /\ UNCHANGED <<tree, made, step, forgot, doomed>>

\* update_workspace with a config: one without the paths makes the row forget its directory.
Reconfigure(i, n, path) ==
  /\ i \in InRows
  /\ rows' = [rows EXCEPT ![i] = [name |-> @.name, title |-> n, path |-> path /\ @.path]]
  /\ forgot' = IF path THEN forgot ELSE forgot \cup {i}
  /\ UNCHANGED <<tree, made, step, doomed>>

\* delete_workspace with remove_files: first the directory, if the row remembers one ...
RemoveFiles(c, i) ==
  /\ step[c] = Ready /\ i \in InRows
  /\ IF rows[i].path THEN RemoveTree(i) ELSE UNCHANGED <<tree, forgot>>
  /\ doomed' = doomed \cup {i}
  /\ step' = [step EXCEPT ![c] = [at |-> "delete", row |-> i]]
  /\ UNCHANGED <<rows, made>>

\* ... and then the row, if it is still there.
DeleteRow(c) ==
  /\ step[c].at = "delete"
  /\ rows' = [rows EXCEPT ![step[c].row] = NoRow]
  /\ step' = [step EXCEPT ![c] = Ready]
  /\ UNCHANGED <<tree, made, forgot, doomed>>

\* Without remove_files, the row alone.
Forget(i) ==
  /\ i \in InRows
  /\ rows' = [rows EXCEPT ![i] = NoRow]
  /\ forgot' = forgot \cup {i}
  /\ UNCHANGED <<tree, made, step, doomed>>

\* A caller ends wherever it stands.
Crash(c) ==
  /\ step[c] # Ready
  /\ forgot' = IF step[c].at \in {"insert", "undo"} THEN forgot \cup {step[c].dir} ELSE forgot
  /\ step' = [step EXCEPT ![c] = Ready]
  /\ UNCHANGED <<rows, tree, made, doomed>>

Init ==
  /\ rows = [i \in Numbers |-> NoRow]
  /\ tree = {} /\ made = 0
  /\ step = [c \in Callers |-> Ready]
  /\ forgot = {} /\ doomed = {}

Next ==
  \/ \E c \in Callers :
       \/ \E n \in Titles : LookUp(c, n)
       \/ MakeDirs(c) \/ Insert(c) \/ CreationFails(c) \/ Undo(c)
       \/ \E i \in Numbers : RemoveFiles(c, i)
       \/ DeleteRow(c) \/ Crash(c)
  \/ \E i \in Numbers :
       \/ \E n \in Titles : Rename(i, n)
       \/ \E n \in Titles, path \in BOOLEAN : Reconfigure(i, n, path)
       \/ Forget(i)

Spec == Init /\ [][Next]_vars

---------------------------------------------------------------------------
(* Properties.                                                             *)

TypeOK ==
  /\ \A i \in InRows : rows[i].name \in Titles /\ rows[i].title \in Titles
  /\ made \in 0..MaxMade /\ tree \cup forgot \cup doomed \subseteq 1..made

Held(d) == \E c \in Callers : step[c].at \in {"insert", "undo"} /\ step[c].dir = d

\* Rows and directories go together: a workspace has its directory unless a deletion has
\* begun to remove it, and a directory belongs to a workspace or to a creation that is
\* under way, unless a crash, a swallowed error, a deletion that keeps the files or an
\* overwritten config left it behind - however creations of the same name, renamings and
\* deletions interleave.
RowsAndDirsAgree ==
  /\ \A i \in InRows \ doomed : i \in tree
  /\ \A d \in tree : d \in InRows \/ Held(d) \/ d \in forgot
  /\ \A i, j \in InRows : rows[i].name = rows[j].name => i = j

=============================================================================
