--------------------------- MODULE WorkspaceStore ---------------------------
(***************************************************************************)
(* The workspace manager, the handlers that change workspaces, and the     *)
(* forced cleanup.  A creation runs in a thread of the default executor;   *)
(* everything else runs on the event loop, one handler at a time.  They    *)
(* share the registry in memory, the directories, and the index file,      *)
(* which every operation rewrites whole and nothing locks.                 *)
(*                                                                         *)
(* An operation is cut where a thread switch matters: between the check of *)
(* the name, each change of a directory, the registration, the copy of the *)
(* registry, the truncation of the file and its being written.             *)
(***************************************************************************)
EXTENDS Naturals, FiniteSets

CONSTANTS
  Threads,      \* executor threads that serve creations
  Loop,         \* the event loop's thread
  Names,        \* workspace names, which are also directory names
  Spellings,    \* how requests write a name: "plain", or with "blanks" around it
  MaxIds,       \* bound: workspace ids ever handed out; they are 1..MaxIds
  MaxFaults,    \* bound: writes of the index that fail
  NoWorkspace,  \* what an id that is not registered maps to
  NoDir, Bare,  \* a directory that does not exist, or has no settings.yaml
  Torn,         \* an index file that does not parse
  NoName        \* what a thread that does nothing works on

ASSUME StoreAssumption ==
  /\ Loop \notin Threads
  /\ IsFiniteSet(Threads) /\ IsFiniteSet(Names)
  /\ MaxIds \in Nat /\ MaxFaults \in Nat
  /\ NoDir \notin 1..MaxIds /\ Bare \notin 1..MaxIds /\ NoDir # Bare
  /\ NoName \notin Names
  /\ Spellings \subseteq {"plain", "blanks"}

VARIABLES
  up,          \* the process runs
  registry,    \* _workspaces
  dirs,        \* per name: NoDir, Bare, or the id in whose name settings.yaml was written
  file,        \* what the index would load as, or Torn
  op,          \* what each thread is doing
  nextId,      \* ids handed out so far
  faults,      \* failed writes so far
  overlapped,  \* history: two operations overlapped, or one was cut short by a crash
  clashed      \* history: two operations on the same name overlapped, or the index
               \* was loaded after such an overlap or crash, or a name with blanks
               \* passed the check although it was taken

vars == <<up, registry, dirs, file, op, nextId, faults, overlapped, clashed>>

Ids == 1..MaxIds
Actors == Threads \cup {Loop}

Status == {"created", "indexing", "archived"}

Workspace == [name : Names, status : Status]

Registries == [Ids -> Workspace \cup {NoWorkspace}]
Empty == [i \in Ids |-> NoWorkspace]

ASSUME MarkersAssumption == Torn \notin Registries /\ NoWorkspace \notin Workspace

Steps == {"idle", "mkdir", "output", "config", "undo", "copy", "open", "write"}

Operation == [step : Steps, name : Names \cup {NoName}, id : 0..MaxIds, copy : Registries, mixed : BOOLEAN]

Idle == [step |-> "idle", name |-> NoName, id |-> 0, copy |-> Empty, mixed |-> FALSE]

Busy(t) == op[t].step # "idle"

Registered == {i \in Ids : registry[i] # NoWorkspace}

\* Mutant: only the workspaces ready for indexing are asked for the name.
NameTakenReady(n) == \E i \in Registered : registry[i].name = n /\ registry[i].status = "created"

\* A workspace of that name exists.
NameTaken(n) == \E i \in Registered : registry[i].name = n

\* History: an operation on the name n begins.
Begins(t, n) ==
  /\ overlapped' = (overlapped \/ \E u \in Actors : Busy(u))
  /\ clashed' = (clashed \/ \E u \in Actors : Busy(u) /\ op[u].name = n)

Goto(t, step) == op' = [op EXCEPT ![t].step = step]

End(t) == op' = [op EXCEPT ![t] = Idle]

---------------------------------------------------------------------------
(* create_workspace, in a thread of the executor.                          *)

\* The name is free and the data path is a directory: an id is drawn.  The name is
\* compared as the request writes it and stored without the blanks around it, so that
\* one with blanks is always free.
CheckName(t, n, spelling) ==
  /\ up /\ t \in Threads /\ ~Busy(t)
  /\ spelling = "plain" => ~NameTaken(n)
  /\ nextId < MaxIds
  /\ nextId' = nextId + 1
  /\ op' = [op EXCEPT ![t] = [Idle EXCEPT !.step = "mkdir", !.name = n, !.id = nextId + 1]]
  /\ overlapped' = (overlapped \/ \E u \in Actors : Busy(u))
  /\ clashed' = (clashed \/ NameTaken(n) \/ \E u \in Actors : Busy(u) /\ op[u].name = n)
  /\ UNCHANGED <<up, registry, dirs, file, faults>>

\* The directory must not exist (exist_ok=False); an OSError leads to the clean-up.
MakeDir(t) ==
  /\ op[t].step = "mkdir"
  /\ IF dirs[op[t].name] = NoDir
       THEN dirs' = [dirs EXCEPT ![op[t].name] = Bare] /\ Goto(t, "output")
       ELSE UNCHANGED dirs /\ Goto(t, "undo")
  /\ UNCHANGED <<up, registry, file, nextId, faults, overlapped, clashed>>

\* The output directory is made with its parents, so the directory exists afterwards.
MakeOutput(t) ==
  /\ op[t].step = "output"
  /\ Goto(t, "config")
  /\ dirs' = [dirs EXCEPT ![op[t].name] = IF @ = NoDir THEN Bare ELSE @]
  /\ UNCHANGED <<up, registry, file, nextId, faults, overlapped, clashed>>

\* settings.yaml is written, unless the directory has gone, and the workspace is
\* registered; the index is saved next.
Register(t) ==
  /\ op[t].step = "config"
  /\ IF dirs[op[t].name] # NoDir
       THEN /\ dirs' = [dirs EXCEPT ![op[t].name] = op[t].id]
            /\ registry' = [registry EXCEPT
                 ![op[t].id] = [name |-> op[t].name, status |-> "created"]]
            /\ Goto(t, "copy")
       ELSE UNCHANGED <<dirs, registry>> /\ Goto(t, "undo")
  /\ UNCHANGED <<up, file, nextId, faults, overlapped, clashed>>

\* The clean-up of a failed creation removes the directory, whoever made it.
Undo(t) ==
  /\ op[t].step = "undo"
  /\ End(t)
  /\ dirs' = [dirs EXCEPT ![op[t].name] = NoDir]
  /\ UNCHANGED <<up, registry, file, nextId, faults, overlapped, clashed>>

---------------------------------------------------------------------------
(* _save_workspaces_index.                                                 *)

\* The registry is copied ...
Copy(t) ==
  /\ op[t].step = "copy"
  /\ op' = [op EXCEPT ![t] = [@ EXCEPT !.step = "open", !.copy = registry]]
  /\ UNCHANGED <<up, registry, dirs, file, nextId, faults, overlapped, clashed>>

\* ... unless another thread changes it meanwhile: the iteration raises a
\* RuntimeError, which no handler of a creation undoes.
CopyFails(t) ==
  /\ op[t].step = "copy"
  /\ \E u \in Actors \ {t} : Busy(u)
  /\ End(t)
  /\ UNCHANGED <<up, registry, dirs, file, nextId, faults, overlapped, clashed>>

\* The file is truncated.  Two threads that have it open at once are marked.
Open(t) ==
  /\ op[t].step = "open"
  /\ file' = Torn
  /\ LET others == {u \in Actors \ {t} : op[u].step = "write"} IN
       op' = [u \in Actors |->
         IF u = t THEN [op[t] EXCEPT !.step = "write", !.mixed = (others # {})]
         ELSE IF u \in others THEN [op[u] EXCEPT !.mixed = TRUE]
         ELSE op[u]]
  /\ UNCHANGED <<up, registry, dirs, nextId, faults, overlapped, clashed>>

\* The file cannot be opened or written; only a creation undoes what it did.
SaveFails(t) ==
  /\ op[t].step \in {"open", "write"}
  /\ faults < MaxFaults
  /\ faults' = faults + 1
  /\ IF t \in Threads THEN Goto(t, "undo") ELSE End(t)
  /\ UNCHANGED <<up, registry, dirs, file, nextId, overlapped, clashed>>

\* The copy is written.  Two writers overwrite one another from the start of the file.
Write(t) ==
  /\ op[t].step = "write"
  /\ End(t)
  /\ file' \in {op[t].copy} \cup (IF op[t].mixed THEN {Torn} ELSE {})
  /\ UNCHANGED <<up, registry, dirs, nextId, faults, overlapped, clashed>>

---------------------------------------------------------------------------
(* The handlers on the event loop: each changes what it changes and then   *)
(* saves the index.                                                        *)

LoopIsFree(i) == up /\ ~Busy(Loop) /\ i \in Registered

ThenSaves(n) == op' = [op EXCEPT ![Loop] = [Idle EXCEPT !.step = "copy", !.name = n]]

\* update_workspace: the settings are written again if the directory is there.  (The
\* fields of a configuration are left out, and a rejected update changes only those.)
Update(i) ==
  /\ LoopIsFree(i)
  /\ dirs' = [dirs EXCEPT ![registry[i].name] = IF @ = NoDir THEN NoDir ELSE i]
  /\ ThenSaves(registry[i].name)
  /\ Begins(Loop, registry[i].name)
  /\ UNCHANGED <<up, registry, file, nextId, faults>>

\* Mutant: the handler forgets to save.
DeleteUnsaved(i, removeFiles) ==
  /\ LoopIsFree(i)
  /\ registry' = [registry EXCEPT ![i] = NoWorkspace]
  /\ dirs' = [dirs EXCEPT ![registry[i].name] = IF removeFiles THEN NoDir ELSE @]
  /\ Begins(Loop, registry[i].name)
  /\ UNCHANGED <<up, file, op, nextId, faults>>

\* delete_workspace, with or without the files.
Delete(i, removeFiles) ==
  /\ LoopIsFree(i)
  /\ registry' = [registry EXCEPT ![i] = NoWorkspace]
  /\ dirs' = [dirs EXCEPT ![registry[i].name] = IF removeFiles THEN NoDir ELSE @]
  /\ ThenSaves(registry[i].name)
  /\ Begins(Loop, registry[i].name)
  /\ UNCHANGED <<up, file, nextId, faults>>

\* is_ready_for_indexing; no code sets the statuses "indexed" and "error".
IsReadyForIndexing(i) == registry[i].status = "created"

\* The indexing route: the workspace of the new job is marked, by a save of its own.
StartIndexing(i) ==
  /\ LoopIsFree(i)
  /\ IsReadyForIndexing(i)
  /\ registry' = [registry EXCEPT ![i].status = "indexing"]
  /\ ThenSaves(registry[i].name)
  /\ Begins(Loop, registry[i].name)
  /\ UNCHANGED <<up, dirs, file, nextId, faults>>

\* The first forced cleanup archives the workspace in memory and then fails: it passes
\* the workspace to update_workspace as if it were a request.
ForceCleanupArchives(i) ==
  /\ LoopIsFree(i)
  /\ registry[i].status # "archived"
  /\ registry' = [registry EXCEPT ![i].status = "archived"]
  /\ UNCHANGED <<up, dirs, file, op, nextId, faults, overlapped, clashed>>

\* A second one removes the files and the entry.
ForceCleanup(i) ==
  /\ registry[i] # NoWorkspace /\ registry[i].status = "archived"
  /\ Delete(i, TRUE)

---------------------------------------------------------------------------
(* The end of the process, and a new one.                                  *)

Crash ==
  /\ up
  /\ up' = FALSE
  /\ registry' = Empty
  /\ op' = [t \in Actors |-> Idle]
  /\ overlapped' = (overlapped \/ \E t \in Actors : Busy(t))
  /\ clashed' = (clashed \/ overlapped')
  /\ UNCHANGED <<dirs, file, nextId, faults>>

\* Mutant: the new process takes what it reads.
BootUnchecked ==
  /\ ~up
  /\ up' = TRUE
  /\ registry' = file
  /\ UNCHANGED <<dirs, file, op, nextId, faults, overlapped, clashed>>

\* A file that does not parse is replaced by an empty index.
Boot ==
  /\ ~up
  /\ up' = TRUE
  /\ registry' = IF file = Torn THEN Empty ELSE file
  /\ file' = registry'
  /\ UNCHANGED <<dirs, op, nextId, faults, overlapped, clashed>>

Init ==
  /\ up = TRUE
  /\ registry = Empty
  /\ dirs = [n \in Names |-> NoDir]
  /\ file = Empty
  /\ op = [t \in Actors |-> Idle]
  /\ nextId = 0
  /\ faults = 0
  /\ overlapped = FALSE
  /\ clashed = FALSE

Next ==
  \/ \E t \in Threads, n \in Names, spelling \in Spellings : CheckName(t, n, spelling)
  \/ \E t \in Actors :
       \/ MakeDir(t) \/ MakeOutput(t) \/ Register(t) \/ Undo(t)
       \/ Copy(t) \/ CopyFails(t) \/ Open(t) \/ SaveFails(t) \/ Write(t)
  \/ \E i \in Ids :
       \/ Update(i) \/ Delete(i, FALSE) \/ Delete(i, TRUE)
       \/ StartIndexing(i) \/ ForceCleanupArchives(i) \/ ForceCleanup(i)
  \/ Crash
  \/ Boot

Spec == Init /\ [][Next]_vars

---------------------------------------------------------------------------
(* Properties.                                                             *)

TypeOK ==
  /\ up \in BOOLEAN
  /\ registry \in Registries
  /\ dirs \in [Names -> {NoDir, Bare} \cup Ids]
  /\ file \in Registries \cup {Torn}
  /\ op \in [Actors -> Operation]
  /\ nextId \in 0..MaxIds
  /\ faults \in 0..MaxFaults
  /\ overlapped \in BOOLEAN /\ clashed \in BOOLEAN

\* Creations and changes of workspaces with different names do not disturb one
\* another, however their threads interleave: a name has one workspace, unless somebody
\* asked for a name that was taken and wrote it with blanks.
NamesUniqueUnlessClash ==
  ~clashed => \A i, j \in Registered : registry[i].name = registry[j].name => i = j

\* Nor does one lose its directory, or get the settings of another.  (A creation that
\* fails in its save removes the directory and leaves the entry.)
DirsKeptUnlessClash ==
  ~clashed /\ faults = 0 => \A i \in Registered : dirs[registry[i].name] = i

\* "Workspace name (must be unique)".
NamesUnique == \A i, j \in Registered : registry[i].name = registry[j].name => i = j

Entries(r) == {<<i, r[i].name>> : i \in {j \in Ids : r[j] # NoWorkspace}}

\* Used one operation at a time, the manager leaves behind an index with the
\* workspaces it has in memory, so that a restart finds them again.
IndexCurrentUnlessOverlap ==
  (~overlapped /\ faults = 0 /\ up /\ \A t \in Actors : ~Busy(t))
    => file # Torn /\ Entries(file) = Entries(registry)

=============================================================================
