--------------------------- MODULE StorageProofs ---------------------------
(***************************************************************************)
(* What is proved of the parts of MCWorkspaces, for the specification that *)
(* the model checker runs, for any number of threads, names, ids and       *)
(* failed writes: a step of it is a step of one part, and leaves the       *)
(* variables of the others alone.                                          *)
(***************************************************************************)
EXTENDS MCWorkspaces, SelectionProofs, SequenceTheorems

---------------------------------------------------------------------------
(* The workspace store.                                                    *)

\* What the threads do.  Only the executor's create; nobody does anything in a process
\* that has ended.
Shape ==
  /\ \A t \in Actors : Busy(t) => op[t].name \in Names /\ up
  /\ \A t \in Threads : Busy(t) => op[t].id \in Ids
  /\ op[Loop].step \in {"idle", "copy", "open", "write"}
  /\ ~up => registry = Empty

EntriesIn(r) == {i \in Ids : r[i] # NoWorkspace}

\* No two workspaces of a registry, or of what a file would load as, have one name.
Unique(r) == \A i, j \in EntriesIn(r) : r[i].name = r[j].name => i = j

\* Two actors work on different names, and the name of a creation is still free until it
\* registers the workspace; so names stay unique where the registry goes.
NamesApart ==
  ~clashed =>
    /\ \A t, u \in Actors : t # u /\ Busy(t) /\ Busy(u) => op[t].name # op[u].name
    /\ \A t \in Threads : op[t].step \in {"mkdir", "output", "config"} => ~NameTaken(op[t].name)
    /\ Unique(registry)
    /\ file # Torn => Unique(file)
    /\ \A t \in Actors : op[t].step \in {"open", "write"} => Unique(op[t].copy)

\* Every entry of a registry has its directory, with its own settings.
HasDirs(r) == \A i \in EntriesIn(r) : dirs[r[i].name] = i

\* The workspaces in memory have their directories, and in a process that has ended those of
\* the index; without a failed write, only a creation of a free name is undone.
DirsAgree ==
  ~clashed /\ faults = 0 =>
    /\ HasDirs(registry)
    /\ ~up /\ file # Torn => HasDirs(file)
    /\ \A t \in Threads : op[t].step = "undo" => ~NameTaken(op[t].name)

\* The index has the entries of the registry.
FileCurrent == file # Torn /\ Entries(file) = Entries(registry)

\* As long as no two operations overlap, only one is under way, the index is current but for
\* the registration and the save, and what is being saved is current.
OneAtATime ==
  ~overlapped =>
    /\ \A t, u \in Actors : Busy(t) /\ Busy(u) => t = u
    /\ \A t \in Actors : ~op[t].mixed
    /\ faults = 0 /\ up =>
         /\ (\A t \in Actors : op[t].step \notin {"copy", "open", "write"}) => FileCurrent
         /\ \A t \in Actors :
              op[t].step \in {"open", "write"} => Entries(op[t].copy) = Entries(registry)

IndInv == TypeOK /\ Shape /\ NamesApart /\ DirsAgree /\ OneAtATime

---------------------------------------------------------------------------
(* Types and shapes.                                                       *)

LEMMA LoopIsNoThread == Loop \in Actors /\ Loop \notin Threads /\ Threads \subseteq Actors
  BY StoreAssumption DEF Actors

LEMMA EmptyIsARegistry ==
  /\ Empty \in Registries /\ EntriesIn(Empty) = {} /\ Unique(Empty) /\ Entries(Empty) = {}
  BY DEF Empty, Registries, EntriesIn, Unique, Entries

LEMMA IdleIsAnOperation == Idle \in Operation /\ Idle.step = "idle" /\ ~Idle.mixed
  BY EmptyIsARegistry, StoreAssumption DEF Idle, Operation, Steps

LEMMA InitTypes == Init => TypeOK
  <1>1. 0 \in 0..MaxIds /\ 0 \in 0..MaxFaults
    BY StoreAssumption
  <1>2. Init => op \in [Actors -> Operation]
    BY IdleIsAnOperation DEF Init
  <1>3. QED
    BY <1>1, <1>2, EmptyIsARegistry DEF Init, TypeOK

LEMMA InitShape == Init => Shape
  BY LoopIsNoThread, IdleIsAnOperation DEF Init, Shape, Busy

\* What an operation of a thread may become.
LEMMA OperationsAfter ==
  ASSUME TypeOK, NEW t \in Actors
  PROVE  /\ op[t] \in Operation
         /\ \A s \in Steps : Goto(t, s) => op' \in [Actors -> Operation]
         /\ End(t) => op' \in [Actors -> Operation]
  <1>1. op \in [Actors -> Operation] /\ op[t] \in Operation
    BY DEF TypeOK
  <1>2. \A s \in Steps : [op[t] EXCEPT !.step = s] \in Operation
    BY <1>1 DEF Operation
  <1>3. QED
    BY <1>1, <1>2, IdleIsAnOperation DEF Goto, End

LEMMA WorkspaceOf ==
  ASSUME TypeOK, NEW i \in Registered
  PROVE  i \in Ids /\ registry[i] \in Workspace /\ registry[i].name \in Names
  BY DEF TypeOK, Registered, Registries, Workspace

LEMMA NextTypes ==
  ASSUME TypeOK, Shape, [Next]_vars
  PROVE  TypeOK'
  <1> USE DEF Steps
  <1>1. ASSUME NEW t \in Threads, NEW n \in Names, NEW spelling \in Spellings, CheckName(t, n, spelling)
        PROVE  TypeOK'
    <2>1. nextId' \in 0..MaxIds /\ nextId + 1 \in 0..MaxIds
      BY <1>1, StoreAssumption DEF CheckName, TypeOK
    <2>2. [Idle EXCEPT !.step = "mkdir", !.name = n, !.id = nextId + 1] \in Operation
      BY <2>1, IdleIsAnOperation DEF Operation
    <2>3. op' \in [Actors -> Operation]
      BY <1>1, <2>2, LoopIsNoThread DEF CheckName, TypeOK
    <2>4. QED
      BY <1>1, <2>1, <2>3, Zenon DEF CheckName, TypeOK, Begins
  <1>2. ASSUME NEW t \in Actors, MakeDir(t)
        PROVE  TypeOK'
    <2>1. op' \in [Actors -> Operation]
      BY <1>2, OperationsAfter DEF MakeDir
    <2>2. dirs' \in [Names -> {NoDir, Bare} \cup Ids]
      BY <1>2 DEF MakeDir, TypeOK
    <2>3. QED
      BY <1>2, <2>1, <2>2 DEF MakeDir, TypeOK
  <1>3. ASSUME NEW t \in Actors, MakeOutput(t)
        PROVE  TypeOK'
    <2>1. op' \in [Actors -> Operation]
      BY <1>3, OperationsAfter DEF MakeOutput
    <2>2. dirs' \in [Names -> {NoDir, Bare} \cup Ids]
      BY <1>3 DEF MakeOutput, TypeOK
    <2>3. QED
      BY <1>3, <2>1, <2>2 DEF MakeOutput, TypeOK
  <1>4. ASSUME NEW t \in Actors, Register(t)
        PROVE  TypeOK'
    <2>1. op' \in [Actors -> Operation]
      BY <1>4, OperationsAfter DEF Register
    <2>2. Busy(t) /\ t \in Threads /\ op[t].name \in Names /\ op[t].id \in Ids
      BY <1>4, LoopIsNoThread DEF Register, Shape, Busy, Actors
    <2>3. dirs' \in [Names -> {NoDir, Bare} \cup Ids]
      BY <1>4, <2>2 DEF Register, TypeOK
    <2>4. [name |-> op[t].name, status |-> "created"] \in Workspace
      BY <2>2 DEF Workspace, Status
    <2>5. registry' \in Registries
      BY <1>4, <2>2, <2>4 DEF Register, TypeOK, Registries
    <2>6. QED
      BY <1>4, <2>1, <2>3, <2>5 DEF Register, TypeOK
  <1>5. ASSUME NEW t \in Actors, Undo(t)
        PROVE  TypeOK'
    <2>1. op' \in [Actors -> Operation]
      BY <1>5, OperationsAfter DEF Undo
    <2>2. dirs' \in [Names -> {NoDir, Bare} \cup Ids]
      BY <1>5 DEF Undo, TypeOK
    <2>3. QED
      BY <1>5, <2>1, <2>2 DEF Undo, TypeOK
  <1>6. ASSUME NEW t \in Actors, Copy(t)
        PROVE  TypeOK'
    <2>1. [op[t] EXCEPT !.step = "open", !.copy = registry] \in Operation
      BY OperationsAfter DEF TypeOK, Operation
    <2>2. op' \in [Actors -> Operation]
      BY <1>6, <2>1 DEF Copy, TypeOK
    <2>3. QED
      BY <1>6, <2>2 DEF Copy, TypeOK
  <1>7. ASSUME NEW t \in Actors, CopyFails(t)
        PROVE  TypeOK'
    <2>1. op' \in [Actors -> Operation]
      BY <1>7, OperationsAfter DEF CopyFails
    <2>2. QED
      BY <1>7, <2>1 DEF CopyFails, TypeOK
  <1>8. ASSUME NEW t \in Actors, Open(t)
        PROVE  TypeOK'
    <2> DEFINE writing == {u \in Actors \ {t} : op[u].step = "write"}
    <2>1. \A u \in Actors : /\ op[u] \in Operation
                            /\ [op[u] EXCEPT !.mixed = TRUE] \in Operation
      BY DEF TypeOK, Operation
    <2>2. (writing # {}) \in BOOLEAN
      OBVIOUS
    <2>3. [op[t] EXCEPT !.step = "write", !.mixed = (writing # {})] \in Operation
      <3> HIDE DEF writing
      <3>1. PICK mixed \in BOOLEAN : mixed = (writing # {})
        BY <2>2
      <3>2. [op[t] EXCEPT !.step = "write", !.mixed = mixed] \in Operation
        BY <2>1 DEF Operation
      <3>3. QED
        BY <3>1, <3>2
    <2>4. op' \in [Actors -> Operation]
      BY <1>8, <2>1, <2>3 DEF Open
    <2>5. QED
      BY <1>8, <2>4 DEF Open, TypeOK
  <1>9. ASSUME NEW t \in Actors, SaveFails(t)
        PROVE  TypeOK'
    <2>1. op' \in [Actors -> Operation]
      BY <1>9, OperationsAfter DEF SaveFails
    <2>2. faults' \in 0..MaxFaults
      BY <1>9, StoreAssumption DEF SaveFails, TypeOK
    <2>3. QED
      BY <1>9, <2>1, <2>2 DEF SaveFails, TypeOK
  <1>10. ASSUME NEW t \in Actors, Write(t)
         PROVE  TypeOK'
    <2>1. op' \in [Actors -> Operation] /\ op[t].copy \in Registries
      BY <1>10, OperationsAfter DEF Write, Operation
    <2>2. QED
      BY <1>10, <2>1 DEF Write, TypeOK
  <1>11. ASSUME NEW n \in Names, ThenSaves(n)
         PROVE  op' \in [Actors -> Operation]
    <2>1. [Idle EXCEPT !.step = "copy", !.name = n] \in Operation
      BY IdleIsAnOperation DEF Operation
    <2>2. QED
      BY <1>11, <2>1, LoopIsNoThread DEF ThenSaves, TypeOK
  <1>12. ASSUME NEW i \in Ids, Update(i)
         PROVE  TypeOK'
    <2>1. op' \in [Actors -> Operation]
      BY <1>12, <1>11, WorkspaceOf DEF Update, LoopIsFree
    <2>2. dirs' \in [Names -> {NoDir, Bare} \cup Ids]
      BY <1>12 DEF Update, TypeOK
    <2>3. QED
      BY <1>12, <2>1, <2>2, Zenon DEF Update, TypeOK, Begins
  <1>13. ASSUME NEW i \in Ids, NEW removeFiles \in BOOLEAN, Delete(i, removeFiles)
         PROVE  TypeOK'
    <2>1. op' \in [Actors -> Operation]
      BY <1>13, <1>11, WorkspaceOf DEF Delete, LoopIsFree
    <2>2. dirs' \in [Names -> {NoDir, Bare} \cup Ids]
      BY <1>13 DEF Delete, TypeOK
    <2>3. registry' \in Registries
      BY <1>13 DEF Delete, TypeOK, Registries
    <2>4. QED
      BY <1>13, <2>1, <2>2, <2>3, Zenon DEF Delete, TypeOK, Begins
  <1>14. ASSUME NEW i \in Registered, NEW s \in Status
         PROVE  [registry EXCEPT ![i].status = s] \in Registries
    <2>1. [registry[i] EXCEPT !.status = s] \in Workspace
      BY WorkspaceOf DEF Workspace
    <2>2. QED
      BY <2>1 DEF TypeOK, Registries
  <1>15. ASSUME NEW i \in Ids, StartIndexing(i)
         PROVE  TypeOK'
    <2>1. op' \in [Actors -> Operation]
      BY <1>15, <1>11, WorkspaceOf DEF StartIndexing, LoopIsFree
    <2>2. registry' \in Registries
      BY <1>15, <1>14 DEF StartIndexing, LoopIsFree, Status
    <2>3. QED
      BY <1>15, <2>1, <2>2, Zenon DEF StartIndexing, TypeOK, Begins
  <1>16. ASSUME NEW i \in Ids, ForceCleanupArchives(i)
         PROVE  TypeOK'
    <2>1. registry' \in Registries
      BY <1>16, <1>14 DEF ForceCleanupArchives, LoopIsFree, Status
    <2>2. QED
      BY <1>16, <2>1, Zenon DEF ForceCleanupArchives, TypeOK
  <1>17. ASSUME Crash
         PROVE  TypeOK'
    <2>1. op' \in [Actors -> Operation]
      BY <1>17, IdleIsAnOperation DEF Crash
    <2>2. QED
      BY <1>17, <2>1, EmptyIsARegistry, Zenon DEF Crash, TypeOK
  <1>18. ASSUME Boot
         PROVE  TypeOK'
    BY <1>18, EmptyIsARegistry DEF Boot, TypeOK
  <1>19. ASSUME UNCHANGED vars
         PROVE  TypeOK'
    BY <1>19 DEF vars, TypeOK
  <1>20. QED
    BY <1>1, <1>2, <1>3, <1>4, <1>5, <1>6, <1>7, <1>8, <1>9, <1>10, <1>12, <1>13, <1>15,
       <1>16, <1>17, <1>18, <1>19, Zenon
    DEF Next, ForceCleanup

\* What the others do stays.
OthersStay(t) == \A u \in Actors : u # t => op'[u] = op[u]

LEMMA Goes ==
  ASSUME TypeOK, NEW t \in Actors, NEW s, Goto(t, s)
  PROVE  /\ op'[t].step = s /\ op'[t].name = op[t].name /\ op'[t].id = op[t].id
         /\ op'[t].copy = op[t].copy /\ op'[t].mixed = op[t].mixed
         /\ OthersStay(t)
  BY DEF TypeOK, Operation, Goto, OthersStay

LEMMA Ends ==
  ASSUME TypeOK, NEW t \in Actors, End(t)
  PROVE  op'[t] = Idle /\ op'[t].step = "idle" /\ OthersStay(t)
  BY IdleIsAnOperation DEF TypeOK, End, OthersStay

LEMMA Copies ==
  ASSUME TypeOK, NEW t \in Actors, Copy(t)
  PROVE  /\ op'[t].step = "open" /\ op'[t].name = op[t].name /\ op'[t].id = op[t].id
         /\ op'[t].copy = registry /\ op'[t].mixed = op[t].mixed
         /\ OthersStay(t)
  BY DEF TypeOK, Operation, Copy, OthersStay

LEMMA Opens ==
  ASSUME TypeOK, NEW t \in Actors, Open(t), NEW u \in Actors
  PROVE  /\ op'[u].step = IF u = t THEN "write" ELSE op[u].step
         /\ op'[u].name = op[u].name /\ op'[u].id = op[u].id /\ op'[u].copy = op[u].copy
         /\ op'[u].mixed => op[u].mixed \/ \E v \in Actors \ {t} : op[v].step = "write"
  <1> DEFINE writing == {v \in Actors \ {t} : op[v].step = "write"}
  <1>1. op'[u] = IF u = t THEN [op[t] EXCEPT !.step = "write", !.mixed = (writing # {})]
                 ELSE IF u \in writing THEN [op[u] EXCEPT !.mixed = TRUE]
                 ELSE op[u]
    BY DEF Open
  <1>2. op[t] \in Operation /\ op[u] \in Operation
    BY DEF TypeOK
  <1>3. writing # {} => \E v \in Actors \ {t} : op[v].step = "write"
    OBVIOUS
  <1>4. u \in writing => writing # {}
    OBVIOUS
  <1>5. PICK mixed : mixed = (writing # {})
    OBVIOUS
  <1> HIDE DEF writing
  <1>6. CASE u = t
    <2>1. op'[u] = [op[t] EXCEPT !.step = "write", !.mixed = mixed]
      BY <1>1, <1>5, <1>6
    <2>2. op'[u].mixed = mixed /\ op'[u].step = "write" /\ op'[u].name = op[u].name
          /\ op'[u].id = op[u].id /\ op'[u].copy = op[u].copy
      BY <2>1, <1>2, <1>6 DEF Operation
    <2>3. QED
      BY <2>2, <1>3, <1>5, <1>6, Zenon
  <1>7. CASE u # t
    BY <1>1, <1>2, <1>3, <1>4, <1>7 DEF Operation
  <1>8. QED
    BY <1>6, <1>7

LEMMA Saves ==
  ASSUME TypeOK, NEW n, ThenSaves(n)
  PROVE  op'[Loop].step = "copy" /\ op'[Loop].name = n /\ ~op'[Loop].mixed /\ OthersStay(Loop)
  BY LoopIsNoThread DEF TypeOK, ThenSaves, OthersStay, Idle

LEMMA Starts ==
  ASSUME TypeOK, NEW t \in Threads, NEW n \in Names, NEW spelling \in Spellings, CheckName(t, n, spelling)
  PROVE  /\ op'[t].step = "mkdir" /\ op'[t].name = n /\ op'[t].id = nextId + 1 /\ ~op'[t].mixed
         /\ OthersStay(t)
  BY LoopIsNoThread DEF TypeOK, CheckName, OthersStay, Idle

LEMMA NextShape ==
  ASSUME TypeOK, Shape, [Next]_vars
  PROVE  Shape'
  <1> USE LoopIsNoThread
  <1>1. ASSUME NEW t \in Threads, NEW n \in Names, NEW spelling \in Spellings, CheckName(t, n, spelling)
        PROVE  Shape'
    <2>1. nextId + 1 \in Ids
      BY <1>1, StoreAssumption DEF CheckName, TypeOK, Ids
    <2>2. UNCHANGED <<up, registry>> /\ up
      BY <1>1 DEF CheckName
    <2>3. QED
      BY <1>1, <2>1, <2>2, Starts DEF Shape, Busy, OthersStay
  <1>2. ASSUME NEW t \in Actors, NEW s \in {"output", "config", "copy", "undo"}, Goto(t, s),
               Busy(t), t = Loop => FALSE, UNCHANGED up
        PROVE  Shape'
    BY <1>2, Goes DEF Shape, Busy, OthersStay
  <1>3. ASSUME NEW t \in Actors, End(t), UNCHANGED up, ~up => UNCHANGED registry
        PROVE  Shape'
    BY <1>3, Ends DEF Shape, Busy, OthersStay
  <1>4. ASSUME NEW t \in Actors, MakeDir(t) \/ MakeOutput(t)
        PROVE  Shape'
    BY <1>2, <1>4 DEF MakeDir, MakeOutput, Shape, Busy
  <1>5. ASSUME NEW t \in Actors, Register(t)
        PROVE  Shape'
    BY <1>2, <1>5 DEF Register, Shape, Busy
  <1>6. ASSUME NEW t \in Actors, Undo(t) \/ CopyFails(t) \/ Write(t)
        PROVE  Shape'
    BY <1>3, <1>6 DEF Undo, CopyFails, Write
  <1>7. ASSUME NEW t \in Actors, Copy(t)
        PROVE  Shape'
    <2>1. UNCHANGED <<up, registry>> /\ Busy(t)
      BY <1>7 DEF Copy, Busy
    <2>2. QED
      BY <1>7, <2>1, Copies DEF Shape, Busy, OthersStay
  <1>8. ASSUME NEW t \in Actors, Open(t)
        PROVE  Shape'
    <2>1. UNCHANGED <<up, registry>> /\ Busy(t)
      BY <1>8 DEF Open, Busy
    <2>2. QED
      BY <1>8, <2>1, Opens DEF Shape, Busy
  <1>9. ASSUME NEW t \in Actors, SaveFails(t)
        PROVE  Shape'
    BY <1>2, <1>3, <1>9 DEF SaveFails, Busy
  <1>10. ASSUME NEW n \in Names, ThenSaves(n), up, up'
         PROVE  Shape'
    BY <1>10, Saves DEF Shape, Busy, OthersStay
  <1>11. ASSUME NEW i \in Ids, Update(i) \/ Delete(i, TRUE) \/ Delete(i, FALSE) \/ StartIndexing(i)
         PROVE  Shape'
    BY <1>10, <1>11, WorkspaceOf DEF Update, Delete, StartIndexing, LoopIsFree
  <1>12. ASSUME NEW i \in Ids, ForceCleanupArchives(i)
         PROVE  Shape'
    BY <1>12 DEF ForceCleanupArchives, LoopIsFree, Shape, Busy
  <1>13. ASSUME Crash
         PROVE  Shape'
    BY <1>13, IdleIsAnOperation DEF Crash, Shape, Busy
  <1>14. ASSUME Boot
         PROVE  Shape'
    BY <1>14 DEF Boot, Shape, Busy
  <1>15. ASSUME UNCHANGED vars
         PROVE  Shape'
    BY <1>15 DEF vars, Shape, Busy
  <1>16. QED
    BY <1>1, <1>4, <1>5, <1>6, <1>7, <1>8, <1>9, <1>11, <1>12, <1>13, <1>14, <1>15, Zenon
    DEF Next, ForceCleanup

---------------------------------------------------------------------------
(* Names.                                                                  *)

Taken(r, n) == \E i \in EntriesIn(r) : r[i].name = n

\* A change of a registry that adds no entry and renames none.
NoNewNames(r, s) ==
  \A i \in EntriesIn(s) : i \in EntriesIn(r) /\ s[i].name = r[i].name

LEMMA TakenMeans == \A n : NameTaken(n) <=> Taken(registry, n)
  BY DEF NameTaken, Taken, EntriesIn, Registered

LEMMA NoNewNamesKeeps ==
  ASSUME NEW r, NEW s, NoNewNames(r, s)
  PROVE  /\ Unique(r) => Unique(s)
         /\ \A n : Taken(s, n) => Taken(r, n)
  BY DEF NoNewNames, Unique, Taken

\* What the registry may become.
LEMMA RegistryAfter ==
  ASSUME TypeOK, NEW i \in Ids
  PROVE  /\ NoNewNames(registry, [registry EXCEPT ![i] = NoWorkspace])
         /\ i \in Registered => \A s \in Status :
              NoNewNames(registry, [registry EXCEPT ![i].status = s])
         /\ \A n \in Names : ~Taken(registry, n) =>
              LET r == [registry EXCEPT ![i] = [name |-> n, status |-> "created"]] IN
                /\ Unique(registry) => Unique(r)
                /\ \A m : m # n /\ Taken(r, m) => Taken(registry, m)
  <1>1. registry \in [Ids -> Workspace \cup {NoWorkspace}]
    BY DEF TypeOK, Registries
  <1>2. NoNewNames(registry, [registry EXCEPT ![i] = NoWorkspace])
    BY <1>1 DEF NoNewNames, EntriesIn
  <1>3. ASSUME i \in Registered, NEW s \in Status
        PROVE  NoNewNames(registry, [registry EXCEPT ![i].status = s])
    <2>1. registry[i] \in Workspace
      BY <1>3, WorkspaceOf
    <2>2. [registry[i] EXCEPT !.status = s].name = registry[i].name
      BY <2>1 DEF Workspace
    <2>3. QED
      BY <1>1, <1>3, <2>2 DEF NoNewNames, EntriesIn, Registered
  <1>4. ASSUME NEW n \in Names, ~Taken(registry, n)
        PROVE  LET r == [registry EXCEPT ![i] = [name |-> n, status |-> "created"]] IN
                 /\ Unique(registry) => Unique(r)
                 /\ \A m : m # n /\ Taken(r, m) => Taken(registry, m)
    <2> DEFINE w == [name |-> n, status |-> "created"]
               r == [registry EXCEPT ![i] = w]
    <2>1. r[i] = w /\ w.name = n /\ \A j \in Ids : j # i => r[j] = registry[j]
      BY <1>1
    <2> HIDE DEF r, w
    <2>2. /\ Unique(registry) => Unique(r)
          /\ \A m : m # n /\ Taken(r, m) => Taken(registry, m)
      BY <1>4, <2>1 DEF Unique, EntriesIn, Taken
    <2>3. QED
      BY <2>2 DEF r, w
  <1>5. QED
    BY <1>2, <1>3, <1>4

LEMMA InitNames == Init => NamesApart
  <1>1. ASSUME Init
        PROVE  \A t \in Actors : op[t] = Idle
    BY <1>1 DEF Init
  <1>2. QED
    BY <1>1, EmptyIsARegistry, IdleIsAnOperation, LoopIsNoThread DEF Init, NamesApart, Busy

\* An actor that goes on, or ends, without touching the registry or the file.
LEMMA GoingOnKeepsNames ==
  ASSUME TypeOK, NamesApart, NEW t \in Actors, Busy(t), UNCHANGED <<registry, file, clashed>>,
         \/ \E s \in {"output", "config", "undo"} :
              Goto(t, s) /\ (s # "undo" => op[t].step \in {"mkdir", "output"} /\ t \in Threads)
         \/ End(t)
  PROVE  NamesApart'
  BY Goes, Ends, LoopIsNoThread DEF NamesApart, Busy, OthersStay, NameTaken, Registered, Unique, EntriesIn

\* A handler of the event loop begins, on a workspace whose name nobody else works on.
LEMMA HandlersKeepNames ==
  ASSUME TypeOK, NamesApart, NEW n \in Names, ThenSaves(n), Begins(Loop, n), ~Busy(Loop),
         UNCHANGED file, NoNewNames(registry, registry')
  PROVE  NamesApart'
  <1>1. SUFFICES ASSUME ~clashed'
                 PROVE  /\ \A t, u \in Actors : (t # u /\ Busy(t) /\ Busy(u) => op[t].name # op[u].name)'
                        /\ \A t \in Threads :
                             op'[t].step \in {"mkdir", "output", "config"} => ~NameTaken(op[t].name)'
                        /\ Unique(registry')
                        /\ file' # Torn => Unique(file')
                        /\ \A t \in Actors : op'[t].step \in {"open", "write"} => Unique(op'[t].copy)
    BY DEF NamesApart
  <1>2. ~clashed /\ \A u \in Actors : Busy(u) => op[u].name # n
    BY <1>1 DEF Begins
  <1>3. \A m : Taken(registry', m) => Taken(registry, m)
    BY NoNewNamesKeeps
  <1>4. \A t \in Threads : op'[t].step \in {"mkdir", "output", "config"} => ~NameTaken(op[t].name)'
    BY <1>2, <1>3, Saves, LoopIsNoThread
    DEF NamesApart, OthersStay, NameTaken, Registered, Taken, EntriesIn
  <1>5. QED
    BY <1>2, <1>4, NoNewNamesKeeps, Saves DEF NamesApart, OthersStay, Busy

LEMMA NextNames ==
  ASSUME TypeOK, Shape, NamesApart, [Next]_vars
  PROVE  NamesApart'
  <1> USE LoopIsNoThread
  <1>1. ASSUME NEW t \in Threads, NEW n \in Names, NEW spelling \in Spellings, CheckName(t, n, spelling)
        PROVE  NamesApart'
    <2>1. UNCHANGED <<registry, file>> /\ ~Busy(t)
      BY <1>1 DEF CheckName
    <2>2. \A m : NameTaken(m)' <=> NameTaken(m)
      BY <2>1 DEF NameTaken, Registered
    <2>3. ASSUME ~clashed'
          PROVE  /\ ~clashed /\ ~NameTaken(n)
                 /\ \A u \in Actors : u # t /\ Busy(u) => op[u].name # n
      BY <1>1, <2>3 DEF CheckName
    <2>4. op'[t].step = "mkdir" /\ op'[t].name = n /\ OthersStay(t)
      BY <1>1, Starts
    <2>5. QED
      BY <2>1, <2>2, <2>3, <2>4 DEF NamesApart, OthersStay, Busy
  <1>2. ASSUME NEW t \in Actors, MakeDir(t) \/ MakeOutput(t)
        PROVE  NamesApart'
    <2>1. t \in Threads /\ Busy(t) /\ UNCHANGED <<registry, file, clashed>>
      BY <1>2 DEF MakeDir, MakeOutput, Shape, Actors, Busy
    <2>2. op[t].step \in {"mkdir", "output"}
          /\ \E s \in {"output", "config", "undo"} : Goto(t, s)
      BY <1>2 DEF MakeDir, MakeOutput
    <2>3. QED
      BY <2>1, <2>2, GoingOnKeepsNames
  <1>3. ASSUME NEW t \in Actors, Register(t)
        PROVE  NamesApart'
    <2>1. t \in Threads /\ Busy(t) /\ op[t].name \in Names /\ op[t].id \in Ids
          /\ UNCHANGED <<file, clashed>>
      BY <1>3 DEF Register, Shape, Actors, Busy
    <2>2. CASE dirs[op[t].name] = NoDir
      BY <1>3, <2>1, <2>2, GoingOnKeepsNames DEF Register
    <2>3. CASE dirs[op[t].name] # NoDir
      <3>1. /\ registry' = [registry EXCEPT
                 ![op[t].id] = [name |-> op[t].name, status |-> "created"]]
            /\ Goto(t, "copy")
        BY <1>3, <2>3 DEF Register
      <3>2. ASSUME ~clashed
            PROVE  /\ Unique(registry')
                   /\ \A m : m # op[t].name /\ Taken(registry', m) => Taken(registry, m)
        <4>1. ~Taken(registry, op[t].name) /\ Unique(registry)
          BY <1>3, <2>1, <3>2, TakenMeans DEF NamesApart, Register
        <4>2. QED
          BY <2>1, <3>1, <4>1, RegistryAfter
      <3>3. ASSUME ~clashed, NEW u \in Threads, op'[u].step \in {"mkdir", "output", "config"}
            PROVE  ~NameTaken(op[u].name)'
        <4>1. u # t /\ op'[u] = op[u]
          BY <3>1, <3>3, Goes DEF OthersStay
        <4>2. op[u].name # op[t].name /\ ~Taken(registry, op[u].name)
          BY <2>1, <3>3, <4>1, TakenMeans DEF NamesApart, Busy
        <4>3. QED
          BY <3>2, <3>3, <4>1, <4>2 DEF NameTaken, Registered, Taken, EntriesIn
      <3>4. QED
        BY <2>1, <3>1, <3>2, <3>3, Goes DEF NamesApart, OthersStay, Busy, Unique, EntriesIn
    <2>4. QED
      BY <2>2, <2>3
  <1>4. ASSUME NEW t \in Actors, Undo(t) \/ CopyFails(t)
        PROVE  NamesApart'
    BY <1>4, GoingOnKeepsNames DEF Undo, CopyFails, Busy
  <1>5. ASSUME NEW t \in Actors, Copy(t)
        PROVE  NamesApart'
    <2>1. UNCHANGED <<registry, file, clashed>> /\ op[t].step = "copy"
      BY <1>5 DEF Copy
    <2>2. \A m : NameTaken(m)' <=> NameTaken(m)
      BY <2>1 DEF NameTaken, Registered
    <2>3. QED
      BY <1>5, <2>1, <2>2, Copies DEF NamesApart, OthersStay, Busy, Unique, EntriesIn
  <1>6. ASSUME NEW t \in Actors, Open(t)
        PROVE  NamesApart'
    <2>1. UNCHANGED <<registry, clashed>> /\ file' = Torn /\ op[t].step = "open"
      BY <1>6 DEF Open
    <2>2. \A m : NameTaken(m)' <=> NameTaken(m)
      BY <2>1 DEF NameTaken, Registered
    <2>3. QED
      BY <1>6, <2>1, <2>2, Opens DEF NamesApart, Busy, Unique, EntriesIn
  <1>7. ASSUME NEW t \in Actors, SaveFails(t)
        PROVE  NamesApart'
    BY <1>7, GoingOnKeepsNames DEF SaveFails, Busy
  <1>8. ASSUME NEW t \in Actors, Write(t)
        PROVE  NamesApart'
    <2>1. UNCHANGED <<registry, clashed>> /\ op[t].step = "write" /\ End(t)
          /\ (file' = Torn \/ file' = op[t].copy)
      BY <1>8 DEF Write
    <2>2. \A m : NameTaken(m)' <=> NameTaken(m)
      BY <2>1 DEF NameTaken, Registered
    <2>3. QED
      BY <1>8, <2>1, <2>2, Ends DEF NamesApart, OthersStay, Busy, Unique, EntriesIn
  <1>9. ASSUME NEW i \in Ids,
               Update(i) \/ (\E removeFiles \in BOOLEAN : Delete(i, removeFiles)) \/ StartIndexing(i)
        PROVE  NamesApart'
    <2>1. LoopIsFree(i) /\ ThenSaves(registry[i].name) /\ Begins(Loop, registry[i].name)
          /\ UNCHANGED file
      BY <1>9 DEF Update, Delete, StartIndexing
    <2>2. ~Busy(Loop) /\ i \in Registered /\ registry[i].name \in Names
      BY <2>1, WorkspaceOf DEF LoopIsFree
    <2>3. \/ registry' = registry
          \/ registry' = [registry EXCEPT ![i] = NoWorkspace]
          \/ registry' = [registry EXCEPT ![i].status = "indexing"]
      BY <1>9 DEF Update, Delete, StartIndexing
    <2>4. NoNewNames(registry, registry)
      BY DEF NoNewNames
    <2>5. NoNewNames(registry, registry')
      BY <2>2, <2>3, <2>4, RegistryAfter DEF Status
    <2>6. QED
      BY <2>1, <2>2, <2>5, HandlersKeepNames
  <1>10. ASSUME NEW i \in Ids, ForceCleanupArchives(i)
         PROVE  NamesApart'
    <2>1. i \in Registered /\ registry' = [registry EXCEPT ![i].status = "archived"]
          /\ UNCHANGED <<file, op, clashed>>
      BY <1>10 DEF ForceCleanupArchives, LoopIsFree
    <2>2. NoNewNames(registry, registry')
      BY <2>1, RegistryAfter DEF Status
    <2>3. \A m : NameTaken(m)' => NameTaken(m)
      BY <2>2, NoNewNamesKeeps DEF NameTaken, Registered, Taken, EntriesIn
    <2>4. QED
      BY <2>1, <2>2, <2>3, NoNewNamesKeeps DEF NamesApart, Busy
  <1>11. ASSUME Crash
         PROVE  NamesApart'
    <2>1. /\ registry' = Empty /\ UNCHANGED file /\ (clashed => clashed')
          /\ \A t \in Actors : op'[t] = Idle
      BY <1>11 DEF Crash
    <2>2. QED
      BY <2>1, EmptyIsARegistry, IdleIsAnOperation DEF NamesApart, Busy, Unique, EntriesIn
  <1>12. ASSUME Boot
         PROVE  NamesApart'
    <2>1. /\ UNCHANGED <<op, clashed>> /\ \A t \in Actors : ~Busy(t)
          /\ registry' = (IF file = Torn THEN Empty ELSE file) /\ file' = registry'
      BY <1>12 DEF Boot, Shape
    <2>2. QED
      BY <2>1, EmptyIsARegistry DEF NamesApart, Busy, Unique, EntriesIn
  <1>13. ASSUME UNCHANGED vars
         PROVE  NamesApart'
    BY <1>13 DEF vars, NamesApart, Busy, NameTaken, Registered, Unique, EntriesIn
  <1>14. QED
    BY <1>1, <1>2, <1>3, <1>4, <1>5, <1>6, <1>7, <1>8, <1>9, <1>10, <1>11, <1>12, <1>13, Zenon
    DEF Next, ForceCleanup

---------------------------------------------------------------------------
(* The index, and the operations that do not overlap.                      *)

\* What OneAtATime says when no operations have overlapped.
Orderly ==
  /\ \A t, u \in Actors : Busy(t) /\ Busy(u) => t = u
  /\ \A t \in Actors : ~op[t].mixed

Current ==
  faults = 0 /\ up =>
    /\ (\A t \in Actors : op[t].step \notin {"copy", "open", "write"}) => FileCurrent
    /\ \A t \in Actors :
         op[t].step \in {"open", "write"} => Entries(op[t].copy) = Entries(registry)

LEMMA OneAtATimeMeans == OneAtATime <=> (~overlapped => Orderly /\ Current)
  BY DEF OneAtATime, Orderly, Current

LEMMA InitOneAtATime == Init => OneAtATime
  <1>1. ASSUME Init
        PROVE  \A t \in Actors : op[t] = Idle
    BY <1>1 DEF Init
  <1>2. QED
    BY <1>1, EmptyIsARegistry, IdleIsAnOperation, MarkersAssumption DEF Init, OneAtATime, Busy, FileCurrent

\* A workspace keeps its entry when its status changes.
LEMMA EntriesKept ==
  ASSUME TypeOK, NEW i \in Registered, NEW s \in Status
  PROVE  Entries([registry EXCEPT ![i].status = s]) = Entries(registry)
  <1> DEFINE r == [registry EXCEPT ![i].status = s]
             w == [registry[i] EXCEPT !.status = s]
  <1>1. i \in Ids /\ registry[i] \in Workspace /\ registry[i] # NoWorkspace
    BY WorkspaceOf DEF Registered
  <1>2. w.name = registry[i].name
    BY <1>1 DEF Workspace
  <1>3. r[i] = w /\ \A j \in Ids : j # i => r[j] = registry[j]
    BY <1>1 DEF TypeOK, Registries
  <1>4. w # NoWorkspace
    BY <1>1, MarkersAssumption DEF Workspace
  <1> HIDE DEF r, w
  <1>5. \A j \in Ids : (r[j] # NoWorkspace <=> registry[j] # NoWorkspace)
                       /\ r[j].name = registry[j].name
    BY <1>1, <1>2, <1>3, <1>4
  <1>6. Entries(r) = Entries(registry)
    BY <1>5 DEF Entries
  <1>7. QED
    BY <1>6 DEF r

\* Nobody does anything, or only one actor does.
LEMMA OnlyOne ==
  ASSUME Orderly, NEW t \in Actors, Busy(t)
  PROVE  \A u \in Actors : u # t => op[u].step = "idle"
  BY DEF Orderly, Busy

LEMMA NextOneAtATime ==
  ASSUME TypeOK, Shape, OneAtATime, [Next]_vars
  PROVE  OneAtATime'
  <1> USE LoopIsNoThread
  <1>1. ASSUME NEW t \in Threads, NEW n \in Names, NEW spelling \in Spellings, CheckName(t, n, spelling)
        PROVE  OneAtATime'
    <2>1. SUFFICES ASSUME ~overlapped'
                   PROVE  Orderly' /\ Current'
      BY DEF OneAtATime, Orderly, Current
    <2>2. ~overlapped /\ \A u \in Actors : ~Busy(u)
      BY <1>1, <2>1 DEF CheckName, Begins
    <2>3. UNCHANGED <<registry, file, up, faults>> /\ op'[t].step = "mkdir" /\ ~op'[t].mixed
          /\ OthersStay(t)
      BY <1>1, Starts DEF CheckName
    <2>4. Orderly /\ Current
      BY <2>2, OneAtATimeMeans
    <2>5. Orderly'
      BY <2>2, <2>3, <2>4 DEF Orderly, OthersStay, Busy
    <2>6. Current'
      BY <2>2, <2>3, <2>4 DEF Current, OthersStay, Busy, FileCurrent
    <2>7. QED
      BY <2>5, <2>6
  <1>2. ASSUME NEW t \in Actors, NEW s \in Steps, Goto(t, s), Busy(t), UNCHANGED <<overlapped, file>>,
               \/ faults' > 0
               \/ /\ UNCHANGED <<registry, up, faults>>
                  /\ op[t].step \notin {"copy", "open", "write"}
                  /\ s \in {"output", "config", "undo"}
               \/ s = "copy" /\ UNCHANGED <<up, faults>>
        PROVE  OneAtATime'
    <2>1. SUFFICES ASSUME ~overlapped'
                   PROVE  Orderly' /\ Current'
      BY DEF OneAtATime, Orderly, Current
    <2>2. Orderly /\ Current
      BY <1>2, <2>1, OneAtATimeMeans
    <2>3. op'[t].step = s /\ ~op'[t].mixed /\ OthersStay(t)
      BY <1>2, <2>2, Goes DEF Orderly
    <2>4. \A u \in Actors : u # t => op[u].step = "idle" /\ op'[u].step = "idle" /\ ~op'[u].mixed
      BY <1>2, <2>2, <2>3, OnlyOne DEF OthersStay, Orderly
    <2>5. Orderly'
      BY <2>3, <2>4 DEF Orderly, Busy
    <2>6. CASE faults' > 0
      BY <2>5, <2>6 DEF Current
    <2>7. CASE s = "copy"
      BY <2>3, <2>4, <2>5, <2>7 DEF Current
    <2>8. ASSUME UNCHANGED <<registry, up, faults>>, s \in {"output", "config", "undo"},
                 op[t].step \notin {"copy", "open", "write"}
          PROVE  Current'
      <3>1. \A u \in Actors : op[u].step \notin {"copy", "open", "write"}
        BY <2>4, <2>8
      <3>2. faults = 0 /\ up => FileCurrent'
        BY <1>2, <2>2, <2>8, <3>1 DEF Current, FileCurrent
      <3>3. QED
        BY <2>3, <2>4, <2>8, <3>2 DEF Current
    <2>9. QED
      BY <1>2, <2>5, <2>6, <2>7, <2>8
  <1>3. ASSUME NEW t \in Actors, End(t), Busy(t), UNCHANGED overlapped,
               \/ faults' > 0
               \/ /\ UNCHANGED <<registry, up, faults>>
                  /\ \/ op[t].step \notin {"copy", "open", "write"} /\ UNCHANGED file
                     \/ ~overlapped /\ faults = 0 /\ up => FileCurrent'
        PROVE  OneAtATime'
    <2>1. SUFFICES ASSUME ~overlapped'
                   PROVE  Orderly' /\ Current'
      BY DEF OneAtATime, Orderly, Current
    <2>2. Orderly /\ Current
      BY <1>3, <2>1, OneAtATimeMeans
    <2>3. op'[t].step = "idle" /\ ~op'[t].mixed /\ OthersStay(t)
      BY <1>3, Ends, IdleIsAnOperation
    <2>4. \A u \in Actors : u # t => op[u].step = "idle" /\ op'[u].step = "idle" /\ ~op'[u].mixed
      BY <1>3, <2>2, <2>3, OnlyOne DEF OthersStay, Orderly
    <2>5. Orderly'
      BY <2>3, <2>4 DEF Orderly, Busy
    <2>6. CASE faults' > 0
      BY <2>5, <2>6 DEF Current
    <2>7. ASSUME UNCHANGED <<registry, up, faults>>, faults = 0, up
          PROVE  FileCurrent'
      <3>1. CASE op[t].step \notin {"copy", "open", "write"} /\ UNCHANGED file
        <4>1. \A u \in Actors : op[u].step \notin {"copy", "open", "write"}
          BY <2>4, <3>1
        <4>2. QED
          BY <2>2, <2>7, <3>1, <4>1 DEF Current, FileCurrent
      <3>2. CASE ~overlapped /\ faults = 0 /\ up => FileCurrent'
        BY <1>3, <2>1, <2>7, <3>2
      <3>3. QED
        BY <1>3, <2>7, <3>1, <3>2
    <2>8. QED
      BY <1>3, <2>3, <2>4, <2>5, <2>6, <2>7 DEF Current
  <1>4. ASSUME NEW t \in Actors, MakeDir(t) \/ MakeOutput(t)
        PROVE  OneAtATime'
    BY <1>2, <1>4 DEF MakeDir, MakeOutput, Busy, Steps
  <1>5. ASSUME NEW t \in Actors, Register(t)
        PROVE  OneAtATime'
    BY <1>2, <1>5 DEF Register, Busy, Steps
  <1>6. ASSUME NEW t \in Actors, Undo(t)
        PROVE  OneAtATime'
    BY <1>3, <1>6 DEF Undo, Busy
  <1>7. ASSUME NEW t \in Actors, SaveFails(t)
        PROVE  OneAtATime'
    <2>1. faults' > 0
      BY <1>7, StoreAssumption DEF SaveFails, TypeOK
    <2>2. QED
      BY <1>2, <1>3, <1>7, <2>1 DEF SaveFails, Busy, Steps
  <1>8. ASSUME NEW t \in Actors, CopyFails(t)
        PROVE  OneAtATime'
    BY <1>8 DEF CopyFails, OneAtATime, Busy
  <1>9. ASSUME NEW t \in Actors, Write(t)
        PROVE  OneAtATime'
    <2>1. ASSUME ~overlapped, faults = 0, up
          PROVE  FileCurrent'
      <3>1. Orderly /\ Current
        BY <2>1, OneAtATimeMeans
      <3>2. file' = op[t].copy /\ UNCHANGED registry /\ Entries(op[t].copy) = Entries(registry)
        BY <1>9, <2>1, <3>1 DEF Write, Orderly, Current
      <3>3. op[t].copy # Torn
        BY OperationsAfter, MarkersAssumption DEF Operation
      <3>4. QED
        BY <3>2, <3>3 DEF FileCurrent, Entries
    <2>2. QED
      BY <1>3, <1>9, <2>1 DEF Write, Busy
  <1>10. ASSUME NEW t \in Actors, Copy(t)
         PROVE  OneAtATime'
    <2>1. SUFFICES ASSUME ~overlapped'
                   PROVE  Orderly' /\ Current'
      BY DEF OneAtATime, Orderly, Current
    <2>2. Orderly /\ Current /\ Busy(t) /\ UNCHANGED <<registry, file, up, faults>>
      BY <1>10, <2>1, OneAtATimeMeans DEF Copy, Busy
    <2>3. op'[t].step = "open" /\ ~op'[t].mixed /\ op'[t].copy = registry /\ OthersStay(t)
      BY <1>10, <2>2, Copies DEF Orderly
    <2>4. \A u \in Actors : u # t => op[u].step = "idle" /\ op'[u].step = "idle" /\ ~op'[u].mixed
      BY <2>2, <2>3, OnlyOne DEF OthersStay, Orderly
    <2>5. Orderly'
      BY <2>3, <2>4 DEF Orderly, Busy
    <2>6. Current'
      BY <2>2, <2>3, <2>4 DEF Current
    <2>7. QED
      BY <2>5, <2>6
  <1>11. ASSUME NEW t \in Actors, Open(t)
         PROVE  OneAtATime'
    <2>1. SUFFICES ASSUME ~overlapped'
                   PROVE  Orderly' /\ Current'
      BY DEF OneAtATime, Orderly, Current
    <2>2. Orderly /\ Current /\ Busy(t) /\ UNCHANGED <<registry, up, faults>> /\ op[t].step = "open"
      BY <1>11, <2>1, OneAtATimeMeans DEF Open, Busy
    <2>3. \A u \in Actors : u # t => op[u].step = "idle"
      BY <2>2, OnlyOne
    <2>4. \A u \in Actors : /\ op'[u].step = IF u = t THEN "write" ELSE op[u].step
                            /\ op'[u].copy = op[u].copy
                            /\ op'[u].mixed => op[u].mixed \/ \E v \in Actors \ {t} : op[v].step = "write"
      BY <1>11, Opens
    <2>5. Orderly'
      BY <2>2, <2>3, <2>4 DEF Orderly, Busy
    <2>6. Current'
      BY <2>2, <2>3, <2>4 DEF Current
    <2>7. QED
      BY <2>5, <2>6
  <1>12. ASSUME NEW i \in Ids,
                Update(i) \/ (\E removeFiles \in BOOLEAN : Delete(i, removeFiles)) \/ StartIndexing(i)
         PROVE  OneAtATime'
    <2>1. SUFFICES ASSUME ~overlapped'
                   PROVE  Orderly' /\ Current'
      BY DEF OneAtATime, Orderly, Current
    <2>2. ThenSaves(registry[i].name) /\ Begins(Loop, registry[i].name)
      BY <1>12 DEF Update, Delete, StartIndexing
    <2>3. ~overlapped /\ \A u \in Actors : ~Busy(u)
      BY <2>1, <2>2 DEF Begins
    <2>4. op'[Loop].step = "copy" /\ ~op'[Loop].mixed /\ OthersStay(Loop)
      BY <2>2, Saves
    <2>5. Orderly'
      BY <2>3, <2>4, OneAtATimeMeans DEF Orderly, OthersStay, Busy
    <2>6. Current'
      BY <2>3, <2>4 DEF Current, OthersStay, Busy
    <2>7. QED
      BY <2>5, <2>6
  <1>13. ASSUME NEW i \in Ids, ForceCleanupArchives(i)
         PROVE  OneAtATime'
    <2>1. UNCHANGED <<up, file, op, faults, overlapped>>
          /\ registry' = [registry EXCEPT ![i].status = "archived"] /\ i \in Registered
      BY <1>13 DEF ForceCleanupArchives, LoopIsFree
    <2>2. Entries(registry') = Entries(registry)
      BY <2>1, EntriesKept DEF Status
    <2>3. QED
      BY <2>1, <2>2 DEF OneAtATime, Busy, FileCurrent
  <1>14. ASSUME Crash
         PROVE  OneAtATime'
    <2>1. (overlapped => overlapped') /\ ~up' /\ \A t \in Actors : op'[t] = Idle
      BY <1>14 DEF Crash
    <2>2. QED
      BY <2>1, IdleIsAnOperation DEF OneAtATime, Busy
  <1>15. ASSUME Boot
         PROVE  OneAtATime'
    <2>1. /\ UNCHANGED <<op, overlapped>> /\ \A t \in Actors : ~Busy(t)
          /\ file' = registry' /\ registry' \in Registries
      BY <1>15, EmptyIsARegistry DEF Boot, Shape, TypeOK
    <2>2. FileCurrent'
      BY <2>1, MarkersAssumption DEF FileCurrent
    <2>3. QED
      BY <2>1, <2>2 DEF OneAtATime, Busy
  <1>16. ASSUME UNCHANGED vars
         PROVE  OneAtATime'
    BY <1>16 DEF vars, OneAtATime, Busy, FileCurrent
  <1>17. QED
    BY <1>1, <1>4, <1>5, <1>6, <1>7, <1>8, <1>9, <1>10, <1>11, <1>12, <1>13, <1>14, <1>15, <1>16,
       Zenon
    DEF Next, ForceCleanup

---------------------------------------------------------------------------
(* The directories.                                                        *)

\* The directories of a registry are still those of one with no other entries.
LEMMA HasDirsStays ==
  ASSUME NEW r, NEW s, NoNewNames(r, s), HasDirs(r), UNCHANGED dirs
  PROVE  HasDirs(s)'
  BY DEF NoNewNames, HasDirs, EntriesIn

LEMMA DirsAfter ==
  ASSUME TypeOK, NEW n \in Names, NEW d, dirs' = [dirs EXCEPT ![n] = d]
  PROVE  dirs'[n] = d /\ \A m \in Names : m # n => dirs'[m] = dirs[m]
  BY DEF TypeOK

LEMMA InitDirs == Init => DirsAgree
  <1>1. ASSUME Init
        PROVE  \A t \in Actors : op[t] = Idle
    BY <1>1 DEF Init
  <1>2. QED
    BY <1>1, EmptyIsARegistry, IdleIsAnOperation, LoopIsNoThread DEF Init, DirsAgree, HasDirs

LEMMA NextDirs ==
  ASSUME TypeOK, Shape, NamesApart, DirsAgree, OneAtATime, [Next]_vars
  PROVE  DirsAgree'
  <1> USE LoopIsNoThread
  <1> SUFFICES ASSUME ~clashed', faults' = 0
               PROVE  /\ HasDirs(registry)'
                      /\ ~up' /\ file' # Torn => HasDirs(file)'
                      /\ \A t \in Threads : op'[t].step = "undo" => ~NameTaken(op[t].name)'
    BY DEF DirsAgree
  <1> DEFINE Goal == /\ HasDirs(registry)'
                     /\ ~up' /\ file' # Torn => HasDirs(file)'
                     /\ \A t \in Threads : op'[t].step = "undo" => ~NameTaken(op[t].name)'
  <1>1. NoNewNames(registry, registry) /\ \A i \in EntriesIn(registry) : registry[i].name \in Names
    BY WorkspaceOf DEF NoNewNames, Registered, EntriesIn
  <1>2. ASSUME UNCHANGED registry
        PROVE  \A m : NameTaken(m)' <=> NameTaken(m)
    BY <1>2 DEF NameTaken, Registered
  <1>3. ASSUME ~clashed, faults = 0
        PROVE  /\ HasDirs(registry) /\ Unique(registry)
               /\ ~up /\ file # Torn => HasDirs(file)
               /\ \A t \in Threads : op[t].step = "undo" => ~NameTaken(op[t].name)
               /\ \A t \in Threads :
                    op[t].step \in {"mkdir", "output", "config"} => ~NameTaken(op[t].name)
    BY <1>3 DEF DirsAgree, NamesApart
  <1>4. ASSUME NEW t \in Threads, NEW n \in Names, NEW spelling \in Spellings, CheckName(t, n, spelling)
        PROVE  Goal
    <2>1. UNCHANGED <<up, registry, dirs, faults>> /\ up /\ ~clashed
      BY <1>4 DEF CheckName, Begins
    <2>2. op'[t].step = "mkdir" /\ OthersStay(t)
      BY <1>4, Starts
    <2>3. QED
      BY <1>2, <1>3, <2>1, <2>2 DEF OthersStay, HasDirs
  <1>5. ASSUME NEW t \in Threads, up, UNCHANGED <<up, registry, faults, clashed>>,
               NEW d, dirs' = [dirs EXCEPT ![op[t].name] = d],
               op[t].name \in Names, ~NameTaken(op[t].name),
               \/ \E s \in Steps : Goto(t, s)
               \/ End(t)
        PROVE  Goal
    <2>1. HasDirs(registry)
      BY <1>3, <1>5
    <2>2. \A m \in Names : m # op[t].name => dirs'[m] = dirs[m]
      BY <1>5, DirsAfter
    <2>3. ~Taken(registry, op[t].name)
      BY <1>5, TakenMeans
    <2>4. HasDirs(registry)'
      BY <1>1, <1>5, <2>1, <2>2, <2>3 DEF HasDirs, EntriesIn, Taken
    <2>5. \A u \in Threads : op'[u].step = "undo" => ~NameTaken(op'[u].name)
      BY <1>3, <1>5, Goes, Ends DEF OthersStay
    <2>6. QED
      BY <1>2, <1>5, <2>4, <2>5
  <1>6. ASSUME NEW t \in Actors, MakeDir(t) \/ MakeOutput(t)
        PROVE  Goal
    <2>1. t \in Threads /\ up /\ op[t].name \in Names /\ UNCHANGED <<up, registry, faults, clashed>>
      BY <1>6 DEF MakeDir, MakeOutput, Shape, Actors, Busy
    <2>2. ~NameTaken(op[t].name) /\ \E s \in Steps : Goto(t, s)
      BY <1>3, <1>6, <2>1 DEF MakeDir, MakeOutput, Steps
    <2>3. \E d : dirs' = [dirs EXCEPT ![op[t].name] = d]
      <3>1. dirs = [dirs EXCEPT ![op[t].name] = dirs[op[t].name]]
        BY <2>1 DEF TypeOK
      <3>2. QED
        BY <1>6, <3>1 DEF MakeDir, MakeOutput
    <2>4. QED
      BY <1>5, <2>1, <2>2, <2>3
  <1>7. ASSUME NEW t \in Actors, Register(t)
        PROVE  Goal
    <2>1. t \in Threads /\ up /\ op[t].name \in Names /\ op[t].id \in Ids
          /\ UNCHANGED <<up, faults, clashed>>
      BY <1>7 DEF Register, Shape, Actors, Busy
    <2>2. ~NameTaken(op[t].name) /\ HasDirs(registry) /\ Unique(registry)
      BY <1>3, <1>7, <2>1 DEF Register
    <2>3. CASE dirs[op[t].name] = NoDir
      <3>1. dirs' = [dirs EXCEPT ![op[t].name] = dirs[op[t].name]]
        BY <1>7, <2>1, <2>3 DEF Register, TypeOK
      <3>2. UNCHANGED registry /\ \E s \in Steps : Goto(t, s)
        BY <1>7, <2>3 DEF Register, Steps
      <3>3. QED
        BY <1>5, <2>1, <2>2, <3>1, <3>2
    <2>4. CASE dirs[op[t].name] # NoDir
      <3> DEFINE w == [name |-> op[t].name, status |-> "created"]
      <3>1. /\ dirs' = [dirs EXCEPT ![op[t].name] = op[t].id]
            /\ registry' = [registry EXCEPT ![op[t].id] = w]
            /\ Goto(t, "copy")
        BY <1>7, <2>4 DEF Register
      <3>2. dirs'[op[t].name] = op[t].id /\ \A m \in Names : m # op[t].name => dirs'[m] = dirs[m]
        BY <2>1, <3>1, DirsAfter
      <3>3. w.name = op[t].name
        OBVIOUS
      <3>4. registry'[op[t].id] = w /\ \A i \in Ids : i # op[t].id => registry'[i] = registry[i]
        BY <2>1, <3>1 DEF TypeOK, Registries
      <3> HIDE DEF w
      <3>5. HasDirs(registry)'
        BY <1>1, <2>2, <3>2, <3>3, <3>4, TakenMeans DEF HasDirs, EntriesIn, Taken
      <3>6. ASSUME NEW u \in Threads, op'[u].step = "undo"
            PROVE  ~NameTaken(op[u].name)'
        <4>1. u # t /\ op'[u] = op[u]
          BY <3>1, <3>6, Goes DEF OthersStay
        <4>2. op[u].name # op[t].name /\ ~NameTaken(op[u].name)
          BY <1>3, <1>7, <2>1, <3>6, <4>1 DEF NamesApart, Busy, Register
        <4>3. QED
          BY <3>3, <3>4, <4>1, <4>2 DEF NameTaken, Registered
      <3>7. QED
        BY <2>1, <3>5, <3>6
    <2>5. QED
      BY <2>3, <2>4
  <1>8. ASSUME NEW t \in Actors, Undo(t)
        PROVE  Goal
    <2>1. t \in Threads /\ up /\ op[t].name \in Names /\ UNCHANGED <<up, registry, faults, clashed>>
      BY <1>8 DEF Undo, Shape, Actors, Busy
    <2>2. ~NameTaken(op[t].name) /\ dirs' = [dirs EXCEPT ![op[t].name] = NoDir] /\ End(t)
      BY <1>3, <1>8, <2>1 DEF Undo
    <2>3. QED
      BY <1>5, <2>1, <2>2
  <1>9. ASSUME NEW t \in Actors, Copy(t) \/ CopyFails(t) \/ Open(t) \/ Write(t)
        PROVE  Goal
    <2>1. up /\ UNCHANGED <<up, registry, dirs, faults, clashed>>
      BY <1>9 DEF Copy, CopyFails, Open, Write, Shape, Busy
    <2>2. \A u \in Actors : op'[u].step = "undo" => op[u].step = "undo" /\ op'[u].name = op[u].name
      <3>1. CASE Copy(t)
        BY <3>1, Copies DEF OthersStay
      <3>2. CASE Open(t)
        BY <3>2, Opens
      <3>3. CASE CopyFails(t) \/ Write(t)
        BY <3>3, Ends DEF OthersStay, CopyFails, Write
      <3>4. QED
        BY <1>9, <3>1, <3>2, <3>3
    <2>3. \A u \in Threads : op'[u].step = "undo" => ~NameTaken(op[u].name)'
      BY <1>2, <1>3, <2>1, <2>2
    <2>4. QED
      BY <1>3, <2>1, <2>3 DEF HasDirs
  <1>10. ASSUME NEW t \in Actors, SaveFails(t)
         PROVE  Goal
    BY <1>10 DEF SaveFails, TypeOK
  <1>11. ASSUME NEW i \in Ids,
                Update(i) \/ (\E removeFiles \in BOOLEAN : Delete(i, removeFiles)) \/ StartIndexing(i)
         PROVE  Goal
    <2> DEFINE n == registry[i].name
    <2>1. /\ LoopIsFree(i) /\ ThenSaves(n) /\ UNCHANGED <<up, faults>> /\ ~clashed
      BY <1>11 DEF Update, Delete, StartIndexing, Begins
    <2>2. up /\ i \in Registered /\ n \in Names /\ registry[i] \in Workspace
      BY <2>1, WorkspaceOf DEF LoopIsFree
    <2>3. /\ HasDirs(registry) /\ Unique(registry) /\ dirs[n] = i
          /\ \A u \in Threads : op[u].step = "undo" => ~NameTaken(op[u].name)
      BY <1>3, <2>1, <2>2 DEF HasDirs, EntriesIn, Registered
    <2>4. i # NoDir
      BY StoreAssumption DEF Ids
    <2>5. NoNewNames(registry, registry') /\ HasDirs(registry)'
      <3>1. CASE Update(i)
        <4>1. UNCHANGED <<registry, dirs>>
          BY <2>2, <2>3, <2>4, <3>1 DEF Update, TypeOK
        <4>2. QED
          BY <1>1, <2>3, <4>1 DEF HasDirs
      <3>2. CASE StartIndexing(i)
        <4>1. UNCHANGED dirs /\ NoNewNames(registry, registry')
          BY <2>2, <3>2, RegistryAfter DEF StartIndexing, Status
        <4>2. QED
          BY <2>3, <4>1, HasDirsStays DEF HasDirs
      <3>3. ASSUME NEW removeFiles \in BOOLEAN, Delete(i, removeFiles)
            PROVE  NoNewNames(registry, registry') /\ HasDirs(registry)'
        <4>1. /\ registry' = [registry EXCEPT ![i] = NoWorkspace]
              /\ \E d : dirs' = [dirs EXCEPT ![n] = d]
          BY <3>3 DEF Delete
        <4>2. NoNewNames(registry, registry')
          BY <4>1, RegistryAfter
        <4>3. \A m \in Names : m # n => dirs'[m] = dirs[m]
          BY <2>2, <4>1, DirsAfter
        <4>4. registry'[i] = NoWorkspace
          BY <4>1 DEF TypeOK, Registries
        <4>5. ~Taken(registry', n)
          BY <2>2, <2>3, <4>2, <4>4 DEF Unique, Taken, NoNewNames, EntriesIn, Registered
        <4>6. HasDirs(registry)'
          BY <1>1, <2>3, <4>2, <4>3, <4>5 DEF NoNewNames, HasDirs, EntriesIn, Taken
        <4>7. QED
          BY <4>2, <4>6
      <3>4. QED
        BY <1>11, <3>1, <3>2, <3>3
    <2>6. \A m : NameTaken(m)' => NameTaken(m)
      BY <2>5, NoNewNamesKeeps DEF NameTaken, Registered, Taken, EntriesIn
    <2>7. \A u \in Threads : op'[u] = op[u]
      BY <2>1, Saves DEF OthersStay
    <2>8. QED
      BY <2>1, <2>2, <2>3, <2>5, <2>6, <2>7
  <1>12. ASSUME NEW i \in Ids, ForceCleanupArchives(i)
         PROVE  Goal
    <2>1. /\ up /\ i \in Registered /\ registry' = [registry EXCEPT ![i].status = "archived"]
          /\ UNCHANGED <<up, dirs, op, faults, clashed>>
      BY <1>12 DEF ForceCleanupArchives, LoopIsFree
    <2>2. NoNewNames(registry, registry')
      BY <2>1, RegistryAfter DEF Status
    <2>3. \A m : NameTaken(m)' => NameTaken(m)
      BY <2>2, NoNewNamesKeeps DEF NameTaken, Registered, Taken, EntriesIn
    <2>4. HasDirs(registry)'
      BY <1>3, <2>1, <2>2, HasDirsStays DEF HasDirs
    <2>5. QED
      BY <1>3, <2>1, <2>3, <2>4
  <1>13. ASSUME Crash
         PROVE  Goal
    <2>1. /\ up /\ faults = 0 /\ ~overlapped /\ ~clashed /\ \A t \in Actors : ~Busy(t)
          /\ registry' = Empty /\ UNCHANGED <<dirs, file>> /\ \A t \in Actors : op'[t] = Idle
      BY <1>13 DEF Crash
    <2>2. FileCurrent /\ HasDirs(registry)
      BY <1>3, <2>1 DEF OneAtATime, Busy
    <2>3. \A j \in EntriesIn(file) : j \in EntriesIn(registry) /\ file[j].name = registry[j].name
      <3>1. ASSUME NEW j \in EntriesIn(file)
            PROVE  j \in EntriesIn(registry) /\ file[j].name = registry[j].name
        <4>1. <<j, file[j].name>> \in Entries(file)
          BY <3>1 DEF Entries, EntriesIn
        <4>2. <<j, file[j].name>> \in Entries(registry)
          BY <2>2, <4>1 DEF FileCurrent
        <4>3. QED
          BY <4>2 DEF Entries, EntriesIn
      <3>2. QED
        BY <3>1
    <2>4. HasDirs(file)'
      BY <2>1, <2>2, <2>3 DEF HasDirs, EntriesIn
    <2>5. HasDirs(registry)'
      BY <2>1, EmptyIsARegistry DEF HasDirs
    <2>6. QED
      BY <2>1, <2>4, <2>5, IdleIsAnOperation
  <1>14. ASSUME Boot
         PROVE  Goal
    <2>1. /\ ~up /\ up' /\ UNCHANGED <<dirs, op, faults, clashed>>
          /\ registry' = (IF file = Torn THEN Empty ELSE file) /\ \A t \in Actors : ~Busy(t)
      BY <1>14 DEF Boot, Shape
    <2>2. HasDirs(registry)'
      BY <1>3, <2>1, EmptyIsARegistry DEF HasDirs
    <2>3. QED
      BY <2>1, <2>2 DEF Busy
  <1>15. ASSUME UNCHANGED vars
         PROVE  Goal
    BY <1>2, <1>3, <1>15 DEF vars, HasDirs
  <1>16. QED
    BY <1>4, <1>6, <1>7, <1>8, <1>9, <1>10, <1>11, <1>12, <1>13, <1>14, <1>15, Zenon
    DEF Next, ForceCleanup

---------------------------------------------------------------------------
(* The results.                                                            *)

\* The invariant holds, for any number of threads, names, ids and failed writes.
THEOREM IndInvHolds == Spec => []IndInv
  <1>1. Init => IndInv
    BY InitTypes, InitShape, InitNames, InitDirs, InitOneAtATime DEF IndInv
  <1>2. IndInv /\ [Next]_vars => IndInv'
    BY NextTypes, NextShape, NextNames, NextDirs, NextOneAtATime DEF IndInv
  <1>3. QED
    BY <1>1, <1>2, PTL DEF Spec

\* What it says of names, directories and the index.
LEMMA IndInvImplies ==
  ASSUME IndInv
  PROVE  NamesUniqueUnlessClash /\ DirsKeptUnlessClash /\ IndexCurrentUnlessOverlap
  <1>1. NamesUniqueUnlessClash
    BY DEF IndInv, NamesApart, Unique, EntriesIn, NamesUniqueUnlessClash, Registered
  <1>2. DirsKeptUnlessClash
    BY DEF IndInv, DirsAgree, HasDirs, EntriesIn, DirsKeptUnlessClash, Registered
  <1>3. IndexCurrentUnlessOverlap
    BY DEF IndInv, OneAtATime, Busy, FileCurrent, IndexCurrentUnlessOverlap
  <1>4. QED
    BY <1>1, <1>2, <1>3

---------------------------------------------------------------------------
(* The composition.                                                        *)

allVars == <<part, vars, SqliteVars, MigrationVars, ServiceVars>>

THEOREM StoreInvHolds == StorageSpec => []IndInv
  <1>1. StorageInit => IndInv
    BY InitTypes, InitShape, InitNames, InitDirs, InitOneAtATime DEF StorageInit, IndInv
  <1>2. IndInv /\ [StorageNext]_allVars => IndInv'
    <2>1. [StorageNext]_allVars => [Next]_vars
      BY Zenon DEF StorageNext, allVars
    <2>2. QED
      BY <2>1, NextTypes, NextShape, NextNames, NextDirs, NextOneAtATime DEF IndInv
  <1>3. QED
    BY <1>1, <1>2, PTL DEF StorageSpec, allVars

\* However creations, changes and deletions of workspaces interleave, with any number of
\* threads, and wherever the process ends: as long as no two of them work on one name at
\* once, a name has one workspace, and, as long as no save fails, a workspace its directory.
THEOREM ClashesAside == StorageSpec => []ClashAside
  <1>1. IndInv => ClashAside
    BY IndInvImplies DEF ClashAside
  <1>2. QED
    BY StoreInvHolds, <1>1, PTL

\* Used one operation at a time, the manager leaves an index with the entries it has in
\* memory, whichever operations came before, and however often the process was ended.
THEOREM IndexStaysCurrent == StorageSpec => []IndexCurrentUnlessOverlap
  <1>1. IndInv => IndexCurrentUnlessOverlap
    BY IndInvImplies
  <1>2. QED
    BY StoreInvHolds, <1>1, PTL

---------------------------------------------------------------------------
(* The migration of the users.                                             *)

MigrationInv == Migration!TypeOK /\ Migration!MigrationSound

\* A statement of a run.
Statement(m) ==
  \/ \E createAdmin \in BOOLEAN : Migration!Check(m, createAdmin)
  \/ Migration!Exists(m) \/ Migration!Create(m) \/ Migration!Mark(m) \/ Migration!Fail(m) \/ Migration!Again(m)

\* Before the first run the invariant holds: nothing has been made.
LEMMA MigrationInitInv == Migration!Init => MigrationInv
  <1> SUFFICES ASSUME Migration!Init PROVE MigrationInv
    OBVIOUS
  <1>1. others \in BOOLEAN /\ recorded \in BOOLEAN
    BY Zenon DEF Migration!Init
  <1>2. \A r \in Migrators : ~outcome[r]
    BY Zenon DEF Migration!Init
  <1>3. /\ adminName = "nobody" /\ creations = 0
        /\ stage \in [Migrators -> {"begin", "exists", "create", "mark", "ended"}]
    BY DEF Migration!Init
  <1>4. outcome \in [Migrators -> BOOLEAN]
    BY Zenon DEF Migration!Init
  <1>5. creations = (IF adminName = "admin" THEN 1 ELSE 0) /\ creations \in Nat
    BY <1>3
  <1>6. QED
    BY <1>1, <1>2, <1>3, <1>4, <1>5, Zenon DEF MigrationInv, Migration!TypeOK, Migration!MigrationSound

\* What a run finds in the tables stays there.
LEMMA TablesGrow ==
  ASSUME MigrationInv, NEW m \in Migrators, Statement(m)
  PROVE  /\ others' = others
         /\ recorded' = recorded \/ recorded'
         /\ recorded' \in BOOLEAN
         /\ adminName # "nobody" => adminName' = adminName
  <1>1. others' = others
    BY Zenon DEF Statement, Migration!Check, Migration!Exists, Migration!Create, Migration!Mark, Migration!Fail, Migration!Again
  <1>2. recorded' = recorded \/ recorded'
    BY Zenon DEF Statement, Migration!Check, Migration!Exists, Migration!Create, Migration!Mark, Migration!Fail, Migration!Again
  <1>3. recorded' = recorded \/ recorded' = TRUE
    BY Zenon DEF Statement, Migration!Check, Migration!Exists, Migration!Create, Migration!Mark, Migration!Fail, Migration!Again
  <1>4. adminName # "nobody" => adminName' = adminName
    BY Zenon DEF Statement, Migration!Check, Migration!Exists, Migration!Create, Migration!Mark, Migration!Fail, Migration!Again
  <1>5. QED
    BY <1>1, <1>2, <1>3, <1>4, Zenon DEF MigrationInv, Migration!TypeOK

\* A statement of a run keeps the invariant.
LEMMA RunKeepsMigrationInv ==
  ASSUME MigrationInv, NEW m \in Migrators, Statement(m)
  PROVE  MigrationInv'
  <1>1. /\ stage' \in [Migrators -> {"begin", "exists", "create", "mark", "ended"}]
        /\ adminName' \in {"nobody", "admin", "user"}
    <2> USE DEF MigrationInv, Migration!TypeOK, Migration!Return
    <2>1. CASE \E createAdmin \in BOOLEAN : Migration!Check(m, createAdmin)
      BY <2>1 DEF Migration!Check
    <2>2. CASE Migration!Exists(m)
      BY <2>2 DEF Migration!Exists
    <2>3. CASE Migration!Create(m)
      BY <2>3 DEF Migration!Create
    <2>4. CASE Migration!Mark(m)
      BY <2>4 DEF Migration!Mark
    <2>5. CASE Migration!Fail(m)
      BY <2>5 DEF Migration!Fail
    <2>6. CASE Migration!Again(m)
      BY <2>6 DEF Migration!Again
    <2>7. QED
      BY <2>1, <2>2, <2>3, <2>4, <2>5, <2>6 DEF Statement
  <1>2. /\ creations' = (IF adminName' = "admin" THEN 1 ELSE 0)
        /\ creations' \in Nat
    <2>1. CASE Migration!Create(m) /\ adminName = "nobody"
      BY <2>1 DEF Migration!Create, MigrationInv, Migration!TypeOK, Migration!MigrationSound
    <2>2. CASE UNCHANGED <<adminName, creations>>
      BY <2>2 DEF MigrationInv, Migration!TypeOK, Migration!MigrationSound
    <2>3. QED
      BY <2>1, <2>2, Zenon DEF Statement, Migration!Check, Migration!Exists, Migration!Create, Migration!Mark, Migration!Fail, Migration!Again
  <1>3. outcome' = outcome \/ outcome' = [outcome EXCEPT ![m] = TRUE] \/ outcome' = [outcome EXCEPT ![m] = FALSE]
    BY Zenon DEF Statement, Migration!Check, Migration!Exists, Migration!Create, Migration!Mark, Migration!Fail, Migration!Again, Migration!Return
  <1>4. outcome' \in [Migrators -> BOOLEAN]
    BY <1>3, Zenon DEF MigrationInv, Migration!TypeOK
  <1>5. outcome'[m] => outcome[m] \/ recorded' \/ others \/ adminName # "nobody"
    <2>1. outcome' = outcome \/ outcome' = [outcome EXCEPT ![m] = FALSE]
            \/ recorded' \/ others \/ adminName # "nobody"
      BY Zenon DEF Statement, Migration!Check, Migration!Exists, Migration!Create, Migration!Mark, Migration!Fail, Migration!Again, Migration!Return
    <2>2. QED
      BY <2>1, Zenon DEF MigrationInv, Migration!TypeOK
  <1>6. \A r \in Migrators : outcome'[r] => recorded' \/ others' \/ adminName' # "nobody"
    <2>1. \A r \in Migrators : r # m => outcome'[r] = outcome[r]
      BY <1>3, Zenon DEF MigrationInv, Migration!TypeOK
    <2>2. \A r \in Migrators : outcome[r] => recorded \/ others \/ adminName # "nobody"
      BY Zenon DEF MigrationInv, Migration!MigrationSound
    <2>3. /\ recorded => recorded'
          /\ others => others'
          /\ adminName # "nobody" => adminName' # "nobody"
      BY TablesGrow, Zenon
    <2>4. SUFFICES ASSUME NEW r \in Migrators, outcome'[r]
                   PROVE  recorded' \/ others' \/ adminName' # "nobody"
      OBVIOUS
    <2>5. CASE r = m
      BY <1>5, <2>2, <2>3, <2>4, <2>5, Zenon
    <2>6. CASE r # m
      BY <2>1, <2>2, <2>3, <2>4, <2>6, Zenon
    <2>7. QED
      BY <2>5, <2>6
  <1>7. QED
    BY <1>1, <1>2, <1>4, <1>6, TablesGrow, Zenon DEF MigrationInv, Migration!TypeOK, Migration!MigrationSound

\* A registration beside the runs does.
LEMMA RegisterKeepsMigrationInv ==
  ASSUME MigrationInv, NEW asAdmin \in BOOLEAN, Migration!Register(asAdmin)
  PROVE  MigrationInv'
  <1>1. /\ adminName' \in {"nobody", "admin", "user"}
        /\ adminName' = "admin" <=> adminName = "admin"
        /\ adminName # "nobody" => adminName' # "nobody"
    BY DEF Migration!Register, MigrationInv, Migration!TypeOK
  <1>2. others' \in BOOLEAN /\ (others => others')
    BY Zenon DEF Migration!Register, MigrationInv, Migration!TypeOK
  <1>3. /\ recorded' = recorded /\ stage' = stage /\ outcome' = outcome
        /\ creations' = creations
    BY Zenon DEF Migration!Register
  <1>4. creations' = (IF adminName' = "admin" THEN 1 ELSE 0)
    BY <1>1, <1>3 DEF MigrationInv, Migration!MigrationSound
  <1>5. QED
    BY <1>1, <1>2, <1>3, <1>4, Zenon DEF MigrationInv, Migration!TypeOK, Migration!MigrationSound

---------------------------------------------------------------------------
(* Workspaces in SQLite.                                                   *)

\* Where a caller may stand, when the creations so far have the numbers up to n.
Standings(n) ==
  {Sqlite!Ready} \cup [at : {"mkdir"}, name : Titles]
  \cup [at : {"insert", "undo"}, name : Titles, dir : 1..n]
  \cup [at : {"delete"}, row : 1..n]

Holding(c) == step[c].at \in {"insert", "undo"}

SqliteShape ==
  /\ rows \in [Sqlite!Numbers -> Sqlite!Row \cup {NoRow}]
  /\ made \in 0..MaxMade /\ Sqlite!InRows \subseteq 1..made
  /\ tree \subseteq 1..made /\ forgot \subseteq 1..made /\ doomed \subseteq 1..made
  /\ step \in [Callers -> Standings(made)]

\* The directory of a creation is there, has no row and is no other caller's; that of a row
\* that is being deleted is removed, or forgotten, and a row without a path forgot its own.
SqliteSteps ==
  /\ \A c \in Callers : Holding(c) => step[c].dir \in tree \ (Sqlite!InRows \cup doomed)
  /\ \A c, d \in Callers : Holding(c) /\ Holding(d) /\ step[c].dir = step[d].dir => c = d
  /\ \A c \in Callers : step[c].at = "delete" => step[c].row \in doomed
  /\ doomed \cap tree \subseteq forgot
  /\ \A i \in Sqlite!InRows : ~rows[i].path => i \in forgot

SqliteInv == SqliteShape /\ SqliteSteps /\ Sqlite!RowsAndDirsAgree

LEMMA StandingsAre ==
  ASSUME SqliteShape, Sqlite!SqliteAssumption, NEW c \in Callers
  PROVE  /\ step[c].at \in {"ready", "mkdir", "insert", "undo", "delete"}
         /\ step[c].at = "ready" <=> step[c] = Sqlite!Ready
         /\ step[c].at = "mkdir" => step[c].name \in Titles
         /\ Holding(c) => step[c] \in [at : {"insert", "undo"}, name : Titles, dir : 1..made]
         /\ step[c].at = "delete" => step[c].row \in 1..made
  BY DEF SqliteShape, Standings, Sqlite!Ready, Holding

CallersStay(c) == \A d \in Callers : d # c => step'[d] = step[d]

LEMMA CallerGoes ==
  ASSUME SqliteShape, NEW c \in Callers, NEW x, step' = [step EXCEPT ![c] = x]
  PROVE  step'[c] = x /\ CallersStay(c)
  BY DEF SqliteShape, CallersStay

LEMMA CallerUndoes ==
  ASSUME SqliteShape, Sqlite!SqliteAssumption, NEW c \in Callers, step[c].at = "insert",
         step' = [step EXCEPT ![c].at = "undo"]
  PROVE  /\ step'[c].at = "undo" /\ step'[c].dir = step[c].dir
         /\ step'[c] \in Standings(made) /\ CallersStay(c)
  <1>1. step[c] \in [at : {"insert", "undo"}, name : Titles, dir : 1..made]
    BY StandingsAre DEF Holding
  <1>2. step' = [step EXCEPT ![c] = [step[c] EXCEPT !.at = "undo"]]
    OBVIOUS
  <1>3. step'[c] = [step[c] EXCEPT !.at = "undo"] /\ CallersStay(c)
    BY <1>2, CallerGoes
  <1>4. step'[c] \in [at : {"insert", "undo"}, name : Titles, dir : 1..made]
        /\ step'[c].at = "undo" /\ step'[c].dir = step[c].dir
    BY <1>1, <1>3
  <1>5. QED
    BY <1>3, <1>4 DEF Standings

\* The invariant after a step of a caller, from what the step does to it and to the tables.
LEMMA SqliteInit == Sqlite!SqliteAssumption /\ Sqlite!Init => SqliteInv
  <1> SUFFICES ASSUME Sqlite!SqliteAssumption, Sqlite!Init
               PROVE  SqliteInv
    OBVIOUS
  <1> USE DEF Sqlite!Init, Sqlite!SqliteAssumption
  <1>1. Sqlite!InRows = {} /\ tree = {} /\ \A c \in Callers : step[c] = Sqlite!Ready
    BY DEF Sqlite!InRows
  <1>2. Sqlite!Ready.at = "ready"
    BY DEF Sqlite!Ready
  <1>3. SqliteShape
    BY <1>1 DEF SqliteShape, Standings
  <1>4. SqliteSteps
    BY <1>1, <1>2 DEF SqliteSteps, Holding
  <1>5. Sqlite!RowsAndDirsAgree
    BY <1>1 DEF Sqlite!RowsAndDirsAgree
  <1>6. QED
    BY <1>3, <1>4, <1>5 DEF SqliteInv

LEMMA SqliteKept ==
  ASSUME Sqlite!SqliteAssumption, SqliteInv, [Sqlite!Next]_SqliteVars
  PROVE  SqliteInv'
  <1> USE DEF Sqlite!SqliteAssumption
  <1>0. SqliteShape /\ SqliteSteps /\ Sqlite!RowsAndDirsAgree
    BY DEF SqliteInv
  <1>1. ASSUME NEW c \in Callers, NEW n \in Titles, Sqlite!LookUp(c, n)
        PROVE  SqliteInv'
    <2>1. UNCHANGED <<rows, tree, made, forgot, doomed>> /\ step[c] = Sqlite!Ready
      BY <1>1 DEF Sqlite!LookUp
    <2>2. step'[c] = [at |-> "mkdir", name |-> n] /\ CallersStay(c)
      BY <1>0, <1>1, CallerGoes DEF Sqlite!LookUp
    <2>3. Sqlite!InRows' = Sqlite!InRows
      BY <2>1 DEF Sqlite!InRows
    <2>4. step' \in [Callers -> Standings(made)]
      BY <1>0, <1>1, <2>2 DEF Sqlite!LookUp, SqliteShape, Standings
    <2>5. step[c].at = "ready" /\ step'[c].at = "mkdir"
      BY <2>1, <2>2 DEF Sqlite!Ready
    <2>6. SqliteShape'
      BY <1>0, <2>1, <2>3, <2>4 DEF SqliteShape
    <2>7. SqliteSteps'
      BY <1>0, <2>1, <2>2, <2>3, <2>5 DEF SqliteSteps, Holding, CallersStay
    <2>8. Sqlite!RowsAndDirsAgree'
      BY <1>0, <2>1, <2>2, <2>3, <2>5 DEF Sqlite!RowsAndDirsAgree, Sqlite!Held, CallersStay
    <2>9. QED
      BY <2>6, <2>7, <2>8 DEF SqliteInv
  <1>2. ASSUME NEW c \in Callers, Sqlite!MakeDirs(c)
        PROVE  SqliteInv'
    <2>1. /\ UNCHANGED <<rows, forgot, doomed>> /\ step[c].at = "mkdir"
          /\ made < MaxMade /\ made' = made + 1 /\ tree' = tree \cup {made + 1}
      BY <1>2 DEF Sqlite!MakeDirs
    <2>2. /\ step'[c] = [at |-> "insert", name |-> step[c].name, dir |-> made + 1]
          /\ CallersStay(c)
      BY <1>0, <1>2, CallerGoes DEF Sqlite!MakeDirs
    <2>3. Sqlite!InRows' = Sqlite!InRows
      BY <2>1 DEF Sqlite!InRows
    <2>4. made \in Nat /\ made + 1 \in 0..MaxMade /\ 1..made \subseteq 1..(made + 1)
          /\ made + 1 \notin 1..made
      BY <1>0, <2>1 DEF SqliteShape
    <2>5. step' \in [Callers -> Standings(made + 1)]
      <3>1. step'[c] \in Standings(made + 1)
        BY <1>0, <2>1, <2>2, <2>4, StandingsAre DEF Standings
      <3>2. \A d \in Callers : step[d] \in Standings(made + 1)
        BY <1>0, <2>4 DEF SqliteShape, Standings
      <3>3. \A d \in Callers : step'[d] \in Standings(made + 1)
        BY <2>2, <3>1, <3>2 DEF CallersStay
      <3>4. step' = [d \in Callers |-> step'[d]]
        BY <1>0, <1>2 DEF Sqlite!MakeDirs, SqliteShape
      <3>5. QED
        BY <3>3, <3>4
    <2>6. step'[c].at = "insert" /\ step'[c].dir = made + 1
      BY <2>2
    <2>7. \A d \in Callers : Holding(d) => step[d].dir \in 1..made
      BY <1>0, StandingsAre
    <2>8. SqliteShape'
      BY <1>0, <2>1, <2>3, <2>4, <2>5 DEF SqliteShape
    <2>9. SqliteSteps'
      <3>1. \A d \in Callers : Holding(d)' => step'[d].dir \in tree' \ (Sqlite!InRows' \cup doomed')
        BY <1>0, <2>1, <2>2, <2>3, <2>4, <2>6 DEF SqliteSteps, Holding, CallersStay, SqliteShape
      <3>2. \A d, e \in Callers : Holding(d)' /\ Holding(e)' /\ step'[d].dir = step'[e].dir => d = e
        BY <1>0, <2>2, <2>4, <2>6, <2>7 DEF SqliteSteps, Holding, CallersStay
      <3>3. \A d \in Callers : step'[d].at = "delete" => step'[d].row \in doomed'
        BY <1>0, <2>1, <2>2, <2>6 DEF SqliteSteps, CallersStay
      <3>4. doomed' \cap tree' \subseteq forgot'
        BY <1>0, <2>1, <2>4 DEF SqliteSteps, SqliteShape
      <3>5. QED
        BY <1>0, <2>1, <2>3, <3>1, <3>2, <3>3, <3>4 DEF SqliteSteps
    <2>10. Sqlite!RowsAndDirsAgree'
      <3>1. \A d \in tree' : d \in Sqlite!InRows' \/ Sqlite!Held(d)' \/ d \in forgot'
        BY <1>0, <2>1, <2>2, <2>3, <2>6 DEF Sqlite!RowsAndDirsAgree, Sqlite!Held, CallersStay
      <3>2. QED
        BY <1>0, <2>1, <2>3, <3>1 DEF Sqlite!RowsAndDirsAgree
    <2>11. QED
      BY <2>8, <2>9, <2>10 DEF SqliteInv
  <1>3. ASSUME NEW c \in Callers, step[c].at = "insert", step' = [step EXCEPT ![c].at = "undo"],
               UNCHANGED <<rows, tree, made, forgot, doomed>>
        PROVE  SqliteInv'
    <2>1. /\ step'[c].at = "undo" /\ step'[c].dir = step[c].dir
          /\ step'[c] \in Standings(made) /\ CallersStay(c)
      BY <1>0, <1>3, CallerUndoes
    <2>2. Sqlite!InRows' = Sqlite!InRows
      BY <1>3 DEF Sqlite!InRows
    <2>3. SqliteShape'
      <3>1. \A d \in Callers : step'[d] \in Standings(made)
        BY <1>0, <2>1 DEF SqliteShape, CallersStay
      <3>2. step' = [d \in Callers |-> step'[d]]
        BY <1>0, <1>3 DEF SqliteShape
      <3>3. QED
        BY <1>0, <1>3, <2>2, <3>1, <3>2 DEF SqliteShape
    <2>4. SqliteSteps'
      BY <1>0, <1>3, <2>1, <2>2 DEF SqliteSteps, Holding, CallersStay
    <2>5. Sqlite!RowsAndDirsAgree'
      BY <1>0, <1>3, <2>1, <2>2 DEF Sqlite!RowsAndDirsAgree, Sqlite!Held, CallersStay
    <2>6. QED
      BY <2>3, <2>4, <2>5 DEF SqliteInv
  <1>4. ASSUME NEW c \in Callers, Sqlite!Insert(c) \/ Sqlite!CreationFails(c)
        PROVE  SqliteInv'
    <2>1. step[c].at = "insert" /\ UNCHANGED <<tree, made, forgot, doomed>>
      BY <1>4 DEF Sqlite!Insert, Sqlite!CreationFails
    <2>2. CASE step' = [step EXCEPT ![c].at = "undo"] /\ UNCHANGED rows
      BY <1>3, <2>1, <2>2
    <2>3. ASSUME ~Sqlite!NameInUse(step[c].name),
                 rows' = [rows EXCEPT ![step[c].dir] =
                           [name |-> step[c].name, title |-> step[c].name, path |-> TRUE]],
                 step' = [step EXCEPT ![c] = Sqlite!Ready]
          PROVE  SqliteInv'
      <3> DEFINE w == [name |-> step[c].name, title |-> step[c].name, path |-> TRUE]
                 k == step[c].dir
      <3>1. step'[c] = Sqlite!Ready /\ CallersStay(c)
        BY <1>0, <2>3, CallerGoes
      <3>2. Holding(c) /\ step[c].name \in Titles /\ k \in 1..made /\ k \in Sqlite!Numbers
        BY <1>0, <2>1, StandingsAre DEF Holding, SqliteShape, Sqlite!Numbers
      <3>3. w \in Sqlite!Row /\ w # NoRow /\ w.name = step[c].name /\ w.path
        <4>1. w \in Sqlite!Row
          BY <3>2 DEF Sqlite!Row
        <4>2. w.name = step[c].name
          OBVIOUS
        <4>3. w.path
          BY Zenon
        <4>4. QED
          BY <4>1, <4>2, <4>3
      <3>4. rows'[k] = w /\ \A i \in Sqlite!Numbers : i # k => rows'[i] = rows[i]
        BY <1>0, <2>3, <3>2 DEF SqliteShape
      <3>5. rows' \in [Sqlite!Numbers -> Sqlite!Row \cup {NoRow}]
        BY <1>0, <2>3, <3>3 DEF SqliteShape
      <3> HIDE DEF w, k
      <3>6. Sqlite!InRows' = Sqlite!InRows \cup {k}
        BY <3>2, <3>3, <3>4 DEF Sqlite!InRows
      <3>7. k \in tree /\ k \notin Sqlite!InRows /\ k \notin doomed
        BY <1>0, <3>2 DEF SqliteSteps, k
      <3>8. Sqlite!Ready.at = "ready" /\ Sqlite!Ready \in Standings(made)
        BY DEF Sqlite!Ready, Standings
      <3>9. SqliteShape'
        BY <1>0, <2>1, <2>3, <3>2, <3>5, <3>6, <3>8 DEF SqliteShape
      <3>10. \A d \in Callers : Holding(d)' => d # c /\ Holding(d) /\ step'[d] = step[d] /\ step[d].dir # k
        BY <1>0, <3>1, <3>2, <3>8 DEF SqliteSteps, Holding, CallersStay, k
      <3>11. SqliteSteps'
        <4>1. \A d \in Callers : Holding(d)' => step'[d].dir \in tree' \ (Sqlite!InRows' \cup doomed')
          BY <1>0, <2>1, <3>6, <3>10 DEF SqliteSteps
        <4>2. \A d, e \in Callers : Holding(d)' /\ Holding(e)' /\ step'[d].dir = step'[e].dir => d = e
          BY <1>0, <3>10 DEF SqliteSteps
        <4>3. \A d \in Callers : step'[d].at = "delete" => step'[d].row \in doomed'
          BY <1>0, <2>1, <3>1, <3>8 DEF SqliteSteps, CallersStay
        <4>4. \A i \in Sqlite!InRows' : ~rows'[i].path => i \in forgot'
          BY <1>0, <2>1, <3>3, <3>4, <3>6 DEF SqliteSteps, Sqlite!InRows
        <4>5. QED
          BY <1>0, <2>1, <4>1, <4>2, <4>3, <4>4 DEF SqliteSteps
      <3>12. Sqlite!RowsAndDirsAgree'
        <4>1. \A i \in Sqlite!InRows' \ doomed' : i \in tree'
          BY <1>0, <2>1, <3>6, <3>7 DEF Sqlite!RowsAndDirsAgree
        <4>2. \A d \in tree' : d \in Sqlite!InRows' \/ Sqlite!Held(d)' \/ d \in forgot'
          BY <1>0, <2>1, <3>1, <3>6 DEF Sqlite!RowsAndDirsAgree, Sqlite!Held, CallersStay, k
        <4>3. \A i, j \in Sqlite!InRows' : rows'[i].name = rows'[j].name => i = j
          BY <1>0, <2>3, <3>3, <3>4, <3>6
          DEF Sqlite!RowsAndDirsAgree, Sqlite!InRows, Sqlite!NameInUse
        <4>4. QED
          BY <4>1, <4>2, <4>3 DEF Sqlite!RowsAndDirsAgree
      <3>13. QED
        BY <3>9, <3>11, <3>12 DEF SqliteInv
    <2>4. QED
      BY <1>4, <2>2, <2>3 DEF Sqlite!Insert, Sqlite!CreationFails
  <1>5. ASSUME NEW c \in Callers, Sqlite!Undo(c)
        PROVE  SqliteInv'
    <2> DEFINE k == step[c].dir
    <2>1. UNCHANGED <<rows, made, doomed>> /\ step[c].at = "undo" /\ Sqlite!RemoveTree(k)
      BY <1>5 DEF Sqlite!Undo
    <2>2. step'[c] = Sqlite!Ready /\ CallersStay(c)
      BY <1>0, <1>5, CallerGoes DEF Sqlite!Undo
    <2>3. Sqlite!InRows' = Sqlite!InRows
      BY <2>1 DEF Sqlite!InRows
    <2>4. Sqlite!Ready.at = "ready" /\ Sqlite!Ready \in Standings(made)
      BY DEF Sqlite!Ready, Standings
    <2>5. Holding(c) /\ k \in tree /\ k \notin Sqlite!InRows /\ k \notin doomed /\ k \in 1..made
      BY <1>0, <2>1, StandingsAre DEF Holding, SqliteSteps
    <2>6. \/ tree' = tree \ {k} /\ forgot' = forgot
          \/ tree' = tree /\ forgot' = forgot \cup {k}
      BY <2>1 DEF Sqlite!RemoveTree
    <2>7. \A d \in Callers : Holding(d)' => d # c /\ Holding(d) /\ step'[d] = step[d] /\ step[d].dir # k
      BY <1>0, <2>2, <2>4, <2>5 DEF SqliteSteps, Holding, CallersStay
    <2> HIDE DEF k
    <2>8. SqliteShape'
      BY <1>0, <1>5, <2>1, <2>3, <2>4, <2>5, <2>6 DEF SqliteShape, Sqlite!Undo
    <2>9. SqliteSteps'
      <3>1. \A d \in Callers : Holding(d)' => step'[d].dir \in tree' \ (Sqlite!InRows' \cup doomed')
        BY <1>0, <2>1, <2>3, <2>6, <2>7 DEF SqliteSteps
      <3>2. \A d, e \in Callers : Holding(d)' /\ Holding(e)' /\ step'[d].dir = step'[e].dir => d = e
        BY <1>0, <2>7 DEF SqliteSteps
      <3>3. \A d \in Callers : step'[d].at = "delete" => step'[d].row \in doomed'
        BY <1>0, <2>1, <2>2, <2>4 DEF SqliteSteps, CallersStay
      <3>4. QED
        BY <1>0, <2>1, <2>3, <2>6, <3>1, <3>2, <3>3 DEF SqliteSteps
    <2>10. Sqlite!RowsAndDirsAgree'
      <3>1. \A d \in tree' : d \in Sqlite!InRows' \/ Sqlite!Held(d)' \/ d \in forgot'
        BY <1>0, <2>2, <2>3, <2>6 DEF Sqlite!RowsAndDirsAgree, Sqlite!Held, CallersStay, k
      <3>2. QED
        BY <1>0, <2>1, <2>3, <2>5, <2>6, <3>1 DEF Sqlite!RowsAndDirsAgree
    <2>11. QED
      BY <2>8, <2>9, <2>10 DEF SqliteInv
  <1>6. ASSUME NEW c \in Callers, NEW i \in Sqlite!Numbers, Sqlite!RemoveFiles(c, i)
        PROVE  SqliteInv'
    <2>1. /\ UNCHANGED <<rows, made>> /\ step[c] = Sqlite!Ready /\ i \in Sqlite!InRows
          /\ doomed' = doomed \cup {i}
      BY <1>6 DEF Sqlite!RemoveFiles
    <2>2. step'[c] = [at |-> "delete", row |-> i] /\ CallersStay(c)
      BY <1>0, <1>6, CallerGoes DEF Sqlite!RemoveFiles
    <2>3. Sqlite!InRows' = Sqlite!InRows
      BY <2>1 DEF Sqlite!InRows
    <2>4. \/ tree' = tree \ {i} /\ forgot' = forgot
          \/ tree' = tree /\ forgot' = forgot \cup {i}
          \/ tree' = tree /\ forgot' = forgot /\ i \in forgot
      BY <1>0, <1>6, <2>1 DEF Sqlite!RemoveFiles, Sqlite!RemoveTree, SqliteSteps
    <2>5. i \in 1..made /\ step'[c].at = "delete" /\ step'[c].row = i
          /\ step'[c] \in Standings(made) /\ ~Holding(c)
      BY <1>0, <2>1, <2>2 DEF SqliteShape, Standings, Holding, Sqlite!Ready
    <2>6. \A d \in Callers : Holding(d)' => d # c /\ Holding(d) /\ step'[d] = step[d] /\ step[d].dir # i
      BY <1>0, <2>1, <2>2, <2>5 DEF SqliteSteps, Holding, CallersStay
    <2>7. SqliteShape'
      BY <1>0, <1>6, <2>1, <2>2, <2>3, <2>4, <2>5 DEF SqliteShape, Sqlite!RemoveFiles
    <2>8. SqliteSteps'
      <3>1. \A d \in Callers : Holding(d)' => step'[d].dir \in tree' \ (Sqlite!InRows' \cup doomed')
        BY <1>0, <2>1, <2>3, <2>4, <2>6 DEF SqliteSteps
      <3>2. \A d, e \in Callers : Holding(d)' /\ Holding(e)' /\ step'[d].dir = step'[e].dir => d = e
        BY <1>0, <2>6 DEF SqliteSteps
      <3>3. \A d \in Callers : step'[d].at = "delete" => step'[d].row \in doomed'
        BY <1>0, <2>1, <2>2, <2>5 DEF SqliteSteps, CallersStay
      <3>4. QED
        BY <1>0, <2>1, <2>3, <2>4, <3>1, <3>2, <3>3 DEF SqliteSteps
    <2>9. Sqlite!RowsAndDirsAgree'
      <3>1. \A d \in tree' : d \in Sqlite!InRows' \/ Sqlite!Held(d)' \/ d \in forgot'
        BY <1>0, <2>2, <2>3, <2>4, <2>5 DEF Sqlite!RowsAndDirsAgree, Sqlite!Held, CallersStay, Holding
      <3>2. QED
        BY <1>0, <2>1, <2>3, <2>4, <3>1 DEF Sqlite!RowsAndDirsAgree
    <2>10. QED
      BY <2>7, <2>8, <2>9 DEF SqliteInv
  <1>7. ASSUME NEW c \in Callers, Sqlite!DeleteRow(c)
        PROVE  SqliteInv'
    <2> DEFINE i == step[c].row
    <2>1. /\ UNCHANGED <<tree, made, forgot, doomed>> /\ step[c].at = "delete"
          /\ rows' = [rows EXCEPT ![i] = NoRow]
      BY <1>7 DEF Sqlite!DeleteRow
    <2>2. step'[c] = Sqlite!Ready /\ CallersStay(c)
      BY <1>0, <1>7, CallerGoes DEF Sqlite!DeleteRow
    <2>3. Sqlite!Ready.at = "ready" /\ Sqlite!Ready \in Standings(made)
      BY DEF Sqlite!Ready, Standings
    <2>4. i \in doomed /\ i \in Sqlite!Numbers
      BY <1>0, <2>1, StandingsAre DEF SqliteSteps, SqliteShape, Sqlite!Numbers
    <2> HIDE DEF i
    <2>5. rows'[i] = NoRow /\ \A j \in Sqlite!Numbers : j # i => rows'[j] = rows[j]
      BY <1>0, <2>1, <2>4 DEF SqliteShape
    <2>6. Sqlite!InRows' = Sqlite!InRows \ {i}
      BY <2>4, <2>5 DEF Sqlite!InRows
    <2>7. \A j \in Sqlite!InRows' : rows'[j] = rows[j]
      BY <2>5, <2>6 DEF Sqlite!InRows
    <2>8. SqliteShape'
      BY <1>0, <1>7, <2>1, <2>3, <2>6 DEF SqliteShape, Sqlite!DeleteRow
    <2>9. \A d \in Callers : Holding(d)' => d # c /\ Holding(d) /\ step'[d] = step[d]
      BY <2>2, <2>3 DEF Holding, CallersStay
    <2>10. SqliteSteps'
      <3>1. \A d \in Callers : Holding(d)' => step'[d].dir \in tree' \ (Sqlite!InRows' \cup doomed')
        BY <1>0, <2>1, <2>6, <2>9 DEF SqliteSteps
      <3>2. \A d, e \in Callers : Holding(d)' /\ Holding(e)' /\ step'[d].dir = step'[e].dir => d = e
        BY <1>0, <2>9 DEF SqliteSteps
      <3>3. \A d \in Callers : step'[d].at = "delete" => step'[d].row \in doomed'
        BY <1>0, <2>1, <2>2, <2>3 DEF SqliteSteps, CallersStay
      <3>4. QED
        BY <1>0, <2>1, <2>6, <2>7, <3>1, <3>2, <3>3 DEF SqliteSteps
    <2>11. Sqlite!RowsAndDirsAgree'
      <3>1. \A d \in tree' : d \in Sqlite!InRows' \/ Sqlite!Held(d)' \/ d \in forgot'
        BY <1>0, <2>1, <2>2, <2>4, <2>6
        DEF Sqlite!RowsAndDirsAgree, SqliteSteps, Sqlite!Held, CallersStay
      <3>2. QED
        BY <1>0, <2>1, <2>6, <2>7, <3>1 DEF Sqlite!RowsAndDirsAgree
    <2>12. QED
      BY <2>8, <2>10, <2>11 DEF SqliteInv
  <1>8. ASSUME NEW c \in Callers, Sqlite!Crash(c)
        PROVE  SqliteInv'
    <2>1. /\ UNCHANGED <<rows, tree, made, doomed>>
          /\ forgot' = IF Holding(c) THEN forgot \cup {step[c].dir} ELSE forgot
      BY <1>8 DEF Sqlite!Crash, Holding
    <2>2. step'[c] = Sqlite!Ready /\ CallersStay(c)
      BY <1>0, <1>8, CallerGoes DEF Sqlite!Crash
    <2>3. Sqlite!InRows' = Sqlite!InRows
      BY <2>1 DEF Sqlite!InRows
    <2>4. Sqlite!Ready.at = "ready" /\ Sqlite!Ready \in Standings(made)
      BY DEF Sqlite!Ready, Standings
    <2>5. forgot \subseteq forgot' /\ forgot' \subseteq 1..made
      BY <1>0, <2>1, StandingsAre DEF SqliteShape
    <2>6. \A d \in Callers : Holding(d)' => d # c /\ Holding(d) /\ step'[d] = step[d]
      BY <2>2, <2>4 DEF Holding, CallersStay
    <2>7. SqliteShape'
      BY <1>0, <1>8, <2>1, <2>3, <2>4, <2>5 DEF SqliteShape, Sqlite!Crash
    <2>8. SqliteSteps'
      <3>1. \A d \in Callers : Holding(d)' => step'[d].dir \in tree' \ (Sqlite!InRows' \cup doomed')
        BY <1>0, <2>1, <2>3, <2>6 DEF SqliteSteps
      <3>2. \A d, e \in Callers : Holding(d)' /\ Holding(e)' /\ step'[d].dir = step'[e].dir => d = e
        BY <1>0, <2>6 DEF SqliteSteps
      <3>3. \A d \in Callers : step'[d].at = "delete" => step'[d].row \in doomed'
        BY <1>0, <2>1, <2>2, <2>4 DEF SqliteSteps, CallersStay
      <3>4. QED
        BY <1>0, <2>1, <2>3, <2>5, <3>1, <3>2, <3>3 DEF SqliteSteps
    <2>9. Sqlite!RowsAndDirsAgree'
      <3>1. \A d \in tree' : d \in Sqlite!InRows' \/ Sqlite!Held(d)' \/ d \in forgot'
        BY <1>0, <2>1, <2>2, <2>3, <2>5 DEF Sqlite!RowsAndDirsAgree, Sqlite!Held, CallersStay, Holding
      <3>2. QED
        BY <1>0, <2>1, <2>3, <3>1 DEF Sqlite!RowsAndDirsAgree
    <2>10. QED
      BY <2>7, <2>8, <2>9 DEF SqliteInv
  <1>9. ASSUME NEW i \in Sqlite!InRows, NEW w \in Sqlite!Row, rows' = [rows EXCEPT ![i] = w],
               w.name = rows[i].name \/ ~Sqlite!NameInUse(w.name),
               forgot' \in SUBSET (1..made), forgot \subseteq forgot',
               w.path \/ i \in forgot', UNCHANGED <<tree, made, step, doomed>>
        PROVE  SqliteInv'
    <2>1. i \in Sqlite!Numbers /\ i \in 1..made /\ w # NoRow
      BY <1>0 DEF Sqlite!InRows, SqliteShape
    <2>2. rows'[i] = w /\ \A j \in Sqlite!Numbers : j # i => rows'[j] = rows[j]
      BY <1>0, <1>9, <2>1 DEF SqliteShape
    <2>3. Sqlite!InRows' = Sqlite!InRows
      BY <2>1, <2>2 DEF Sqlite!InRows
    <2>4. SqliteShape'
      BY <1>0, <1>9, <2>3 DEF SqliteShape
    <2>5. SqliteSteps'
      <3>1. \A j \in Sqlite!InRows : ~rows'[j].path => j \in forgot'
        BY <1>0, <1>9, <2>2 DEF SqliteSteps, Sqlite!InRows
      <3>2. QED
        BY <1>0, <1>9, <2>3, <3>1 DEF SqliteSteps, Holding
    <2>6. Sqlite!RowsAndDirsAgree'
      <3>1. \A j, k \in Sqlite!InRows : rows'[j].name = rows'[k].name => j = k
        BY <1>0, <1>9, <2>2 DEF Sqlite!RowsAndDirsAgree, Sqlite!InRows, Sqlite!NameInUse
      <3>2. QED
        BY <1>0, <1>9, <2>3, <3>1 DEF Sqlite!RowsAndDirsAgree, Sqlite!Held
    <2>7. QED
      BY <2>4, <2>5, <2>6 DEF SqliteInv
  <1>10. \A i \in Sqlite!InRows : i \in 1..made /\ rows[i] \in Sqlite!Row
    BY <1>0 DEF SqliteShape, Sqlite!InRows
  <1>11. ASSUME NEW i \in Sqlite!Numbers, NEW n \in Titles, Sqlite!Rename(i, n)
         PROVE  SqliteInv'
    <2>1. i \in Sqlite!InRows /\ ~Sqlite!NameInUse(n) /\ UNCHANGED <<tree, made, step, forgot, doomed>>
      BY <1>11 DEF Sqlite!Rename
    <2>2. rows' = [rows EXCEPT ![i] = [rows[i] EXCEPT !.name = n]]
      BY <1>11 DEF Sqlite!Rename
    <2>3. PICK w : w = [rows[i] EXCEPT !.name = n]
      OBVIOUS
    <2>4. w \in Sqlite!Row /\ w.name = n
      BY <1>10, <2>1, <2>3 DEF Sqlite!Row
    <2>5. w.path = rows[i].path
      BY <1>10, <2>1, <2>3, Zenon DEF Sqlite!Row
    <2>6. w.path \/ i \in forgot
      BY <1>0, <2>1, <2>5, Zenon DEF SqliteSteps
    <2>7. QED
      BY <1>0, <1>9, <2>1, <2>2, <2>3, <2>4, <2>6 DEF SqliteShape
  <1>12. ASSUME NEW i \in Sqlite!Numbers, NEW n \in Titles, NEW path \in BOOLEAN,
                Sqlite!Reconfigure(i, n, path)
         PROVE  SqliteInv'
    <2>1. i \in Sqlite!InRows /\ UNCHANGED <<tree, made, step, doomed>>
          /\ forgot' = IF path THEN forgot ELSE forgot \cup {i}
      BY <1>12 DEF Sqlite!Reconfigure
    <2>2. PICK w : w = [name |-> rows[i].name, title |-> n, path |-> path /\ rows[i].path]
      OBVIOUS
    <2>3. rows' = [rows EXCEPT ![i] = w]
      BY <1>12, <2>2 DEF Sqlite!Reconfigure
    <2>4. PICK p \in BOOLEAN : p = (path /\ rows[i].path)
      OBVIOUS
    <2>5. w = [name |-> rows[i].name, title |-> n, path |-> p]
      BY <2>2, <2>4, Zenon
    <2>6. w \in Sqlite!Row /\ w.name = rows[i].name /\ w.path = p
      BY <1>10, <2>1, <2>5 DEF Sqlite!Row
    <2>7. p \/ i \in forgot'
      <3>1. path /\ ~rows[i].path => i \in forgot
        BY <1>0, <2>1, Zenon DEF SqliteSteps
      <3>2. ~path => i \in forgot'
        BY <2>1
      <3>3. path => forgot' = forgot
        BY <2>1
      <3>4. QED
        BY <2>4, <3>1, <3>2, <3>3, Zenon
    <2>8. forgot' \in SUBSET (1..made) /\ forgot \subseteq forgot'
      BY <1>0, <1>10, <2>1 DEF SqliteShape
    <2>9. QED
      BY <1>9, <2>1, <2>3, <2>6, <2>7, <2>8
  <1>13. ASSUME NEW i \in Sqlite!Numbers, Sqlite!Forget(i)
         PROVE  SqliteInv'
    <2>1. /\ UNCHANGED <<tree, made, step, doomed>> /\ i \in Sqlite!InRows
          /\ rows' = [rows EXCEPT ![i] = NoRow] /\ forgot' = forgot \cup {i}
      BY <1>13 DEF Sqlite!Forget
    <2>2. rows'[i] = NoRow /\ \A j \in Sqlite!Numbers : j # i => rows'[j] = rows[j]
      BY <1>0, <2>1 DEF SqliteShape
    <2>3. Sqlite!InRows' = Sqlite!InRows \ {i}
      BY <2>2 DEF Sqlite!InRows
    <2>4. \A j \in Sqlite!InRows' : rows'[j] = rows[j]
      BY <2>2, <2>3 DEF Sqlite!InRows
    <2>5. SqliteShape'
      BY <1>0, <1>10, <2>1, <2>3 DEF SqliteShape
    <2>6. SqliteSteps'
      BY <1>0, <2>1, <2>3, <2>4 DEF SqliteSteps, Holding
    <2>7. Sqlite!RowsAndDirsAgree'
      BY <1>0, <2>1, <2>3, <2>4 DEF Sqlite!RowsAndDirsAgree, Sqlite!Held
    <2>8. QED
      BY <2>5, <2>6, <2>7 DEF SqliteInv
  <1>14. ASSUME UNCHANGED SqliteVars
         PROVE  SqliteInv'
    <2>1. Sqlite!InRows' = Sqlite!InRows
      BY <1>14 DEF SqliteVars, Sqlite!InRows
    <2>2. QED
      BY <1>0, <1>14, <2>1
      DEF SqliteVars, SqliteInv, SqliteShape, SqliteSteps, Sqlite!RowsAndDirsAgree, Sqlite!Held, Holding
  <1>15. QED
    BY <1>1, <1>2, <1>4, <1>5, <1>6, <1>7, <1>8, <1>11, <1>12, <1>13, <1>14, Zenon DEF Sqlite!Next

---------------------------------------------------------------------------
(* The indexing routes over the two managers.                              *)

\* A sequence of jobs has one of the workspace w; it has at most one of it.
Concerns(s, w) == \E j \in DOMAIN s : s[j].of = w
Once(s, w) == \A j, k \in DOMAIN s : s[j].of = w /\ s[k].of = w => j = k

\* A marked workspace has its job in jobs.json, and what is there is in memory too; one whose
\* creations of jobs were not cut short has been given at most one job, and none until it was
\* marked, which is why no job of it that is retried can meet another one.
ServiceInv ==
  /\ Service!TypeOK
  /\ \A w \in Service!Spaces :
       Concerns(tasks, w) \/ Concerns(taskIndex, w) \/ spaces[w] # "absent" \/ spaceIndex[w] # "absent"
         => w <= known
  /\ \A w \in Service!Spaces \ dropped :
       spaces[w] = "indexing" \/ spaceIndex[w] = "indexing" => Concerns(taskIndex, w)
  /\ alive => \A w \in Service!Spaces : Concerns(taskIndex, w) => Concerns(tasks, w)
  /\ ~alive => tasks = <<>>
  /\ \A w \in Service!Spaces \ cutShort :
       /\ Once(tasks, w) /\ Once(taskIndex, w)
       /\ spaces[w] = "created" \/ spaceIndex[w] = "created"
            => ~Concerns(tasks, w) /\ ~Concerns(taskIndex, w)

Jobs == [of : Service!Spaces, status : Service!Statuses, retries : 0..MaxRetried, recent : BOOLEAN]
Marks == [Service!Spaces -> {"absent", "created", "indexing"}]

LEMMA ServiceTypes ==
  Service!TypeOK <=>
    /\ alive \in BOOLEAN /\ known \in 0..MaxSpaces /\ cuts \in 0..MaxCuts
    /\ spaces \in Marks /\ spaceIndex \in Marks
    /\ tasks \in Seq(Jobs) /\ taskIndex \in Seq(Jobs)
  BY DEF Service!TypeOK, Jobs, Marks

\* Jobs that change, but not whose they are.
LEMMA SameJobs ==
  ASSUME NEW s, NEW r, DOMAIN r = DOMAIN s, \A j \in DOMAIN s : r[j].of = s[j].of
  PROVE  \A w : (Concerns(r, w) <=> Concerns(s, w)) /\ (Once(r, w) <=> Once(s, w))
  BY DEF Concerns, Once

\* A job of w is added.
LEMMA NewTaskIs ==
  ASSUME Service!TypeOK, NEW w \in Service!Spaces, Service!ServiceAssumption
  PROVE  /\ Service!NewTask(w) \in Seq(Jobs)
         /\ \A v : Concerns(Service!NewTask(w), v) <=> Concerns(tasks, v) \/ v = w
         /\ \A v : v # w /\ Once(tasks, v) => Once(Service!NewTask(w), v)
         /\ ~Concerns(tasks, w) => Once(Service!NewTask(w), w)
  <1> DEFINE t == [of |-> w, status |-> "queued", retries |-> 0, recent |-> TRUE]
             s == Append(tasks, t)
  <1>1. tasks \in Seq(Jobs)
    BY ServiceTypes
  <1>2. t \in Jobs /\ t.of = w
    BY DEF Jobs, Service!Statuses, Service!ServiceAssumption
  <1> HIDE DEF t
  <1>3. /\ s \in Seq(Jobs) /\ DOMAIN s = DOMAIN tasks \cup {Len(tasks) + 1}
        /\ Len(tasks) + 1 \notin DOMAIN tasks
        /\ s[Len(tasks) + 1] = t /\ \A j \in DOMAIN tasks : s[j] = tasks[j]
    BY <1>1, <1>2
  <1> HIDE DEF s
  <1>4. /\ \A v : Concerns(s, v) <=> Concerns(tasks, v) \/ v = w
        /\ \A v : v # w /\ Once(tasks, v) => Once(s, v)
        /\ ~Concerns(tasks, w) => Once(s, w)
    BY <1>2, <1>3 DEF Concerns, Once
  <1>5. s = Service!NewTask(w)
    BY DEF s, t, Service!NewTask
  <1>6. QED
    BY <1>3, <1>4, <1>5

LEMMA EmptyTasks ==
  <<>> \in Seq(Jobs) /\ \A w : ~Concerns(<<>>, w) /\ Once(<<>>, w)
  BY DEF Concerns, Once

LEMMA ServiceInit == Service!ServiceAssumption /\ Service!Init => ServiceInv
  <1> SUFFICES ASSUME Service!ServiceAssumption, Service!Init
               PROVE  ServiceInv
    OBVIOUS
  <1>1. Service!NoSpaces \in Marks /\ \A w \in Service!Spaces : Service!NoSpaces[w] = "absent"
    BY DEF Service!NoSpaces, Marks
  <1>2. Service!TypeOK
    BY <1>1, EmptyTasks, ServiceTypes DEF Service!Init, Service!ServiceAssumption
  <1>3. QED
    BY <1>1, <1>2, EmptyTasks DEF ServiceInv, Service!Init

\* A job of w changes its status and retries.
LEMMA TaskBecomes ==
  ASSUME Service!TypeOK, NEW j \in DOMAIN tasks, NEW t \in Jobs, t.of = tasks[j].of,
         NEW s, s = [tasks EXCEPT ![j] = t]
  PROVE  s \in Seq(Jobs) /\ DOMAIN s = DOMAIN tasks /\ \A i \in DOMAIN tasks : s[i].of = tasks[i].of
  BY ServiceTypes

\* A step that leaves it at whose the jobs are.
LEMMA JobsStayWhose ==
  ASSUME ServiceInv, Service!TypeOK', alive,
         DOMAIN tasks' = DOMAIN tasks, \A j \in DOMAIN tasks : tasks'[j].of = tasks[j].of,
         \/ taskIndex' = tasks'
         \/ DOMAIN taskIndex' = DOMAIN taskIndex /\ \A j \in DOMAIN taskIndex : taskIndex'[j].of = taskIndex[j].of,
         UNCHANGED <<alive, known, spaces, spaceIndex, cutShort, dropped>>
  PROVE  ServiceInv'
  <1>1. \A w : (Concerns(tasks', w) <=> Concerns(tasks, w)) /\ (Once(tasks', w) <=> Once(tasks, w))
    BY SameJobs
  <1>2. \/ \A w : (Concerns(taskIndex', w) <=> Concerns(tasks, w)) /\ (Once(taskIndex', w) <=> Once(tasks, w))
        \/ \A w : (Concerns(taskIndex', w) <=> Concerns(taskIndex, w)) /\ (Once(taskIndex', w) <=> Once(taskIndex, w))
    <2>1. CASE taskIndex' = tasks'
      BY <1>1, <2>1
    <2>2. CASE DOMAIN taskIndex' = DOMAIN taskIndex /\ \A j \in DOMAIN taskIndex : taskIndex'[j].of = taskIndex[j].of
      <3>1. PICK r : r = taskIndex'
        OBVIOUS
      <3>2. DOMAIN r = DOMAIN taskIndex /\ \A j \in DOMAIN taskIndex : r[j].of = taskIndex[j].of
        BY <2>2, <3>1
      <3>3. QED
        BY <3>1, <3>2, SameJobs
    <2>3. QED
      BY <2>1, <2>2
  <1>3. QED
    BY <1>1, <1>2 DEF ServiceInv

\* A creation of a job, as far as it comes.
LEMMA JobAdded ==
  ASSUME ServiceInv, Service!ServiceAssumption, NEW w \in Service!Spaces, Service!Accepted(w), Service!TypeOK',
         UNCHANGED known,
         \/ tasks' = Service!NewTask(w) /\ alive'
         \/ tasks' = <<>> /\ ~alive',
         \/ taskIndex' = Service!NewTask(w) /\ dropped' = dropped
         \/ taskIndex' = <<>> /\ dropped' = dropped \cup {v \in Service!Spaces : Service!TasksOf(v) # {}}
              /\ UNCHANGED <<spaces, spaceIndex>>,
         \A v \in Service!Spaces : v # w =>
           spaces'[v] \in {spaces[v], "absent"} /\ spaceIndex'[v] \in {spaces[v], spaceIndex[v], "absent"},
         \/ w \in cutShort' /\ cutShort \subseteq cutShort'
         \/ cutShort' = cutShort /\ spaces'[w] # "created" /\ spaceIndex'[w] # "created"
              /\ tasks' = Service!NewTask(w) /\ taskIndex' = Service!NewTask(w)
  PROVE  ServiceInv'
  <1> DEFINE s == Service!NewTask(w)
  <1>1. /\ \A v : Concerns(s, v) <=> Concerns(tasks, v) \/ v = w
        /\ \A v : v # w /\ Once(tasks, v) => Once(s, v)
        /\ ~Concerns(tasks, w) => Once(s, w)
    BY NewTaskIs DEF ServiceInv
  <1>2. alive /\ spaces[w] = "created" /\ w <= known
    BY DEF Service!Accepted, ServiceInv
  <1>3. \A v : Concerns(tasks, v) <=> Service!TasksOf(v) # {}
    BY DEF Concerns, Service!TasksOf
  <1> HIDE DEF s
  <1>4. \A v \in Service!Spaces :
          Concerns(tasks', v) \/ Concerns(taskIndex', v) \/ spaces'[v] # "absent" \/ spaceIndex'[v] # "absent"
            => v <= known'
    BY <1>1, <1>2, EmptyTasks DEF ServiceInv, s
  <1>5. \A v \in Service!Spaces \ dropped' :
          spaces'[v] = "indexing" \/ spaceIndex'[v] = "indexing" => Concerns(taskIndex', v)
    <2>1. CASE taskIndex' = s /\ dropped' = dropped
      BY <1>1, <1>2, <2>1 DEF ServiceInv
    <2>2. CASE taskIndex' = <<>> /\ dropped' = dropped \cup {v \in Service!Spaces : Service!TasksOf(v) # {}}
               /\ UNCHANGED <<spaces, spaceIndex>>
      BY <1>2, <1>3, <2>2 DEF ServiceInv
    <2>3. QED
      BY <2>1, <2>2 DEF s
  <1>6. alive' => \A v \in Service!Spaces : Concerns(taskIndex', v) => Concerns(tasks', v)
    BY EmptyTasks
  <1>7. \A v \in Service!Spaces \ cutShort' :
          /\ Once(tasks', v) /\ Once(taskIndex', v)
          /\ spaces'[v] = "created" \/ spaceIndex'[v] = "created"
               => ~Concerns(tasks', v) /\ ~Concerns(taskIndex', v)
    <2> SUFFICES ASSUME NEW v \in Service!Spaces \ cutShort'
                 PROVE  /\ Once(tasks', v) /\ Once(taskIndex', v)
                        /\ spaces'[v] = "created" \/ spaceIndex'[v] = "created"
                             => ~Concerns(tasks', v) /\ ~Concerns(taskIndex', v)
      OBVIOUS
    <2>1. v \notin cutShort
      OBVIOUS
    <2>2. CASE v = w
      BY <1>1, <1>2, <2>1, <2>2 DEF ServiceInv, s
    <2>3. CASE v # w
      <3>1. Once(s, v) /\ (Concerns(s, v) <=> Concerns(tasks, v))
        BY <1>1, <2>1, <2>3 DEF ServiceInv
      <3>2. (spaces[v] = "created" \/ spaceIndex[v] = "created") => ~Concerns(tasks, v)
        BY <2>1 DEF ServiceInv
      <3>3. QED
        BY <2>3, <3>1, <3>2, EmptyTasks DEF s
    <2>4. QED
      BY <2>2, <2>3
  <1>8. QED
    BY <1>4, <1>5, <1>6, <1>7, Zenon DEF ServiceInv

\* A workspace is marked.
LEMMA MarkedAs ==
  ASSUME spaces \in Marks, NEW w \in Service!Spaces, NEW m \in {"absent", "created", "indexing"},
         spaces' = [spaces EXCEPT ![w] = m]
  PROVE  spaces' \in Marks /\ spaces'[w] = m /\ \A v \in Service!Spaces : v # w => spaces'[v] = spaces[v]
  BY DEF Marks

LEMMA ServiceKept ==
  ASSUME Service!ServiceAssumption, ServiceInv, [Service!Next]_ServiceVars
  PROVE  ServiceInv'
  <1>1. /\ alive \in BOOLEAN /\ known \in 0..MaxSpaces /\ cuts \in 0..MaxCuts
        /\ spaces \in Marks /\ spaceIndex \in Marks
        /\ tasks \in Seq(Jobs) /\ taskIndex \in Seq(Jobs)
        /\ Service!TypeOK
    BY ServiceTypes DEF ServiceInv
  <1>2. Service!NoSpaces \in Marks /\ \A w \in Service!Spaces : Service!NoSpaces[w] = "absent"
    BY <1>1 DEF Service!NoSpaces, Marks
  <1>3. Service!Fault => cuts' \in 0..MaxCuts
    BY <1>1 DEF Service!Fault, Service!ServiceAssumption
  <1>4. ASSUME NEW w \in Service!Spaces,
               Service!CreateJob(w) \/ Service!FirstSaveFails(w) \/ Service!SecondSaveFails(w)
                 \/ Service!CrashBetween(w)
        PROVE  ServiceInv'
    <2>1. Service!Accepted(w) /\ Service!NewTask(w) \in Seq(Jobs) /\ <<>> \in Seq(Jobs) /\ UNCHANGED known
      BY <1>1, <1>4, NewTaskIs
      DEF Service!CreateJob, Service!FirstSaveFails, Service!SecondSaveFails, Service!CrashBetween
    <2>2. /\ alive' \in BOOLEAN /\ cuts' \in 0..MaxCuts
          /\ tasks' \in Seq(Jobs) /\ taskIndex' \in Seq(Jobs)
      BY <1>1, <1>3, <1>4, <2>1
      DEF Service!CreateJob, Service!FirstSaveFails, Service!SecondSaveFails, Service!CrashBetween,
          Service!SaveTasks
    <2>3. spaces' \in Marks /\ spaceIndex' \in Marks
      BY <1>1, <1>2, <1>4, MarkedAs
      DEF Service!CreateJob, Service!FirstSaveFails, Service!SecondSaveFails, Service!CrashBetween
    <2>4. Service!TypeOK'
      BY <1>1, <2>1, <2>2, <2>3 DEF Service!TypeOK, Jobs, Marks
    <2>5. alive
      BY <2>1 DEF Service!Accepted
    <2>6. CASE Service!CreateJob(w)
      <3>1. /\ tasks' = Service!NewTask(w) /\ taskIndex' = tasks' /\ alive' = alive
            /\ spaces' = [spaces EXCEPT ![w] = "indexing"] /\ spaceIndex' = spaces'
            /\ UNCHANGED <<cutShort, dropped>>
        BY <2>6 DEF Service!CreateJob, Service!SaveTasks
      <3>2. spaces'[w] = "indexing" /\ \A v \in Service!Spaces : v # w => spaces'[v] = spaces[v]
        BY <1>1, <3>1, MarkedAs
      <3>3. QED
        BY <2>1, <2>4, <2>5, <3>1, <3>2, JobAdded
    <2>7. CASE Service!FirstSaveFails(w)
      <3>1. /\ tasks' = Service!NewTask(w) /\ taskIndex' = <<>> /\ alive' = alive
            /\ UNCHANGED <<spaces, spaceIndex>>
            /\ dropped' = dropped \cup {v \in Service!Spaces : Service!TasksOf(v) # {}}
            /\ cutShort' = cutShort \cup {w}
        BY <2>7 DEF Service!FirstSaveFails
      <3>2. QED
        BY <2>1, <2>4, <2>5, <3>1, JobAdded
    <2>8. CASE Service!SecondSaveFails(w)
      <3>1. /\ tasks' = Service!NewTask(w) /\ taskIndex' = tasks' /\ alive' = alive
            /\ spaces' = [spaces EXCEPT ![w] = "indexing"] /\ spaceIndex' = Service!NoSpaces
            /\ UNCHANGED dropped /\ cutShort' = cutShort \cup {w}
        BY <2>8 DEF Service!SecondSaveFails, Service!SaveTasks
      <3>2. \A v \in Service!Spaces : v # w => spaces'[v] = spaces[v] /\ spaceIndex'[v] = "absent"
        BY <1>1, <1>2, <3>1, MarkedAs
      <3>3. QED
        BY <2>1, <2>4, <2>5, <3>1, <3>2, JobAdded
    <2>9. CASE Service!CrashBetween(w)
      <3>1. /\ tasks' = <<>> /\ taskIndex' = Service!NewTask(w) /\ ~alive'
            /\ spaces' = Service!NoSpaces /\ UNCHANGED <<spaceIndex, dropped>>
            /\ cutShort' = cutShort \cup {w}
        BY <2>9 DEF Service!CrashBetween
      <3>2. \A v \in Service!Spaces : spaces'[v] = "absent"
        BY <1>2, <3>1
      <3>3. QED
        BY <2>1, <2>4, <2>5, <3>1, <3>2, JobAdded
    <2>10. QED
      BY <1>4, <2>6, <2>7, <2>8, <2>9
  <1>5. ASSUME NEW w \in Service!Spaces, Service!DeleteSpace(w)
        PROVE  ServiceInv'
    <2>1. /\ spaces' = [spaces EXCEPT ![w] = "absent"] /\ spaceIndex' = spaces'
          /\ UNCHANGED <<alive, known, tasks, taskIndex, cuts, cutShort, dropped>>
      BY <1>5 DEF Service!DeleteSpace
    <2>2. spaces' \in Marks /\ \A v \in Service!Spaces : spaces'[v] \in {spaces[v], "absent"}
      BY <1>1, <2>1, MarkedAs
    <2>3. Service!TypeOK'
      BY <1>1, <2>1, <2>2 DEF Service!TypeOK, Jobs, Marks
    <2>4. QED
      BY <2>1, <2>2, <2>3 DEF ServiceInv
  <1>6. ASSUME Service!CreateSpace
        PROVE  ServiceInv'
    <2>1. /\ known' = known + 1 /\ known < MaxSpaces
          /\ spaces' = [spaces EXCEPT ![known + 1] = "created"] /\ spaceIndex' = spaces'
          /\ UNCHANGED <<alive, tasks, taskIndex, cuts, cutShort, dropped>>
      BY <1>6 DEF Service!CreateSpace
    <2>2. known + 1 \in Service!Spaces /\ known' \in 0..MaxSpaces /\ known \in Nat
      BY <1>1, <2>1 DEF Service!Spaces, Service!ServiceAssumption
    <2>3. /\ spaces' \in Marks /\ spaces'[known + 1] = "created"
          /\ \A v \in Service!Spaces : v # known + 1 => spaces'[v] = spaces[v]
      BY <1>1, <2>1, <2>2, MarkedAs
    <2>4. ~Concerns(tasks, known + 1) /\ ~Concerns(taskIndex, known + 1)
      BY <2>2 DEF ServiceInv
    <2>5. Service!TypeOK'
      BY <1>1, <2>1, <2>2, <2>3 DEF Service!TypeOK, Jobs, Marks
    <2>6. \A w \in Service!Spaces : w <= known => w <= known'
      BY <2>1, <2>2 DEF Service!Spaces
    <2>7. known + 1 <= known'
      BY <2>1, <2>2
    <2>8. QED
      BY <2>1, <2>2, <2>3, <2>4, <2>5, <2>6, <2>7 DEF ServiceInv
  <1>7. ASSUME NEW j \in DOMAIN tasks, Service!InService(j), NEW t \in Jobs, t.of = tasks[j].of,
               tasks' = [tasks EXCEPT ![j] = t], taskIndex' = tasks' \/ taskIndex' = taskIndex,
               UNCHANGED <<alive, known, spaces, spaceIndex, cuts, cutShort, dropped>>
        PROVE  ServiceInv'
    <2>1. PICK s : s = [tasks EXCEPT ![j] = t]
      OBVIOUS
    <2>2. s \in Seq(Jobs) /\ DOMAIN s = DOMAIN tasks /\ \A i \in DOMAIN tasks : s[i].of = tasks[i].of
      BY <1>1, <1>7, <2>1, TaskBecomes
    <2>3. tasks' = s
      BY <1>7, <2>1
    <2>4. Service!TypeOK'
      <3>1. tasks' \in Seq(Jobs) /\ taskIndex' \in Seq(Jobs)
        BY <1>1, <1>7, <2>2, <2>3
      <3>2. QED
        BY <1>1, <1>7, <3>1 DEF Service!TypeOK, Jobs, Marks
    <2>5. QED
      BY <1>7, <2>2, <2>3, <2>4, JobsStayWhose DEF Service!InService
  <1>8. ASSUME NEW j \in DOMAIN tasks, NEW status \in Service!Statuses
        PROVE  /\ [tasks[j] EXCEPT !.status = status] \in Jobs
               /\ [tasks[j] EXCEPT !.status = status].of = tasks[j].of
    <2>1. tasks[j] \in Jobs
      BY <1>1
    <2>2. QED
      BY <2>1 DEF Jobs
  <1>9. ASSUME NEW j \in DOMAIN tasks, Service!CancelJob(j)
        PROVE  ServiceInv'
    BY <1>7, <1>8, <1>9 DEF Service!CancelJob, Service!SaveTasks, Service!Statuses
  <1>10. ASSUME NEW j \in DOMAIN tasks, Service!RunJob(j)
         PROVE  ServiceInv'
    BY <1>7, <1>8, <1>10 DEF Service!RunJob, Service!Statuses
  <1>11. ASSUME NEW j \in DOMAIN tasks, NEW status \in {"completed", "failed"}, Service!EndJob(j, status)
         PROVE  ServiceInv'
    BY <1>7, <1>8, <1>11 DEF Service!EndJob, Service!SaveTasks, Service!Statuses
  <1>12. ASSUME NEW j \in DOMAIN tasks, Service!RetryJob(j)
         PROVE  ServiceInv'
    <2>1. tasks[j] \in Jobs /\ tasks[j].retries < MaxRetried /\ Service!InService(j)
      BY <1>1, <1>12 DEF Service!RetryJob
    <2>2. tasks[j].retries + 1 \in 0..MaxRetried
      BY <2>1 DEF Jobs, Service!ServiceAssumption
    <2>3. PICK t : t = [tasks[j] EXCEPT !.status = "queued", !.retries = tasks[j].retries + 1]
      OBVIOUS
    <2>4. t \in Jobs /\ t.of = tasks[j].of
      BY <2>1, <2>2, <2>3 DEF Jobs, Service!Statuses
    <2>5. tasks' = [tasks EXCEPT ![j] = t]
      BY <1>12, <2>3 DEF Service!RetryJob
    <2>6. QED
      BY <1>7, <1>12, <2>1, <2>4, <2>5 DEF Service!RetryJob, Service!SaveTasks
  <1>13. ASSUME NEW s \in Seq(Jobs), NEW j \in Nat,
                NEW r, r = [i \in DOMAIN s |-> IF i <= j THEN [s[i] EXCEPT !.recent = FALSE] ELSE s[i]]
         PROVE  r \in Seq(Jobs) /\ DOMAIN r = DOMAIN s /\ \A i \in DOMAIN s : r[i].of = s[i].of
    <2>1. \A i \in DOMAIN s : s[i] \in Jobs
      OBVIOUS
    <2>2. \A i \in DOMAIN s : r[i] \in Jobs /\ r[i].of = s[i].of
      BY <1>13, <2>1 DEF Jobs
    <2>3. DOMAIN s = 1..Len(s) /\ Len(s) \in Nat /\ DOMAIN r = DOMAIN s
      BY <1>13
    <2>4. r = [i \in 1..Len(s) |-> r[i]]
      BY <1>13, <2>3
    <2>5. r \in Seq(Jobs)
      BY <2>2, <2>3, <2>4
    <2>6. QED
      BY <2>2, <2>3, <2>5
  <1>14. ASSUME NEW j \in DOMAIN tasks, Service!Age(j)
         PROVE  ServiceInv'
    <2>1. j \in Nat /\ alive /\ UNCHANGED <<alive, known, spaces, spaceIndex, cuts, cutShort, dropped>>
      BY <1>1, <1>14 DEF Service!Age, Service!InService
    <2>2. PICK s : s = tasks'
      OBVIOUS
    <2>3. s \in Seq(Jobs) /\ DOMAIN s = DOMAIN tasks /\ \A i \in DOMAIN tasks : s[i].of = tasks[i].of
      BY <1>1, <1>13, <1>14, <2>1, <2>2 DEF Service!Age
    <2>4. PICK r : r = taskIndex'
      OBVIOUS
    <2>5. r \in Seq(Jobs) /\ DOMAIN r = DOMAIN taskIndex /\ \A i \in DOMAIN taskIndex : r[i].of = taskIndex[i].of
      BY <1>1, <1>13, <1>14, <2>1, <2>4 DEF Service!Age
    <2>6. Service!TypeOK'
      BY <1>1, <2>1, <2>2, <2>3, <2>4, <2>5 DEF Service!TypeOK, Jobs, Marks
    <2>7. QED
      BY <2>1, <2>2, <2>3, <2>4, <2>5, <2>6, JobsStayWhose
  <1>15. ASSUME NEW n \in 0..(Len(tasks) - 1), NEW kept \in [1..n -> DOMAIN tasks], Service!DropOld(kept)
         PROVE  ServiceInv'
    <2> DEFINE old == DOMAIN tasks \ {kept[m] : m \in DOMAIN kept}
    <2>1. /\ tasks' = [m \in DOMAIN kept |-> tasks[kept[m]]] /\ taskIndex' = tasks'
          /\ dropped' = dropped \cup {tasks[j].of : j \in old}
          /\ \A m, k \in DOMAIN kept : m < k => kept[m] < kept[k]
          /\ UNCHANGED <<alive, known, spaces, spaceIndex, cuts, cutShort>>
      BY <1>15 DEF Service!DropOld, Service!SaveTasks
    <2>2. alive
      BY <1>1, <1>15 DEF ServiceInv
    <2>3. n \in Nat /\ DOMAIN kept = 1..n /\ \A m \in 1..n : kept[m] \in DOMAIN tasks /\ tasks[kept[m]] \in Jobs
      BY <1>1, <1>15
    <2>4. tasks' \in Seq(Jobs) /\ DOMAIN tasks' = 1..n /\ \A m \in 1..n : tasks'[m] = tasks[kept[m]]
      BY <2>1, <2>3
    <2>5. \A m, k \in 1..n : kept[m] = kept[k] => m = k
      <3>1. \A m \in 1..n : kept[m] \in Nat
        BY <1>1, <2>3
      <3>2. SUFFICES ASSUME NEW m \in 1..n, NEW k \in 1..n, kept[m] = kept[k], m # k
                     PROVE  FALSE
        OBVIOUS
      <3>3. m < k \/ k < m
        BY <2>3, <3>2
      <3>4. kept[m] < kept[k] \/ kept[k] < kept[m]
        BY <2>1, <2>3, <3>3
      <3>5. QED
        BY <3>1, <3>2, <3>4
    <2>6. \A v : Concerns(tasks', v) => Concerns(tasks, v)
      BY <2>3, <2>4 DEF Concerns
    <2>7. ASSUME NEW v, v \notin dropped', Concerns(tasks, v)
          PROVE  Concerns(tasks', v)
      <3>1. PICK j \in DOMAIN tasks : tasks[j].of = v
        BY <2>7 DEF Concerns
      <3>2. j \notin old
        BY <2>1, <2>7, <3>1
      <3>3. PICK m \in 1..n : kept[m] = j
        BY <2>3, <3>2
      <3>4. QED
        BY <2>4, <3>1, <3>3 DEF Concerns
    <2>8. \A v : Once(tasks, v) => Once(tasks', v)
      BY <2>3, <2>4, <2>5 DEF Once
    <2>9. Service!TypeOK'
      BY <1>1, <2>1, <2>4 DEF Service!TypeOK, Jobs, Marks
    <2> HIDE DEF old
    <2>10. dropped \subseteq dropped'
      BY <2>1
    <2>11. QED
      BY <2>1, <2>2, <2>6, <2>7, <2>8, <2>9, <2>10 DEF ServiceInv
  <1>16. ASSUME Service!Kill
         PROVE  ServiceInv'
    <2>1. /\ ~alive' /\ alive' \in BOOLEAN /\ tasks' = <<>> /\ spaces' = Service!NoSpaces
          /\ UNCHANGED <<known, spaceIndex, taskIndex, cuts, cutShort, dropped>>
      BY <1>16 DEF Service!Kill
    <2>2. Service!TypeOK'
      BY <1>1, <1>2, <2>1, EmptyTasks DEF Service!TypeOK, Jobs, Marks
    <2>3. QED
      BY <1>2, <2>1, <2>2, EmptyTasks DEF ServiceInv
  <1>17. ASSUME Service!Reboot
         PROVE  ServiceInv'
    <2>1. /\ alive' /\ alive' \in BOOLEAN /\ spaces' = spaceIndex
          /\ tasks' = [j \in DOMAIN taskIndex |->
               IF taskIndex[j].status = "running" THEN [taskIndex[j] EXCEPT !.status = "queued"] ELSE taskIndex[j]]
          /\ UNCHANGED <<known, spaceIndex, taskIndex, cuts, cutShort, dropped>>
      BY <1>17 DEF Service!Reboot
    <2>2. \A j \in DOMAIN taskIndex : taskIndex[j] \in Jobs
      BY <1>1
    <2>3. DOMAIN tasks' = DOMAIN taskIndex
          /\ \A j \in DOMAIN taskIndex : tasks'[j] \in Jobs /\ tasks'[j].of = taskIndex[j].of
      BY <2>1, <2>2 DEF Jobs, Service!Statuses
    <2>4. tasks' \in Seq(Jobs)
      <3>1. DOMAIN taskIndex = 1..Len(taskIndex) /\ Len(taskIndex) \in Nat
        BY <1>1
      <3>2. tasks' = [j \in 1..Len(taskIndex) |-> tasks'[j]]
        BY <2>1, <3>1
      <3>3. QED
        BY <2>3, <3>1, <3>2
    <2>5. \A w : (Concerns(tasks', w) <=> Concerns(taskIndex, w)) /\ (Once(tasks', w) <=> Once(taskIndex, w))
      BY <2>3, SameJobs
    <2>6. Service!TypeOK'
      BY <1>1, <2>1, <2>4 DEF Service!TypeOK, Jobs, Marks
    <2>7. QED
      BY <2>1, <2>5, <2>6 DEF ServiceInv
  <1>18. ASSUME UNCHANGED ServiceVars
         PROVE  ServiceInv'
    BY <1>18 DEF ServiceVars, ServiceInv, Service!TypeOK
  <1>19. QED
    BY <1>4, <1>5, <1>6, <1>9, <1>10, <1>11, <1>12, <1>14, <1>15, <1>16, <1>17, <1>18, Zenon
    DEF Service!Next

\* A set with at most one element.
LEMMA AtMostOne ==
  ASSUME NEW S, \A x, y \in S : x = y
  PROVE  Service!Cardinality(S) <= 1
  <1>1. Service!Cardinality(S) = Cardinality(S)
    BY DEF Service!Cardinality, Cardinality
  <1>2. CASE S = {}
    BY <1>1, <1>2, FS_EmptySet
  <1>3. ASSUME NEW x \in S
        PROVE  Service!Cardinality(S) <= 1
    <2>1. S = {x}
      BY <1>3
    <2>2. QED
      BY <1>1, <2>1, FS_Singleton
  <1>4. QED
    BY <1>2, <1>3

LEMMA ServiceInvImplies ==
  ASSUME ServiceInv
  PROVE  Service!TypeOK /\ Service!MarkedHaveJobs /\ Service!OneActiveUnlessCut
  <1>1. Service!MarkedHaveJobs
    BY DEF ServiceInv, Service!MarkedHaveJobs, Service!TasksOf, Concerns
  <1>2. Service!OneActiveUnlessCut
    <2>1. \A w \in Service!Spaces \ cutShort : \A i, j \in Service!ActiveTasks(w) : i = j
      BY DEF ServiceInv, Once, Service!ActiveTasks, Service!TasksOf
    <2>2. QED
      BY <2>1, AtMostOne DEF Service!OneActiveUnlessCut
  <1>3. QED
    BY <1>1, <1>2 DEF ServiceInv

---------------------------------------------------------------------------
(* What clients are told of the jobs.                                      *)

\* No more jobs are kept than the bound says.
FewTasks == Len(tasks) <= MaxTasks /\ Len(taskIndex) <= MaxTasks

LEMMA SameEnd ==
  ASSUME NEW m \in Nat, NEW n \in Nat, 1..m = 1..n
  PROVE  m = n
  <1>1. ASSUME m < n PROVE FALSE
    <2>1. n \in 1..n /\ n \notin 1..m
      BY <1>1
    <2>2. QED
      BY <2>1
  <1>2. ASSUME n < m PROVE FALSE
    <2>1. m \in 1..m /\ m \notin 1..n
      BY <1>2
    <2>2. QED
      BY <2>1
  <1>3. QED
    BY <1>1, <1>2

LEMMA SameLength ==
  ASSUME NEW S, NEW s \in Seq(S), NEW t \in Seq(S), DOMAIN s = DOMAIN t
  PROVE  Len(s) = Len(t)
  <1>1. Len(s) \in Nat /\ DOMAIN s = 1..Len(s)
    BY LenProperties, Zenon
  <1>2. Len(t) \in Nat /\ DOMAIN t = 1..Len(t)
    BY LenProperties, Zenon
  <1>3. QED
    BY <1>1, <1>2, SameEnd, Zenon

LEMMA FewTasksKept ==
  ASSUME Service!ServiceAssumption, ServiceInv, FewTasks, [Service!Next]_ServiceVars
  PROVE  FewTasks'
  <1>1. tasks \in Seq(Jobs) /\ taskIndex \in Seq(Jobs) /\ MaxTasks \in Nat
    BY ServiceTypes DEF ServiceInv, Service!ServiceAssumption
  <1>2. tasks' \in Seq(Jobs) /\ taskIndex' \in Seq(Jobs)
    <2>1. Service!TypeOK'
      BY ServiceKept, Zenon DEF ServiceInv
    <2>2. QED
      BY <2>1 DEF Service!TypeOK, Jobs
  <1>3. Len(<<>>) <= MaxTasks
    BY <1>1
  <1>4. ASSUME NEW w \in Service!Spaces, Service!Accepted(w)
        PROVE  Len(Service!NewTask(w)) <= MaxTasks
    BY <1>1, <1>4 DEF Service!Accepted, Service!NewTask
  <1>5. ASSUME DOMAIN tasks' = DOMAIN tasks, DOMAIN taskIndex' = DOMAIN taskIndex \/ taskIndex' = tasks'
        PROVE  FewTasks'
    <2>1. Len(tasks') = Len(tasks)
      BY <1>1, <1>2, <1>5, SameLength, Zenon
    <2>2. Len(taskIndex') = Len(taskIndex) \/ Len(taskIndex') = Len(tasks')
      <3>1. CASE DOMAIN taskIndex' = DOMAIN taskIndex
        BY <1>1, <1>2, <3>1, SameLength, Zenon
      <3>2. CASE taskIndex' = tasks'
        BY <3>2, Zenon
      <3>3. QED
        BY <1>5, <3>1, <3>2, Zenon
    <2>3. QED
      BY <2>1, <2>2 DEF FewTasks
  <1>6. ASSUME NEW w \in Service!Spaces,
               Service!CreateJob(w) \/ Service!FirstSaveFails(w) \/ Service!SecondSaveFails(w)
                 \/ Service!CrashBetween(w)
        PROVE  FewTasks'
    <2>1. Service!Accepted(w)
      BY <1>6, Zenon
      DEF Service!CreateJob, Service!FirstSaveFails, Service!SecondSaveFails, Service!CrashBetween
    <2>2. /\ tasks' = Service!NewTask(w) \/ tasks' = <<>>
          /\ taskIndex' = Service!NewTask(w) \/ taskIndex' = <<>>
      BY <1>6, Zenon
      DEF Service!CreateJob, Service!FirstSaveFails, Service!SecondSaveFails, Service!CrashBetween,
          Service!SaveTasks
    <2>3. QED
      BY <1>3, <1>4, <2>1, <2>2, Zenon DEF FewTasks
  <1>7. ASSUME NEW j \in DOMAIN tasks,
               \/ Service!CancelJob(j) \/ Service!RetryJob(j) \/ Service!RunJob(j)
               \/ \E status \in {"completed", "failed"} : Service!EndJob(j, status)
        PROVE  FewTasks'
    <2>1. DOMAIN tasks' = DOMAIN tasks /\ (taskIndex' = taskIndex \/ taskIndex' = tasks')
      BY <1>7 DEF Service!CancelJob, Service!RetryJob, Service!RunJob, Service!EndJob, Service!SaveTasks
    <2>2. QED
      BY <1>5, <2>1, Zenon
  <1>8. ASSUME NEW j \in DOMAIN tasks, Service!Age(j)
        PROVE  FewTasks'
    <2>1. DOMAIN tasks' = DOMAIN tasks /\ DOMAIN taskIndex' = DOMAIN taskIndex
      BY <1>8 DEF Service!Age
    <2>2. QED
      BY <1>5, <2>1, Zenon
  <1>9. ASSUME NEW n \in 0..(Len(tasks) - 1), NEW kept \in [1..n -> DOMAIN tasks], Service!DropOld(kept)
        PROVE  FewTasks'
    <2>1. tasks' = [m \in DOMAIN kept |-> tasks[kept[m]]] /\ taskIndex' = tasks'
      BY <1>9, Zenon DEF Service!DropOld, Service!SaveTasks
    <2>2. DOMAIN tasks' = 1..n /\ n \in Nat /\ n <= Len(tasks)
      BY <1>1, <2>1
    <2>3. Len(tasks') = n
      <3>1. DOMAIN tasks' = 1..Len(tasks') /\ Len(tasks') \in Nat
        BY <1>2, LenProperties, Zenon
      <3>2. QED
        BY <2>2, <3>1, SameEnd, Zenon
    <2>4. QED
      BY <1>1, <2>1, <2>2, <2>3 DEF FewTasks
  <1>10. ASSUME Service!Kill
         PROVE  FewTasks'
    BY <1>3, <1>10, Zenon DEF Service!Kill, FewTasks
  <1>11. ASSUME Service!Reboot
         PROVE  FewTasks'
    <2>1. DOMAIN tasks' = DOMAIN taskIndex /\ UNCHANGED taskIndex
      BY <1>11 DEF Service!Reboot
    <2>2. Len(tasks') = Len(taskIndex)
      BY <1>1, <1>2, <2>1, SameLength, Zenon
    <2>3. QED
      BY <2>1, <2>2, Zenon DEF FewTasks
  <1>12. ASSUME UNCHANGED <<tasks, taskIndex>>
         PROVE  FewTasks'
    BY <1>12, Zenon DEF FewTasks
  <1>13. ASSUME (\E w \in Service!Spaces : Service!DeleteSpace(w)) \/ Service!CreateSpace \/ UNCHANGED ServiceVars
         PROVE  FewTasks'
    BY <1>12, <1>13, Zenon DEF Service!DeleteSpace, Service!CreateSpace, ServiceVars
  <1>14. QED
    BY <1>6, <1>7, <1>8, <1>9, <1>10, <1>11, <1>13, Zenon DEF Service!Next

\* The operators of the module are those that are reasoned about.
LEMMA ServiceSelects ==
  /\ \A s, K : Service!Selected(s, K) = Selected(s, K)
  /\ \A f : Service!Summed(f) = Summed(f)
  /\ \A S : Service!Cardinality(S) = Cardinality(S)
  <1>1. \A S : Service!Cardinality(S) = Cardinality(S)
    BY Zenon DEF Service!Cardinality, Cardinality
  <1>2. \A K, n : Service!Place(K, n) = Place(K, n)
    BY <1>1, Zenon DEF Service!Place, Place
  <1>3. \A s, K : Service!Selected(s, K) = Selected(s, K)
    BY <1>1, <1>2, Zenon DEF Service!Selected, Selected
  <1>4. \A f : Service!UnitsOf(f) = UnitsOf(f)
    BY Zenon DEF Service!UnitsOf, UnitsOf
  <1>5. \A f : Service!Summed(f) = Summed(f)
    BY <1>1, <1>4, Zenon DEF Service!Summed, Summed
  <1>6. QED
    BY <1>1, <1>3, <1>5, Zenon

LEMMA Reversed ==
  ASSUME NEW S, NEW s \in Seq(S)
  PROVE  Service!Reverse(s) \in Seq(S) /\ Len(Service!Reverse(s)) = Len(s)
  <1>1. Len(s) \in Nat /\ \A k \in 1..Len(s) : s[k] \in S
    BY LenProperties, ElementOfSeq
  <1>2. \A i \in 1..Len(s) : (Len(s) - i) + 1 \in 1..Len(s)
    BY <1>1
  <1>3. Service!Reverse(s) \in [1..Len(s) -> S]
    BY <1>1, <1>2 DEF Service!Reverse
  <1>4. QED
    BY <1>1, <1>3

\* The first k of a list, or all of it.
LEMMA FirstOnes ==
  ASSUME NEW S, NEW s \in Seq(S), NEW k \in Nat
  PROVE  /\ Service!IsPrefix(SubSeq(s, 1, Service!Min({k, Len(s)})), s)
         /\ k <= Len(s) => Len(SubSeq(s, 1, Service!Min({k, Len(s)}))) = k
         /\ k >= Len(s) => SubSeq(s, 1, Service!Min({k, Len(s)})) = s
  <1>1. Len(s) \in Nat /\ \A i \in 1..Len(s) : s[i] \in S
    BY LenProperties, ElementOfSeq
  <1> DEFINE m == Service!Min({k, Len(s)})
             p == SubSeq(s, 1, m)
  <1>2. /\ k <= Len(s) => m = k
        /\ k >= Len(s) => m = Len(s)
    BY <1>1 DEF Service!Min
  <1>3. m \in 0..Len(s)
    BY <1>1, <1>2
  <1> HIDE DEF m
  <1>4. p \in Seq(S) /\ Len(p) = m
    BY <1>1, <1>3
  <1>5. SubSeq(p, 1, Len(p)) = p /\ p = SubSeq(s, 1, Len(p))
    BY <1>4, SubSeqFull, Zenon
  <1>6. Service!IsPrefix(p, s)
    <2>1. Len(p) <= Len(s)
      BY <1>3, <1>4
    <2>2. QED
      BY <1>5, <2>1, Zenon DEF Service!IsPrefix
  <1>7. k >= Len(s) => p = s
    BY <1>2, SubSeqFull, Zenon
  <1>8. QED
    BY <1>2, <1>4, <1>6, <1>7, Zenon DEF m

\* Each job belongs to one of the workspaces known, and has one status.
LEMMA ListingsHold ==
  ASSUME ServiceInv, FewTasks, Service!ServiceAssumption
  PROVE  Service!ListingsTell
  <1> DEFINE rev == Service!Reverse(tasks)
             P == DOMAIN tasks
             all == Service!ListJobs("any", MaxTasks)
             told == Service!IndexingStats
  <1>1. /\ tasks \in Seq(Jobs) /\ known \in 0..MaxSpaces /\ MaxSpaces \in Nat /\ MaxTasks \in Nat
        /\ Len(tasks) <= MaxTasks
    BY ServiceTypes, Zenon DEF ServiceInv, FewTasks, Service!ServiceAssumption
  <1>2. /\ Len(tasks) \in Nat /\ P = 1..Len(tasks)
        /\ P \subseteq Nat /\ IsFiniteSet(P) /\ Cardinality(P) = Len(tasks)
    <2>1. Len(tasks) \in Nat /\ P = 1..Len(tasks)
      BY <1>1, LenProperties, Zenon
    <2>2. 1 \in Int /\ Len(tasks) \in Int
      BY <2>1
    <2>3. IsFiniteSet(1..Len(tasks)) /\ Cardinality(1..Len(tasks)) = IF 1 > Len(tasks) THEN 0 ELSE Len(tasks) - 1 + 1
      BY <2>2, FS_Interval, Zenon
    <2> HIDE DEF P
    <2>4. QED
      BY <2>1, <2>3
  <1>3. \A p \in P : tasks[p] \in Jobs
    BY <1>1
  <1>4. rev \in Seq(Jobs) /\ Len(rev) = Len(tasks)
    BY <1>1, Reversed, Zenon
  <1>5. ASSUME NEW K \in SUBSET P
        PROVE  /\ Service!Selected(tasks, K) \in Seq(Jobs)
               /\ Len(Service!Selected(tasks, K)) = Cardinality(K)
               /\ IsFiniteSet(K) /\ Cardinality(K) \in Nat /\ Cardinality(K) <= Len(tasks)
    <2>1. /\ K \subseteq Nat /\ IsFiniteSet(K) /\ \A k \in K : tasks[k] \in Jobs
          /\ Cardinality(K) \in Nat /\ Cardinality(K) <= Len(tasks)
      BY <1>1, PlacesOfList, Zenon
    <2>2. QED
      BY <2>1, SelectedIs, ServiceSelects, Zenon
  <1>6. \A status : {j \in P : tasks[j].status = status} \in SUBSET P
    OBVIOUS
  <1>7. ASSUME NEW status
        PROVE  /\ Service!WithStatus(status) \in Seq(Jobs) /\ Len(Service!WithStatus(status)) \in Nat
               /\ Len(Service!WithStatus(status)) = Cardinality({j \in P : tasks[j].status = status})
               /\ Len(Service!WithStatus(status)) <= Len(tasks)
    BY <1>5, <1>6, Zenon DEF Service!WithStatus
  <1>8. ASSUME NEW first \in Nat
        PROVE  /\ Service!ListJobs("any", first) = SubSeq(rev, 1, Service!Min({first, Len(rev)}))
               /\ \A status \in Service!Statuses :
                    LET listed == Service!Reverse(Service!WithStatus(status)) IN
                    Service!ListJobs(status, first) = SubSeq(listed, 1, Service!Min({first, Len(listed)}))
    <2>1. ~(first < 0) /\ \A status \in Service!Statuses : status # "any"
      BY DEF Service!Statuses
    <2>2. QED
      BY <2>1, Zenon DEF Service!ListJobs
  <1>9. all = rev
    BY <1>1, <1>4, <1>8, FirstOnes
  <1> HIDE DEF all, rev, P
  <1>10. ASSUME NEW first \in 0..MaxTasks
         PROVE  LET page == Service!JobsPage("any", first) IN
                /\ Service!IsPrefix(page.jobs, all)
                /\ ~page.next => page.jobs = all
                /\ page.next /\ page.jobs = all => Len(all) = first
    <2> DEFINE p == Service!ListJobs("any", first)
    <2>1. /\ Service!JobsPage("any", first).jobs = p
          /\ Service!JobsPage("any", first).next = (Len(p) = first)
      BY DEF Service!JobsPage
    <2>2. first \in Nat
      BY <1>1
    <2>3. p = SubSeq(rev, 1, Service!Min({first, Len(rev)}))
      BY <1>8, <2>2, Zenon
    <2> HIDE DEF p
    <2>4. /\ Service!IsPrefix(p, rev)
          /\ first <= Len(rev) => Len(p) = first
          /\ first >= Len(rev) => p = rev
      BY <1>4, <2>2, <2>3, FirstOnes, Zenon
    <2>5. first <= Len(rev) \/ first >= Len(rev)
      BY <1>2, <1>4, <2>2
    <2>6. QED
      BY <1>9, <2>1, <2>4, <2>5
  <1>11. ASSUME NEW status \in Service!Statuses
         PROVE  Len(Service!ListJobs(status, MaxTasks)) = Len(Service!WithStatus(status))
    <2> DEFINE listed == Service!Reverse(Service!WithStatus(status))
    <2>1. listed \in Seq(Jobs) /\ Len(listed) = Len(Service!WithStatus(status))
      BY <1>7, Reversed, Zenon
    <2>2. Service!ListJobs(status, MaxTasks) = SubSeq(listed, 1, Service!Min({MaxTasks, Len(listed)}))
      BY <1>1, <1>8, Zenon
    <2> HIDE DEF listed
    <2>3. MaxTasks >= Len(listed)
      <3> DEFINE some == Service!WithStatus(status)
      <3>1. Len(some) \in Nat /\ Len(some) <= Len(tasks) /\ Len(listed) = Len(some)
        BY <1>7, <2>1, Zenon
      <3> HIDE DEF some
      <3>2. QED
        BY <1>1, <1>2, <3>1
    <2>4. Service!ListJobs(status, MaxTasks) = listed
      BY <1>1, <2>1, <2>2, <2>3, FirstOnes, Zenon
    <2>5. QED
      BY <2>1, <2>4, Zenon
  <1>12. Service!Summed([w \in 1..known |-> Len(Service!WorkspaceJobs(w))]) = Len(tasks)
    <2> DEFINE D == 1..known
               share == [p \in P |-> tasks[p].of]
               f == [w \in D |-> Len(Service!WorkspaceJobs(w))]
    <2> SUFFICES Summed(f) = Cardinality(P)
      BY <1>2, ServiceSelects, Zenon
    <2>1. ASSUME NEW p \in P PROVE share[p] \in D
      <3>1. share[p] = tasks[p].of /\ tasks[p].of \in Service!Spaces /\ Concerns(tasks, tasks[p].of)
        BY <1>3 DEF P, Jobs, Concerns
      <3>2. tasks[p].of <= known
        BY <3>1, Zenon DEF ServiceInv
      <3>3. QED
        BY <1>1, <3>1, <3>2 DEF Service!Spaces
    <2>2. ASSUME NEW w \in D PROVE f[w] = Cardinality(Sharing(P, share, w))
      <3>1. Sharing(P, share, w) = Service!TasksOf(w)
        BY DEF Service!TasksOf, P, Sharing
      <3>2. Service!TasksOf(w) \in SUBSET P
        BY DEF Service!TasksOf, P
      <3>3. f[w] = Len(Service!Selected(tasks, Service!TasksOf(w)))
        BY Zenon DEF Service!WorkspaceJobs
      <3>4. QED
        BY <1>5, <3>1, <3>2, <3>3, Zenon
    <2>3. DOMAIN f = D
      OBVIOUS
    <2>4. \A x \in D : f[x] = Cardinality(Sharing(P, share, x))
      BY <2>2, Zenon
    <2> HIDE DEF f, share
    <2>5. (\A p \in P : share[p] \in DOMAIN f) /\ \A x \in DOMAIN f : f[x] = Cardinality(Sharing(P, share, x))
      BY <2>1, <2>3, <2>4, Zenon
    <2>6. QED
      BY <1>2, <2>5, SharesSum, Zenon
  <1>13. told = [total |-> Len(tasks),
                 counts |-> [status \in Service!Statuses |-> Len(Service!WithStatus(status))],
                 good |-> Len(Service!WithStatus("completed")),
                 ended |-> Len(Service!WithStatus("completed")) + Len(Service!WithStatus("failed")),
                 recentJobs |-> Cardinality(Service!Recent),
                 recentCompletions |-> Cardinality({j \in Service!Recent : tasks[j].status \in Service!Finished})]
    BY ServiceSelects, Zenon DEF Service!IndexingStats
  <1> HIDE DEF told
  <1>14. /\ told.total = Len(tasks) /\ told.good = Len(Service!WithStatus("completed"))
         /\ told.counts = [status \in Service!Statuses |-> Len(Service!WithStatus(status))]
         /\ told.ended = Len(Service!WithStatus("completed")) + Len(Service!WithStatus("failed"))
         /\ told.recentJobs = Cardinality(Service!Recent)
         /\ told.recentCompletions = Cardinality({j \in Service!Recent : tasks[j].status \in Service!Finished})
    BY <1>13
  <1>15. Service!Summed(told.counts) = told.total
    <2> DEFINE D == Service!Statuses
               share == [p \in P |-> tasks[p].status]
               f == [status \in D |-> Len(Service!WithStatus(status))]
    <2>1. \A p \in P : share[p] \in D
      BY <1>3 DEF Jobs
    <2>2. \A status \in D : f[status] = Cardinality(Sharing(P, share, status))
      <3>1. \A status : Sharing(P, share, status) = {p \in P : tasks[p].status = status}
        BY DEF Sharing
      <3>2. QED
        BY <1>7, <3>1, Zenon
    <2>3. DOMAIN f = D
      OBVIOUS
    <2>4. told.counts = f
      BY <1>14, Zenon
    <2> HIDE DEF f, share
    <2>5. Summed(f) = Cardinality(P)
      <3>1. (\A p \in P : share[p] \in DOMAIN f) /\ \A x \in DOMAIN f : f[x] = Cardinality(Sharing(P, share, x))
        BY <2>1, <2>2, <2>3, Zenon
      <3>2. QED
        BY <1>2, <3>1, SharesSum, Zenon
    <2>6. QED
      BY <1>2, <1>14, <2>4, <2>5, ServiceSelects, Zenon
  <1>16. \A status \in Service!Statuses : Len(Service!ListJobs(status, MaxTasks)) = told.counts[status]
    BY <1>11, <1>14
  <1>17. told.good <= told.ended
    BY <1>7, <1>14
  <1>18. /\ told.recentCompletions <= told.recentJobs
         /\ told.recentCompletions >= Cardinality({j \in Service!Recent : tasks[j].status = "completed"})
    <2> DEFINE A == Service!Recent
               B == {j \in A : tasks[j].status \in Service!Finished}
               C == {j \in A : tasks[j].status = "completed"}
    <2>1. A \in SUBSET P /\ B \in SUBSET A /\ C \in SUBSET B
      BY DEF Service!Recent, Service!Finished, P
    <2> HIDE DEF A, B, C
    <2>2. IsFiniteSet(A) /\ IsFiniteSet(B)
      BY <1>2, <2>1, FS_Subset, Zenon
    <2>3. Cardinality(B) <= Cardinality(A) /\ Cardinality(C) <= Cardinality(B)
      BY <2>1, <2>2, FS_Subset, Zenon
    <2>4. Cardinality(B) \in Nat /\ IsFiniteSet(C)
      BY <2>1, <2>2, FS_CardinalityType, FS_Subset, Zenon
    <2>5. Cardinality(C) \in Nat
      BY <2>4, FS_CardinalityType, Zenon
    <2>6. Cardinality(B) >= Cardinality(C)
      BY <2>3, <2>4, <2>5
    <2>7. QED
      BY <1>14, <2>3, <2>6, Zenon DEF A, B, C
  <1>19. Len(all) = Len(tasks)
    BY <1>4, <1>9, Zenon
  <1>20. QED
    <2>1. Service!Summed([w \in 1..known |-> Len(Service!WorkspaceJobs(w))]) = Len(all)
      BY <1>12, <1>19, Zenon
    <2>2. Service!Cardinality({j \in Service!Recent : tasks[j].status = "completed"})
            = Cardinality({j \in Service!Recent : tasks[j].status = "completed"})
      BY ServiceSelects, Zenon
    <2>3. QED
      BY <1>10, <1>15, <1>16, <1>17, <1>18, <2>1, <2>2 DEF Service!ListingsTell, all, told

---------------------------------------------------------------------------
(* The parts beside one another.                                           *)

\* However many runs of the migration overlap, with one another and with people who
\* register, one administrator is made, and success leaves users or the record behind.
THEOREM MigrationsAreSound == StorageSpec => [](Migration!TypeOK /\ MigrationSound)
  <1>1. StorageInit => MigrationInv
    BY MigrationInitInv, Zenon DEF StorageInit
  <1>2. MigrationInv /\ [StorageNext]_allVars => MigrationInv'
    <2> SUFFICES ASSUME MigrationInv, [StorageNext]_allVars PROVE MigrationInv'
      OBVIOUS
    <2>1. CASE Migration!Next
      BY <2>1, RunKeepsMigrationInv, RegisterKeepsMigrationInv, Zenon DEF Migration!Next, Statement
    <2>2. CASE UNCHANGED MigrationVars
      BY <2>2, Zenon DEF MigrationVars, MigrationInv, Migration!TypeOK, Migration!MigrationSound
    <2>3. QED
      BY <2>1, <2>2, Zenon DEF StorageNext, allVars
  <1>3. MigrationInv => Migration!TypeOK /\ MigrationSound
    BY Zenon DEF MigrationInv, MigrationSound
  <1>4. QED
    BY <1>1, <1>2, <1>3, PTL DEF StorageSpec, allVars

\* Wherever creations of one name, renamings and deletions interleave, and callers end, a
\* workspace in SQLite has its directory, and a directory its workspace or its excuse.
THEOREM RowsKeepDirs == StorageSpec => [](SqliteInv /\ Sqlite!RowsAndDirsAgree)
  <1>1. StorageInit => SqliteInv
    BY SqliteInit, PartsAssumption, Zenon DEF StorageInit
  <1>2. SqliteInv /\ [StorageNext]_allVars => SqliteInv'
    <2>1. [StorageNext]_allVars => [Sqlite!Next]_SqliteVars
      BY Zenon DEF StorageNext, allVars
    <2>2. QED
      BY <2>1, SqliteKept, PartsAssumption
  <1>3. SqliteInv => Sqlite!RowsAndDirsAgree
    BY DEF SqliteInv
  <1>4. QED
    BY <1>1, <1>2, <1>3, PTL DEF StorageSpec, allVars

\* Whichever save of a creation fails, wherever the process ends, and whatever is retried: a
\* marked workspace has its job, and one whose creation was not cut short no two active ones.
THEOREM JobsAndMarksAgree ==
  StorageSpec => [](Service!TypeOK /\ Service!MarkedHaveJobs /\ Service!OneActiveUnlessCut)
  <1>1. StorageInit => ServiceInv
    BY ServiceInit, PartsAssumption, Zenon DEF StorageInit
  <1>2. ServiceInv /\ [StorageNext]_allVars => ServiceInv'
    <2>1. [StorageNext]_allVars => [Service!Next]_ServiceVars
      BY Zenon DEF StorageNext, allVars
    <2>2. QED
      BY <2>1, ServiceKept, PartsAssumption
  <1>3. ServiceInv => Service!TypeOK /\ Service!MarkedHaveJobs /\ Service!OneActiveUnlessCut
    BY ServiceInvImplies
  <1>4. QED
    BY <1>1, <1>2, <1>3, PTL DEF StorageSpec, allVars

\* What is kept on disk agrees, in SQLite, and in the two index files of jobs and workspaces.
THEOREM DisksAgree == StorageSpec => []StoresAgree
  <1>1. Sqlite!RowsAndDirsAgree /\ Service!MarkedHaveJobs /\ Service!OneActiveUnlessCut => StoresAgree
    BY DEF StoresAgree
  <1>2. QED
    BY <1>1, RowsKeepDirs, JobsAndMarksAgree, PTL

\* What clients are told of jobs agrees: pages with the list, the lists of the workspaces
\* with that of all, counts with the total, and completions with the jobs they are of.
THEOREM ListingsAgree == StorageSpec => []ListingsTell
  <1> DEFINE Inv == ServiceInv /\ FewTasks
  <1>1. StorageInit => Inv
    <2>1. StorageInit => ServiceInv /\ Service!Init
      BY ServiceInit, PartsAssumption, Zenon DEF StorageInit
    <2>2. Service!Init => FewTasks
      BY PartsAssumption DEF Service!Init, FewTasks, Service!ServiceAssumption
    <2>3. QED
      BY <2>1, <2>2
  <1>2. Inv /\ [StorageNext]_allVars => Inv'
    <2>1. [StorageNext]_allVars => [Service!Next]_ServiceVars
      BY Zenon DEF StorageNext, allVars
    <2>2. QED
      BY <2>1, ServiceKept, FewTasksKept, PartsAssumption
  <1>3. Inv => ListingsTell
    BY ListingsHold, PartsAssumption DEF ListingsTell
  <1>4. QED
    BY <1>1, <1>2, <1>3, PTL DEF StorageSpec, allVars

\* Every variable has its type.
THEOREM StorageTypes == StorageSpec => []StorageTypeOK
  <1>1. SqliteInv => Sqlite!TypeOK
    <2>1. SUFFICES ASSUME SqliteInv
                   PROVE  Sqlite!TypeOK
      OBVIOUS
    <2>2. \A i \in Sqlite!InRows : rows[i].name \in Titles /\ rows[i].title \in Titles
      BY <2>1 DEF SqliteInv, SqliteShape, Sqlite!InRows, Sqlite!Row
    <2>3. QED
      BY <2>1, <2>2 DEF SqliteInv, SqliteShape, Sqlite!TypeOK
  <1>2. IndInv => TypeOK
    BY DEF IndInv
  <1>3. TypeOK /\ Sqlite!TypeOK /\ Migration!TypeOK /\ Service!TypeOK => StorageTypeOK
    BY DEF StorageTypeOK
  <1>4. QED
    BY <1>1, <1>2, <1>3, StoreInvHolds, RowsKeepDirs, JobsAndMarksAgree, MigrationsAreSound, PTL

=============================================================================
