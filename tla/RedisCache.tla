----------------------------- MODULE RedisCache -----------------------------
(***************************************************************************)
(* The client of the distributed cache.  Every command is a step of the    *)
(* server between two suspensions of the client, and other clients come in *)
(* between: the invalidation of a workspace is a pair of commands for each *)
(* of three namespaces.  An error of the server is swallowed; a client     *)
(* that is not connected does nothing.                                     *)
(***************************************************************************)
EXTENDS Naturals, Sequences, FiniteSets

CONSTANTS
  Ids,               \* workspaces
  Short,             \* the one with which the ids of all the others begin
  Nothing,
  Invalidators,      \* coroutines that invalidate
  MaxSets            \* bound: values ever stored, which are numbered

RedisAssumption == MaxSets \in Nat /\ Short \in Ids

VARIABLES
  linked,   \* _connected
  server,   \* by namespace and workspace, the number of the value stored
  sets,     \* values stored so far
  work,     \* of each invalidator: the workspace, the namespaces left, the keys found,
            \* and - history - when it began and whether every command worked
  finished  \* history: the last invalidation that ended, as [id, began, clean]

vars == <<linked, server, sets, work, finished>>

\* The namespaces with workspace keys; there are others, with keys of their own.
Namespaces == {"entities", "relationships", "communities"}

\* Mutant: a namespace was forgotten.
InvalidatedButLast == <<"entities", "relationships">>

Invalidated == <<"entities", "relationships", "communities">>

CacheKeys == Namespaces \X Ids

\* What the pattern workspace:<id>* finds: also the keys of ids that begin with this one.
Matching(space, id) ==
  {k \in CacheKeys : k[1] = space /\ server[k] # Nothing /\ (k[2] = id \/ id = Short)}

Working(i) == work[i] # Nothing

Connect ==
  /\ ~linked /\ linked' = TRUE
  /\ UNCHANGED <<server, sets, work, finished>>

Disconnect ==
  /\ linked /\ linked' = FALSE
  /\ UNCHANGED <<server, sets, work, finished>>

\* set, with setex.  (One that fails, or a value that is too large, changes nothing; get
\* and exists change nothing at all.)
Set(k) ==
  /\ linked /\ sets < MaxSets
  /\ sets' = sets + 1
  /\ server' = [server EXCEPT ![k] = sets + 1]
  /\ UNCHANGED <<linked, work, finished>>

\* delete, and the server when the time to live is over.
Remove(k) ==
  /\ server[k] # Nothing
  /\ server' = [server EXCEPT ![k] = Nothing]
  /\ UNCHANGED <<linked, sets, work, finished>>

Begin(i, id) ==
  /\ ~Working(i)
  /\ work' = [work EXCEPT ![i] =
       [id |-> id, left |-> Invalidated, found |-> Nothing, began |-> sets, clean |-> TRUE]]
  /\ UNCHANGED <<linked, server, sets, finished>>

\* On to the next namespace.
Onward(i, worked) ==
  work' = [work EXCEPT ![i] =
    [id |-> @.id, left |-> Tail(@.left), found |-> Nothing, began |-> @.began, clean |-> @.clean /\ worked]]

\* invalidate_pattern asks for the keys ...
FindKeys(i) ==
  /\ Working(i) /\ work[i].left # <<>> /\ work[i].found = Nothing
  /\ linked
  /\ LET found == Matching(Head(work[i].left), work[i].id)
     IN IF found = {} THEN Onward(i, TRUE) ELSE work' = [work EXCEPT ![i].found = found]
  /\ UNCHANGED <<linked, server, sets, finished>>

\* ... and then deletes those it was told of.
DeleteFound(i) ==
  /\ Working(i) /\ work[i].found # Nothing
  /\ server' = [k \in CacheKeys |-> IF k \in work[i].found THEN Nothing ELSE server[k]]
  /\ Onward(i, TRUE)
  /\ UNCHANGED <<linked, sets, finished>>

\* A command fails, or there is no connection: that namespace is left as it is.
SpaceFails(i) ==
  /\ Working(i) /\ work[i].left # <<>>
  /\ Onward(i, FALSE)
  /\ UNCHANGED <<linked, server, sets, finished>>

End(i) ==
  /\ Working(i) /\ work[i].left = <<>>
  /\ finished' = [id |-> work[i].id, began |-> work[i].began, clean |-> work[i].clean]
  /\ work' = [work EXCEPT ![i] = Nothing]
  /\ UNCHANGED <<linked, server, sets>>

Init ==
  /\ linked = FALSE
  /\ server = [k \in CacheKeys |-> Nothing]
  /\ sets = 0
  /\ work = [i \in Invalidators |-> Nothing]
  /\ finished = Nothing

Next ==
  \/ Connect \/ Disconnect
  \/ \E k \in CacheKeys : Set(k) \/ Remove(k)
  \/ \E i \in Invalidators :
       \/ \E id \in Ids : Begin(i, id)
       \/ FindKeys(i) \/ DeleteFound(i) \/ SpaceFails(i) \/ End(i)

Spec == Init /\ [][Next]_vars

---------------------------------------------------------------------------
(* Properties.                                                             *)

TypeOK ==
  /\ linked \in BOOLEAN /\ sets \in 0..MaxSets
  /\ \A k \in CacheKeys : server[k] # Nothing => server[k] \in 1..sets
  /\ \A i \in Invalidators : Working(i) => work[i].id \in Ids /\ work[i].began <= sets

\* After an invalidation whose commands all worked nothing of the workspace is left that
\* was stored before it began, whoever stored, deleted or invalidated at the same time.
InvalidationHolds ==
  finished # Nothing /\ finished.clean =>
    \A k \in CacheKeys : k[2] = finished.id /\ server[k] # Nothing => server[k] > finished.began

=============================================================================
