---------------------------- MODULE ResultCaches ----------------------------
(***************************************************************************)
(* The two caches of query results inside the process: the query cache of  *)
(* the connection pool, which keeps data frames, and that of the GraphQL   *)
(* layer, which keeps entities.  The pool asks its cache, may then wait    *)
(* for a connection, and reads the file and stores the frame without       *)
(* another suspension; a GraphQL query waits for its loader between the    *)
(* reading and the storing.  One mutation clears both.  Connections are    *)
(* those to files, the pool of ConnectionPool.                             *)
(***************************************************************************)
EXTENDS Naturals, FiniteSets

CONSTANTS
  Askers,              \* coroutines that query
  Topics, Entities,    \* what they may ask the pool, and the GraphQL layer, for
  NoResult,
  FrameTtl, EntityTtl, \* 300 and 600 seconds
  MaxFrames,           \* frames above which a store drops the expired ones
  MaxHour, MaxClears   \* bounds

ResultAssumption ==
  /\ FrameTtl \in Nat \ {0} /\ EntityTtl \in Nat \ {0}
  /\ MaxFrames \in Nat /\ MaxHour \in Nat /\ MaxClears \in Nat

VARIABLES
  hour,     \* the clock
  clears,   \* how often the caches were cleared
  frames,   \* _cache of the pool's QueryCache: when, and after how many clears, it was read
  replies,  \* _cache of the GraphQL QueryCache: when the entity was stored
  asking,   \* of each asker: where it stands and what it asked, and after how many clears
  reply     \* history: the last result an asker was given: whether it is a frame, its age,
            \* and whether the caches were cleared since it was read and before it was asked for

vars == <<hour, clears, frames, replies, asking, reply>>

Rested == [at |-> "rest"]

\* What is read now.
Reading == [read |-> hour, clears |-> clears]

Cached(cache, t) == cache[t] # NoResult

\* get_cached_result: an entry of the age of the time to live is not served any more ...
FreshFrame(t) == Cached(frames, t) /\ hour - frames[t].read < FrameTtl

\* Mutant: an entry is served at the very end of its time.
FreshFrameAtLimit(t) == Cached(frames, t) /\ hour - frames[t].read <= FrameTtl

\* ... is_expired of the other cache, which still serves one at the very end.
FreshReply(e) == Cached(replies, e) /\ hour <= replies[e] + EntityTtl

\* An asker has its result, or an error, in place of one.
Done(a, result) ==
  /\ asking' = [asking EXCEPT ![a] = Rested]
  /\ reply' = result

\* What was read as r says, for somebody who asked after so many clears.
Result(frame, r, asked) == [frame |-> frame, age |-> hour - r.read, old |-> r.clears < asked]

\* execute_query: the cache is asked ...
FrameHit(a, t) ==
  /\ asking[a] = Rested
  /\ FreshFrame(t)
  /\ Done(a, Result(TRUE, frames[t], clears))
  /\ UNCHANGED <<hour, clears, frames, replies>>

\* ... an expired entry is dropped, and the query goes for a connection ...
FrameMiss(a, t) ==
  /\ asking[a] = Rested
  /\ ~FreshFrame(t)
  /\ frames' = [frames EXCEPT ![t] = NoResult]
  /\ asking' = [asking EXCEPT ![a] = [at |-> "connection", topic |-> t, asked |-> clears]]
  /\ UNCHANGED <<hour, clears, replies, reply>>

\* cache_result: above MaxFrames the expired entries are dropped, and no other.
Stored(t) ==
  LET new == [frames EXCEPT ![t] = Reading]
  IN IF Cardinality({u \in Topics : Cached(new, u)}) > MaxFrames
       THEN [u \in Topics |-> IF Cached(new, u) /\ hour - new[u].read > FrameTtl
                                THEN NoResult ELSE new[u]]
       ELSE new

\* ... and with it reads the file, stores the frame and returns it.
ReadFile(a) ==
  /\ asking[a].at = "connection"
  /\ frames' = Stored(asking[a].topic)
  /\ Done(a, Result(TRUE, Reading, asking[a].asked))
  /\ UNCHANGED <<hour, clears, replies>>

\* No connection, or a file that cannot be read.
QueryFails(a) ==
  /\ asking[a].at \in {"connection", "loader"}
  /\ Done(a, NoResult)
  /\ UNCHANGED <<hour, clears, frames, replies>>

\* Query.entity: a cached entity is unpacked like a mapping, which it is not: an error.
EntityHit(a, e) ==
  /\ asking[a] = Rested
  /\ FreshReply(e)
  /\ Done(a, NoResult)
  /\ UNCHANGED <<hour, clears, frames, replies>>

\* Without one, the loader of the request reads it ...
EntityMiss(a, e) ==
  /\ asking[a] = Rested
  /\ ~FreshReply(e)
  /\ asking' = [asking EXCEPT ![a] = [at |-> "loader", topic |-> e, asked |-> clears]]
  /\ UNCHANGED <<hour, clears, frames, replies, reply>>

Load(a) ==
  /\ asking[a].at = "loader"
  /\ asking' = [asking EXCEPT ![a] =
       [at |-> "loaded", topic |-> asking[a].topic, asked |-> asking[a].asked, result |-> Reading]]
  /\ UNCHANGED <<hour, clears, frames, replies, reply>>

\* ... and the query, when it runs again, stores and returns it; one that is not there
\* is not stored.
Resume(a, found) ==
  /\ asking[a].at = "loaded"
  /\ replies' = IF found THEN [replies EXCEPT ![asking[a].topic] = hour] ELSE replies
  /\ Done(a, IF found THEN Result(FALSE, asking[a].result, asking[a].asked) ELSE NoResult)
  /\ UNCHANGED <<hour, clears, frames>>

\* Mutant: the frames are left alone, as if the pool had not been found.
ClearReplies ==
  /\ clears < MaxClears
  /\ clears' = clears + 1
  /\ replies' = [e \in Entities |-> NoResult]
  /\ UNCHANGED <<hour, frames, asking, reply>>

\* The mutation clear_graph_cache.
Clear ==
  /\ clears < MaxClears
  /\ clears' = clears + 1
  /\ replies' = [e \in Entities |-> NoResult]
  /\ frames' = [t \in Topics |-> NoResult]
  /\ UNCHANGED <<hour, asking, reply>>

Pass ==
  /\ hour < MaxHour
  /\ hour' = hour + 1
  /\ UNCHANGED <<clears, frames, replies, asking, reply>>

Init ==
  /\ hour = 0 /\ clears = 0
  /\ frames = [t \in Topics |-> NoResult]
  /\ replies = [e \in Entities |-> NoResult]
  /\ asking = [a \in Askers |-> Rested]
  /\ reply = NoResult

Next ==
  \/ \E a \in Askers :
       \/ \E t \in Topics : FrameHit(a, t) \/ FrameMiss(a, t)
       \/ \E e \in Entities : EntityHit(a, e) \/ EntityMiss(a, e)
       \/ ReadFile(a) \/ QueryFails(a) \/ Load(a)
       \/ \E found \in BOOLEAN : Resume(a, found)
  \/ Clear \/ Pass

Spec == Init /\ [][Next]_vars

---------------------------------------------------------------------------
(* Properties.                                                             *)

TypeOK ==
  /\ hour \in 0..MaxHour /\ clears \in 0..MaxClears
  /\ \A t \in Topics : Cached(frames, t) => frames[t].read <= hour /\ frames[t].clears = clears
  /\ \A e \in Entities : Cached(replies, e) => replies[e] \in 0..hour
  /\ \A a \in Askers : asking[a].at \in {"rest", "connection", "loader", "loaded"}

\* Nobody is given what was read before the caches were last cleared when he asked, and a
\* frame that was given was read less than the time to live ago, whoever stored it and
\* whatever waited, failed or was cleared meanwhile.
ResultsFresh ==
  reply # NoResult => ~reply.old /\ (reply.frame => reply.age < FrameTtl)

=============================================================================
