----------------------------- MODULE MCLiveness -----------------------------
(***************************************************************************)
(* What must happen in the end: in the indexing manager, and in the parts  *)
(* of the service layer that promise something of the kind.  They share no *)
(* state, so a behaviour exercises one of them, chosen at the start.  The  *)
(* others stay as they begin, when none of their fair steps can be taken.  *)
(***************************************************************************)
EXTENDS IndexingManager

CONSTANTS
  Loads, Keys, NoLoad, NoKey,
  Subscribers, Capacity, MaxUpdates,
  Clients, MinConnections, MaxConnections, MaxCreated, NoConnection

VARIABLES
  part,
  key, on, future, cache, batch, ticking, inflight, answered,
  up, listed, queue, at, published, since, got,
  initialized, connections, available, getters, woken, held, created

Loader == INSTANCE DataLoader
Topic == INSTANCE Subscriptions
Pool == INSTANCE ConnectionPool

LoaderVars == <<key, on, future, cache, batch, ticking, inflight, answered>>
TopicVars == <<up, listed, queue, at, published, since, got>>
PoolVars == <<initialized, connections, available, getters, woken, held, created>>

LivenessInit ==
  /\ part \in {"manager", "loader", "topic", "pool"}
  /\ Init /\ Loader!Init /\ Topic!Init /\ Pool!Init

LivenessNext ==
  /\ UNCHANGED part
  /\ \/ part = "manager" /\ Next /\ UNCHANGED <<LoaderVars, TopicVars, PoolVars>>
     \/ part = "loader" /\ Loader!Next /\ UNCHANGED <<vars, TopicVars, PoolVars>>
     \/ part = "topic" /\ Topic!Next /\ UNCHANGED <<vars, LoaderVars, PoolVars>>
     \/ part = "pool" /\ Pool!Next /\ UNCHANGED <<vars, LoaderVars, TopicVars>>

LivenessSpec ==
  /\ LivenessInit /\ [][LivenessNext]_<<part, vars, LoaderVars, TopicVars, PoolVars>>
  /\ Fairness /\ Loader!Fairness /\ Topic!Fairness /\ Pool!Fairness

---------------------------------------------------------------------------
(* The properties of the parts; those of the manager have their names      *)
(* there.                                                                  *)

\* DataLoader: a load is answered unless it stands behind a cancelled one.
LoadsSettle == Loader!LoadsSettle

\* Subscriptions: after stop every generator ends.
StopEndsAll == Topic!StopEndsAll

\* ConnectionPool: a connection that is returned while clients wait gets used.
ReturnedIsUsed == Pool!ReturnedIsUsed

=============================================================================
