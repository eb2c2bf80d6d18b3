--------------------------- MODULE ConnectionPool ---------------------------
(***************************************************************************)
(* The connection pool of the performance layer.  It hands out connection  *)
(* records to the coroutines of one event loop, lets them wait on an       *)
(* asyncio.Queue of available connections, grows when a wait times out     *)
(* below the limit, and can be cleaned up while connections are in use.    *)
(*                                                                         *)
(* Code between two suspensions is one action.  A coroutine is suspended   *)
(* only while it waits for the queue and while it uses its connection: the *)
(* queue is unbounded, so returning a connection never waits, and nothing  *)
(* suspends under the pool's lock.                                         *)
(***************************************************************************)
EXTENDS Naturals, Sequences, FiniteSets

CONSTANTS
  Clients,          \* coroutines that use the pool
  MinConnections,   \* config.min_connections
  MaxConnections,   \* config.max_connections
  MaxCreated,       \* bound: connections ever created; they are 1..MaxCreated
  NoConnection      \* what a client that holds no connection holds

PoolAssumption ==
  /\ MinConnections \in Nat
  /\ MaxConnections \in Nat
  /\ MinConnections <= MaxConnections
  /\ MaxCreated \in Nat
  /\ NoConnection \notin 1..MaxCreated
  /\ IsFiniteSet(Clients)

VARIABLES
  initialized,  \* _initialized
  connections,  \* _connections, the records whose "active" field is true
  available,    \* _available_connections
  getters,      \* clients whose getter future in that queue is pending, oldest first
  woken,        \* clients whose getter future is done, but who have not run since
  held,         \* the connection each client uses
  created       \* connections created so far

vars == <<initialized, connections, available, getters, woken, held, created>>

Connections == 1..MaxCreated

Elements(s) == {s[i] : i \in DOMAIN s}

Idle(c) == held[c] = NoConnection /\ c \notin woken /\ c \notin Elements(getters)

---------------------------------------------------------------------------
(* asyncio.Queue: each item put in wakes the oldest waiting getter, which  *)
(* takes an item when it runs, if somebody else has not been faster.       *)

\* How many waiting getters n items wake, who is left and who is awake then.
Wakes(n) == IF n < Len(getters) THEN n ELSE Len(getters)

StillWaiting(n) == SubSeq(getters, Wakes(n) + 1, Len(getters))

NowWoken(n) == woken \cup {getters[i] : i \in 1..Wakes(n)}

\* A getter that is cancelled after it was woken wakes the next one in its place, if there
\* is anything to take; one that is still pending is removed from the queue.
Leave(c) ==
  \/ c \in woken /\ available # <<>>
     /\ getters' = StillWaiting(1) /\ woken' = NowWoken(1) \ {c}
  \/ c \in woken /\ available = <<>>
     /\ woken' = woken \ {c} /\ UNCHANGED getters
  \/ \E i \in DOMAIN getters :
       /\ getters[i] = c
       /\ getters' = SubSeq(getters, 1, i - 1) \o SubSeq(getters, i + 1, Len(getters))
       /\ UNCHANGED woken

---------------------------------------------------------------------------
(* get_connection.                                                         *)

\* initialize is part of the first use: it creates the minimum number of connections.
Initial == IF initialized THEN <<>> ELSE [i \in 1..MinConnections |-> created + i]

\* The start of get_connection: initialize, and then the queue.
Enter(c) ==
  /\ Idle(c)
  /\ created + Len(Initial) <= MaxCreated
  /\ initialized' = TRUE
  /\ created' = created + Len(Initial)
  /\ connections' = connections \cup Elements(Initial)
  /\ woken' = NowWoken(Len(Initial))

\* A connection is available ...
Acquire(c) ==
  /\ available \o Initial # <<>>
  /\ Enter(c)
  /\ held' = [held EXCEPT ![c] = Head(available \o Initial)]
  /\ available' = Tail(available \o Initial)
  /\ getters' = StillWaiting(Len(Initial))

\* ... or the client waits for one.
Wait(c) ==
  /\ available \o Initial = <<>>
  /\ Enter(c)
  /\ getters' = Append(getters, c)
  /\ UNCHANGED <<held, available>>

\* A woken getter takes a connection ...
Take(c) ==
  /\ c \in woken
  /\ available # <<>>
  /\ woken' = woken \ {c}
  /\ held' = [held EXCEPT ![c] = Head(available)]
  /\ available' = Tail(available)
  /\ UNCHANGED <<initialized, connections, getters, created>>

\* ... or waits again, when a client that came later has taken it.
WaitAgain(c) ==
  /\ c \in woken
  /\ available = <<>>
  /\ woken' = woken \ {c}
  /\ getters' = Append(getters, c)
  /\ UNCHANGED <<initialized, connections, available, held, created>>

Waiting(c) == c \in Elements(getters) \/ c \in woken

\* Mutant: the limit may be passed by one.
GrowOneTooMany(c) ==
  /\ Waiting(c)
  /\ Cardinality(connections) <= MaxConnections
  /\ created < MaxCreated
  /\ Leave(c)
  /\ created' = created + 1
  /\ connections' = connections \cup {created + 1}
  /\ held' = [held EXCEPT ![c] = created + 1]
  /\ UNCHANGED <<initialized, available>>

\* Mutant: the new connection is put in the queue as well, as initialize does.
GrowAndPut(c) ==
  /\ Waiting(c)
  /\ Cardinality(connections) < MaxConnections
  /\ created < MaxCreated
  /\ Leave(c)
  /\ created' = created + 1
  /\ connections' = connections \cup {created + 1}
  /\ held' = [held EXCEPT ![c] = created + 1]
  /\ available' = Append(available, created + 1)
  /\ UNCHANGED initialized

\* The wait times out below the limit: a new connection is created ...
Grow(c) ==
  /\ Waiting(c)
  /\ Cardinality(connections) < MaxConnections
  /\ created < MaxCreated
  /\ Leave(c)
  /\ created' = created + 1
  /\ connections' = connections \cup {created + 1}
  /\ held' = [held EXCEPT ![c] = created + 1]
  /\ UNCHANGED <<initialized, available>>

\* Mutant: the finally block does not ask whether there is a connection to return.
GiveUpAndPut(c) ==
  /\ Waiting(c)
  /\ Leave(c)
  /\ available' = Append(available, held[c])
  /\ UNCHANGED <<initialized, connections, held, created>>

\* ... and at the limit the pool is exhausted; or the waiting request is cancelled.
GiveUp(c) ==
  /\ Waiting(c)
  /\ Leave(c)
  /\ UNCHANGED <<initialized, connections, available, held, created>>

\* Mutant: the connection is returned after the query, not in a finally block: a
\* query that fails may lose it.
ReleaseUnlessFailed(c) ==
  /\ held[c] # NoConnection
  /\ held' = [held EXCEPT ![c] = NoConnection]
  /\ \/ /\ held[c] \in connections
        /\ available' = Append(available, held[c])
        /\ getters' = StillWaiting(1)
        /\ woken' = NowWoken(1)
     \/ UNCHANGED <<available, getters, woken>>
  /\ UNCHANGED <<initialized, connections, created>>

\* Mutant: the connection is stored in the pool, but no waiting client is told.
ReleaseUntold(c) ==
  /\ held[c] # NoConnection
  /\ held' = [held EXCEPT ![c] = NoConnection]
  /\ available' = IF held[c] \in connections THEN Append(available, held[c]) ELSE available
  /\ UNCHANGED <<initialized, connections, getters, woken, created>>

\* The end of the with block, however it is left: a connection that is still
\* active goes back to the queue.
Release(c) ==
  /\ held[c] # NoConnection
  /\ held' = [held EXCEPT ![c] = NoConnection]
  /\ IF held[c] \in connections
       THEN /\ available' = Append(available, held[c])
            /\ getters' = StillWaiting(1)
            /\ woken' = NowWoken(1)
       ELSE UNCHANGED <<available, getters, woken>>
  /\ UNCHANGED <<initialized, connections, created>>

\* cleanup marks and forgets the connections; the queue keeps what it holds.
Cleanup ==
  /\ connections' = {}
  /\ initialized' = FALSE
  /\ UNCHANGED <<available, getters, woken, held, created>>

---------------------------------------------------------------------------

Init ==
  /\ initialized = FALSE
  /\ connections = {}
  /\ available = <<>>
  /\ getters = <<>>
  /\ woken = {}
  /\ held = [c \in Clients |-> NoConnection]
  /\ created = 0

Next ==
  \/ \E c \in Clients :
       \/ Acquire(c) \/ Wait(c) \/ Take(c) \/ WaitAgain(c)
       \/ Grow(c) \/ GiveUp(c) \/ Release(c)
  \/ Cleanup

Spec == Init /\ [][Next]_vars

\* The event loop runs a client that has been woken.
Fairness == \A c \in Clients : WF_vars(Take(c) \/ WaitAgain(c))

FairSpec == Spec /\ Fairness

---------------------------------------------------------------------------
(* Properties.                                                             *)

TypeOK ==
  /\ initialized \in BOOLEAN
  /\ connections \subseteq Connections
  /\ available \in Seq(Connections)
  /\ getters \in Seq(Clients)
  /\ woken \subseteq Clients
  /\ held \in [Clients -> Connections \cup {NoConnection}]
  /\ created \in 0..MaxCreated

\* A connection has at most one user at a time, and none while it is available.
Exclusive ==
  /\ \A c, d \in Clients : held[c] = held[d] /\ held[c] # NoConnection => c = d
  /\ \A i, j \in DOMAIN available : available[i] = available[j] => i = j
  /\ \A c \in Clients : held[c] \notin Elements(available)

\* Every connection of the pool is available or in use.
NothingLost == connections \subseteq Elements(available) \cup {held[c] : c \in Clients}

\* Every connection of the pool is in one place, with one user or in the queue, whoever
\* timed out, was cancelled or failed in between.
InOnePlace == Exclusive /\ NothingLost

\* The pool never has more than max_connections connections.
WithinLimit == Cardinality(connections) <= MaxConnections

\* It can have more only because waiting clients make a pool grow that was cleaned up
\* and is then initialised again, and then at most by min_connections.
LimitOvershoot ==
  Cardinality(connections) <= MaxConnections + (IF initialized THEN MinConnections ELSE 0)

\* While clients wait, there is a woken client for every available connection: no
\* connection lies idle beside a client that sleeps until its time-out.
NoLostWakeup == getters # <<>> => Len(available) <= Cardinality(woken)

\* So a connection that is returned while clients wait gets used.
ReturnedIsUsed ==
  (available # <<>> /\ getters # <<>>) ~> (available = <<>> \/ getters = <<>>)

=============================================================================
