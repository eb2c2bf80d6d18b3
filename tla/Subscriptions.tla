--------------------------- MODULE Subscriptions ---------------------------
(***************************************************************************)
(* One topic of the subscription manager.  A subscriber is a generator     *)
(* that its consumer runs: it waits for its queue with a time-out of a     *)
(* second, looks whether the manager still runs, and waits again.  A       *)
(* publisher never waits: a subscriber whose queue is full is dropped from *)
(* the list, and not told.                                                 *)
(***************************************************************************)
EXTENDS Naturals, Sequences, FiniteSets

CONSTANTS
  Subscribers,
  Capacity,    \* maxsize of a queue
  MaxUpdates   \* bound: updates published

TopicAssumption == Capacity \in Nat \ {0} /\ MaxUpdates \in Nat

End == 0  \* the None that stop puts in the queues; updates are 1..MaxUpdates

VARIABLES
  up,         \* _running
  listed,     \* _subscribers of the topic
  queue,      \* of each subscriber
  at,         \* where its generator stands
  published,  \* the updates published so far
  since,      \* history: those published before it subscribed
  got         \* history: what its consumer was given

vars == <<up, listed, queue, at, published, since, got>>

\* subscribe, when the consumer asks for the first update.
Subscribe(s) ==
  /\ at[s] = "new"
  /\ at' = [at EXCEPT ![s] = IF up THEN "waiting" ELSE "ended"]
  /\ listed' = IF up THEN listed \cup {s} ELSE listed
  /\ since' = [since EXCEPT ![s] = published]
  /\ UNCHANGED <<up, queue, published, got>>

\* The end of the generator: its queue is removed if it is still there.
Ends(s) ==
  /\ at' = [at EXCEPT ![s] = "ended"]
  /\ listed' = listed \ {s}

\* The queue has an update, or the end signal.
Receive(s) ==
  /\ at[s] = "waiting" /\ queue[s] # <<>>
  /\ queue' = [queue EXCEPT ![s] = Tail(@)]
  /\ IF Head(queue[s]) = End
       THEN Ends(s) /\ UNCHANGED got
       ELSE /\ at' = [at EXCEPT ![s] = "consumer"]
            /\ got' = [got EXCEPT ![s] = Append(@, Head(queue[s]))]
            /\ UNCHANGED listed
  /\ UNCHANGED <<up, published, since>>

\* Mutant: the generator trusts the end signal, which a full queue does not get.
NextTurnForEver(s) ==
  /\ at[s] = "consumer"
  /\ at' = [at EXCEPT ![s] = "waiting"]
  /\ UNCHANGED <<up, listed, queue, published, since, got>>

\* The head of the loop: after the consumer has dealt with an update, or after a
\* second without one.
NextTurn(s) ==
  /\ at[s] = "consumer" \/ (at[s] = "waiting" /\ queue[s] = <<>> /\ ~up)
  /\ IF up THEN at' = [at EXCEPT ![s] = "waiting"] /\ UNCHANGED listed ELSE Ends(s)
  /\ UNCHANGED <<up, queue, published, since, got>>

\* The consumer goes away.
Leave(s) ==
  /\ at[s] \in {"waiting", "consumer"}
  /\ Ends(s)
  /\ UNCHANGED <<up, queue, published, since, got>>

Full(s) == Len(queue[s]) >= Capacity

\* Mutant: a full queue only misses this update.
PublishSkipsFull ==
  /\ published < MaxUpdates
  /\ published' = published + 1
  /\ queue' = [s \in Subscribers |->
       IF s \in listed /\ ~Full(s) THEN Append(queue[s], published + 1) ELSE queue[s]]
  /\ UNCHANGED <<up, listed, at, since, got>>

\* publish.
Publish ==
  /\ published < MaxUpdates
  /\ published' = published + 1
  /\ queue' = [s \in Subscribers |->
       IF s \in listed /\ ~Full(s) THEN Append(queue[s], published + 1) ELSE queue[s]]
  /\ listed' = {s \in listed : ~Full(s)}
  /\ UNCHANGED <<up, at, since, got>>

\* stop.
Stop ==
  /\ up
  /\ up' = FALSE
  /\ queue' = [s \in Subscribers |->
       IF s \in listed /\ ~Full(s) THEN Append(queue[s], End) ELSE queue[s]]
  /\ UNCHANGED <<listed, at, published, since, got>>

Init ==
  /\ up = TRUE
  /\ listed = {}
  /\ queue = [s \in Subscribers |-> <<>>]
  /\ at = [s \in Subscribers |-> "new"]
  /\ published = 0
  /\ since = [s \in Subscribers |-> 0]
  /\ got = [s \in Subscribers |-> <<>>]

Next ==
  \/ \E s \in Subscribers : Subscribe(s) \/ Receive(s) \/ NextTurn(s) \/ Leave(s)
  \/ Publish
  \/ Stop

\* A consumer deals with what it is given, and the time-out of a second ends.
Fairness == \A s \in Subscribers : WF_vars(Receive(s)) /\ WF_vars(NextTurn(s))

Spec == Init /\ [][Next]_vars /\ Fairness

---------------------------------------------------------------------------
(* Properties.                                                             *)

TypeOK ==
  /\ up \in BOOLEAN
  /\ listed \subseteq {s \in Subscribers : at[s] \in {"waiting", "consumer"}}
  /\ at \in [Subscribers -> {"new", "waiting", "consumer", "ended"}]
  /\ \A s \in Subscribers :
       /\ queue[s] \in Seq(0..MaxUpdates) /\ Len(queue[s]) <= Capacity
       /\ got[s] \in Seq(1..MaxUpdates)
  /\ published \in 0..MaxUpdates
  /\ since \in [Subscribers -> 0..MaxUpdates]

\* The updates among the first k places of a queue.
Updates(s, k) == Cardinality({n \in 1..k : queue[s][n] # End})

\* A subscriber is given the updates since it subscribed in their order and without a
\* gap, the queue goes on where it stands, up to the last update for as long as it is
\* listed: a slow subscriber is cut off, and never made to skip.
NoGaps ==
  \A s \in Subscribers : at[s] # "new" =>
    /\ \A n \in DOMAIN got[s] : got[s][n] = since[s] + n
    /\ \A n \in DOMAIN queue[s] :
         queue[s][n] # End => queue[s][n] = since[s] + Len(got[s]) + Updates(s, n)
    /\ s \in listed => since[s] + Len(got[s]) + Updates(s, Len(queue[s])) = published

\* After stop every generator ends, also that of a subscriber whose full queue did not
\* get the end signal, or that was dropped.
StopEndsAll == \A s \in Subscribers : ~up /\ at[s] # "new" ~> at[s] = "ended"

=============================================================================
