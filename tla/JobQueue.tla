------------------------------ MODULE JobQueue ------------------------------
(***************************************************************************)
(* What the indexing manager promises of its jobs, without tasks, polling  *)
(* or files: a job waits, is active in one of Slots slots, and is done; a  *)
(* done job waits again only against one more attempt; a restart puts an   *)
(* active job back in the queue and, while the queue is durable, changes   *)
(* nothing else.                                                           *)
(***************************************************************************)
EXTENDS Naturals, FiniteSets

CONSTANTS Jobs, Slots

VARIABLES
  state,     \* "absent", "waiting", "active" or "done"
  attempts,  \* retries granted to the job so far
  durable    \* the stored queue is the one in memory

vars == <<state, attempts, durable>>

In(s) == {j \in Jobs : state[j] = s}

Init ==
  /\ state = [j \in Jobs |-> "absent"]
  /\ attempts = [j \in Jobs |-> 0]
  /\ durable = TRUE

Move(j, from, to) == state[j] = from /\ state' = [state EXCEPT ![j] = to]

Submit(j)   == Move(j, "absent", "waiting") /\ UNCHANGED attempts
Withdraw(j) == Move(j, "waiting", "done") /\ UNCHANGED attempts
End(j)      == Move(j, "active", "done") /\ UNCHANGED attempts

Resubmit(j) ==
  /\ Move(j, "done", "waiting")
  /\ attempts' = [attempts EXCEPT ![j] = @ + 1]

\* Old outcomes F are dropped and waiting jobs S get the free slots.
Schedule(F, S) ==
  /\ Cardinality(In("active") \cup S) <= Slots
  /\ state' = [j \in Jobs |-> IF j \in F THEN "absent"
                              ELSE IF j \in S THEN "active" ELSE state[j]]
  /\ attempts' = [j \in Jobs |-> IF j \in F THEN 0 ELSE attempts[j]]

RestartedFrom(s) == IF s = "active" THEN {"waiting", "done"} ELSE {s}

\* Nothing is active afterwards; what the queue then holds is right if it is durable.
Restart ==
  /\ state' \in [Jobs -> {"absent", "waiting", "done"}]
  /\ attempts' \in [Jobs -> Nat]
  /\ durable' => /\ durable
                 /\ \A j \in Jobs : state'[j] \in RestartedFrom(state[j])
                 /\ attempts' = attempts

Next ==
  \/ \E j \in Jobs : Submit(j) \/ Withdraw(j) \/ End(j) \/ Resubmit(j)
  \/ \E F \in SUBSET In("done"), S \in SUBSET In("waiting") : Schedule(F, S)
  \/ Restart
  \/ UNCHANGED <<state, attempts>>  \* only durability changes

Spec == Init /\ [][Next]_vars

=============================================================================
