----------------------------- MODULE DataLoader -----------------------------
(***************************************************************************)
(* The data loader of the GraphQL layer.  Loads of one tick of the event   *)
(* loop are answered by one query: the first load of a key makes a future, *)
(* the others of that key wait for it as well.  The operations of a        *)
(* WebSocket connection share their loaders, so one may be cancelled while *)
(* others wait.                                                            *)
(*                                                                         *)
(* A future is named by the load that makes it.                            *)
(***************************************************************************)
EXTENDS Naturals, Sequences, FiniteSets, SequencesExt

CONSTANTS
  Loads,    \* calls of load
  Keys,
  NoLoad,
  NoKey

VARIABLES
  key,       \* the key of each load, from the time it is called
  on,        \* the future it waits for
  future,    \* the state of the future it made
  cache,     \* _cache: the keys that have an entry
  batch,     \* _batch and _batch_promises
  ticking,   \* _batch_scheduled: a dispatcher waits for the end of the tick
  inflight,  \* the batches whose query has been sent
  answered   \* history: the batches whose query has come back

vars == <<key, on, future, cache, batch, ticking, inflight, answered>>

\* Waits for an answer.
Waiting(l) == on[l] # NoLoad /\ future[on[l]] = "pending"

Batched(k) == {l \in ToSet(batch) : key[l] = k}

\* load, of a key in the cache.
Hit(l, k) ==
  /\ key[l] = NoKey /\ k \in cache
  /\ key' = [key EXCEPT ![l] = k]
  /\ UNCHANGED <<on, future, cache, batch, ticking, inflight, answered>>

\* load, of a key in the batch: with its future, even one that was cancelled.
Join(l, k) ==
  /\ key[l] = NoKey /\ k \notin cache
  /\ \E first \in Batched(k) :
       /\ key' = [key EXCEPT ![l] = k]
       /\ on' = [on EXCEPT ![l] = first]
  /\ UNCHANGED <<future, cache, batch, ticking, inflight, answered>>

\* Mutant: a dispatcher counts as scheduled until its query has come back.
EnqueueUnscheduled(l, k) ==
  /\ key[l] = NoKey /\ k \notin cache /\ Batched(k) = {}
  /\ key' = [key EXCEPT ![l] = k]
  /\ on' = [on EXCEPT ![l] = l]
  /\ future' = [future EXCEPT ![l] = "pending"]
  /\ batch' = Append(batch, l)
  /\ ticking' = (ticking \/ inflight = {})
  /\ UNCHANGED <<cache, inflight, answered>>

\* load, of any other key; the query for it may already be under way.
Enqueue(l, k) ==
  /\ key[l] = NoKey /\ k \notin cache /\ Batched(k) = {}
  /\ key' = [key EXCEPT ![l] = k]
  /\ on' = [on EXCEPT ![l] = l]
  /\ future' = [future EXCEPT ![l] = "pending"]
  /\ batch' = Append(batch, l)
  /\ ticking' = TRUE
  /\ UNCHANGED <<cache, inflight, answered>>

\* A waiting task is cancelled, and with it the future, for all that wait for it.
Cancel(l) ==
  /\ Waiting(l)
  /\ future' = [future EXCEPT ![on[l]] = "cancelled"]
  /\ UNCHANGED <<key, on, cache, batch, ticking, inflight, answered>>

\* _dispatch_batch, at the end of the tick.
Dispatch ==
  /\ ticking
  /\ inflight' = inflight \cup {batch}
  /\ batch' = <<>>
  /\ ticking' = FALSE
  /\ UNCHANGED <<key, on, future, cache, answered>>

\* The first future of a batch that was cancelled, or one past the end.  Setting it
\* raises, and so does then rejecting the first of the batch, which is settled: the
\* futures behind it are never set.
Break(b) ==
  CHOOSE n \in 1..(Len(b) + 1) :
    /\ n = Len(b) + 1 \/ future[b[n]] = "cancelled"
    /\ \A m \in 1..(n - 1) : future[b[m]] # "cancelled"

Settle(b, state) ==
  /\ future' = [l \in Loads |-> IF \E n \in 1..(Break(b) - 1) : b[n] = l THEN state ELSE future[l]]
  /\ inflight' = inflight \ {b}
  /\ answered' = answered \cup {b}

\* The query comes back; the key whose future was cancelled is still cached.
Answer(b) ==
  /\ b \in inflight
  /\ Settle(b, "result")
  /\ cache' = cache \cup {key[b[n]] : n \in {m \in DOMAIN b : m <= Break(b)}}
  /\ UNCHANGED <<key, on, batch, ticking>>

\* Or fails.
Fail(b) ==
  /\ b \in inflight
  /\ Settle(b, "error")
  /\ UNCHANGED <<key, on, cache, batch, ticking>>

\* clear, of one key or all.
Clear(S) ==
  /\ cache' = cache \ S
  /\ UNCHANGED <<key, on, future, batch, ticking, inflight, answered>>

Init ==
  /\ key = [l \in Loads |-> NoKey]
  /\ on = [l \in Loads |-> NoLoad]
  /\ future = [l \in Loads |-> "none"]
  /\ cache = {}
  /\ batch = <<>>
  /\ ticking = FALSE
  /\ inflight = {} /\ answered = {}

Next ==
  \/ \E l \in Loads : Cancel(l) \/ \E k \in Keys : Hit(l, k) \/ Join(l, k) \/ Enqueue(l, k)
  \/ Dispatch
  \/ \E b \in inflight : Answer(b) \/ Fail(b)
  \/ Clear(Keys) \/ \E k \in Keys : Clear({k})

\* The event loop runs the dispatcher, and a query comes back.
Fairness == WF_vars(Dispatch) /\ WF_vars(\E b \in inflight : Answer(b) \/ Fail(b))

Spec == Init /\ [][Next]_vars /\ Fairness

---------------------------------------------------------------------------
(* Properties.                                                             *)

TypeOK ==
  /\ key \in [Loads -> Keys \cup {NoKey}]
  /\ on \in [Loads -> Loads \cup {NoLoad}]
  /\ future \in [Loads -> {"none", "pending", "result", "error", "cancelled"}]
  /\ cache \subseteq Keys
  /\ batch \in Seq(Loads)
  /\ ticking = (batch # <<>>)
  /\ inflight \subseteq Seq(Loads) /\ answered \subseteq Seq(Loads)

\* The future is in a batch behind one that was cancelled.
BehindCancelled(f) ==
  \E b \in answered : \E m, n \in DOMAIN b : m < n /\ b[n] = f /\ future[b[m]] = "cancelled"

\* However loads, cancellations and answers fall, a load that waits is answered, unless
\* it stands behind one that was cancelled: the only way to be forgotten.
LoadsSettle == \A l \in Loads : Waiting(l) ~> (~Waiting(l) \/ BehindCancelled(on[l]))

=============================================================================
