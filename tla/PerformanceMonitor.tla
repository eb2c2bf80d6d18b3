------------------------- MODULE PerformanceMonitor -------------------------
(***************************************************************************)
(* The performance monitor: the requests in flight under names made of     *)
(* endpoint and time, the counters and the kept figures.  Its lock is      *)
(* never held over a suspension, so that each use of it is one step.       *)
(* Errors are counted where a request raises one and where record_error is *)
(* called, both for the same request if the caller does both.  The task    *)
(* that samples the figures is in BackgroundTasks.                         *)
(***************************************************************************)
EXTENDS Integers, Sequences, FiniteSets, SequencesExt, Selection

CONSTANTS
  Requests,
  Endpoints, Root,  \* the name of Root is part of the names of all endpoints
  KeptRequests,     \* 10000 of _request_history
  KeptTimes,        \* 1000 of _response_times
  MaxTick           \* bound: the clock

MonitorAssumption ==
  /\ Root \in Endpoints
  /\ {KeptRequests, KeptTimes} \subseteq Nat \ {0} /\ MaxTick \in Nat

VARIABLES
  tick,      \* the clock
  tracked,   \* each request: idle, running or over, its endpoint, when it began, its errors
  active,    \* _active_requests: names
  requests, errors, \* _request_count, _error_count
  history,   \* _request_history: endpoint, and whether the status is an error
  times      \* _response_times

vars == <<tick, tracked, active, requests, errors, history, times>>

Idle == [status |-> "idle"]
Running == {r \in Requests : tracked[r].status = "running"}
Started == {r \in Requests : tracked[r].status # "idle"}

\* The name of a request: endpoint, method and time.
Name(r) == <<tracked[r].of, tracked[r].began>>

\* The endpoint is part of the name, as a string.
InName(endpoint, r) == endpoint \in {Root, tracked[r].of}

LastOf(s, kept) == IF Len(s) > kept THEN SubSeq(s, Len(s) - kept + 1, Len(s)) ELSE s

---------------------------------------------------------------------------
(* Requests.                                                               *)

\* The head of track_request.
Enter(r, endpoint) ==
  /\ tracked[r] = Idle
  /\ tracked' = [tracked EXCEPT ![r] =
       [status |-> "running", of |-> endpoint, began |-> tick, raised |-> FALSE, recorded |-> FALSE]]
  /\ active' = active \cup {Name(r)'}
  /\ requests' = requests + 1
  /\ UNCHANGED <<tick, errors, history, times>>

\* Mutant: a request that is cancelled is not taken out.
LeaveUnlessCancelled(r, how) ==
  /\ r \in Running
  /\ tracked' = [tracked EXCEPT ![r] = [@ EXCEPT !.status = "over", !.raised = how = "exception"]]
  /\ errors' = IF how = "exception" THEN errors + 1 ELSE errors
  /\ active' = IF how = "cancellation" THEN active ELSE active \ {Name(r)}
  /\ times' = LastOf(Append(times, tick - tracked[r].began), KeptTimes)
  /\ history' = LastOf(Append(history, [of |-> tracked[r].of, error |-> FALSE]), KeptRequests)
  /\ UNCHANGED <<tick, requests>>

\* Its end, by return, by an exception, or by cancellation, which is no Exception.
Leave(r, how) ==
  /\ r \in Running
  /\ tracked' = [tracked EXCEPT ![r] = [@ EXCEPT !.status = "over", !.raised = how = "exception"]]
  /\ errors' = IF how = "exception" THEN errors + 1 ELSE errors
  /\ active' = active \ {Name(r)}
  /\ times' = LastOf(Append(times, tick - tracked[r].began), KeptTimes)
  /\ history' = LastOf(Append(history, [of |-> tracked[r].of, error |-> FALSE]), KeptRequests)
  /\ UNCHANGED <<tick, requests>>

\* record_error, by the caller of track_request, inside or afterwards: the newest entry
\* whose endpoint is part of the name is marked, which is that of another request as long
\* as this one runs.
RecordError(r) ==
  /\ tracked[r].status \in {"running", "over"} /\ ~tracked[r].recorded
  /\ tracked' = [tracked EXCEPT ![r].recorded = TRUE]
  /\ errors' = errors + 1
  /\ LET found == {n \in DOMAIN history : InName(history[n].of, r)} IN
     history' = [n \in DOMAIN history |->
       IF n \in found /\ \A m \in found : m <= n THEN [history[n] EXCEPT !.error = TRUE] ELSE history[n]]
  /\ UNCHANGED <<tick, active, requests, times>>

Tick ==
  /\ tick < MaxTick /\ tick' = tick + 1
  /\ UNCHANGED <<tracked, active, requests, errors, history, times>>

Init ==
  /\ tick = 0
  /\ tracked = [r \in Requests |-> Idle]
  /\ active = {} /\ requests = 0 /\ errors = 0
  /\ history = <<>> /\ times = <<>>

Next ==
  \/ \E r \in Requests :
       \/ \E endpoint \in Endpoints : Enter(r, endpoint)
       \/ \E how \in {"return", "exception", "cancellation"} : Leave(r, how)
       \/ RecordError(r)
  \/ Tick

Spec == Init /\ [][Next]_vars

---------------------------------------------------------------------------
(* What is read: a sample of the task, and get_performance_summary.        *)

\* _collect_metrics; the rates are computed of these.
Sample == [active |-> Cardinality(active), requests |-> requests, errors |-> errors]

\* A percentile of the response times, in percent.
Percentile(p) == times[Sorting(times)[1 + (Len(times) * p) \div 100]]

EndpointErrors(endpoint) ==
  Cardinality({n \in DOMAIN history : history[n].of = endpoint /\ history[n].error})

---------------------------------------------------------------------------
(* Properties.                                                             *)

TypeOK ==
  /\ tick \in 0..MaxTick
  /\ history \in Seq([of : Endpoints, error : BOOLEAN]) /\ Len(history) <= KeptRequests
  /\ times \in Seq(0..MaxTick) /\ Len(times) <= KeptTimes

\* Two requests of one endpoint began at the same time.
SameName == \E r, q \in Started : r # q /\ Name(r) = Name(q)

\* The requests in flight are those that are shown, unless two of the same name began at
\* one time; even then none is shown that is over for good.
ActiveShown ==
  /\ active \subseteq {Name(r) : r \in Running}
  /\ SameName \/ active = {Name(r) : r \in Running}

\* The figures of a sample: a request is an error at most twice, whatever its caller does,
\* and none is active that did not begin.  As many requests are marked as failed, at
\* most, as errors were recorded, though not always the same; and no endpoint has more
\* errors than the requests whose names it is a part of.
CountsAgree ==
  LET recorded == {r \in Started : tracked[r].recorded} IN
  /\ Sample.requests = Cardinality(Started) /\ Sample.active <= Cardinality(Running)
  /\ Sample.errors = Cardinality({r \in Started : tracked[r].raised}) + Cardinality(recorded)
  /\ Cardinality({n \in DOMAIN history : history[n].error}) <= Cardinality(recorded)
  /\ \A endpoint \in Endpoints :
       EndpointErrors(endpoint) <= Cardinality({r \in recorded : InName(endpoint, r)})

\* A percentile is one of the times, and at least so many of them are not above it.
PercentilesRight ==
  times # <<>> => \A p \in {50, 90, 95, 99} :
    /\ Percentile(p) \in ToSet(times)
    /\ 100 * Cardinality({n \in DOMAIN times : times[n] <= Percentile(p)}) >= p * Len(times)

=============================================================================
