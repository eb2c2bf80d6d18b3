---------------------------- MODULE RateLimiting ----------------------------
(***************************************************************************)
(* The rate limiters of the service, one client against one of them; the   *)
(* clients of a limiter do not share anything.  None suspends, so a check  *)
(* is one step.                                                            *)
(*                                                                         *)
(*   "sliding", "bucket",   RateLimiter of auth/rate_limiting.py, with its *)
(*   "fixed"                three strategies                               *)
(*   "fixed colons"         the last one with an identifier that has       *)
(*                          colons, as the login route's does              *)
(*   "helper"               RateLimitHelper, under the middleware of the   *)
(*                          authentication routes                          *)
(*   "calls", "advanced"    RateLimitMiddleware, and AdvancedRateLimiter   *)
(*                          with a bucket                                  *)
(*   "open"                 the latter with a fixed or a sliding window,   *)
(*                          its default: stubs that let everybody in       *)
(*   "security"             the RateLimiter of the security middleware     *)
(*                                                                         *)
(* The clock ticks several times a second: the answers are in whole        *)
(* seconds and the code rounds them.                                       *)
(***************************************************************************)
EXTENDS Naturals, Sequences, FiniteSets, Selection

CONSTANTS
  Limit,           \* requests allowed in a period
  Period,          \* the period, in ticks
  Burst,           \* burst_limit
  BurstPeriod,     \* the ten seconds of the security limiter's burst
  Keep,            \* the hour for which the helper's cleanup keeps entries
  CleanupInterval, \* _cleanup_interval of the helper
  TicksPerSecond,
  MaxTime          \* bound: the clock

LimiterAssumption ==
  /\ Limit \in Nat \ {0} /\ Burst \in Nat \ {0} /\ TicksPerSecond \in Nat \ {0}
  /\ Period \in Nat \ {0} /\ BurstPeriod \in 1..Period
  /\ Keep \in Nat /\ Period <= Keep
  /\ CleanupInterval \in Nat /\ MaxTime \in Nat

VARIABLES
  kind,         \* the limiter
  now,
  log,          \* the time stamps it keeps
  lastCleanup,  \* _last_cleanup of the helper
  fixed,        \* _fixed_windows: the minute of the last request and its count
  bucket,       \* _token_buckets: a token is Period units, a tick refills Limit units
  admitted,     \* history: when requests were let through
  told          \* history: when the last client turned away was told to return

vars == <<kind, now, log, lastCleanup, fixed, bucket, admitted, told>>

Kinds == {"sliding", "bucket", "fixed", "fixed colons", "helper", "calls", "advanced", "open", "security"}

Logs == {"sliding", "helper", "calls", "security"}
Buckets == {"bucket", "advanced"}
Windows == {"fixed", "fixed colons"}

\* These turn nobody away.
Open == {"fixed colons", "open"}

Smaller(a, b) == IF a < b THEN a ELSE b

\* Ticks are natural numbers, so "not before now - d" is written without subtraction.
Within(s, d) == Selected(s, {i \in DOMAIN s : s[i] + d > now})

\* Mutant: the sliding window forgets entries a tick early, and the others as well.
RecentTooShort == Within(log, Period - 1)

\* The time stamps in the window.  The sliding window still counts a request that is
\* exactly one period old; the helper first removes what is older than an hour, when
\* it has not done so for a while.
Recent ==
  CASE kind = "sliding" -> Selected(log, {i \in DOMAIN log : log[i] + Period >= now})
    [] kind = "helper" /\ now - lastCleanup > CleanupInterval -> Within(Within(log, Keep), Period)
    [] OTHER -> Within(log, Period)

\* _token_buckets starts full; the buckets of AdvancedRateLimiter hold a period's limit.
Capacity == IF kind = "bucket" THEN Burst * Period ELSE Limit * Period

\* Mutant: the bucket overflows.
RefilledUncapped == bucket.tokens + (now - bucket.last) * Limit

Refilled == Smaller(Capacity, bucket.tokens + (now - bucket.last) * Limit)

ThisMinute == now \div Period

\* Mutant: the key of a window tells the second, so that every request opens a new one.
CountAfresh == 0

Count == IF fixed.minute = ThisMinute THEN fixed.count ELSE 0

Admits ==
  /\ kind \in Logs => Len(Recent) < Limit
  /\ kind = "security" => Len(Within(Recent, BurstPeriod)) < Burst
  /\ kind \in Buckets => Refilled >= Period
  /\ kind \in Windows => Count < Limit

\* Whole seconds, rounded down, in ticks.
Seconds(ticks) == (ticks \div TicksPerSecond) * TicksPerSecond

\* Mutant: the helper rounds down and adds nothing.
HelperWaitRounded == Seconds(Head(Recent) + Period - now)

\* RateLimitHelper rounds down and adds a second.
HelperWait == Seconds(Head(Recent) + Period - now) + TicksPerSecond

\* How long a client that is turned away is told to wait; "advanced" does not round.
RetryAfter ==
  CASE kind = "sliding" -> Seconds(Head(Recent) + Period - now)
    [] kind = "helper" -> HelperWait
    [] kind \in Windows -> Seconds((ThisMinute + 1) * Period - now)
    [] kind = "bucket" -> Seconds((Period - Refilled) \div Limit)
    [] kind = "advanced" -> (Period - Refilled + Limit - 1) \div Limit
    [] OTHER -> Period

\* What a check leaves behind.
Kept(ok) ==
  /\ log' = IF kind \in Logs THEN (IF ok THEN Append(Recent, now) ELSE Recent) ELSE log
  /\ lastCleanup' = IF kind = "helper" /\ now - lastCleanup > CleanupInterval THEN now ELSE lastCleanup
  /\ bucket' = IF kind \in Buckets
                 THEN [tokens |-> Refilled - (IF ok THEN Period ELSE 0), last |-> now]
                 ELSE bucket
     \* Cleaning up compares a time without a zone to one with a zone, which raises a
     \* TypeError after the request was counted; with colons in the identifier the time
     \* does not parse, and the window is removed.
  /\ fixed' = IF kind = "fixed" /\ ok THEN [minute |-> ThisMinute, count |-> Count + 1] ELSE fixed

\* A request is let through; under "fixed" it is counted, and ends in that error.  (The
\* history leaves out those that turn nobody away.)
Admit ==
  /\ Admits
  /\ Kept(TRUE)
  /\ admitted' = IF kind \in Open THEN admitted ELSE Append(admitted, now)
  /\ told' = 0
  /\ UNCHANGED <<kind, now>>

\* Or turned away.
TurnAway ==
  /\ ~Admits
  /\ Kept(FALSE)
  /\ told' = now + RetryAfter
  /\ UNCHANGED <<kind, now, admitted>>

\* get_rate_limit_headers checks, so it uses up a request, which nobody makes.
Headers ==
  /\ kind \in {"sliding", "bucket", "fixed", "fixed colons"}
  /\ Kept(Admits)
  /\ told' = IF Admits THEN 0 ELSE told
  /\ UNCHANGED <<kind, now, admitted>>

\* reset_identifier, and the history with it.
Reset ==
  /\ kind = "helper"
  /\ log' = <<>> /\ admitted' = <<>> /\ told' = 0
  /\ UNCHANGED <<kind, now, lastCleanup, fixed, bucket>>

Tick ==
  /\ now < MaxTime
  /\ now' = now + 1
  /\ UNCHANGED <<kind, log, lastCleanup, fixed, bucket, admitted, told>>

Init ==
  /\ kind \in Kinds
  /\ now = 0
  /\ log = <<>>
  /\ lastCleanup = 0
  /\ fixed = [minute |-> 0, count |-> 0]
  /\ bucket = [tokens |-> Capacity, last |-> 0]
  /\ admitted = <<>>
  /\ told = 0

Next == Admit \/ TurnAway \/ Headers \/ Reset \/ Tick

Spec == Init /\ [][Next]_vars

---------------------------------------------------------------------------
(* Properties.                                                             *)

TypeOK ==
  /\ kind \in Kinds /\ now \in 0..MaxTime /\ told \in Nat
  /\ log \in Seq(0..MaxTime) /\ admitted \in Seq(0..MaxTime)
  /\ lastCleanup \in 0..MaxTime
  /\ fixed.minute \in Nat /\ fixed.count \in 0..Limit
  /\ bucket.tokens \in 0..Capacity /\ bucket.last \in 0..MaxTime

\* The requests let through from one time to another, both included.
Passed(from, to) == Cardinality({i \in DOMAIN admitted : admitted[i] >= from /\ admitted[i] <= to})

\* And those of a minute of the calendar.
PassedIn(m) == Cardinality({i \in DOMAIN admitted : admitted[i] \div Period = m})

\* Whatever is forgotten, refilled or cleaned up in between: no stretch of time as long
\* as the period sees more requests than the limit, nor one of ten seconds more than the
\* burst.  A fixed window promises less, that of every minute of the calendar, and the
\* kinds in Open promise nothing.
LimitsHold ==
  /\ \A t \in 0..now :
       /\ kind \in Logs => Passed(t, t + Period - 1) <= Limit
       /\ kind = "security" => Passed(t, t + BurstPeriod - 1) <= Burst
       /\ kind \in Buckets => \A d \in 0..(now - t) : Passed(t, t + d) * Period <= Capacity + d * Limit
  /\ kind = "fixed" => \A m \in 0..ThisMinute : PassedIn(m) <= Limit

\* "Try again in {e.retry_after} seconds": a client that waits as long as it was told is
\* let in, unless others were first.  That is so of the limiters that round up; "sliding"
\* and "bucket" round down, and there it takes up to a second more.  Of "fixed" nothing is said: what
\* it lets through ends in an error.
RetryAfterIsEnough ==
  /\ kind # "fixed" /\ told # 0
  /\ now >= told + (IF kind \in {"sliding", "bucket"} \cup Windows THEN TicksPerSecond ELSE 0)
  => Admits

=============================================================================
