------------------------------- MODULE MCAuth -------------------------------
(***************************************************************************)
(* The parts of the authentication layer side by side.  In the        *)
(* program they share no state, so a behaviour exercises one of them,      *)
(* chosen at the start, while the others stay as they are: the states are  *)
(* the sum of theirs and not the product.  They share the clock.           *)
(***************************************************************************)
EXTENDS Accounts

CONSTANTS
  NoSession, MaxIds, MaxPerUser, SessionTimeout, MaxIdle, ExtendBelow, Threshold, MaxSessionTime,
  Limit, Period, Burst, BurstPeriod, Keep, CleanupInterval, TicksPerSecond, MaxLimiterTime,
  NoKey, Never, MaxKeys, Quota, NewConfigs, ConfigChanges, Unset, Minute, Hour, Day, MaxAttempts, MaxKeyTime,
  MaxTokens, MaxIssued, MaxAudit, MasterConfigured, NoCredential, Master,
  Addresses, AlertFrom, SuspectFrom, BlockFrom, Window, StatusWindow, KeptAlerts, MaxMoment, MaxRaised

VARIABLES
  part, now,
  sessions, userSessions, byToken,
  kind, log, lastCleanup, fixed, bucket, admitted, told,
  keys, calls, accepted, allowed,
  tokens, blacklist, issued, store, audit,
  moment, failures, suspicious, blocked, alerts, entered, raised

Sess == INSTANCE SessionManager WITH MaxTime <- MaxSessionTime
Rate == INSTANCE RateLimiting WITH MaxTime <- MaxLimiterTime
Keys == INSTANCE ApiKeys WITH MaxTime <- MaxKeyTime
Control == INSTANCE AccessControl
Watch == INSTANCE SecurityWatch

ASSUME AuthAssumption ==
  /\ Sess!SessionAssumption /\ Rate!LimiterAssumption /\ Keys!KeyAssumption
  /\ Control!AccessAssumption /\ Watch!WatchAssumption

AuthInit ==
  /\ part \in {"accounts", "sessions", "limits", "keys", "access", "watch"}
  /\ Init /\ Sess!Init /\ Rate!Init /\ Keys!Init /\ Control!Init /\ Watch!Init
  /\ part # "limits" => kind = "sliding"

SessVars == <<sessions, userSessions, byToken>>
RateVars == <<kind, log, lastCleanup, fixed, bucket, admitted, told>>
KeysVars == <<keys, calls, accepted, allowed>>
AccessVars == <<tokens, blacklist, issued, store, audit>>
WatchVars == <<moment, failures, suspicious, blocked, alerts, entered, raised>>

AuthNext ==
  /\ UNCHANGED part
  /\ \/ part = "accounts" /\ Next /\ UNCHANGED <<now, SessVars, RateVars, KeysVars, AccessVars, WatchVars>>
     \/ part = "sessions" /\ Sess!Next /\ UNCHANGED <<vars, RateVars, KeysVars, AccessVars, WatchVars>>
     \/ part = "limits" /\ Rate!Next /\ UNCHANGED <<vars, SessVars, KeysVars, AccessVars, WatchVars>>
     \/ part = "keys" /\ Keys!Next /\ UNCHANGED <<vars, SessVars, RateVars, AccessVars, WatchVars>>
     \/ part = "access" /\ Control!Next /\ UNCHANGED <<now, vars, SessVars, RateVars, KeysVars, WatchVars>>
     \/ part = "watch" /\ Watch!Next /\ UNCHANGED <<now, vars, SessVars, RateVars, KeysVars, AccessVars>>

AuthSpec == AuthInit /\ [][AuthNext]_<<part, now, vars, SessVars, RateVars, KeysVars, AccessVars, WatchVars>>

\* The rate_limit_config of new keys, and the changes of it that administrators make.
MCNewConfigs == {[minute |-> 1, hour |-> 2, day |-> 3]}
MCConfigChanges == {<<>>, [minute |-> 2], [minute |-> 0], [hour |-> 1, day |-> 1]}

\* The constraint of the run: the audit log grows to its bound as long as nobody has logged
\* in, and to three entries afterwards.  Log-ins and the log meet in nothing but the numbers
\* of the keys that users make for themselves.
ShortLogs == tokens = 0 \/ Control!Len(audit) <= 3

---------------------------------------------------------------------------
(* The properties of the parts.                                            *)

\* The type invariants of the parts.
AuthTypeOK ==
  /\ TypeOK
  /\ part = "sessions" => Sess!TypeOK
  /\ part = "limits" => Rate!TypeOK
  /\ part = "keys" => Keys!TypeOK
  /\ part = "access" => Control!TypeOK
  /\ part = "watch" => Watch!TypeOK

\* SessionManager: the three places where a session is entered agree, and nobody has
\* more active sessions than max_sessions_per_user.
SessionsConsistent == Sess!MapsAgree /\ Sess!SessionLimit

\* SessionManager: a session that has ended stays ended.
NoRevival == Sess!NoRevival

\* No stretch of a period sees more requests than the limit of its limiter (RateLimiting), and
\* none of an hour up to a use of a key more than the limit that it has then (ApiKeys).
LimitsHold == Rate!LimitsHold /\ Keys!HourlyLimit

\* Who waits is let in: after as long as the limiter said (RateLimiting), and with a key
\* after an hour's pause, if its limits let in anybody (ApiKeys).
WaitingHelps == Rate!RetryAfterIsEnough /\ Keys!PauseHelps

\* AccessControl: the audit log says of every key what it is now.  SecurityWatch: the
\* watch over failed log-ins misses nobody and accuses nobody wrongly.
LogsTellState ==
  /\ part = "access" => Control!AuditTellsState
  /\ part = "watch" => Watch!WatchExact

=============================================================================
