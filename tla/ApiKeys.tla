------------------------------ MODULE ApiKeys ------------------------------
(***************************************************************************)
(* A manager of API keys, with the administrator's operations, and the     *)
(* authenticator that uses it.  Nothing suspends, so each is one step.     *)
(*                                                                         *)
(* The program has several managers: the routes of a user get a new one    *)
(* with every request, the administrator's have one of their own, and so   *)
(* has the authenticator.  This module is one manager with all its         *)
(* callers, as the tests use it; a key made through the routes is unknown  *)
(* to the manager that would have to accept it.                            *)
(***************************************************************************)
EXTENDS Integers, Sequences, FiniteSets, Selection

CONSTANTS
  Users, NoKey, Never,
  MaxKeys,           \* bound: keys ever created; they are 1..MaxKeys
  Quota,             \* active keys a user may have
  NewConfigs,        \* the rate_limit_config of a request for a key
  ConfigChanges,     \* that of an update: any of its fields, with any numbers
  Unset,             \* a field of an update that is not given
  Minute, Hour, Day, \* in ticks
  MaxAttempts,       \* bound: uses of a key in an hour
  MaxTime            \* bound: the clock

Fields == {"minute", "hour", "day"}

KeyAssumption ==
  /\ MaxKeys \in Nat /\ Quota \in Nat /\ MaxAttempts \in Nat /\ MaxTime \in Nat
  /\ NewConfigs \subseteq [Fields -> Nat \ {0}]  \* Field(ge=1)
  /\ \A c \in ConfigChanges : DOMAIN c \subseteq Fields /\ \A f \in DOMAIN c : c[f] \in Int
  /\ Minute \in Nat \ {0} /\ Hour \in Nat /\ Day \in Nat /\ Minute < Hour /\ Hour < Day
  /\ Never \notin Nat /\ Unset \notin BOOLEAN /\ Unset \notin Nat

VARIABLES
  now,
  keys,     \* api_keys
  calls,    \* usage_tracking
  accepted, \* history: per key, when a use of it was accepted
  allowed   \* history: the limit for a minute that it had then

vars == <<now, keys, calls, accepted, allowed>>

Ids == 1..MaxKeys

Key == [user : Users, active : BOOLEAN, expires : Nat \cup {Never}, config : [Fields -> Int],
        minute : Nat, hour : Nat, day : Nat, resetMinute : Nat, resetHour : Nat, resetDay : Nat]

Known == {i \in Ids : keys[i] # NoKey}

Expired(i) == keys[i].expires # Never /\ keys[i].expires < now

\* The quota counts active keys, expired ones among them.
ActiveOf(u) == {i \in Known : keys[i].user = u /\ keys[i].active}

MayCreate(u) == Cardinality(ActiveOf(u)) < Quota

\* create_api_key, also on behalf of an administrator.
CreateApiKey(u, expires, config) ==
  /\ MayCreate(u)
  /\ \E i \in Ids \ Known :
       /\ \A j \in Ids \ Known : i <= j
       /\ keys' = [keys EXCEPT ![i] =
            [user |-> u, active |-> TRUE, expires |-> expires, config |-> config,
             minute |-> 0, hour |-> 0, day |-> 0,
             resetMinute |-> now, resetHour |-> now, resetDay |-> now]]
  /\ UNCHANGED <<now, calls, accepted, allowed>>

\* Mutant: what is older than an hour is not told from the rest.
RecentOfMinute(i) == Selected(calls[i], {n \in DOMAIN calls[i] : calls[i][n] + Minute > now})

\* The uses of the last hour.
Recent(i) == Selected(calls[i], {n \in DOMAIN calls[i] : calls[i][n] + Hour > now})

\* _check_rate_limit: an attempt counts whether or not it is let through.  (The limit
\* for a minute is taken for that of an hour.)
WithinRate(i) == Len(Recent(i)) < keys[i].config.minute

\* Mutant: the counter of a minute is not started again.
AfterResetButMinute(k) ==
  [k EXCEPT !.hour = IF (now - k.resetHour) % Day >= Hour THEN 0 ELSE @,
            !.resetHour = IF (now - k.resetHour) % Day >= Hour THEN now ELSE @,
            !.day = IF now - k.resetDay >= Day THEN 0 ELSE @]

\* The counters of validate_rate_limit start again; `.seconds' is what is left of a
\* time difference without its whole days.
AfterReset(k) ==
  LET minuteOver == (now - k.resetMinute) % Day >= Minute
      hourOver == (now - k.resetHour) % Day >= Hour
      dayOver == now - k.resetDay >= Day
  IN [k EXCEPT !.minute = IF minuteOver THEN 0 ELSE @, !.resetMinute = IF minuteOver THEN now ELSE @,
               !.hour = IF hourOver THEN 0 ELSE @, !.resetHour = IF hourOver THEN now ELSE @,
               !.day = IF dayOver THEN 0 ELSE @, !.resetDay = IF dayOver THEN now ELSE @]

WithinCounters(k) == k.minute < k.config.minute /\ k.hour < k.config.hour /\ k.day < k.config.day

Counted(k) == [k EXCEPT !.minute = @ + 1, !.hour = @ + 1, !.day = @ + 1]

Usable(i) == i \in Known /\ keys[i].active /\ ~Expired(i)

Accepts(i) == WithinRate(i) /\ WithinCounters(AfterReset(keys[i]))

\* authenticate_api_key: validate_api_key and then validate_rate_limit.
Authenticate(i) ==
  /\ Usable(i)
  /\ Len(calls[i]) < MaxAttempts
  /\ calls' = [calls EXCEPT ![i] = Append(Recent(i), now)]
  /\ keys' = [keys EXCEPT ![i] =
       IF ~WithinRate(i) THEN @
       ELSE IF Accepts(i) THEN Counted(AfterReset(@)) ELSE AfterReset(@)]
  /\ accepted' = [accepted EXCEPT ![i] = IF Accepts(i) THEN Append(@, now) ELSE @]
  /\ allowed' = [allowed EXCEPT ![i] = IF Accepts(i) THEN Append(@, keys[i].config.minute) ELSE @]
  /\ UNCHANGED now

\* revoke_api_key, by its owner or by somebody who manages users; revoke_key_admin.
Revoke(i, u, admin) ==
  /\ i \in Known
  /\ admin \/ keys[i].user = u
  /\ keys' = [keys EXCEPT ![i].active = FALSE]
  /\ UNCHANGED <<now, calls, accepted, allowed>>

Statuses == {"active", "expired", "revoked", "any"}

\* _apply_filters.
Matching(status) ==
  CASE status = "active" -> {i \in Known : keys[i].active /\ ~(keys[i].expires # Never /\ keys[i].expires <= now)}
    [] status = "expired" -> {i \in Known : keys[i].expires # Never /\ keys[i].expires <= now}
    [] status = "revoked" -> {i \in Known : ~keys[i].active}
    [] OTHER -> Known

\* _apply_key_updates: is_active, expires_at and rate_limit_config, each if it is given.
\* The fields of the last are set one by one, and nothing checks their values.
Updated(k, active, expires, change) ==
  [k EXCEPT !.active = IF active = Unset THEN @ ELSE active,
            !.expires = IF expires = Unset THEN @ ELSE expires,
            !.config = [f \in Fields |-> IF f \in DOMAIN change THEN change[f] ELSE @[f]]]

\* update_key_admin, alone or in a batch.
Update(S, active, expires, change) ==
  /\ S # {}
  /\ keys' = [i \in Ids |-> IF i \in S THEN Updated(keys[i], active, expires, change) ELSE keys[i]]
  /\ UNCHANGED <<now, calls, accepted, allowed>>

\* A batch that revokes, or "rotates", which revokes as well.
BatchRevoke(status) ==
  /\ keys' = [i \in Ids |-> IF i \in Matching(status) THEN [keys[i] EXCEPT !.active = FALSE] ELSE keys[i]]
  /\ UNCHANGED <<now, calls, accepted, allowed>>

Tick ==
  /\ now < MaxTime
  /\ now' = now + 1
  /\ UNCHANGED <<keys, calls, accepted, allowed>>

Init ==
  /\ now = 0
  /\ keys = [i \in Ids |-> NoKey]
  /\ calls = [i \in Ids |-> <<>>]
  /\ accepted = [i \in Ids |-> <<>>]
  /\ allowed = [i \in Ids |-> <<>>]

Expiries == {Never, now + Day}

Next ==
  \/ \E u \in Users, expires \in Expiries, config \in NewConfigs : CreateApiKey(u, expires, config)
  \/ \E i \in Ids : Authenticate(i) \/ \E u \in Users, admin \in BOOLEAN : Revoke(i, u, admin)
  \/ \E active \in BOOLEAN \cup {Unset}, expires \in {Unset, now + Day}, change \in ConfigChanges :
       \/ \E i \in Known : Update({i}, active, expires, change)
       \/ \E status \in Statuses : Update(Matching(status), active, expires, change)
  \/ \E status \in Statuses : BatchRevoke(status)
  \/ Tick

Spec == Init /\ [][Next]_vars

---------------------------------------------------------------------------
(* Properties.                                                             *)

TypeOK ==
  /\ now \in 0..MaxTime
  /\ keys \in [Ids -> Key \cup {NoKey}]
  /\ calls \in [Ids -> Seq(0..MaxTime)]
  /\ accepted \in [Ids -> Seq(0..MaxTime)]
  /\ allowed \in [Ids -> Seq(Int)]

\* However its uses, the refused ones, the resets of its counters and the changes of its
\* limits fall: a key is accepted only if the uses accepted within the hour up to then,
\* this one among them, are as few as the limit for a minute that it has then.
HourlyLimit ==
  \A i \in Ids : \A n \in DOMAIN accepted[i] :
    Cardinality({m \in 1..n : accepted[i][m] + Hour > accepted[i][n]}) <= allowed[i][n]

\* A client that stays away for an hour is let in again, with limits that let in anybody
\* and a day that is not used up.  What may still hold it off is a counter that was last
\* reset some days ago, and a bit more: in the first minute, or hour, of each such day
\* the code takes it for a new one.
PauseHelps ==
  \A i \in Known : LET k == keys[i] IN
    /\ \A n \in DOMAIN calls[i] : calls[i][n] + Hour <= now
    /\ now - k.resetMinute >= Day => (now - k.resetMinute) % Day >= Minute
    /\ now - k.resetHour >= Day => (now - k.resetHour) % Day >= Hour
    /\ k.config.minute > 0 /\ k.config.hour > 0 /\ AfterReset(k).day < k.config.day
    => Accepts(i)

=============================================================================
