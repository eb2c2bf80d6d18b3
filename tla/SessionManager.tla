--------------------------- MODULE SessionManager ---------------------------
(***************************************************************************)
(* The in-memory session manager.  None of its coroutines suspends, so     *)
(* every operation is one step.  A session is entered in three places: the *)
(* table of sessions, which never forgets one, the list of its user's      *)
(* sessions, and the map from refresh tokens.  A refresh token belongs to  *)
(* one session, so the map is the set of the sessions it finds.            *)
(***************************************************************************)
EXTENDS Naturals, FiniteSets

CONSTANTS
  Users,
  NoSession,
  MaxIds,         \* bound: sessions ever created; they are 1..MaxIds
  MaxPerUser,     \* max_sessions_per_user
  SessionTimeout, \* session_timeout_minutes
  MaxIdle,        \* max_idle_time_minutes
  ExtendBelow,    \* the five minutes before its end in which a session is extended
  Threshold,      \* suspicious_activity_threshold
  MaxTime         \* bound: the clock

VARIABLES
  now,           \* the clock
  sessions,      \* _sessions
  userSessions,  \* _user_sessions
  byToken        \* _refresh_token_sessions

vars == <<now, sessions, userSessions, byToken>>

Ids == 1..MaxIds

Status == {"ACTIVE", "EXPIRED", "REVOKED"}

Session == [user : Users, status : Status, last : 0..MaxTime,
            expires : 0..(MaxTime + SessionTimeout), token : BOOLEAN, suspicious : Nat]

SessionAssumption ==
  /\ MaxIds \in Nat /\ MaxTime \in Nat
  /\ MaxPerUser \in Nat \ {0} /\ Threshold \in Nat \ {0}
  /\ SessionTimeout \in Nat /\ MaxIdle \in Nat /\ ExtendBelow \in Nat
  /\ NoSession \notin Session

Known == {i \in Ids : sessions[i] # NoSession}
Active == {i \in Known : sessions[i].status = "ACTIVE"}

\* Past its end, or idle for too long.
Stale(i) == sessions[i].expires < now \/ now - sessions[i].last > MaxIdle

Mark(table, S, status) == [i \in Ids |-> IF i \in S THEN [table[i] EXCEPT !.status = status] ELSE table[i]]

\* The sessions S leave the lists of their users and the map from tokens.
Unlist(S) ==
  /\ userSessions' = [u \in Users |-> userSessions[u] \ S]
  /\ byToken' = byToken \ S

\* get_session, and what calls it: one that is found stale is expired.
GetSession(i) ==
  /\ i \in Active /\ Stale(i)
  /\ sessions' = Mark(sessions, {i}, "EXPIRED")
  /\ Unlist({i})
  /\ UNCHANGED now

\* get_user_sessions: what is left of the user's list, and what is dropped from it.
Valid(u) == {i \in userSessions[u] : i \in Active /\ ~Stale(i)}
Dropped(u) == userSessions[u] \ Valid(u)

GetUserSessions(u) ==
  /\ Dropped(u) # {}
  /\ sessions' = Mark(sessions, Dropped(u) \cap Active, "EXPIRED")
  /\ Unlist(Dropped(u))
  /\ UNCHANGED now

\* Mutant: one session too many is let in.
EvictedLate(u) ==
  {i \in Valid(u) :
    /\ Cardinality(Valid(u)) > MaxPerUser
    /\ \A j \in Valid(u) \ {i} :
         sessions[i].last < sessions[j].last \/ (sessions[i].last = sessions[j].last /\ i < j)}

\* _check_session_limits: at the limit, the least recently used session gives way.
Evicted(u) ==
  {i \in Valid(u) :
    /\ Cardinality(Valid(u)) >= MaxPerUser
    /\ \A j \in Valid(u) \ {i} :
         sessions[i].last < sessions[j].last \/ (sessions[i].last = sessions[j].last /\ i < j)}

\* create_session, with or without a refresh token.
CreateSession(u, token) ==
  \E i \in Ids \ Known :
    /\ \A j \in Ids \ Known : i <= j
    /\ LET checked == Mark(Mark(sessions, Dropped(u) \cap Active, "EXPIRED"), Evicted(u), "REVOKED")
           gone == Dropped(u) \cup Evicted(u)
       IN /\ sessions' = [checked EXCEPT ![i] =
               [user |-> u, status |-> "ACTIVE", last |-> now, expires |-> now + SessionTimeout,
                token |-> token, suspicious |-> 0]]
          /\ userSessions' = [userSessions EXCEPT ![u] = (@ \ gone) \cup {i}]
          /\ byToken' = (byToken \ gone) \cup (IF token THEN {i} ELSE {})
    /\ UNCHANGED now

\* Mutant: a suspicious session is marked, and stays listed.
TouchKeepsListed(i, changes) ==
  /\ i \in Active /\ ~Stale(i)
  /\ sessions' = [sessions EXCEPT ![i].last = now, ![i].suspicious = @ + changes,
       ![i].status = IF sessions[i].suspicious + changes >= Threshold THEN "REVOKED" ELSE @]
  /\ UNCHANGED <<now, userSessions, byToken>>

\* update_session_activity, from a client whose address and agent differ from the
\* session's in so many respects; each is flagged, and too many flags revoke it.
Touch(i, changes) ==
  /\ i \in Active /\ ~Stale(i)
  /\ LET count == sessions[i].suspicious + changes
         flagged == changes > 0 /\ count >= Threshold
         expires == IF sessions[i].expires - now < ExtendBelow THEN now + SessionTimeout ELSE sessions[i].expires
         touched == [sessions EXCEPT ![i] = [@ EXCEPT !.last = now, !.expires = expires, !.suspicious = count]]
     IN /\ sessions' = IF flagged THEN Mark(touched, {i}, "REVOKED") ELSE touched
        /\ Unlist(IF flagged THEN {i} ELSE {})
  /\ UNCHANGED now

\* revoke_session, of any session the table has.
Revoke(i) ==
  /\ i \in Known
  /\ sessions' = Mark(sessions, {i}, "REVOKED")
  /\ Unlist({i})
  /\ UNCHANGED now

\* revoke_user_sessions, all or all but one.
RevokeUserSessions(u, except) ==
  /\ sessions' = Mark(sessions, userSessions[u] \ except, "REVOKED")
  /\ Unlist(userSessions[u] \ except)
  /\ UNCHANGED now

\* Mutant: the clean-up puts the sessions it finds in order back in use.
CleanupRevives ==
  /\ sessions' = [i \in Ids |->
       IF i \in Known THEN [sessions[i] EXCEPT !.status = IF Stale(i) THEN "EXPIRED" ELSE "ACTIVE"]
       ELSE NoSession]
  /\ Unlist({i \in Known : Stale(i)})
  /\ UNCHANGED now

\* cleanup_expired_sessions; a revoked session counts as expired afterwards.
CleanupExpiredSessions ==
  LET expired == {i \in Known : Stale(i) \/ i \notin Active} IN
  /\ sessions' = Mark(sessions, expired, "EXPIRED")
  /\ Unlist(expired)
  /\ UNCHANGED now

Tick ==
  /\ now < MaxTime
  /\ now' = now + 1
  /\ UNCHANGED <<sessions, userSessions, byToken>>

Init ==
  /\ now = 0
  /\ sessions = [i \in Ids |-> NoSession]
  /\ userSessions = [u \in Users |-> {}]
  /\ byToken = {}

Next ==
  \/ \E i \in Ids : GetSession(i) \/ Revoke(i) \/ \E changes \in 0..2 : Touch(i, changes)
  \/ \E u \in Users :
       \/ GetUserSessions(u)
       \/ \E token \in BOOLEAN : CreateSession(u, token)
       \/ \E except \in {{}} \cup {{i} : i \in Ids} : RevokeUserSessions(u, except)
  \/ CleanupExpiredSessions
  \/ Tick

Spec == Init /\ [][Next]_vars

---------------------------------------------------------------------------
(* Properties.                                                             *)

TypeOK ==
  /\ now \in 0..MaxTime
  /\ sessions \in [Ids -> Session \cup {NoSession}]
  /\ userSessions \in [Users -> SUBSET Ids]
  /\ byToken \subseteq Ids

\* The three places agree: a user's list has exactly his active sessions and the map
\* finds exactly the active ones that have a token, whatever ended the others.
MapsAgree ==
  /\ \A u \in Users : userSessions[u] = {i \in Active : sessions[i].user = u}
  /\ byToken = {i \in Active : sessions[i].token}

\* A user never has more active sessions than the limit, those that are stale and that
\* nobody has looked at included.
SessionLimit == \A u \in Users : Cardinality({i \in Active : sessions[i].user = u}) <= MaxPerUser

\* A session that was revoked or has expired is never used again.
NoRevival == [][\A i \in Known \ Active : i \notin Active']_vars

=============================================================================
