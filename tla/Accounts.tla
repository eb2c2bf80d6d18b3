------------------------------ MODULE Accounts ------------------------------
(***************************************************************************)
(* Users, logins and tokens: the authentication service, the JWT manager   *)
(* and the tables behind them.  No handler suspends, so each is one step.  *)
(*                                                                         *)
(* A login is entered twice and the two are never compared: a session in   *)
(* the database, which outlives the process, and a refresh token in the    *)
(* memory of the JWT manager.  The routes refresh and log out through the  *)
(* manager alone, the service through the database alone.  A registration  *)
(* and a change of a password are two transactions of the database: an     *)
(* error, or the end of the process, may come in between.                  *)
(*                                                                         *)
(* Whoever refreshes or logs out has the right token; passwords are right. *)
(***************************************************************************)
EXTENDS Naturals, FiniteSets

CONSTANTS
  Users,
  NoPair,
  MaxPairs,     \* bound: token pairs ever issued; they are 1..MaxPairs
  MaxPasswords  \* bound: changes of a password

ASSUME AccountAssumption == MaxPairs \in Nat /\ MaxPasswords \in Nat

VARIABLES
  users,  \* the table of users; unreadable: its roles were stored encoded twice
  pairs,  \* each access token, the refresh token issued with it, and the session
  spared  \* history: pairs whose sessions a change of the password, cut short, did not end

vars == <<users, pairs, spared>>

Ids == 1..MaxPairs

User == [state : {"absent", "active", "inactive"}, unreadable : BOOLEAN, password : 0..MaxPasswords]

Access == {"valid", "blacklisted", "expired"}
Refresh == {"live", "revoked", "forgotten", "expired"}
Session == {"none", "open", "revoked", "expired"}

\* from: the pair whose refresh token this one was exchanged for, or 0; login: the
\* first pair of that chain; password: the one that was current when it was issued.
Pair == [user : Users, from : 0..MaxPairs, login : Ids, access : Access,
         refresh : Refresh, session : Session, password : 0..MaxPasswords]

ASSUME PairAssumption == NoPair \notin Pair

Issued == {i \in Ids : pairs[i] # NoPair}

\* What get_user_by_id gives back.
Readable(u) == users[u].state # "absent" /\ ~users[u].unreadable

\* authenticate_user of the database, with the right password.
Authenticates(u) == Readable(u) /\ users[u].state = "active"

\* create_access_token and create_refresh_token, and create_user_session if there is one.
Issue(table, u, from, session) ==
  LET i == CHOOSE n \in Ids \ Issued : \A m \in Ids \ Issued : n <= m IN
  [table EXCEPT ![i] =
     [user |-> u, from |-> from, login |-> IF from = 0 THEN i ELSE table[from].login, access |-> "valid",
      refresh |-> "live", session |-> session, password |-> users[u].password]]

MayIssue == Issued # Ids

\* register_user: the new user is logged in at once.  What fails after the user was made
\* leaves him there; nobody gets the tokens.
Register(u, done) ==
  /\ users[u].state = "absent"
  /\ users' = [users EXCEPT ![u].state = "active"]
  /\ IF done THEN MayIssue /\ pairs' = Issue(pairs, u, 0, "open") ELSE UNCHANGED pairs
  /\ UNCHANGED spared

\* login_user.
Login(u) ==
  /\ Authenticates(u) /\ MayIssue
  /\ pairs' = Issue(pairs, u, 0, "open")
  /\ UNCHANGED <<users, spared>>

\* Mutant: the new tokens are made and the old one is not revoked.
RefreshKeepsOld(i) ==
  /\ i \in Issued /\ pairs[i].refresh = "live" /\ MayIssue
  /\ pairs' = Issue(pairs, pairs[i].user, i, "none")
  /\ UNCHANGED <<users, spared>>

\* The refresh route: JWTManager.refresh_access_token, whose _get_user_data finds any
\* user, revokes the token and issues new ones, without a session.
RefreshByRoute(i) ==
  /\ i \in Issued /\ pairs[i].refresh = "live" /\ MayIssue
  /\ pairs' = Issue([pairs EXCEPT ![i].refresh = "revoked"], pairs[i].user, i, "none")
  /\ UNCHANGED <<users, spared>>

\* validate_refresh_token: the hash is of the first 72 bytes, which are the same in all
\* the tokens of a user, so that any open session of his will do.
Validates(i) == \E j \in Issued : pairs[j].user = pairs[i].user /\ pairs[j].session = "open"

\* AuthService.refresh_access_token opens another session; the old one stays as it is.
RefreshByService(i) ==
  /\ i \in Issued /\ MayIssue
  /\ Validates(i) /\ Authenticates(pairs[i].user)
  /\ pairs' = Issue(pairs, pairs[i].user, 0, "open")
  /\ UNCHANGED <<users, spared>>

\* The logout route blacklists the access token.
LogoutByRoute(i) ==
  /\ i \in Issued /\ pairs[i].access = "valid"
  /\ pairs' = [pairs EXCEPT ![i].access = "blacklisted"]
  /\ UNCHANGED <<users, spared>>

\* JWTManager.revoke_refresh_token; one that was forgotten or has expired is not found.
RevokeRefresh(i) ==
  /\ i \in Issued /\ pairs[i].refresh = "live"
  /\ pairs' = [pairs EXCEPT ![i].refresh = "revoked"]
  /\ UNCHANGED <<users, spared>>

SessionsOf(u) == {i \in Issued : pairs[i].user = u /\ pairs[i].session \in {"open", "expired"}}

Revoked(S) == [i \in Ids |-> IF i \in S THEN [pairs[i] EXCEPT !.session = "revoked"] ELSE pairs[i]]

\* AuthService.logout_user: one session, or all of the user's.
LogoutByService(u, S) ==
  /\ S # {} /\ S \subseteq SessionsOf(u)
  /\ Cardinality(S) = 1 \/ S = SessionsOf(u)
  /\ pairs' = Revoked(S)
  /\ UNCHANGED <<users, spared>>

\* Mutant: the sessions outlive the password.
ChangePasswordOnly(u, done) ==
  /\ Readable(u)
  /\ users[u].password < MaxPasswords
  /\ users' = [users EXCEPT ![u].password = @ + 1]
  /\ UNCHANGED <<pairs, spared>>

\* change_password: the new password is committed; then, in a transaction of its own, all
\* the sessions of the user are revoked.  What fails in between leaves them open, and
\* the user is told that the change failed.
ChangePassword(u, done) ==
  /\ Readable(u)
  /\ users[u].password < MaxPasswords
  /\ users' = [users EXCEPT ![u].password = @ + 1]
  /\ IF done THEN pairs' = Revoked(SessionsOf(u)) /\ UNCHANGED spared
             ELSE spared' = spared \cup SessionsOf(u) /\ UNCHANGED pairs

\* update_user_profile, of is_active or of the roles: the repository encodes these, and
\* the database encodes them again, after which the user cannot be read back.
UpdateProfile(u, state, roles) ==
  /\ Readable(u)
  /\ users' = [users EXCEPT ![u] = [@ EXCEPT !.state = state, !.unreadable = roles]]
  /\ UNCHANGED <<pairs, spared>>

\* UserRepository.delete_user deactivates.
DeleteUser(u) ==
  /\ Readable(u)
  /\ users' = [users EXCEPT ![u].state = "inactive"]
  /\ UNCHANGED <<pairs, spared>>

\* Access tokens live 30 minutes, refresh tokens 7 days, sessions 30 days.
Expire(i) ==
  /\ i \in Issued
  /\ pairs' = [pairs EXCEPT ![i] =
       IF @.access # "expired" THEN [@ EXCEPT !.access = "expired"]
       ELSE IF @.refresh # "expired" THEN [@ EXCEPT !.refresh = "expired"]
       ELSE [@ EXCEPT !.session = IF pairs[i].session = "open" THEN "expired" ELSE pairs[i].session]]
  /\ UNCHANGED <<users, spared>>

\* cleanup_expired_sessions.
CleanupSessions ==
  /\ pairs' = [i \in Ids |-> IF i \in Issued /\ pairs[i].session = "expired"
                               THEN [pairs[i] EXCEPT !.session = "none"] ELSE pairs[i]]
  /\ UNCHANGED <<users, spared>>

\* A new process has no blacklist and knows no refresh token.
Restart ==
  /\ pairs' = [i \in Ids |-> IF i \in Issued
       THEN [pairs[i] EXCEPT !.access = IF @ = "blacklisted" THEN "valid" ELSE @,
                             !.refresh = IF @ = "expired" THEN @ ELSE "forgotten"]
       ELSE NoPair]
  /\ UNCHANGED <<users, spared>>

Init ==
  /\ users = [u \in Users |-> [state |-> "absent", unreadable |-> FALSE, password |-> 0]]
  /\ pairs = [i \in Ids |-> NoPair]
  /\ spared = {}

Next ==
  \/ \E u \in Users :
       \/ Login(u) \/ DeleteUser(u)
       \/ \E done \in BOOLEAN : Register(u, done) \/ ChangePassword(u, done)
       \/ \E S \in SUBSET Ids : LogoutByService(u, S)
       \/ \E state \in {"active", "inactive"}, roles \in BOOLEAN : UpdateProfile(u, state, roles)
  \/ \E i \in Ids :
       RefreshByRoute(i) \/ RefreshByService(i) \/ LogoutByRoute(i) \/ RevokeRefresh(i) \/ Expire(i)
  \/ CleanupSessions
  \/ Restart

Spec == Init /\ [][Next]_vars

---------------------------------------------------------------------------
(* Properties.                                                             *)

TypeOK ==
  /\ users \in [Users -> User]
  /\ pairs \in [Ids -> Pair \cup {NoPair}]
  /\ spared \subseteq Ids

\* "Implements refresh token rotation": of the refresh tokens that came of a login by
\* way of the routes at most one can still be used, and none was exchanged twice,
\* whatever the service, logouts and restarts do.  (A refresh by the service counts as a
\* login of its own: it leaves the old token usable.)
OneLiveTokenPerLogin ==
  /\ \A i, j \in Issued :
       pairs[i].login = pairs[j].login /\ pairs[i].refresh = "live" /\ pairs[j].refresh = "live" => i = j
  /\ \A i, j \in Issued : pairs[i].from = pairs[j].from /\ pairs[i].from # 0 => i = j

\* "Revoke all user sessions to force re-login": an open session was opened with the
\* password that its user has now, also by way of a refresh, unless it was open when a
\* change of the password was cut short before it ended the sessions.
SessionsFollowPassword ==
  \A i \in Issued \ spared :
    pairs[i].session = "open" => pairs[i].password = users[pairs[i].user].password

\* "Adds the current access token to blacklist and revokes associated refresh tokens":
\* a login whose user has logged out is not refreshed.
LogoutEndsLogin ==
  [][\A i \in Ids \ Issued : i \in Issued' /\ pairs'[i].from # 0
       => pairs[pairs'[i].from].access # "blacklisted"]_vars

=============================================================================
