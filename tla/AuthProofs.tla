----------------------------- MODULE AuthProofs -----------------------------
(***************************************************************************)
(* Logins, sessions, tokens and the audit log for any number of users,     *)
(* logins, changes of a password and API keys; then rate limiters, limits  *)
(* of API keys and the watch over failed log-ins, for any limits, periods  *)
(* and times; and what all parts have in common, their types and logs.  It *)
(* is proved of the specification that the model checker runs: its steps   *)
(* that are not steps of one part leave the state of that part alone.      *)
(***************************************************************************)
EXTENDS MCAuth, SelectionProofs

\* The pairs issued are the first k.
FirstIssued == \E k \in 0..MaxPairs : Issued = 1..k

\* What a pair was exchanged for was issued, belongs to the same login, and is used up.
Chained ==
  \A i \in Issued :
    /\ pairs[i].login \in Issued
    /\ pairs[i].from # 0 => /\ pairs[i].from \in Issued
                            /\ pairs[i].login = pairs[pairs[i].from].login
                            /\ pairs[pairs[i].from].refresh # "live"

IndInv ==
  /\ TypeOK
  /\ FirstIssued /\ Chained /\ OneLiveTokenPerLogin /\ SessionsFollowPassword

---------------------------------------------------------------------------
(* Issuing a pair.                                                         *)

\* The next pair is the one after those that were issued.
LEMMA NextPair ==
  ASSUME FirstIssued, MayIssue
  PROVE  \E n \in Ids : /\ n \notin Issued
                        /\ n = CHOOSE m \in Ids \ Issued : \A l \in Ids \ Issued : m <= l
                        /\ \E k \in 0..MaxPairs : Issued \cup {n} = 1..k
  <1> DEFINE Least(m) == \A l \in Ids \ Issued : m <= l
             n == CHOOSE m \in Ids \ Issued : Least(m)
  <1>1. PICK k \in 0..MaxPairs : Issued = 1..k
    BY DEF FirstIssued
  <1>2. k + 1 \in 1..MaxPairs /\ k + 1 \in Ids \ Issued
    BY <1>1, AccountAssumption DEF MayIssue, Ids
  <1>3. Least(k + 1)
    BY <1>1, <1>2, AccountAssumption DEF Ids
  <1>4. \A m \in Ids \ Issued : Least(m) => m = k + 1
    BY <1>2, <1>3 DEF Ids
  <1> HIDE DEF Least
  <1>5. n \in Ids \ Issued /\ Least(n)
    BY <1>2, <1>3
  <1>6. n = k + 1
    BY <1>4, <1>5
  <1>7. Issued \cup {k + 1} = 1..k + 1 /\ k + 1 \in 0..MaxPairs
    BY <1>1, <1>2, AccountAssumption
  <1>8. \E l \in 0..MaxPairs : Issued \cup {k + 1} = 1..l
    BY <1>7, Zenon
  <1>9. QED
    BY <1>5, <1>6, <1>8, Zenon DEF Least

\* What issuing n does: t becomes f.
Adds(f, t, u, from, session, n) ==
  /\ n \in Ids \ Issued /\ \E k \in 0..MaxPairs : Issued \cup {n} = 1..k
  /\ f \in [Ids -> Pair \cup {NoPair}] /\ f[n] \in Pair
  /\ \A i \in Ids \ {n} : f[i] = t[i]
  /\ f[n].user = u /\ f[n].from = from /\ f[n].session = session
  /\ f[n].password = users[u].password
  /\ from = 0 => f[n].login = n
  /\ from # 0 => f[n].login = t[from].login

\* Issue adds the next pair, and changes no other.
LEMMA IssuesOne ==
  ASSUME FirstIssued, MayIssue, NEW table \in [Ids -> Pair \cup {NoPair}],
         NEW u \in Users, users[u].password \in 0..MaxPasswords,
         NEW from \in 0..MaxPairs, from # 0 => table[from] \in Pair,
         NEW session \in Session
  PROVE  \E n \in Ids : Adds(Issue(table, u, from, session), table, u, from, session, n)
  <1>1. PICK n \in Ids : /\ n \notin Issued
                         /\ n = CHOOSE m \in Ids \ Issued : \A l \in Ids \ Issued : m <= l
                         /\ \E k \in 0..MaxPairs : Issued \cup {n} = 1..k
    BY NextPair, Zenon
  <1> DEFINE p == [user |-> u, from |-> from, login |-> IF from = 0 THEN n ELSE table[from].login,
                   access |-> "valid", refresh |-> "live", session |-> session,
                   password |-> users[u].password]
             f == [table EXCEPT ![n] = p]
  <1>2. Issue(table, u, from, session) = f
    BY <1>1, Zenon DEF Issue
  <1>3. /\ p \in Pair
        /\ p.from = from /\ p.session = session /\ p.user = u /\ p.password = users[u].password
        /\ from = 0 => p.login = n
        /\ from # 0 => p.login = table[from].login
    BY DEF Pair, Access, Refresh
  <1>4. /\ f \in [Ids -> Pair \cup {NoPair}] /\ f[n] = p
        /\ \A i \in Ids \ {n} : f[i] = table[i]
    <2> HIDE DEF p
    <2>1. QED
      BY <1>3
  <1> HIDE DEF f, p
  <1>5. QED
    BY <1>1, <1>2, <1>3, <1>4, Zenon DEF Adds

---------------------------------------------------------------------------
(* Each kind of step keeps the invariant.                                  *)

\* What is issued is a pair, and nothing else is.
LEMMA IssuedPairs == TypeOK => Issued = {i \in Ids : pairs[i] \in Pair}
  BY PairAssumption DEF TypeOK, Issued

\* The same of the next state.
LEMMA IssuedPairsNext == TypeOK' => Issued' = {i \in Ids : pairs'[i] \in Pair}
  BY PairAssumption DEF TypeOK, Issued

\* A step that issues n: at a login, or in exchange for a refresh token that it revokes.
LEMMA IssuingKeeps ==
  ASSUME IndInv, TypeOK', NEW n \in Ids, n \notin Issued,
         \E k \in 0..MaxPairs : Issued \cup {n} = 1..k,
         pairs'[n] \in Pair,
         \A i \in Issued :
           /\ pairs'[i] \in Pair
           /\ pairs'[i].user = pairs[i].user /\ pairs'[i].from = pairs[i].from
           /\ pairs'[i].login = pairs[i].login /\ pairs'[i].session = pairs[i].session
           /\ pairs'[i].password = pairs[i].password
           /\ pairs'[i].refresh = "live" => pairs[i].refresh = "live",
         \A i \in Ids \ Issued : i # n => pairs'[i] = NoPair,
         \A u \in Users : users'[u].password = users[u].password, spared' = spared,
         \/ pairs'[n].from = 0 /\ pairs'[n].login = n
         \/ /\ pairs'[n].from \in Issued
            /\ pairs'[n].login = pairs[pairs'[n].from].login
            /\ pairs[pairs'[n].from].refresh = "live"
            /\ pairs'[pairs'[n].from].refresh # "live",
         \/ pairs'[n].session # "open"
         \/ pairs'[n].password = users[pairs'[n].user].password
  PROVE  IndInv'
  <1>1. /\ Issued' = Issued \cup {n} /\ 0 \notin Issued /\ n # 0
        /\ \A i \in Issued : pairs[i] \in Pair /\ i # n /\ i \in Ids
    BY IssuedPairs, IssuedPairsNext, PairAssumption DEF IndInv, Ids, Issued
  <1>2. FirstIssued'
    BY <1>1 DEF FirstIssued
  <1>3. /\ Chained /\ OneLiveTokenPerLogin /\ SessionsFollowPassword
    BY DEF IndInv
  <1>4. Chained'
    <2>1. ASSUME NEW i \in Issued
          PROVE  /\ pairs'[i].login \in Issued'
                 /\ pairs'[i].from # 0 =>
                      /\ pairs'[i].from \in Issued'
                      /\ pairs'[i].login = pairs'[pairs'[i].from].login
                      /\ pairs'[pairs'[i].from].refresh # "live"
      BY <1>1, <1>3 DEF Chained
    <2>2. /\ pairs'[n].login \in Issued'
          /\ pairs'[n].from # 0 =>
               /\ pairs'[n].from \in Issued'
               /\ pairs'[n].login = pairs'[pairs'[n].from].login
               /\ pairs'[pairs'[n].from].refresh # "live"
      BY <1>1, <1>3 DEF Chained
    <2>3. QED
      BY <1>1, <2>1, <2>2 DEF Chained
  <1>5. OneLiveTokenPerLogin'
    <2>1. ASSUME NEW i \in Issued, NEW j \in Issued
          PROVE  /\ pairs'[i].login = pairs'[j].login /\ pairs'[i].refresh = "live"
                      /\ pairs'[j].refresh = "live" => i = j
                 /\ pairs'[i].from = pairs'[j].from /\ pairs'[i].from # 0 => i = j
      BY <1>3 DEF OneLiveTokenPerLogin
    <2>2. ASSUME NEW i \in Issued
          PROVE  /\ ~(pairs'[i].login = pairs'[n].login /\ pairs'[i].refresh = "live")
                 /\ ~(pairs'[i].from = pairs'[n].from /\ pairs'[i].from # 0)
      <3>1. CASE pairs'[n].from = 0 /\ pairs'[n].login = n
        BY <1>1, <1>3, <3>1 DEF Chained
      <3>2. CASE /\ pairs'[n].from \in Issued
                 /\ pairs'[n].login = pairs[pairs'[n].from].login
                 /\ pairs[pairs'[n].from].refresh = "live"
                 /\ pairs'[pairs'[n].from].refresh # "live"
        BY <1>1, <1>3, <3>2 DEF Chained, OneLiveTokenPerLogin
      <3>3. QED
        BY <3>1, <3>2
    <2>3. QED
      BY <1>1, <2>1, <2>2 DEF OneLiveTokenPerLogin
  <1>6. SessionsFollowPassword'
    <2>1. \A i \in Issued' : pairs'[i].user \in Users
      BY <1>1 DEF Pair
    <2>2. QED
      BY <1>1, <1>3, <2>1 DEF SessionsFollowPassword
  <1>7. QED
    BY <1>2, <1>4, <1>5, <1>6 DEF IndInv

\* A step that issues nothing: no token comes back to life and no session is opened
\* again, and no session of a user whose password changes is left open, but a spared one.
LEMMA EndingKeeps ==
  ASSUME IndInv, TypeOK', spared \subseteq spared',
         \A i \in Issued :
           /\ pairs'[i] \in Pair
           /\ pairs'[i].user = pairs[i].user /\ pairs'[i].from = pairs[i].from
           /\ pairs'[i].login = pairs[i].login /\ pairs'[i].password = pairs[i].password
           /\ pairs'[i].refresh = "live" => pairs[i].refresh = "live"
           /\ pairs'[i].session = "open" =>
                /\ pairs[i].session = "open"
                /\ \/ i \in spared'
                   \/ users'[pairs[i].user].password = users[pairs[i].user].password,
         \A i \in Ids \ Issued : pairs'[i] = NoPair
  PROVE  IndInv'
  <1>1. Issued' = Issued
    BY IssuedPairs, IssuedPairsNext, PairAssumption DEF IndInv, Issued
  <1>2. /\ FirstIssued /\ Chained /\ OneLiveTokenPerLogin /\ SessionsFollowPassword
    BY DEF IndInv
  <1>3. FirstIssued'
    BY <1>1, <1>2 DEF FirstIssued
  <1>4. Chained'
    BY <1>1, <1>2 DEF Chained
  <1>5. OneLiveTokenPerLogin'
    BY <1>1, <1>2 DEF OneLiveTokenPerLogin
  <1>6. SessionsFollowPassword'
    BY <1>1, <1>2 DEF SessionsFollowPassword
  <1>7. QED
    BY <1>3, <1>4, <1>5, <1>6 DEF IndInv

\* Register, Login and the two ways to refresh.
LEMMA IssuesKeep ==
  ASSUME IndInv,
         \/ \E u \in Users : Register(u, TRUE) \/ Login(u)
         \/ \E i \in Ids : RefreshByRoute(i) \/ RefreshByService(i)
  PROVE  IndInv'
  <1>0. /\ users \in [Users -> User] /\ pairs \in [Ids -> Pair \cup {NoPair}] /\ spared \subseteq Ids
        /\ FirstIssued /\ Chained /\ Issued = {i \in Ids : pairs[i] \in Pair}
        /\ \A i \in Ids \ Issued : pairs[i] = NoPair
        /\ \A u \in Users : users[u].password \in 0..MaxPasswords
    <2>1. TypeOK /\ FirstIssued /\ Chained
      BY DEF IndInv
    <2>2. Issued = {i \in Ids : pairs[i] \in Pair}
      BY <2>1, IssuedPairs
    <2>3. users \in [Users -> User] /\ pairs \in [Ids -> Pair \cup {NoPair}] /\ spared \subseteq Ids
      BY <2>1 DEF TypeOK
    <2>4. \A i \in Ids \ Issued : pairs[i] = NoPair
      BY <2>2, <2>3
    <2>5. \A u \in Users : users[u].password \in 0..MaxPasswords
      BY <2>3 DEF User
    <2>6. QED
      BY <2>1, <2>2, <2>3, <2>4, <2>5
  <1>1. ASSUME NEW u \in Users, MayIssue,
               pairs' = Issue(pairs, u, 0, "open"), spared' = spared,
               users' \in [Users -> User],
               \A v \in Users : users'[v].password = users[v].password
        PROVE  IndInv'
    <2>1. PICK n \in Ids : Adds(pairs', pairs, u, 0, "open", n)
      <3>1. /\ u \in Users /\ "open" \in Session /\ 0 \in 0..MaxPairs
            /\ pairs' = Issue(pairs, u, 0, "open") /\ users[u].password \in 0..MaxPasswords
        BY <1>0, <1>1, AccountAssumption DEF Session
      <3>2. QED
        BY <1>0, <1>1, <3>1, IssuesOne

    <2>2. TypeOK'
      BY <1>0, <1>1, <2>1 DEF TypeOK, Adds, Ids
    <2>3. /\ pairs'[n].from = 0 /\ pairs'[n].login = n
          /\ pairs'[n].password = users[pairs'[n].user].password
      BY <2>1 DEF Adds
    <2>4. QED
      BY <1>0, <1>1, <2>1, <2>2, <2>3, IssuingKeeps DEF Adds
  <1>2. ASSUME NEW u \in Users, Register(u, TRUE)
        PROVE  IndInv'
    <2>1. users' \in [Users -> User] /\ \A v \in Users : users'[v].password = users[v].password
      BY <1>0, <1>2 DEF Register, User
    <2>2. QED
      BY <1>1, <1>2, <2>1 DEF Register
  <1>3. ASSUME NEW u \in Users, Login(u)
        PROVE  IndInv'
    BY <1>0, <1>1, <1>3 DEF Login
  <1>4. ASSUME NEW i \in Ids, RefreshByService(i)
        PROVE  IndInv'
    <2>1. pairs[i].user \in Users
      BY <1>0, <1>4, SMTT(30) DEF RefreshByService, Pair
    <2>2. QED
      BY <1>0, <1>1, <1>4, <2>1 DEF RefreshByService
  <1>5. ASSUME NEW i \in Ids, RefreshByRoute(i)
        PROVE  IndInv'
    <2> DEFINE table == [pairs EXCEPT ![i].refresh = "revoked"]
    <2>1. /\ i \in Issued /\ pairs[i].refresh = "live" /\ MayIssue
          /\ users' = users /\ spared' = spared
          /\ pairs' = Issue(table, pairs[i].user, i, "none")
      BY <1>5 DEF RefreshByRoute
    <2>2. /\ table \in [Ids -> Pair \cup {NoPair}] /\ table[i] \in Pair
          /\ table[i].refresh = "revoked" /\ table[i].login = pairs[i].login
          /\ table[i].user = pairs[i].user /\ table[i].from = pairs[i].from
          /\ table[i].session = pairs[i].session /\ table[i].password = pairs[i].password
          /\ \A j \in Ids \ {i} : table[j] = pairs[j]
      <3>1. pairs[i] \in Pair
        BY <1>0, <2>1
      <3>2. [pairs[i] EXCEPT !.refresh = "revoked"] \in Pair
        BY <3>1 DEF Pair, Refresh
      <3>3. table[i] = [pairs[i] EXCEPT !.refresh = "revoked"]
        BY <1>0
      <3>4. QED
        BY <1>0, <3>1, <3>2, <3>3 DEF Pair
    <2> HIDE DEF table
    <2>3. /\ pairs[i].user \in Users /\ i \in 0..MaxPairs /\ i # 0 /\ "none" \in Session
      BY <1>0, <2>1, AccountAssumption DEF Pair, Ids, Session
    <2>4. PICK n \in Ids : Adds(pairs', table, pairs[i].user, i, "none", n)
      <3>1. users[pairs[i].user].password \in 0..MaxPasswords
        BY <1>0, <2>3
      <3>2. QED
        BY <1>0, <2>1, <2>2, <2>3, <3>1, IssuesOne
    <2>5. TypeOK'
      BY <1>0, <2>1, <2>4 DEF TypeOK, Adds, Ids
    <2>6. i # n /\ pairs'[i] = table[i]
      BY <2>1, <2>4 DEF Adds
    <2>7. /\ pairs'[n].from = i /\ pairs'[n].login = pairs[i].login
          /\ pairs'[i].refresh # "live" /\ pairs'[n].session # "open"
      BY <2>2, <2>3, <2>4, <2>6 DEF Adds
    <2>8. \A j \in Issued :
           /\ pairs'[j] \in Pair
           /\ pairs'[j].user = pairs[j].user /\ pairs'[j].from = pairs[j].from
           /\ pairs'[j].login = pairs[j].login /\ pairs'[j].session = pairs[j].session
           /\ pairs'[j].password = pairs[j].password
           /\ pairs'[j].refresh = "live" => pairs[j].refresh = "live"
      BY <1>0, <2>1, <2>2, <2>4, <2>6 DEF Adds
    <2>9. \A j \in Ids \ Issued : j # n => pairs'[j] = NoPair
      BY <1>0, <2>1, <2>2, <2>4 DEF Adds
    <2>10. /\ n \in Ids /\ n \notin Issued /\ \E k \in 0..MaxPairs : Issued \cup {n} = 1..k
           /\ pairs'[n] \in Pair
      BY <2>4, Zenon DEF Adds
    <2>11. /\ pairs'[n].from \in Issued /\ pairs'[n].login = pairs[pairs'[n].from].login
           /\ pairs[pairs'[n].from].refresh = "live" /\ pairs'[pairs'[n].from].refresh # "live"
      BY <2>1, <2>7, Zenon
    <2>12. /\ \A u \in Users : users'[u].password = users[u].password
           /\ spared' = spared
      BY <2>1, Zenon
    <2>13. QED
      BY <2>5, <2>7, <2>8, <2>9, <2>10, <2>11, <2>12, IssuingKeeps, Zenon
  <1>6. QED
    BY <1>2, <1>3, <1>4, <1>5

\* Every other step.  A pair stays of the same user, login and password.
LEMMA OthersKeep ==
  ASSUME IndInv,
         \/ \E u \in Users :
              \/ Register(u, FALSE) \/ DeleteUser(u)
              \/ \E done \in BOOLEAN : ChangePassword(u, done)
              \/ \E S \in SUBSET Ids : LogoutByService(u, S)
              \/ \E state \in {"active", "inactive"}, roles \in BOOLEAN : UpdateProfile(u, state, roles)
         \/ \E i \in Ids : LogoutByRoute(i) \/ RevokeRefresh(i) \/ Expire(i)
         \/ CleanupSessions \/ Restart
         \/ UNCHANGED vars
  PROVE  IndInv'
  <1> DEFINE Ends(p, q) ==
        /\ q \in Pair /\ q.user = p.user /\ q.from = p.from /\ q.login = p.login
        /\ q.password = p.password
        /\ q.refresh = "live" => p.refresh = "live"
        /\ q.session = "open" => p.session = "open"
  <1>0. /\ TypeOK /\ Issued = {i \in Ids : pairs[i] \in Pair} /\ Issued \subseteq Ids
        /\ users \in [Users -> User] /\ pairs \in [Ids -> Pair \cup {NoPair}] /\ spared \subseteq Ids
        /\ \A i \in Ids \ Issued : pairs[i] = NoPair
        /\ \A i \in Issued : pairs[i] \in Pair /\ pairs[i].user \in Users
    BY IssuedPairs DEF IndInv, TypeOK, Issued, Pair
  <1>1. ASSUME NEW i \in Issued, NEW p, Ends(pairs[i], p),
               pairs' = [pairs EXCEPT ![i] = p], users' = users, spared' = spared
        PROVE  IndInv'
    <2>1. /\ pairs' \in [Ids -> Pair \cup {NoPair}] /\ pairs'[i] = p
          /\ \A j \in Ids \ {i} : pairs'[j] = pairs[j]
      BY <1>0, <1>1
    <2>2. TypeOK'
      BY <1>0, <1>1, <2>1 DEF TypeOK
    <2>3. QED
      BY <1>0, <1>1, <2>1, <2>2, EndingKeeps
  <1>2. ASSUME pairs' \in [Ids -> Pair \cup {NoPair}], users' \in [Users -> User],
               spared \subseteq spared', spared' \subseteq Ids,
               \A i \in Issued : Ends(pairs[i], pairs'[i]),
               \A i \in Ids \ Issued : pairs'[i] = NoPair,
               \A i \in Issued : pairs'[i].session = "open" =>
                 i \in spared' \/ users'[pairs[i].user].password = users[pairs[i].user].password
        PROVE  IndInv'
    <2>1. TypeOK'
      BY <1>2 DEF TypeOK
    <2>2. QED
      BY <1>2, <2>1, EndingKeeps
  <1>3. ASSUME NEW i \in Ids, LogoutByRoute(i)
        PROVE  IndInv'
    <2>1. Ends(pairs[i], [pairs[i] EXCEPT !.access = "blacklisted"])
      BY <1>0, <1>3 DEF LogoutByRoute, Pair, Access
    <2>2. QED
      BY <1>1, <1>3, <2>1 DEF LogoutByRoute
  <1>4. ASSUME NEW i \in Ids, RevokeRefresh(i)
        PROVE  IndInv'
    <2>1. Ends(pairs[i], [pairs[i] EXCEPT !.refresh = "revoked"])
      BY <1>0, <1>4 DEF RevokeRefresh, Pair, Refresh
    <2>2. QED
      BY <1>1, <1>4, <2>1 DEF RevokeRefresh
  <1>5. ASSUME NEW i \in Ids, Expire(i)
        PROVE  IndInv'
    <2> DEFINE p == pairs[i]
               q == IF p.access # "expired" THEN [p EXCEPT !.access = "expired"]
                    ELSE IF p.refresh # "expired" THEN [p EXCEPT !.refresh = "expired"]
                    ELSE [p EXCEPT !.session = IF p.session = "open" THEN "expired" ELSE p.session]
    <2>1. p \in Pair /\ i \in Issued
      BY <1>0, <1>5 DEF Expire
    <2>2. pairs' = [pairs EXCEPT ![i] = q] /\ users' = users /\ spared' = spared
      BY <1>5 DEF Expire
    <2>3. Ends(p, q)
      <3> HIDE DEF p
      <3>1. CASE p.access # "expired"
        <4>1. q = [p EXCEPT !.access = "expired"]
          BY <3>1
        <4>2. QED
          BY <2>1, <4>1 DEF Pair, Access
      <3>2. CASE p.access = "expired" /\ p.refresh # "expired"
        <4>1. q = [p EXCEPT !.refresh = "expired"]
          BY <3>2
        <4>2. QED
          BY <2>1, <4>1 DEF Pair, Refresh
      <3>3. CASE p.access = "expired" /\ p.refresh = "expired"
        <4>1. q = [p EXCEPT !.session = IF p.session = "open" THEN "expired" ELSE p.session]
          BY <3>3
        <4>2. QED
          BY <2>1, <4>1 DEF Pair, Session
      <3>4. QED
        BY <3>1, <3>2, <3>3
    <2> HIDE DEF q
    <2>4. QED
      BY <1>1, <2>1, <2>2, <2>3
  <1>6. ASSUME NEW S \in SUBSET Issued
        PROVE  /\ Revoked(S) \in [Ids -> Pair \cup {NoPair}]
               /\ \A i \in Issued : Ends(pairs[i], Revoked(S)[i])
               /\ \A i \in Ids \ Issued : Revoked(S)[i] = NoPair
               /\ \A i \in S : Revoked(S)[i].session # "open"
               /\ \A i \in Issued \ S : Revoked(S)[i] = pairs[i]
    <2>1. \A i \in Issued : /\ Ends(pairs[i], pairs[i])
                            /\ Ends(pairs[i], [pairs[i] EXCEPT !.session = "revoked"])
                            /\ [pairs[i] EXCEPT !.session = "revoked"].session = "revoked"
      BY <1>0 DEF Pair, Session
    <2>2. \A i \in Ids : Revoked(S)[i] = IF i \in S THEN [pairs[i] EXCEPT !.session = "revoked"]
                                                    ELSE pairs[i]
      BY DEF Revoked
    <2>3. \A i \in S : Revoked(S)[i] = [pairs[i] EXCEPT !.session = "revoked"]
      BY <1>0, <2>2
    <2>4. \A i \in Ids \ S : Revoked(S)[i] = pairs[i]
      BY <2>2
    <2>5. \A i \in Ids : Revoked(S)[i] \in Pair \cup {NoPair}
      BY <1>0, <2>1, <2>3, <2>4
    <2>6. Revoked(S) \in [Ids -> Pair \cup {NoPair}]
      BY <2>5 DEF Revoked
    <2>7. \A i \in Issued : Ends(pairs[i], Revoked(S)[i])
      <3> HIDE DEF Ends
      <3>1. QED
        BY <1>0, <2>1, <2>3, <2>4
    <2>8. /\ \A i \in Ids \ Issued : Revoked(S)[i] = NoPair
          /\ \A i \in S : Revoked(S)[i].session # "open"
          /\ \A i \in Issued \ S : Revoked(S)[i] = pairs[i]
      BY <1>0, <2>1, <2>3, <2>4
    <2>9. QED
      BY <2>6, <2>7, <2>8
  <1>7. ASSUME NEW u \in Users, NEW S \in SUBSET Ids, LogoutByService(u, S)
        PROVE  IndInv'
    <2>1. S \in SUBSET Issued /\ pairs' = Revoked(S) /\ users' = users /\ spared' = spared
      BY <1>7 DEF LogoutByService, SessionsOf
    <2>2. QED
      BY <1>0, <1>2, <1>6, <2>1
  <1>8. ASSUME NEW u \in Users, NEW done \in BOOLEAN, ChangePassword(u, done)
        PROVE  IndInv'
    <2>1. /\ SessionsOf(u) \in SUBSET Issued
          /\ \A i \in Issued : pairs[i].user = u /\ pairs[i].session = "open" => i \in SessionsOf(u)
      BY DEF SessionsOf
    <2>2. /\ users' \in [Users -> User]
          /\ \A v \in Users \ {u} : users'[v] = users[v]
      <3>1. [users[u] EXCEPT !.password = users[u].password + 1] \in User
        BY <1>0, <1>8, AccountAssumption DEF ChangePassword, User
      <3>2. users' = [users EXCEPT ![u] = [users[u] EXCEPT !.password = users[u].password + 1]]
        BY <1>8 DEF ChangePassword
      <3>3. QED
        BY <1>0, <3>1, <3>2
    <2>3. CASE done
      <3>1. pairs' = Revoked(SessionsOf(u)) /\ spared' = spared
        BY <1>8, <2>3 DEF ChangePassword
      <3>2. QED
        BY <1>0, <1>2, <1>6, <2>1, <2>2, <3>1
    <2>4. CASE ~done
      <3>1. pairs' = pairs /\ spared' = spared \cup SessionsOf(u)
        BY <1>8, <2>4 DEF ChangePassword
      <3>2. \A i \in Issued : Ends(pairs[i], pairs'[i])
        BY <1>0, <3>1
      <3>3. \A i \in Issued : pairs'[i].session = "open" =>
              i \in spared' \/ users'[pairs[i].user].password = users[pairs[i].user].password
        BY <1>0, <2>1, <2>2, <3>1
      <3>4. spared \subseteq spared' /\ spared' \subseteq Ids
        BY <1>0, <2>1, <3>1
      <3> HIDE DEF Ends
      <3>5. QED
        BY <1>0, <1>2, <2>2, <3>1, <3>2, <3>3, <3>4
    <2>5. QED
      BY <2>3, <2>4
  <1>9. ASSUME NEW u \in Users, NEW x \in User, x.password = users[u].password,
               users' = [users EXCEPT ![u] = x], pairs' = pairs, spared' = spared
        PROVE  IndInv'
    <2>1. /\ users' \in [Users -> User]
          /\ \A v \in Users : users'[v].password = users[v].password
      BY <1>0, <1>9
    <2>2. QED
      BY <1>0, <1>2, <1>9, <2>1
  <1>10. ASSUME NEW u \in Users, DeleteUser(u)
         PROVE  IndInv'
    <2>1. [users[u] EXCEPT !.state = "inactive"] \in User
      BY <1>0 DEF User
    <2>2. [users[u] EXCEPT !.state = "inactive"].password = users[u].password
      BY <1>0 DEF User
    <2>3. /\ users' = [users EXCEPT ![u] = [users[u] EXCEPT !.state = "inactive"]]
          /\ pairs' = pairs /\ spared' = spared
      BY <1>10 DEF DeleteUser
    <2>4. QED
      BY <1>9, <2>1, <2>2, <2>3
  <1>11. ASSUME NEW u \in Users, NEW state \in {"active", "inactive"}, NEW roles \in BOOLEAN,
                UpdateProfile(u, state, roles)
         PROVE  IndInv'
    <2> DEFINE x == [users[u] EXCEPT !.state = state, !.unreadable = roles]
    <2>1. users' = [users EXCEPT ![u] = x] /\ pairs' = pairs /\ spared' = spared
      BY <1>11, Zenon DEF UpdateProfile
    <2>2. x \in User /\ x.password = users[u].password
      BY <1>0, <1>11 DEF User
    <2>3. QED
      BY <1>9, <2>1, <2>2
  <1>12. ASSUME CleanupSessions
         PROVE  IndInv'
    <2>1. \A i \in Issued : Ends(pairs[i], pairs[i]) /\ Ends(pairs[i], [pairs[i] EXCEPT !.session = "none"])
      BY <1>0 DEF Pair, Session
    <2>2. \A i \in Ids : pairs'[i] = IF i \in Issued /\ pairs[i].session = "expired"
                                       THEN [pairs[i] EXCEPT !.session = "none"] ELSE pairs[i]
      BY <1>12 DEF CleanupSessions
    <2>3. \A i \in Issued : Ends(pairs[i], pairs'[i])
      BY <1>0, <2>1, <2>2, ZenonT(40)
    <2>4. \A i \in Ids \ Issued : pairs'[i] = NoPair
      BY <1>0, <2>2
    <2>5. pairs' \in [Ids -> Pair \cup {NoPair}] /\ users' = users /\ spared' = spared
      BY <1>0, <1>12, <2>3, <2>4 DEF CleanupSessions
    <2>6. QED
      BY <1>0, <1>2, <2>3, <2>4, <2>5
  <1>13. ASSUME Restart
         PROVE  IndInv'
    <2> DEFINE Forgotten(p) == [p EXCEPT !.access = IF @ = "blacklisted" THEN "valid" ELSE @,
                                         !.refresh = IF @ = "expired" THEN @ ELSE "forgotten"]
    <2>1. \A i \in Issued : Ends(pairs[i], Forgotten(pairs[i]))
      BY <1>0, ZenonT(90) DEF Pair, Access, Refresh
    <2>2. /\ pairs' = [i \in Ids |-> IF i \in Issued THEN Forgotten(pairs[i]) ELSE NoPair]
          /\ users' = users /\ spared' = spared
      BY <1>13, Zenon DEF Restart
    <2> HIDE DEF Forgotten
    <2>3. /\ \A i \in Issued : pairs'[i] = Forgotten(pairs[i])
          /\ \A i \in Ids \ Issued : pairs'[i] = NoPair
      BY <1>0, <2>2
    <2>4. \A i \in Issued : Ends(pairs[i], pairs'[i])
      <3> HIDE DEF Ends
      <3>1. QED
        BY <2>1, <2>3
    <2>5. \A i \in Ids : pairs'[i] \in Pair \cup {NoPair}
      BY <1>0, <2>3, <2>4
    <2>6. pairs' \in [Ids -> Pair \cup {NoPair}]
      BY <2>2, <2>5
    <2>7. QED
      BY <1>0, <1>2, <2>2, <2>3, <2>4, <2>6
  <1>14. ASSUME UNCHANGED vars
         PROVE  IndInv'
    <2>1. pairs' = pairs /\ users' = users /\ spared' = spared
      BY <1>14 DEF vars
    <2>2. QED
      BY <1>0, <1>2, <2>1
  <1>15. ASSUME NEW u \in Users, Register(u, FALSE)
         PROVE  IndInv'
    <2>1. [users[u] EXCEPT !.state = "active"] \in User
      BY <1>0 DEF User
    <2>2. [users[u] EXCEPT !.state = "active"].password = users[u].password
      BY <1>0 DEF User
    <2>3. /\ users' = [users EXCEPT ![u] = [users[u] EXCEPT !.state = "active"]]
          /\ pairs' = pairs /\ spared' = spared
      BY <1>15 DEF Register
    <2>4. QED
      BY <1>9, <2>1, <2>2, <2>3
  <1>16. QED
    BY <1>3, <1>4, <1>5, <1>7, <1>8, <1>10, <1>11, <1>12, <1>13, <1>14, <1>15, Zenon

---------------------------------------------------------------------------
(* The invariant, and what it says.                                        *)

\* Before the first registration no pair is issued.
LEMMA InvInit == Init => IndInv
  <1> SUFFICES ASSUME Init
               PROVE  IndInv
    OBVIOUS
  <1>1. TypeOK
    BY AccountAssumption DEF Init, TypeOK, User
  <1>2. Issued = {}
    BY DEF Init, Issued
  <1>3. FirstIssued
    <2>1. 0 \in 0..MaxPairs /\ 1..0 = {}
      BY AccountAssumption
    <2>2. QED
      BY <1>2, <2>1 DEF FirstIssued
  <1>4. QED
    BY <1>1, <1>2, <1>3 DEF IndInv, Chained, OneLiveTokenPerLogin, SessionsFollowPassword

\* Whatever the step of Accounts, the invariant is kept.
LEMMA InvNext == IndInv /\ [Next]_vars => IndInv'
  <1> SUFFICES ASSUME IndInv, [Next]_vars
               PROVE  IndInv'
    OBVIOUS
  <1>1. \/ \E u \in Users : Register(u, TRUE) \/ Login(u)
        \/ \E i \in Ids : RefreshByRoute(i) \/ RefreshByService(i)
        \/ \E u \in Users :
              \/ Register(u, FALSE) \/ DeleteUser(u)
              \/ \E done \in BOOLEAN : ChangePassword(u, done)
              \/ \E S \in SUBSET Ids : LogoutByService(u, S)
              \/ \E state \in {"active", "inactive"}, roles \in BOOLEAN : UpdateProfile(u, state, roles)
        \/ \E i \in Ids : LogoutByRoute(i) \/ RevokeRefresh(i) \/ Expire(i)
        \/ CleanupSessions \/ Restart
        \/ UNCHANGED vars
    <2>1. \A done \in BOOLEAN : done = TRUE \/ done = FALSE
      OBVIOUS
    <2>2. QED
      BY <2>1, Zenon DEF Next
  <1>2. QED
    BY <1>1, IssuesKeep, OthersKeep, Zenon

\* The invariant holds in every state of the specification that is checked.
THEOREM AuthInvariant == AuthSpec => []IndInv
  <1>1. AuthInit => IndInv
    BY InvInit DEF AuthInit
  <1>2. IndInv /\ [AuthNext]_<<part, now, vars, SessVars, RateVars, KeysVars, AccessVars, WatchVars>> => IndInv'
    <2> SUFFICES ASSUME IndInv,
                        [AuthNext]_<<part, now, vars, SessVars, RateVars, KeysVars, AccessVars, WatchVars>>
                 PROVE  IndInv'
      OBVIOUS
    <2>1. Next \/ UNCHANGED vars
      BY Zenon DEF AuthNext
    <2>2. QED
      BY <2>1, InvNext
  <1>3. QED
    BY <1>1, <1>2, PTL DEF AuthSpec

\* Of the refresh tokens that came of a login by way of the routes at most one can
\* still be used, and none was exchanged twice: Accounts.OneLiveTokenPerLogin.
THEOREM TokensRotate == AuthSpec => []OneLiveTokenPerLogin
  <1>1. IndInv => OneLiveTokenPerLogin
    BY DEF IndInv
  <1>2. QED
    BY <1>1, AuthInvariant, PTL

\* An open session was opened with the password that its user has now, unless a change of
\* it was cut short: Accounts.SessionsFollowPassword.
THEOREM PasswordEndsSessions == AuthSpec => []SessionsFollowPassword
  <1>1. IndInv => SessionsFollowPassword
    BY DEF IndInv
  <1>2. QED
    BY <1>1, AuthInvariant, PTL

---------------------------------------------------------------------------
(* The session manager.  In its part of the specification the three maps   *)
(* agree; in the others there is no session.                               *)

SessionsKept == Sess!TypeOK /\ Sess!MapsAgree

\* What a step of the session manager may do to the table.
NobodyRevived == \A i \in Sess!Known \ Sess!Active : i \notin Sess!Active'

\* A step that ends the sessions S of those that were active, and leaves user, token and
\* status of the others.
LEMMA SessionsEnd ==
  ASSUME SessionsKept, now' \in 0..MaxSessionTime,
         sessions' \in [Sess!Ids -> Sess!Session \cup {NoSession}],
         NEW S \in SUBSET Sess!Ids, Sess!Unlist(S),
         \A i \in Sess!Known \ S :
           /\ sessions'[i] \in Sess!Session
           /\ sessions'[i].user = sessions[i].user /\ sessions'[i].token = sessions[i].token
           /\ sessions'[i].status = sessions[i].status,
         \A i \in Sess!Known \cap S : sessions'[i].status # "ACTIVE",
         \A i \in Sess!Ids \ Sess!Known : sessions'[i] = NoSession
  PROVE  SessionsKept' /\ NobodyRevived
  <1>0. /\ Sess!MapsAgree /\ NoSession \notin Sess!Session
        /\ userSessions \in [Users -> SUBSET Sess!Ids] /\ byToken \subseteq Sess!Ids
        /\ Sess!Known \subseteq Sess!Ids /\ Sess!Active \subseteq Sess!Known
    BY AuthAssumption DEF SessionsKept, Sess!TypeOK, Sess!SessionAssumption, Sess!Known, Sess!Active
  <1>1. Sess!Active' = Sess!Active \ S
    <2>1. \A i \in Sess!Known \ S : sessions'[i] # NoSession
      BY <1>0
    <2>2. QED
      BY <1>0, <2>1 DEF Sess!Active, Sess!Known, Sess!Ids
  <1>2. /\ userSessions' = [u \in Users |-> userSessions[u] \ S]
        /\ byToken' = byToken \ S
    BY DEF Sess!Unlist
  <1>3. Sess!TypeOK'
    <2>1. userSessions' \in [Users -> SUBSET Sess!Ids]
      BY <1>0, <1>2
    <2>2. QED
      BY <1>0, <1>2, <2>1 DEF Sess!TypeOK, Sess!Ids, Sess!Session, Sess!Status
  <1>4. \A i \in Sess!Active' : /\ sessions'[i].user = sessions[i].user
                                /\ sessions'[i].token = sessions[i].token
    BY <1>0, <1>1
  <1>5. Sess!MapsAgree'
    <2>1. ASSUME NEW u \in Users
          PROVE  userSessions'[u] = {i \in Sess!Active' : sessions'[i].user = u}
      <3>1. userSessions[u] = {i \in Sess!Active : sessions[i].user = u}
        BY <1>0 DEF Sess!MapsAgree
      <3>2. userSessions'[u] = userSessions[u] \ S
        BY <1>2
      <3>3. QED
        BY <1>1, <1>4, <3>1, <3>2
    <2>2. byToken' = {i \in Sess!Active' : sessions'[i].token}
      <3>1. byToken = {i \in Sess!Active : sessions[i].token}
        BY <1>0 DEF Sess!MapsAgree
      <3>2. QED
        BY <1>1, <1>2, <1>4, <3>1, Zenon
    <2>3. QED
      BY <2>1, <2>2 DEF Sess!MapsAgree
  <1>6. NobodyRevived
    BY <1>1 DEF NobodyRevived
  <1>7. QED
    BY <1>3, <1>5, <1>6 DEF SessionsKept

\* What _revoke_session_internal and its like make of the table.
LEMMA Marks ==
  ASSUME NEW table \in [Sess!Ids -> Sess!Session \cup {NoSession}],
         NEW S \in SUBSET Sess!Ids, \A i \in S : table[i] \in Sess!Session,
         NEW status \in Sess!Status
  PROVE  /\ Sess!Mark(table, S, status) \in [Sess!Ids -> Sess!Session \cup {NoSession}]
         /\ \A i \in Sess!Ids \ S : Sess!Mark(table, S, status)[i] = table[i]
         /\ \A i \in S :
              /\ Sess!Mark(table, S, status)[i] \in Sess!Session
              /\ Sess!Mark(table, S, status)[i].user = table[i].user
              /\ Sess!Mark(table, S, status)[i].token = table[i].token
              /\ Sess!Mark(table, S, status)[i].status = status
  <1> DEFINE Marked(i) == [table[i] EXCEPT !.status = status]
  <1>1. \A i \in S : /\ Marked(i) \in Sess!Session
                     /\ Marked(i).user = table[i].user /\ Marked(i).token = table[i].token
                     /\ Marked(i).status = status
    BY DEF Sess!Session
  <1>2. Sess!Mark(table, S, status) = [i \in Sess!Ids |-> IF i \in S THEN Marked(i) ELSE table[i]]
    BY Zenon DEF Sess!Mark
  <1> HIDE DEF Marked
  <1>3. /\ \A i \in Sess!Ids \ S : Sess!Mark(table, S, status)[i] = table[i]
        /\ \A i \in S : Sess!Mark(table, S, status)[i] = Marked(i)
    BY <1>2
  <1>4. \A i \in Sess!Ids : (IF i \in S THEN Marked(i) ELSE table[i]) \in Sess!Session \cup {NoSession}
    BY <1>1
  <1>5. Sess!Mark(table, S, status) \in [Sess!Ids -> Sess!Session \cup {NoSession}]
    BY <1>2, <1>4
  <1>6. QED
    BY <1>1, <1>3, <1>5

\* Ending known sessions, whatever became of them before.
LEMMA MarkingKeeps ==
  ASSUME SessionsKept, NEW S \in SUBSET Sess!Known, NEW G \in SUBSET Sess!Ids,
         S \subseteq G, \A i \in G \ S : i \notin Sess!Active,
         NEW status \in {"EXPIRED", "REVOKED"},
         sessions' = Sess!Mark(sessions, S, status), Sess!Unlist(G), now' = now
  PROVE  SessionsKept' /\ NobodyRevived
  <1>1. /\ sessions \in [Sess!Ids -> Sess!Session \cup {NoSession}] /\ now \in 0..MaxSessionTime
        /\ Sess!Known \subseteq Sess!Ids /\ \A i \in Sess!Known : sessions[i] \in Sess!Session
        /\ \A i \in Sess!Ids \ Sess!Known : sessions[i] = NoSession
        /\ Sess!Active = {i \in Sess!Known : sessions[i].status = "ACTIVE"}
    BY DEF SessionsKept, Sess!TypeOK, Sess!Known, Sess!Active
  <1>2. status \in Sess!Status /\ status # "ACTIVE" /\ S \in SUBSET Sess!Ids
    BY <1>1 DEF Sess!Status
  <1>3. /\ sessions' \in [Sess!Ids -> Sess!Session \cup {NoSession}]
        /\ \A i \in Sess!Ids \ S : sessions'[i] = sessions[i]
        /\ \A i \in S : sessions'[i].status = status
    BY <1>1, <1>2, Marks, SMTT(30)
  <1>4. \A i \in Sess!Known \cap G : sessions'[i].status # "ACTIVE"
    BY <1>1, <1>2, <1>3
  <1>5. \A i \in Sess!Known \ G :
          /\ sessions'[i] \in Sess!Session
          /\ sessions'[i].user = sessions[i].user /\ sessions'[i].token = sessions[i].token
          /\ sessions'[i].status = sessions[i].status
    BY <1>1, <1>3
  <1>6. QED
    BY <1>1, <1>3, <1>4, <1>5, SessionsEnd

\* Every step of the session manager.
LEMMA SessionStepKeeps ==
  ASSUME SessionsKept, Sess!Next
  PROVE  SessionsKept' /\ NobodyRevived
  <1>0. /\ sessions \in [Sess!Ids -> Sess!Session \cup {NoSession}] /\ now \in 0..MaxSessionTime
        /\ userSessions \in [Users -> SUBSET Sess!Ids] /\ byToken \subseteq Sess!Ids
        /\ Sess!Known \subseteq Sess!Ids /\ \A i \in Sess!Known : sessions[i] \in Sess!Session
        /\ \A i \in Sess!Ids \ Sess!Known : sessions[i] = NoSession
        /\ Sess!Active = {i \in Sess!Known : sessions[i].status = "ACTIVE"}
        /\ Sess!Active \subseteq Sess!Known
        /\ \A u \in Users : userSessions[u] \subseteq Sess!Active
        /\ Sess!SessionAssumption
    BY AuthAssumption DEF SessionsKept, Sess!TypeOK, Sess!Known, Sess!Active, Sess!MapsAgree
  <1>1. ASSUME NEW i \in Sess!Ids, Sess!GetSession(i)
        PROVE  SessionsKept' /\ NobodyRevived
    BY <1>0, <1>1, MarkingKeeps DEF Sess!GetSession
  <1>2. ASSUME NEW i \in Sess!Ids, Sess!Revoke(i)
        PROVE  SessionsKept' /\ NobodyRevived
    BY <1>0, <1>2, MarkingKeeps DEF Sess!Revoke
  <1>3. ASSUME NEW i \in Sess!Ids, NEW changes \in 0..2, Sess!Touch(i, changes)
        PROVE  SessionsKept' /\ NobodyRevived
    <2> DEFINE count == sessions[i].suspicious + changes
               expires == IF sessions[i].expires - now < ExtendBelow THEN now + SessionTimeout
                          ELSE sessions[i].expires
               r == [sessions[i] EXCEPT !.last = now, !.expires = expires, !.suspicious = count]
               touched == [sessions EXCEPT ![i] = r]
               flagged == changes > 0 /\ count >= Threshold
    <2>1. /\ i \in Sess!Active /\ i \in Sess!Known /\ ~Sess!Stale(i) /\ now' = now
          /\ sessions' = IF flagged THEN Sess!Mark(touched, {i}, "REVOKED") ELSE touched
          /\ Sess!Unlist(IF flagged THEN {i} ELSE {})
      BY <1>0, <1>3 DEF Sess!Touch
    <2>2. /\ r \in Sess!Session /\ r.user = sessions[i].user /\ r.token = sessions[i].token
          /\ r.status = sessions[i].status
      <3>1. expires \in 0..(MaxSessionTime + SessionTimeout) /\ count \in Nat
        BY <1>0, <2>1 DEF Sess!Session, Sess!SessionAssumption
      <3> HIDE DEF expires, count
      <3>2. QED
        BY <1>0, <2>1, <3>1 DEF Sess!Session
    <2> HIDE DEF r, flagged
    <2>3. /\ touched \in [Sess!Ids -> Sess!Session \cup {NoSession}] /\ touched[i] = r
          /\ \A j \in Sess!Ids \ {i} : touched[j] = sessions[j]
      BY <1>0, <2>2
    <2> HIDE DEF touched
    <2>4. CASE flagged
      <3>1. sessions' = Sess!Mark(touched, {i}, "REVOKED") /\ Sess!Unlist({i})
        BY <2>1, <2>4
      <3>2. {i} \in SUBSET Sess!Ids /\ "REVOKED" \in Sess!Status /\ \A j \in {i} : touched[j] \in Sess!Session
        BY <2>2, <2>3 DEF Sess!Status
      <3> DEFINE S == {i}
      <3> HIDE DEF S
      <3>5. PICK t : t = touched
        OBVIOUS
      <3>6. PICK status \in Sess!Status : status = "REVOKED"
        BY <3>2
      <3>7. /\ t \in [Sess!Ids -> Sess!Session \cup {NoSession}] /\ S \in SUBSET Sess!Ids
            /\ \A j \in S : t[j] \in Sess!Session
        BY <2>3, <3>2, <3>5 DEF S
      <3>8. /\ Sess!Mark(t, S, status) \in [Sess!Ids -> Sess!Session \cup {NoSession}]
            /\ \A j \in Sess!Ids \ S : Sess!Mark(t, S, status)[j] = t[j]
            /\ \A j \in S : Sess!Mark(t, S, status)[j].status = status
        BY <3>7, Marks
      <3>9. sessions' = Sess!Mark(t, S, status)
        BY <3>1, <3>5, <3>6 DEF S
      <3>3. /\ sessions' \in [Sess!Ids -> Sess!Session \cup {NoSession}]
            /\ \A j \in Sess!Ids \ {i} : sessions'[j] = touched[j]
            /\ sessions'[i].status = "REVOKED"
        BY <3>5, <3>6, <3>8, <3>9 DEF S
      <3>4. QED
        BY <1>0, <2>1, <2>3, <3>1, <3>2, <3>3, SessionsEnd, ZenonT(90)
    <2>5. CASE ~flagged
      <3>1. sessions' = touched /\ Sess!Unlist({})
        BY <2>1, <2>5
      <3>2. QED
        BY <1>0, <2>1, <2>2, <2>3, <3>1, SessionsEnd
    <2>6. QED
      BY <2>4, <2>5
  <1>4. ASSUME NEW u \in Users, Sess!GetUserSessions(u)
        PROVE  SessionsKept' /\ NobodyRevived
    <2>1. Sess!Dropped(u) \subseteq Sess!Active
      BY <1>0 DEF Sess!Dropped
    <2>2. Sess!Dropped(u) \cap Sess!Active = Sess!Dropped(u)
      BY <2>1
    <2>3. QED
      BY <1>0, <1>4, <2>1, <2>2, MarkingKeeps DEF Sess!GetUserSessions
  <1>5. ASSUME NEW u \in Users, NEW token \in BOOLEAN, Sess!CreateSession(u, token)
        PROVE  SessionsKept' /\ NobodyRevived
    <2> DEFINE gone == Sess!Dropped(u) \cup Sess!Evicted(u)
               first == Sess!Mark(sessions, Sess!Dropped(u) \cap Sess!Active, "EXPIRED")
               checked == Sess!Mark(first, Sess!Evicted(u), "REVOKED")
               r == [user |-> u, status |-> "ACTIVE", last |-> now, expires |-> now + SessionTimeout,
                     token |-> token, suspicious |-> 0]
    <2>1. PICK i \in Sess!Ids \ Sess!Known :
            /\ sessions' = [checked EXCEPT ![i] = r]
            /\ userSessions' = [userSessions EXCEPT ![u] = (userSessions[u] \ gone) \cup {i}]
            /\ byToken' = (byToken \ gone) \cup (IF token THEN {i} ELSE {})
            /\ now' = now
      BY <1>5 DEF Sess!CreateSession
    <2>2. r \in Sess!Session /\ r.user = u /\ r.status = "ACTIVE" /\ r.token = token
      BY <1>0 DEF Sess!Session, Sess!Status, Sess!SessionAssumption
    <2> HIDE DEF r
    <2>3. /\ Sess!Dropped(u) \cap Sess!Active = Sess!Dropped(u)
          /\ Sess!Dropped(u) \subseteq userSessions[u] /\ Sess!Evicted(u) \subseteq userSessions[u]
          /\ Sess!Dropped(u) \cap Sess!Evicted(u) = {}
          /\ userSessions[u] \subseteq Sess!Active /\ userSessions[u] \subseteq Sess!Known
      BY <1>0 DEF Sess!Dropped, Sess!Evicted, Sess!Valid
    <2>4. /\ first \in [Sess!Ids -> Sess!Session \cup {NoSession}]
          /\ \A j \in Sess!Ids \ Sess!Dropped(u) : first[j] = sessions[j]
          /\ \A j \in Sess!Dropped(u) : first[j] \in Sess!Session /\ first[j].status = "EXPIRED"
      <3>1. /\ Sess!Dropped(u) \in SUBSET Sess!Ids /\ "EXPIRED" \in Sess!Status
            /\ \A j \in Sess!Dropped(u) : sessions[j] \in Sess!Session
        BY <1>0, <2>3 DEF Sess!Status
      <3>2. PICK status \in Sess!Status : status = "EXPIRED"
        BY <3>1
      <3>3. PICK S \in SUBSET Sess!Ids : S = Sess!Dropped(u)
        BY <3>1
      <3>4. \A j \in S : sessions[j] \in Sess!Session
        BY <3>1, <3>3
      <3>5. /\ Sess!Mark(sessions, S, status) \in [Sess!Ids -> Sess!Session \cup {NoSession}]
            /\ \A j \in Sess!Ids \ S : Sess!Mark(sessions, S, status)[j] = sessions[j]
            /\ \A j \in S : /\ Sess!Mark(sessions, S, status)[j] \in Sess!Session
                            /\ Sess!Mark(sessions, S, status)[j].status = status
        BY <1>0, <3>4, Marks
      <3>6. first = Sess!Mark(sessions, S, status)
        BY <2>3, <3>2, <3>3
      <3>7. QED
        BY <3>2, <3>3, <3>5, <3>6
    <2> HIDE DEF first
    <2>5. /\ checked \in [Sess!Ids -> Sess!Session \cup {NoSession}]
          /\ \A j \in Sess!Ids \ Sess!Evicted(u) : checked[j] = first[j]
          /\ \A j \in Sess!Evicted(u) : checked[j] \in Sess!Session /\ checked[j].status = "REVOKED"
      <3>1. /\ Sess!Evicted(u) \in SUBSET Sess!Ids /\ "REVOKED" \in Sess!Status
            /\ \A j \in Sess!Evicted(u) : first[j] \in Sess!Session
        BY <1>0, <2>3, <2>4 DEF Sess!Status
      <3>2. PICK t : t = first
        OBVIOUS
      <3>3. PICK status \in Sess!Status : status = "REVOKED"
        BY <3>1
      <3>4. PICK S \in SUBSET Sess!Ids : S = Sess!Evicted(u)
        BY <3>1
      <3>5. /\ t \in [Sess!Ids -> Sess!Session \cup {NoSession}]
            /\ \A j \in S : t[j] \in Sess!Session
        BY <2>4, <3>1, <3>2, <3>4
      <3>6. /\ Sess!Mark(t, S, status) \in [Sess!Ids -> Sess!Session \cup {NoSession}]
            /\ \A j \in Sess!Ids \ S : Sess!Mark(t, S, status)[j] = t[j]
            /\ \A j \in S : /\ Sess!Mark(t, S, status)[j] \in Sess!Session
                            /\ Sess!Mark(t, S, status)[j].status = status
        BY <3>5, Marks
      <3>7. checked = Sess!Mark(t, S, status)
        BY <3>2, <3>3, <3>4 DEF checked
      <3>8. QED
        BY <3>3, <3>4, <3>6, <3>7, <3>2
    <2> HIDE DEF checked
    <2>6. /\ sessions' \in [Sess!Ids -> Sess!Session \cup {NoSession}] /\ sessions'[i] = r
          /\ \A j \in gone : sessions'[j] \in Sess!Session /\ sessions'[j].status # "ACTIVE"
          /\ \A j \in Sess!Ids \ (gone \cup {i}) : sessions'[j] = sessions[j]
          /\ gone \subseteq userSessions[u] /\ gone \subseteq Sess!Known
      BY <1>0, <2>1, <2>2, <2>3, <2>4, <2>5
    <2> HIDE DEF gone
    <2>7. Sess!Active' = (Sess!Active \ gone) \cup {i}
      BY <1>0, <2>1, <2>2, <2>6 DEF Sess!Active, Sess!Known, Sess!Ids, Sess!SessionAssumption
    <2>8. Sess!TypeOK'
      BY <1>0, <2>1, <2>6 DEF Sess!TypeOK, Sess!Ids, Sess!Session, Sess!Status
    <2>9. Sess!MapsAgree'
      <3>1. /\ \A v \in Users : userSessions[v] = {j \in Sess!Active : sessions[j].user = v}
            /\ byToken = {j \in Sess!Active : sessions[j].token}
        BY DEF SessionsKept, Sess!MapsAgree
      <3>2. \A j \in Sess!Active \ gone : j # i /\ sessions'[j] = sessions[j]
        BY <1>0, <2>1, <2>6
      <3>3. ASSUME NEW v \in Users
            PROVE  userSessions'[v] = {j \in Sess!Active' : sessions'[j].user = v}
        <4>1. CASE v = u
          <5>1. userSessions'[v] = (userSessions[u] \ gone) \cup {i}
            BY <1>0, <2>1, <4>1
          <5>2. QED
            BY <2>2, <2>6, <2>7, <3>1, <3>2, <4>1, <5>1
        <4>2. CASE v # u
          <5>1. userSessions'[v] = userSessions[v]
            BY <1>0, <2>1, <4>2
          <5>2. \A j \in gone : sessions[j].user = u
            BY <2>6, <3>1
          <5>3. QED
            BY <2>2, <2>6, <2>7, <3>1, <3>2, <4>2, <5>1, <5>2
        <4>3. QED
          BY <4>1, <4>2
      <3>4. byToken' = {j \in Sess!Active' : sessions'[j].token}
        <4>1. \A j \in byToken' : j \in Sess!Active' /\ sessions'[j].token
          BY <2>1, <2>2, <2>6, <2>7, <3>1, <3>2
        <4>2. \A j \in Sess!Active' : sessions'[j].token => j \in byToken'
          BY <2>1, <2>2, <2>6, <2>7, <3>1, <3>2
        <4>3. QED
          BY <4>1, <4>2, Zenon
      <3>5. QED
        BY <3>3, <3>4 DEF Sess!MapsAgree
    <2>10. NobodyRevived
      BY <1>0, <2>1, <2>7 DEF NobodyRevived
    <2>11. QED
      BY <2>8, <2>9, <2>10 DEF SessionsKept
  <1>6. ASSUME NEW u \in Users, NEW except \in SUBSET Sess!Ids, Sess!RevokeUserSessions(u, except)
        PROVE  SessionsKept' /\ NobodyRevived
    <2>1. userSessions[u] \ except \in SUBSET Sess!Known
      BY <1>0
    <2>2. QED
      BY <1>0, <1>6, <2>1, MarkingKeeps DEF Sess!RevokeUserSessions
  <1>7. ASSUME Sess!CleanupExpiredSessions
        PROVE  SessionsKept' /\ NobodyRevived
    <2>1. PICK S \in SUBSET Sess!Known : S = {i \in Sess!Known : Sess!Stale(i) \/ i \notin Sess!Active}
      OBVIOUS
    <2>2. sessions' = Sess!Mark(sessions, S, "EXPIRED") /\ Sess!Unlist(S) /\ now' = now
      BY <1>7, <2>1 DEF Sess!CleanupExpiredSessions
    <2>3. QED
      BY <1>0, <2>2, MarkingKeeps
  <1>8. ASSUME Sess!Tick
        PROVE  SessionsKept' /\ NobodyRevived
    <2>1. now' \in 0..MaxSessionTime /\ sessions' = sessions
      BY <1>0, <1>8 DEF Sess!Tick, Sess!SessionAssumption
    <2>2. Sess!Unlist({})
      BY <1>0, <1>8 DEF Sess!Tick, Sess!Unlist
    <2>3. QED
      BY <1>0, <2>1, <2>2, SessionsEnd
  <1>9. QED
    BY <1>1, <1>2, <1>3, <1>4, <1>5, <1>6, <1>7, <1>8 DEF Sess!Next

---------------------------------------------------------------------------
(* The limit on a user's sessions.                                         *)

\* No user's list is longer than the limit.
ListsWithinLimit == \A u \in Users : Cardinality(userSessions[u]) <= MaxPerUser

\* The instance of FiniteSets that SessionManager brings is the same as this module's.
LEMMA SameCardinality == \A X : Sess!Cardinality(X) = Cardinality(X)
  BY DEF Sess!Cardinality, Cardinality

\* What is left of a user's list is finite, and at the limit one of it gives way.
LEMMA SomeoneGivesWay ==
  ASSUME SessionsKept, NEW u \in Users, Cardinality(Sess!Valid(u)) >= MaxPerUser
  PROVE  Sess!Evicted(u) # {}
  <1> DEFINE V == Sess!Valid(u)
             L == {sessions[i].last : i \in V}
  <1>1. /\ MaxPerUser \in Nat \ {0} /\ V \subseteq Sess!Ids /\ Sess!Ids \subseteq Nat
        /\ \A i \in V : sessions[i].last \in Nat
    BY AuthAssumption
       DEF Sess!SessionAssumption, Sess!Valid, Sess!Active, Sess!Known, Sess!Ids, SessionsKept,
           Sess!TypeOK, Sess!Session
  <1>2. V # {}
    BY <1>1, FS_EmptySet
  <1> HIDE DEF V
  <1>3. L # {} /\ L \in SUBSET Nat
    BY <1>1, <1>2
  <1>4. PICK t \in L : \A s \in L : t <= s
    BY <1>3, LeastNatural
  <1> DEFINE Oldest == {i \in V : sessions[i].last = t}
  <1>5. Oldest # {} /\ Oldest \in SUBSET Nat
    BY <1>1, <1>4
  <1>6. PICK m \in Oldest : \A j \in Oldest : m <= j
    BY <1>5, LeastNatural
  <1>7. ASSUME NEW j \in V \ {m}
        PROVE  \/ sessions[m].last < sessions[j].last
               \/ sessions[m].last = sessions[j].last /\ m < j
    <2>1. /\ t \in Nat /\ m \in Nat /\ j \in Nat /\ sessions[j].last \in Nat
          /\ sessions[m].last = t /\ t <= sessions[j].last
      BY <1>1, <1>3, <1>4, <1>5, <1>6
    <2>2. CASE sessions[j].last = t
      BY <1>6, <2>1, <2>2
    <2>3. CASE sessions[j].last # t
      BY <2>1, <2>3
    <2>4. QED
      BY <2>2, <2>3
  <1>8. m \in Sess!Valid(u) /\ Cardinality(Sess!Valid(u)) >= MaxPerUser
    BY <1>6 DEF V
  <1>9. \A j \in Sess!Valid(u) \ {m} :
          sessions[m].last < sessions[j].last \/ (sessions[m].last = sessions[j].last /\ m < j)
    BY <1>7 DEF V
  <1>10. m \in Sess!Evicted(u)
    BY <1>8, <1>9, SameCardinality DEF Sess!Evicted
  <1>11. QED
    BY <1>10

LEMMA ListsStayWithinLimit ==
  ASSUME SessionsKept, ListsWithinLimit, Sess!Next
  PROVE  ListsWithinLimit'
  <1>0. /\ userSessions \in [Users -> SUBSET Sess!Ids] /\ MaxPerUser \in Nat \ {0}
        /\ IsFiniteSet(Sess!Ids)
    <2>1. MaxPerUser \in Nat \ {0} /\ MaxIds \in Nat
      BY AuthAssumption DEF Sess!SessionAssumption
    <2>2. QED
      BY <2>1, FS_Interval DEF SessionsKept, Sess!TypeOK, Sess!Ids
  <1>1. \A u \in Users : IsFiniteSet(userSessions[u])
    BY <1>0, FS_Subset
  <1>2. ASSUME NEW u \in Users, userSessions'[u] \subseteq userSessions[u]
        PROVE  Cardinality(userSessions'[u]) <= MaxPerUser
    <2>1. /\ IsFiniteSet(userSessions'[u]) /\ Cardinality(userSessions'[u]) <= Cardinality(userSessions[u])
      BY <1>1, <1>2, FS_Subset
    <2>2. Cardinality(userSessions'[u]) \in Nat /\ Cardinality(userSessions[u]) \in Nat
      BY <1>1, <2>1, FS_CardinalityType
    <2>3. QED
      BY <1>0, <2>1, <2>2 DEF ListsWithinLimit
  <1>3. ASSUME NEW S, Sess!Unlist(S)
        PROVE  ListsWithinLimit'
    <2>1. \A u \in Users : userSessions'[u] \subseteq userSessions[u]
      BY <1>3 DEF Sess!Unlist
    <2>2. QED
      BY <1>2, <2>1 DEF ListsWithinLimit
  <1>4. ASSUME NEW u \in Users, NEW token \in BOOLEAN, Sess!CreateSession(u, token)
        PROVE  ListsWithinLimit'
    <2> DEFINE V == Sess!Valid(u)
               E == Sess!Evicted(u)
    <2>1. PICK i \in Sess!Ids :
            userSessions' = [userSessions EXCEPT ![u] = (userSessions[u] \ (Sess!Dropped(u) \cup E)) \cup {i}]
      BY <1>4 DEF Sess!CreateSession
    <2>2. userSessions'[u] = (V \ E) \cup {i} /\ E \subseteq V /\ V \subseteq userSessions[u]
      BY <1>0, <2>1 DEF Sess!Dropped, Sess!Valid, Sess!Evicted
    <2>3. \A v \in Users \ {u} : userSessions'[v] = userSessions[v]
      BY <1>0, <2>1
    <2>4. V \ E \in SUBSET V /\ IsFiniteSet(V) /\ IsFiniteSet(V \ E) /\ Cardinality(V) \in Nat /\ Cardinality(V \ E) \in Nat
          /\ Cardinality(V \ E) <= Cardinality(V)
      <3>1. IsFiniteSet(V)
        BY <1>1, <2>2, FS_Subset
      <3>2. IsFiniteSet(V \ E) /\ Cardinality(V \ E) <= Cardinality(V)
        BY <3>1, FS_Subset
      <3>3. QED
        BY <3>1, <3>2, FS_CardinalityType
    <2>5. Cardinality(V) <= MaxPerUser
      <3>1. Cardinality(V) <= Cardinality(userSessions[u]) /\ Cardinality(userSessions[u]) \in Nat
        BY <1>1, <2>2, FS_Subset, FS_CardinalityType
      <3>2. QED
        BY <1>0, <2>4, <3>1 DEF ListsWithinLimit
    <2>6. Cardinality(V \ E) < MaxPerUser
      <3>1. CASE Cardinality(V) >= MaxPerUser
        <4>1. E # {}
          BY <3>1, SomeoneGivesWay
        <4>2. V \ E # V
          BY <2>2, <4>1
        <4>3. Cardinality(V \ E) # Cardinality(V)
          BY <2>4, <4>2, FS_Subset
        <4>4. QED
          BY <1>0, <2>4, <2>5, <4>3
      <3>2. CASE ~(Cardinality(V) >= MaxPerUser)
        BY <1>0, <2>4, <3>2
      <3>3. QED
        BY <3>1, <3>2
    <2>7. Cardinality(userSessions'[u]) <= MaxPerUser
      <3> HIDE DEF V, E
      <3>1. Cardinality((V \ E) \cup {i}) <= Cardinality(V \ E) + 1
        <4>1. PICK W : W = V \ E
          OBVIOUS
        <4>2. IsFiniteSet(W) /\ Cardinality(W) \in Nat
          BY <2>4, <4>1
        <4>3. Cardinality(W \cup {i}) = IF i \in W THEN Cardinality(W) ELSE Cardinality(W) + 1
          BY <4>2, FS_AddElement
        <4>4. QED
          BY <4>1, <4>2, <4>3
      <3>2. Cardinality((V \ E) \cup {i}) \in Nat
        BY <2>4, FS_AddElement, FS_CardinalityType
      <3>3. QED
        BY <1>0, <2>2, <2>4, <2>6, <3>1, <3>2
    <2>8. \A v \in Users \ {u} : Cardinality(userSessions'[v]) <= MaxPerUser
      BY <2>3 DEF ListsWithinLimit
    <2>9. QED
      BY <2>7, <2>8 DEF ListsWithinLimit
  <1>5. CASE \E S : Sess!Unlist(S)
    BY <1>3, <1>5
  <1>6. CASE Sess!Tick
    BY <1>6 DEF Sess!Tick, ListsWithinLimit
  <1>7. QED
    BY <1>4, <1>5, <1>6
       DEF Sess!Next, Sess!GetSession, Sess!Revoke, Sess!Touch, Sess!GetUserSessions,
           Sess!RevokeUserSessions, Sess!CleanupExpiredSessions

---------------------------------------------------------------------------
(* The session manager's part of the specification.                        *)

\* In the other parts the clock may go where this part's does not, and there the maps
\* agree because nobody changes them.
SessionInv ==
  IF part = "sessions" THEN SessionsKept /\ ListsWithinLimit
  ELSE Sess!MapsAgree /\ ListsWithinLimit

LEMMA SessionInit == ASSUME Sess!Init PROVE SessionsKept /\ ListsWithinLimit
  <1>1. Sess!SessionAssumption
    BY AuthAssumption
  <1>2. Sess!Known = {} /\ Sess!Active = {}
    BY DEF Sess!Init, Sess!Known, Sess!Active
  <1>3. Sess!TypeOK
    BY <1>1 DEF Sess!Init, Sess!TypeOK, Sess!SessionAssumption
  <1>4. Sess!MapsAgree
    BY <1>2 DEF Sess!Init, Sess!MapsAgree
  <1>5. ListsWithinLimit
    BY <1>1, FS_EmptySet DEF Sess!Init, ListsWithinLimit, Sess!SessionAssumption
  <1>6. QED
    BY <1>3, <1>4, <1>5 DEF SessionsKept

\* Whoever leaves the sessions alone keeps them as they are.
LEMMA SessionsAlone ==
  ASSUME UNCHANGED SessVars
  PROVE  /\ Sess!MapsAgree => Sess!MapsAgree'
         /\ ListsWithinLimit => ListsWithinLimit'
         /\ NobodyRevived
  <1>1. sessions' = sessions /\ userSessions' = userSessions /\ byToken' = byToken
    BY DEF SessVars
  <1>2. Sess!Known' = Sess!Known /\ Sess!Active' = Sess!Active
    BY <1>1 DEF Sess!Known, Sess!Active
  <1>3. Sess!MapsAgree => Sess!MapsAgree'
    BY <1>1, <1>2 DEF Sess!MapsAgree
  <1>4. QED
    BY <1>1, <1>2, <1>3 DEF ListsWithinLimit, NobodyRevived

\* A step of the whole keeps the invariant and revives no session.
LEMMA SessionInvStep ==
  ASSUME SessionInv,
         [AuthNext]_<<part, now, vars, SessVars, RateVars, KeysVars, AccessVars, WatchVars>>
  PROVE  SessionInv' /\ NobodyRevived
  <1>1. part' = part
    BY DEF AuthNext
  <1>2. CASE part = "sessions" /\ Sess!Next
    BY <1>1, <1>2, SessionStepKeeps, ListsStayWithinLimit DEF SessionInv
  <1>3. CASE part = "sessions" /\ UNCHANGED <<now, SessVars>>
    <2>1. Sess!TypeOK' /\ UNCHANGED SessVars
      BY <1>3 DEF SessionInv, SessionsKept, Sess!TypeOK, SessVars
    <2>2. QED
      BY <1>1, <1>3, <2>1, SessionsAlone DEF SessionInv, SessionsKept
  <1>4. CASE part # "sessions" /\ UNCHANGED SessVars
    BY <1>1, <1>4, SessionsAlone DEF SessionInv
  <1>5. QED
    BY <1>2, <1>3, <1>4 DEF AuthNext

\* In every reachable state the three maps of sessions agree and no list is too long.
THEOREM SessionInvariant == AuthSpec => []SessionInv
  <1>1. AuthInit => SessionInv
    BY SessionInit DEF AuthInit, SessionInv, SessionsKept
  <1>2. SessionInv /\ [AuthNext]_<<part, now, vars, SessVars, RateVars, KeysVars, AccessVars, WatchVars>> => SessionInv'
    BY SessionInvStep
  <1>3. QED
    BY <1>1, <1>2, PTL DEF AuthSpec

\* The list of a user's sessions and the map from refresh tokens have exactly the active
\* sessions, and a user never has more of them than max_sessions_per_user:
\* SessionManager.MapsAgree and SessionLimit.
THEOREM SessionsStayConsistent == AuthSpec => []SessionsConsistent
  <1>1. SessionInv => SessionsConsistent
    <2>1. ASSUME SessionInv
          PROVE  Sess!SessionLimit
      <3>1. \A u \in Users : {i \in Sess!Active : sessions[i].user = u} = userSessions[u]
        BY <2>1 DEF SessionInv, SessionsKept, Sess!MapsAgree
      <3>2. \A u \in Users : Sess!Cardinality(userSessions[u]) <= MaxPerUser
        BY <2>1, SameCardinality DEF SessionInv, ListsWithinLimit
      <3>3. QED
        BY <3>1, <3>2 DEF Sess!SessionLimit
    <2>2. QED
      BY <2>1 DEF SessionInv, SessionsKept, SessionsConsistent
  <1>2. QED
    BY <1>1, SessionInvariant, PTL

\* A session that was revoked or has expired is never in use again:
\* SessionManager.NoRevival.
THEOREM EndedSessionsStayEnded == AuthSpec => NoRevival
  <1>1. SessionInv /\ [AuthNext]_<<part, now, vars, SessVars, RateVars, KeysVars, AccessVars, WatchVars>>
          => [\A i \in Sess!Known \ Sess!Active : i \notin Sess!Active']_Sess!vars
    BY SessionInvStep DEF NobodyRevived
  <1>2. QED
    BY <1>1, SessionInvariant, PTL DEF AuthSpec, NoRevival, Sess!NoRevival

---------------------------------------------------------------------------
(* AccessControl: the keys of a batch.                                     *)

\* The instances of library operators that AccessControl brings are this module's.
LEMMA SameInAccess ==
  /\ \A X : Control!Cardinality(X) = Cardinality(X)
  /\ \A K, n : Control!Place(K, n) = Place(K, n)
  /\ \A s : Control!ToSet(s) = {s[i] : i \in DOMAIN s}
  <1>1. \A X : Control!Cardinality(X) = Cardinality(X)
    BY Zenon DEF Control!Cardinality, Cardinality
  <1>2. \A K, n : Control!Place(K, n) = Place(K, n)
    BY Zenon DEF Control!Place, Place, Control!Cardinality, Cardinality
  <1>3. \A s : Control!ToSet(s) = {s[i] : i \in DOMAIN s}
    BY Zenon DEF Control!ToSet
  <1>4. QED
    BY <1>1, <1>2, <1>3

---------------------------------------------------------------------------
(* AccessControl: the audit log.                                           *)

AuditEntry == [at : Nat, op : {"change", "batch", "look"}, keys : SUBSET Nat, ok : BOOLEAN, active : BOOLEAN]

\* One entry was made at each of the times before the length of the log.
Numbered(s) ==
  /\ s \in Seq(AuditEntry)
  /\ \A n \in 1..Len(s) : s[n].at \in 0..(Len(s) - 1)
  /\ \A v \in 0..(Len(s) - 1) : \E n \in 1..Len(s) : s[n].at = v
  /\ \A n, m \in 1..Len(s) : s[n].at = s[m].at => n = m

\* An entry says that the key was changed.
Changes(e, k) == e.ok /\ k \in e.keys /\ e.op = "change"

\* The newest of them says that it is active, or is not.
Says(s, k, active) ==
  \E n \in 1..Len(s) :
    /\ Changes(s[n], k) /\ s[n].active = active
    /\ \A m \in 1..Len(s) : s[m].at > s[n].at => ~Changes(s[m], k)

\* Entries of the times that follow.
Following(s, t) == t \in Seq(AuditEntry) /\ \A n \in 1..Len(t) : t[n].at = Len(s) + n - 1

LEMMA NumberedGrows ==
  ASSUME NEW s, Numbered(s), NEW t, Following(s, t)
  PROVE  /\ Numbered(s \o t) /\ Len(s \o t) = Len(s) + Len(t)
         /\ \A n \in 1..Len(s) : (s \o t)[n] = s[n]
         /\ \A n \in 1..Len(t) : (s \o t)[Len(s) + n] = t[n]
  <1> DEFINE r == s \o t
  <1>1. s \in Seq(AuditEntry) /\ t \in Seq(AuditEntry) /\ Len(s) \in Nat /\ Len(t) \in Nat
    BY DEF Numbered, Following
  <1>2. /\ r \in Seq(AuditEntry) /\ Len(r) = Len(s) + Len(t)
        /\ \A n \in 1..Len(s) : r[n] = s[n]
        /\ \A n \in 1..Len(t) : r[Len(s) + n] = t[n]
    BY <1>1
  <1> HIDE DEF r
  <1>3. \A n \in 1..Len(r) : n \in 1..Len(s) \/ (n - Len(s) \in 1..Len(t) /\ n = Len(s) + (n - Len(s)))
    BY <1>1, <1>2
  <1>4. ASSUME NEW n \in 1..Len(r)
        PROVE  \/ n \in 1..Len(s) /\ r[n].at = s[n].at /\ s[n].at \in 0..(Len(s) - 1)
               \/ n \in (Len(s) + 1)..Len(r) /\ r[n].at = n - 1
    <2>1. CASE n \in 1..Len(s)
      BY <1>2, <2>1 DEF Numbered
    <2>2. CASE n - Len(s) \in 1..Len(t) /\ n = Len(s) + (n - Len(s))
      <3> DEFINE i == n - Len(s)
      <3>1. i \in 1..Len(t) /\ n = Len(s) + i
        BY <2>2
      <3> HIDE DEF i
      <3>2. r[n] = t[i] /\ t[i].at = Len(s) + i - 1
        BY <1>2, <3>1 DEF Following
      <3>3. QED
        BY <1>1, <1>2, <3>1, <3>2
    <2>3. QED
      BY <1>3, <2>1, <2>2
  <1>5. \A n \in 1..Len(r) : r[n].at \in 0..(Len(r) - 1)
    BY <1>1, <1>2, <1>4, SMTT(30)
  <1>6. ASSUME NEW v \in 0..(Len(r) - 1) PROVE \E n \in 1..Len(r) : r[n].at = v
    <2>1. CASE v < Len(s)
      <3>1. PICK n \in 1..Len(s) : s[n].at = v
        BY <1>1, <2>1 DEF Numbered
      <3>2. n \in 1..Len(r) /\ r[n].at = v
        BY <1>1, <1>2, <3>1
      <3>3. QED
        BY <3>2
    <2>2. CASE ~ (v < Len(s))
      <3>1. v + 1 \in (Len(s) + 1)..Len(r) /\ v + 1 \in 1..Len(r)
        BY <1>1, <1>2, <2>2
      <3>2. r[v + 1].at = v
        BY <1>1, <1>4, <3>1
      <3>3. QED
        BY <3>1, <3>2
    <2>3. QED
      BY <2>1, <2>2
  <1>7. ASSUME NEW n \in 1..Len(r), NEW m \in 1..Len(r), r[n].at = r[m].at PROVE n = m
    <2>1. CASE n \in 1..Len(s) /\ m \in 1..Len(s)
      <3>1. s[n].at = s[m].at
        BY <1>2, <1>7, <2>1
      <3>2. QED
        BY <2>1, <3>1 DEF Numbered
    <2>2. QED
      BY <1>1, <1>2, <1>4, <1>7, <2>1
  <1>8. QED
    BY <1>2, <1>5, <1>6, <1>7, Zenon DEF Numbered, r

\* What the log says of a key it still says when entries follow that do not change the key.
LEMMA SaysStill ==
  ASSUME NEW s, Numbered(s), NEW t, Following(s, t), NEW k, NEW active, Says(s, k, active),
         \A n \in 1..Len(t) : ~Changes(t[n], k)
  PROVE  Says(s \o t, k, active)
  <1> DEFINE r == s \o t
  <1>1. /\ Len(r) = Len(s) + Len(t) /\ Len(s) \in Nat /\ Len(t) \in Nat
        /\ \A n \in 1..Len(s) : r[n] = s[n]
        /\ \A n \in 1..Len(t) : r[Len(s) + n] = t[n]
    BY NumberedGrows DEF Numbered, Following
  <1> HIDE DEF r
  <1>2. PICK n \in 1..Len(s) :
          /\ Changes(s[n], k) /\ s[n].active = active
          /\ \A m \in 1..Len(s) : s[m].at > s[n].at => ~Changes(s[m], k)
    BY Zenon DEF Says
  <1>3. n \in 1..Len(r) /\ r[n] = s[n]
    BY <1>1
  <1>4. ASSUME NEW m \in 1..Len(r), r[m].at > r[n].at PROVE ~Changes(r[m], k)
    <2>1. CASE m \in 1..Len(s)
      <3>1. r[m] = s[m]
        BY <1>1, <2>1
      <3>2. s[m].at > s[n].at
        BY <1>3, <1>4, <3>1
      <3>3. QED
        BY <1>2, <2>1, <3>1, <3>2, Zenon
    <2>2. CASE m \notin 1..Len(s)
      <3>1. m - Len(s) \in 1..Len(t) /\ m = Len(s) + (m - Len(s))
        BY <1>1, <2>2
      <3>2. r[m] = t[m - Len(s)]
        BY <1>1, <3>1
      <3>3. QED
        BY <3>1, <3>2, Zenon
    <2>3. QED
      BY <2>1, <2>2
  <1>5. QED
    BY <1>2, <1>3, <1>4, Zenon DEF Says, r

\* What an entry that follows says is what the log says, when no later one changes the key.
LEMMA SaysNow ==
  ASSUME NEW s, Numbered(s), NEW t, Following(s, t), NEW k, NEW active,
         NEW i \in 1..Len(t), Changes(t[i], k), t[i].active = active,
         \A n \in 1..Len(t) : n > i => ~Changes(t[n], k)
  PROVE  Says(s \o t, k, active)
  <1> DEFINE r == s \o t
  <1>1. /\ Len(r) = Len(s) + Len(t) /\ Len(s) \in Nat /\ Len(t) \in Nat
        /\ \A n \in 1..Len(s) : r[n] = s[n]
        /\ \A n \in 1..Len(t) : r[Len(s) + n] = t[n]
        /\ \A n \in 1..Len(s) : s[n].at \in 0..(Len(s) - 1)
        /\ \A n \in 1..Len(t) : t[n].at = Len(s) + n - 1
    BY NumberedGrows DEF Numbered, Following
  <1> HIDE DEF r
  <1> DEFINE n == Len(s) + i
  <1>2. n \in 1..Len(r) /\ r[n] = t[i] /\ t[i].at = Len(s) + i - 1
    BY <1>1
  <1> HIDE DEF n
  <1>3. ASSUME NEW m \in 1..Len(r), r[m].at > r[n].at PROVE ~Changes(r[m], k)
    <2>1. CASE m \in 1..Len(s)
      BY <1>1, <1>2, <1>3, <2>1, SMTT(30)
    <2>2. CASE m \notin 1..Len(s)
      <3> DEFINE j == m - Len(s)
      <3>1. j \in 1..Len(t) /\ m = Len(s) + j
        BY <1>1, <2>2
      <3> HIDE DEF j
      <3>2. r[m] = t[j] /\ t[j].at = Len(s) + j - 1
        BY <1>1, <3>1
      <3>3. j > i
        BY <1>1, <1>2, <1>3, <3>1, <3>2
      <3>4. QED
        BY <3>1, <3>2, <3>3, Zenon
    <2>3. QED
      BY <2>1, <2>2
  <1>4. QED
    BY <1>2, <1>3, Zenon DEF Says, r

\* A log that is sorted, newest first, has the same entries.
NewestFirst(s) == [n \in DOMAIN s |-> CHOOSE e \in {s[i] : i \in DOMAIN s} : e.at = Len(s) - n]

LEMMA SortedSays ==
  ASSUME NEW s, Numbered(s)
  PROVE  /\ Numbered(NewestFirst(s)) /\ Len(NewestFirst(s)) = Len(s)
         /\ \A k, active : Says(s, k, active) => Says(NewestFirst(s), k, active)
  <1> DEFINE N == Len(s)
             E == {s[i] : i \in DOMAIN s}
             r == NewestFirst(s)
  <1>1. s \in Seq(AuditEntry) /\ N \in Nat /\ DOMAIN s = 1..N
    BY DEF Numbered
  <1>2. ASSUME NEW n \in 1..N
        PROVE  r[n] \in E /\ r[n].at = N - n
    <2>1. N - n \in 0..(N - 1)
      BY <1>1
    <2>2. PICK m \in 1..N : s[m].at = N - n
      BY <2>1 DEF Numbered
    <2>3. s[m] \in E /\ s[m].at = N - n
      BY <1>1, <2>2
    <2>4. r[n] = CHOOSE e \in E : e.at = N - n
      BY <1>1, <1>2 DEF NewestFirst
    <2> HIDE DEF E, r
    <2>5. QED
      BY <2>3, <2>4, Zenon
  <1>3. DOMAIN r = 1..N /\ r = [n \in 1..N |-> r[n]]
    BY <1>1 DEF NewestFirst
  <1>4. \A n \in 1..N : \E m \in 1..N : r[n] = s[m]
    BY <1>1, <1>2
  <1> HIDE DEF E, r
  <1>5. r \in [1..N -> AuditEntry]
    <2>1. DOMAIN r = 1..N /\ r = [n \in 1..N |-> r[n]]
      BY <1>3
    <2>2. \A m \in 1..N : s[m] \in AuditEntry
      BY <1>1
    <2>3. \A n \in 1..N : r[n] \in AuditEntry
      BY <1>4, <2>2
    <2>4. QED
      BY <2>1, <2>3
  <1>6. r \in Seq(AuditEntry) /\ Len(r) = N
    BY <1>1, <1>5
  <1>7. ASSUME NEW m \in 1..N PROVE \E n \in 1..N : r[n] = s[m]
    <2>1. s[m].at \in 0..(N - 1)
      BY DEF Numbered
    <2>2. N - s[m].at \in 1..N /\ N - (N - s[m].at) = s[m].at
      BY <1>1, <2>1
    <2>3. PICK j \in 1..N : r[N - s[m].at] = s[j] /\ s[j].at = s[m].at
      <3>1. r[N - s[m].at].at = s[m].at
        BY <1>2, <2>2
      <3>2. QED
        BY <1>4, <2>2, <3>1, Zenon
    <2>4. j = m
      BY <2>3 DEF Numbered
    <2>5. QED
      BY <2>2, <2>3, <2>4
  <1>8. Numbered(r)
    <2>1. \A n \in 1..N : r[n].at \in 0..(N - 1)
      BY <1>1, <1>2
    <2>2. \A v \in 0..(N - 1) : N - v \in 1..N /\ r[N - v].at = v
      BY <1>1, <1>2
    <2>3. \A n, m \in 1..N : r[n].at = r[m].at => n = m
      BY <1>1, <1>2
    <2>4. QED
      BY <1>6, <2>1, <2>2, <2>3 DEF Numbered
  <1>9. ASSUME NEW k, NEW active, Says(s, k, active) PROVE Says(r, k, active)
    <2>1. PICK m \in 1..N :
            /\ Changes(s[m], k) /\ s[m].active = active
            /\ \A j \in 1..N : s[j].at > s[m].at => ~Changes(s[j], k)
      BY <1>9, Zenon DEF Says
    <2>2. PICK n \in 1..N : r[n] = s[m]
      BY <1>7
    <2>3. \A j \in 1..N : r[j].at > r[n].at => ~Changes(r[j], k)
      BY <1>4, <2>1, <2>2, Zenon
    <2>4. QED
      BY <1>6, <2>1, <2>2, <2>3, Zenon DEF Says
  <1>10. QED
    BY <1>6, <1>8, <1>9 DEF r

---------------------------------------------------------------------------
(* AccessControl: the invariant.                                           *)

AccessInv ==
  /\ tokens \in 0..MaxTokens /\ issued \in 0..MaxIssued
  /\ blacklist \in [Control!Managers -> SUBSET (1..tokens)]
  /\ DOMAIN store \subseteq 1..issued /\ \A k \in DOMAIN store : store[k] \in BOOLEAN
  /\ Numbered(audit) /\ Len(audit) <= MaxAudit
  /\ \A k \in DOMAIN store : Says(audit, k, store[k])

LEMMA NothingDone ==
  ASSUME Control!Init
  PROVE  AccessInv
  <1>1. /\ tokens = 0 /\ issued = 0 /\ blacklist = [m \in Control!Managers |-> {}]
        /\ store = <<>> /\ audit = <<>>
    BY DEF Control!Init
  <1>2. MaxTokens \in Nat /\ MaxIssued \in Nat /\ MaxAudit \in Nat
    BY AuthAssumption DEF Control!AccessAssumption
  <1>3. DOMAIN store = {} /\ Len(audit) = 0
    BY <1>1
  <1>4. Numbered(audit)
    BY <1>1, <1>3 DEF Numbered
  <1>5. blacklist \in [Control!Managers -> SUBSET (1..tokens)]
    BY <1>1
  <1>6. QED
    BY <1>1, <1>2, <1>3, <1>4, <1>5 DEF AccessInv

\* An entry, as it is made, and what it is at another time.
LEMMA EntryMade ==
  ASSUME Numbered(audit), NEW op \in {"change", "batch", "look"}, NEW S \in SUBSET Nat,
         NEW ok \in BOOLEAN, NEW active \in BOOLEAN
  PROVE  /\ Control!Entry(op, S, ok, active) \in AuditEntry
         /\ Control!Entry(op, S, ok, active).at = Len(audit)
         /\ Control!Entry(op, S, ok, active).op = op
         /\ Control!Entry(op, S, ok, active).keys = S
         /\ Control!Entry(op, S, ok, active).ok = ok
         /\ Control!Entry(op, S, ok, active).active = active
  <1> DEFINE e == Control!Entry(op, S, ok, active)
  <1>1. e = [at |-> Len(audit), op |-> op, keys |-> S, ok |-> ok, active |-> active]
    BY Zenon DEF Control!Entry
  <1>2. Len(audit) \in Nat
    BY DEF Numbered
  <1> HIDE DEF e
  <1>3. e \in AuditEntry /\ e.op = op /\ e.keys = S /\ e.at = Len(audit)
    BY <1>1, <1>2 DEF AuditEntry
  <1>4. e.ok = ok /\ e.active = active
    BY <1>1
  <1>5. QED
    BY <1>3, <1>4, Zenon DEF e

\* One that is made follows the log.
LEMMA OneFollows ==
  ASSUME Numbered(audit), NEW e \in AuditEntry, e.at = Len(audit)
  PROVE  Following(audit, <<e>>) /\ Len(<<e>>) = 1 /\ <<e>>[1] = e
  <1>1. Len(audit) \in Nat
    BY DEF Numbered
  <1>2. <<e>> \in Seq(AuditEntry) /\ Len(<<e>>) = 1 /\ <<e>>[1] = e
    OBVIOUS
  <1>3. QED
    BY <1>1, <1>2 DEF Following

\* Who is logged out stays so, and the log stays right about keys that do not change.
LEMMA LogKept ==
  ASSUME AccessInv, NEW t, Following(audit, t), Control!Logged(t)
  PROVE  Numbered(audit') /\ Len(audit') <= MaxAudit /\ audit' = audit \o t
  <1>1. audit' = audit \o t /\ Len(audit) + Len(t) <= MaxAudit
    BY Zenon DEF Control!Logged
  <1>2. Numbered(audit \o t) /\ Len(audit \o t) = Len(audit) + Len(t)
    BY NumberedGrows DEF AccessInv
  <1>3. QED
    BY <1>1, <1>2

\* An entry with another time.
LEMMA EntryAt ==
  ASSUME NEW e \in AuditEntry, NEW d \in Nat
  PROVE  LET f == [e EXCEPT !.at = d] IN
         f \in AuditEntry /\ f.at = d /\ f.op = e.op /\ f.keys = e.keys /\ f.ok = e.ok /\ f.active = e.active
  BY DEF AuditEntry

\* The changes of keys, one after the other.
Changed(q, active) ==
  [n \in DOMAIN q |-> [Control!Entry("change", {q[n]}, TRUE, active) EXCEPT !.at = @ + n - 1]]

LEMMA ChangesMade ==
  ASSUME Numbered(audit), NEW q \in Seq(Nat), NEW active \in BOOLEAN, NEW n \in 1..Len(q)
  PROVE  LET each == Changed(q, active) IN
         /\ each[n] \in AuditEntry /\ each[n].at = Len(audit) + n - 1
         /\ each[n].op = "change" /\ each[n].keys = {q[n]} /\ each[n].ok /\ each[n].active = active
  <1> DEFINE S == {q[n]}
             e == Control!Entry("change", S, TRUE, active)
             d == Len(audit) + n - 1
             one == Changed(q, active)[n]
  <1>1. Len(audit) \in Nat /\ S \in SUBSET Nat /\ d \in Nat /\ n \in DOMAIN q
    BY DEF Numbered
  <1>2. e = [at |-> Len(audit), op |-> "change", keys |-> S, ok |-> TRUE, active |-> active]
    BY Zenon DEF Control!Entry
  <1>3. one = [e EXCEPT !.at = e.at + n - 1]
    BY <1>1, Zenon DEF Changed
  <1> HIDE DEF e, S, one
  <1>4. /\ e \in AuditEntry /\ e.op = "change" /\ e.keys = S /\ e.at = Len(audit)
    BY <1>1, <1>2 DEF AuditEntry
  <1>5. e.ok /\ e.active = active
    BY <1>2
  <1>6. one = [e EXCEPT !.at = d]
    BY <1>3, <1>4
  <1> HIDE DEF d
  <1>7. one \in AuditEntry /\ one.at = d /\ one.op = e.op /\ one.keys = e.keys /\ one.ok = e.ok
        /\ one.active = e.active
    BY <1>1, <1>4, <1>6 DEF AuditEntry
  <1>8. QED
    BY <1>4, <1>5, <1>7 DEF d, S, one

\* A batch enters a change for each of its keys, and itself.
LEMMA BatchFollows ==
  ASSUME Numbered(audit), NEW q \in Seq(Nat), NEW active \in BOOLEAN
  PROVE  LET t == Control!BatchEntries(q, active) IN
         /\ Following(audit, t) /\ Len(t) = Len(q) + 1
         /\ \A n \in 1..Len(q) : t[n].op = "change" /\ t[n].keys = {q[n]} /\ t[n].ok /\ t[n].active = active
         /\ t[Len(q) + 1].op = "batch"
  <1> DEFINE N == Len(audit)
             M == Len(q)
             batch == Control!Entry("batch", Control!ToSet(q), TRUE, TRUE)
             last == [batch EXCEPT !.at = @ + M]
             each == Changed(q, active)
             t == Control!BatchEntries(q, active)
  <1>1. N \in Nat /\ M \in Nat /\ DOMAIN q = 1..M /\ \A n \in 1..M : q[n] \in Nat
    BY DEF Numbered
  <1>2. t = Append(each, last)
    BY Zenon DEF Control!BatchEntries, Changed
  <1>3. \A n \in 1..M : /\ each[n] \in AuditEntry /\ each[n].at = N + n - 1
                        /\ each[n].op = "change" /\ each[n].keys = {q[n]} /\ each[n].ok /\ each[n].active = active
    BY ChangesMade, Zenon
  <1>4. last \in AuditEntry /\ last.at = N + M /\ last.op = "batch"
    <2>1. /\ Control!ToSet(q) \in SUBSET Nat
          /\ "batch" \in {"change", "batch", "look"} /\ TRUE \in BOOLEAN
      BY <1>1, SameInAccess
    <2>2. batch \in AuditEntry /\ batch.op = "batch" /\ batch.at = N
      BY <2>1, EntryMade, Zenon
    <2> HIDE DEF batch
    <2>3. last = [batch EXCEPT !.at = N + M] /\ N + M \in Nat
      BY <1>1, <2>2
    <2>4. QED
      BY <2>2, <2>3, EntryAt, SMTT(30)
  <1> HIDE DEF last, t
  <1>5. each \in Seq(AuditEntry) /\ Len(each) = M
    <2>1. DOMAIN each = 1..M /\ each = [n \in 1..M |-> each[n]]
      BY <1>1 DEF Changed
    <2>2. \A n \in 1..M : each[n] \in AuditEntry
      BY <1>3
    <2> HIDE DEF each
    <2>3. QED
      BY <1>1, <2>1, <2>2
  <1> HIDE DEF each
  <1>6. /\ t \in Seq(AuditEntry) /\ Len(t) = M + 1
        /\ \A n \in 1..M : t[n] = each[n]
        /\ t[M + 1] = last
    BY <1>1, <1>2, <1>4, <1>5
  <1>7. \A n \in 1..Len(t) : t[n].at = N + n - 1
    <2>1. \A n \in 1..Len(t) : n \in 1..M \/ n = M + 1
      BY <1>1, <1>6
    <2>2. t[M + 1].at = N + (M + 1) - 1
      BY <1>1, <1>4, <1>6
    <2>3. QED
      BY <1>3, <1>6, <2>1, <2>2
  <1>8. Following(audit, t)
    BY <1>6, <1>7 DEF Following
  <1>9. \A n \in 1..M : t[n].op = "change" /\ t[n].keys = {q[n]} /\ t[n].ok /\ t[n].active = active
    BY <1>3, <1>6, Zenon
  <1>10. QED
    BY <1>4, <1>6, <1>8, <1>9, Zenon DEF t

\* The log is right about every key when what is entered says of each of them what it is,
\* or does not change it.
LEMMA AuditGrows ==
  ASSUME AccessInv, NEW t, Following(audit, t), Control!Logged(t),
         tokens' = tokens, blacklist' = blacklist,
         issued' \in 0..MaxIssued, DOMAIN store' \subseteq 1..issued',
         \A k \in DOMAIN store' :
           /\ store'[k] \in BOOLEAN
           /\ \/ /\ k \in DOMAIN store /\ store'[k] = store[k]
                 /\ \A n \in 1..Len(t) : ~Changes(t[n], k)
              \/ \E i \in 1..Len(t) :
                   /\ Changes(t[i], k) /\ t[i].active = store'[k]
                   /\ \A n \in 1..Len(t) : n > i => ~Changes(t[n], k)
  PROVE  AccessInv'
  <1>1. Numbered(audit') /\ Len(audit') <= MaxAudit /\ audit' = audit \o t
    BY LogKept
  <1>2. Numbered(audit)
    BY DEF AccessInv
  <1>3. \A k \in DOMAIN store' : Says(audit \o t, k, store'[k])
    <2>1. SUFFICES ASSUME NEW k \in DOMAIN store' PROVE Says(audit \o t, k, store'[k])
      OBVIOUS
    <2>2. CASE k \in DOMAIN store /\ store'[k] = store[k] /\ \A n \in 1..Len(t) : ~Changes(t[n], k)
      <3>1. Says(audit, k, store[k])
        BY <2>2 DEF AccessInv
      <3>2. Says(audit \o t, k, store[k])
        BY <1>2, <2>2, <3>1, SaysStill
      <3>3. QED
        BY <2>2, <3>2
    <2>3. CASE \E i \in 1..Len(t) :
                 /\ Changes(t[i], k) /\ t[i].active = store'[k]
                 /\ \A n \in 1..Len(t) : n > i => ~Changes(t[n], k)
      BY <1>2, <2>3, SaysNow
    <2>4. QED
      BY <2>1, <2>2, <2>3, Zenon
  <1>4. /\ tokens \in 0..MaxTokens /\ blacklist \in [Control!Managers -> SUBSET (1..tokens)]
    BY DEF AccessInv
  <1>5. /\ tokens' \in 0..MaxTokens /\ blacklist' \in [Control!Managers -> SUBSET (1..tokens')]
    BY <1>4
  <1>6. \A k \in DOMAIN store' : store'[k] \in BOOLEAN
    OBVIOUS
  <1>7. Numbered(audit') /\ \A k \in DOMAIN store' : Says(audit', k, store'[k])
    BY <1>1, <1>3
  <1>8. Control!Managers' = Control!Managers
    BY DEF Control!Managers
  <1>9. QED
    BY <1>1, <1>5, <1>6, <1>7, <1>8, Zenon DEF AccessInv

\* One operation on one key, or on none.
LEMMA OneIsLogged ==
  ASSUME AccessInv, NEW op \in {"change", "batch", "look"}, NEW S \in SUBSET Nat, NEW ok \in BOOLEAN, NEW active \in BOOLEAN,
         Control!Logged(<<Control!Entry(op, S, ok, active)>>),
         tokens' = tokens, blacklist' = blacklist,
         issued' \in 0..MaxIssued, DOMAIN store' \subseteq 1..issued',
         \A k \in DOMAIN store' :
           /\ store'[k] \in BOOLEAN
           /\ \/ k \in DOMAIN store /\ store'[k] = store[k] /\ (k \notin S \/ ~ok \/ op # "change")
              \/ k \in S /\ ok /\ op = "change" /\ active = store'[k]
  PROVE  AccessInv'
  <1> DEFINE e == Control!Entry(op, S, ok, active)
             t == <<e>>
  <1>1. Numbered(audit)
    BY DEF AccessInv
  <1>2. e \in AuditEntry /\ e.at = Len(audit) /\ e.op = op /\ e.keys = S /\ e.ok = ok /\ e.active = active
    BY <1>1, EntryMade
  <1>3. Control!Logged(t)
    OBVIOUS
  <1> HIDE DEF e
  <1>4. Following(audit, t) /\ Len(t) = 1 /\ t[1] = e
    BY <1>1, <1>2, OneFollows
  <1> HIDE DEF t
  <1>5. \A k : Changes(e, k) <=> k \in S /\ ok /\ op = "change"
    BY <1>2, Zenon DEF Changes
  <1>6. 1..Len(t) = {1}
    BY <1>4
  <1>7. ASSUME NEW k \in DOMAIN store'
        PROVE  /\ store'[k] \in BOOLEAN
               /\ \/ /\ k \in DOMAIN store /\ store'[k] = store[k]
                     /\ \A n \in 1..Len(t) : ~Changes(t[n], k)
                  \/ \E i \in 1..Len(t) :
                       /\ Changes(t[i], k) /\ t[i].active = store'[k]
                       /\ \A n \in 1..Len(t) : n > i => ~Changes(t[n], k)
    <2>1. store'[k] \in BOOLEAN
      OBVIOUS
    <2>2. CASE k \in DOMAIN store /\ store'[k] = store[k] /\ (k \notin S \/ ~ok \/ op # "change")
      <3>1. \A n \in 1..Len(t) : ~Changes(t[n], k)
        BY <1>4, <1>5, <1>6, <2>2, Zenon
      <3>2. QED
        BY <2>1, <2>2, <3>1, Zenon
    <2>3. CASE k \in S /\ ok /\ op = "change" /\ active = store'[k]
      <3>1. 1 \in 1..Len(t) /\ ~ (1 > 1)
        BY <1>4
      <3>2. Changes(t[1], k) /\ t[1].active = store'[k]
        BY <1>2, <1>4, <1>5, <2>3, Zenon
      <3>3. \A n \in 1..Len(t) : n > 1 => ~Changes(t[n], k)
        BY <1>6
      <3>4. QED
        BY <2>1, <3>1, <3>2, <3>3, Zenon
    <2>4. QED
      BY <2>2, <2>3, Zenon
  <1>8. QED
    BY <1>3, <1>4, <1>7, AuditGrows

LEMMA LoginKeeps ==
  ASSUME AccessInv, Control!Login
  PROVE  AccessInv'
  <1>1. /\ tokens < MaxTokens /\ tokens' = tokens + 1 /\ blacklist' = blacklist /\ issued' = issued
        /\ store' = store /\ audit' = audit
    BY DEF Control!Login
  <1>2. MaxTokens \in Nat /\ tokens \in 0..MaxTokens
    BY AuthAssumption DEF AccessInv, Control!AccessAssumption
  <1>3. tokens' \in 0..MaxTokens /\ 1..tokens \subseteq 1..tokens'
    BY <1>1, <1>2
  <1>4. blacklist' \in [Control!Managers -> SUBSET (1..tokens')]
    BY <1>1, <1>3 DEF AccessInv
  <1>5. Control!Managers' = Control!Managers
    BY DEF Control!Managers
  <1>6. QED
    BY <1>1, <1>3, <1>4, <1>5 DEF AccessInv

LEMMA LogoutKeeps ==
  ASSUME AccessInv, NEW c \in Control!Credentials, Control!Logout(c)
  PROVE  AccessInv'
  <1>1. /\ blacklist' = [blacklist EXCEPT !["routes"] = @ \cup {c.token}]
        /\ tokens' = tokens /\ issued' = issued /\ store' = store /\ audit' = audit
    BY DEF Control!Logout
  <1>2. c.token # NoCredential
    BY DEF Control!Logout, Control!Accepts, Control!ValidToken
  <1>3. c.token \in 1..tokens
    BY <1>2 DEF Control!Credentials, Control!Tokens
  <1>4. "routes" \in Control!Managers /\ Control!Managers' = Control!Managers
    BY DEF Control!Managers
  <1>5. blacklist' \in [Control!Managers -> SUBSET (1..tokens)] /\ blacklist'["routes"] = blacklist["routes"] \cup {c.token}
    BY <1>1, <1>3, <1>4 DEF AccessInv
  <1>6. QED
    BY <1>1, <1>4, <1>5 DEF AccessInv

\* A batch changes the keys that it names, and enters each of them once.
LEMMA BatchKeeps ==
  ASSUME AccessInv, NEW c, NEW status, NEW active \in BOOLEAN, Control!Batch(c, status, active)
  PROVE  AccessInv'
  <1> DEFINE S == {k \in Control!KeysOf("admin") : status \in {"any", IF store[k] THEN "active" ELSE "revoked"}}
             q == Control!Chosen(status)
             t == Control!BatchEntries(q, active)
  <1>1. /\ Control!Logged(t)
        /\ store' = [k \in Control!KeysOf("admin") |-> IF k \in Control!ToSet(q) THEN active ELSE store[k]]
        /\ tokens' = tokens /\ blacklist' = blacklist /\ issued' = issued
    BY Zenon DEF Control!Batch
  <1>2. /\ Numbered(audit) /\ DOMAIN store \subseteq 1..issued /\ issued \in 0..MaxIssued
        /\ \A k \in DOMAIN store : store[k] \in BOOLEAN
    BY DEF AccessInv
  <1>3. Control!KeysOf("admin") = DOMAIN store
    BY DEF Control!KeysOf
  <1>4. S \subseteq Nat /\ IsFiniteSet(S) /\ S \subseteq DOMAIN store
    <2>1. S \subseteq DOMAIN store
      BY <1>3
    <2>2. 1 \in Int /\ issued \in Int
      BY <1>2
    <2>3. IsFiniteSet(1..issued)
      BY <2>2, FS_Interval, Zenon
    <2> HIDE DEF S
    <2>4. QED
      BY <1>2, <2>1, <2>3, FS_Subset
  <1>5. q = [n \in 1..Cardinality(S) |-> Place(S, n)]
    <2>1. q = [n \in 1..Control!Cardinality(S) |-> Control!Place(S, n)]
      BY Zenon DEF Control!Chosen
    <2>2. QED
      BY <2>1, SameInAccess, Zenon
  <1> HIDE DEF S, q, t
  <1>6. /\ Cardinality(S) \in Nat
        /\ \A n \in 1..Cardinality(S) : Place(S, n) \in S
        /\ \A k \in S : \E n \in 1..Cardinality(S) : Place(S, n) = k
        /\ \A n, m \in 1..Cardinality(S) : Place(S, n) = Place(S, m) => n = m
    BY <1>4, PlacesOnce
  <1>7. /\ q \in Seq(Nat) /\ DOMAIN q = 1..Len(q) /\ Len(q) \in Nat
        /\ \A n \in 1..Len(q) : q[n] \in S
        /\ \A k \in S : \E n \in 1..Len(q) : q[n] = k
        /\ \A n, m \in 1..Len(q) : q[n] = q[m] => n = m
    <2>1. \A n \in 1..Cardinality(S) : Place(S, n) \in Nat
      BY <1>4, <1>6
    <2>2. q \in [1..Cardinality(S) -> Nat]
      BY <1>5, <2>1
    <2>3. q \in Seq(Nat) /\ Len(q) = Cardinality(S)
      BY <1>6, <2>2
    <2>4. DOMAIN q = 1..Len(q) /\ \A n \in 1..Len(q) : q[n] = Place(S, n)
      BY <1>5, <2>3
    <2>5. QED
      BY <1>6, <2>3, <2>4
  <1>8. Control!ToSet(q) = S
    <2>1. Control!ToSet(q) = {q[i] : i \in 1..Len(q)}
      BY <1>7, SameInAccess
    <2>2. QED
      BY <1>7, <2>1
  <1>9. /\ Following(audit, t) /\ Len(t) = Len(q) + 1
        /\ \A n \in 1..Len(q) : t[n].op = "change" /\ t[n].keys = {q[n]} /\ t[n].ok /\ t[n].active = active
        /\ t[Len(q) + 1].op = "batch"
    BY <1>2, <1>7, BatchFollows, ZenonT(40) DEF t
  <1>10. DOMAIN store' = DOMAIN store /\ \A k \in DOMAIN store : store'[k] = IF k \in S THEN active ELSE store[k]
    BY <1>1, <1>3, <1>8
  <1>11. \A n \in 1..Len(t) : n \in 1..Len(q) \/ n = Len(q) + 1
    BY <1>7, <1>9
  <1>12. \A n \in 1..Len(t) : \A k : Changes(t[n], k) => n \in 1..Len(q) /\ k = q[n]
    <2>1. SUFFICES ASSUME NEW n \in 1..Len(t), NEW k, Changes(t[n], k) PROVE n \in 1..Len(q) /\ k = q[n]
      BY Zenon
    <2>2. t[n].op = "change" /\ k \in t[n].keys
      BY <2>1, Zenon DEF Changes
    <2>3. n # Len(q) + 1
      BY <1>9, <2>2
    <2>4. n \in 1..Len(q)
      BY <1>11, <2>3
    <2>5. QED
      BY <1>9, <2>2, <2>4
  <1>13. \A n \in 1..Len(q) : n \in 1..Len(t) /\ Changes(t[n], q[n]) /\ t[n].active = active
    <2>1. \A n \in 1..Len(q) : n \in 1..Len(t)
      BY <1>7, <1>9
    <2>2. \A n \in 1..Len(q) : q[n] \in t[n].keys
      BY <1>9
    <2>3. QED
      BY <1>9, <2>1, <2>2, Zenon DEF Changes
  <1>14. ASSUME NEW k \in DOMAIN store'
         PROVE  /\ store'[k] \in BOOLEAN
                /\ \/ /\ k \in DOMAIN store /\ store'[k] = store[k]
                      /\ \A n \in 1..Len(t) : ~Changes(t[n], k)
                   \/ \E i \in 1..Len(t) :
                        /\ Changes(t[i], k) /\ t[i].active = store'[k]
                        /\ \A n \in 1..Len(t) : n > i => ~Changes(t[n], k)
    <2>1. k \in DOMAIN store
      BY <1>10
    <2>2. CASE k \notin S
      <3>1. store'[k] = store[k]
        BY <1>10, <2>1, <2>2
      <3>2. \A n \in 1..Len(t) : ~Changes(t[n], k)
        <4>1. SUFFICES ASSUME NEW n \in 1..Len(t), Changes(t[n], k) PROVE FALSE
          OBVIOUS
        <4>2. n \in 1..Len(q) /\ k = q[n]
          BY <1>12, <4>1, Zenon
        <4>3. k \in S
          BY <1>7, <4>2
        <4>4. QED
          BY <2>2, <4>3
      <3>3. store[k] \in BOOLEAN
        BY <1>2, <2>1
      <3>4. QED
        BY <2>1, <3>1, <3>2, <3>3, Zenon
    <2>3. CASE k \in S
      <3>1. store'[k] = active
        BY <1>10, <2>1, <2>3
      <3>2. PICK i \in 1..Len(q) : q[i] = k
        BY <1>7, <2>3
      <3>3. i \in 1..Len(t) /\ Changes(t[i], k) /\ t[i].active = store'[k]
        BY <1>13, <3>1, <3>2, Zenon
      <3>4. \A n \in 1..Len(t) : n > i => ~Changes(t[n], k)
        <4>1. SUFFICES ASSUME NEW n \in 1..Len(t), n > i, Changes(t[n], k) PROVE FALSE
          OBVIOUS
        <4>2. n \in 1..Len(q) /\ q[n] = q[i]
          BY <1>12, <3>2, <4>1, Zenon
        <4>3. n = i
          BY <1>7, <4>2
        <4>4. QED
          BY <1>7, <4>1, <4>3
      <3>5. QED
        BY <3>1, <3>3, <3>4, Zenon
    <2>4. QED
      BY <2>2, <2>3, Zenon
  <1>15. issued' \in 0..MaxIssued /\ DOMAIN store' \subseteq 1..issued'
    BY <1>1, <1>2, <1>10
  <1>16. QED
    BY <1>1, <1>9, <1>14, <1>15, AuditGrows

\* A creation, a change of one key, and what only looks or fails.
LEMMA OneKeyKeeps ==
  ASSUME AccessInv,
         \E c \in Control!Credentials :
           \/ Control!CreateKey(c) \/ Control!CreateAdminKey(c) \/ Control!Look(c)
           \/ Control!Fails(c, "change") \/ Control!Fails(c, "batch")
           \/ \E k \in 1..issued, active \in BOOLEAN : Control!Change(c, k, active)
  PROVE  AccessInv'
  <1>1. /\ MaxIssued \in Nat /\ issued \in 0..MaxIssued /\ DOMAIN store \subseteq 1..issued
        /\ \A k \in DOMAIN store : store[k] \in BOOLEAN
    BY AuthAssumption DEF AccessInv, Control!AccessAssumption
  <1>2. Control!KeysOf("admin") = DOMAIN store /\ Control!Managers' = Control!Managers
    BY DEF Control!KeysOf, Control!Managers
  <1>3. TRUE \in BOOLEAN /\ FALSE \in BOOLEAN /\ {} \in SUBSET Nat
    OBVIOUS
  <1>4. ASSUME NEW c, Control!CreateKey(c) PROVE AccessInv'
    <2>1. /\ issued < MaxIssued /\ issued' = issued + 1 /\ tokens' = tokens /\ blacklist' = blacklist
          /\ store' = store /\ audit' = audit
      BY <1>4 DEF Control!CreateKey
    <2>2. issued' \in 0..MaxIssued /\ DOMAIN store' \subseteq 1..issued'
      BY <1>1, <2>1
    <2>3. QED
      BY <1>2, <2>1, <2>2 DEF AccessInv
  <1>5. ASSUME NEW c, Control!CreateAdminKey(c) PROVE AccessInv'
    <2> DEFINE n == issued + 1
    <2>1. /\ issued < MaxIssued /\ issued' = n /\ tokens' = tokens /\ blacklist' = blacklist
          /\ store' = [k \in DOMAIN store \cup {n} |-> IF k = n THEN TRUE ELSE store[k]]
          /\ Control!Logged(<<Control!Entry("change", {n}, TRUE, TRUE)>>)
      BY <1>2, <1>5 DEF Control!CreateAdminKey
    <2>2. n \in Nat /\ {n} \in SUBSET Nat /\ issued' \in 0..MaxIssued /\ \A k \in 1..issued : k \in 1..n
      BY <1>1, <2>1
    <2> HIDE DEF n
    <2>3. DOMAIN store' = DOMAIN store \cup {n}
      BY <2>1
    <2>4. DOMAIN store' \subseteq 1..issued'
      <3>1. n \in 1..n
        BY <1>1 DEF n
      <3>2. \A k \in DOMAIN store \cup {n} : k \in 1..n
        BY <1>1, <2>2, <3>1
      <3>3. QED
        BY <2>1, <2>3, <3>2
    <2>5. ASSUME NEW k \in DOMAIN store'
          PROVE  /\ store'[k] \in BOOLEAN
                 /\ \/ k \in DOMAIN store /\ store'[k] = store[k] /\ (k \notin {n} \/ ~TRUE \/ "change" # "change")
                    \/ k \in {n} /\ TRUE /\ "change" = "change" /\ TRUE = store'[k]
      <3>1. CASE k = n
        <4>1. store'[k] = TRUE
          BY <2>1, <2>3, <3>1
        <4>2. QED
          BY <3>1, <4>1
      <3>2. CASE k # n
        <4>1. k \in DOMAIN store /\ store'[k] = store[k]
          BY <2>1, <2>3, <3>2
        <4>2. QED
          BY <1>1, <3>2, <4>1
      <3>3. QED
        BY <3>1, <3>2
    <2>6. "change" \in {"change", "batch", "look"}
      OBVIOUS
    <2>7. QED
      BY <1>3, <2>1, <2>2, <2>4, <2>5, <2>6, OneIsLogged
  <1>6. ASSUME NEW c, NEW op \in {"change", "batch", "look"}, NEW ok \in BOOLEAN,
               Control!Logged(<<Control!Entry(op, {}, ok, ok)>>),
               UNCHANGED <<tokens, blacklist, issued, store>>
        PROVE  AccessInv'
    <2>1. /\ tokens' = tokens /\ blacklist' = blacklist /\ issued' = issued /\ store' = store
      BY <1>6
    <2>2. issued' \in 0..MaxIssued /\ DOMAIN store' \subseteq 1..issued'
      BY <1>1, <2>1
    <2>3. ASSUME NEW k \in DOMAIN store'
          PROVE  /\ store'[k] \in BOOLEAN
                 /\ \/ k \in DOMAIN store /\ store'[k] = store[k] /\ (k \notin {} \/ ~ok \/ op # "change")
                    \/ k \in {} /\ ok /\ op = "change" /\ ok = store'[k]
      BY <1>1, <2>1
    <2>4. QED
      BY <1>3, <1>6, <2>1, <2>2, <2>3, OneIsLogged
  <1>7. ASSUME NEW c, NEW k \in 1..issued, NEW active \in BOOLEAN, Control!Change(c, k, active)
        PROVE  AccessInv'
    <2> DEFINE ok == k \in DOMAIN store
    <2>1. /\ issued' = issued /\ tokens' = tokens /\ blacklist' = blacklist
          /\ store' = [j \in DOMAIN store |-> IF j = k THEN active ELSE store[j]]
          /\ Control!Logged(<<Control!Entry("change", {k}, ok, active)>>)
      BY <1>2, <1>7 DEF Control!Change
    <2>2. {k} \in SUBSET Nat /\ issued' \in 0..MaxIssued
      BY <1>1, <2>1
    <2>3. DOMAIN store' = DOMAIN store /\ DOMAIN store' \subseteq 1..issued'
      BY <1>1, <2>1
    <2>4. ok \in BOOLEAN /\ "change" \in {"change", "batch", "look"}
      OBVIOUS
    <2>5. ASSUME NEW j \in DOMAIN store'
          PROVE  /\ store'[j] \in BOOLEAN
                 /\ \/ j \in DOMAIN store /\ store'[j] = store[j] /\ (j \notin {k} \/ ~ok \/ "change" # "change")
                    \/ j \in {k} /\ ok /\ "change" = "change" /\ active = store'[j]
      <3>1. CASE j = k
        <4>1. store'[j] = active /\ ok
          BY <2>1, <2>3, <3>1
        <4>2. QED
          BY <3>1, <4>1
      <3>2. CASE j # k
        <4>1. j \in DOMAIN store /\ store'[j] = store[j]
          BY <2>1, <2>3, <3>2
        <4>2. QED
          BY <1>1, <3>2, <4>1
      <3>3. QED
        BY <3>1, <3>2
    <2> HIDE DEF ok
    <2>6. QED
      BY <2>1, <2>2, <2>3, <2>4, <2>5, OneIsLogged
  <1>8. ASSUME NEW c, NEW op \in {"change", "batch"}, Control!Fails(c, op) PROVE AccessInv'
    <2>1. /\ Control!Logged(<<Control!Entry(op, {}, FALSE, FALSE)>>)
          /\ UNCHANGED <<tokens, blacklist, issued, store>>
      BY <1>8, Zenon DEF Control!Fails
    <2>2. op \in {"change", "batch", "look"}
      OBVIOUS
    <2>3. QED
      BY <1>3, <1>6, <2>1, <2>2
  <1>9. ASSUME NEW c, Control!Look(c) PROVE AccessInv'
    <2>1. /\ Control!Logged(<<Control!Entry("look", {}, TRUE, TRUE)>>)
          /\ UNCHANGED <<tokens, blacklist, issued, store>>
      BY <1>9, Zenon DEF Control!Look
    <2>2. "look" \in {"change", "batch", "look"}
      OBVIOUS
    <2>3. QED
      BY <1>3, <1>6, <2>1, <2>2
  <1>10. "change" \in {"change", "batch"} /\ "batch" \in {"change", "batch"}
    OBVIOUS
  <1>11. QED
    BY <1>4, <1>5, <1>7, <1>8, <1>9, <1>10, Zenon

LEMMA ReadingKeeps ==
  ASSUME AccessInv, Control!ReadAudit
  PROVE  AccessInv'
  <1>1. /\ audit' = [n \in DOMAIN audit |-> CHOOSE e \in Control!ToSet(audit) : e.at = Len(audit) - n]
        /\ tokens' = tokens /\ blacklist' = blacklist /\ issued' = issued /\ store' = store
    BY DEF Control!ReadAudit
  <1>2. audit' = NewestFirst(audit)
    BY <1>1, Zenon DEF NewestFirst, Control!ToSet
  <1>3. Numbered(audit) /\ Len(audit) <= MaxAudit /\ \A k \in DOMAIN store : Says(audit, k, store[k])
    BY DEF AccessInv
  <1>4. /\ Numbered(NewestFirst(audit)) /\ Len(NewestFirst(audit)) = Len(audit)
        /\ \A k, active : Says(audit, k, active) => Says(NewestFirst(audit), k, active)
    BY <1>3, SortedSays
  <1>5. Numbered(audit') /\ Len(audit') <= MaxAudit /\ \A k \in DOMAIN store : Says(audit', k, store[k])
    BY <1>2, <1>3, <1>4
  <1>6. Control!Managers' = Control!Managers
    BY DEF Control!Managers
  <1>7. QED
    BY <1>1, <1>5, <1>6 DEF AccessInv

LEMMA RestartKeeps ==
  ASSUME AccessInv, Control!Restart
  PROVE  AccessInv'
  <1>1. /\ blacklist' = [m \in Control!Managers |-> {}] /\ store' = <<>> /\ audit' = <<>>
        /\ issued' = 0 /\ tokens' = tokens
    BY DEF Control!Restart
  <1>2. MaxIssued \in Nat /\ MaxAudit \in Nat
    BY AuthAssumption DEF Control!AccessAssumption
  <1>3. DOMAIN store' = {} /\ Len(audit') = 0
    BY <1>1
  <1>4. Numbered(audit')
    BY <1>1, <1>3 DEF Numbered
  <1>5. blacklist' \in [Control!Managers -> SUBSET (1..tokens)] /\ Control!Managers' = Control!Managers
    BY <1>1 DEF Control!Managers
  <1>6. QED
    BY <1>1, <1>2, <1>3, <1>4, <1>5 DEF AccessInv

\* Of any number of tokens, keys and operations: the log tells of every key what it is now.
THEOREM AccessInvariant == AuthSpec => []AccessInv
  <1>1. AuthInit => AccessInv
    BY NothingDone DEF AuthInit
  <1>2. ASSUME AccessInv,
               [AuthNext]_<<part, now, vars, SessVars, RateVars, KeysVars, AccessVars, WatchVars>>
        PROVE  AccessInv'
    <2>1. CASE UNCHANGED AccessVars
      <3>1. /\ tokens' = tokens /\ blacklist' = blacklist /\ issued' = issued /\ store' = store
            /\ audit' = audit /\ Control!Managers' = Control!Managers
        BY <2>1 DEF AccessVars, Control!Managers
      <3>2. QED
        BY <1>2, <3>1 DEF AccessInv
    <2>2. CASE Control!Next
      <3>1. CASE Control!Login \/ Control!ReadAudit \/ Control!Restart
        BY <1>2, <3>1, LoginKeeps, ReadingKeeps, RestartKeeps
      <3>2. ASSUME NEW c \in Control!Credentials, Control!Logout(c) PROVE AccessInv'
        BY <1>2, <3>2, LogoutKeeps
      <3>3. ASSUME NEW c \in Control!Credentials, NEW status \in {"any", "active", "revoked"},
                   NEW active \in BOOLEAN, Control!Batch(c, status, active)
            PROVE  AccessInv'
        BY <1>2, <3>3, BatchKeeps
      <3>4. QED
        BY <1>2, <2>2, <3>1, <3>2, <3>3, OneKeyKeeps, Zenon DEF Control!Next
    <2>3. QED
      BY <1>2, <2>1, <2>2, Zenon DEF AuthNext
  <1>3. QED
    BY <1>1, <1>2, PTL DEF AuthSpec

\* What the invariant says of the log, in the words of AccessControl.
LEMMA AuditTells ==
  ASSUME AccessInv
  PROVE  Control!AuditTellsState
  <1>1. SUFFICES ASSUME NEW k \in DOMAIN store
                 PROVE  \E e \in Control!ToSet(audit) :
                          /\ e.ok /\ e.op = "change" /\ k \in e.keys
                          /\ e.active = store[k]
                          /\ \A f \in Control!ToSet(audit) : f.at > e.at /\ f.ok /\ k \in f.keys => f.op # "change"
    BY Zenon DEF Control!AuditTellsState
  <1>2. PICK n \in 1..Len(audit) :
          /\ Changes(audit[n], k) /\ audit[n].active = store[k]
          /\ \A m \in 1..Len(audit) : audit[m].at > audit[n].at => ~Changes(audit[m], k)
    BY <1>1, Zenon DEF AccessInv, Says
  <1>3. DOMAIN audit = 1..Len(audit)
    BY DEF AccessInv, Numbered
  <1>4. Control!ToSet(audit) = {audit[i] : i \in 1..Len(audit)}
    BY <1>3, SameInAccess
  <1> DEFINE e == audit[n]
  <1>5. e \in Control!ToSet(audit) /\ Changes(e, k) /\ e.active = store[k]
    BY <1>2, <1>4
  <1>6. \A f \in Control!ToSet(audit) : f.at > e.at => ~Changes(f, k)
    BY <1>2, <1>4
  <1> HIDE DEF e
  <1>7. QED
    BY <1>5, <1>6, Zenon DEF Changes

LEMMA AccessTypes ==
  ASSUME AccessInv
  PROVE  Control!TypeOK
  BY Zenon DEF AccessInv, Control!TypeOK, Control!Tokens

---------------------------------------------------------------------------
(* Lists in the order of time, and what is left of them.                   *)

\* A list of times in their order.
Ordered(s) == s \in Seq(Nat) /\ \A i, j \in 1..Len(s) : i <= j => s[i] <= s[j]

\* What is left of s without its first k elements.
Rest(s, k) == [n \in 1..(Len(s) - k) |-> s[k + n]]

\* Of a list in order, those later than a time are the list without its first few.
LEMMA LateOnes ==
  ASSUME NEW s, Ordered(s), NEW d \in Nat, NEW n \in Nat
  PROVE  \E k \in 0..Len(s) :
           /\ Selected(s, {i \in DOMAIN s : s[i] + d > n}) = Rest(s, k)
           /\ \A i \in 1..Len(s) : i > k <=> s[i] + d > n
  <1> DEFINE K == {i \in DOMAIN s : s[i] + d > n}
  <1>1. Len(s) \in Nat /\ DOMAIN s = 1..Len(s) /\ \A i \in 1..Len(s) : s[i] \in Nat
    BY DEF Ordered
  <1>2. K \subseteq 1..Len(s)
    BY <1>1
  <1>3. \A i \in K : \A j \in 1..Len(s) : i <= j => j \in K
    BY <1>1 DEF Ordered
  <1>4. \A i \in 1..Len(s) : i \in K <=> s[i] + d > n
    BY <1>1
  <1> HIDE DEF K
  <1>5. PICK k \in 0..Len(s) : K = (k + 1)..Len(s)
    BY <1>1, <1>2, <1>3, LaterPlaces
  <1>6. Selected(s, K) = Rest(s, k)
    BY <1>1, <1>5, SelectedRest DEF Rest
  <1>7. \A i \in 1..Len(s) : i > k <=> s[i] + d > n
    BY <1>4, <1>5, <1>1
  <1>8. QED
    BY <1>6, <1>7 DEF K

\* What is left of a list in order is in order, and an element that is no earlier than any
\* other may follow.
LEMMA RestOrdered ==
  ASSUME NEW s, Ordered(s), NEW k \in 0..Len(s)
  PROVE  /\ Ordered(Rest(s, k)) /\ Len(Rest(s, k)) = Len(s) - k
         /\ \A i \in 1..(Len(s) - k) : Rest(s, k)[i] = s[k + i]
  <1> DEFINE r == Rest(s, k)
  <1>1. Len(s) \in Nat /\ \A i \in 1..Len(s) : s[i] \in Nat
    BY DEF Ordered
  <1>2. r \in [1..(Len(s) - k) -> Nat] /\ \A i \in 1..(Len(s) - k) : r[i] = s[k + i]
    BY <1>1 DEF Rest
  <1> HIDE DEF r
  <1>3. r \in Seq(Nat) /\ Len(r) = Len(s) - k
    BY <1>1, <1>2, SMTT(30)
  <1>4. ASSUME NEW i \in 1..Len(r), NEW j \in 1..Len(r), i <= j
        PROVE  r[i] <= r[j]
    <2>1. /\ k + i \in 1..Len(s) /\ k + j \in 1..Len(s) /\ k + i <= k + j
          /\ r[i] = s[k + i] /\ r[j] = s[k + j]
      BY <1>1, <1>2, <1>3, <1>4
    <2>2. QED
      BY <2>1 DEF Ordered
  <1>5. QED
    BY <1>2, <1>3, <1>4 DEF Ordered, r

LEMMA AppendOrdered ==
  ASSUME NEW s, Ordered(s), NEW t \in Nat, \A i \in 1..Len(s) : s[i] <= t
  PROVE  /\ Ordered(Append(s, t)) /\ Len(Append(s, t)) = Len(s) + 1
         /\ \A i \in 1..Len(s) : Append(s, t)[i] = s[i]
         /\ Append(s, t)[Len(s) + 1] = t
  <1> DEFINE r == Append(s, t)
  <1>1. /\ s \in Seq(Nat) /\ Len(s) \in Nat
        /\ \A i \in 1..Len(s) : s[i] \in Nat
        /\ r \in Seq(Nat) /\ Len(r) = Len(s) + 1
        /\ \A i \in 1..Len(s) : r[i] = s[i]
        /\ r[Len(s) + 1] = t
    BY DEF Ordered
  <1> HIDE DEF r
  <1>2. \A i, j \in 1..Len(r) : i <= j => r[i] <= r[j]
    <2>1. \A i \in 1..Len(r) : i \in 1..Len(s) \/ i = Len(s) + 1
      BY <1>1
    <2>2. QED
      BY <1>1, <2>1, SMTT(30) DEF Ordered
  <1>3. QED
    BY <1>1, <1>2 DEF Ordered, r

\* A set of places that lie within a number of each other has no more elements than that.
LEMMA NarrowCount ==
  ASSUME NEW X, X \subseteq Nat, NEW number \in Nat, \A x, y \in X : y < x + number
  PROVE  Cardinality(X) <= number
  <1>1. CASE X = {}
    <2>1. Cardinality(X) = 0
      BY <1>1, FS_EmptySet
    <2>2. QED
      BY <2>1
  <1>2. CASE X # {}
    <2>1. PICK x \in X : \A y \in X : x <= y
      BY <1>2, LeastNatural
    <2>2. PICK last \in Int : last = x + number - 1
      BY <2>1
    <2>3. X \subseteq x..last
      BY <2>1, <2>2
    <2>4. x \in Int /\ IsFiniteSet(x..last) /\ Cardinality(x..last) = IF x > last THEN 0 ELSE last - x + 1
      <3>1. x \in Int
        BY <2>1
      <3>2. QED
        BY <2>2, <3>1, FS_Interval, Zenon
    <2>5. Cardinality(X) <= Cardinality(x..last)
      BY <2>3, <2>4, FS_Subset
    <2>6. QED
      BY <2>2, <2>4, <2>5
  <1>3. QED
    BY <1>1, <1>2

\* No more than a number of elements lie within a stretch of time.
Spaced(s, number, stretch) ==
  \A i \in 1..Len(s) : i + number \in 1..Len(s) => s[i] + stretch <= s[i + number]

LEMMA SpacedCount ==
  ASSUME NEW s, Ordered(s), NEW number \in Nat, NEW stretch \in Nat \ {0},
         Spaced(s, number, stretch), NEW t \in Nat
  PROVE  Cardinality({i \in DOMAIN s : s[i] >= t /\ s[i] < t + stretch}) <= number
  <1> DEFINE X == {i \in DOMAIN s : s[i] >= t /\ s[i] < t + stretch}
  <1>1. Len(s) \in Nat /\ DOMAIN s = 1..Len(s) /\ \A i \in 1..Len(s) : s[i] \in Nat
    BY DEF Ordered
  <1>2. ASSUME NEW x \in X, NEW y \in X, y >= x + number PROVE FALSE
    <2>1. x \in 1..Len(s) /\ y \in 1..Len(s) /\ x + number \in 1..Len(s)
      BY <1>1, <1>2, SMTT(30)
    <2>2. s[x] + stretch <= s[x + number] /\ s[x + number] <= s[y]
      BY <1>2, <2>1 DEF Spaced, Ordered
    <2>3. s[x] \in Nat /\ s[y] \in Nat /\ s[x + number] \in Nat /\ s[x] >= t /\ s[y] < t + stretch
      BY <1>1, <1>2, <2>1
    <2>4. QED
      BY <2>2, <2>3
  <1>3. X \subseteq Nat
    BY <1>1
  <1>4. \A x, y \in X : y < x + number
    BY <1>2, <1>3
  <1> HIDE DEF X
  <1>5. Cardinality(X) <= number
    BY <1>3, <1>4, NarrowCount
  <1>6. QED
    BY <1>5 DEF X

---------------------------------------------------------------------------
(* RateLimiting: the logs.                                                 *)

\* The instances of Selection and of FiniteSets that the parts bring are this module's.
LEMMA SameSelection ==
  /\ \A X : Rate!Cardinality(X) = Cardinality(X) /\ Keys!Cardinality(X) = Cardinality(X)
  /\ \A s, K : Rate!Selected(s, K) = Selected(s, K) /\ Keys!Selected(s, K) = Selected(s, K)
  <1>1. \A X : Rate!Cardinality(X) = Cardinality(X) /\ Keys!Cardinality(X) = Cardinality(X)
    BY Zenon DEF Rate!Cardinality, Keys!Cardinality, Cardinality
  <1>2. \A K, n : Rate!Place(K, n) = Place(K, n) /\ Keys!Place(K, n) = Place(K, n)
    BY Zenon DEF Rate!Place, Keys!Place, Place, Rate!Cardinality, Keys!Cardinality, Cardinality
  <1>3. \A s, K : Rate!Selected(s, K) = Selected(s, K) /\ Keys!Selected(s, K) = Selected(s, K)
    BY <1>1, <1>2 DEF Rate!Selected, Keys!Selected, Selected
  <1>4. QED
    BY <1>1, <1>3

\* What is left of a list twice is what is left of it once.
LEMMA RestOfRest ==
  ASSUME NEW s, Ordered(s), NEW k \in 0..Len(s), NEW l \in 0..(Len(s) - k)
  PROVE  k + l \in 0..Len(s) /\ Rest(Rest(s, k), l) = Rest(s, k + l)
  <1>1. Len(s) \in Nat
    BY DEF Ordered
  <1>2. /\ Len(Rest(s, k)) = Len(s) - k
        /\ \A i \in 1..(Len(s) - k) : Rest(s, k)[i] = s[k + i]
    BY RestOrdered
  <1>3. \A n \in 1..(Len(s) - (k + l)) : l + n \in 1..(Len(s) - k) /\ k + (l + n) = (k + l) + n
    BY <1>1
  <1>4. Len(s) - k - l = Len(s) - (k + l) /\ k + l \in 0..Len(s)
    BY <1>1
  <1>5. Rest(Rest(s, k), l) = [n \in 1..(Len(s) - (k + l)) |-> Rest(s, k)[l + n]]
    BY <1>2, <1>4, Zenon DEF Rest
  <1>6. \A n \in 1..(Len(s) - (k + l)) : Rest(s, k)[l + n] = s[(k + l) + n]
    BY <1>2, <1>3
  <1>7. [n \in 1..(Len(s) - (k + l)) |-> Rest(s, k)[l + n]] = [n \in 1..(Len(s) - (k + l)) |-> s[(k + l) + n]]
    BY <1>6
  <1>8. QED
    BY <1>4, <1>5, <1>7, Zenon DEF Rest

\* The time stamps within the window are the log without its first few: at least those
\* that are younger than the period, and none that is older.
LEMMA RecentOnes ==
  ASSUME Ordered(log), now \in Nat
  PROVE  \E k \in 0..Len(log) :
           /\ Rate!Recent = Rest(log, k)
           /\ \A i \in 1..Len(log) : log[i] + Period > now => i > k
           /\ \A i \in 1..Len(log) :
                i > k => IF kind = "sliding" THEN log[i] + Period >= now ELSE log[i] + Period > now
  <1>1. Period \in Nat /\ Keep \in Nat /\ Period <= Keep
    BY AuthAssumption DEF Rate!LimiterAssumption
  <1>2. /\ Len(log) \in Nat /\ DOMAIN log = 1..Len(log)
        /\ \A i \in 1..Len(log) : log[i] \in Nat
    BY DEF Ordered
  <1>3. \A s, d : Rate!Within(s, d) = Selected(s, {i \in DOMAIN s : s[i] + d > now})
    BY SameSelection, Zenon DEF Rate!Within
  <1>4. CASE kind = "sliding"
    <2>1. {i \in DOMAIN log : log[i] + Period >= now} = {i \in DOMAIN log : log[i] + (Period + 1) > now}
      BY <1>1, <1>2
    <2>2. Rate!Recent = Selected(log, {i \in DOMAIN log : log[i] + (Period + 1) > now})
      BY <1>4, <2>1, SameSelection, Zenon DEF Rate!Recent
    <2>3. PICK k \in 0..Len(log) :
            /\ Selected(log, {i \in DOMAIN log : log[i] + (Period + 1) > now}) = Rest(log, k)
            /\ \A i \in 1..Len(log) : i > k <=> log[i] + (Period + 1) > now
      <3>1. Period + 1 \in Nat
        BY <1>1
      <3>2. QED
        BY <3>1, LateOnes, Zenon
    <2>4. \A i \in 1..Len(log) : log[i] + Period > now => i > k
      BY <1>1, <1>2, <2>3
    <2>5. \A i \in 1..Len(log) : i > k => log[i] + Period >= now
      BY <1>1, <1>2, <2>3
    <2>6. QED
      BY <1>4, <2>2, <2>3, <2>4, <2>5
  <1>5. CASE kind = "helper" /\ now - lastCleanup > CleanupInterval
    <2>1. Rate!Recent = Rate!Within(Rate!Within(log, Keep), Period)
      BY <1>5 DEF Rate!Recent
    <2>2. PICK k \in 0..Len(log) :
            /\ Selected(log, {i \in DOMAIN log : log[i] + Keep > now}) = Rest(log, k)
            /\ \A i \in 1..Len(log) : i > k <=> log[i] + Keep > now
      BY <1>1, LateOnes
    <2>3. /\ Ordered(Rest(log, k)) /\ Len(Rest(log, k)) = Len(log) - k
          /\ \A i \in 1..(Len(log) - k) : Rest(log, k)[i] = log[k + i]
      BY RestOrdered
    <2> DEFINE r == Rest(log, k)
    <2> HIDE DEF r
    <2>4. PICK l \in 0..(Len(log) - k) :
            /\ Selected(r, {i \in DOMAIN r : r[i] + Period > now}) = Rest(r, l)
            /\ \A i \in 1..(Len(log) - k) : i > l <=> r[i] + Period > now
      BY <1>1, <2>3, LateOnes DEF r
    <2>5. Rate!Recent = Rest(r, l)
      BY <1>3, <2>1, <2>2, <2>4, Zenon DEF r
    <2>6. k + l \in 0..Len(log) /\ Rest(r, l) = Rest(log, k + l)
      BY RestOfRest DEF r
    <2>7. ASSUME NEW i \in 1..Len(log)
          PROVE  i > k + l <=> log[i] + Period > now
      <3>1. CASE i > k
        <4>1. i - k \in 1..(Len(log) - k) /\ k + (i - k) = i
          BY <1>2, <3>1
        <4>2. r[i - k] = log[i]
          BY <2>3, <4>1 DEF r
        <4>3. i - k > l <=> log[i] + Period > now
          BY <2>4, <4>1, <4>2
        <4>4. QED
          BY <4>3
      <3>2. CASE ~ (i > k)
        BY <1>1, <1>2, <2>2, <3>2
      <3>3. QED
        BY <3>1, <3>2
    <2>8. QED
      BY <1>5, <2>5, <2>6, <2>7
  <1>6. CASE kind # "sliding" /\ ~ (kind = "helper" /\ now - lastCleanup > CleanupInterval)
    <2>1. Rate!Recent = Selected(log, {i \in DOMAIN log : log[i] + Period > now})
      BY <1>3, <1>6, Zenon DEF Rate!Recent
    <2>2. PICK k \in 0..Len(log) :
            /\ Selected(log, {i \in DOMAIN log : log[i] + Period > now}) = Rest(log, k)
            /\ \A i \in 1..Len(log) : i > k <=> log[i] + Period > now
      BY <1>1, LateOnes
    <2>3. QED
      BY <1>6, <2>1, <2>2
  <1>7. QED
    BY <1>4, <1>5, <1>6

---------------------------------------------------------------------------
(* RateLimiting: the invariant.                                            *)

\* Of the requests let through that are younger than the period each is in the log still,
\* or another that came no earlier is in its place, counted from the end: requests for
\* headers only are in the log too.
Covered ==
  \A i \in 1..Len(admitted) :
    admitted[i] + Period > now =>
      /\ Len(admitted) - i < Len(log)
      /\ admitted[i] <= log[Len(log) - (Len(admitted) - i)]

\* What requests since the i-th took, and what is left, is no more than the bucket holds
\* and what it was refilled with since.
Paid ==
  \A i \in 1..Len(admitted) :
    /\ admitted[i] <= bucket.last
    /\ (Len(admitted) - i + 1) * Period + bucket.tokens
         <= Rate!Capacity + (bucket.last - admitted[i]) * Limit
    /\ \A j \in 1..Len(admitted) : i <= j =>
         (j - i + 1) * Period <= Rate!Capacity + (admitted[j] - admitted[i]) * Limit

\* When a client that was turned away may return.
Until == told + (IF kind \in {"sliding", "bucket"} \cup Rate!Windows THEN TicksPerSecond ELSE 0)

\* What it was told is enough.
Told ==
  told # 0 =>
    /\ kind = "sliding" /\ Len(log) = Limit => log[1] + Period < Until
    /\ kind = "helper" /\ Len(log) = Limit => log[1] + Period <= Until
    /\ kind \in {"calls", "security"} => \A i \in 1..Len(log) : log[i] + Period <= Until
    /\ kind \in Rate!Windows => (fixed.minute + 1) * Period <= Until
    /\ kind \in Rate!Buckets => /\ bucket.last <= Until
                                /\ Period <= bucket.tokens + (Until - bucket.last) * Limit

RateInv ==
  /\ kind \in Rate!Kinds /\ now \in Nat /\ told \in Nat /\ lastCleanup \in 0..now
  /\ Ordered(log) /\ \A i \in 1..Len(log) : log[i] <= now
  /\ Ordered(admitted) /\ \A i \in 1..Len(admitted) : admitted[i] <= now
  /\ fixed \in [minute : Nat, count : 0..Limit]
  /\ bucket \in [tokens : Nat, last : 0..now] /\ bucket.tokens <= Rate!Capacity
  /\ kind \in Rate!Logs => /\ Len(log) <= Limit /\ Covered
                           /\ Spaced(admitted, Limit, Period)
  /\ kind = "security" => Spaced(admitted, Burst, BurstPeriod)
  /\ kind \in Rate!Buckets => Paid
  /\ Told

\* What a check makes of the log: what was too old is gone, and the request may be new.
LEMMA LogStep ==
  ASSUME RateInv, kind \in Rate!Logs, NEW ok \in BOOLEAN, Rate!Kept(ok), ok => Rate!Admits
  PROVE  \E k \in 0..Len(log) :
           /\ Len(Rate!Recent) = Len(log) - k
           /\ k < Len(log) => Head(Rate!Recent) = log[k + 1]
           /\ \A i \in 1..Len(log) : log[i] + Period > now => i > k
           /\ \A i \in 1..Len(log) :
                i > k => IF kind = "sliding" THEN log[i] + Period >= now ELSE log[i] + Period > now
           /\ Ordered(log') /\ Len(log') = Len(log) - k + (IF ok THEN 1 ELSE 0)
           /\ \A i \in 1..(Len(log) - k) : log'[i] = log[k + i]
           /\ ok => log'[Len(log) - k + 1] = now
           /\ \A i \in 1..Len(log') : log'[i] <= now
           /\ Len(log') <= Limit
  <1>1. /\ Ordered(log) /\ now \in Nat /\ Len(log) \in Nat /\ Limit \in Nat
        /\ Len(log) <= Limit /\ \A i \in 1..Len(log) : log[i] <= now /\ log[i] \in Nat
    BY AuthAssumption, SMTT(30) DEF RateInv, Ordered, Rate!LimiterAssumption
  <1>2. PICK k \in 0..Len(log) :
          /\ Rate!Recent = Rest(log, k)
          /\ \A i \in 1..Len(log) : log[i] + Period > now => i > k
          /\ \A i \in 1..Len(log) :
               i > k => IF kind = "sliding" THEN log[i] + Period >= now ELSE log[i] + Period > now
    BY <1>1, RecentOnes
  <1> DEFINE r == Rate!Recent
  <1>3. /\ Ordered(r) /\ Len(r) = Len(log) - k
        /\ \A i \in 1..(Len(log) - k) : r[i] = log[k + i]
    BY <1>1, <1>2, RestOrdered
  <1>4. log' = IF ok THEN Append(r, now) ELSE r
    BY Zenon DEF Rate!Kept
  <1>5. ok => Len(r) < Limit
    BY DEF Rate!Admits
  <1> HIDE DEF r
  <1>6. k < Len(log) => Head(r) = log[k + 1]
    BY <1>1, <1>3 DEF Ordered
  <1>7. \A i \in 1..Len(r) : r[i] <= now
    <2>1. ASSUME NEW i \in 1..Len(r) PROVE r[i] <= now
      <3>1. k + i \in 1..Len(log) /\ r[i] = log[k + i]
        BY <1>1, <1>3
      <3>2. QED
        BY <1>1, <3>1
    <2>2. QED
      BY <2>1
  <1>8. CASE ok
    <2>1. /\ Ordered(log') /\ Len(log') = Len(r) + 1
          /\ \A i \in 1..Len(r) : log'[i] = r[i]
          /\ log'[Len(r) + 1] = now
      <3>1. log' = Append(r, now)
        BY <1>4, <1>8
      <3>2. QED
        BY <1>1, <1>3, <1>7, <3>1, AppendOrdered
    <2>2. \A i \in 1..Len(log') : log'[i] <= now
      BY <1>1, <1>3, <1>7, <2>1, SMTT(30)
    <2>3. /\ Len(log') = Len(log) - k + (IF ok THEN 1 ELSE 0)
          /\ \A i \in 1..(Len(log) - k) : log'[i] = log[k + i]
          /\ log'[Len(log) - k + 1] = now
          /\ Len(log') <= Limit
      BY <1>1, <1>3, <1>5, <1>8, <2>1
    <2>4. QED
      BY <1>2, <1>3, <1>6, <2>1, <2>2, <2>3, Zenon DEF r
  <1>9. CASE ~ ok
    <2>1. log' = r
      BY <1>4, <1>9
    <2>2. /\ Ordered(log') /\ Len(log') = Len(log) - k + (IF ok THEN 1 ELSE 0)
          /\ \A i \in 1..(Len(log) - k) : log'[i] = log[k + i]
          /\ \A i \in 1..Len(log') : log'[i] <= now
          /\ Len(log') <= Limit
      BY <1>1, <1>3, <1>7, <1>9, <2>1
    <2>3. QED
      BY <1>2, <1>3, <1>6, <1>9, <2>2, Zenon DEF r
  <1>10. QED
    BY <1>8, <1>9

\* Each check keeps the log over what was let through.
LEMMA CoveredStep ==
  ASSUME RateInv, kind \in Rate!Logs, NEW ok \in BOOLEAN, Rate!Kept(ok), ok => Rate!Admits,
         now' = now,
         \/ admitted' = admitted
         \/ ok /\ admitted' = Append(admitted, now)
  PROVE  Covered'
  <1>1. /\ Ordered(log) /\ now \in Nat /\ Len(log) \in Nat /\ Period \in Nat \ {0}
        /\ Ordered(admitted) /\ Len(admitted) \in Nat
        /\ \A i \in 1..Len(admitted) : admitted[i] <= now /\ admitted[i] \in Nat
        /\ Covered
    BY AuthAssumption, SMTT(30) DEF RateInv, Ordered, Rate!LimiterAssumption
  <1>2. PICK k \in 0..Len(log) :
           /\ \A i \in 1..Len(log) : log[i] + Period > now => i > k
           /\ Ordered(log') /\ Len(log') = Len(log) - k + (IF ok THEN 1 ELSE 0)
           /\ \A i \in 1..(Len(log) - k) : log'[i] = log[k + i]
           /\ ok => log'[Len(log) - k + 1] = now
    BY LogStep, Zenon
  \* The place that stands for a request is still in the log.
  <1>3. ASSUME NEW i \in 1..Len(admitted), admitted[i] + Period > now
        PROVE  LET p == Len(log) - (Len(admitted) - i) IN
                 /\ p \in (k + 1)..Len(log) /\ admitted[i] <= log[p] /\ log'[p - k] = log[p]
                 /\ log[p] \in Nat
    <2> DEFINE p == Len(log) - (Len(admitted) - i)
    <2>1. p \in 1..Len(log) /\ admitted[i] <= log[p]
      BY <1>1, <1>3 DEF Covered
    <2>2. log[p] \in Nat
      BY <2>1, <1>1, SMTT(30) DEF Ordered
    <2> HIDE DEF p
    <2>3. p > k
      BY <1>1, <1>2, <1>3, <2>1, <2>2
    <2>4. p - k \in 1..(Len(log) - k) /\ k + (p - k) = p
      BY <1>1, <2>1, <2>3
    <2>5. QED
      BY <1>2, <2>1, <2>2, <2>3, <2>4 DEF p
  <1>4. CASE ok /\ admitted' = Append(admitted, now)
    <2>1. /\ Len(admitted') = Len(admitted) + 1
          /\ \A i \in 1..Len(admitted) : admitted'[i] = admitted[i]
          /\ admitted'[Len(admitted) + 1] = now
      BY <1>1, <1>4, AppendOrdered
    <2>2. SUFFICES ASSUME NEW i \in 1..(Len(admitted) + 1), admitted'[i] + Period > now
                   PROVE  /\ Len(admitted) + 1 - i < Len(log')
                          /\ admitted'[i] <= log'[Len(log') - (Len(admitted) + 1 - i)]
      BY <2>1 DEF Covered
    <2>3. CASE i = Len(admitted) + 1
      BY <1>1, <1>2, <1>4, <2>1, <2>3
    <2>4. CASE i \in 1..Len(admitted)
      <3>1. admitted'[i] = admitted[i] /\ admitted[i] + Period > now
        BY <2>1, <2>2, <2>4
      <3>2. Len(log') - (Len(admitted) + 1 - i) = Len(log) - (Len(admitted) - i) - k
        BY <1>1, <1>2, <1>4
      <3>3. QED
        BY <1>1, <1>2, <1>3, <1>4, <2>4, <3>1, <3>2
    <2>5. QED
      BY <1>1, <2>3, <2>4
  <1>5. CASE admitted' = admitted
    <2>1. SUFFICES ASSUME NEW i \in 1..Len(admitted), admitted[i] + Period > now
                   PROVE  /\ Len(admitted) - i < Len(log')
                          /\ admitted[i] <= log'[Len(log') - (Len(admitted) - i)]
      BY <1>5 DEF Covered
    <2> DEFINE p == Len(log) - (Len(admitted) - i)
    <2>2. /\ p \in (k + 1)..Len(log) /\ admitted[i] <= log[p] /\ log'[p - k] = log[p]
          /\ p = Len(log) - (Len(admitted) - i)
          /\ log[p] \in Nat
      BY <1>3, <2>1
    <2> HIDE DEF p
    <2>3. Len(admitted) - i < Len(log')
      BY <1>1, <1>2, <2>2, SMTT(30)
    <2>4. CASE ok
      <3> DEFINE q == p - k
                 l == log'
      <3>1. Len(l) - (Len(admitted) - i) = q + 1 /\ admitted[i] <= l[q]
        BY <1>1, <1>2, <2>2, <2>4
      <3>2. q \in 1..Len(l) /\ q + 1 \in 1..Len(l) /\ q <= q + 1
        BY <1>1, <1>2, <2>2, <2>4, SMTT(30)
      <3>3. Ordered(l)
        BY <1>2
      <3> HIDE DEF q, l
      <3>4. l[q] <= l[q + 1] /\ l[q] \in Nat /\ l[q + 1] \in Nat
        BY <3>2, <3>3 DEF Ordered
      <3>5. admitted[i] <= l[Len(l) - (Len(admitted) - i)]
        BY <1>1, <3>1, <3>4
      <3>6. QED
        BY <2>3, <3>5 DEF l
    <2>5. CASE ~ ok
      <3>1. Len(log') - (Len(admitted) - i) = p - k
        BY <1>1, <1>2, <2>2, <2>5
      <3>2. QED
        BY <2>2, <2>3, <3>1
    <2>6. QED
      BY <2>4, <2>5
  <1>6. QED
    BY <1>4, <1>5

\* A list stays spaced when what is appended is late enough.
LEMMA SpacedAppend ==
  ASSUME NEW s, Ordered(s), NEW t \in Nat, \A i \in 1..Len(s) : s[i] <= t,
         NEW number \in Nat \ {0}, NEW stretch \in Nat, Spaced(s, number, stretch),
         \A i \in 1..Len(s) : i + number = Len(s) + 1 => s[i] + stretch <= t
  PROVE  Spaced(Append(s, t), number, stretch)
  <1> DEFINE l == Append(s, t)
  <1>1. /\ Len(s) \in Nat /\ Len(l) = Len(s) + 1
        /\ \A i \in 1..Len(s) : l[i] = s[i]
        /\ l[Len(s) + 1] = t
    BY AppendOrdered DEF Ordered
  <1> HIDE DEF l
  <1>2. ASSUME NEW i \in 1..Len(l), i + number \in 1..Len(l)
        PROVE  l[i] + stretch <= l[i + number]
    <2>1. i \in 1..Len(s) /\ l[i] = s[i]
      BY <1>1, <1>2
    <2>2. CASE i + number = Len(s) + 1
      <3>1. l[i + number] = t
        BY <1>1, <2>2
      <3>2. QED
        BY <2>1, <2>2, <3>1
    <2>3. CASE i + number \in 1..Len(s)
      <3>1. l[i + number] = s[i + number]
        BY <1>1, <2>3
      <3>2. QED
        BY <2>1, <2>3, <3>1 DEF Spaced
    <2>4. QED
      BY <1>1, <1>2, <2>2, <2>3
  <1>3. QED
    BY <1>2 DEF Spaced, l

\* What is let through is spaced.
LEMMA SpacedStep ==
  ASSUME RateInv, kind \in Rate!Logs, Rate!Admits
  PROVE  /\ Spaced(Append(admitted, now), Limit, Period)
         /\ kind = "security" => Spaced(Append(admitted, now), Burst, BurstPeriod)
  <1>1. /\ Ordered(log) /\ now \in Nat /\ Len(log) \in Nat /\ Period \in Nat /\ Limit \in Nat \ {0}
        /\ Burst \in Nat \ {0} /\ BurstPeriod \in Nat /\ BurstPeriod <= Period
        /\ Ordered(admitted) /\ Len(admitted) \in Nat
        /\ \A i \in 1..Len(admitted) : admitted[i] <= now /\ admitted[i] \in Nat
        /\ Covered /\ Spaced(admitted, Limit, Period)
        /\ kind = "security" => Spaced(admitted, Burst, BurstPeriod)
    BY AuthAssumption, SMTT(30) DEF RateInv, Ordered, Rate!LimiterAssumption
  <1>2. PICK k \in 0..Len(log) :
          /\ Rate!Recent = Rest(log, k)
          /\ \A i \in 1..Len(log) : log[i] + Period > now => i > k
    BY <1>1, RecentOnes
  <1> DEFINE r == Rate!Recent
  <1>3. /\ Ordered(r) /\ Len(r) = Len(log) - k
        /\ \A i \in 1..(Len(log) - k) : r[i] = log[k + i]
    BY <1>1, <1>2, RestOrdered
  <1>4. Len(r) < Limit /\ (kind = "security" => Len(Rate!Within(r, BurstPeriod)) < Burst)
    BY DEF Rate!Admits
  <1> HIDE DEF r
  <1>5. ASSUME NEW i \in 1..Len(admitted), admitted[i] + Period > now
        PROVE  LET p == Len(log) - (Len(admitted) - i) IN
                 /\ p \in 1..Len(log) /\ p > k /\ log[p] \in Nat /\ admitted[i] <= log[p]
    <2> DEFINE p == Len(log) - (Len(admitted) - i)
    <2>1. p \in 1..Len(log) /\ admitted[i] <= log[p]
      BY <1>1, <1>5 DEF Covered
    <2>2. log[p] \in Nat
      BY <2>1, <1>1, SMTT(30) DEF Ordered
    <2> HIDE DEF p
    <2>3. p > k
      BY <1>1, <1>2, <1>5, <2>1, <2>2
    <2>4. QED
      BY <2>1, <2>2, <2>3 DEF p
  <1>6. ASSUME NEW i \in 1..Len(admitted), i + Limit = Len(admitted) + 1
        PROVE  admitted[i] + Period <= now
    <2>1. SUFFICES ASSUME admitted[i] + Period > now PROVE FALSE
      BY <1>1
    <2>2. Len(log) - (Len(admitted) - i) > k
      BY <1>5, <2>1
    <2>3. QED
      BY <1>1, <1>3, <1>4, <1>6, <2>2
  <1>7. Spaced(Append(admitted, now), Limit, Period)
    BY <1>1, <1>6, SpacedAppend
  <1>8. CASE kind = "security"
    <2>1. PICK l \in 0..Len(r) :
            /\ Rate!Within(r, BurstPeriod) = Rest(r, l)
            /\ \A i \in 1..Len(r) : i > l <=> r[i] + BurstPeriod > now
      BY <1>1, <1>3, LateOnes, SameSelection, Zenon DEF Rate!Within
    <2>2. Len(Rest(r, l)) = Len(r) - l
      BY <1>3, RestOrdered
    <2>3. ASSUME NEW i \in 1..Len(admitted), i + Burst = Len(admitted) + 1
          PROVE  admitted[i] + BurstPeriod <= now
      <3>1. SUFFICES ASSUME admitted[i] + BurstPeriod > now PROVE FALSE
        BY <1>1
      <3> DEFINE p == Len(log) - (Len(admitted) - i)
      <3>2. p \in 1..Len(log) /\ p > k /\ log[p] \in Nat /\ admitted[i] <= log[p]
        BY <1>1, <1>5, <3>1, SMTT(30)
      <3>3. p = Len(log) - Burst + 1
        BY <1>1, <2>3, SMTT(30)
      <3> HIDE DEF p
      <3>4. p - k \in 1..Len(r) /\ k + (p - k) = p
        BY <1>1, <1>3, <3>2
      <3>5. r[p - k] = log[p]
        BY <1>3, <3>4
      <3>6. p - k > l
        <4>1. log[p] + BurstPeriod > now
          BY <1>1, <3>1, <3>2, SMTT(30)
        <4>2. r[p - k] + BurstPeriod > now
          BY <3>5, <4>1
        <4>3. QED
          BY <2>1, <3>4, <4>2, Zenon
      <3>7. Len(r) - l < Burst
        BY <1>4, <1>8, <2>1, <2>2
      <3>8. QED
        BY <1>1, <1>3, <2>1, <3>2, <3>3, <3>6, <3>7
    <2>4. QED
      BY <1>1, <1>7, <1>8, <2>3, SpacedAppend
  <1>9. QED
    BY <1>7, <1>8

---------------------------------------------------------------------------
(* RateLimiting: the buckets.                                              *)

\* Products and quotients, as far as they are needed.
LEMMA Products ==
  ASSUME NEW a \in Int, NEW b \in Int, NEW c \in Int
  PROVE  (a + b) * c = a * c + b * c /\ (a - b) * c = a * c - b * c /\ a * c \in Int
  OBVIOUS

LEMMA ProductsGrow ==
  ASSUME NEW a \in Int, NEW b \in Int, NEW c \in Nat, a <= b
  PROVE  a * c <= b * c
  OBVIOUS

LEMMA Quotients ==
  ASSUME NEW a \in Nat, NEW b \in Nat \ {0}
  PROVE  a \div b \in Nat /\ (a \div b) * b <= a /\ a < (a \div b + 1) * b
  OBVIOUS

\* A bucket holds one token at least.
LEMMA CapacityHolds ==
  Rate!Capacity \in Nat /\ Period <= Rate!Capacity /\ Period \in Nat \ {0} /\ Limit \in Nat \ {0}
  <1>1. /\ Limit \in Nat \ {0} /\ Burst \in Nat \ {0} /\ Period \in Nat \ {0}
    BY AuthAssumption DEF Rate!LimiterAssumption
  <1>2. /\ Burst * Period \in Nat /\ Limit * Period \in Nat
        /\ 1 * Period <= Burst * Period /\ 1 * Period <= Limit * Period
    BY <1>1, ProductsGrow
  <1>3. QED
    BY <1>1, <1>2 DEF Rate!Capacity

\* What a check makes of the bucket.
LEMMA BucketStep ==
  ASSUME RateInv, kind \in Rate!Buckets, NEW ok \in BOOLEAN, Rate!Kept(ok), ok => Rate!Admits
  PROVE  /\ Rate!Refilled \in Nat /\ Rate!Refilled <= Rate!Capacity
         /\ Rate!Refilled <= bucket.tokens + (now - bucket.last) * Limit
         /\ \/ Rate!Refilled = Rate!Capacity
            \/ Rate!Refilled = bucket.tokens + (now - bucket.last) * Limit
         /\ ok => Period <= Rate!Refilled
         /\ bucket' = [tokens |-> Rate!Refilled - (IF ok THEN Period ELSE 0), last |-> now]
  <1>1. /\ now \in Nat /\ bucket.tokens \in Nat /\ bucket.last \in 0..now
    BY DEF RateInv
  <1>2. (now - bucket.last) * Limit \in Nat
    <2>1. now - bucket.last \in Nat /\ Limit \in Nat
      BY <1>1, CapacityHolds
    <2>2. QED
      BY <2>1
  <1>3. Rate!Refilled = IF Rate!Capacity < bucket.tokens + (now - bucket.last) * Limit
                          THEN Rate!Capacity ELSE bucket.tokens + (now - bucket.last) * Limit
    BY Zenon DEF Rate!Refilled, Rate!Smaller
  <1>4. bucket' = [tokens |-> Rate!Refilled - (IF ok THEN Period ELSE 0), last |-> now]
    BY Zenon DEF Rate!Kept
  <1>5. ok => Period <= Rate!Refilled
    BY CapacityHolds, <1>1, <1>2, <1>3 DEF Rate!Admits
  <1> DEFINE f == (now - bucket.last) * Limit
  <1> HIDE DEF f
  <1>6. QED
    BY CapacityHolds, <1>1, <1>2, <1>3, <1>4, <1>5 DEF f

LEMMA PaidStep ==
  ASSUME RateInv, kind \in Rate!Buckets, NEW ok \in BOOLEAN, Rate!Kept(ok), ok => Rate!Admits,
         kind' = kind,
         \/ admitted' = admitted
         \/ ok /\ admitted' = Append(admitted, now)
  PROVE  /\ Paid' /\ bucket' \in [tokens : Nat, last : 0..now]
         /\ bucket'.tokens <= Rate!Capacity
  <1> DEFINE c == Rate!Capacity
             R == Rate!Refilled
             A == Len(admitted)
  <1>1. /\ Ordered(admitted) /\ A \in Nat /\ now \in Nat
        /\ \A i \in 1..A : admitted[i] <= now /\ admitted[i] \in Nat
        /\ bucket.tokens \in Nat /\ bucket.last \in 0..now /\ Paid
        /\ c \in Nat /\ Period <= c /\ Period \in Nat \ {0} /\ Limit \in Nat \ {0}
    BY CapacityHolds, SMTT(30) DEF RateInv, Ordered
  <1>2. /\ R \in Nat /\ R <= c /\ R <= bucket.tokens + (now - bucket.last) * Limit
        /\ ok => Period <= R
        /\ bucket' = [tokens |-> R - (IF ok THEN Period ELSE 0), last |-> now]
    BY BucketStep
  <1>3. /\ bucket' \in [tokens : Nat, last : 0..now] /\ bucket'.tokens <= c
        /\ bucket'.tokens = R - (IF ok THEN Period ELSE 0) /\ bucket'.last = now
        /\ bucket'.tokens \in Nat
    <2>1. R - (IF ok THEN Period ELSE 0) \in Nat /\ R - (IF ok THEN Period ELSE 0) <= c /\ now \in 0..now
      BY <1>1, <1>2
    <2>2. QED
      BY <1>2, <2>1
  <1>4. Rate!Capacity' = c
    BY Zenon DEF Rate!Capacity
  <1>5. ASSUME NEW i \in 1..A
        PROVE  /\ (A - i + 1) * Period + R <= c + (now - admitted[i]) * Limit
               /\ \A j \in 1..A : i <= j => (j - i + 1) * Period <= c + (admitted[j] - admitted[i]) * Limit
               /\ (A - i + 1) * Period \in Int /\ (now - admitted[i]) * Limit \in Int
    <2>1. /\ admitted[i] <= bucket.last
          /\ (A - i + 1) * Period + bucket.tokens <= c + (bucket.last - admitted[i]) * Limit
          /\ \A j \in 1..A : i <= j => (j - i + 1) * Period <= c + (admitted[j] - admitted[i]) * Limit
      BY <1>1 DEF Paid
    <2>2. /\ now - bucket.last \in Int /\ bucket.last - admitted[i] \in Int /\ Limit \in Int
          /\ (now - bucket.last) + (bucket.last - admitted[i]) = now - admitted[i]
      BY <1>1
    <2>3. /\ (now - admitted[i]) * Limit = (now - bucket.last) * Limit + (bucket.last - admitted[i]) * Limit
          /\ (now - bucket.last) * Limit \in Int /\ (bucket.last - admitted[i]) * Limit \in Int
      BY <2>2, Products
    <2>4. (A - i + 1) * Period \in Int
      <3>1. A - i + 1 \in Int /\ Period \in Int
        BY <1>1
      <3>2. QED
        BY <3>1, Products
    <2> DEFINE x == (now - bucket.last) * Limit
               y == (bucket.last - admitted[i]) * Limit
               z == (A - i + 1) * Period
               w == (now - admitted[i]) * Limit
    <2>5. /\ x \in Int /\ y \in Int /\ z \in Int /\ w = x + y
          /\ z + bucket.tokens <= c + y /\ R <= bucket.tokens + x
      BY <1>2, <2>1, <2>3, <2>4
    <2> HIDE DEF x, y, z, w, c, R
    <2>6. z + R <= c + w /\ w \in Int
      BY <1>1, <1>2, <2>5
    <2>7. QED
      BY <2>1, <2>5, <2>6 DEF x, y, z, w
  <1> HIDE DEF c, R
  <1>6. CASE admitted' = admitted
    <2>1. ASSUME NEW i \in 1..A
          PROVE  /\ admitted[i] <= now
                 /\ (A - i + 1) * Period + bucket'.tokens <= c + (now - admitted[i]) * Limit
                 /\ \A j \in 1..A : i <= j => (j - i + 1) * Period <= c + (admitted[j] - admitted[i]) * Limit
      <3> DEFINE z == (A - i + 1) * Period
                 w == (now - admitted[i]) * Limit
      <3>1. z \in Int /\ w \in Int /\ z + R <= c + w
        BY <1>5
      <3> HIDE DEF z, w
      <3>2. z + bucket'.tokens <= c + w
        BY <1>1, <1>2, <1>3, <3>1
      <3>3. QED
        BY <1>1, <1>5, <3>2 DEF z, w
    <2>2. Paid'
      BY <1>3, <1>4, <1>6, <2>1 DEF Paid
    <2>3. QED
      BY <1>3, <2>2 DEF c
  <1>7. CASE ok /\ admitted' = Append(admitted, now)
    <2>1. /\ Len(admitted') = A + 1
          /\ \A i \in 1..A : admitted'[i] = admitted[i]
          /\ admitted'[A + 1] = now
      BY <1>1, <1>7, AppendOrdered
    <2>2. bucket'.tokens = R - Period
      BY <1>3, <1>7
    <2>3. ASSUME NEW i \in 1..A
          PROVE  /\ (A + 1 - i + 1) * Period + bucket'.tokens <= c + (now - admitted[i]) * Limit
                 /\ (A + 1 - i + 1) * Period <= c + (now - admitted[i]) * Limit
      <3> DEFINE z == (A - i + 1) * Period
                 w == (now - admitted[i]) * Limit
      <3>1. z \in Int /\ w \in Int /\ z + R <= c + w
        BY <1>5
      <3>2. A + 1 - i + 1 = (A - i + 1) + 1 /\ A - i + 1 \in Int /\ Period \in Int /\ 1 \in Int
        BY <1>1
      <3>3. ((A - i + 1) + 1) * Period = z + 1 * Period
        BY <3>2, Products
      <3> DEFINE u == (A + 1 - i + 1) * Period
      <3>4. u = z + Period /\ u \in Int
        <4>1. 1 * Period = Period
          BY <3>2
        <4>2. u = z + Period
          BY <3>2, <3>3, <4>1, Zenon
        <4> HIDE DEF u, z
        <4>3. QED
          BY <3>1, <3>2, <4>2
      <3> HIDE DEF z, w, u
      <3>5. u + bucket'.tokens <= c + w /\ u <= c + w
        BY <1>1, <1>2, <1>3, <2>2, <3>1, <3>4
      <3>6. QED
        BY <3>5 DEF u, w
    <2>4. /\ (A + 1 - (A + 1) + 1) * Period = Period
          /\ (now - now) * Limit = 0
      <3>1. A + 1 - (A + 1) + 1 = 1 /\ now - now = 0
        BY <1>1
      <3>2. QED
        BY <1>1, <3>1
    <2>5. ASSUME NEW i \in 1..(A + 1)
          PROVE  /\ admitted'[i] <= now
                 /\ (A + 1 - i + 1) * Period + bucket'.tokens <= c + (now - admitted'[i]) * Limit
                 /\ \A j \in 1..(A + 1) : i <= j =>
                      (j - i + 1) * Period <= c + (admitted'[j] - admitted'[i]) * Limit
      <3>1. CASE i = A + 1
        <4>1. admitted'[i] = now /\ \A j \in 1..(A + 1) : i <= j => j = i
          BY <1>1, <2>1, <3>1
        <4>2. (A + 1 - i + 1) * Period = Period /\ (now - admitted'[i]) * Limit = 0
          BY <2>4, <3>1, <4>1
        <4>3. Period + bucket'.tokens <= c + 0 /\ Period <= c + 0
          BY <1>1, <1>2, <2>2
        <4>4. ASSUME NEW j \in 1..(A + 1), i <= j
              PROVE  (j - i + 1) * Period <= c + (admitted'[j] - admitted'[i]) * Limit
          <5>1. j = A + 1 /\ admitted'[j] = now
            BY <3>1, <4>1, <4>4
          <5>2. (j - i + 1) * Period = Period /\ (admitted'[j] - admitted'[i]) * Limit = 0
            BY <3>1, <4>1, <4>2, <5>1
          <5>3. QED
            BY <4>3, <5>2
        <4>5. (A + 1 - i + 1) * Period + bucket'.tokens <= c + (now - admitted'[i]) * Limit
          BY <4>2, <4>3
        <4>6. QED
          BY <1>1, <4>1, <4>4, <4>5
      <3>2. CASE i \in 1..A
        <4>1. admitted'[i] = admitted[i]
          BY <2>1, <3>2
        <4>2. ASSUME NEW j \in 1..(A + 1), i <= j
              PROVE  (j - i + 1) * Period <= c + (admitted'[j] - admitted'[i]) * Limit
          <5>1. CASE j = A + 1
            BY <2>1, <2>3, <3>2, <4>1, <5>1
          <5>2. CASE j \in 1..A
            BY <1>5, <2>1, <3>2, <4>1, <4>2, <5>2
          <5>3. QED
            BY <1>1, <5>1, <5>2
        <4>3. QED
          BY <1>1, <2>3, <3>2, <4>1, <4>2
      <3>3. QED
        BY <1>1, <3>1, <3>2
    <2>6. Paid'
      BY <1>3, <1>4, <2>1, <2>5 DEF Paid
    <2>7. QED
      BY <1>3, <2>6 DEF c
  <1>8. QED
    BY <1>6, <1>7

---------------------------------------------------------------------------
(* RateLimiting: what a client that is turned away is told.                *)

\* Whole seconds and one more are longer than the time that was rounded.
LEMMA RoundedSeconds ==
  ASSUME NEW x \in Nat
  PROVE  Rate!Seconds(x) \in Nat /\ x < Rate!Seconds(x) + TicksPerSecond
  <1>1. TicksPerSecond \in Nat \ {0}
    BY AuthAssumption DEF Rate!LimiterAssumption
  <1> DEFINE q == x \div TicksPerSecond
  <1>2. q \in Nat /\ x < (q + 1) * TicksPerSecond
    BY <1>1, Quotients
  <1> HIDE DEF q
  <1>3. (q + 1) * TicksPerSecond = q * TicksPerSecond + 1 * TicksPerSecond /\ q * TicksPerSecond \in Nat
    <2>1. q \in Int /\ 1 \in Int /\ TicksPerSecond \in Int
      BY <1>1, <1>2
    <2>2. q * TicksPerSecond \in Nat
      BY <1>1, <1>2
    <2>3. QED
      BY <2>1, <2>2, Products
  <1>4. Rate!Seconds(x) = q * TicksPerSecond
    BY DEF Rate!Seconds, q
  <1>5. QED
    BY <1>1, <1>2, <1>3, <1>4

LEMMA KindsAre ==
  \A k \in Rate!Kinds : k \in Rate!Logs \/ k \in Rate!Windows \/ k \in Rate!Buckets \/ k = "open"
  BY ZenonT(40) DEF Rate!Kinds, Rate!Logs, Rate!Windows, Rate!Buckets

\* The stubs let everybody in.
LEMMA OpenAdmits ==
  kind = "open" => Rate!Admits
  BY DEF Rate!Admits, Rate!Logs, Rate!Buckets, Rate!Windows

\* A client that comes back when it was told to is let in.
LEMMA UntilIsEnough ==
  ASSUME RateInv, told # 0, Until <= now
  PROVE  Rate!Admits
  <1>1. /\ Ordered(log) /\ now \in Nat /\ Len(log) \in Nat /\ Period \in Nat \ {0}
        /\ Limit \in Nat \ {0} /\ Burst \in Nat \ {0} /\ BurstPeriod \in Nat
        /\ TicksPerSecond \in Nat \ {0}
        /\ \A i \in 1..Len(log) : log[i] \in Nat
        /\ kind \in Rate!Kinds /\ told \in Nat /\ Told
        /\ fixed.minute \in Nat /\ bucket.tokens \in Nat /\ bucket.last \in 0..now
        /\ kind \in Rate!Logs => Len(log) <= Limit
    BY AuthAssumption DEF RateInv, Ordered, Rate!LimiterAssumption
  <1>2. Until \in Nat
    BY <1>1 DEF Until
  <1>3. CASE kind \in Rate!Logs
    <2>1. PICK k \in 0..Len(log) :
            /\ Rate!Recent = Rest(log, k)
            /\ \A i \in 1..Len(log) :
                 i > k => IF kind = "sliding" THEN log[i] + Period >= now ELSE log[i] + Period > now
      BY <1>1, RecentOnes
    <2> DEFINE r == Rate!Recent
    <2>2. Ordered(r) /\ Len(r) = Len(log) - k
      BY <1>1, <2>1, RestOrdered
    <2> HIDE DEF r
    <2>3. CASE kind \in {"sliding", "helper"}
      <3>1. Len(log) = Limit => log[1] + Period <= now /\ (kind = "sliding" => log[1] + Period < now)
        BY <1>1, <1>2, <2>3 DEF Told
      <3>2. Len(log) = Limit => k # 0
        BY <1>1, <2>1, <3>1
      <3>3. Len(r) < Limit
        BY <1>1, <1>3, <2>2, <3>2
      <3>4. QED
        BY <2>3, <3>3 DEF Rate!Admits, Rate!Buckets, Rate!Windows, r
    <2>4. CASE kind \in {"calls", "security"}
      <3>1. \A i \in 1..Len(log) : log[i] + Period <= now
        BY <1>1, <1>2, <2>4 DEF Told
      <3>2. \A i \in 1..Len(log) : ~ (i > k)
        BY <1>1, <2>1, <2>4, <3>1
      <3>3. Len(r) = 0
        <4>1. k = Len(log)
          BY <1>1, <3>2
        <4>2. QED
          BY <1>1, <2>2, <4>1
      <3>4. Len(Rate!Within(r, BurstPeriod)) = 0
        <4>1. PICK l \in 0..Len(r) :
                /\ Rate!Within(r, BurstPeriod) = Rest(r, l)
                /\ \A i \in 1..Len(r) : i > l <=> r[i] + BurstPeriod > now
          BY <1>1, <2>2, LateOnes, SameSelection, Zenon DEF Rate!Within
        <4>2. Len(Rest(r, l)) = Len(r) - l
          BY <2>2, RestOrdered
        <4>3. l \in 0..0
          BY <3>3, Zenon
        <4>4. l = 0 /\ 0 - 0 = 0
          BY <4>3
        <4>5. Len(r) - l = 0 - 0
          BY <3>3, <4>4, Zenon
        <4>6. QED
          BY <4>1, <4>2, <4>4, <4>5, Zenon
      <3>5. kind \notin Rate!Buckets /\ kind \notin Rate!Windows
        BY <2>4 DEF Rate!Buckets, Rate!Windows
      <3>6. 0 < Limit /\ 0 < Burst
        BY <1>1
      <3>7. QED
        BY <3>3, <3>4, <3>5, <3>6 DEF Rate!Admits, r
    <2>5. QED
      BY <1>3, <2>3, <2>4 DEF Rate!Logs
  <1>4. CASE kind \in Rate!Windows
    <2>1. (fixed.minute + 1) * Period <= Until
      BY <1>1, <1>4 DEF Told
    <2> DEFINE m == now \div Period
    <2>2. m \in Nat /\ now < (m + 1) * Period
      BY <1>1, Quotients
    <2> HIDE DEF m
    <2>3. ~ (m + 1 <= fixed.minute + 1)
      <3>1. ASSUME m + 1 <= fixed.minute + 1 PROVE FALSE
        <4>1. m + 1 \in Int /\ fixed.minute + 1 \in Int
          BY <1>1, <2>2
        <4>2. (m + 1) * Period <= (fixed.minute + 1) * Period
          BY <1>1, <3>1, <4>1, ProductsGrow
        <4>3. (m + 1) * Period \in Int /\ (fixed.minute + 1) * Period \in Int
          BY <1>1, <4>1, Products
        <4>4. QED
          BY <1>1, <1>2, <2>1, <2>2, <4>2, <4>3
      <3>2. QED
        BY <3>1
    <2>4. fixed.minute # Rate!ThisMinute
      BY <1>1, <2>2, <2>3 DEF Rate!ThisMinute, m
    <2>5. Rate!Count = 0
      BY <2>4 DEF Rate!Count
    <2>6. /\ kind \notin Rate!Buckets /\ kind \notin Rate!Logs /\ kind # "security"
      BY <1>4 DEF Rate!Buckets, Rate!Windows, Rate!Logs
    <2>7. 0 < Limit
      BY <1>1
    <2>8. QED
      BY <2>5, <2>6, <2>7 DEF Rate!Admits
  <1>5. CASE kind \in Rate!Buckets
    <2>1. Period <= bucket.tokens + (Until - bucket.last) * Limit /\ bucket.last <= Until
      BY <1>1, <1>5 DEF Told
    <2>2. Until - bucket.last \in Int /\ now - bucket.last \in Int /\ Until - bucket.last <= now - bucket.last
      BY <1>1, <1>2
    <2>3. /\ (Until - bucket.last) * Limit <= (now - bucket.last) * Limit
          /\ (Until - bucket.last) * Limit \in Int /\ (now - bucket.last) * Limit \in Int
      BY <1>1, <2>2, ProductsGrow, Products
    <2>4. Rate!Refilled = IF Rate!Capacity < bucket.tokens + (now - bucket.last) * Limit
                            THEN Rate!Capacity ELSE bucket.tokens + (now - bucket.last) * Limit
      BY Zenon DEF Rate!Refilled, Rate!Smaller
    <2> DEFINE x == (Until - bucket.last) * Limit
               y == (now - bucket.last) * Limit
    <2> HIDE DEF x, y
    <2>5. Period <= Rate!Refilled /\ Rate!Refilled \in Nat
      <3>1. x \in Int /\ y \in Int /\ x <= y /\ Period <= bucket.tokens + x
        BY <2>1, <2>3 DEF x, y
      <3>2. Rate!Refilled = IF Rate!Capacity < bucket.tokens + y THEN Rate!Capacity ELSE bucket.tokens + y
        BY <2>4 DEF y
      <3>3. QED
        BY <1>1, <3>1, <3>2, CapacityHolds
    <2>6. QED
      BY <1>1, <1>5, <2>5 DEF Rate!Admits, Rate!Windows, Rate!Logs, Rate!Buckets
  <1>6. CASE kind = "open"
    BY <1>6, OpenAdmits
  <1>7. QED
    BY <1>1, <1>3, <1>4, <1>5, <1>6, KindsAre, Zenon

\* A client that is turned away is told enough.
LEMMA ToldAway ==
  ASSUME RateInv, Rate!TurnAway
  PROVE  told' \in Nat /\ Told'
  <1>1. /\ Ordered(log) /\ now \in Nat /\ Len(log) \in Nat /\ Period \in Nat \ {0}
        /\ Limit \in Nat \ {0} /\ Burst \in Nat \ {0} /\ TicksPerSecond \in Nat \ {0}
        /\ \A i \in 1..Len(log) : log[i] \in Nat /\ log[i] <= now
        /\ kind \in Rate!Kinds /\ fixed \in [minute : Nat, count : 0..Limit]
        /\ kind \in Rate!Logs => Len(log) <= Limit
    BY AuthAssumption DEF RateInv, Ordered, Rate!LimiterAssumption
  <1>2. /\ ~ Rate!Admits /\ Rate!Kept(FALSE) /\ told' = now + Rate!RetryAfter
        /\ kind' = kind /\ now' = now
    BY Zenon DEF Rate!TurnAway
  <1>3. Until' = told' + (IF kind \in {"sliding", "bucket"} \cup Rate!Windows THEN TicksPerSecond ELSE 0)
    BY <1>2, Zenon DEF Until, Rate!Windows
  <1>4. CASE kind \in Rate!Logs
    <2>1. PICK k \in 0..Len(log) :
            /\ Len(Rate!Recent) = Len(log) - k
            /\ k < Len(log) => Head(Rate!Recent) = log[k + 1]
            /\ \A i \in 1..Len(log) :
                 i > k => IF kind = "sliding" THEN log[i] + Period >= now ELSE log[i] + Period > now
            /\ Ordered(log') /\ Len(log') = Len(log) - k
            /\ \A i \in 1..(Len(log) - k) : log'[i] = log[k + i]
            /\ \A i \in 1..Len(log') : log'[i] <= now
      <3>1. FALSE \in BOOLEAN /\ (FALSE => Rate!Admits)
        OBVIOUS
      <3>2. PICK k \in 0..Len(log) :
            /\ Len(Rate!Recent) = Len(log) - k
            /\ k < Len(log) => Head(Rate!Recent) = log[k + 1]
            /\ \A i \in 1..Len(log) :
                 i > k => IF kind = "sliding" THEN log[i] + Period >= now ELSE log[i] + Period > now
            /\ Ordered(log') /\ Len(log') = Len(log) - k + (IF FALSE THEN 1 ELSE 0)
            /\ \A i \in 1..(Len(log) - k) : log'[i] = log[k + i]
            /\ \A i \in 1..Len(log') : log'[i] <= now
        BY <1>2, <1>4, <3>1, LogStep, Zenon
      <3>3. Len(log') = Len(log) - k
        BY <1>1, <3>2
      <3>4. QED
        BY <3>2, <3>3, Zenon
    <2> DEFINE r == Rate!Recent
    <2>2. CASE kind \in {"sliding", "helper"}
      <3>1. ~ (Len(r) < Limit)
        <4>1. /\ kind \in Rate!Logs /\ kind # "security"
              /\ kind \notin Rate!Buckets /\ kind \notin Rate!Windows
          BY <1>4, <2>2 DEF Rate!Buckets, Rate!Windows
        <4>2. QED
          BY <1>2, <4>1, Zenon DEF Rate!Admits
      <3>2. k = 0 /\ Len(log) = Limit /\ Head(r) = log[1] /\ log'[1] = log[1]
        <4>1. k = 0 /\ Len(log) = Limit
          BY <1>1, <1>4, <2>1, <3>1
        <4>2. Head(r) = log[1]
          BY <1>1, <2>1, <4>1
        <4>3. log'[1] = log[1]
          BY <1>1, <2>1, <4>1
        <4>4. QED
          BY <4>1, <4>2, <4>3
      <3> DEFINE x == log[1] + Period - now
      <3>3. log[1] \in Nat /\ log[1] + Period >= now
        BY <1>1, <2>1, <3>2
      <3>4. x \in Nat /\ log[1] + Period = now + x
        BY <1>1, <3>3
      <3>5. Rate!Seconds(x) \in Nat /\ x < Rate!Seconds(x) + TicksPerSecond
        BY <3>4, RoundedSeconds
      <3>6. CASE kind = "sliding"
        <4>1. Rate!RetryAfter = Rate!Seconds(x)
          <5>1. kind # "helper" /\ kind \notin Rate!Windows /\ kind # "bucket" /\ kind # "advanced"
            BY <3>6 DEF Rate!Windows
          <5>2. QED
            BY <3>2, <3>6, <5>1, Zenon DEF Rate!RetryAfter
        <4>2. Until' = told' + TicksPerSecond
          BY <1>3, <3>6
        <4> HIDE DEF x
        <4>3. told' \in Nat /\ log'[1] + Period < Until'
          BY <1>1, <1>2, <3>2, <3>4, <3>5, <4>1, <4>2, SMTT(30)
        <4>4. kind' = "sliding" /\ kind' \notin Rate!Windows /\ kind' \notin Rate!Buckets
          BY <1>2, <3>6 DEF Rate!Windows, Rate!Buckets
        <4>5. QED
          BY <4>3, <4>4 DEF Told, Rate!Windows, Rate!Buckets
      <3>7. CASE kind = "helper"
        <4>1. Rate!RetryAfter = Rate!Seconds(x) + TicksPerSecond
          <5>1. kind # "sliding" /\ kind \notin Rate!Windows /\ kind # "bucket" /\ kind # "advanced"
            BY <3>7 DEF Rate!Windows
          <5>2. QED
            BY <3>2, <3>7, <5>1, Zenon DEF Rate!RetryAfter, Rate!HelperWait
        <4>2. Until' = told' + 0
          BY <1>3, <3>7 DEF Rate!Windows
        <4> HIDE DEF x
        <4>3. told' \in Nat /\ log'[1] + Period <= Until'
          BY <1>1, <1>2, <3>2, <3>4, <3>5, <4>1, <4>2, SMTT(30)
        <4>4. kind' = "helper" /\ kind' \notin Rate!Windows /\ kind' \notin Rate!Buckets
          BY <1>2, <3>7 DEF Rate!Windows, Rate!Buckets
        <4>5. QED
          BY <4>3, <4>4 DEF Told, Rate!Windows, Rate!Buckets
      <3>8. QED
        BY <2>2, <3>6, <3>7
    <2>3. CASE kind \in {"calls", "security"}
      <3>1. kind \notin Rate!Windows /\ kind \notin Rate!Buckets /\ kind \notin {"sliding", "bucket"}
            /\ kind # "helper" /\ kind # "advanced"
        BY <2>3 DEF Rate!Windows, Rate!Buckets
      <3>2. Rate!RetryAfter = Period
        BY <3>1, Zenon DEF Rate!RetryAfter, Rate!Windows, Rate!Buckets
      <3>3. Until' = told' + 0
        BY <1>3, <3>1
      <3>4. told' = now + Period
        BY <1>2, <3>2
      <3>5. \A i \in 1..Len(log') : log'[i] \in Nat
        BY <2>1 DEF Ordered
      <3>6. told' \in Nat /\ \A i \in 1..Len(log') : log'[i] + Period <= Until'
        BY <1>1, <2>1, <3>3, <3>4, <3>5, SMTT(30)
      <3>7. QED
        BY <1>2, <3>1, <3>6 DEF Told, Rate!Windows, Rate!Buckets
    <2>4. QED
      BY <1>4, <2>2, <2>3 DEF Rate!Logs
  <1>5. CASE kind \in Rate!Windows
    <2>2. /\ kind \notin Rate!Logs /\ kind \notin Rate!Buckets /\ kind # "security"
          /\ kind # "sliding" /\ kind # "helper" /\ kind # "bucket" /\ kind # "advanced"
      BY <1>5 DEF Rate!Windows, Rate!Logs, Rate!Buckets
    <2>3. ~ (Rate!Count < Limit)
      BY <1>2, <2>2, Zenon DEF Rate!Admits
    <2> DEFINE m == now \div Period
    <2>4. m \in Nat /\ m * Period <= now /\ now < (m + 1) * Period
      BY <1>1, Quotients
    <2>5. Rate!ThisMinute = m
      BY DEF Rate!ThisMinute
    <2> HIDE DEF m
    <2>6. fixed.minute = m
      BY <1>1, <2>3, <2>5 DEF Rate!Count
    <2>7. fixed' = fixed
      BY <1>2, Zenon DEF Rate!Kept
    <2> DEFINE y == (m + 1) * Period
               x == y - now
    <2>8. y \in Int
      BY <1>1, <2>4, Products
    <2>9. Rate!RetryAfter = Rate!Seconds(x)
      BY <1>5, <2>2, <2>5, Zenon DEF Rate!RetryAfter
    <2>10. x \in Nat /\ y = now + x
      <3>1. now < y
        BY <2>4
      <3> HIDE DEF y
      <3>2. QED
        BY <1>1, <2>8, <3>1
    <2>11. Rate!Seconds(x) \in Nat /\ x < Rate!Seconds(x) + TicksPerSecond
      BY <2>10, RoundedSeconds
    <2>12. Until' = told' + TicksPerSecond
      BY <1>3, <1>5
    <2>13. (fixed'.minute + 1) * Period = y
      BY <2>6, <2>7
    <2> HIDE DEF x, y
    <2>14. told' \in Nat /\ (fixed'.minute + 1) * Period <= Until'
      BY <1>1, <1>2, <2>8, <2>9, <2>10, <2>11, <2>12, <2>13, SMTT(30)
    <2>15. QED
      BY <1>2, <2>2, <2>14 DEF Told, Rate!Windows, Rate!Buckets, Rate!Logs
  <1>6. CASE kind \in Rate!Buckets
    <2> DEFINE R == Rate!Refilled
    <2>1. kind \notin Rate!Logs /\ kind \notin Rate!Windows /\ kind # "security"
          /\ kind # "sliding" /\ kind # "helper" /\ kind # "calls"
      BY <1>6 DEF Rate!Windows, Rate!Logs, Rate!Buckets
    <2>2. R \in Nat /\ bucket' = [tokens |-> R - 0, last |-> now]
      <3>1. FALSE \in BOOLEAN /\ (FALSE => Rate!Admits)
        OBVIOUS
      <3>2. R \in Nat /\ bucket' = [tokens |-> R - (IF FALSE THEN Period ELSE 0), last |-> now]
        BY <1>2, <1>6, <3>1, BucketStep, Zenon
      <3>3. QED
        BY <3>2
    <2>3. bucket'.tokens = R /\ bucket'.last = now
      BY <2>2
    <2>4. R < Period
      <3>1. ~ (Period <= R)
        BY <1>2, <2>1, Zenon DEF Rate!Admits
      <3>2. QED
        BY <1>1, <2>2, <3>1
    <2> HIDE DEF R
    \* It is enough to come back s later, if so much is refilled till then.
    <2>5. ASSUME NEW s \in Nat, Until' = now + s, Period <= R + s * Limit, told' \in Nat
          PROVE  told' \in Nat /\ Told'
      <3>1. Until' - bucket'.last = s /\ bucket'.last <= Until'
        BY <1>1, <2>3, <2>5
      <3>2. Period <= bucket'.tokens + (Until' - bucket'.last) * Limit
        BY <2>3, <2>5, <3>1
      <3>3. kind' # "sliding" /\ kind' # "helper" /\ kind' \notin {"calls", "security"} /\ kind' \notin Rate!Windows
        BY <1>2, <2>1
      <3>4. QED
        BY <2>5, <3>1, <3>2, <3>3, Zenon DEF Told, Rate!Windows, Rate!Buckets
    <2>6. CASE kind = "bucket"
      <3> DEFINE q == (Period - R) \div Limit
      <3>1. q \in Nat /\ Period - R < (q + 1) * Limit
        <4>1. Period - R \in Nat
          BY <1>1, <2>2, <2>4
        <4>2. QED
          BY <1>1, <4>1, Quotients
      <3>2. Rate!RetryAfter = Rate!Seconds(q)
        BY <2>1, <2>6, Zenon DEF Rate!RetryAfter, R
      <3> HIDE DEF q
      <3>3. Rate!Seconds(q) \in Nat /\ q < Rate!Seconds(q) + TicksPerSecond
        BY <3>1, RoundedSeconds
      <3>4. Until' = told' + TicksPerSecond
        BY <1>3, <2>6
      <3> DEFINE s == Rate!Seconds(q) + TicksPerSecond
      <3>5. s \in Nat /\ Until' = now + s /\ told' \in Nat /\ q + 1 <= s
        BY <1>1, <1>2, <3>1, <3>2, <3>3, <3>4, SMTT(30)
      <3> HIDE DEF s
      <3>6. (q + 1) * Limit <= s * Limit /\ (q + 1) * Limit \in Int /\ s * Limit \in Int
        <4>1. q + 1 \in Int /\ s \in Int /\ Limit \in Nat /\ Limit \in Int
          BY <1>1, <3>1, <3>5
        <4>2. QED
          BY <3>5, <4>1, ProductsGrow, Products
      <3>7. Period <= R + s * Limit
        BY <1>1, <2>2, <3>1, <3>6
      <3>8. QED
        BY <2>5, <3>5, <3>7
    <2>7. CASE kind = "advanced"
      <3> DEFINE a == Period - R + Limit - 1
                 q == a \div Limit
      <3>1. a \in Nat
        BY <1>1, <2>2, <2>4
      <3>2. Rate!RetryAfter = q
        BY <2>1, <2>7, Zenon DEF Rate!RetryAfter, R
      <3>3. q \in Nat /\ a < (q + 1) * Limit
        BY <1>1, <3>1, Quotients
      <3>4. Until' = told' + 0
        BY <1>3, <2>1, <2>7
      <3> HIDE DEF q
      <3>5. (q + 1) * Limit = q * Limit + 1 * Limit /\ q * Limit \in Int
        <4>1. q \in Int /\ 1 \in Int /\ Limit \in Int
          BY <1>1, <3>3
        <4>2. QED
          BY <4>1, Products
      <3>6. Period <= R + q * Limit
        BY <1>1, <2>2, <3>3, <3>5
      <3>7. Until' = now + q /\ told' \in Nat
        BY <1>1, <1>2, <3>2, <3>3, <3>4
      <3>8. QED
        BY <2>5, <3>3, <3>6, <3>7
    <2>8. QED
      BY <1>6, <2>6, <2>7 DEF Rate!Buckets
  <1>7. kind # "open"
    BY <1>2, OpenAdmits
  <1>8. QED
    BY <1>1, <1>4, <1>5, <1>6, <1>7, KindsAre, Zenon

\* What it was told stays enough when only headers are asked for meanwhile.
LEMMA ToldStays ==
  ASSUME RateInv, ~ Rate!Admits, Rate!Kept(FALSE), kind' = kind, now' = now, told' = told
  PROVE  Told'
  <1>1. /\ Ordered(log) /\ now \in Nat /\ Len(log) \in Nat /\ Period \in Nat \ {0}
        /\ Limit \in Nat \ {0} /\ TicksPerSecond \in Nat \ {0}
        /\ \A i \in 1..Len(log) : log[i] \in Nat
        /\ kind \in Rate!Kinds /\ told \in Nat /\ Told
        /\ bucket.tokens \in Nat /\ bucket.last \in 0..now
        /\ kind \in Rate!Logs => Len(log) <= Limit
    BY AuthAssumption DEF RateInv, Ordered, Rate!LimiterAssumption
  <1>2. Until' = Until /\ Until \in Nat
    <2>1. Until' = Until
      BY Zenon DEF Until, Rate!Windows
    <2>2. Until \in Nat
      BY <1>1 DEF Until
    <2>3. QED
      BY <2>1, <2>2
  <1>3. SUFFICES ASSUME told # 0 PROVE Told'
    BY DEF Told
  <1>4. now < Until
    BY <1>1, <1>2, <1>3, UntilIsEnough
  <1>5. FALSE \in BOOLEAN /\ (FALSE => Rate!Admits)
    OBVIOUS
  <1>6. CASE kind \in Rate!Logs
    <2>1. PICK k \in 0..Len(log) :
            /\ Len(log') = Len(log) - k + (IF FALSE THEN 1 ELSE 0)
            /\ \A i \in 1..(Len(log) - k) : log'[i] = log[k + i]
      BY <1>5, <1>6, LogStep, Zenon
    <2>2. Len(log') = Len(log) - k /\ kind \notin Rate!Windows /\ kind \notin Rate!Buckets
      <3>1. Len(log') = Len(log) - k
        BY <1>1, <2>1
      <3>2. kind \notin Rate!Windows /\ kind \notin Rate!Buckets
        BY <1>6 DEF Rate!Windows, Rate!Buckets, Rate!Logs
      <3>3. QED
        BY <3>1, <3>2
    <2>3. Len(log') = Limit => Len(log) = Limit /\ log'[1] = log[1]
      BY <1>1, <1>6, <2>1, <2>2
    <2>4. ASSUME NEW i \in 1..Len(log'), kind \in {"calls", "security"}
          PROVE  log'[i] + Period <= Until
      <3>1. k + i \in 1..Len(log) /\ log'[i] = log[k + i]
        BY <1>1, <2>1, <2>2
      <3>2. QED
        BY <1>1, <1>3, <2>4, <3>1 DEF Told
    <2>5. /\ kind = "sliding" /\ Len(log') = Limit => log'[1] + Period < Until
          /\ kind = "helper" /\ Len(log') = Limit => log'[1] + Period <= Until
      BY <1>1, <1>3, <2>3 DEF Told
    <2>6. QED
      BY <1>2, <2>2, <2>4, <2>5 DEF Told, Rate!Windows, Rate!Buckets
  <1>7. CASE kind \in Rate!Windows
    <2>1. fixed' = fixed
      BY Zenon DEF Rate!Kept
    <2>2. kind \notin Rate!Buckets /\ kind \notin {"sliding", "helper", "calls", "security"}
      BY <1>7 DEF Rate!Windows, Rate!Buckets
    <2>3. (fixed.minute + 1) * Period <= Until
      BY <1>1, <1>3, <1>7 DEF Told
    <2>4. QED
      BY <1>2, <2>1, <2>2, <2>3 DEF Told, Rate!Windows, Rate!Buckets
  <1>8. CASE kind \in Rate!Buckets
    <2> DEFINE R == Rate!Refilled
    <2>1. kind \notin Rate!Logs /\ kind \notin Rate!Windows /\ kind # "security"
          /\ kind \notin {"sliding", "helper", "calls", "security"}
      BY <1>8 DEF Rate!Windows, Rate!Logs, Rate!Buckets
    <2>2. /\ R \in Nat /\ bucket' = [tokens |-> R - (IF FALSE THEN Period ELSE 0), last |-> now]
          /\ R = Rate!Capacity \/ R = bucket.tokens + (now - bucket.last) * Limit
      BY <1>5, <1>8, BucketStep, Zenon
    <2>3. bucket'.tokens = R /\ bucket'.last = now
      BY <2>2
    <2>4. ~ (Period <= R)
      BY <2>1, Zenon DEF Rate!Admits
    <2>5. R = bucket.tokens + (now - bucket.last) * Limit
      BY <2>2, <2>4, CapacityHolds
    <2> HIDE DEF R
    <2>6. /\ bucket.last <= Until /\ Period <= bucket.tokens + (Until - bucket.last) * Limit
      BY <1>1, <1>3, <1>8 DEF Told
    <2>7. /\ Until - now \in Int /\ now - bucket.last \in Int /\ Limit \in Int
          /\ (Until - now) + (now - bucket.last) = Until - bucket.last
      BY <1>1, <1>2
    <2>8. /\ (Until - bucket.last) * Limit = (Until - now) * Limit + (now - bucket.last) * Limit
          /\ (Until - now) * Limit \in Int /\ (now - bucket.last) * Limit \in Int
      BY <2>7, Products
    <2> DEFINE x == (Until - bucket.last) * Limit
               y == (Until - now) * Limit
               z == (now - bucket.last) * Limit
    <2>9. x = y + z /\ y \in Int /\ z \in Int /\ R = bucket.tokens + z /\ Period <= bucket.tokens + x
      BY <2>5, <2>6, <2>8
    <2> HIDE DEF x, y, z
    <2>10. Period <= R + y
      BY <1>1, <2>9
    <2>11. bucket'.last <= Until' /\ Period <= bucket'.tokens + (Until' - bucket'.last) * Limit
      BY <1>1, <1>2, <1>4, <2>3, <2>10 DEF y
    <2>12. QED
      BY <2>1, <2>11 DEF Told, Rate!Windows, Rate!Buckets
  <1>9. kind # "open"
    BY OpenAdmits
  <1>10. QED
    BY <1>1, <1>6, <1>7, <1>8, <1>9, KindsAre, Zenon

---------------------------------------------------------------------------
(* RateLimiting: every step keeps the invariant.                           *)

\* A check: the request may be let through and become part of the history, be let through
\* for headers only, or be turned away.
LEMMA CheckKeeps ==
  ASSUME RateInv, NEW ok \in BOOLEAN, Rate!Kept(ok), ok => Rate!Admits,
         kind' = kind, now' = now, told' \in Nat, Told',
         \/ admitted' = admitted
         \/ ok /\ admitted' = Append(admitted, now)
  PROVE  RateInv'
  <1>1. /\ Ordered(log) /\ now \in Nat /\ Limit \in Nat \ {0} /\ Period \in Nat \ {0}
        /\ \A i \in 1..Len(log) : log[i] <= now
        /\ Ordered(admitted) /\ \A i \in 1..Len(admitted) : admitted[i] <= now
        /\ Len(admitted) \in Nat /\ lastCleanup \in 0..now
        /\ fixed \in [minute : Nat, count : 0..Limit]
        /\ bucket \in [tokens : Nat, last : 0..now] /\ bucket.tokens <= Rate!Capacity
        /\ kind \in Rate!Kinds
        /\ kind \in Rate!Logs => Spaced(admitted, Limit, Period)
        /\ kind = "security" => Spaced(admitted, Burst, BurstPeriod)
    BY AuthAssumption DEF RateInv, Ordered, Rate!LimiterAssumption
  <1>2. kind' \in Rate!Kinds /\ now' \in Nat /\ lastCleanup' \in 0..now'
    BY <1>1 DEF Rate!Kept
  <1>3. /\ Ordered(log') /\ \A i \in 1..Len(log') : log'[i] <= now'
        /\ kind \in Rate!Logs => Len(log') <= Limit
    <2>1. CASE kind \in Rate!Logs
      <3>1. Ordered(log') /\ (\A i \in 1..Len(log') : log'[i] <= now) /\ Len(log') <= Limit
        BY <2>1, LogStep, Zenon
      <3>2. QED
        BY <3>1
    <2>2. CASE kind \notin Rate!Logs
      <3>1. log' = log
        BY <2>2, Zenon DEF Rate!Kept
      <3>2. QED
        BY <1>1, <2>2, <3>1
    <2>3. QED
      BY <2>1, <2>2
  <1>4. Ordered(admitted') /\ \A i \in 1..Len(admitted') : admitted'[i] <= now'
    <2>1. CASE admitted' = admitted
      BY <1>1, <2>1
    <2>2. CASE admitted' = Append(admitted, now)
      <3>1. /\ Ordered(admitted') /\ Len(admitted') = Len(admitted) + 1
            /\ \A i \in 1..Len(admitted) : admitted'[i] = admitted[i]
            /\ admitted'[Len(admitted) + 1] = now
        BY <1>1, <2>2, AppendOrdered
      <3>2. QED
        BY <1>1, <3>1
    <2>3. QED
      BY <2>1, <2>2
  <1>5. fixed' \in [minute : Nat, count : 0..Limit]
    <2>1. CASE kind = "fixed" /\ ok
      <3>1. kind \in Rate!Windows
        BY <2>1 DEF Rate!Windows
      <3>2. Rate!Count < Limit
        BY <2>1, <3>1, Zenon DEF Rate!Admits
      <3>3. Rate!Count \in Nat
        BY <1>1 DEF Rate!Count
      <3>4. Rate!ThisMinute \in Nat
        BY <1>1, Quotients DEF Rate!ThisMinute
      <3>5. fixed' = [minute |-> Rate!ThisMinute, count |-> Rate!Count + 1]
        BY <2>1, Zenon DEF Rate!Kept
      <3>6. QED
        BY <1>1, <3>2, <3>3, <3>4, <3>5
    <2>2. CASE ~ (kind = "fixed" /\ ok)
      <3>1. fixed' = fixed
        BY <2>2, Zenon DEF Rate!Kept
      <3>2. QED
        BY <1>1, <3>1
    <2>3. QED
      BY <2>1, <2>2
  <1>6. /\ bucket' \in [tokens : Nat, last : 0..now'] /\ bucket'.tokens <= Rate!Capacity'
        /\ kind' \in Rate!Buckets => Paid'
    <2>1. Rate!Capacity' = Rate!Capacity
      BY Zenon DEF Rate!Capacity
    <2>2. CASE kind \in Rate!Buckets
      <3>1. /\ Paid' /\ bucket' \in [tokens : Nat, last : 0..now]
            /\ bucket'.tokens <= Rate!Capacity
        BY <2>2, PaidStep
      <3>2. QED
        BY <2>1, <3>1
    <2>3. CASE kind \notin Rate!Buckets
      <3>1. bucket' = bucket
        BY <2>3, Zenon DEF Rate!Kept
      <3>2. QED
        BY <1>1, <2>1, <2>3, <3>1
    <2>4. QED
      BY <2>2, <2>3
  <1>7. /\ kind' \in Rate!Logs => Covered' /\ Spaced(admitted', Limit, Period)
        /\ kind' = "security" => Spaced(admitted', Burst, BurstPeriod)
    <2>1. kind = "security" => kind \in Rate!Logs
      BY DEF Rate!Logs
    <2>2. ASSUME kind \in Rate!Logs PROVE Covered'
      BY <2>2, CoveredStep
    <2>3. CASE admitted' = admitted
      BY <1>1, <2>1, <2>2, <2>3
    <2>4. CASE ok /\ admitted' = Append(admitted, now)
      BY <2>1, <2>2, <2>4, SpacedStep
    <2>5. QED
      BY <2>3, <2>4
  <1>8. kind' \in Rate!Logs => Len(log') <= Limit
    BY <1>3, Zenon
  <1>9. QED
    BY <1>2, <1>3, <1>4, <1>5, <1>6, <1>7, <1>8, Zenon DEF RateInv, Rate!Kinds, Rate!Logs, Rate!Buckets

\* The clock of the limiters, which the sessions and the keys share, goes on.
LEMMA TimeKeeps ==
  ASSUME RateInv, UNCHANGED RateVars, now' \in Nat, now <= now'
  PROVE  RateInv'
  <1>1. /\ kind' = kind /\ log' = log /\ lastCleanup' = lastCleanup /\ fixed' = fixed
        /\ bucket' = bucket /\ admitted' = admitted /\ told' = told
    BY DEF RateVars
  <1>2. Until' = Until /\ Rate!Capacity' = Rate!Capacity
    BY <1>1, Zenon DEF Until, Rate!Windows, Rate!Capacity
  <1>3. /\ kind' \in Rate!Kinds /\ told' \in Nat /\ lastCleanup' \in 0..now'
        /\ Ordered(log') /\ \A i \in 1..Len(log') : log'[i] <= now'
        /\ Ordered(admitted') /\ \A i \in 1..Len(admitted') : admitted'[i] <= now'
        /\ fixed' \in [minute : Nat, count : 0..Limit]
    <2>1. /\ kind \in Rate!Kinds /\ told \in Nat /\ lastCleanup \in 0..now /\ now \in Nat
          /\ Ordered(log) /\ \A i \in 1..Len(log) : log[i] <= now
          /\ Ordered(admitted) /\ \A i \in 1..Len(admitted) : admitted[i] <= now
          /\ fixed \in [minute : Nat, count : 0..Limit]
      BY DEF RateInv
    <2>2. /\ \A i \in 1..Len(log) : log[i] \in Nat
          /\ \A i \in 1..Len(admitted) : admitted[i] \in Nat
      BY <2>1, SMTT(30) DEF Ordered
    <2>3. (\A i \in 1..Len(log) : log[i] <= now') /\ (\A i \in 1..Len(admitted) : admitted[i] <= now')
      BY <2>1, <2>2
    <2>4. lastCleanup \in 0..now'
      BY <2>1
    <2>5. QED
      BY <1>1, <2>1, <2>3, <2>4, Zenon
  <1>4. bucket' \in [tokens : Nat, last : 0..now'] /\ bucket'.tokens <= Rate!Capacity'
    <2>1. bucket \in [tokens : Nat, last : 0..now] /\ bucket.tokens <= Rate!Capacity /\ now \in Nat
      BY DEF RateInv
    <2>2. bucket \in [tokens : Nat, last : 0..now']
      BY <2>1
    <2>3. QED
      BY <1>1, <1>2, <2>1, <2>2
  <1>5. ASSUME kind \in Rate!Logs
        PROVE  Len(log') <= Limit /\ Covered' /\ Spaced(admitted', Limit, Period)
    <2>1. /\ Len(log) <= Limit /\ Covered /\ Spaced(admitted, Limit, Period)
          /\ Ordered(admitted) /\ now \in Nat /\ Period \in Nat
      BY <1>5, AuthAssumption DEF RateInv, Rate!LimiterAssumption
    <2>2. \A i \in 1..Len(admitted) : admitted[i] \in Nat
      BY <2>1 DEF Ordered
    <2>3. \A i \in 1..Len(admitted) : admitted[i] + Period > now' => admitted[i] + Period > now
      BY <2>1, <2>2
    <2>4. Covered'
      BY <1>1, <2>1, <2>3 DEF Covered
    <2>5. QED
      BY <1>1, <2>1, <2>4
  <1>6. /\ kind = "security" => Spaced(admitted', Burst, BurstPeriod)
        /\ kind \in Rate!Buckets => Paid'
        /\ Told'
    <2>1. /\ kind = "security" => Spaced(admitted, Burst, BurstPeriod)
          /\ kind \in Rate!Buckets => Paid
          /\ Told
      BY DEF RateInv
    <2>2. Told'
      BY <1>1, <1>2, <2>1, Zenon DEF Told, Rate!Windows, Rate!Buckets
    <2>3. kind \in Rate!Buckets => Paid'
      BY <1>1, <1>2, <2>1, Zenon DEF Paid
    <2>4. QED
      BY <1>1, <2>1, <2>2, <2>3
  <1>7. kind' = kind
    BY <1>1
  <1>8. QED
    BY <1>3, <1>4, <1>5, <1>6, <1>7, Zenon DEF RateInv, Rate!Kinds, Rate!Logs, Rate!Buckets

LEMMA NewLimiter ==
  ASSUME Rate!Init
  PROVE  RateInv
  <1>1. /\ kind \in Rate!Kinds /\ now = 0 /\ log = <<>> /\ lastCleanup = 0
        /\ fixed = [minute |-> 0, count |-> 0]
        /\ bucket = [tokens |-> Rate!Capacity, last |-> 0]
        /\ admitted = <<>> /\ told = 0
    BY Zenon DEF Rate!Init
  <1>2. Limit \in Nat
    BY AuthAssumption DEF Rate!LimiterAssumption
  <1>3. /\ Ordered(log) /\ Len(log) = 0 /\ Ordered(admitted) /\ Len(admitted) = 0
    BY <1>1 DEF Ordered
  <1>4. fixed \in [minute : Nat, count : 0..Limit]
    BY <1>1, <1>2
  <1>5. bucket \in [tokens : Nat, last : 0..now] /\ bucket.tokens <= Rate!Capacity
    BY <1>1, CapacityHolds
  <1>6. /\ \A i \in 1..Len(log) : log[i] <= now
        /\ \A i \in 1..Len(admitted) : admitted[i] <= now
        /\ Covered /\ Spaced(admitted, Limit, Period) /\ Spaced(admitted, Burst, BurstPeriod)
        /\ Paid
    BY <1>3 DEF Covered, Spaced, Paid
  <1>7. Told
    BY <1>1 DEF Told
  <1>8. told \in Nat /\ now \in Nat /\ lastCleanup \in 0..now /\ Len(log) <= Limit
    BY <1>1, <1>2, <1>3
  <1>9. QED
    BY <1>1, <1>3, <1>4, <1>5, <1>6, <1>7, <1>8 DEF RateInv

LEMMA LimiterStepKeeps ==
  ASSUME RateInv, Rate!Next
  PROVE  RateInv'
  <1>1. CASE Rate!Admit
    <2>1. /\ Rate!Admits /\ Rate!Kept(TRUE) /\ told' = 0 /\ kind' = kind /\ now' = now
          /\ admitted' = IF kind \in Rate!Open THEN admitted ELSE Append(admitted, now)
      BY <1>1, Zenon DEF Rate!Admit
    <2>2. told' \in Nat /\ Told'
      BY <2>1 DEF Told
    <2>3. TRUE \in BOOLEAN
      OBVIOUS
    <2>4. \/ admitted' = admitted
          \/ TRUE /\ admitted' = Append(admitted, now)
      BY <2>1, Zenon
    <2>5. QED
      BY <2>1, <2>2, <2>3, <2>4, CheckKeeps, Zenon
  <1>2. CASE Rate!TurnAway
    <2>1. Rate!Kept(FALSE) /\ kind' = kind /\ now' = now /\ admitted' = admitted
      BY <1>2, Zenon DEF Rate!TurnAway
    <2>2. told' \in Nat /\ Told'
      BY <1>2, ToldAway
    <2>3. FALSE \in BOOLEAN
      OBVIOUS
    <2>4. QED
      BY <2>1, <2>2, <2>3, CheckKeeps, Zenon
  <1>3. CASE Rate!Headers
    <2>1. /\ Rate!Kept(Rate!Admits) /\ kind' = kind /\ now' = now /\ admitted' = admitted
          /\ told' = IF Rate!Admits THEN 0 ELSE told
      BY <1>3, Zenon DEF Rate!Headers
    <2>2. told \in Nat
      BY DEF RateInv
    <2>3. CASE Rate!Admits
      <3>1. told' \in Nat /\ Told'
        BY <2>1, <2>3 DEF Told
      <3>2. Rate!Kept(TRUE)
        BY <2>1, <2>3, Zenon DEF Rate!Kept
      <3>3. TRUE \in BOOLEAN
        OBVIOUS
      <3>4. QED
        BY <2>1, <2>3, <3>1, <3>2, <3>3, CheckKeeps, Zenon
    <2>4. CASE ~ Rate!Admits
      <3>1. Rate!Kept(FALSE)
        BY <2>1, <2>4, Zenon DEF Rate!Kept
      <3>2. told' \in Nat /\ told' = told
        BY <2>1, <2>2, <2>4
      <3>3. Told'
        BY <2>1, <2>4, <3>1, <3>2, ToldStays
      <3>4. FALSE \in BOOLEAN
        OBVIOUS
      <3>5. QED
        BY <2>1, <2>4, <3>1, <3>2, <3>3, <3>4, CheckKeeps, Zenon
    <2>5. QED
      BY <2>3, <2>4
  <1>4. CASE Rate!Reset
    <2>1. /\ kind = "helper" /\ log' = <<>> /\ admitted' = <<>> /\ told' = 0
          /\ kind' = kind /\ now' = now /\ lastCleanup' = lastCleanup
          /\ fixed' = fixed /\ bucket' = bucket
      BY <1>4, Zenon DEF Rate!Reset
    <2>2. /\ kind \in Rate!Kinds /\ now \in Nat /\ lastCleanup \in 0..now
          /\ fixed \in [minute : Nat, count : 0..Limit]
          /\ bucket \in [tokens : Nat, last : 0..now] /\ bucket.tokens <= Rate!Capacity
          /\ Limit \in Nat
      BY AuthAssumption DEF RateInv, Rate!LimiterAssumption
    <2>3. /\ Ordered(log') /\ Len(log') = 0 /\ Ordered(admitted') /\ Len(admitted') = 0
      BY <2>1 DEF Ordered
    <2>4. /\ \A i \in 1..Len(log') : log'[i] <= now'
          /\ \A i \in 1..Len(admitted') : admitted'[i] <= now'
          /\ Covered' /\ Spaced(admitted', Limit, Period) /\ Spaced(admitted', Burst, BurstPeriod)
          /\ Paid'
      BY <2>3 DEF Covered, Spaced, Paid
    <2>5. Told' /\ told' \in Nat
      BY <2>1 DEF Told
    <2>6. Rate!Capacity' = Rate!Capacity
      BY <2>1, Zenon DEF Rate!Capacity
    <2>7. Len(log') <= Limit
      BY <2>2, <2>3
    <2>8. kind' \in Rate!Kinds /\ now' \in Nat /\ lastCleanup' \in 0..now'
      BY <2>1, <2>2
    <2>9. /\ fixed' \in [minute : Nat, count : 0..Limit]
          /\ bucket' \in [tokens : Nat, last : 0..now'] /\ bucket'.tokens <= Rate!Capacity'
      BY <2>1, <2>2, <2>6
    <2>10. QED
      BY <2>3, <2>4, <2>5, <2>7, <2>8, <2>9, Zenon DEF RateInv
  <1>5. CASE Rate!Tick
    <2>1. now' = now + 1 /\ UNCHANGED RateVars
      BY <1>5, Zenon DEF Rate!Tick, RateVars
    <2>2. now \in Nat
      BY DEF RateInv
    <2>3. now' \in Nat /\ now <= now'
      BY <2>1, <2>2
    <2>4. QED
      BY <2>1, <2>3, TimeKeeps
  <1>6. QED
    BY <1>1, <1>2, <1>3, <1>4, <1>5, Zenon DEF Rate!Next

---------------------------------------------------------------------------
(* RateLimiting: the fixed window.                                         *)

\* The minute of the calendar in which a request was counted.
MinuteOf(i) == admitted[i] \div Period

\* The window holds the last minute's count, so a request counted in it is one of so many,
\* and one that is a limit's number of places after another came in a later minute.
WindowKept ==
  /\ fixed.minute <= Rate!ThisMinute
  /\ \A i \in 1..Len(admitted) :
       /\ MinuteOf(i) \in Nat /\ MinuteOf(i) <= fixed.minute
       /\ MinuteOf(i) = fixed.minute => Len(admitted) - i < fixed.count
  /\ \A i, j \in 1..Len(admitted) : i + Limit <= j => MinuteOf(i) < MinuteOf(j)

LEMMA QuotientsGrow ==
  ASSUME NEW a \in Nat, NEW b \in Nat, NEW c \in Nat \ {0}, a <= b
  PROVE  a \div c \in Nat /\ b \div c \in Nat /\ a \div c <= b \div c
  <1> DEFINE p == a \div c
             q == b \div c
  <1>1. p \in Nat /\ q \in Nat /\ p * c <= a /\ b < (q + 1) * c
    BY Quotients
  <1> HIDE DEF p, q
  <1>2. ASSUME q + 1 <= p PROVE FALSE
    <2>1. (q + 1) * c <= p * c /\ (q + 1) * c \in Int /\ p * c \in Int
      BY <1>1, <1>2, ProductsGrow, Products
    <2>2. QED
      BY <1>1, <2>1
  <1>3. p <= q
    BY <1>1, <1>2
  <1>4. QED
    BY <1>1, <1>3 DEF p, q

\* The clock goes on.
LEMMA WindowTime ==
  ASSUME WindowKept, fixed' = fixed, admitted' = admitted, now \in Nat, now' \in Nat, now <= now',
         fixed.minute \in Nat
  PROVE  WindowKept'
  <1>1. /\ Rate!ThisMinute \in Nat /\ Rate!ThisMinute' \in Nat
        /\ Rate!ThisMinute <= Rate!ThisMinute'
    <2>1. Period \in Nat \ {0}
      BY AuthAssumption DEF Rate!LimiterAssumption
    <2>2. Rate!ThisMinute = now \div Period /\ Rate!ThisMinute' = now' \div Period
      BY DEF Rate!ThisMinute
    <2>3. QED
      BY <2>1, <2>2, QuotientsGrow
  <1>2. fixed.minute <= Rate!ThisMinute'
    BY <1>1 DEF WindowKept
  <1>3. \A i : MinuteOf(i)' = MinuteOf(i)
    BY DEF MinuteOf
  <1>4. QED
    BY <1>2, <1>3, Zenon DEF WindowKept

\* A check that counts a request; one that only headers are for leaves no history.
LEMMA WindowCounts ==
  ASSUME WindowKept, Ordered(admitted), now \in Nat, fixed \in [minute : Nat, count : 0..Limit],
         Limit \in Nat, \A i \in 1..Len(admitted) : admitted[i] <= now,
         Rate!Count < Limit,
         fixed' = [minute |-> Rate!ThisMinute, count |-> Rate!Count + 1], now' = now,
         admitted' = admitted \/ admitted' = Append(admitted, now)
  PROVE  WindowKept'
  <1> DEFINE n == Len(admitted)
             today == Rate!ThisMinute
             count == Rate!Count
             m(i) == MinuteOf(i)
  <1>1. n \in Nat /\ today \in Nat /\ today' = today /\ today = now \div Period
    <2>1. Period \in Nat \ {0}
      BY AuthAssumption DEF Rate!LimiterAssumption
    <2>2. today = now \div Period /\ today' = today
      BY DEF Rate!ThisMinute
    <2>3. n \in Nat
      BY DEF Ordered
    <2>4. QED
      BY <2>1, <2>2, <2>3, QuotientsGrow
  <1>2. count \in Nat /\ (fixed.minute = today => count = fixed.count)
    BY DEF Rate!Count
  <1>3. fixed'.minute = today /\ fixed'.count = count + 1
    OBVIOUS
  <1>4. /\ fixed.minute <= today /\ fixed.minute \in Nat
        /\ \A i \in 1..n : m(i) \in Nat /\ m(i) <= fixed.minute
        /\ \A i \in 1..n : m(i) = fixed.minute => n - i < fixed.count
        /\ \A i, j \in 1..n : i + Limit <= j => m(i) < m(j)
    BY DEF WindowKept
  <1>5. ASSUME NEW i \in 1..n PROVE m(i) <= today /\ (m(i) = today => n - i < count)
    <2> DEFINE f == fixed.minute
               c == fixed.count
    <2>1. /\ f <= today /\ f \in Nat /\ m(i) \in Nat /\ m(i) <= f /\ (m(i) = f => n - i < c)
          /\ f = today => count = c
      BY <1>2, <1>4, <1>5, Zenon
    <2> HIDE DEF m, n, today, count, f, c
    <2>2. QED
      BY <1>1, <2>1
  <1>6. CASE admitted' = admitted
    <2>1. \A i : MinuteOf(i)' = m(i)
      BY <1>6 DEF MinuteOf
    <2>2. Len(admitted') = n
      BY <1>6
    <2>3. \A i \in 1..n : n - i < count => n - i < count + 1
      BY <1>1, <1>2
    <2>4. today <= today'
      BY <1>1
    <2> HIDE DEF m, n, today, count
    <2>5. QED
      BY <1>3, <1>4, <1>5, <2>1, <2>2, <2>3, <2>4, Zenon DEF WindowKept, today
  <1>7. CASE admitted' = Append(admitted, now)
    <2>1. /\ Len(admitted') = n + 1
          /\ \A i \in 1..n : admitted'[i] = admitted[i]
          /\ admitted'[n + 1] = now
      BY <1>7, AppendOrdered
    <2> DEFINE m2(i) == admitted'[i] \div Period
    <2>2. \A i \in 1..n : m2(i) = m(i)
      BY <2>1, Zenon DEF MinuteOf
    <2>3. (\A i \in 1..n : m2(i) = m(i)) /\ m2(n + 1) = today
      BY <1>1, <2>1, <2>2
    <2> HIDE DEF m, n, m2, today, count
    <2>4. ASSUME NEW i \in 1..(n + 1)
          PROVE  /\ m2(i) \in Nat /\ m2(i) <= today
                 /\ m2(i) = today => n + 1 - i < count + 1
      <3>1. CASE i \in 1..n
        BY <1>1, <1>2, <1>4, <1>5, <2>3, <3>1
      <3>2. CASE i = n + 1
        BY <1>1, <1>2, <2>3, <3>2
      <3>3. QED
        BY <1>1, <2>4, <3>1, <3>2
    <2>5. ASSUME NEW i \in 1..(n + 1), NEW j \in 1..(n + 1), i + Limit <= j
          PROVE  m2(i) < m2(j)
      <3>1. i \in 1..n
        BY <1>1, <1>2, <2>5 DEF count
      <3>2. CASE j \in 1..n
        BY <1>4, <2>3, <2>5, <3>1, <3>2
      <3>3. CASE j = n + 1
        <4>1. ~ (n - i < count)
          BY <1>1, <1>2, <2>5, <3>1, <3>3 DEF count
        <4>2. m(i) # today /\ m(i) <= today /\ m(i) \in Nat
          BY <1>4, <1>5, <3>1, <4>1
        <4>3. QED
          BY <1>1, <2>3, <3>1, <3>3, <4>2
      <3>4. QED
        BY <1>1, <2>5, <3>2, <3>3
    <2>6. today <= today'
      BY <1>1
    <2>7. QED
      <3>1. fixed'.minute = today /\ fixed'.count = count + 1 /\ Len(admitted') = n + 1
        BY <1>3, <2>1
      <3>2. \A i : MinuteOf(i)' = m2(i)
        BY DEF m2, MinuteOf
      <3>3. fixed'.minute <= Rate!ThisMinute'
        BY <2>6, <3>1 DEF today
      <3>4. ASSUME NEW i \in 1..Len(admitted')
            PROVE  /\ MinuteOf(i)' \in Nat /\ MinuteOf(i)' <= fixed'.minute
                   /\ MinuteOf(i)' = fixed'.minute => Len(admitted') - i < fixed'.count
        <4>1. i \in 1..(n + 1) /\ MinuteOf(i)' = m2(i)
          BY <3>1, <3>2, <3>4
        <4>2. m2(i) \in Nat /\ m2(i) <= today /\ (m2(i) = today => n + 1 - i < count + 1)
          BY <2>4, <4>1
        <4> DEFINE a == MinuteOf(i)'
                   b == fixed'.minute
                   c == fixed'.count
                   d == Len(admitted')
        <4>3. a = m2(i) /\ b = today /\ c = count + 1 /\ d = n + 1
          BY <3>1, <4>1
        <4> HIDE DEF a, b, c, d
        <4>4. a \in Nat /\ a <= b /\ (a = b => d - i < c)
          BY <1>1, <1>2, <4>1, <4>2, <4>3
        <4>5. QED
          BY <4>4 DEF a, b, c, d
      <3>5. \A i, j \in 1..Len(admitted') : i + Limit <= j => MinuteOf(i)' < MinuteOf(j)'
        BY <2>5, <3>1, <3>2, Zenon
      <3>6. QED
        BY <3>3, <3>4, <3>5, Zenon DEF WindowKept
  <1>8. QED
    BY <1>6, <1>7

\* Each step of a fixed window keeps it.
LEMMA WindowStep ==
  ASSUME RateInv, WindowKept, kind = "fixed", Rate!Next
  PROVE  WindowKept'
  <1>1. /\ Ordered(admitted) /\ now \in Nat /\ fixed \in [minute : Nat, count : 0..Limit]
        /\ Limit \in Nat /\ fixed.minute \in Nat /\ \A i \in 1..Len(admitted) : admitted[i] <= now
    BY AuthAssumption DEF RateInv, Rate!LimiterAssumption
  <1>2. kind \in Rate!Windows /\ kind \notin Rate!Open
    BY DEF Rate!Windows, Rate!Open
  <1>3. CASE Rate!Tick
    <2>1. now' = now + 1 /\ fixed' = fixed /\ admitted' = admitted
      BY <1>3, Zenon DEF Rate!Tick
    <2>2. now' \in Nat /\ now <= now'
      BY <1>1, <2>1
    <2>3. QED
      BY <1>1, <2>1, <2>2, WindowTime
  <1>4. CASE Rate!Reset
    BY <1>4 DEF Rate!Reset
  <1>5. CASE Rate!Admit \/ Rate!TurnAway \/ Rate!Headers
    <2>1. now' = now
      BY <1>5, Zenon DEF Rate!Admit, Rate!TurnAway, Rate!Headers
    <2>2. \/ fixed' = fixed /\ admitted' = admitted
          \/ /\ Rate!Admits /\ fixed' = [minute |-> Rate!ThisMinute, count |-> Rate!Count + 1]
             /\ admitted' = admitted \/ admitted' = Append(admitted, now)
      <3>1. CASE Rate!Admit
        BY <1>2, <3>1, Zenon DEF Rate!Admit, Rate!Kept
      <3>2. CASE Rate!TurnAway
        BY <3>2, Zenon DEF Rate!TurnAway, Rate!Kept
      <3>3. CASE Rate!Headers
        BY <3>3, Zenon DEF Rate!Headers, Rate!Kept
      <3>4. QED
        BY <1>5, <3>1, <3>2, <3>3
    <2>3. Rate!Admits => Rate!Count < Limit
      BY <1>2, Zenon DEF Rate!Admits
    <2>4. CASE fixed' = fixed /\ admitted' = admitted
      <3>1. now' \in Nat /\ now <= now'
        BY <1>1, <2>1
      <3>2. QED
        BY <1>1, <2>4, <3>1, WindowTime
    <2>5. CASE /\ Rate!Admits /\ fixed' = [minute |-> Rate!ThisMinute, count |-> Rate!Count + 1]
               /\ admitted' = admitted \/ admitted' = Append(admitted, now)
      BY <1>1, <2>1, <2>3, <2>5, WindowCounts
    <2>6. QED
      BY <2>2, <2>4, <2>5
  <1>6. QED
    BY <1>3, <1>4, <1>5, Zenon DEF Rate!Next

---------------------------------------------------------------------------
(* RateLimiting: the theorems.                                             *)

LimiterInv ==
  /\ RateInv
  /\ kind = "fixed" => WindowKept
  /\ part = "limits" => now <= MaxLimiterTime

\* The clock the parts share does not go back.
LEMMA ClockGoesOn ==
  ASSUME now \in Nat, Sess!Next \/ Keys!Next
  PROVE  now' \in Nat /\ now <= now'
  <1>1. now' = now \/ now' = now + 1
    <2>1. CASE Sess!Next
      BY <2>1, Zenon DEF Sess!Next, Sess!GetSession, Sess!Revoke, Sess!Touch, Sess!GetUserSessions,
            Sess!CreateSession, Sess!RevokeUserSessions, Sess!CleanupExpiredSessions, Sess!Tick
    <2>2. CASE Keys!Next
      BY <2>2, Zenon DEF Keys!Next, Keys!CreateApiKey, Keys!Authenticate, Keys!Revoke, Keys!Update,
            Keys!BatchRevoke, Keys!Tick
    <2>3. QED
      BY <2>1, <2>2
  <1>2. QED
    BY <1>1

\* In every reachable state the invariant of the limiters holds.
THEOREM LimiterInvariant == AuthSpec => []LimiterInv
  <1>1. AuthInit => LimiterInv
    <2>1. SUFFICES ASSUME AuthInit PROVE LimiterInv
      OBVIOUS
    <2>2. Rate!Init
      BY <2>1 DEF AuthInit
    <2>3. now = 0 /\ MaxLimiterTime \in Nat
      BY <2>2, AuthAssumption DEF Rate!Init, Rate!LimiterAssumption
    <2>4. WindowKept
      <3>1. fixed.minute = 0 /\ Len(admitted) = 0
        BY <2>2 DEF Rate!Init
      <3>2. Rate!ThisMinute \in Nat
        <4>1. Rate!ThisMinute = now \div Period
          BY DEF Rate!ThisMinute
        <4>2. Period \in Nat \ {0} /\ now \in Nat
          BY <2>3, AuthAssumption DEF Rate!LimiterAssumption
        <4>3. QED
          BY <4>1, <4>2, Quotients
      <3>3. QED
        BY <3>1, <3>2 DEF WindowKept
    <2>5. QED
      BY <2>2, <2>3, <2>4, NewLimiter DEF LimiterInv
  <1>2. ASSUME LimiterInv,
               [AuthNext]_<<part, now, vars, SessVars, RateVars, KeysVars, AccessVars, WatchVars>>
        PROVE  LimiterInv'
    <2>1. RateInv /\ now \in Nat /\ fixed.minute \in Nat /\ (kind = "fixed" => WindowKept)
      BY <1>2 DEF LimiterInv, RateInv
    <2>2. CASE part = "limits" /\ Rate!Next /\ UNCHANGED part
      <3>1. RateInv'
        BY <2>1, <2>2, LimiterStepKeeps
      <3>2. now' = now \/ (now < MaxLimiterTime /\ now' = now + 1)
        BY <2>2, Zenon DEF Rate!Next, Rate!Admit, Rate!TurnAway, Rate!Headers, Rate!Reset, Rate!Tick
      <3>3. MaxLimiterTime \in Nat /\ now <= MaxLimiterTime
        BY <1>2, <2>2, AuthAssumption DEF LimiterInv, Rate!LimiterAssumption
      <3>4. now' <= MaxLimiterTime
        BY <2>1, <3>2, <3>3
      <3>5. kind' = "fixed" => WindowKept'
        <4>1. kind' = kind
          BY <2>2, Zenon DEF Rate!Next, Rate!Admit, Rate!TurnAway, Rate!Headers, Rate!Reset, Rate!Tick
        <4>2. QED
          BY <2>1, <2>2, <4>1, WindowStep
      <3>6. QED
        BY <3>1, <3>4, <3>5 DEF LimiterInv
    <2>3. CASE UNCHANGED <<part, now, RateVars>>
      <3>1. UNCHANGED RateVars /\ now' = now /\ part' = part /\ now <= now
        BY <2>1, <2>3
      <3>2. RateInv'
        BY <2>1, <3>1, TimeKeeps
      <3>3. kind' = "fixed" => WindowKept'
        BY <2>1, <3>1, WindowTime DEF RateVars
      <3>4. QED
        BY <1>2, <3>1, <3>2, <3>3 DEF LimiterInv
    <2>4. CASE UNCHANGED <<part, RateVars>> /\ part # "limits" /\ (Sess!Next \/ Keys!Next)
      <3>1. now' \in Nat /\ now <= now' /\ UNCHANGED RateVars
        BY <2>1, <2>4, ClockGoesOn
      <3>2. RateInv'
        BY <2>1, <3>1, TimeKeeps
      <3>3. kind' = "fixed" => WindowKept'
        BY <2>1, <3>1, WindowTime DEF RateVars
      <3>4. QED
        BY <2>4, <3>2, <3>3 DEF LimiterInv
    <2>5. QED
      BY <1>2, <2>2, <2>3, <2>4, Zenon DEF AuthNext
  <1>3. QED
    BY <1>1, <1>2, PTL DEF AuthSpec

\* The greatest of some places.
LEMMA GreatestOf ==
  ASSUME NEW m \in Nat, NEW X, X \subseteq 1..m, X # {}
  PROVE  \E x \in X : \A y \in X : y <= x
  <1> DEFINE Y == {m - y : y \in X}
  <1>1. Y \subseteq Nat /\ Y # {}
    <2>1. ASSUME NEW y \in X PROVE m - y \in Nat
      OBVIOUS
    <2>2. Y \subseteq Nat
      BY <2>1
    <2>3. PICK y \in X : TRUE
      OBVIOUS
    <2>4. m - y \in Y
      BY <2>3
    <2>5. QED
      BY <2>2, <2>4
  <1>2. PICK z \in Y : \A y \in Y : z <= y
    BY <1>1, LeastNatural, Zenon
  <1>3. PICK x \in X : z = m - x
    OBVIOUS
  <1>4. ASSUME NEW y \in X PROVE y <= x
    <2>1. m - y \in Y
      OBVIOUS
    <2>2. m - x <= m - y
      BY <1>2, <1>3, <2>1, Zenon
    <2>3. x \in Int /\ y \in Int
      OBVIOUS
    <2>4. QED
      BY <2>2, <2>3
  <1>5. QED
    BY <1>4

\* What the buckets let through in a stretch of time was in them or was refilled.
LEMMA PaidCount ==
  ASSUME Ordered(admitted), Paid, NEW t \in Nat, NEW d \in Nat
  PROVE  Cardinality({i \in DOMAIN admitted : admitted[i] >= t /\ admitted[i] <= t + d}) * Period
           <= Rate!Capacity + d * Limit
  <1> DEFINE X == {i \in DOMAIN admitted : admitted[i] >= t /\ admitted[i] <= t + d}
  <1>1. /\ Len(admitted) \in Nat /\ DOMAIN admitted = 1..Len(admitted)
        /\ \A i \in 1..Len(admitted) : admitted[i] \in Nat
        /\ Rate!Capacity \in Nat /\ Period \in Nat /\ Limit \in Nat
    BY CapacityHolds DEF Ordered
  <1>2. d * Limit \in Nat
    BY <1>1
  <1>3. CASE X = {}
    <2>1. Cardinality(X) = 0
      BY <1>3, FS_EmptySet
    <2>2. 0 * Period = 0
      BY <1>1
    <2> HIDE DEF X
    <2>3. QED
      BY <1>1, <1>2, <2>1, <2>2 DEF X
  <1>4. CASE X # {}
    <2>1. X \subseteq 1..Len(admitted) /\ X \subseteq Nat
      BY <1>1
    <2>2. PICK x \in X : \A y \in X : x <= y
      BY <1>4, <2>1, LeastNatural
    <2>3. PICK z \in X : \A y \in X : y <= z
      BY <1>1, <1>4, <2>1, GreatestOf
    <2>4. /\ x \in 1..Len(admitted) /\ z \in 1..Len(admitted) /\ x <= z
          /\ admitted[x] >= t /\ admitted[z] <= t + d
      BY <1>1, <2>2, <2>3
    <2>5. (z - x + 1) * Period <= Rate!Capacity + (admitted[z] - admitted[x]) * Limit
      BY <2>4 DEF Paid
    <2>6. IsFiniteSet(x..z) /\ Cardinality(x..z) = z - x + 1
      <3>1. x \in Int /\ z \in Int
        BY <2>4
      <3>2. IsFiniteSet(x..z) /\ Cardinality(x..z) = IF x > z THEN 0 ELSE z - x + 1
        BY <3>1, FS_Interval, Zenon
      <3>3. QED
        BY <2>4, <3>1, <3>2
    <2>7. X \subseteq x..z
      BY <2>1, <2>2, <2>3
    <2> HIDE DEF X
    <2>8. Cardinality(X) <= z - x + 1 /\ IsFiniteSet(X)
      <3>1. Cardinality(X) <= Cardinality(x..z) /\ IsFiniteSet(X)
        BY <2>6, <2>7, FS_Subset, ZenonT(30)
      <3>2. QED
        BY <2>6, <3>1, Zenon
    <2>9. Cardinality(X) \in Nat
      BY <2>8, FS_CardinalityType
    <2>10. /\ Cardinality(X) * Period <= (z - x + 1) * Period
           /\ Cardinality(X) * Period \in Int /\ (z - x + 1) * Period \in Int
      <3>1. Cardinality(X) \in Int /\ z - x + 1 \in Int /\ Period \in Int
        BY <1>1, <2>4, <2>9
      <3>2. QED
        BY <1>1, <2>8, <3>1, ProductsGrow, Products
    <2>11. /\ (admitted[z] - admitted[x]) * Limit <= d * Limit
           /\ (admitted[z] - admitted[x]) * Limit \in Int
      <3>1. admitted[z] - admitted[x] \in Int /\ d \in Int /\ admitted[z] - admitted[x] <= d /\ Limit \in Int
        BY <1>1, <2>4
      <3>2. QED
        BY <1>1, <3>1, ProductsGrow, Products
    <2>12. Cardinality(X) * Period <= Rate!Capacity + d * Limit
      BY <1>1, <1>2, <2>5, <2>10, <2>11
    <2>13. QED
      BY <2>12 DEF X
  <1>5. QED
    BY <1>3, <1>4

\* RateLimiting: whichever of the limiters, whatever its limits, periods and clean-ups are:
\* no stretch of a period sees more requests than the limit, none of ten seconds more than
\* the burst, a bucket lets through what it held and was refilled with, and a fixed window
\* counts no more than the limit in a minute of the calendar.
THEOREM LimitersKeepTheirLimits == AuthSpec => []Rate!LimitsHold
  <1>1. LimiterInv => Rate!LimitsHold
    <2>1. SUFFICES ASSUME LimiterInv, NEW t \in 0..now, NEW m \in 0..Rate!ThisMinute
                   PROVE  /\ kind \in Rate!Logs => Rate!Passed(t, t + Period - 1) <= Limit
                          /\ kind = "security" => Rate!Passed(t, t + BurstPeriod - 1) <= Burst
                          /\ kind \in Rate!Buckets => \A d \in 0..(now - t) :
                               Rate!Passed(t, t + d) * Period <= Rate!Capacity + d * Limit
                          /\ kind = "fixed" => Rate!PassedIn(m) <= Limit
      <3>1. LimiterInv => 0 \in 0..now /\ 0 \in 0..Rate!ThisMinute
        <4>1. Rate!ThisMinute = now \div Period /\ Period \in Nat \ {0}
          BY AuthAssumption DEF Rate!ThisMinute, Rate!LimiterAssumption
        <4>2. LimiterInv => now \in Nat /\ now \div Period \in Nat
          BY <4>1, Quotients DEF LimiterInv, RateInv
        <4>3. QED
          BY <4>1, <4>2
      <3>2. QED
        BY <3>1, Zenon DEF Rate!LimitsHold
    <2>2. /\ RateInv /\ now \in Nat /\ t \in Nat /\ Ordered(admitted)
          /\ Period \in Nat \ {0} /\ BurstPeriod \in Nat \ {0}
          /\ Limit \in Nat /\ Burst \in Nat
      BY <2>1, AuthAssumption DEF LimiterInv, RateInv, Rate!LimiterAssumption
    <2>3. \A from, to : Rate!Passed(from, to) =
                          Cardinality({i \in DOMAIN admitted : admitted[i] >= from /\ admitted[i] <= to})
      BY SameSelection, Zenon DEF Rate!Passed
    <2>4. ASSUME NEW p \in Nat \ {0}
          PROVE  Rate!Passed(t, t + p - 1) =
                   Cardinality({i \in DOMAIN admitted : admitted[i] >= t /\ admitted[i] < t + p})
      <3>1. {i \in DOMAIN admitted : admitted[i] >= t /\ admitted[i] <= t + p - 1}
              = {i \in DOMAIN admitted : admitted[i] >= t /\ admitted[i] < t + p}
        BY <2>2, <2>4 DEF Ordered
      <3>2. QED
        BY <2>3, <3>1, Zenon
    <2>5. ASSUME kind \in Rate!Logs PROVE Rate!Passed(t, t + Period - 1) <= Limit
      <3>1. Spaced(admitted, Limit, Period)
        BY <2>2, <2>5, Zenon DEF RateInv
      <3>2. Cardinality({i \in DOMAIN admitted : admitted[i] >= t /\ admitted[i] < t + Period}) <= Limit
        BY <2>2, <3>1, SpacedCount
      <3>3. QED
        BY <2>2, <2>4, <3>2, Zenon
    <2>6. ASSUME kind = "security" PROVE Rate!Passed(t, t + BurstPeriod - 1) <= Burst
      <3>1. Spaced(admitted, Burst, BurstPeriod)
        BY <2>2, <2>6, Zenon DEF RateInv
      <3>2. Cardinality({i \in DOMAIN admitted : admitted[i] >= t /\ admitted[i] < t + BurstPeriod}) <= Burst
        BY <2>2, <3>1, SpacedCount
      <3>3. QED
        BY <2>2, <2>4, <3>2, Zenon
    <2>7. ASSUME kind \in Rate!Buckets, NEW d \in 0..(now - t)
          PROVE  Rate!Passed(t, t + d) * Period <= Rate!Capacity + d * Limit
      <3>1. Paid /\ d \in Nat
        BY <2>2, <2>7 DEF RateInv
      <3>2. QED
        BY <2>2, <2>3, <3>1, PaidCount
    <2>8. ASSUME kind = "fixed" PROVE Rate!PassedIn(m) <= Limit
      <3> DEFINE X == {i \in DOMAIN admitted : admitted[i] \div Period = m}
      <3>1. Rate!PassedIn(m) = Cardinality(X)
        BY SameSelection, Zenon DEF Rate!PassedIn
      <3>2. \A i, j \in 1..Len(admitted) : i + Limit <= j => MinuteOf(i) < MinuteOf(j)
        BY <2>1, <2>8 DEF LimiterInv, WindowKept
      <3>3. X \subseteq 1..Len(admitted) /\ Len(admitted) \in Nat /\ \A i \in X : MinuteOf(i) = m
        BY <2>2 DEF Ordered, MinuteOf
      <3> HIDE DEF X
      <3>4. \A x, y \in X : y < x + Limit
        <4>1. ASSUME NEW x \in X, NEW y \in X, x + Limit <= y PROVE FALSE
          <5>1. MinuteOf(x) < MinuteOf(y) /\ MinuteOf(x) = m /\ MinuteOf(y) = m
            BY <3>2, <3>3, <4>1
          <5>2. m \in Int
            BY <2>1
          <5>3. QED
            BY <5>1, <5>2
        <4>2. QED
          BY <2>2, <3>3, <4>1
      <3>5. X \subseteq Nat
        BY <3>3
      <3>6. QED
        BY <2>2, <3>1, <3>4, <3>5, NarrowCount
    <2>9. QED
      BY <2>5, <2>6, <2>7, <2>8
  <1>2. QED
    BY <1>1, LimiterInvariant, PTL

\* RateLimiting, "Try again in {e.retry_after} seconds": a client that waits as long as it
\* was told, and a second more where the code rounds down, is let in, unless the limiter
\* is the one whose admission ends in an error.
THEOREM RetryAfterHelps == AuthSpec => []Rate!RetryAfterIsEnough
  <1>1. LimiterInv => Rate!RetryAfterIsEnough
    <2>1. SUFFICES ASSUME LimiterInv, told # 0, now >= Until PROVE Rate!Admits
      BY Zenon DEF Rate!RetryAfterIsEnough, Until
    <2>2. RateInv /\ now \in Nat /\ told \in Nat /\ TicksPerSecond \in Nat
      BY <2>1, AuthAssumption DEF LimiterInv, RateInv, Rate!LimiterAssumption
    <2>3. Until \in Nat
      BY <2>2 DEF Until
    <2>4. Until <= now
      BY <2>1, <2>2, <2>3
    <2>5. QED
      BY <2>1, <2>2, <2>4, UntilIsEnough
  <1>2. QED
    BY <1>1, LimiterInvariant, PTL

---------------------------------------------------------------------------
(* ApiKeys: the invariant.                                                 *)

\* Of the uses let through that are younger than h at the time n, each has one in its
\* place, counted from the end, among all uses, which came no earlier.
CoveredBy(acc, all, h, n) ==
  \A i \in 1..Len(acc) :
    acc[i] + h > n =>
      /\ Len(acc) - i < Len(all)
      /\ acc[i] <= all[Len(all) - (Len(acc) - i)]

\* A list of times in order, the last no later than now.
Past(s, n) == Ordered(s) /\ \A i \in 1..Len(s) : s[i] <= n

\* With each use let through, those of the hour up to it are fewer than its limit, but one.
Bounded(acc, lim, h) ==
  /\ Len(lim) = Len(acc)
  /\ \A m, j \in 1..Len(acc) : m <= j /\ acc[m] + h > acc[j] => j - m < lim[j]

\* What a use at the time n makes of the uses before, of which the first k are too old.
Continued(all, k, all2, h, n) ==
  /\ \A i \in 1..Len(all) : i > k <=> all[i] + h > n
  /\ Past(all2, n) /\ Len(all2) = Len(all) - k + 1
  /\ \A i \in 1..(Len(all) - k) : all2[i] = all[k + i]
  /\ all2[Len(all) - k + 1] = n

\* A use of a key: the uses of the last hour are kept, and it is added.
LEMMA UseStep ==
  ASSUME NEW n \in Nat, NEW h \in Nat, NEW all, Past(all, n)
  PROVE  LET r == Selected(all, {i \in DOMAIN all : all[i] + h > n}) IN
         \E k \in 0..Len(all) :
           Len(r) = Len(all) - k /\ Continued(all, k, Append(r, n), h, n)
  <1> DEFINE r == Selected(all, {i \in DOMAIN all : all[i] + h > n})
             all2 == Append(r, n)
  <1>1. Ordered(all) /\ Len(all) \in Nat /\ \A i \in 1..Len(all) : all[i] <= n /\ all[i] \in Nat
    BY DEF Past, Ordered
  <1>2. PICK k \in 0..Len(all) :
          /\ r = Rest(all, k)
          /\ \A i \in 1..Len(all) : i > k <=> all[i] + h > n
    BY <1>1, LateOnes
  <1> HIDE DEF r
  <1>3. /\ Ordered(r) /\ Len(r) = Len(all) - k
        /\ \A i \in 1..(Len(all) - k) : r[i] = all[k + i]
    BY <1>1, <1>2, RestOrdered
  <1>4. \A i \in 1..Len(r) : r[i] <= n
    <2>1. ASSUME NEW i \in 1..Len(r) PROVE r[i] <= n
      <3>1. k + i \in 1..Len(all) /\ r[i] = all[k + i]
        BY <1>1, <1>3
      <3>2. QED
        BY <1>1, <3>1
    <2>2. QED
      BY <2>1
  <1>5. /\ Ordered(all2) /\ Len(all2) = Len(all) - k + 1
        /\ \A i \in 1..(Len(all) - k) : all2[i] = all[k + i]
        /\ all2[Len(all) - k + 1] = n
    <2>1. /\ Ordered(all2) /\ Len(all2) = Len(r) + 1
          /\ \A i \in 1..Len(r) : all2[i] = r[i]
          /\ all2[Len(r) + 1] = n
      BY <1>3, <1>4, AppendOrdered
    <2>2. QED
      BY <1>1, <1>3, <2>1
  <1> HIDE DEF all2
  <1>6. \A i \in 1..Len(all2) : all2[i] <= n
    <2>1. Len(all2) \in 1..Len(all2) /\ all2[Len(all2)] = n
      BY <1>1, <1>5
    <2>2. \A i \in 1..Len(all2) : i <= Len(all2) => all2[i] <= all2[Len(all2)]
      BY <1>5, <2>1 DEF Ordered
    <2>3. QED
      BY <1>1, <1>5, <2>1, <2>2
  <1>7. QED
    BY <1>2, <1>3, <1>5, <1>6, Zenon DEF Past, Continued, all2, r

\* A use that is let through is bounded by its limit if those of the last hour leave room.
LEMMA BoundedAppend ==
  ASSUME NEW acc, Ordered(acc), NEW lim, lim \in Seq(Int), NEW h \in Nat, Bounded(acc, lim, h),
         NEW n \in Nat, NEW number \in Int, 0 < number,
         \A i \in 1..Len(acc) : acc[i] <= n /\ (acc[i] + h > n => Len(acc) + 1 - i < number)
  PROVE  Bounded(Append(acc, n), Append(lim, number), h)
  <1> DEFINE acc2 == Append(acc, n)
             lim2 == Append(lim, number)
             l == Len(acc)
  <1>1. /\ l \in Nat /\ Len(acc2) = l + 1 /\ acc2[l + 1] = n
        /\ \A i \in 1..l : acc2[i] = acc[i] /\ acc[i] \in Nat
    <2>1. \A i \in 1..Len(acc) : acc[i] <= n
      OBVIOUS
    <2>2. QED
      BY <2>1, AppendOrdered DEF Ordered
  <1>2. /\ Len(lim) = l
        /\ \A m, j \in 1..l : m <= j /\ acc[m] + h > acc[j] => j - m < lim[j]
    BY Zenon DEF Bounded
  <1>3. Len(lim2) = l + 1 /\ lim2[l + 1] = number /\ \A j \in 1..l : lim2[j] = lim[j]
    BY <1>2
  <1>4. \A i \in 1..l : acc[i] + h > n => l + 1 - i < number
    OBVIOUS
  <1> HIDE DEF acc2, lim2, l
  <1>5. ASSUME NEW m \in 1..(l + 1), NEW j \in 1..(l + 1), m <= j, acc2[m] + h > acc2[j]
        PROVE  j - m < lim2[j]
    <2>1. CASE j \in 1..l
      <3>1. m \in 1..l
        BY <1>1, <1>5, <2>1
      <3>2. acc2[m] = acc[m] /\ acc2[j] = acc[j] /\ lim2[j] = lim[j]
        BY <1>1, <1>3, <2>1, <3>1
      <3>3. acc[m] + h > acc[j]
        BY <1>5, <3>2, Zenon
      <3>4. QED
        BY <1>2, <1>5, <2>1, <3>1, <3>2, <3>3
    <2>2. CASE j = l + 1 /\ m = l + 1
      BY <1>1, <1>3, <2>2
    <2>3. CASE j = l + 1 /\ m \in 1..l
      <3>1. acc[m] + h > n /\ lim2[j] = number
        BY <1>1, <1>3, <1>5, <2>3, Zenon
      <3>2. QED
        <4>1. l + 1 - m < number
          BY <1>4, <2>3, <3>1, Zenon
        <4>2. QED
          BY <1>1, <2>3, <3>1, <4>1
    <2>4. QED
      BY <1>1, <1>5, <2>1, <2>2, <2>3
  <1>6. QED
    BY <1>1, <1>3, <1>5, Zenon DEF Bounded, acc2, lim2

\* The uses let through stay covered, and leave room within a number if all of them do.
LEMMA UseCovered ==
  ASSUME NEW n \in Nat, NEW h \in Nat, NEW number \in Int,
         NEW all, Past(all, n), NEW acc, Past(acc, n), CoveredBy(acc, all, h, n),
         NEW k \in 0..Len(all), NEW all2, Continued(all, k, all2, h, n),
         NEW ok \in BOOLEAN, ok => Len(all) - k < number
  PROVE  LET acc2 == IF ok THEN Append(acc, n) ELSE acc IN
         /\ Past(acc2, n) /\ CoveredBy(acc2, all2, h, n)
         /\ ok => /\ 0 < number
                  /\ \A i \in 1..Len(acc) : acc[i] + h > n => Len(acc) + 1 - i < number
  <1> DEFINE acc2 == IF ok THEN Append(acc, n) ELSE acc
  <1>1. /\ Ordered(all) /\ Len(all) \in Nat /\ \A i \in 1..Len(all) : all[i] <= n /\ all[i] \in Nat
        /\ Ordered(acc) /\ Len(acc) \in Nat /\ \A i \in 1..Len(acc) : acc[i] <= n /\ acc[i] \in Nat
    <2>1. \A s : Past(s, n) => /\ Ordered(s) /\ Len(s) \in Nat
                               /\ \A i \in 1..Len(s) : s[i] <= n /\ s[i] \in Nat
      BY SMTT(30) DEF Past, Ordered
    <2>2. QED
      BY <2>1, Zenon
  <1>2. \A i \in 1..Len(all) : i > k <=> all[i] + h > n
    BY Zenon DEF Continued
  <1>3. /\ Ordered(all2) /\ Len(all2) = Len(all) - k + 1
        /\ \A i \in 1..(Len(all) - k) : all2[i] = all[k + i]
        /\ all2[Len(all) - k + 1] = n
    BY Zenon DEF Past, Continued
  <1>4. Len(all2) # 0 /\ all2[Len(all2)] = n
    BY <1>1, <1>3
  \* The use that stands for one let through is kept.
  <1>5. (ok => acc2 = Append(acc, n)) /\ (~ ok => acc2 = acc)
    BY Zenon
  <1> HIDE DEF acc2
  <1>6. ASSUME NEW i \in 1..Len(acc), acc[i] + h > n
        PROVE  LET p == Len(all) - (Len(acc) - i) IN
                 /\ p \in (k + 1)..Len(all) /\ acc[i] <= all[p] /\ all2[p - k] = all[p]
                 /\ all[p] \in Nat
    <2> DEFINE p == Len(all) - (Len(acc) - i)
    <2>1. p \in 1..Len(all) /\ acc[i] <= all[p]
      BY <1>1, <1>6 DEF CoveredBy
    <2>2. all[p] \in Nat
      BY <2>1, <1>1
    <2> HIDE DEF p
    <2>3. p > k
      <3>1. acc[i] \in Nat /\ all[p] + h > n
        BY <1>1, <1>6, <2>1, <2>2, SMTT(30)
      <3>2. QED
        BY <1>2, <2>1, <3>1, Zenon
    <2>4. p - k \in 1..(Len(all) - k) /\ k + (p - k) = p
      BY <1>1, <2>1, <2>3
    <2>5. QED
      BY <1>3, <2>1, <2>2, <2>3, <2>4 DEF p
  <1>7. ASSUME ok PROVE Past(acc2, n) /\ CoveredBy(acc2, all2, h, n)
    <2>1. /\ Ordered(acc2) /\ Len(acc2) = Len(acc) + 1
          /\ \A i \in 1..Len(acc) : acc2[i] = acc[i]
          /\ acc2[Len(acc) + 1] = n
      <3>1. acc2 = Append(acc, n)
        BY <1>7, <1>5, Zenon
      <3>2. QED
        BY <1>1, <3>1, AppendOrdered
    <2>2. \A i \in 1..Len(acc2) : acc2[i] <= n
      BY <1>1, <2>1
    <2>3. ASSUME NEW i \in 1..(Len(acc) + 1), acc2[i] + h > n
          PROVE  /\ Len(acc) + 1 - i < Len(all2)
                 /\ acc2[i] <= all2[Len(all2) - (Len(acc) + 1 - i)]
      <3>1. CASE i = Len(acc) + 1
        <4>1. Len(acc) + 1 - i = 0 /\ Len(all2) - 0 = Len(all2) /\ 0 < Len(all2)
          BY <1>1, <1>3, <3>1
        <4>2. acc2[i] = n /\ n <= n
          BY <2>1, <3>1
        <4>3. QED
          BY <1>4, <4>1, <4>2
      <3>2. CASE i \in 1..Len(acc)
        <4>1. acc2[i] = acc[i] /\ acc[i] + h > n
          BY <2>1, <2>3, <3>2
        <4>2. Len(all2) - (Len(acc) + 1 - i) = Len(all) - (Len(acc) - i) - k
          BY <1>1, <1>3
        <4>3. QED
          BY <1>1, <1>3, <1>6, <3>2, <4>1, <4>2
      <3>3. QED
        BY <1>1, <3>1, <3>2
    <2>4. CoveredBy(acc2, all2, h, n)
      BY <2>1, <2>3 DEF CoveredBy
    <2>5. QED
      BY <1>1, <2>1, <2>2, <2>4, Zenon DEF Past
  <1>8. ASSUME ~ ok PROVE Past(acc2, n) /\ CoveredBy(acc2, all2, h, n)
    <2>1. acc2 = acc
      BY <1>8, <1>5, Zenon
    <2>2. ASSUME NEW i \in 1..Len(acc), acc[i] + h > n
          PROVE  /\ Len(acc) - i < Len(all2)
                 /\ acc[i] <= all2[Len(all2) - (Len(acc) - i)]
      <3> DEFINE p == Len(all) - (Len(acc) - i)
                 q == p - k
      <3>1. /\ p \in (k + 1)..Len(all) /\ acc[i] <= all2[q]
            /\ p = Len(all) - (Len(acc) - i)
        BY <1>6, <2>2
      <3> HIDE DEF p
      <3>2. /\ q \in 1..Len(all2) /\ q + 1 \in 1..Len(all2) /\ q <= q + 1
            /\ Len(all2) - (Len(acc) - i) = q + 1 /\ Len(acc) - i < Len(all2)
        BY <1>1, <1>3, <3>1, SMTT(30)
      <3> HIDE DEF q
      <3>3. all2[q] <= all2[q + 1] /\ all2[q] \in Nat /\ all2[q + 1] \in Nat
        <4>1. Ordered(all2)
          BY <1>3
        <4>2. q \in 1..Len(all2) /\ q + 1 \in 1..Len(all2) /\ q <= q + 1
          BY <3>2
        <4> DEFINE r == q + 1
        <4> HIDE DEF r
        <4>3. all2[q] <= all2[r] /\ all2[q] \in Nat /\ all2[r] \in Nat
          BY <4>1, <4>2, SMTT(30) DEF Ordered, r
        <4>4. QED
          BY <4>3 DEF r
      <3>4. acc[i] <= all2[q + 1]
        <4>1. acc[i] \in Nat /\ acc[i] <= all2[q]
          BY <1>1, <2>2, <3>1, Zenon
        <4>2. QED
          BY <3>3, <4>1, SMTT(30)
      <3>5. QED
        BY <3>2, <3>4
    <2>3. CoveredBy(acc2, all2, h, n)
      BY <2>1, <2>2 DEF CoveredBy
    <2>4. QED
      BY <2>1, <2>3, Zenon
  <1>9. ASSUME ok
        PROVE  /\ 0 < number
               /\ \A i \in 1..Len(acc) : acc[i] + h > n => Len(acc) + 1 - i < number
    <2>1. Len(all) - k < number /\ 0 < number
      BY <1>1, <1>9
    <2>2. ASSUME NEW i \in 1..Len(acc), acc[i] + h > n PROVE Len(acc) + 1 - i < number
      <3>1. Len(all) - (Len(acc) - i) > k
        BY <1>1, <1>6, <2>2
      <3>2. QED
        BY <1>1, <2>1, <2>2, <3>1
    <2>3. QED
      BY <2>1, <2>2
  <1>10. QED
    BY <1>7, <1>8, <1>9 DEF acc2

\* A key, its uses and those that were let through.  What a counter counts came after its
\* reset, so the last use did.
KeySound(i) ==
  /\ Past(calls[i], now) /\ Past(accepted[i], now)
  /\ CoveredBy(accepted[i], calls[i], Hour, now)
  /\ Bounded(accepted[i], allowed[i], Hour)
  /\ keys[i] # NoKey =>
       /\ keys[i].resetMinute <= now /\ keys[i].resetHour <= now
       /\ keys[i].minute # 0 \/ keys[i].hour # 0 =>
            /\ Len(calls[i]) # 0
            /\ keys[i].resetMinute <= calls[i][Len(calls[i])]
            /\ keys[i].resetHour <= calls[i][Len(calls[i])]

KeysInv ==
  /\ now \in Nat
  /\ keys \in [Keys!Ids -> Keys!Key \cup {NoKey}]
  /\ calls \in [Keys!Ids -> Seq(Nat)]
  /\ accepted \in [Keys!Ids -> Seq(Nat)]
  /\ allowed \in [Keys!Ids -> Seq(Int)]
  /\ \A i \in Keys!Ids : KeySound(i)

LEMMA KeyNumbers ==
  /\ NewConfigs \subseteq [Keys!Fields -> Int]
  /\ \A c \in ConfigChanges : \A f \in DOMAIN c : c[f] \in Int
  /\ Minute \in Nat \ {0} /\ Hour \in Nat /\ Day \in Nat \ {0} /\ Minute < Hour /\ Hour < Day
  /\ MaxKeyTime \in Nat /\ Never \notin Nat
  BY AuthAssumption DEF Keys!KeyAssumption

\* Before a key is made there is nothing.
LEMMA NewManager ==
  ASSUME Keys!Init
  PROVE  KeysInv
  <1>1. /\ now = 0 /\ keys = [i \in Keys!Ids |-> NoKey]
        /\ calls = [i \in Keys!Ids |-> <<>>] /\ accepted = [i \in Keys!Ids |-> <<>>]
        /\ allowed = [i \in Keys!Ids |-> <<>>]
    BY DEF Keys!Init
  <1>2. <<>> \in Seq(Nat) /\ <<>> \in Seq(Int) /\ Len(<<>>) = 0
    OBVIOUS
  <1>3. ASSUME NEW i \in Keys!Ids PROVE KeySound(i)
    <2>1. keys[i] = NoKey /\ calls[i] = <<>> /\ accepted[i] = <<>> /\ allowed[i] = <<>>
      BY <1>1, <1>3
    <2>2. 1..0 = {}
      OBVIOUS
    <2>3. Past(<<>>, now) /\ CoveredBy(<<>>, <<>>, Hour, now) /\ Bounded(<<>>, <<>>, Hour)
      BY <1>2, <2>2 DEF Past, Ordered, CoveredBy, Bounded
    <2>4. QED
      BY <2>1, <2>3, Zenon DEF KeySound
  <1>4. now \in Nat
    BY <1>1
  <1>5. /\ keys \in [Keys!Ids -> Keys!Key \cup {NoKey}]
        /\ calls \in [Keys!Ids -> Seq(Nat)] /\ accepted \in [Keys!Ids -> Seq(Nat)]
        /\ allowed \in [Keys!Ids -> Seq(Int)]
    BY <1>1, <1>2
  <1>6. QED
    BY <1>3, <1>4, <1>5, Zenon DEF KeysInv

\* What nobody does to the keys while time passes keeps the invariant.
LEMMA KeysTime ==
  ASSUME KeysInv, keys' = keys, calls' = calls, accepted' = accepted, allowed' = allowed,
         now' \in Nat, now <= now'
  PROVE  KeysInv'
  <1>1. ASSUME NEW i \in Keys!Ids PROVE KeySound(i)'
    <2>1. /\ KeySound(i) /\ now \in Nat
          /\ keys[i] # NoKey => keys[i].resetMinute \in Nat /\ keys[i].resetHour \in Nat
          /\ accepted[i] \in Seq(Nat)
      BY <1>1 DEF KeysInv, Keys!Key
    <2> DEFINE cs == calls[i]
               ac == accepted[i]
               lm == allowed[i]
               k == keys[i]
    <2>2. /\ Past(cs, now) /\ Past(ac, now) /\ CoveredBy(ac, cs, Hour, now)
          /\ Bounded(ac, lm, Hour)
          /\ k # NoKey => k.resetMinute <= now /\ k.resetHour <= now
          /\ k # NoKey => k.resetMinute \in Nat /\ k.resetHour \in Nat
          /\ k # NoKey /\ (k.minute # 0 \/ k.hour # 0) =>
               Len(cs) # 0 /\ k.resetMinute <= cs[Len(cs)] /\ k.resetHour <= cs[Len(cs)]
      BY <2>1, Zenon DEF KeySound
    <2>3. calls'[i] = cs /\ accepted'[i] = ac /\ allowed'[i] = lm /\ keys'[i] = k
      OBVIOUS
    <2> HIDE DEF cs, ac, lm, k
    <2>4. Past(cs, now') /\ Past(ac, now')
      BY <2>1, <2>2 DEF Past, Ordered
    <2>5. CoveredBy(ac, cs, Hour, now')
      <3>1. \A j \in 1..Len(ac) : ac[j] \in Nat
        BY <2>2 DEF Past, Ordered
      <3>2. \A j \in 1..Len(ac) : ac[j] + Hour > now' => ac[j] + Hour > now
        BY <2>1, <3>1, KeyNumbers
      <3>3. QED
        BY <2>2, <3>2, Zenon DEF CoveredBy
    <2>6. k # NoKey => k.resetMinute <= now' /\ k.resetHour <= now'
      BY <2>1, <2>2
    <2>7. QED
      BY <2>2, <2>3, <2>4, <2>5, <2>6, Zenon DEF KeySound
  <1>2. QED
    BY <1>1, Zenon DEF KeysInv

\* So does what only changes keys and starts their counters, if at all, with new resets.
LEMMA KeysChange ==
  ASSUME KeysInv, now' = now, calls' = calls, accepted' = accepted, allowed' = allowed,
         keys' \in [Keys!Ids -> Keys!Key \cup {NoKey}],
         \A i \in Keys!Ids : keys'[i] # NoKey =>
           \/ /\ keys'[i].minute = 0 /\ keys'[i].hour = 0
              /\ keys'[i].resetMinute = now /\ keys'[i].resetHour = now
           \/ /\ keys[i] # NoKey
              /\ keys'[i].minute = keys[i].minute /\ keys'[i].hour = keys[i].hour
              /\ keys'[i].resetMinute = keys[i].resetMinute /\ keys'[i].resetHour = keys[i].resetHour
  PROVE  KeysInv'
  <1>1. ASSUME NEW i \in Keys!Ids PROVE KeySound(i)'
    <2>1. KeySound(i) /\ now \in Nat /\ now <= now
      BY <1>1 DEF KeysInv
    <2>2. calls'[i] = calls[i] /\ accepted'[i] = accepted[i] /\ allowed'[i] = allowed[i]
      OBVIOUS
    <2>3. /\ Past(calls[i], now) /\ Past(accepted[i], now)
          /\ CoveredBy(accepted[i], calls[i], Hour, now) /\ Bounded(accepted[i], allowed[i], Hour)
      BY <2>1, Zenon DEF KeySound
    <2>4. keys'[i] # NoKey =>
            /\ keys'[i].resetMinute <= now /\ keys'[i].resetHour <= now
            /\ keys'[i].minute # 0 \/ keys'[i].hour # 0 =>
                 /\ Len(calls[i]) # 0
                 /\ keys'[i].resetMinute <= calls[i][Len(calls[i])]
                 /\ keys'[i].resetHour <= calls[i][Len(calls[i])]
      BY <1>1, <2>1, Zenon DEF KeySound
    <2>5. QED
      BY <2>2, <2>3, <2>4, Zenon DEF KeySound
  <1>2. QED
    BY <1>1, Zenon DEF KeysInv

\* What counters that are over are, and what one more use makes of them.
LEMMA ResetKey ==
  ASSUME NEW k \in Keys!Key, now \in Nat, k.resetMinute <= now, k.resetHour <= now
  PROVE  LET a == Keys!AfterReset(k) IN
         /\ a \in Keys!Key /\ a.resetMinute <= now /\ a.resetHour <= now
         /\ a.config = k.config
         /\ a.minute = IF (now - k.resetMinute) % Day >= Minute THEN 0 ELSE k.minute
         /\ a.hour = IF (now - k.resetHour) % Day >= Hour THEN 0 ELSE k.hour
         /\ Keys!Counted(a) \in Keys!Key
         /\ Keys!Counted(a).resetMinute <= now /\ Keys!Counted(a).resetHour <= now
  <1> DEFINE a == Keys!AfterReset(k)
             minuteOver == (now - k.resetMinute) % Day >= Minute
             hourOver == (now - k.resetHour) % Day >= Hour
             dayOver == now - k.resetDay >= Day
  <1>1. a = [k EXCEPT !.minute = IF minuteOver THEN 0 ELSE k.minute,
                      !.resetMinute = IF minuteOver THEN now ELSE k.resetMinute,
                      !.hour = IF hourOver THEN 0 ELSE k.hour,
                      !.resetHour = IF hourOver THEN now ELSE k.resetHour,
                      !.day = IF dayOver THEN 0 ELSE k.day,
                      !.resetDay = IF dayOver THEN now ELSE k.resetDay]
    BY DEF Keys!AfterReset
  <1>2. /\ k.minute \in Nat /\ k.hour \in Nat /\ k.day \in Nat
        /\ k.resetMinute \in Nat /\ k.resetHour \in Nat /\ k.resetDay \in Nat
    BY DEF Keys!Key
  <1> HIDE DEF a, minuteOver, hourOver, dayOver
  <1>3. /\ a \in Keys!Key /\ a.resetMinute <= now /\ a.resetHour <= now
        /\ a.config = k.config
        /\ a.minute = IF minuteOver THEN 0 ELSE k.minute
        /\ a.hour = IF hourOver THEN 0 ELSE k.hour
    <2> DEFINE m == IF minuteOver THEN 0 ELSE k.minute
               rm == IF minuteOver THEN now ELSE k.resetMinute
               h == IF hourOver THEN 0 ELSE k.hour
               rh == IF hourOver THEN now ELSE k.resetHour
               d == IF dayOver THEN 0 ELSE k.day
               rd == IF dayOver THEN now ELSE k.resetDay
    <2>1. m \in Nat /\ h \in Nat /\ d \in Nat /\ rd \in Nat
          /\ rm \in Nat /\ rh \in Nat /\ rm <= now /\ rh <= now
      BY <1>2
    <2>2. a = [k EXCEPT !.minute = m, !.resetMinute = rm, !.hour = h, !.resetHour = rh,
                        !.day = d, !.resetDay = rd]
      BY <1>1, Zenon
    <2> HIDE DEF m, rm, h, rh, d, rd
    <2>3. /\ a \in Keys!Key /\ a.config = k.config
          /\ a.minute = m /\ a.hour = h /\ a.resetMinute = rm /\ a.resetHour = rh
      BY <2>1, <2>2 DEF Keys!Key
    <2>4. a.resetMinute <= now /\ a.resetHour <= now
      BY <2>1, <2>3
    <2>5. QED
      BY <2>3, <2>4, Zenon DEF m, h
  <1>4. Keys!Counted(a) = [a EXCEPT !.minute = a.minute + 1, !.hour = a.hour + 1, !.day = a.day + 1]
    BY DEF Keys!Counted
  <1>5. /\ Keys!Counted(a) \in Keys!Key
        /\ Keys!Counted(a).resetMinute <= now /\ Keys!Counted(a).resetHour <= now
    <2>1. a.minute + 1 \in Nat /\ a.hour + 1 \in Nat /\ a.day + 1 \in Nat
      BY <1>3 DEF Keys!Key
    <2>2. /\ Keys!Counted(a) \in Keys!Key
          /\ Keys!Counted(a).resetMinute = a.resetMinute /\ Keys!Counted(a).resetHour = a.resetHour
      <3> DEFINE m == a.minute + 1
                 h == a.hour + 1
                 d == a.day + 1
      <3>1. Keys!Counted(a) = [a EXCEPT !.minute = m, !.hour = h, !.day = d]
        BY <1>4
      <3>2. m \in Nat /\ h \in Nat /\ d \in Nat
        BY <2>1
      <3> HIDE DEF m, h, d
      <3>3. QED
        BY <1>3, <3>1, <3>2 DEF Keys!Key
    <2>3. QED
      BY <1>3, <2>2
  <1>6. QED
    BY <1>3, <1>5 DEF a, minuteOver, hourOver

\* A use of a key keeps the invariant.
LEMMA AuthenticateKeeps ==
  ASSUME KeysInv, NEW i \in Keys!Ids, Keys!Authenticate(i)
  PROVE  KeysInv'
  <1> DEFINE cs == calls[i]
             ac == accepted[i]
             lm == allowed[i]
             number == keys[i].config["minute"]
             r == Selected(cs, {n \in DOMAIN cs : cs[n] + Hour > now})
  <1>1. /\ keys[i] \in Keys!Key /\ keys[i] # NoKey /\ KeySound(i) /\ now \in Nat /\ now' = now
        /\ keys[i].resetMinute <= now /\ keys[i].resetHour <= now
    <2>1. keys[i] # NoKey /\ now' = now
      BY Zenon DEF Keys!Authenticate, Keys!Usable, Keys!Known
    <2>2. QED
      BY <2>1 DEF KeysInv, KeySound
  <1>2. /\ Past(cs, now) /\ Past(ac, now) /\ CoveredBy(ac, cs, Hour, now) /\ Bounded(ac, lm, Hour)
    BY <1>1, Zenon DEF KeySound
  <1>17. number \in Int /\ lm \in Seq(Int)
    BY <1>1 DEF Keys!Key, Keys!Fields, KeysInv
  <1>3. Keys!Recent(i) = r
    BY SameSelection, Zenon DEF Keys!Recent
  <1>4. PICK ok \in BOOLEAN : ok <=> Keys!Accepts(i)
    BY Zenon
  <1>5. ok => Len(r) < number
    BY <1>3, <1>4, Zenon DEF Keys!Accepts, Keys!WithinRate
  <1>6. /\ calls' = [calls EXCEPT ![i] = Append(r, now)]
        /\ accepted' = [accepted EXCEPT ![i] = IF ok THEN Append(ac, now) ELSE ac]
        /\ allowed' = [allowed EXCEPT ![i] = IF ok THEN Append(lm, number) ELSE lm]
    BY <1>3, <1>4, Zenon DEF Keys!Authenticate
  <1>7. \/ keys' = [keys EXCEPT ![i] = keys[i]]
        \/ keys' = [keys EXCEPT ![i] = Keys!AfterReset(keys[i])]
        \/ keys' = [keys EXCEPT ![i] = Keys!Counted(Keys!AfterReset(keys[i]))]
    BY Zenon DEF Keys!Authenticate
  <1>8. PICK k \in Keys!Key :
          keys' = [keys EXCEPT ![i] = k] /\ k.resetMinute <= now /\ k.resetHour <= now
    BY <1>1, <1>7, ResetKey
  <1>9. PICK m \in 0..Len(cs) : Len(r) = Len(cs) - m /\ Continued(cs, m, Append(r, now), Hour, now)
    BY <1>1, <1>2, KeyNumbers, UseStep
  <1> DEFINE cs2 == Append(r, now)
             ac2 == IF ok THEN Append(ac, now) ELSE ac
             lm2 == IF ok THEN Append(lm, number) ELSE lm
  <1> HIDE DEF r, number
  <1>10. Past(cs2, now) /\ Len(cs2) # 0 /\ cs2[Len(cs2)] = now
    <2> HIDE DEF cs2
    <2>1. Continued(cs, m, cs2, Hour, now) /\ Len(cs) \in Nat
      BY <1>2, <1>9 DEF cs2, Past, Ordered
    <2>2. QED
      BY <1>9, <2>1 DEF Continued
  <1>11. Past(ac2, now) /\ CoveredBy(ac2, cs2, Hour, now) /\ Bounded(ac2, lm2, Hour) /\ lm2 \in Seq(Int)
    <2>1. ok => Len(cs) - m < number
      BY <1>5, <1>9
    <2>2. Continued(cs, m, cs2, Hour, now)
      BY <1>9
    <2>3. lm2 \in Seq(Int)
      BY <1>17
    <2> HIDE DEF cs2, cs, ac, lm
    <2>4. /\ Past(ac2, now) /\ CoveredBy(ac2, cs2, Hour, now)
          /\ ok => /\ 0 < number
                   /\ \A j \in 1..Len(ac) : ac[j] + Hour > now => Len(ac) + 1 - j < number
      BY <1>1, <1>2, <1>17, <2>1, <2>2, KeyNumbers, UseCovered
    <2>5. ok => Bounded(Append(ac, now), Append(lm, number), Hour)
      BY <1>1, <1>2, <1>17, <2>4, KeyNumbers, BoundedAppend DEF Past
    <2>6. QED
      BY <1>2, <2>3, <2>4, <2>5
  <1> HIDE DEF cs2, ac2, lm2
  <1>12. /\ keys' = [keys EXCEPT ![i] = k]
         /\ calls' = [calls EXCEPT ![i] = cs2]
         /\ accepted' = [accepted EXCEPT ![i] = ac2]
         /\ allowed' = [allowed EXCEPT ![i] = lm2]
    BY <1>6, <1>8, Zenon DEF cs2, ac2, lm2
  <1>13. ASSUME NEW j \in Keys!Ids PROVE KeySound(j)'
    <2>1. CASE j = i
      <3>1. keys'[j] = k /\ calls'[j] = cs2 /\ accepted'[j] = ac2 /\ allowed'[j] = lm2
        BY <1>12, <2>1 DEF KeysInv
      <3>2. now <= now /\ k.resetMinute <= now /\ k.resetHour <= now
        BY <1>1, <1>8
      <3>3. QED
        BY <1>1, <1>10, <1>11, <3>1, <3>2, Zenon DEF KeySound
    <2>2. CASE j # i
      <3>1. /\ keys'[j] = keys[j] /\ calls'[j] = calls[j] /\ accepted'[j] = accepted[j]
            /\ allowed'[j] = allowed[j] /\ KeySound(j)
        BY <1>12, <1>13, <2>2 DEF KeysInv
      <3>2. QED
        BY <1>1, <3>1, Zenon DEF KeySound
    <2>3. QED
      BY <2>1, <2>2
  <1>14. cs2 \in Seq(Nat) /\ ac2 \in Seq(Nat)
    BY <1>10, <1>11 DEF Past, Ordered
  <1>15. /\ keys' \in [Keys!Ids -> Keys!Key \cup {NoKey}]
         /\ calls' \in [Keys!Ids -> Seq(Nat)] /\ accepted' \in [Keys!Ids -> Seq(Nat)]
         /\ allowed' \in [Keys!Ids -> Seq(Int)]
    BY <1>11, <1>12, <1>14 DEF KeysInv
  <1>16. QED
    BY <1>1, <1>13, <1>15, Zenon DEF KeysInv

\* Keys are changed only when they are known.
LEMMA MatchingKnown ==
  \A status \in Keys!Statuses : Keys!Matching(status) \subseteq Keys!Known
  BY DEF Keys!Matching

\* A key that is updated is a key, and its counters are what they were.
LEMMA UpdatedKey ==
  ASSUME NEW k \in Keys!Key, NEW active \in BOOLEAN \cup {Unset}, NEW expires,
         expires = Unset \/ expires \in Nat, NEW change \in ConfigChanges
  PROVE  LET u == Keys!Updated(k, active, expires, change) IN
         /\ u \in Keys!Key /\ u.minute = k.minute /\ u.hour = k.hour
         /\ u.resetMinute = k.resetMinute /\ u.resetHour = k.resetHour
  <1> DEFINE a == IF active = Unset THEN k.active ELSE active
             e == IF expires = Unset THEN k.expires ELSE expires
             c == [f \in Keys!Fields |-> IF f \in DOMAIN change THEN change[f] ELSE k.config[f]]
  <1>1. a \in BOOLEAN
    BY Zenon DEF Keys!Key
  <1>2. e \in Nat \cup {Never}
    BY DEF Keys!Key
  <1>3. c \in [Keys!Fields -> Int]
    <2>1. k.config \in [Keys!Fields -> Int]
      BY DEF Keys!Key
    <2>2. \A f \in DOMAIN change : change[f] \in Int
      BY KeyNumbers
    <2>3. QED
      BY <2>1, <2>2
  <1>4. Keys!Updated(k, active, expires, change) = [k EXCEPT !.active = a, !.expires = e, !.config = c]
    BY Zenon DEF Keys!Updated
  <1> HIDE DEF a, e, c
  <1>5. QED
    BY <1>1, <1>2, <1>3, <1>4 DEF Keys!Key

LEMMA UpdateKeeps ==
  ASSUME KeysInv, NEW S, S \subseteq Keys!Known, NEW active \in BOOLEAN \cup {Unset},
         NEW expires, expires = Unset \/ expires \in Nat, NEW change \in ConfigChanges,
         Keys!Update(S, active, expires, change)
  PROVE  KeysInv'
  <1>1. /\ keys' = [i \in Keys!Ids |-> IF i \in S THEN Keys!Updated(keys[i], active, expires, change)
                                                ELSE keys[i]]
        /\ now' = now /\ calls' = calls /\ accepted' = accepted /\ allowed' = allowed
    BY Zenon DEF Keys!Update
  <1>2. ASSUME NEW i \in Keys!Ids
        PROVE  /\ keys'[i] \in Keys!Key \cup {NoKey}
               /\ keys'[i] # NoKey =>
                    /\ keys[i] # NoKey
                    /\ keys'[i].minute = keys[i].minute /\ keys'[i].hour = keys[i].hour
                    /\ keys'[i].resetMinute = keys[i].resetMinute /\ keys'[i].resetHour = keys[i].resetHour
    <2>1. CASE i \in S
      <3>1. keys[i] \in Keys!Key /\ keys[i] # NoKey
        BY <1>2, <2>1 DEF KeysInv, Keys!Known
      <3>2. keys'[i] = Keys!Updated(keys[i], active, expires, change)
        BY <1>1, <2>1
      <3>3. QED
        <4> DEFINE k == keys[i]
        <4>1. k \in Keys!Key /\ k # NoKey
          BY <3>1
        <4> HIDE DEF k
        <4>2. LET u == Keys!Updated(k, active, expires, change) IN
              /\ u \in Keys!Key /\ u.minute = k.minute /\ u.hour = k.hour
              /\ u.resetMinute = k.resetMinute /\ u.resetHour = k.resetHour
          BY <4>1, UpdatedKey
        <4>3. keys'[i] = Keys!Updated(k, active, expires, change)
          BY <3>2 DEF k
        <4>4. /\ keys'[i] \in Keys!Key /\ keys'[i].minute = k.minute /\ keys'[i].hour = k.hour
              /\ keys'[i].resetMinute = k.resetMinute /\ keys'[i].resetHour = k.resetHour
          BY <4>2, <4>3, Zenon
        <4>5. QED
          BY <4>1, <4>4 DEF k
    <2>2. CASE i \notin S
      BY <1>1, <1>2, <2>2 DEF KeysInv
    <2>3. QED
      BY <2>1, <2>2
  <1>3. keys' \in [Keys!Ids -> Keys!Key \cup {NoKey}]
    BY <1>1, <1>2
  <1>4. QED
    BY <1>1, <1>2, <1>3, KeysChange

\* Each step of the keys keeps the invariant.
LEMMA KeysStepKeeps ==
  ASSUME KeysInv, Keys!Next
  PROVE  KeysInv'
  <1>1. ASSUME NEW u \in Users, NEW expires \in Keys!Expiries, NEW config \in NewConfigs,
               Keys!CreateApiKey(u, expires, config)
        PROVE  KeysInv'
    <2>1. PICK i \in Keys!Ids \ Keys!Known :
            keys' = [keys EXCEPT ![i] =
              [user |-> u, active |-> TRUE, expires |-> expires, config |-> config,
               minute |-> 0, hour |-> 0, day |-> 0,
               resetMinute |-> now, resetHour |-> now, resetDay |-> now]]
      BY <1>1, Zenon DEF Keys!CreateApiKey
    <2>2. now' = now /\ calls' = calls /\ accepted' = accepted /\ allowed' = allowed
      BY <1>1, Zenon DEF Keys!CreateApiKey
    <2>3. expires \in Nat \cup {Never} /\ config \in [Keys!Fields -> Int]
      BY <1>1, KeyNumbers DEF Keys!Expiries, KeysInv
    <2> DEFINE k == [user |-> u, active |-> TRUE, expires |-> expires, config |-> config,
                     minute |-> 0, hour |-> 0, day |-> 0,
                     resetMinute |-> now, resetHour |-> now, resetDay |-> now]
    <2>4. /\ k \in Keys!Key /\ k.minute = 0 /\ k.hour = 0 /\ k.resetMinute = now /\ k.resetHour = now
      BY <2>3 DEF Keys!Key, KeysInv
    <2> HIDE DEF k
    <2>5. keys' = [keys EXCEPT ![i] = k] /\ keys \in [Keys!Ids -> Keys!Key \cup {NoKey}]
      BY <2>1 DEF k, KeysInv
    <2>6. keys' \in [Keys!Ids -> Keys!Key \cup {NoKey}]
      BY <2>4, <2>5
    <2>7. \A j \in Keys!Ids : keys'[j] = k \/ keys'[j] = keys[j]
      BY <2>5
    <2>8. QED
      BY <2>2, <2>4, <2>6, <2>7, KeysChange
  <1>2. ASSUME NEW i \in Keys!Ids, NEW u \in Users, NEW admin \in BOOLEAN, Keys!Revoke(i, u, admin)
        PROVE  KeysInv'
    <2>1. /\ keys' = [keys EXCEPT ![i].active = FALSE] /\ keys[i] # NoKey
          /\ now' = now /\ calls' = calls /\ accepted' = accepted /\ allowed' = allowed
      BY <1>2, Zenon DEF Keys!Revoke, Keys!Known
    <2>2. keys[i] \in Keys!Key /\ keys \in [Keys!Ids -> Keys!Key \cup {NoKey}]
      BY <2>1 DEF KeysInv
    <2> DEFINE k == [keys[i] EXCEPT !.active = FALSE]
    <2>3. /\ k \in Keys!Key /\ k.minute = keys[i].minute /\ k.hour = keys[i].hour
          /\ k.resetMinute = keys[i].resetMinute /\ k.resetHour = keys[i].resetHour
      BY <2>2 DEF Keys!Key
    <2>4. keys' = [keys EXCEPT ![i] = k]
      BY <2>1
    <2> HIDE DEF k
    <2>5. keys' \in [Keys!Ids -> Keys!Key \cup {NoKey}]
      BY <2>2, <2>3, <2>4
    <2>6. \A j \in Keys!Ids : j # i => keys'[j] = keys[j]
      BY <2>2, <2>4
    <2>7. keys'[i] = k
      BY <2>2, <2>4
    <2>8. QED
      BY <2>1, <2>3, <2>5, <2>6, <2>7, KeysChange
  <1>3. ASSUME NEW active \in BOOLEAN \cup {Unset}, NEW expires \in {Unset, now + Day},
               NEW change \in ConfigChanges, NEW S, S \subseteq Keys!Known,
               Keys!Update(S, active, expires, change)
        PROVE  KeysInv'
    <2>1. expires = Unset \/ expires \in Nat
      BY <1>3, KeyNumbers DEF KeysInv
    <2>2. QED
      BY <1>3, <2>1, UpdateKeeps
  <1>4. \A i \in Keys!Known : {i} \subseteq Keys!Known
    OBVIOUS
  <1>5. ASSUME NEW status \in Keys!Statuses, Keys!BatchRevoke(status)
        PROVE  KeysInv'
    <2> DEFINE S == Keys!Matching(status)
    <2>1. /\ keys' = [i \in Keys!Ids |-> IF i \in S THEN [keys[i] EXCEPT !.active = FALSE] ELSE keys[i]]
          /\ now' = now /\ calls' = calls /\ accepted' = accepted /\ allowed' = allowed
      BY <1>5, Zenon DEF Keys!BatchRevoke
    <2>2. S \subseteq Keys!Known
      BY <1>5, MatchingKnown
    <2> HIDE DEF S
    <2>3. ASSUME NEW i \in Keys!Ids
          PROVE  /\ keys'[i] \in Keys!Key \cup {NoKey}
                 /\ keys'[i] # NoKey =>
                      /\ keys[i] # NoKey
                      /\ keys'[i].minute = keys[i].minute /\ keys'[i].hour = keys[i].hour
                      /\ keys'[i].resetMinute = keys[i].resetMinute
                      /\ keys'[i].resetHour = keys[i].resetHour
      <3>1. CASE i \in S
        <4>1. keys[i] \in Keys!Key /\ keys[i] # NoKey
          BY <2>2, <2>3, <3>1 DEF KeysInv, Keys!Known
        <4>2. keys'[i] = [keys[i] EXCEPT !.active = FALSE]
          BY <2>1, <3>1
        <4>3. QED
          BY <4>1, <4>2 DEF Keys!Key
      <3>2. CASE i \notin S
        BY <2>1, <2>3, <3>2 DEF KeysInv
      <3>3. QED
        BY <3>1, <3>2
    <2>4. keys' \in [Keys!Ids -> Keys!Key \cup {NoKey}]
      BY <2>1, <2>3
    <2>5. QED
      BY <2>1, <2>3, <2>4, KeysChange
  <1>6. CASE Keys!Tick
    <2>1. now' = now + 1 /\ keys' = keys /\ calls' = calls /\ accepted' = accepted /\ allowed' = allowed
      BY <1>6, Zenon DEF Keys!Tick
    <2>2. now' \in Nat /\ now <= now'
      BY <2>1 DEF KeysInv
    <2>3. QED
      BY <2>1, <2>2, KeysTime
  <1>7. QED
    BY <1>1, <1>2, <1>3, <1>4, <1>5, <1>6, MatchingKnown, AuthenticateKeeps, Zenon DEF Keys!Next

---------------------------------------------------------------------------
(* ApiKeys: the theorems.                                                  *)

KeysKept ==
  /\ KeysInv
  /\ part = "keys" => now <= MaxKeyTime

\* The clock the parts share does not go back, whichever of the others moves it.
LEMMA OthersClock ==
  ASSUME now \in Nat, Sess!Next \/ Rate!Next
  PROVE  now' \in Nat /\ now <= now'
  <1>1. now' = now \/ now' = now + 1
    <2>1. CASE Sess!Next
      BY <2>1, Zenon DEF Sess!Next, Sess!GetSession, Sess!Revoke, Sess!Touch, Sess!GetUserSessions,
            Sess!CreateSession, Sess!RevokeUserSessions, Sess!CleanupExpiredSessions, Sess!Tick
    <2>2. CASE Rate!Next
      BY <2>2, Zenon DEF Rate!Next, Rate!Admit, Rate!TurnAway, Rate!Headers, Rate!Reset, Rate!Tick
    <2>3. QED
      BY <2>1, <2>2
  <1>2. QED
    BY <1>1

\* In every reachable state the invariant of the keys holds.
THEOREM KeysInvariant == AuthSpec => []KeysKept
  <1>1. AuthInit => KeysKept
    <2>1. SUFFICES ASSUME AuthInit PROVE KeysKept
      OBVIOUS
    <2>2. Keys!Init
      BY <2>1 DEF AuthInit
    <2>3. now = 0
      BY <2>2 DEF Keys!Init
    <2>4. QED
      BY <2>2, <2>3, NewManager, KeyNumbers DEF KeysKept
  <1>2. ASSUME KeysKept,
               [AuthNext]_<<part, now, vars, SessVars, RateVars, KeysVars, AccessVars, WatchVars>>
        PROVE  KeysKept'
    <2>1. KeysInv /\ now \in Nat
      BY <1>2 DEF KeysKept, KeysInv
    <2>2. CASE part = "keys" /\ Keys!Next /\ UNCHANGED part
      <3>1. KeysInv'
        BY <2>1, <2>2, KeysStepKeeps
      <3>2. now' = now \/ (now < MaxKeyTime /\ now' = now + 1)
        BY <2>2, Zenon DEF Keys!Next, Keys!CreateApiKey, Keys!Authenticate, Keys!Revoke, Keys!Update,
              Keys!BatchRevoke, Keys!Tick
      <3>3. now <= MaxKeyTime
        BY <1>2, <2>2 DEF KeysKept
      <3>4. now' <= MaxKeyTime
        BY <2>1, <3>2, <3>3, KeyNumbers
      <3>5. QED
        BY <3>1, <3>4 DEF KeysKept
    <2>3. CASE UNCHANGED <<part, now, KeysVars>>
      <3>1. /\ keys' = keys /\ calls' = calls /\ accepted' = accepted /\ allowed' = allowed
            /\ now' = now /\ part' = part
        BY <2>3 DEF KeysVars
      <3>2. KeysInv'
        BY <2>1, <3>1, KeysTime
      <3>3. QED
        BY <1>2, <3>1, <3>2 DEF KeysKept
    <2>4. CASE UNCHANGED <<part, KeysVars>> /\ part # "keys" /\ (Sess!Next \/ Rate!Next)
      <3>1. /\ now' \in Nat /\ now <= now' /\ keys' = keys /\ calls' = calls
            /\ accepted' = accepted /\ allowed' = allowed
        BY <2>1, <2>4, OthersClock DEF KeysVars
      <3>2. KeysInv'
        BY <2>1, <3>1, KeysTime
      <3>3. QED
        BY <2>4, <3>2 DEF KeysKept
    <2>5. QED
      BY <1>2, <2>2, <2>3, <2>4, Zenon DEF AuthNext
  <1>3. QED
    BY <1>1, <1>2, PTL DEF AuthSpec

\* ApiKeys: a use of a key is accepted only if those accepted in the hour up to it are, with
\* it, no more than the limit that the key has then, however its uses, the refused ones, the
\* resets of its counters and the changes of its limits fall.
THEOREM KeysKeepTheirLimit == AuthSpec => []Keys!HourlyLimit
  <1>1. KeysKept => Keys!HourlyLimit
    <2>1. SUFFICES ASSUME KeysKept, NEW i \in Keys!Ids, NEW n \in DOMAIN accepted[i]
                   PROVE  Keys!Cardinality({m \in 1..n : accepted[i][m] + Hour > accepted[i][n]})
                            <= allowed[i][n]
      BY Zenon DEF Keys!HourlyLimit
    <2> DEFINE ac == accepted[i]
               lm == allowed[i]
               X == {m \in 1..n : ac[m] + Hour > ac[n]}
    <2>2. Ordered(ac) /\ Bounded(ac, lm, Hour) /\ lm \in Seq(Int)
      BY <2>1, Zenon DEF KeysKept, KeysInv, KeySound, Past
    <2> HIDE DEF ac, lm
    <2>3. /\ n \in 1..Len(ac) /\ Len(ac) \in Nat /\ Len(lm) = Len(ac) /\ lm[n] \in Int
          /\ \A m \in 1..Len(ac) : ac[m] \in Nat
          /\ \A m \in 1..Len(ac) : m <= n /\ ac[m] + Hour > ac[n] => n - m < lm[n]
      <3>1. Len(ac) \in Nat /\ DOMAIN ac = 1..Len(ac) /\ \A m \in 1..Len(ac) : ac[m] \in Nat
        BY <2>2 DEF Ordered
      <3>2. n \in 1..Len(ac)
        BY <2>1, <3>1 DEF ac
      <3>3. /\ Len(lm) = Len(ac)
            /\ \A m, j \in 1..Len(ac) : m <= j /\ ac[m] + Hour > ac[j] => j - m < lm[j]
        BY <2>2, Zenon DEF Bounded
      <3>4. lm[n] \in Int
        BY <2>2, <3>2, <3>3
      <3>5. QED
        BY <3>1, <3>2, <3>3, <3>4, Zenon
    <2>4. lm[n] \in Nat
      BY <2>3, KeyNumbers
    <2>5. X \subseteq Nat
      BY <2>3
    <2>6. \A x, y \in X : y < x + lm[n]
      BY <2>3
    <2> HIDE DEF X
    <2>7. Cardinality(X) <= lm[n]
      BY <2>4, <2>5, <2>6, NarrowCount
    <2>8. QED
      BY <2>7, SameSelection, Zenon DEF X, ac, lm
  <1>2. QED
    BY <1>1, KeysInvariant, PTL

\* A time difference of less than a day has no whole days to leave out.
LEMMA SmallRemainder ==
  ASSUME NEW x \in Nat, NEW y \in Nat, x < y
  PROVE  x % y = x
  OBVIOUS

\* ApiKeys: a client that stays away for an hour is let in again, if its limits let in
\* anybody and its day is not used up, unless its counters were last reset some days and
\* less than a minute, or an hour, ago.
THEOREM PausesHelp == AuthSpec => []Keys!PauseHelps
  <1>1. KeysKept => Keys!PauseHelps
    <2> DEFINE a(i) == Keys!AfterReset(keys[i])
    <2>1. SUFFICES ASSUME KeysKept, NEW i \in Keys!Known,
                          \A n \in DOMAIN calls[i] : calls[i][n] + Hour <= now,
                          now - keys[i].resetMinute >= Day => (now - keys[i].resetMinute) % Day >= Minute,
                          now - keys[i].resetHour >= Day => (now - keys[i].resetHour) % Day >= Hour,
                          keys[i].config["minute"] > 0, keys[i].config["hour"] > 0,
                          a(i).day < keys[i].config["day"]
                   PROVE  Keys!Accepts(i)
      BY Zenon DEF Keys!PauseHelps
    <2> DEFINE cs == calls[i]
               k == keys[i]
               r == Selected(cs, {n \in DOMAIN cs : cs[n] + Hour > now})
    <2>2. /\ i \in Keys!Ids /\ k # NoKey /\ k \in Keys!Key /\ KeySound(i) /\ now \in Nat
      BY <2>1 DEF KeysKept, KeysInv, Keys!Known
    <2>3. /\ Past(cs, now) /\ k.resetMinute <= now /\ k.resetHour <= now
          /\ k.minute # 0 \/ k.hour # 0 =>
               Len(cs) # 0 /\ k.resetMinute <= cs[Len(cs)] /\ k.resetHour <= cs[Len(cs)]
      BY <2>2, Zenon DEF KeySound
    <2>4. /\ Len(cs) \in Nat /\ Ordered(cs) /\ \A n \in 1..Len(cs) : cs[n] \in Nat /\ cs[n] + Hour <= now
      BY <2>1, <2>3 DEF Past, Ordered
    <2>5. /\ k.minute \in Nat /\ k.hour \in Nat /\ k.resetMinute \in Nat /\ k.resetHour \in Nat
          /\ k.config["minute"] \in Nat \ {0} /\ k.config["hour"] \in Nat \ {0}
      <3>1. k.config["minute"] \in Int /\ k.config["hour"] \in Int
        BY <2>2 DEF Keys!Key, Keys!Fields
      <3>2. QED
        BY <2>1, <2>2, <3>1 DEF Keys!Key
    <2>6. Len(r) < k.config["minute"]
      <3> HIDE DEF cs
      <3>1. PICK m \in 0..Len(cs) :
              Len(r) = Len(cs) - m /\ Continued(cs, m, Append(r, now), Hour, now)
        BY <2>2, <2>3, KeyNumbers, UseStep
      <3> HIDE DEF r
      <3>2. \A n \in 1..Len(cs) : n > m <=> cs[n] + Hour > now
        BY <3>1, Zenon DEF Continued
      <3>3. ~ (Len(cs) > m)
        BY <2>2, <2>4, <3>2, KeyNumbers
      <3>4. QED
        BY <2>4, <2>5, <3>1, <3>3
    <2>7. Keys!WithinRate(i)
      BY <2>6, SameSelection, Zenon DEF Keys!WithinRate, Keys!Recent
    <2> DEFINE dm == now - k.resetMinute
               dh == now - k.resetHour
    <2> HIDE DEF cs, k, r
    <2>8. /\ a(i).minute = IF (now - k.resetMinute) % Day >= Minute THEN 0 ELSE k.minute
          /\ a(i).hour = IF (now - k.resetHour) % Day >= Hour THEN 0 ELSE k.hour
          /\ a(i).config = k.config
      BY <2>2, <2>3, ResetKey DEF k
    <2>9. /\ dm \in Nat /\ dh \in Nat /\ dm = now - k.resetMinute /\ dh = now - k.resetHour
          /\ dm < Day => dm % Day = dm
          /\ dh < Day => dh % Day = dh
          /\ dm >= Day => dm % Day >= Minute
          /\ dh >= Day => dh % Day >= Hour
      <3>1. dm \in Nat /\ dh \in Nat /\ Day \in Nat
        BY <2>2, <2>3, <2>5, KeyNumbers
      <3>2. /\ dm >= Day => dm % Day >= Minute
            /\ dh >= Day => dh % Day >= Hour
        BY <2>1 DEF k
      <3> HIDE DEF dm, dh
      <3>3. /\ dm < Day => dm % Day = dm
            /\ dh < Day => dh % Day = dh
        BY <3>1, SmallRemainder
      <3>4. QED
        BY <3>1, <3>2, <3>3 DEF dm, dh
    <2>10. k.minute # 0 \/ k.hour # 0 => dm >= Hour /\ dh >= Hour
      <3>1. Len(cs) # 0 => Len(cs) \in 1..Len(cs)
        BY <2>4
      <3>2. Len(cs) # 0 => cs[Len(cs)] \in Nat /\ cs[Len(cs)] + Hour <= now
        BY <2>4, <3>1
      <3>3. QED
        BY <2>2, <2>3, <2>5, <3>2, KeyNumbers
    <2>11. a(i).minute = 0 /\ a(i).hour = 0
      <3>1. /\ a(i).minute = IF dm % Day >= Minute THEN 0 ELSE k.minute
            /\ a(i).hour = IF dh % Day >= Hour THEN 0 ELSE k.hour
        BY <2>8
      <3> HIDE DEF dm, dh
      <3>2. dm % Day >= Minute \/ k.minute = 0
        BY <2>5, <2>9, <2>10, KeyNumbers
      <3>3. dh % Day >= Hour \/ k.hour = 0
        BY <2>5, <2>9, <2>10, KeyNumbers
      <3>4. QED
        BY <3>1, <3>2, <3>3
    <2>12. Keys!WithinCounters(a(i))
      <3>1. a(i).day < a(i).config["day"]
        BY <2>1, <2>8 DEF k
      <3>2. a(i).minute < a(i).config["minute"] /\ a(i).hour < a(i).config["hour"]
        BY <2>5, <2>8, <2>11
      <3>3. QED
        BY <3>1, <3>2, Zenon DEF Keys!WithinCounters
    <2>13. QED
      BY <2>7, <2>12, Zenon DEF Keys!Accepts
  <1>2. QED
    BY <1>1, KeysInvariant, PTL

\* No stretch of a period sees more requests than the limit of its limiter, and no hour up
\* to a use of a key more of them than the limit that the key has then.
THEOREM LimitsAreKept == AuthSpec => []LimitsHold
  <1>1. Rate!LimitsHold /\ Keys!HourlyLimit => LimitsHold
    BY Zenon DEF LimitsHold
  <1>2. QED
    BY <1>1, LimitersKeepTheirLimits, KeysKeepTheirLimit, PTL

\* Whoever waits is let in: after as long as a limiter said, or, if its limits let in
\* anybody, with a key after an hour without a use.
THEOREM ClientsGetBackIn == AuthSpec => []WaitingHelps
  <1>1. Rate!RetryAfterIsEnough /\ Keys!PauseHelps => WaitingHelps
    BY Zenon DEF WaitingHelps
  <1>2. QED
    BY <1>1, RetryAfterHelps, PausesHelp, PTL

---------------------------------------------------------------------------
(* SecurityWatch: failures of one address.                                 *)

\* So many failures lay within one window, of those of an address.
Close(e, count) == \E n \in 1..Len(e) : n >= count /\ e[n] < e[n + 1 - count] + Window

\* The list of an address: what lay within the window when the last failure was entered,
\* of all its failures.
Watched(f, e, t) ==
  /\ Past(e, t)
  /\ \E m \in 0..Len(e) :
       /\ f = Rest(e, m)
       /\ \A i \in 1..Len(e) : i > m <=> e[i] + Window > e[Len(e)]

\* As many failures as are in the list lay within one window.
LEMMA ListedAreClose ==
  ASSUME NEW f, NEW e, NEW t \in Nat, Watched(f, e, t), NEW c \in Nat \ {0}, Len(f) >= c
  PROVE  Close(e, c)
  <1>1. Past(e, t) /\ Ordered(e) /\ Len(e) \in Nat /\ \A i \in 1..Len(e) : e[i] \in Nat
    BY DEF Watched, Past, Ordered
  <1>2. PICK m \in 0..Len(e) :
          /\ f = Rest(e, m)
          /\ \A i \in 1..Len(e) : i > m <=> e[i] + Window > e[Len(e)]
    BY DEF Watched
  <1>3. Len(f) = Len(e) - m
    BY <1>1, <1>2, RestOrdered
  <1> DEFINE i == Len(e) + 1 - c
  <1>4. i \in 1..Len(e) /\ i > m /\ Len(e) \in 1..Len(e) /\ Len(e) >= c
    BY <1>1, <1>3
  <1>5. e[i] + Window > e[Len(e)]
    BY <1>2, <1>4
  <1>6. Window \in Nat
    BY AuthAssumption DEF Watch!WatchAssumption
  <1>7. e[Len(e)] < e[i] + Window
    BY <1>1, <1>4, <1>5, <1>6
  <1>8. QED
    BY <1>4, <1>7 DEF Close

\* More are no closer than fewer are.
LEMMA FewerAreClose ==
  ASSUME NEW e, Ordered(e), NEW c \in Nat \ {0}, NEW d \in Nat \ {0}, c <= d, Close(e, d)
  PROVE  Close(e, c)
  <1>1. Len(e) \in Nat /\ \A i \in 1..Len(e) : e[i] \in Nat
    BY DEF Ordered
  <1>2. PICK n \in 1..Len(e) : n >= d /\ e[n] < e[n + 1 - d] + Window
    BY DEF Close
  <1>3. n + 1 - d \in 1..Len(e) /\ n + 1 - c \in 1..Len(e) /\ n + 1 - d <= n + 1 - c /\ n >= c
    BY <1>1, <1>2
  <1>4. e[n + 1 - d] <= e[n + 1 - c]
    BY <1>3 DEF Ordered
  <1>5. Window \in Nat
    BY AuthAssumption DEF Watch!WatchAssumption
  <1>6. e[n] < e[n + 1 - c] + Window
    <2>1. e[n] \in Nat /\ e[n + 1 - d] \in Nat /\ e[n + 1 - c] \in Nat
      BY <1>1, <1>3, Zenon
    <2>2. \A x, y, z, w \in Nat : x < y + w /\ y <= z => x < z + w
      OBVIOUS
    <2>3. QED
      BY <1>2, <1>4, <1>5, <2>1, <2>2, Zenon
  <1>7. QED
    BY <1>2, <1>3, <1>6 DEF Close

\* One more failure: the list keeps what the window holds, and as many as it then has are
\* close, which none were before; but one fewer were.
LEMMA FailureEntered ==
  ASSUME NEW f, NEW e, NEW t \in Nat, Watched(f, e, t)
  PROVE  LET all == Append(f, t)
             f2 == Selected(all, {n \in DOMAIN all : all[n] + Window > t})
             e2 == Append(e, t) IN
         /\ Watched(f2, e2, t) /\ Len(f2) \in Nat
         /\ \A c \in Nat \ {0} : Close(e2, c) <=> Close(e, c) \/ Len(f2) >= c
         /\ \A c \in Nat \ {0} : Len(f2) > c => Close(e, c)
  <1> DEFINE all == Append(f, t)
             f2 == Selected(all, {n \in DOMAIN all : all[n] + Window > t})
             e2 == Append(e, t)
             N == Len(e)
  <1>1. Ordered(e) /\ N \in Nat /\ \A i \in 1..N : e[i] \in Nat /\ e[i] <= t
    BY DEF Watched, Past, Ordered
  <1>2. PICK m \in 0..N :
          /\ f = Rest(e, m)
          /\ \A i \in 1..N : i > m <=> e[i] + Window > e[N]
    BY DEF Watched
  <1>3. /\ Ordered(f) /\ Len(f) = N - m
        /\ \A i \in 1..(N - m) : f[i] = e[m + i]
    BY <1>1, <1>2, RestOrdered
  <1>4. /\ Ordered(e2) /\ Len(e2) = N + 1
        /\ \A i \in 1..N : e2[i] = e[i]
        /\ e2[N + 1] = t
    BY <1>1, AppendOrdered
  <1>5. \A i \in 1..Len(f) : f[i] <= t
    <2>1. \A i \in 1..Len(f) : m + i \in 1..N /\ f[i] = e[m + i]
      BY <1>1, <1>3
    <2>2. QED
      BY <1>1, <2>1
  <1>6. /\ Ordered(all) /\ Len(all) = Len(f) + 1
        /\ \A i \in 1..Len(f) : all[i] = f[i]
        /\ all[Len(f) + 1] = t
    BY <1>3, <1>5, AppendOrdered
  <1> HIDE DEF all, e2, N
  <1>7. Window \in Nat \ {0}
    BY AuthAssumption DEF Watch!WatchAssumption
  <1>8. PICK k \in 0..Len(all) :
          /\ f2 = Rest(all, k)
          /\ \A i \in 1..Len(all) : i > k <=> all[i] + Window > t
    BY <1>6, <1>7, LateOnes
  <1> HIDE DEF f2
  <1>9. Len(all) = N + 1 - m /\ k <= N - m
    <2>1. Len(all) = N + 1 - m /\ Len(all) \in 1..Len(all)
      BY <1>1, <1>3, <1>6
    <2>2. all[Len(all)] = t
      BY <1>6
    <2>3. Len(all) > k
      BY <1>7, <1>8, <2>1, <2>2
    <2>4. QED
      BY <1>1, <2>1, <2>3
  <1>10. all = Rest(e2, m) /\ m \in 0..Len(e2) /\ \A i \in 1..(N + 1 - m) : all[i] = e2[m + i]
    <2>1. m \in 0..Len(e2) /\ Len(e2) - m = N + 1 - m
      BY <1>1, <1>4
    <2>2. all \in Seq(Nat) /\ Len(all) = N + 1 - m
      BY <1>6, <1>9 DEF Ordered
    <2>3. ASSUME NEW i \in 1..(N + 1 - m) PROVE all[i] = e2[m + i]
      <3>1. CASE i \in 1..(N - m)
        <4>1. m + i \in 1..N
          BY <1>1, <3>1
        <4>2. QED
          BY <1>3, <1>4, <1>6, <3>1, <4>1
      <3>2. CASE i = N + 1 - m
        <4>1. m + i = N + 1 /\ i = Len(f) + 1
          BY <1>1, <1>3, <3>2
        <4>2. QED
          BY <1>4, <1>6, <4>1
      <3>3. QED
        BY <1>1, <3>1, <3>2
    <2>4. all = [i \in 1..(N + 1 - m) |-> e2[m + i]]
      BY <1>1, <2>2, <2>3
    <2>5. QED
      BY <2>1, <2>3, <2>4 DEF Rest
  <1>11. m + k \in 0..Len(e2) /\ f2 = Rest(e2, m + k)
    <2>1. m \in 0..Len(e2) /\ k \in 0..(Len(e2) - m)
      BY <1>1, <1>4, <1>9
    <2>2. m + k \in 0..Len(e2) /\ Rest(Rest(e2, m), k) = Rest(e2, m + k)
      BY <1>4, <2>1, RestOfRest
    <2>3. QED
      BY <1>8, <1>10, <2>2
  <1>12. Len(f2) = N + 1 - (m + k)
    <2>1. Len(f2) = Len(all) - k
      BY <1>6, <1>8, RestOrdered
    <2>2. QED
      BY <1>1, <1>9, <2>1
  <1>13. ASSUME NEW i \in 1..Len(e2)
         PROVE  i > m + k <=> e2[i] + Window > t
    <2>1. CASE i > m
      <3> DEFINE j == i - m
      <3>1. j \in 1..Len(all) /\ i = m + j
        BY <1>1, <1>4, <1>9, <2>1
      <3> HIDE DEF j
      <3>2. all[j] = e2[i]
        BY <1>1, <1>9, <1>10, <3>1
      <3>3. j > k <=> all[j] + Window > t
        BY <1>8, <3>1
      <3>4. QED
        BY <1>1, <3>1, <3>2, <3>3
    <2>2. CASE ~ (i > m)
      <3>1. i \in 1..N /\ N \in 1..N
        BY <1>1, <1>4, <2>2
      <3>2. ~ (e[i] + Window > e[N]) /\ e2[i] = e[i] /\ e[N] <= t /\ e[N] \in Nat /\ e[i] \in Nat
        BY <1>1, <1>2, <1>4, <2>2, <3>1
      <3>3. ~ (e2[i] + Window > t)
        BY <1>7, <3>2
      <3>4. QED
        BY <1>1, <2>2, <3>3
    <2>3. QED
      BY <2>1, <2>2
  <1>14. Watched(f2, e2, t)
    <2>1. e2[Len(e2)] = t
      BY <1>4
    <2>2. \A i \in 1..Len(e2) : e2[i] <= t
      BY <1>1, <1>4
    <2>3. QED
      BY <1>4, <1>11, <1>13, <2>1, <2>2 DEF Watched, Past
  <1>15. Len(f2) \in Nat
    BY <1>1, <1>9, <1>12
  <1>16. ASSUME NEW c \in Nat \ {0} PROVE Close(e2, c) <=> Close(e, c) \/ Len(f2) >= c
    <2>1. ASSUME Close(e, c) PROVE Close(e2, c)
      <3>1. PICK n \in 1..N : n >= c /\ e[n] < e[n + 1 - c] + Window
        BY <2>1 DEF Close, N
      <3>2. n \in 1..Len(e2) /\ n + 1 - c \in 1..N /\ e2[n] = e[n] /\ e2[n + 1 - c] = e[n + 1 - c]
        BY <1>1, <1>4, <3>1
      <3>3. QED
        BY <3>1, <3>2 DEF Close
    <2>2. ASSUME Len(f2) >= c PROVE Close(e2, c)
      BY <1>14, <2>2, ListedAreClose
    <2>3. ASSUME Close(e2, c), Len(f2) < c PROVE Close(e, c)
      <3>1. PICK n \in 1..Len(e2) : n >= c /\ e2[n] < e2[n + 1 - c] + Window
        BY <2>3 DEF Close
      <3>2. CASE n = N + 1
        <4>1. n + 1 - c \in 1..Len(e2) /\ ~ (n + 1 - c > m + k)
          BY <1>1, <1>4, <1>9, <1>12, <2>3, <3>1, <3>2
        <4>2. ~ (e2[n + 1 - c] + Window > t)
          BY <1>13, <4>1
        <4>3. QED
          BY <1>4, <1>7, <3>1, <3>2, <4>1, <4>2 DEF Ordered
      <3>3. CASE n \in 1..N
        <4>1. n + 1 - c \in 1..N
          BY <1>1, <3>1, <3>3
        <4>2. e[n] < e[n + 1 - c] + Window
          BY <1>4, <3>1, <3>3, <4>1
        <4>3. QED
          BY <3>1, <3>3, <4>2 DEF Close, N
      <3>4. QED
        BY <1>1, <1>4, <3>2, <3>3
    <2>4. QED
      BY <1>15, <2>1, <2>2, <2>3
  <1>17. ASSUME NEW c \in Nat \ {0}, Len(f2) > c PROVE Close(e, c)
    <2> DEFINE i == N + 1 - c
    <2>1. i \in 1..N /\ i > m + k /\ N \in 1..N /\ N >= c /\ i \in 1..Len(e2)
      BY <1>1, <1>4, <1>9, <1>12, <1>17
    <2>2. e2[i] + Window > t /\ e2[i] = e[i] /\ e[N] <= t /\ e[N] \in Nat /\ e[i] \in Nat
      BY <1>1, <1>4, <1>13, <2>1
    <2>3. e[N] < e[i] + Window
      BY <1>7, <2>2
    <2>4. QED
      BY <2>1, <2>3 DEF Close, N
  <1>18. QED
    BY <1>14, <1>15, <1>16, <1>17 DEF all, f2, e2

---------------------------------------------------------------------------
(* SecurityWatch: the alerts.                                              *)

Alert == Addresses \X {"medium", "high", "critical"}

\* The latest of those raised, as many as are kept.
LatestOf(al, ra) ==
  /\ al \in Seq(Alert) /\ ra \in Seq(Alert)
  /\ Len(al) = IF Len(ra) > KeptAlerts THEN KeptAlerts ELSE Len(ra)
  /\ \A n \in 1..Len(al) : al[n] = ra[Len(ra) - Len(al) + n]

LEMMA OneMoreAlert ==
  ASSUME NEW al, NEW ra, LatestOf(al, ra), NEW x \in Alert
  PROVE  LatestOf(Watch!Latest(Append(al, x)), Append(ra, x))
  <1> DEFINE bl == Append(al, x)
             cl == Watch!Latest(bl)
             rb == Append(ra, x)
  <1>1. /\ al \in Seq(Alert) /\ ra \in Seq(Alert) /\ Len(al) \in Nat /\ Len(ra) \in Nat
        /\ Len(al) = IF Len(ra) > KeptAlerts THEN KeptAlerts ELSE Len(ra)
        /\ \A n \in 1..Len(al) : al[n] = ra[Len(ra) - Len(al) + n]
    BY DEF LatestOf
  <1>2. KeptAlerts \in Nat \ {0}
    BY AuthAssumption DEF Watch!WatchAssumption
  <1>3. /\ bl \in Seq(Alert) /\ Len(bl) = Len(al) + 1
        /\ \A n \in 1..Len(al) : bl[n] = al[n]
        /\ bl[Len(al) + 1] = x
    BY <1>1
  <1>4. /\ rb \in Seq(Alert) /\ Len(rb) = Len(ra) + 1
        /\ \A n \in 1..Len(ra) : rb[n] = ra[n]
        /\ rb[Len(ra) + 1] = x
    BY <1>1
  <1>5. cl = IF Len(bl) > KeptAlerts THEN SubSeq(bl, Len(bl) - KeptAlerts + 1, Len(bl)) ELSE bl
    BY Zenon DEF Watch!Latest
  <1> HIDE DEF bl, cl, rb
  <1>6. \A n \in 1..Len(bl) : bl[n] = rb[Len(rb) - Len(bl) + n]
    <2>1. ASSUME NEW n \in 1..Len(al) PROVE bl[n] = rb[Len(rb) - Len(bl) + n]
      <3>1. Len(rb) - Len(bl) + n = Len(ra) - Len(al) + n /\ Len(ra) - Len(al) + n \in 1..Len(ra)
        BY <1>1, <1>2, <1>3, <1>4
      <3>2. QED
        BY <1>1, <1>3, <1>4, <3>1
    <2>2. Len(rb) - Len(bl) + (Len(al) + 1) = Len(ra) + 1
      BY <1>1, <1>3, <1>4
    <2>3. \A n \in 1..Len(bl) : n \in 1..Len(al) \/ n = Len(al) + 1
      BY <1>1, <1>3
    <2>4. QED
      BY <1>3, <1>4, <2>1, <2>2, <2>3
  <1>7. CASE Len(bl) > KeptAlerts
    <2>1. Len(al) = KeptAlerts /\ Len(bl) = KeptAlerts + 1
      BY <1>1, <1>2, <1>3, <1>7
    <2>2. cl = SubSeq(bl, 2, KeptAlerts + 1)
      BY <1>2, <1>5, <1>7, <2>1
    <2>3. cl \in Seq(Alert) /\ Len(cl) = KeptAlerts /\ \A n \in 1..KeptAlerts : cl[n] = bl[n + 1]
      BY <1>2, <1>3, <2>1, <2>2
    <2>4. \A n \in 1..KeptAlerts : cl[n] = rb[Len(rb) - Len(cl) + n]
      <3>1. SUFFICES ASSUME NEW n \in 1..KeptAlerts PROVE cl[n] = rb[Len(rb) - Len(cl) + n]
        OBVIOUS
      <3>2. n + 1 \in 1..Len(bl) /\ Len(rb) - Len(bl) + (n + 1) = Len(rb) - Len(cl) + n
        BY <1>1, <1>2, <1>4, <2>1, <2>3
      <3>3. QED
        BY <1>6, <2>3, <3>2
    <2>5. Len(rb) > KeptAlerts
      BY <1>1, <1>2, <1>4, <2>1
    <2>6. Len(cl) = IF Len(rb) > KeptAlerts THEN KeptAlerts ELSE Len(rb)
      BY <2>3, <2>5
    <2>7. \A n \in 1..Len(cl) : cl[n] = rb[Len(rb) - Len(cl) + n]
      BY <2>3, <2>4
    <2>8. LatestOf(cl, rb)
      BY <1>4, <2>3, <2>6, <2>7, Zenon DEF LatestOf
    <2>9. QED
      BY <2>8, Zenon DEF cl, bl, rb
  <1>8. CASE ~ (Len(bl) > KeptAlerts)
    <2>1. cl = bl
      BY <1>5, <1>8
    <2>2. ~ (Len(ra) > KeptAlerts) /\ Len(al) = Len(ra)
      BY <1>1, <1>2, <1>3, <1>8
    <2>3. Len(rb) = Len(bl) /\ ~ (Len(rb) > KeptAlerts)
      BY <1>1, <1>2, <1>3, <1>4, <1>8, <2>2
    <2>4. Len(cl) = IF Len(rb) > KeptAlerts THEN KeptAlerts ELSE Len(rb)
      BY <2>1, <2>3
    <2>5. LatestOf(cl, rb)
      BY <1>3, <1>4, <1>6, <2>1, <2>4, Zenon DEF LatestOf
    <2>6. QED
      BY <2>5, Zenon DEF cl, bl, rb
  <1>9. QED
    BY <1>7, <1>8

\* In the words of SecurityWatch.
LEMMA AlertsAreSuffix ==
  ASSUME NEW al, NEW ra, LatestOf(al, ra)
  PROVE  Watch!IsSuffix(al, ra)
  <1> DEFINE r == Watch!Reverse(al)
             q == Watch!Reverse(ra)
             N == Len(al)
             M == Len(ra)
  <1>1. /\ al \in Seq(Alert) /\ ra \in Seq(Alert) /\ N \in Nat /\ M \in Nat
        /\ N = IF M > KeptAlerts THEN KeptAlerts ELSE M
        /\ \A n \in 1..N : al[n] = ra[M - N + n]
    BY DEF LatestOf
  <1>2. N <= M
    BY <1>1
  <1>3. r = [i \in 1..N |-> al[(N - i) + 1]] /\ q = [i \in 1..M |-> ra[(M - i) + 1]]
    BY Zenon DEF Watch!Reverse
  <1> HIDE DEF r, q, N, M
  <1>4. \A i \in 1..N : (N - i) + 1 \in 1..N /\ M - N + ((N - i) + 1) = (M - i) + 1 /\ i \in 1..M
    BY <1>1, <1>2
  <1>5. \A i \in 1..N : r[i] = q[i]
    <2>1. SUFFICES ASSUME NEW i \in 1..N PROVE r[i] = q[i]
      OBVIOUS
    <2>2. r[i] = al[(N - i) + 1] /\ q[i] = ra[(M - i) + 1]
      BY <1>3, <1>4
    <2>3. al[(N - i) + 1] = ra[M - N + ((N - i) + 1)]
      BY <1>1, <1>4
    <2>4. ra[M - N + ((N - i) + 1)] = ra[(M - i) + 1]
      BY <1>4
    <2>5. QED
      BY <2>2, <2>3, <2>4, Zenon
  <1>6. r \in Seq(Alert) /\ Len(r) = N
    <2>1. \A i \in 1..N : al[(N - i) + 1] \in Alert
      <3>1. \A j \in 1..Len(al) : al[j] \in Alert
        BY <1>1 DEF N
      <3>2. QED
        BY <1>4, <3>1, Zenon DEF N
    <2>2. r \in [1..N -> Alert]
      BY <1>3, <2>1
    <2>3. QED
      BY <1>1, <2>2
  <1>7. q \in Seq(Alert) /\ Len(q) = M
    <2>1. \A i \in 1..M : (M - i) + 1 \in 1..M
      BY <1>1
    <2>2. \A i \in 1..M : ra[(M - i) + 1] \in Alert
      BY <1>1, <2>1 DEF M
    <2>3. q \in [1..M -> Alert]
      BY <1>3, <2>2
    <2>4. QED
      BY <1>1, <2>3
  <1>8. SubSeq(r, 1, Len(r)) = SubSeq(q, 1, Len(r))
    BY <1>1, <1>2, <1>5, <1>6, <1>7
  <1>9. Watch!IsPrefix(r, q)
    BY <1>2, <1>6, <1>7, <1>8 DEF Watch!IsPrefix
  <1>10. QED
    BY <1>9, Zenon DEF Watch!IsSuffix, r, q

---------------------------------------------------------------------------
(* SecurityWatch: the invariant.                                           *)

\* Of an address: its list, and whether it is held for suspicious or blocked.
AddressSound(a) ==
  /\ Watched(failures[a], entered[a], moment)
  /\ a \in suspicious <=> Close(entered[a], SuspectFrom)
  /\ a \in blocked <=> Close(entered[a], BlockFrom)

WatchInv ==
  /\ moment \in 0..MaxMoment
  /\ failures \in [Addresses -> Seq(Nat)] /\ entered \in [Addresses -> Seq(Nat)]
  /\ suspicious \subseteq Addresses /\ blocked \subseteq Addresses
  /\ \A a \in Addresses : AddressSound(a)
  /\ LatestOf(alerts, raised)

LEMMA WatchNumbers ==
  /\ AlertFrom \in Nat \ {0} /\ SuspectFrom \in Nat \ {0} /\ BlockFrom \in Nat \ {0}
  /\ Window \in Nat \ {0} /\ KeptAlerts \in Nat \ {0} /\ StatusWindow \in Nat /\ MaxMoment \in Nat
  /\ AlertFrom <= SuspectFrom /\ SuspectFrom < BlockFrom
  BY AuthAssumption DEF Watch!WatchAssumption

\* An address without failures.
LEMMA NothingEntered ==
  ASSUME NEW t \in Nat
  PROVE  Watched(<<>>, <<>>, t) /\ \A c \in Nat \ {0} : ~Close(<<>>, c)
  <1> DEFINE e == <<>>
  <1>1. e \in Seq(Nat) /\ Len(e) = 0
    OBVIOUS
  <1>2. Past(e, t)
    BY <1>1 DEF Past, Ordered
  <1>3. Rest(e, 0) = e
    BY <1>1 DEF Rest
  <1>4. Watched(e, e, t)
    BY <1>1, <1>2, <1>3 DEF Watched
  <1>5. \A c \in Nat \ {0} : ~Close(e, c)
    BY <1>1 DEF Close
  <1>6. QED
    BY <1>4, <1>5

LEMMA NobodyWatched ==
  ASSUME moment' \in 0..MaxMoment, failures' = [a \in Addresses |-> <<>>], entered' = failures',
         suspicious' = {}, blocked' = {}, alerts' = <<>>, raised' = <<>>
  PROVE  WatchInv'
  <1>1. moment' \in Nat
    BY WatchNumbers
  <1>2. ASSUME NEW a \in Addresses PROVE AddressSound(a)'
    <2>1. failures'[a] = <<>> /\ entered'[a] = <<>>
      OBVIOUS
    <2>2. Watched(failures'[a], entered'[a], moment')
      BY <1>1, <2>1, NothingEntered
    <2>3. ~Close(entered'[a], SuspectFrom) /\ ~Close(entered'[a], BlockFrom)
      BY <1>1, <2>1, NothingEntered, WatchNumbers
    <2>4. QED
      BY <2>2, <2>3 DEF AddressSound
  <1>3. failures' \in [Addresses -> Seq(Nat)] /\ entered' \in [Addresses -> Seq(Nat)]
    OBVIOUS
  <1>4. LatestOf(alerts', raised')
    BY WatchNumbers DEF LatestOf
  <1>5. QED
    BY <1>2, <1>3, <1>4 DEF WatchInv

LEMMA NothingWatched ==
  ASSUME Watch!Init
  PROVE  WatchInv
  <1>1. /\ moment = 0 /\ failures = [a \in Addresses |-> <<>>] /\ entered = failures
        /\ suspicious = {} /\ blocked = {} /\ alerts = <<>> /\ raised = <<>>
    BY DEF Watch!Init
  <1>2. moment \in 0..MaxMoment /\ moment \in Nat
    BY <1>1, WatchNumbers
  <1>3. ASSUME NEW a \in Addresses PROVE AddressSound(a)
    <2>1. failures[a] = <<>> /\ entered[a] = <<>>
      BY <1>1
    <2>2. Watched(failures[a], entered[a], moment)
      BY <1>2, <2>1, NothingEntered
    <2>3. ~Close(entered[a], SuspectFrom) /\ ~Close(entered[a], BlockFrom)
      BY <1>2, <2>1, NothingEntered, WatchNumbers
    <2>4. QED
      BY <1>1, <2>2, <2>3 DEF AddressSound
  <1>4. failures \in [Addresses -> Seq(Nat)] /\ entered \in [Addresses -> Seq(Nat)]
    BY <1>1
  <1>5. LatestOf(alerts, raised)
    BY <1>1, WatchNumbers DEF LatestOf
  <1>6. QED
    BY <1>1, <1>2, <1>3, <1>4, <1>5 DEF WatchInv

\* One address changes, the others are as they were.
LEMMA OneAddress ==
  ASSUME WatchInv, NEW a \in Addresses, NEW f \in Seq(Nat), NEW e \in Seq(Nat),
         failures' = [failures EXCEPT ![a] = f], entered' = [entered EXCEPT ![a] = e],
         moment' = moment, Watched(f, e, moment),
         suspicious' \subseteq Addresses, blocked' \subseteq Addresses,
         \A b \in Addresses \ {a} : /\ b \in suspicious' <=> b \in suspicious
                                    /\ b \in blocked' <=> b \in blocked,
         a \in suspicious' <=> Close(e, SuspectFrom),
         a \in blocked' <=> Close(e, BlockFrom),
         LatestOf(alerts', raised')
  PROVE  WatchInv'
  <1>1. /\ moment \in 0..MaxMoment
        /\ failures \in [Addresses -> Seq(Nat)] /\ entered \in [Addresses -> Seq(Nat)]
        /\ \A b \in Addresses : AddressSound(b)
    BY DEF WatchInv
  <1>2. /\ failures' \in [Addresses -> Seq(Nat)] /\ entered' \in [Addresses -> Seq(Nat)]
        /\ failures'[a] = f /\ entered'[a] = e
        /\ \A b \in Addresses \ {a} : failures'[b] = failures[b] /\ entered'[b] = entered[b]
    BY <1>1
  <1>3. ASSUME NEW b \in Addresses PROVE AddressSound(b)'
    <2>1. CASE b = a
      <3>1. Watched(failures'[b], entered'[b], moment')
        BY <1>2, <2>1
      <3>2. b \in suspicious' <=> Close(entered'[b], SuspectFrom)
        BY <1>2, <2>1
      <3>3. b \in blocked' <=> Close(entered'[b], BlockFrom)
        BY <1>2, <2>1
      <3>4. QED
        BY <3>1, <3>2, <3>3 DEF AddressSound
    <2>2. CASE b # a
      <3>1. Watched(failures'[b], entered'[b], moment')
        BY <1>1, <1>2, <2>2 DEF AddressSound
      <3>2. b \in suspicious' <=> Close(entered'[b], SuspectFrom)
        BY <1>1, <1>2, <2>2 DEF AddressSound
      <3>3. b \in blocked' <=> Close(entered'[b], BlockFrom)
        BY <1>1, <1>2, <2>2 DEF AddressSound
      <3>4. QED
        BY <3>1, <3>2, <3>3 DEF AddressSound
    <2>3. QED
      BY <2>1, <2>2
  <1>4. QED
    BY <1>1, <1>2, <1>3 DEF WatchInv

LEMMA FailKeeps ==
  ASSUME WatchInv, NEW a \in Addresses, Watch!Fail(a)
  PROVE  WatchInv'
  <1> DEFINE f == failures[a]
             e == entered[a]
             all == Append(f, moment)
             f2 == Selected(all, {n \in DOMAIN all : all[n] + Window > moment})
             e2 == Append(e, moment)
             count == Len(f2)
             severity == Watch!Severity(count)
  <1>1. /\ moment \in Nat /\ Watched(f, e, moment)
        /\ failures \in [Addresses -> Seq(Nat)] /\ entered \in [Addresses -> Seq(Nat)]
        /\ a \in suspicious <=> Close(e, SuspectFrom)
        /\ a \in blocked <=> Close(e, BlockFrom)
        /\ suspicious \subseteq Addresses /\ blocked \subseteq Addresses
        /\ LatestOf(alerts, raised)
    BY WatchNumbers DEF WatchInv, AddressSound
  <1>2. /\ Watched(f2, e2, moment) /\ count \in Nat
        /\ \A c \in Nat \ {0} : Close(e2, c) <=> Close(e, c) \/ count >= c
        /\ \A c \in Nat \ {0} : count > c => Close(e, c)
    BY <1>1, FailureEntered
  <1>3. Watch!TrimmedWith(a) = f2
    <2>1. \A X : Watch!Cardinality(X) = Cardinality(X)
      BY Zenon DEF Watch!Cardinality, Cardinality
    <2>2. \A K, n : Watch!Place(K, n) = Place(K, n)
      BY Zenon DEF Watch!Place, Place, Watch!Cardinality, Cardinality
    <2>3. \A s, K : Watch!Selected(s, K) = Selected(s, K)
      BY <2>1, <2>2, Zenon DEF Watch!Selected, Selected
    <2>4. Watch!TrimmedWith(a) = Watch!Selected(all, {n \in DOMAIN all : all[n] + Window > moment})
      BY Zenon DEF Watch!TrimmedWith
    <2>5. QED
      BY <2>3, <2>4, Zenon
  <1>4. e2 \in Seq(Nat) /\ f2 \in Seq(Nat)
    <2>1. e2 \in Seq(Nat)
      BY <1>1
    <2>2. Ordered(e2)
      BY <1>2 DEF Watched, Past
    <2> HIDE DEF f2, e2
    <2>3. PICK m \in 0..Len(e2) : f2 = Rest(e2, m)
      BY <1>2 DEF Watched
    <2>4. QED
      BY <2>1, <2>2, <2>3, RestOrdered DEF Ordered
  <1>5. /\ failures' = [failures EXCEPT ![a] = f2] /\ entered' = [entered EXCEPT ![a] = e2]
        /\ moment' = moment
    BY <1>3 DEF Watch!Fail
  <1>6. failures'[a] = f2
    BY <1>1, <1>5
  <1> HIDE DEF f2
  <1>7. /\ suspicious' = IF severity = "high" THEN suspicious \cup {a} ELSE suspicious
        /\ blocked' = IF severity = "critical" THEN blocked \cup {a} ELSE blocked
        /\ alerts' = IF severity = "none" THEN alerts ELSE Watch!Latest(Append(alerts, <<a, severity>>))
        /\ raised' = IF severity = "none" THEN raised ELSE Append(raised, <<a, severity>>)
    BY <1>6 DEF Watch!Fail
  <1> HIDE DEF count, severity, e2, e, f
  <1>8. /\ severity = "critical" <=> count >= BlockFrom
        /\ severity = "high" <=> count >= SuspectFrom /\ count < BlockFrom
        /\ severity \in {"none", "medium", "high", "critical"}
    BY <1>2, WatchNumbers DEF Watch!Severity, severity
  <1>9. a \in suspicious' <=> Close(e2, SuspectFrom)
    <2>1. Close(e2, SuspectFrom) <=> a \in suspicious \/ count >= SuspectFrom
      BY <1>1, <1>2, WatchNumbers
    <2>2. a \in suspicious' <=> a \in suspicious \/ severity = "high"
      BY <1>7
    <2>3. count >= BlockFrom => count > SuspectFrom
      BY <1>2, WatchNumbers
    <2>4. count > SuspectFrom => a \in suspicious
      BY <1>1, <1>2, WatchNumbers
    <2>5. count >= SuspectFrom => count < BlockFrom \/ count >= BlockFrom
      BY <1>2, WatchNumbers
    <2>6. count >= BlockFrom => count >= SuspectFrom
      BY <1>2, WatchNumbers
    <2>7. QED
      BY <1>8, <2>1, <2>2, <2>3, <2>4, <2>5, <2>6
  <1>10. a \in blocked' <=> Close(e2, BlockFrom)
    <2>1. Close(e2, BlockFrom) <=> a \in blocked \/ count >= BlockFrom
      BY <1>1, <1>2, WatchNumbers
    <2>2. a \in blocked' <=> a \in blocked \/ severity = "critical"
      BY <1>7
    <2>3. QED
      BY <1>8, <2>1, <2>2
  <1>11. /\ suspicious' \subseteq Addresses /\ blocked' \subseteq Addresses
         /\ \A b \in Addresses \ {a} : /\ b \in suspicious' <=> b \in suspicious
                                       /\ b \in blocked' <=> b \in blocked
    BY <1>1, <1>7
  <1>12. LatestOf(alerts', raised')
    <2>1. CASE severity = "none"
      BY <1>1, <1>7, <2>1
    <2>2. CASE severity # "none"
      <3>1. <<a, severity>> \in Alert
        BY <1>8, <2>2 DEF Alert
      <3>2. LatestOf(Watch!Latest(Append(alerts, <<a, severity>>)), Append(raised, <<a, severity>>))
        BY <1>1, <3>1, OneMoreAlert
      <3>3. QED
        BY <1>7, <2>2, <3>2
    <2>3. QED
      BY <2>1, <2>2
  <1>13. QED
    BY <1>2, <1>4, <1>5, <1>9, <1>10, <1>11, <1>12, OneAddress

LEMMA UnblockKeeps ==
  ASSUME WatchInv, NEW a \in Addresses, Watch!Unblock(a)
  PROVE  WatchInv'
  <1>1. /\ blocked' = blocked \ {a} /\ suspicious' = suspicious \ {a}
        /\ failures' = [failures EXCEPT ![a] = <<>>] /\ entered' = [entered EXCEPT ![a] = <<>>]
        /\ moment' = moment /\ alerts' = alerts /\ raised' = raised
    BY DEF Watch!Unblock
  <1>2. /\ moment \in Nat /\ suspicious \subseteq Addresses /\ blocked \subseteq Addresses
        /\ LatestOf(alerts, raised)
    BY WatchNumbers DEF WatchInv
  <1>3. Watched(<<>>, <<>>, moment) /\ ~Close(<<>>, SuspectFrom) /\ ~Close(<<>>, BlockFrom)
    BY <1>2, NothingEntered, WatchNumbers
  <1>4. /\ <<>> \in Seq(Nat) /\ suspicious' \subseteq Addresses /\ blocked' \subseteq Addresses
        /\ a \notin suspicious' /\ a \notin blocked' /\ LatestOf(alerts', raised')
        /\ \A b \in Addresses \ {a} : /\ b \in suspicious' <=> b \in suspicious
                                      /\ b \in blocked' <=> b \in blocked
    BY <1>1, <1>2
  <1>5. QED
    BY <1>1, <1>3, <1>4, OneAddress

LEMMA PassKeeps ==
  ASSUME WatchInv, failures' = failures, entered' = entered, suspicious' = suspicious,
         blocked' = blocked, alerts' = alerts, raised' = raised, moment' \in 0..MaxMoment,
         moment <= moment'
  PROVE  WatchInv'
  <1>1. moment \in Nat /\ moment' \in Nat
    BY WatchNumbers DEF WatchInv
  <1>2. ASSUME NEW a \in Addresses PROVE AddressSound(a)'
    <2>1. AddressSound(a)
      BY DEF WatchInv
    <2>2. Past(entered[a], moment)
      BY <2>1, Zenon DEF AddressSound, Watched
    <2>3. Past(entered[a], moment')
      BY <1>1, <2>2 DEF Past, Ordered
    <2>4. Watched(failures[a], entered[a], moment')
      BY <2>1, <2>3, Zenon DEF AddressSound, Watched
    <2>5. /\ a \in suspicious <=> Close(entered[a], SuspectFrom)
          /\ a \in blocked <=> Close(entered[a], BlockFrom)
      BY <2>1, Zenon DEF AddressSound
    <2>6. QED
      BY <2>4, <2>5 DEF AddressSound
  <1>3. QED
    BY <1>2 DEF WatchInv

\* In every reachable state the invariant of the watch holds.
THEOREM WatchInvariant == AuthSpec => []WatchInv
  <1>1. AuthInit => WatchInv
    BY NothingWatched DEF AuthInit
  <1>2. ASSUME WatchInv,
               [AuthNext]_<<part, now, vars, SessVars, RateVars, KeysVars, AccessVars, WatchVars>>
        PROVE  WatchInv'
    <2>1. CASE UNCHANGED WatchVars
      <3>1. /\ moment' = moment /\ failures' = failures /\ suspicious' = suspicious /\ blocked' = blocked
            /\ alerts' = alerts /\ entered' = entered /\ raised' = raised
        BY <2>1 DEF WatchVars
      <3>2. moment' \in 0..MaxMoment /\ moment <= moment'
        BY <1>2, <3>1, WatchNumbers DEF WatchInv
      <3>3. QED
        BY <1>2, <3>1, <3>2, PassKeeps
    <2>2. CASE Watch!Next
      <3>1. ASSUME Watch!Reset PROVE WatchInv'
        <4>1. /\ moment' = moment /\ failures' = [a \in Addresses |-> <<>>] /\ entered' = failures'
              /\ suspicious' = {} /\ blocked' = {} /\ alerts' = <<>> /\ raised' = <<>>
          BY <3>1 DEF Watch!Reset
        <4>2. moment' \in 0..MaxMoment
          BY <1>2, <4>1 DEF WatchInv
        <4>3. QED
          BY <4>1, <4>2, NobodyWatched
      <3>2. ASSUME Watch!Pass PROVE WatchInv'
        <4>1. /\ moment < MaxMoment /\ moment' = moment + 1 /\ failures' = failures
              /\ suspicious' = suspicious /\ blocked' = blocked
              /\ alerts' = alerts /\ entered' = entered /\ raised' = raised
          BY <3>2 DEF Watch!Pass
        <4>2. moment' \in 0..MaxMoment /\ moment <= moment'
          BY <1>2, <4>1, WatchNumbers DEF WatchInv
        <4>3. QED
          BY <1>2, <4>1, <4>2, PassKeeps
      <3>3. QED
        BY <1>2, <2>2, <3>1, <3>2, FailKeeps, UnblockKeeps, Zenon DEF Watch!Next
    <2>3. QED
      BY <1>2, <2>1, <2>2, Zenon DEF AuthNext
  <1>3. QED
    BY <1>1, <1>2, PTL DEF AuthSpec

\* How many of a list in order are later than a time.
LEMMA LateCount ==
  ASSUME NEW s, Ordered(s), NEW d \in Nat, NEW n \in Nat
  PROVE  \E k \in 0..Len(s) :
           /\ Cardinality({i \in DOMAIN s : s[i] + d > n}) = Len(s) - k
           /\ \A i \in 1..Len(s) : i > k <=> s[i] + d > n
  <1>1. PICK k \in 0..Len(s) : \A i \in 1..Len(s) : i > k <=> s[i] + d > n
    BY LateOnes
  <1>2. Len(s) \in Nat /\ DOMAIN s = 1..Len(s)
    BY DEF Ordered
  <1>3. {i \in DOMAIN s : s[i] + d > n} = (k + 1)..Len(s)
    BY <1>1, <1>2
  <1>4. k + 1 \in Int /\ Len(s) \in Int
    BY <1>2
  <1>5. Cardinality((k + 1)..Len(s)) = IF k + 1 > Len(s) THEN 0 ELSE Len(s) - (k + 1) + 1
    BY <1>4, FS_Interval, Zenon
  <1>6. Cardinality((k + 1)..Len(s)) = Len(s) - k
    BY <1>2, <1>5
  <1>7. QED
    BY <1>1, <1>3, <1>6

\* The status counts no failure of the last hour that did not happen, and none that is not
\* in the list.
LEMMA LastHourCount ==
  ASSUME NEW f, NEW e, NEW t \in Nat, Watched(f, e, t)
  PROVE  LET lately(s) == Cardinality({n \in DOMAIN s : s[n] + StatusWindow > t}) IN
         lately(f) \in Nat /\ lately(f) <= Len(f) /\ lately(f) <= lately(e)
  <1>1. Ordered(e) /\ Len(e) \in Nat
    BY DEF Watched, Past, Ordered
  <1>2. PICK m \in 0..Len(e) : f = Rest(e, m)
    BY DEF Watched
  <1>3. /\ Ordered(f) /\ Len(f) = Len(e) - m
        /\ \A i \in 1..(Len(e) - m) : f[i] = e[m + i]
    BY <1>1, <1>2, RestOrdered
  <1>4. PICK k \in 0..Len(f) :
          /\ Cardinality({n \in DOMAIN f : f[n] + StatusWindow > t}) = Len(f) - k
          /\ \A i \in 1..Len(f) : i > k <=> f[i] + StatusWindow > t
    BY <1>3, WatchNumbers, LateCount
  <1>5. PICK l \in 0..Len(e) :
          /\ Cardinality({n \in DOMAIN e : e[n] + StatusWindow > t}) = Len(e) - l
          /\ \A i \in 1..Len(e) : i > l <=> e[i] + StatusWindow > t
    BY <1>1, WatchNumbers, LateCount
  <1>6. l <= m + k
    <2>1. CASE k < Len(f)
      <3>1. k + 1 \in 1..Len(f) /\ m + (k + 1) \in 1..Len(e) /\ k + 1 > k
        BY <1>1, <1>3, <2>1
      <3>2. f[k + 1] + StatusWindow > t /\ f[k + 1] = e[m + (k + 1)]
        BY <1>3, <1>4, <3>1
      <3>3. m + (k + 1) > l
        BY <1>5, <3>1, <3>2
      <3>4. QED
        BY <3>3
    <2>2. CASE k = Len(f)
      BY <1>1, <1>3, <2>2
    <2>3. QED
      BY <1>1, <1>3, <2>1, <2>2
  <1>7. Len(f) - k \in Nat /\ Len(f) - k <= Len(f) /\ Len(f) - k <= Len(e) - l
    BY <1>1, <1>3, <1>6
  <1>8. QED
    BY <1>4, <1>5, <1>7

LEMMA WatchIsExact ==
  ASSUME WatchInv
  PROVE  Watch!WatchExact
  <1>1. /\ moment \in Nat /\ suspicious \subseteq Addresses /\ blocked \subseteq Addresses
        /\ entered \in [Addresses -> Seq(Nat)] /\ failures \in [Addresses -> Seq(Nat)]
        /\ \A a \in Addresses : AddressSound(a)
        /\ LatestOf(alerts, raised)
    BY WatchNumbers DEF WatchInv
  <1>2. \A a \in Addresses : \A c : Watch!Together(a, c) <=> Close(entered[a], c)
    <2>1. SUFFICES ASSUME NEW a \in Addresses, NEW c PROVE Watch!Together(a, c) <=> Close(entered[a], c)
      BY Zenon
    <2>2. DOMAIN entered[a] = 1..Len(entered[a])
      BY <1>1
    <2>3. QED
      BY <2>2, Zenon DEF Watch!Together, Close
  <1>3. suspicious = {a \in Addresses : Watch!Together(a, SuspectFrom)}
    BY <1>1, <1>2 DEF AddressSound
  <1>4. blocked = {a \in Addresses : Watch!Together(a, BlockFrom)}
    BY <1>1, <1>2 DEF AddressSound
  <1>5. ASSUME NEW a \in blocked PROVE a \in suspicious
    <2>1. a \in Addresses /\ AddressSound(a)
      BY <1>1
    <2>2. Close(entered[a], BlockFrom) /\ Ordered(entered[a])
      BY <2>1 DEF AddressSound, Watched, Past
    <2>3. SuspectFrom <= BlockFrom
      BY WatchNumbers
    <2>4. Close(entered[a], SuspectFrom)
      BY <2>2, <2>3, WatchNumbers, FewerAreClose
    <2>5. QED
      BY <2>1, <2>4 DEF AddressSound
  <1>6. ASSUME NEW a \in Addresses
        PROVE  /\ Watch!LastHour(a) >= SuspectFrom => a \in suspicious
               /\ Watch!LastHour(a) <= Watch!Cardinality({n \in DOMAIN entered[a] : entered[a][n] + StatusWindow > moment})
    <2> DEFINE lately(s) == Cardinality({n \in DOMAIN s : s[n] + StatusWindow > moment})
    <2>1. Watched(failures[a], entered[a], moment)
      BY <1>1 DEF AddressSound
    <2>2. /\ lately(failures[a]) \in Nat /\ lately(failures[a]) <= Len(failures[a])
          /\ lately(failures[a]) <= lately(entered[a])
      BY <1>1, <2>1, LastHourCount
    <2>3. Watch!LastHour(a) = lately(failures[a])
      BY Zenon DEF Watch!LastHour, Watch!Cardinality, Cardinality
    <2>4. Watch!Cardinality({n \in DOMAIN entered[a] : entered[a][n] + StatusWindow > moment}) = lately(entered[a])
      BY Zenon DEF Watch!Cardinality, Cardinality
    <2> HIDE DEF lately
    <2>5. ASSUME Watch!LastHour(a) >= SuspectFrom PROVE a \in suspicious
      <3>1. Len(failures[a]) \in Nat
        BY <1>1
      <3>2. Len(failures[a]) >= SuspectFrom
        BY <2>2, <2>3, <2>5, <3>1, WatchNumbers
      <3>3. Close(entered[a], SuspectFrom)
        BY <1>1, <2>1, <3>2, WatchNumbers, ListedAreClose
      <3>4. QED
        BY <1>1, <3>3 DEF AddressSound
    <2>6. QED
      BY <2>2, <2>3, <2>4, <2>5
  <1>7. blocked \cup Watch!ActiveThreats \subseteq suspicious
    BY <1>5, <1>6 DEF Watch!ActiveThreats
  <1>8. Watch!IsSuffix(alerts, raised) /\ Len(alerts) = IF Len(raised) > KeptAlerts THEN KeptAlerts ELSE Len(raised)
    <2>1. Watch!IsSuffix(alerts, raised)
      BY <1>1, AlertsAreSuffix
    <2>2. QED
      BY <1>1, <2>1, Zenon DEF LatestOf
  <1>9. \A a \in Addresses :
          Watch!LastHour(a) <= Watch!Cardinality({n \in DOMAIN entered[a] : entered[a][n] + StatusWindow > moment})
    BY <1>6
  <1>10. QED
    BY <1>3, <1>4, <1>7, <1>8, <1>9, Zenon DEF Watch!WatchExact

LEMMA WatchTypes ==
  ASSUME WatchInv
  PROVE  Watch!TypeOK
  <1>1. /\ moment \in Nat /\ moment \in 0..MaxMoment /\ suspicious \subseteq Addresses /\ blocked \subseteq Addresses
        /\ failures \in [Addresses -> Seq(Nat)]
        /\ \A a \in Addresses : AddressSound(a)
        /\ LatestOf(alerts, raised)
    BY WatchNumbers DEF WatchInv
  <1>2. ASSUME NEW a \in Addresses PROVE failures[a] \in Seq(0..moment)
    <2> DEFINE f == failures[a]
    <2>1. Past(entered[a], moment) /\ \E m \in 0..Len(entered[a]) : f = Rest(entered[a], m)
      BY <1>1, Zenon DEF AddressSound, Watched
    <2> DEFINE e == entered[a]
    <2>2. PICK m \in 0..Len(e) : f = Rest(e, m)
      BY <2>1
    <2>3. Ordered(e) /\ Len(e) \in Nat /\ \A i \in 1..Len(e) : e[i] <= moment /\ e[i] \in Nat
      BY <2>1 DEF Past, Ordered
    <2> HIDE DEF e, f
    <2>4. f \in Seq(Nat) /\ Len(f) = Len(e) - m /\ \A i \in 1..(Len(e) - m) : f[i] = e[m + i]
      BY <2>2, <2>3, RestOrdered DEF Ordered
    <2>5. \A i \in 1..Len(f) : f[i] \in 0..moment
      <3>1. \A i \in 1..Len(f) : m + i \in 1..Len(e) /\ f[i] = e[m + i]
        BY <2>3, <2>4
      <3>2. QED
        BY <1>1, <2>3, <3>1, SMTT(30)
    <2>6. f \in Seq(0..moment)
      <3>1. Len(f) \in Nat /\ f \in [1..Len(f) -> Nat]
        BY <2>4
      <3> DEFINE Times == 0..moment
      <3>2. \A i \in 1..Len(f) : f[i] \in Times
        BY <2>5
      <3> HIDE DEF Times
      <3>3. f \in Seq(Times)
        BY <3>1, <3>2
      <3>4. QED
        BY <3>3 DEF Times
    <2>7. QED
      BY <2>6 DEF f
  <1>3. Len(alerts) <= KeptAlerts
    <2>1. Len(raised) \in Nat
      BY <1>1 DEF LatestOf
    <2>2. QED
      BY <1>1, <2>1, WatchNumbers DEF LatestOf
  <1>4. failures \in [Addresses -> Seq(0..moment)]
    BY <1>1, <1>2
  <1>5. QED
    BY <1>1, <1>3, <1>4, Zenon DEF Watch!TypeOK

---------------------------------------------------------------------------
(* Logs and types.                                                         *)

\* AccessControl and SecurityWatch: of every key the audit log says what it is, whatever
\* mix of single and batch operations, failures and readings led there; and an address is
\* suspicious, or blocked, exactly if so many of its failures ever lay within one window,
\* however failures, pauses, pardons and resets followed one another.
THEOREM LogsTell == AuthSpec => []LogsTellState
  <1>1. ASSUME AccessInv, WatchInv PROVE LogsTellState
    BY <1>1, AuditTells, WatchIsExact, Zenon DEF LogsTellState
  <1>2. QED
    BY <1>1, AccessInvariant, WatchInvariant, PTL

\* A list of times that are past is one of times up to the bound.
LEMMA TimesUpTo ==
  ASSUME NEW s, Ordered(s), NEW n \in Nat, \A i \in 1..Len(s) : s[i] <= n
  PROVE  s \in Seq(0..n)
  <1> DEFINE Times == 0..n
  <1>1. Len(s) \in Nat /\ s \in [1..Len(s) -> Nat]
    BY DEF Ordered
  <1>2. \A i \in 1..Len(s) : s[i] \in Times
    BY <1>1
  <1> HIDE DEF Times
  <1>3. s \in Seq(Times)
    BY <1>1, <1>2
  <1>4. QED
    BY <1>3 DEF Times

LEMMA LimiterTypes ==
  ASSUME LimiterInv, part = "limits"
  PROVE  Rate!TypeOK
  <1>1. now \in Nat /\ now <= MaxLimiterTime /\ MaxLimiterTime \in Nat
    BY AuthAssumption DEF LimiterInv, RateInv, Rate!LimiterAssumption
  <1>2. /\ kind \in Rate!Kinds /\ told \in Nat /\ lastCleanup \in 0..now
        /\ Ordered(log) /\ \A i \in 1..Len(log) : log[i] <= now
        /\ Ordered(admitted) /\ \A i \in 1..Len(admitted) : admitted[i] <= now
        /\ fixed \in [minute : Nat, count : 0..Limit]
        /\ bucket \in [tokens : Nat, last : 0..now] /\ bucket.tokens <= Rate!Capacity
    BY DEF LimiterInv, RateInv
  <1>3. \A i \in 1..Len(log) : log[i] <= MaxLimiterTime
    BY <1>1, <1>2 DEF Ordered
  <1>4. \A i \in 1..Len(admitted) : admitted[i] <= MaxLimiterTime
    BY <1>1, <1>2 DEF Ordered
  <1>5. log \in Seq(0..MaxLimiterTime) /\ admitted \in Seq(0..MaxLimiterTime)
    BY <1>1, <1>2, <1>3, <1>4, TimesUpTo
  <1>6. bucket.tokens \in 0..Rate!Capacity /\ bucket.last \in 0..MaxLimiterTime
    BY <1>1, <1>2, CapacityHolds
  <1>7. fixed.minute \in Nat /\ fixed.count \in 0..Limit
    BY <1>2
  <1>8. now \in 0..MaxLimiterTime /\ lastCleanup \in 0..MaxLimiterTime
    BY <1>1, <1>2
  <1>9. QED
    BY <1>2, <1>5, <1>6, <1>7, <1>8, Zenon DEF Rate!TypeOK

LEMMA KeyTypes ==
  ASSUME KeysKept, part = "keys"
  PROVE  Keys!TypeOK
  <1>1. now \in Nat /\ now <= MaxKeyTime /\ MaxKeyTime \in Nat
    BY AuthAssumption DEF KeysKept, KeysInv, Keys!KeyAssumption
  <1>2. /\ keys \in [Keys!Ids -> Keys!Key \cup {NoKey}]
        /\ calls \in [Keys!Ids -> Seq(Nat)] /\ accepted \in [Keys!Ids -> Seq(Nat)]
        /\ allowed \in [Keys!Ids -> Seq(Int)]
        /\ \A i \in Keys!Ids : Past(calls[i], now) /\ Past(accepted[i], now)
    BY DEF KeysKept, KeysInv, KeySound
  <1>3. ASSUME NEW s, Past(s, now) PROVE s \in Seq(0..MaxKeyTime)
    <2>1. Ordered(s) /\ \A i \in 1..Len(s) : s[i] <= MaxKeyTime
      BY <1>1, <1>3 DEF Past, Ordered
    <2>2. QED
      BY <1>1, <2>1, TimesUpTo
  <1>4. \A i \in Keys!Ids : calls[i] \in Seq(0..MaxKeyTime) /\ accepted[i] \in Seq(0..MaxKeyTime)
    BY <1>2, <1>3
  <1>5. calls \in [Keys!Ids -> Seq(0..MaxKeyTime)] /\ accepted \in [Keys!Ids -> Seq(0..MaxKeyTime)]
    BY <1>2, <1>4
  <1>6. now \in 0..MaxKeyTime
    BY <1>1
  <1>7. QED
    BY <1>2, <1>5, <1>6, Zenon DEF Keys!TypeOK

\* Every part of the authentication layer stays within its types.
THEOREM AuthTypes == AuthSpec => []AuthTypeOK
  <1>1. ASSUME IndInv, SessionInv, LimiterInv, KeysKept, AccessInv, WatchInv PROVE AuthTypeOK
    <2>1. TypeOK
      BY <1>1 DEF IndInv
    <2>2. part = "sessions" => Sess!TypeOK
      BY <1>1 DEF SessionInv, SessionsKept
    <2>3. QED
      BY <1>1, <2>1, <2>2, LimiterTypes, KeyTypes, AccessTypes, WatchTypes, Zenon DEF AuthTypeOK
  <1>2. QED
    BY <1>1, AuthInvariant, SessionInvariant, LimiterInvariant, KeysInvariant, AccessInvariant,
       WatchInvariant, PTL

=============================================================================
