--------------------------- MODULE AccessControl ---------------------------
(***************************************************************************)
(* Who is let in by which route: the managers of tokens and of API keys    *)
(* the routes are wired to, and the administrator's operations with their  *)
(* audit log.  A user's routes under /auth and the unified authenticator,  *)
(* of the administrator's and the other routes, have a JWT manager each,   *)
(* with a blacklist each: a token logged out at the first is still let in  *)
(* by the second.  (/auth/csrf-token lets in anybody, and shows nothing.)  *)
(* There are three managers of API keys: one that a user's request gets    *)
(* for itself, the administrator's, and the authenticator's own, to which  *)
(* nothing adds a key.  No handler suspends, so each is one step.  Quotas, *)
(* expiry and rates of keys are in ApiKeys.                                *)
(***************************************************************************)
EXTENDS Naturals, Sequences, FiniteSets, SequencesExt, Selection

CONSTANTS
  MaxTokens, MaxIssued, \* bounds: access tokens and API keys ever issued; both are numbered
  MaxAudit,             \* bound: entries of the audit log
  MasterConfigured,     \* whether settings.master_api_key is set, in the right format
  NoCredential, Master

AccessAssumption ==
  /\ MaxTokens \in Nat /\ MaxIssued \in Nat /\ MaxAudit \in Nat
  /\ MasterConfigured \in BOOLEAN

VARIABLES
  tokens,    \* number of access tokens issued
  blacklist, \* _token_blacklist of each JWT manager
  issued,    \* number of API keys this process has issued
  store,     \* api_keys of the administrator's manager, by id: whether the key is active
  audit      \* _audit_logs

vars == <<tokens, blacklist, issued, store, audit>>

Managers == {"routes", "unified"}

Tokens == 1..tokens

\* What an API key manager knows.  Nothing adds a key to the authenticator's.
KeysOf(manager) == IF manager = "admin" THEN DOMAIN store ELSE {}

\* A request: what is in its API key field and in its authorization header.
Credentials == [key : {NoCredential, Master} \cup (1..issued), token : {NoCredential} \cup Tokens]

ValidToken(manager, t) == t # NoCredential /\ t \notin blacklist[manager]

\* Scopes of the caller: the master key has them all, a token those of a user.
Everything == {"master:admin", "master:manage_all_keys", "master:system_admin", "read:workspaces"}

\* authenticate_request: a key, if there is one, decides alone; a token is not looked at.
LetIn(c) ==
  CASE c.key = Master -> MasterConfigured
    [] c.key \in 1..issued -> c.key \in KeysOf("unified") /\ store[c.key]
    [] OTHER -> ValidToken("unified", c.token)

Scopes(c) == IF c.key = Master THEN Everything ELSE {"read:workspaces"}

CanManageAllKeys(c) == Scopes(c) \cap {"master:admin", "master:manage_all_keys"} # {}

\* require_key_management; require_master_admin and require_system_admin are alike.
MayManage(c) == LetIn(c) /\ CanManageAllKeys(c)

\* The three kinds of routes: a user's under /auth, the graph's, the administrator's.
Accepts(route, c) ==
  CASE route = "auth" -> ValidToken("routes", c.token)
    [] route = "graph" -> LetIn(c)
    [] route = "admin" -> MayManage(c)

Login ==
  /\ tokens < MaxTokens
  /\ tokens' = tokens + 1
  /\ UNCHANGED <<blacklist, issued, store, audit>>

Logout(c) ==
  /\ Accepts("auth", c)
  /\ blacklist' = [blacklist EXCEPT !["routes"] = @ \cup {c.token}]
  /\ UNCHANGED <<tokens, issued, store, audit>>

\* POST /keys: the new key is in the manager of the request only.  (DELETE /keys/{id}
\* asks a new manager, which knows no key, and changes nothing.)
CreateKey(c) ==
  /\ Accepts("auth", c) /\ issued < MaxIssued
  /\ issued' = issued + 1
  /\ UNCHANGED <<tokens, blacklist, store, audit>>

---------------------------------------------------------------------------
(* The administrator's routes.                                             *)

\* log_admin_operation: the kind of operation - a change of keys, a look at them, or a
\* batch -, the keys it names, whether it worked, and is_active after it.
Entry(op, S, ok, active) == [at |-> Len(audit), op |-> op, keys |-> S, ok |-> ok, active |-> active]

Logged(entries) == Len(audit) + Len(entries) <= MaxAudit /\ audit' = audit \o entries

CreateAdminKey(c) ==
  /\ MayManage(c) /\ issued < MaxIssued
  /\ issued' = issued + 1
  /\ store' = [k \in KeysOf("admin") \cup {issued + 1} |-> IF k = issued + 1 THEN TRUE ELSE store[k]]
  /\ Logged(<<Entry("change", {issued + 1}, TRUE, TRUE)>>)
  /\ UNCHANGED <<tokens, blacklist>>

\* A creation that raises, for a quota that is used up, and a batch whose operation is
\* unknown, or an update without updates: it fails for every key, and changes none.
Fails(c, op) ==
  /\ MayManage(c)
  /\ op = "batch" => KeysOf("admin") # {}
  /\ Logged(<<Entry(op, {}, FALSE, FALSE)>>)
  /\ UNCHANGED <<tokens, blacklist, issued, store>>

\* update_key_admin and revoke_key_admin for one key; one that is not there is an error.
Change(c, k, active) ==
  /\ MayManage(c)
  /\ store' = [j \in KeysOf("admin") |-> IF j = k THEN active ELSE store[j]]
  /\ Logged(<<Entry("change", {k}, k \in KeysOf("admin"), active)>>)
  /\ UNCHANGED <<tokens, blacklist, issued>>

\* The keys a batch is about, in the order in which they were made.
Chosen(status) ==
  LET S == {k \in KeysOf("admin") : status \in {"any", IF store[k] THEN "active" ELSE "revoked"}} IN
  [n \in 1..Cardinality(S) |-> Place(S, n)]

\* Mutant: a batch writes one entry for all its keys, which does not say what they are now.
BatchEntriesAsOne(S, active) == <<Entry("batch", ToSet(S), TRUE, TRUE)>>

\* batch_operation: each key by update_key_admin or revoke_key_admin, and then the batch.
BatchEntries(S, active) ==
  Append([n \in DOMAIN S |-> [Entry("change", {S[n]}, TRUE, active) EXCEPT !.at = @ + n - 1]],
         [Entry("batch", ToSet(S), TRUE, TRUE) EXCEPT !.at = @ + Len(S)])

\* Revocation makes a key inactive, an update either; "rotate" revokes and makes no new key.
Batch(c, status, active) ==
  /\ MayManage(c)
  /\ store' = [k \in KeysOf("admin") |-> IF k \in ToSet(Chosen(status)) THEN active ELSE store[k]]
  /\ Logged(BatchEntries(Chosen(status), active))
  /\ UNCHANGED <<tokens, blacklist, issued>>

\* list_all_keys and get_key_details; which key was looked at is left out.
Look(c) ==
  /\ MayManage(c)
  /\ Logged(<<Entry("look", {}, TRUE, TRUE)>>)
  /\ UNCHANGED <<tokens, blacklist, issued, store>>

\* get_audit_logs without a filter sorts the log itself, the newest entry first; one entry
\* was made at each of the times before Len(audit).
ReadAudit ==
  /\ audit' = [n \in DOMAIN audit |-> CHOOSE e \in ToSet(audit) : e.at = Len(audit) - n]
  /\ UNCHANGED <<tokens, blacklist, issued, store>>

\* Tokens outlive the process, nothing else here does; no key of before is known again,
\* so that the ids may be used again.
Restart ==
  /\ blacklist' = [m \in Managers |-> {}]
  /\ store' = <<>> /\ audit' = <<>>
  /\ issued' = 0
  /\ UNCHANGED tokens

Init ==
  /\ tokens = 0 /\ issued = 0
  /\ blacklist = [m \in Managers |-> {}]
  /\ store = <<>> /\ audit = <<>>

Next ==
  \/ Login \/ ReadAudit \/ Restart
  \/ \E c \in Credentials :
       \/ Logout(c) \/ CreateKey(c) \/ CreateAdminKey(c) \/ Look(c)
       \/ Fails(c, "change") \/ Fails(c, "batch")
       \/ \E k \in 1..issued, active \in BOOLEAN : Change(c, k, active)
       \/ \E status \in {"any", "active", "revoked"}, active \in BOOLEAN : Batch(c, status, active)

Spec == Init /\ [][Next]_vars

---------------------------------------------------------------------------
(* Properties.                                                             *)

TypeOK ==
  /\ tokens \in 0..MaxTokens /\ issued \in 0..MaxIssued
  /\ blacklist \in [Managers -> SUBSET Tokens]
  /\ DOMAIN store \subseteq 1..issued /\ \A k \in DOMAIN store : store[k] \in BOOLEAN
  /\ Len(audit) <= MaxAudit

\* The audit log tells the truth: for every key of the administrator's manager the
\* newest entry that changed it says what it is now, whichever mix of single and batch
\* operations, failures and readings of the log led there.
AuditTellsState ==
  \A k \in DOMAIN store :
    \E e \in ToSet(audit) :
      /\ e.ok /\ e.op = "change" /\ k \in e.keys
      /\ e.active = store[k]
      /\ \A f \in ToSet(audit) : f.at > e.at /\ f.ok /\ k \in f.keys => f.op # "change"

\* "Returns: Created API key": a key that was handed out, and nobody revoked, is let in.
IssuedKeysWork ==
  \A k \in 1..issued :
    (k \in DOMAIN store => store[k]) => Accepts("graph", [key |-> k, token |-> NoCredential])

=============================================================================
