------------------------------- MODULE Accounts -------------------------------
(***************************************************************************)
(* The users of the platform, the accounts they belong to, the onboarding  *)
(* keys they join with and the refresh tokens of their sessions, under     *)
(* requests that overlap.                                                  *)
(*                                                                         *)
(* A request reads its rows in one snapshot, which the dependency that     *)
(* authenticates it has already taken, and commits once at the end; only   *)
(* registration with a key commits twice.  The platform owner, who is not  *)
(* modelled as a user, acts whatever the state.  DISABLED stands for       *)
(* INVITED too: every check asks whether the status is ACTIVE.             *)
(***************************************************************************)
EXTENDS FiniteSets, Naturals

CONSTANTS
  Supers, Admins,         \* users by role; a registered user is an admin nobody manages
  Slugs,                  \* accounts, by slug
  Keys,                   \* onboarding keys
  Tokens,                 \* refresh tokens
  Requests,               \* requests served at one time
  None,                   \* NULL
  MaxUses,                \* max_uses of a key
  MaxServed               \* bound: requests

Users == Supers \cup Admins

ASSUME AccountsAssumption ==
  /\ MaxUses \in Nat \ {0} /\ MaxServed \in Nat
  /\ None \notin Users \cup Slugs \cup Keys \cup Tokens
  /\ Supers \cap Admins = {}

VARIABLES
  user,                   \* the users rows
  members,                \* the users with a membership, per account
  key,                    \* the onboarding_keys rows
  token,                  \* the refresh_tokens rows
  request,                \* what each open request has read and is to write
  served,                 \* requests begun
  joined,                 \* history: memberships made with each key
  ended,                  \* history: live tokens a logout or a disabling revoked
  crossed                 \* history: rows a request wrote after others had committed

vars == <<user, members, key, token, request, served, joined, ended, crossed>>

Statuses == {"none", "ACTIVE", "DISABLED"}
Ops == {"none", "register", "join", "account", "login", "refresh", "logout",
        "password", "super", "admin", "status"}

NoUser == [status |-> "none", manager |-> None]
NoKey == [of |-> None, open |-> FALSE, used |-> 0]
NoToken == [user |-> None, live |-> FALSE, from |-> None]
Unread == [u \in Users |-> "none"]
NoRequest == [op |-> "none", by |-> None, on |-> None, to |-> "none", targets |-> {},
              seen |-> Unread, revoked |-> {}, uses |-> 0, alone |-> TRUE]

Init ==
  /\ user = [u \in Users |-> NoUser]
  /\ members = [a \in Slugs |-> {}]
  /\ key = [k \in Keys |-> NoKey]
  /\ token = [t \in Tokens |-> NoToken]
  /\ request = [r \in Requests |-> NoRequest]
  /\ served = 0
  /\ joined = [k \in Keys |-> 0]
  /\ ended = {}
  /\ crossed = {}

(***************************************************************************)
(* What a request reads.                                                   *)
(***************************************************************************)
\* get_current_user, and the check that login makes.
Active(u) == user[u].status = "ACTIVE"

\* resolve_active_account: the account a request acts in.
InAccount(u, a) == Active(u) /\ u \in members[a]

TokensOf(us) == {t \in Tokens : token[t].user \in us}
AdminsOf(us) == {v \in Admins : user[v].manager \in us}

\* The count of uses left out (mutant of ValidKey).
ValidKeyUncounted(k) == key[k].open

\* _get_valid_onboarding_key.
ValidKey(k) == key[k].open /\ key[k].used < MaxUses

\* A revoked token is accepted (mutant of Exchangeable).
ExchangeableAgain(t) == token[t].user # None

\* The checks of refresh, which leaves the user's status to the requests to come.
Exchangeable(t) == token[t].user # None /\ token[t].live

\* Only the super admin's own row (mutant of Cascade).
CascadeNone(u, to) == {}

\* _cascade_status_to_admins.
Cascade(u, to) == IF u \in Supers /\ to # "ACTIVE" THEN AdminsOf({u}) ELSE {}

(***************************************************************************)
(* The start of a request: its checks and the rows it keeps.               *)
(***************************************************************************)
Asked(op, by, on) == [NoRequest EXCEPT !.op = op, !.by = by, !.on = on]
Using(k) == IF k = None THEN 0 ELSE key[k].used

\* A status for a user and the admins it cascades to, and the tokens to revoke.
StatusChange(by, u, to, delete) ==
  [Asked("status", by, u) EXCEPT
     !.to = to,
     !.targets = {u} \cup Cascade(u, to),
     !.seen = [v \in Users |-> user[v].status],
     !.revoked = TokensOf(Cascade(u, to) \cup (IF delete THEN {u} ELSE {}))]

Begin(r, asked) ==
  /\ request[r].op = "none" /\ served < MaxServed
  /\ request' = [request EXCEPT ![r] = asked]
  /\ served' = served + 1
  /\ UNCHANGED <<user, members, key, token, joined, ended, crossed>>

BeginRegister(r) ==
  \E u \in Admins, k \in Keys \cup {None} :
    /\ user[u] = NoUser /\ (k # None => ValidKey(k))
    /\ Begin(r, [Asked("register", u, k) EXCEPT !.uses = Using(k)])

BeginJoin(r) ==
  \E u \in Users, k \in Keys :
    /\ Active(u) /\ ValidKey(k) /\ u \notin members[key[k].of]
    /\ Begin(r, [Asked("join", u, k) EXCEPT !.uses = Using(k)])

BeginAccount(r) ==
  \E u \in Users, a \in Slugs :
    Active(u) /\ members[a] = {} /\ Begin(r, Asked("account", u, a))

BeginLogin(r) == \E u \in Users : Active(u) /\ Begin(r, Asked("login", u, None))

BeginRefresh(r) ==
  \E t \in Tokens : Exchangeable(t) /\ Begin(r, Asked("refresh", token[t].user, t))

\* The token presented, or with logout_all every token of the user.
BeginLogout(r) ==
  \E u \in Users : \E t \in TokensOf({u}), all \in BOOLEAN :
    /\ Active(u)
    /\ Begin(r, [Asked("logout", u, None) EXCEPT !.revoked = IF all THEN TokensOf({u}) ELSE {t}])

BeginPassword(r) ==
  \E u \in Users :
    Active(u) /\ Begin(r, [Asked("password", u, None) EXCEPT !.revoked = TokensOf({u})])

\* create_super_admin, with an account of its own; create_admin.
BeginSuper(r) ==
  \E u \in Supers, a \in Slugs : user[u] = NoUser /\ Begin(r, Asked("super", u, a))

BeginAdmin(r) ==
  \E s \in Supers, u \in Admins, a \in Slugs :
    InAccount(s, a) /\ user[u] = NoUser
    /\ Begin(r, [Asked("admin", s, a) EXCEPT !.targets = {u}])

\* update_super_admin by the owner.
BeginSuperStatus(r) ==
  \E s \in Supers, to \in {"ACTIVE", "DISABLED"} :
    user[s] # NoUser /\ Begin(r, StatusChange(None, s, to, FALSE))

\* update_admin, and delete_admin, which disables the admin and revokes its tokens.
BeginAdminStatus(r) ==
  \E s \in Supers : \E u \in AdminsOf({s}), to \in {"ACTIVE", "DISABLED"}, delete \in BOOLEAN :
    /\ Active(s) /\ (delete => to = "DISABLED")
    /\ Begin(r, StatusChange(s, u, to, delete))

(***************************************************************************)
(* Its commit.                                                             *)
(***************************************************************************)
Reads(r) ==
  ({request[r].by, request[r].on} \cup request[r].targets \cup request[r].revoked) \ {None}

\* The request is over, and the others that read what it wrote are no longer alone.
Finished(r, written) ==
  [q \in Requests |->
    IF q = r \/ request[q].op = "none" THEN NoRequest
    ELSE [request[q] EXCEPT !.alone = @ /\ Reads(q) \cap written = {}]]

\* One that is not alone may leave these rows inconsistent.
Crossing(r, rows) == crossed' = IF request[r].alone THEN crossed ELSE crossed \cup rows

\* A column is written when its value differs from the one the session loaded.
Assigned(new, loaded, stored) == IF new = loaded THEN stored ELSE new

Revoked(ts) == [t \in Tokens |-> [token[t] EXCEPT !.live = @ /\ t \notin ts]]

Unused == {t \in Tokens : token[t] = NoToken}

\* _issue_tokens, in the transaction that revokes ts.
Issue(u, from, ts) ==
  \E t \in Unused :
    /\ t = CHOOSE x \in Unused : TRUE
    /\ token' = [Revoked(ts) EXCEPT ![t] = [user |-> u, live |-> TRUE, from |-> from]]

IsOp(r, op) == request[r].op = op

\* create_account; the slug is unique.
CommitAccount(r) ==
  LET u == request[r].by  a == request[r].on
  IN  /\ IsOp(r, "account") /\ members[a] = {}
      /\ members' = [members EXCEPT ![a] = {u}]
      /\ request' = Finished(r, {a})
      /\ UNCHANGED <<served, user, key, token, joined, ended, crossed>>

\* create_onboarding_key: a request that reads nothing it writes.
CreateKey(k) ==
  /\ key[k] = NoKey
  /\ \E a \in Slugs : \E u \in members[a] :
        InAccount(u, a) /\ key' = [key EXCEPT ![k] = [of |-> a, open |-> TRUE, used |-> 0]]
  /\ UNCHANGED <<served, user, members, token, request, joined, ended, crossed>>

\* expires_at passes.
KeyExpires(k) ==
  /\ key[k].open
  /\ key' = [key EXCEPT ![k].open = FALSE]
  /\ UNCHANGED <<served, user, members, token, request, joined, ended, crossed>>

\* join_account's own writes: used_count is the loaded one plus one, and a membership
\* is unique.
JoinWrites(r, u, k) ==
  /\ u \notin members[key[k].of]
  /\ members' = [members EXCEPT ![key[k].of] = @ \cup {u}]
  /\ key' = [key EXCEPT ![k].used = request[r].uses + 1]
  /\ joined' = [joined EXCEPT ![k] = @ + 1]

CommitJoin(r) ==
  LET u == request[r].by  k == request[r].on
  IN  /\ IsOp(r, "join")
      /\ JoinWrites(r, u, k)
      /\ Crossing(r, {k})
      /\ request' = Finished(r, {k})
      /\ UNCHANGED <<served, user, token, ended>>

Registered(u) == user' = [user EXCEPT ![u].status = "ACTIVE"]

\* register without a key commits the user and its token together.
CommitRegister(r) ==
  LET u == request[r].by
  IN  /\ IsOp(r, "register") /\ request[r].on = None /\ user[u] = NoUser
      /\ Registered(u) /\ Issue(u, None, {})
      /\ request' = Finished(r, {u})
      /\ UNCHANGED <<served, members, key, joined, ended, crossed>>

\* With a key, join_account commits the user and the membership first.
CommitRegisterJoin(r) ==
  LET u == request[r].by  k == request[r].on
  IN  /\ IsOp(r, "register") /\ k # None /\ user[u] = NoUser
      /\ Registered(u) /\ JoinWrites(r, u, k)
      /\ Crossing(r, {k})
      /\ request' = [Finished(r, {u, k}) EXCEPT ![r] = Asked("login", u, None)]
      /\ UNCHANGED <<served, token, ended>>

\* login, and the second commit of register.
CommitLogin(r) ==
  /\ IsOp(r, "login")
  /\ Issue(request[r].by, None, {})
  /\ request' = Finished(r, {})
  /\ UNCHANGED <<served, user, members, key, joined, ended, crossed>>

\* refresh: the old token is revoked and the new one added in one transaction.
CommitRefresh(r) ==
  LET t == request[r].on
  IN  /\ IsOp(r, "refresh")
      /\ Issue(request[r].by, t, {t})
      /\ Crossing(r, {t})
      /\ request' = Finished(r, {t})
      /\ UNCHANGED <<served, user, members, key, joined, ended>>

\* Live tokens that a request ends without exchanging them.
Ending(r) == ended' = ended \cup {t \in request[r].revoked : token[t].live}

CommitLogout(r) ==
  /\ IsOp(r, "logout")
  /\ token' = Revoked(request[r].revoked)
  /\ Ending(r)
  /\ request' = Finished(r, request[r].revoked)
  /\ UNCHANGED <<served, user, members, key, joined, crossed>>

\* change_password.
CommitPassword(r) ==
  /\ IsOp(r, "password")
  /\ Issue(request[r].by, None, request[r].revoked)
  /\ Ending(r)
  /\ request' = Finished(r, request[r].revoked)
  /\ UNCHANGED <<served, user, members, key, joined, crossed>>

\* The new users of create_super_admin and create_admin; an email is unique.
CommitSuper(r) ==
  LET u == request[r].by  a == request[r].on
  IN  /\ IsOp(r, "super") /\ user[u] = NoUser /\ members[a] = {}
      /\ \E status \in {"ACTIVE", "DISABLED"} : user' = [user EXCEPT ![u].status = status]
      /\ members' = [members EXCEPT ![a] = {u}]
      /\ request' = Finished(r, {u, a})
      /\ UNCHANGED <<served, key, token, joined, ended, crossed>>

CommitAdmin(r) ==
  LET s == request[r].by  a == request[r].on
  IN  /\ IsOp(r, "admin")
      /\ \E u \in request[r].targets, status \in {"ACTIVE", "DISABLED"} :
            /\ user[u] = NoUser
            /\ user' = [user EXCEPT ![u] = [status |-> status, manager |-> s]]
            /\ members' = [members EXCEPT ![a] = @ \cup {u}]
            /\ Crossing(r, {u})
            /\ request' = Finished(r, {s, u})
      /\ UNCHANGED <<served, key, token, joined, ended>>

CommitStatus(r) ==
  LET q == request[r]
  IN  /\ IsOp(r, "status")
      /\ user' = [u \in Users |->
                    IF u \in q.targets
                    THEN [user[u] EXCEPT !.status = Assigned(q.to, q.seen[u], @)] ELSE user[u]]
      /\ token' = Revoked(q.revoked)
      /\ Ending(r)
      /\ Crossing(r, q.targets \cup AdminsOf(q.targets))
      /\ request' = Finished(r, q.targets \cup q.revoked)
      /\ UNCHANGED <<served, members, key, joined>>

\* A refresh token's time passes: a refresh refuses it, and the daily task revokes it.
TokenExpires(t) ==
  /\ token[t].live
  /\ token' = [token EXCEPT ![t].live = FALSE]
  /\ UNCHANGED <<served, user, members, key, request, joined, ended, crossed>>

\* An error or a conflict with a row committed meanwhile: nothing is stored.
RequestFails(r) ==
  /\ request[r].op # "none"
  /\ request' = [request EXCEPT ![r] = NoRequest]
  /\ UNCHANGED <<served, user, members, key, token, joined, ended, crossed>>

BeginRequest(r) ==
  \/ BeginRegister(r) \/ BeginJoin(r) \/ BeginAccount(r)
  \/ BeginLogin(r) \/ BeginRefresh(r) \/ BeginLogout(r) \/ BeginPassword(r)
  \/ BeginSuper(r) \/ BeginAdmin(r) \/ BeginSuperStatus(r) \/ BeginAdminStatus(r)

CommitRequest(r) ==
  \/ CommitRegister(r) \/ CommitRegisterJoin(r) \/ CommitJoin(r) \/ CommitAccount(r)
  \/ CommitLogin(r) \/ CommitRefresh(r) \/ CommitLogout(r) \/ CommitPassword(r)
  \/ CommitSuper(r) \/ CommitAdmin(r) \/ CommitStatus(r)

Next ==
  \/ \E r \in Requests : BeginRequest(r) \/ CommitRequest(r) \/ RequestFails(r)
  \/ \E k \in Keys : CreateKey(k) \/ KeyExpires(k)
  \/ \E t \in Tokens : TokenExpires(t)

Spec == Init /\ [][Next]_vars

--------------------------------------------------------------------------------
(***************************************************************************)
(* Properties.                                                             *)
(***************************************************************************)
TypeOK ==
  /\ user \in [Users -> [status : Statuses, manager : Supers \cup {None}]]
  /\ members \in [Slugs -> SUBSET Users]
  /\ key \in [Keys -> [of : Slugs \cup {None}, open : BOOLEAN, used : Nat]]
  /\ token \in [Tokens -> [user : Users \cup {None}, live : BOOLEAN, from : Tokens \cup {None}]]
  /\ request \in [Requests ->
       [op : Ops, by : Users \cup {None}, on : Slugs \cup Keys \cup Tokens \cup Users \cup {None},
        to : Statuses, targets : SUBSET Users, seen : [Users -> Statuses],
        revoked : SUBSET Tokens, uses : Nat, alone : BOOLEAN]]
  /\ served \in Nat
  /\ joined \in [Keys -> Nat]
  /\ ended \subseteq Tokens
  /\ crossed \subseteq Users \cup Keys \cup Tokens

\* A key makes as many memberships as it counts, and counts no more than max_uses,
\* unless two requests read its count before either stored it.
KeyUses ==
  \A k \in Keys :
    /\ key[k].used <= MaxUses
    /\ k \notin crossed => joined[k] = key[k].used

\* A session goes on through at most one successor of each token, and through none
\* of a token that a logout, a password change or a disabling ended, unless a refresh
\* overlapped the request that took the token first.
SessionsEnd ==
  \A p \in Tokens \ crossed :
    LET successors == {t \in Tokens : token[t].from = p}
    IN  /\ successors # {} => ~token[p].live
        /\ Cardinality(successors) + (IF p \in ended THEN 1 ELSE 0) <= 1

\* test_auth.py:92: disabling a super admin disables its admins.  None is active under
\* a super admin who is not, unless it was written by a request that overlapped the
\* disabling.
AdminFollowsManager ==
  \A u \in Admins \ crossed :
    user[u].manager # None /\ Active(u) => Active(user[u].manager)
================================================================================
