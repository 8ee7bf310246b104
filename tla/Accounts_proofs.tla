---------------------------- MODULE Accounts_proofs ----------------------------
(***************************************************************************)
(* A key's uses, the end of a session, and the status of the admins of a   *)
(* super admin, for any number of users, accounts, keys, tokens and        *)
(* requests that overlap.                                                  *)
(***************************************************************************)
EXTENDS Accounts, FiniteSetTheorems, TLAPS

OnType == Slugs \cup Keys \cup Tokens \cup Users \cup {None}
RequestType ==
  [op : Ops, by : Users \cup {None}, on : OnType, to : Statuses, targets : SUBSET Users,
   seen : [Users -> Statuses], revoked : SUBSET Tokens, uses : Nat, alone : BOOLEAN]
UserType == [status : Statuses, manager : Supers \cup {None}]
KeyType == [of : Slugs \cup {None}, open : BOOLEAN, used : Nat]
TokenType == [user : Users \cup {None}, live : BOOLEAN, from : Tokens \cup {None}]

\* What kind of rows a request works on.
KindOK(q) ==
  /\ q.op = "register" => q.by \in Admins /\ q.on \in Keys \cup {None}
  /\ q.op = "join" => q.by \in Users /\ q.on \in Keys
  /\ q.op \in {"account", "login", "refresh", "password"} => q.by \in Users
  /\ q.op = "super" => q.by \in Supers
  /\ q.op = "refresh" => q.on \in Tokens
  /\ q.op = "admin" => q.by \in Supers /\ q.targets \subseteq Admins
  /\ q.op = "status" =>
       /\ q.to \in {"ACTIVE", "DISABLED"}
       /\ \/ q.by = None /\ q.on \in Supers /\ q.targets \subseteq {q.on} \cup Admins
          \/ q.by \in Supers /\ q.on \in Admins /\ q.targets = {q.on}

\* The use of a key is counted from the stored count, if the request is alone.
KeyLoaded(q) ==
  q.op \in {"register", "join"} /\ q.on # None =>
    q.uses < MaxUses /\ (q.alone => q.uses = key[q.on].used)

\* A change of status that is alone knows its targets' status; the admins of a super
\* admin it disables are among them, and the super admin who asks for one is active.
StatusLoaded(q) ==
  q.op = "status" /\ q.alone =>
    /\ \A u \in q.targets : q.seen[u] = user[u].status
    /\ q.by = None => /\ q.on \in q.targets
                      /\ q.to = "ACTIVE" => q.targets = {q.on}
                      /\ q.to # "ACTIVE" => AdminsOf({q.on}) \subseteq q.targets
    /\ q.by # None => user[q.on].manager = q.by /\ Active(q.by)
AdminLoaded(q) == q.op = "admin" /\ q.alone => Active(q.by)

\* No session goes on through `p`.
Last(p) == p \notin ended /\ \A x \in Tokens : token[x].from # p

\* A refresh that is alone exchanges a token nobody has exchanged or ended.
RefreshLoaded(q) ==
  q.op = "refresh" =>
    token[q.on].user # None /\ (q.alone /\ q.on \notin crossed => Last(q.on))

\* A token refers to tokens in use, and one with a successor or an end is not live.
TokensOK ==
  /\ \A t \in Tokens :
       /\ token[t].user = None => ~token[t].live /\ token[t].from = None
       /\ token[t].from # None => token[token[t].from].user # None
  /\ \A p \in ended : token[p].user # None
  /\ \A p \in Tokens \ crossed :
       /\ token[p].live => Last(p)
       /\ \A x \in Tokens : token[x].from = p => p \notin ended
       /\ \A x, y \in Tokens : token[x].from = p /\ token[y].from = p => x = y

KeyInv == KeyUses /\ \A q \in Requests : KeyLoaded(request[q])
UserInv == /\ AdminFollowsManager
           /\ \A q \in Requests : StatusLoaded(request[q]) /\ AdminLoaded(request[q])
TokenInv == TokensOK /\ \A q \in Requests : RefreshLoaded(request[q])
TypeInv == TypeOK /\ \A q \in Requests : KindOK(request[q])

IInv == TypeInv /\ KeyInv /\ UserInv /\ TokenInv

--------------------------------------------------------------------------------
LEMMA SameType == TypeOK <=>
  /\ user \in [Users -> UserType]
  /\ members \in [Slugs -> SUBSET Users]
  /\ key \in [Keys -> KeyType]
  /\ token \in [Tokens -> TokenType]
  /\ request \in [Requests -> RequestType]
  /\ served \in Nat
  /\ joined \in [Keys -> Nat]
  /\ ended \subseteq Tokens
  /\ crossed \subseteq Users \cup Keys \cup Tokens
  BY DEF TypeOK, UserType, KeyType, TokenType, RequestType, OnType

LEMMA NextType ==
  ASSUME user' \in [Users -> UserType],
         members' \in [Slugs -> SUBSET Users],
         key' \in [Keys -> KeyType],
         token' \in [Tokens -> TokenType],
         request' \in [Requests -> RequestType],
         served' \in Nat,
         joined' \in [Keys -> Nat],
         ended' \subseteq Tokens,
         crossed' \subseteq Users \cup Keys \cup Tokens
  PROVE  TypeOK'
  BY DEF TypeOK, UserType, KeyType, TokenType, RequestType, OnType

LEMMA Nothing ==
  /\ NoUser \in UserType /\ NoKey \in KeyType /\ NoToken \in TokenType
  /\ NoRequest \in RequestType
<1>1. Unread \in [Users -> Statuses]
  BY DEF Unread, Statuses
<1>2. NoRequest \in RequestType
  BY <1>1 DEF NoRequest, RequestType, OnType, Ops, Statuses
<1>3. QED
  BY <1>2 DEF NoUser, NoKey, NoToken, UserType, KeyType, TokenType, Statuses

LEMMA AskedFields ==
  ASSUME NEW op \in Ops, NEW by \in Users \cup {None}, NEW on \in OnType
  PROVE  /\ Asked(op, by, on) \in RequestType
         /\ Asked(op, by, on).op = op /\ Asked(op, by, on).by = by /\ Asked(op, by, on).on = on
         /\ Asked(op, by, on).alone /\ Asked(op, by, on).revoked = {}
         /\ Asked(op, by, on).targets = {}
<1>1. NoRequest \in RequestType /\ NoRequest.alone = TRUE /\ NoRequest.revoked = {}
      /\ NoRequest.targets = {}
  BY Nothing DEF NoRequest
<1>2. ASSUME NEW q \in RequestType, NEW a, a = [q EXCEPT !.op = op, !.by = by, !.on = on]
      PROVE  /\ a \in RequestType /\ a.op = op /\ a.by = by /\ a.on = on
             /\ a.alone = q.alone /\ a.revoked = q.revoked /\ a.targets = q.targets
  BY <1>2 DEF RequestType
<1> DEFINE a == Asked(op, by, on)
<1>3. a = [NoRequest EXCEPT !.op = op, !.by = by, !.on = on]
  BY DEF Asked
<1> HIDE DEF a
<1>4. /\ a \in RequestType /\ a.op = op /\ a.by = by /\ a.on = on
      /\ a.alone = NoRequest.alone /\ a.revoked = NoRequest.revoked /\ a.targets = NoRequest.targets
  BY ONLY <1>1, <1>2, <1>3
<1>5. QED  BY <1>1, <1>4 DEF a

LEMMA InitInv == Init => IInv
<1> SUFFICES ASSUME Init PROVE IInv
  OBVIOUS
<1>1. TypeOK
  BY Nothing, SameType DEF Init
<1>2. TypeInv
  BY <1>1 DEF Init, TypeInv, KindOK, NoRequest
<1>3. KeyInv
  BY AccountsAssumption DEF Init, KeyInv, KeyUses, KeyLoaded, NoRequest, NoKey
<1>4. UserInv
  BY DEF Init, Users, UserInv, AdminFollowsManager, Active, StatusLoaded, AdminLoaded,
         NoRequest, NoUser
<1>5. TokenInv
  BY AccountsAssumption DEF Init, TokenInv, TokensOK, RefreshLoaded, Last, NoRequest, NoToken
<1>6. QED  BY <1>2, <1>3, <1>4, <1>5 DEF IInv

--------------------------------------------------------------------------------
\* `a` is request q going on, alone only if nothing it reads has been written.
GoesOn(a, q, written) ==
  /\ a.op = request[q].op /\ a.by = request[q].by /\ a.on = request[q].on
  /\ a.to = request[q].to /\ a.targets = request[q].targets /\ a.seen = request[q].seen
  /\ a.revoked = request[q].revoked /\ a.uses = request[q].uses
  /\ a.alone => request[q].alone /\ Reads(q) \cap written = {}

\* After a commit every request is over, goes on, or is a registration's login.
Settles(next, written) ==
  \A q \in Requests :
    /\ next[q] \in RequestType
    /\ \/ next[q].op = "none"
       \/ GoesOn(next[q], q, written)
       \/ next[q].op = "login" /\ next[q].by \in Users

LEMMA FinishedSettles ==
  ASSUME TypeOK, NEW r \in Requests, NEW written
  PROVE  Settles(Finished(r, written), written)
<1> SUFFICES ASSUME NEW q \in Requests
             PROVE  /\ Finished(r, written)[q] \in RequestType
                    /\ \/ Finished(r, written)[q].op = "none"
                       \/ GoesOn(Finished(r, written)[q], q, written)
  BY DEF Settles
<1>1. request[q] \in RequestType
  BY SameType
<1>2. CASE q = r \/ request[q].op = "none"
  BY <1>2, Nothing DEF Finished, NoRequest
<1>3. CASE ~(q = r \/ request[q].op = "none")
  <2> DEFINE b == request[q].alone /\ Reads(q) \cap written = {}
             a == Finished(r, written)[q]
  <2>1. a = [request[q] EXCEPT !.alone = b]
    BY <1>3 DEF Finished
  <2>2. b \in BOOLEAN /\ (b => request[q].alone /\ Reads(q) \cap written = {})
    OBVIOUS
  <2> HIDE DEF a, b
  <2>3. a \in RequestType /\ a.alone = b
        /\ a.op = request[q].op /\ a.by = request[q].by /\ a.on = request[q].on
        /\ a.to = request[q].to /\ a.targets = request[q].targets /\ a.seen = request[q].seen
        /\ a.revoked = request[q].revoked /\ a.uses = request[q].uses
    BY <1>1, <2>1, <2>2 DEF RequestType
  <2>4. a \in RequestType /\ GoesOn(a, q, written)
    BY <2>2, <2>3 DEF GoesOn
  <2>5. QED  BY <2>4 DEF a
<1>4. QED  BY <1>2, <1>3

LEMMA LoginSettles ==
  ASSUME TypeOK, NEW r \in Requests, NEW written, NEW u \in Users
  PROVE  Settles([Finished(r, written) EXCEPT ![r] = Asked("login", u, None)], written)
<1>1. /\ Asked("login", u, None) \in RequestType /\ Asked("login", u, None).op = "login"
      /\ Asked("login", u, None).by = u
  <2>1. "login" \in Ops /\ u \in Users \cup {None} /\ None \in OnType
    BY DEF Ops, OnType
  <2>2. QED  BY <2>1, AskedFields
<1> DEFINE next == [Finished(r, written) EXCEPT ![r] = Asked("login", u, None)]
<1>2. \A q \in Requests :
        next[q] = IF q = r THEN Asked("login", u, None) ELSE Finished(r, written)[q]
  BY DEF Finished
<1> HIDE DEF next
<1>3. Settles(next, written)
  BY <1>1, <1>2, FinishedSettles DEF Settles
<1>4. QED  BY <1>3 DEF next

LEMMA QuietSettles ==
  ASSUME TypeOK
  PROVE  /\ Settles(request, {})
         /\ \A r \in Requests : Settles([request EXCEPT ![r] = NoRequest], {})
<1>1. Settles(request, {})
  BY SameType DEF Settles, GoesOn
<1>2. NoRequest \in RequestType /\ NoRequest.op = "none"
  BY Nothing DEF NoRequest
<1>3. ASSUME NEW r \in Requests
      PROVE  Settles([request EXCEPT ![r] = NoRequest], {})
  <2> DEFINE next == [request EXCEPT ![r] = NoRequest]
  <2>1. \A q \in Requests : next[q] = IF q = r THEN NoRequest ELSE request[q]
    BY SameType
  <2> HIDE DEF next
  <2>2. Settles(next, {})
    BY <1>1, <1>2, <2>1 DEF Settles
  <2>3. QED  BY <2>2 DEF next
<1>4. QED  BY <1>1, <1>3

LEMMA SettledKinds ==
  ASSUME TypeInv, NEW written, Settles(request', written)
  PROVE  \A q \in Requests : KindOK(request'[q])
BY DEF TypeInv, Settles, GoesOn, KindOK

--------------------------------------------------------------------------------
\* What a commit leaves alone stays true.
LEMMA KeysKept ==
  ASSUME KeyInv, NEW written, Settles(request', written),
         key' = key, joined' = joined, crossed \subseteq crossed'
  PROVE  KeyInv'
<1>1. KeyUses'
  BY DEF KeyInv, KeyUses
<1>2. \A q \in Requests : KeyLoaded(request[q])'
  BY DEF KeyInv, Settles, GoesOn, KeyLoaded
<1>3. QED  BY <1>1, <1>2 DEF KeyInv

LEMMA UsersKept ==
  ASSUME UserInv, NEW written, Settles(request', written), user' = user, crossed \subseteq crossed'
  PROVE  UserInv'
<1>1. AdminFollowsManager'
  BY DEF UserInv, AdminFollowsManager, Active
<1>2. \A q \in Requests : StatusLoaded(request[q])' /\ AdminLoaded(request[q])'
  BY DEF UserInv, Settles, GoesOn, StatusLoaded, AdminLoaded, Active, AdminsOf
<1>3. QED  BY <1>1, <1>2 DEF UserInv

LEMMA TokensKept ==
  ASSUME TokenInv, NEW written, Settles(request', written),
         token' = token, ended' = ended, crossed \subseteq crossed'
  PROVE  TokenInv'
<1>1. TokensOK'
  BY DEF TokenInv, TokensOK, Last
<1>2. \A q \in Requests : RefreshLoaded(request[q])'
  BY DEF TokenInv, Settles, GoesOn, RefreshLoaded, Last
<1>3. QED  BY <1>1, <1>2 DEF TokenInv

--------------------------------------------------------------------------------
\* A request that begins.
LEMMA BeginInv ==
  ASSUME IInv, NEW r \in Requests, NEW asked \in RequestType, Begin(r, asked),
         KindOK(asked), KeyLoaded(asked), StatusLoaded(asked), AdminLoaded(asked),
         RefreshLoaded(asked)
  PROVE  IInv'
<1>1. /\ request' = [request EXCEPT ![r] = asked] /\ served' = served + 1
      /\ UNCHANGED <<user, members, key, token, joined, ended, crossed>>
  BY DEF Begin
<1>2. TypeOK
  BY DEF IInv, TypeInv
<1>3. \A q \in Requests : request'[q] = IF q = r THEN asked ELSE request[q]
  BY <1>1, <1>2, SameType
<1>4. TypeOK'
  <2>1. request' \in [Requests -> RequestType] /\ served' \in Nat
    BY <1>1, <1>2, SameType
  <2>2. QED  BY <1>1, <1>2, <2>1, SameType, NextType
<1>5. TypeInv'
  BY <1>3, <1>4 DEF IInv, TypeInv, KindOK
<1>6. KeyInv'
  BY <1>1, <1>3 DEF IInv, KeyInv, KeyUses, KeyLoaded
<1>7. UserInv'
  BY <1>1, <1>3 DEF IInv, UserInv, AdminFollowsManager, StatusLoaded, AdminLoaded, Active, AdminsOf
<1>8. TokenInv'
  BY <1>1, <1>3 DEF IInv, TokenInv, TokensOK, RefreshLoaded, Last
<1>9. QED  BY <1>5, <1>6, <1>7, <1>8 DEF IInv

LEMMA MoreFields ==
  ASSUME NEW q \in RequestType
  PROVE  /\ \A n \in Nat : LET a == [q EXCEPT !.uses = n] IN
              /\ a \in RequestType /\ a.op = q.op /\ a.by = q.by /\ a.on = q.on /\ a.uses = n
         /\ \A ts \in SUBSET Tokens : LET a == [q EXCEPT !.revoked = ts] IN
              a \in RequestType /\ a.op = q.op /\ a.by = q.by /\ a.on = q.on
         /\ \A us \in SUBSET Users : LET a == [q EXCEPT !.targets = us] IN
              /\ a \in RequestType /\ a.op = q.op /\ a.by = q.by /\ a.on = q.on
              /\ a.targets = us
<1>1. ASSUME NEW n \in Nat, NEW a, a = [q EXCEPT !.uses = n]
      PROVE  a \in RequestType /\ a.op = q.op /\ a.by = q.by /\ a.on = q.on /\ a.uses = n
  BY <1>1 DEF RequestType
<1>2. ASSUME NEW ts \in SUBSET Tokens, NEW a, a = [q EXCEPT !.revoked = ts]
      PROVE  a \in RequestType /\ a.op = q.op /\ a.by = q.by /\ a.on = q.on
  BY <1>2 DEF RequestType
<1>3. ASSUME NEW us \in SUBSET Users, NEW a, a = [q EXCEPT !.targets = us]
      PROVE  a \in RequestType /\ a.op = q.op /\ a.by = q.by /\ a.on = q.on /\ a.targets = us
  BY <1>3 DEF RequestType
<1>4. QED  BY <1>1, <1>2, <1>3

LEMMA StatusFields ==
  ASSUME TypeOK, NEW by \in Users \cup {None}, NEW u \in Users, NEW to \in Statuses,
         NEW delete \in BOOLEAN
  PROVE  LET a == StatusChange(by, u, to, delete) IN
         /\ a \in RequestType /\ a.op = "status" /\ a.by = by /\ a.on = u /\ a.to = to
         /\ a.targets = {u} \cup Cascade(u, to)
         /\ \A v \in Users : a.seen[v] = user[v].status
<1>1. /\ Asked("status", by, u) \in RequestType /\ Asked("status", by, u).op = "status"
      /\ Asked("status", by, u).by = by /\ Asked("status", by, u).on = u
  <2>1. "status" \in Ops /\ u \in OnType
    BY DEF Ops, OnType
  <2>2. QED  BY <2>1, AskedFields
<1> DEFINE asked == Asked("status", by, u)
           targets == {u} \cup Cascade(u, to)
           seen == [v \in Users |-> user[v].status]
           revoked == TokensOf(Cascade(u, to) \cup (IF delete THEN {u} ELSE {}))
           a == StatusChange(by, u, to, delete)
<1>2. a = [asked EXCEPT !.to = to, !.targets = targets, !.seen = seen,
                        !.revoked = revoked]
  BY DEF StatusChange
<1>3. targets \in SUBSET Users
  BY DEF Cascade, AdminsOf, Users
<1>4. seen \in [Users -> Statuses] /\ \A v \in Users : seen[v] = user[v].status
  BY SameType DEF UserType
<1>5. revoked \in SUBSET Tokens
  BY DEF TokensOf
<1> HIDE DEF a, asked, targets, seen, revoked
<1>6. /\ a \in RequestType /\ a.op = asked.op /\ a.by = asked.by /\ a.on = asked.on
      /\ a.to = to /\ a.targets = targets /\ a.seen = seen
  <2>1. asked \in RequestType
    BY <1>1 DEF asked
  <2>2. to \in Statuses
    OBVIOUS
  <2>3. QED  BY ONLY <2>1, <2>2, <1>2, <1>3, <1>4, <1>5 DEF RequestType
<1>7. QED  BY <1>1, <1>4, <1>6 DEF a, asked, targets, seen

\* A request of whose rows the invariant says nothing.
LEMMA SimpleBegin ==
  ASSUME IInv, NEW r \in Requests, NEW asked \in RequestType, Begin(r, asked),
         asked.op \in {"account", "login", "logout", "password", "super"},
         asked.op # "logout" => asked.by \in Users,
         asked.op = "super" => asked.by \in Supers
  PROVE  IInv'
BY BeginInv DEF KindOK, KeyLoaded, StatusLoaded, AdminLoaded, RefreshLoaded

LEMMA KeyBegin ==
  ASSUME IInv, NEW r \in Requests, NEW asked \in RequestType, Begin(r, asked),
         asked.op \in {"register", "join"},
         asked.op = "register" => asked.by \in Admins,
         asked.op = "join" => asked.by \in Users /\ asked.on # None,
         asked.on # None => /\ asked.on \in Keys /\ ValidKey(asked.on)
                            /\ asked.uses = Using(asked.on)
  PROVE  IInv'
<1>1. KindOK(asked)
  BY DEF KindOK
<1>2. KeyLoaded(asked)
  BY DEF KeyLoaded, ValidKey, Using
<1>3. QED  BY <1>1, <1>2, BeginInv DEF StatusLoaded, AdminLoaded, RefreshLoaded

LEMMA SimpleBegins ==
  ASSUME IInv, NEW r \in Requests,
         BeginAccount(r) \/ BeginLogin(r) \/ BeginLogout(r) \/ BeginPassword(r) \/ BeginSuper(r)
  PROVE  IInv'
<1>1. \A u \in Users : u \in Users \cup {None} /\ u \in OnType
  BY DEF OnType
<1>2. None \in Users \cup {None} /\ None \in OnType /\ \A a \in Slugs : a \in OnType
  BY DEF OnType
<1>3. CASE BeginAccount(r)
  <2>1. PICK u \in Users, a \in Slugs : Begin(r, Asked("account", u, a))
    BY <1>3 DEF BeginAccount
  <2>2. "account" \in Ops
    BY DEF Ops
  <2> DEFINE asked == Asked("account", u, a)
  <2>3. asked \in RequestType /\ asked.op = "account" /\ asked.by = u
    BY <1>1, <1>2, <2>2, AskedFields
  <2> HIDE DEF asked
  <2>4. QED  BY <2>1, <2>3, SimpleBegin DEF asked
<1>4. CASE BeginLogin(r)
  <2>1. PICK u \in Users : Begin(r, Asked("login", u, None))
    BY <1>4 DEF BeginLogin
  <2>2. "login" \in Ops
    BY DEF Ops
  <2> DEFINE asked == Asked("login", u, None)
  <2>3. asked \in RequestType /\ asked.op = "login" /\ asked.by = u
    BY <1>1, <1>2, <2>2, AskedFields
  <2> HIDE DEF asked
  <2>4. QED  BY <2>1, <2>3, SimpleBegin DEF asked
<1>5. CASE BeginLogout(r)
  <2>1. PICK u \in Users, ts \in SUBSET Tokens :
          Begin(r, [Asked("logout", u, None) EXCEPT !.revoked = ts])
    BY <1>5 DEF BeginLogout, TokensOf
  <2>2. "logout" \in Ops
    BY DEF Ops
  <2> DEFINE first == Asked("logout", u, None)
             asked == [first EXCEPT !.revoked = ts]
  <2>3. first \in RequestType /\ first.op = "logout" /\ first.by = u
    BY <1>1, <1>2, <2>2, AskedFields
  <2> HIDE DEF first
  <2>4. asked \in RequestType /\ asked.op = first.op /\ asked.by = first.by
    BY <2>3, MoreFields
  <2> HIDE DEF asked
  <2>5. QED  BY <2>1, <2>3, <2>4, SimpleBegin DEF asked, first
<1>6. CASE BeginPassword(r)
  <2>1. PICK u \in Users, ts \in SUBSET Tokens :
          Begin(r, [Asked("password", u, None) EXCEPT !.revoked = ts])
    BY <1>6 DEF BeginPassword, TokensOf
  <2>2. "password" \in Ops
    BY DEF Ops
  <2> DEFINE first == Asked("password", u, None)
             asked == [first EXCEPT !.revoked = ts]
  <2>3. first \in RequestType /\ first.op = "password" /\ first.by = u
    BY <1>1, <1>2, <2>2, AskedFields
  <2> HIDE DEF first
  <2>4. asked \in RequestType /\ asked.op = first.op /\ asked.by = first.by
    BY <2>3, MoreFields
  <2> HIDE DEF asked
  <2>5. QED  BY <2>1, <2>3, <2>4, SimpleBegin DEF asked, first
<1>7. CASE BeginSuper(r)
  <2>1. PICK u \in Supers, a \in Slugs : Begin(r, Asked("super", u, a))
    BY <1>7 DEF BeginSuper
  <2>2. "super" \in Ops /\ u \in Users
    BY DEF Ops, Users
  <2> DEFINE asked == Asked("super", u, a)
  <2>3. asked \in RequestType /\ asked.op = "super" /\ asked.by = u
    BY <1>1, <1>2, <2>2, AskedFields
  <2> HIDE DEF asked
  <2>4. QED  BY <2>1, <2>2, <2>3, SimpleBegin DEF asked
<1>8. QED  BY <1>3, <1>4, <1>5, <1>6, <1>7

LEMMA KeyBegins ==
  ASSUME IInv, NEW r \in Requests, BeginRegister(r) \/ BeginJoin(r)
  PROVE  IInv'
<1>1. TypeOK
  BY DEF IInv, TypeInv
<1>2. \A u \in Users, k \in Keys \cup {None} :
        u \in Users \cup {None} /\ k \in OnType /\ Using(k) \in Nat
  BY <1>1, SameType DEF OnType, Using, KeyType
<1>3. CASE BeginRegister(r)
  <2>1. PICK u \in Admins, k \in Keys \cup {None} :
          /\ k # None => ValidKey(k)
          /\ Begin(r, [Asked("register", u, k) EXCEPT !.uses = Using(k)])
    BY <1>3 DEF BeginRegister
  <2>2. "register" \in Ops /\ u \in Users
    BY DEF Ops, Users
  <2> DEFINE first == Asked("register", u, k)
             asked == [first EXCEPT !.uses = Using(k)]
  <2>3. first \in RequestType /\ first.op = "register" /\ first.by = u /\ first.on = k
    BY <1>2, <2>2, AskedFields
  <2> HIDE DEF first
  <2>4. /\ asked \in RequestType /\ asked.op = first.op /\ asked.by = first.by
        /\ asked.on = first.on /\ asked.uses = Using(k)
    BY <1>2, <2>2, <2>3, MoreFields
  <2> HIDE DEF asked
  <2>5. Begin(r, asked)
    BY <2>1 DEF asked, first
  <2>6. QED  BY <2>1, <2>3, <2>4, <2>5, KeyBegin
<1>4. CASE BeginJoin(r)
  <2>1. PICK u \in Users, k \in Keys :
          ValidKey(k) /\ Begin(r, [Asked("join", u, k) EXCEPT !.uses = Using(k)])
    BY <1>4 DEF BeginJoin
  <2>2. "join" \in Ops /\ k \in Keys \cup {None}
    BY DEF Ops
  <2> DEFINE first == Asked("join", u, k)
             asked == [first EXCEPT !.uses = Using(k)]
  <2>3. first \in RequestType /\ first.op = "join" /\ first.by = u /\ first.on = k
    BY <1>2, <2>2, AskedFields
  <2> HIDE DEF first
  <2>4. /\ asked \in RequestType /\ asked.op = first.op /\ asked.by = first.by
        /\ asked.on = first.on /\ asked.uses = Using(k)
    BY <1>2, <2>2, <2>3, MoreFields
  <2> HIDE DEF asked
  <2>5. Begin(r, asked) /\ k # None
    BY <2>1, AccountsAssumption DEF asked, first, ValidKey
  <2>6. QED  BY <2>1, <2>3, <2>4, <2>5, KeyBegin
<1>5. QED  BY <1>3, <1>4

LEMMA RefreshBegin ==
  ASSUME IInv, NEW r \in Requests, BeginRefresh(r)
  PROVE  IInv'
<1>1. PICK t \in Tokens : Exchangeable(t) /\ Begin(r, Asked("refresh", token[t].user, t))
  BY DEF BeginRefresh
<1>2. TypeOK /\ TokensOK
  BY DEF IInv, TypeInv, TokenInv
<1>3. token[t].user \in Users /\ (t \notin crossed => Last(t))
  BY <1>1, <1>2, SameType DEF Exchangeable, TokenType, TokensOK
<1>4. "refresh" \in Ops /\ token[t].user \in Users \cup {None} /\ t \in OnType
  BY <1>3 DEF Ops, OnType
<1> DEFINE asked == Asked("refresh", token[t].user, t)
<1>5. asked \in RequestType /\ asked.op = "refresh" /\ asked.by = token[t].user /\ asked.on = t
  BY <1>4, AskedFields
<1>6. Begin(r, asked)
  BY <1>1
<1> HIDE DEF asked
<1>7. KindOK(asked) /\ RefreshLoaded(asked)
  BY <1>1, <1>3, <1>5 DEF KindOK, RefreshLoaded, Exchangeable
<1>8. QED  BY <1>5, <1>6, <1>7, BeginInv DEF KeyLoaded, StatusLoaded, AdminLoaded

LEMMA AdminBegin ==
  ASSUME IInv, NEW r \in Requests, BeginAdmin(r)
  PROVE  IInv'
<1>1. PICK s \in Supers, u \in Admins, a \in Slugs :
        Active(s) /\ Begin(r, [Asked("admin", s, a) EXCEPT !.targets = {u}])
  BY DEF BeginAdmin, InAccount
<1>2. "admin" \in Ops /\ s \in Users \cup {None} /\ a \in OnType /\ {u} \in SUBSET Users
  BY DEF Ops, OnType, Users
<1> DEFINE first == Asked("admin", s, a)
           asked == [first EXCEPT !.targets = {u}]
<1>3. first \in RequestType /\ first.op = "admin" /\ first.by = s
  BY <1>2, AskedFields
<1> HIDE DEF first
<1>4. /\ asked \in RequestType /\ asked.op = first.op /\ asked.by = first.by
      /\ asked.targets = {u}
  BY <1>2, <1>3, MoreFields
<1> HIDE DEF asked
<1>5. Begin(r, asked)
  BY <1>1 DEF asked, first
<1>6. KindOK(asked) /\ AdminLoaded(asked)
  BY <1>1, <1>3, <1>4 DEF KindOK, AdminLoaded
<1>7. QED  BY <1>3, <1>4, <1>5, <1>6, BeginInv DEF KeyLoaded, StatusLoaded, RefreshLoaded

LEMMA StatusBegin ==
  ASSUME IInv, NEW r \in Requests, BeginSuperStatus(r) \/ BeginAdminStatus(r)
  PROVE  IInv'
<1>1. TypeOK
  BY DEF IInv, TypeInv
<1>2. CASE BeginSuperStatus(r)
  <2>1. PICK s \in Supers, to \in {"ACTIVE", "DISABLED"}, delete \in BOOLEAN :
          Begin(r, StatusChange(None, s, to, delete))
    BY <1>2 DEF BeginSuperStatus
  <2>2. None \in Users \cup {None} /\ s \in Users /\ to \in Statuses
    BY DEF Users, Statuses
  <2> DEFINE asked == StatusChange(None, s, to, delete)
  <2>3. /\ asked \in RequestType /\ asked.op = "status" /\ asked.by = None /\ asked.on = s
        /\ asked.to = to /\ asked.targets = {s} \cup Cascade(s, to)
        /\ \A v \in Users : asked.seen[v] = user[v].status
    BY <1>1, <2>2, StatusFields
  <2> HIDE DEF asked
  <2>4. KindOK(asked)
    BY <2>3 DEF KindOK, Cascade, AdminsOf
  <2>5. StatusLoaded(asked)
    <3>1. \A v \in asked.targets : asked.seen[v] = user[v].status
      BY <2>3 DEF RequestType
    <3>2. QED  BY <2>3, <3>1 DEF StatusLoaded, Cascade
  <2>6. QED  BY <2>1, <2>3, <2>4, <2>5, BeginInv
             DEF asked, KeyLoaded, AdminLoaded, RefreshLoaded
<1>3. CASE BeginAdminStatus(r)
  <2>1. PICK s \in Supers, u \in Admins, to \in {"ACTIVE", "DISABLED"}, delete \in BOOLEAN :
          u \in AdminsOf({s}) /\ Active(s) /\ Begin(r, StatusChange(s, u, to, delete))
    BY <1>3 DEF BeginAdminStatus, AdminsOf
  <2>2. /\ s \in Users \cup {None} /\ u \in Users /\ to \in Statuses
        /\ u \in Admins /\ u \notin Supers /\ user[u].manager = s
    BY <2>1, AccountsAssumption DEF Users, Statuses, AdminsOf
  <2> DEFINE asked == StatusChange(s, u, to, delete)
  <2>3. /\ asked \in RequestType /\ asked.op = "status" /\ asked.by = s /\ asked.on = u
        /\ asked.to = to /\ asked.targets = {u} \cup Cascade(u, to)
        /\ \A v \in Users : asked.seen[v] = user[v].status
    BY <1>1, <2>2, StatusFields
  <2> HIDE DEF asked
  <2>4. asked.targets = {u} /\ s # None
    BY <2>2, <2>3, AccountsAssumption DEF Cascade, Users
  <2>5. KindOK(asked)
    BY <2>2, <2>3, <2>4 DEF KindOK
  <2>6. StatusLoaded(asked)
    BY <2>1, <2>2, <2>3, <2>4 DEF StatusLoaded
  <2>7. QED  BY <2>1, <2>3, <2>5, <2>6, BeginInv
             DEF asked, KeyLoaded, AdminLoaded, RefreshLoaded
<1>4. QED  BY <1>2, <1>3

LEMMA BeginsInv ==
  ASSUME IInv, NEW r \in Requests, BeginRequest(r)
  PROVE  IInv'
BY SimpleBegins, KeyBegins, RefreshBegin, AdminBegin, StatusBegin DEF BeginRequest

--------------------------------------------------------------------------------
\* The use of a key.
LEMMA JoinKeys ==
  ASSUME TypeInv, KeyInv, NEW r \in Requests, NEW k \in Keys, k = request[r].on, NEW u,
         request[r].op \in {"register", "join"}, JoinWrites(r, u, k), Crossing(r, {k}),
         NEW written, k \in written, Settles(request', written)
  PROVE  KeyInv'
<1>1. /\ key \in [Keys -> KeyType] /\ joined \in [Keys -> Nat] /\ request[r] \in RequestType
      /\ k # None /\ MaxUses \in Nat
  BY SameType, AccountsAssumption DEF TypeInv
<1>2. /\ key' = [key EXCEPT ![k].used = request[r].uses + 1]
      /\ joined' = [joined EXCEPT ![k] = @ + 1]
  BY DEF JoinWrites
<1>3. \A x \in Keys :
        /\ key'[x].used = IF x = k THEN request[r].uses + 1 ELSE key[x].used
        /\ joined'[x] = IF x = k THEN joined[x] + 1 ELSE joined[x]
  BY <1>1, <1>2 DEF KeyType
<1>4. request[r].uses < MaxUses /\ (request[r].alone => request[r].uses = key[k].used)
  BY <1>1 DEF KeyInv, KeyLoaded
<1>5. crossed \subseteq crossed' /\ (~request[r].alone => k \in crossed')
  BY DEF Crossing
<1>6. KeyUses'
  <2> SUFFICES ASSUME NEW x \in Keys
               PROVE  key'[x].used <= MaxUses /\ (x \notin crossed' => joined'[x] = key'[x].used)
    BY DEF KeyUses
  <2>1. key[x].used <= MaxUses /\ (x \notin crossed => joined[x] = key[x].used)
    BY DEF KeyInv, KeyUses
  <2>2. request[r].uses \in Nat /\ key[x].used \in Nat /\ joined[x] \in Nat
    BY <1>1 DEF RequestType, KeyType
  <2>3. QED  BY <1>1, <1>3, <1>4, <1>5, <2>1, <2>2
<1>7. \A q \in Requests : KeyLoaded(request[q])'
  <2> SUFFICES ASSUME NEW q \in Requests, request'[q].op \in {"register", "join"},
                      request'[q].on # None
               PROVE  /\ request'[q].uses < MaxUses
                      /\ request'[q].alone => request'[q].uses = key'[request'[q].on].used
    BY DEF KeyLoaded
  <2>1. GoesOn(request'[q], q, written)
    BY DEF Settles
  <2>2. request[q].on \in Keys /\ KeyLoaded(request[q])
    BY <2>1 DEF TypeInv, KindOK, GoesOn, KeyInv
  <2>3. request'[q].alone => request[q].on # k
    BY <1>1, <2>1 DEF GoesOn, Reads
  <2>4. QED  BY <1>3, <2>1, <2>2, <2>3 DEF GoesOn, KeyLoaded
<1>8. QED  BY <1>6, <1>7 DEF KeyInv

--------------------------------------------------------------------------------
\* The requests that remain alone know the users, whatever rows a commit wrote.
LEMMA OthersLoaded ==
  ASSUME TypeInv, UserInv, NEW written, Settles(request', written),
         \A v \in Users \ written : user'[v] = user[v],
         \A w \in Admins : user'[w].manager \in {user[w].manager} \cup written
  PROVE  \A q \in Requests : StatusLoaded(request[q])' /\ AdminLoaded(request[q])'
<1>1. /\ Admins \subseteq Users /\ Supers \subseteq Users /\ None \notin Users
      /\ \A q \in Requests : request[q] \in RequestType
  BY SameType, AccountsAssumption DEF TypeInv, Users
<1> SUFFICES ASSUME NEW q \in Requests, request'[q].op \in {"status", "admin"},
                    request'[q].alone
             PROVE  StatusLoaded(request[q])' /\ AdminLoaded(request[q])'
  BY DEF StatusLoaded, AdminLoaded
<1>2. GoesOn(request'[q], q, written)
  BY DEF Settles
<1> DEFINE a == request[q]
<1>3. StatusLoaded(a) /\ AdminLoaded(a) /\ KindOK(a) /\ a.alone
  BY <1>2 DEF UserInv, TypeInv, GoesOn
<1>4. /\ a.by # None => a.by \notin written
      /\ a.on # None => a.on \notin written
      /\ a.targets \cap written = {} /\ a.targets \subseteq Users
  BY <1>1, <1>2 DEF GoesOn, Reads, RequestType
<1>5. CASE a.op = "status"
  <2>1. \A v \in a.targets : a.seen[v] = user'[v].status
    BY <1>3, <1>4, <1>5 DEF StatusLoaded
  <2>2. a.by = None => /\ a.on \in a.targets
                       /\ a.to = "ACTIVE" => a.targets = {a.on}
                       /\ a.to # "ACTIVE" =>
                            {w \in Admins : user'[w].manager \in {a.on}} \subseteq a.targets
    BY <1>3, <1>4, <1>5 DEF StatusLoaded, AdminsOf
  <2>3. a.by # None => user'[a.on].manager = a.by /\ user'[a.by].status = "ACTIVE"
    BY <1>1, <1>3, <1>4, <1>5 DEF StatusLoaded, KindOK, Active
  <2>4. QED  BY <1>2, <1>5, <2>1, <2>2, <2>3
             DEF StatusLoaded, AdminLoaded, GoesOn, Active, AdminsOf
<1>6. CASE a.op = "admin"
  <2>1. user'[a.by].status = "ACTIVE"
    BY <1>1, <1>3, <1>4, <1>6 DEF AdminLoaded, KindOK, Active
  <2>2. QED  BY <1>2, <1>6, <2>1 DEF StatusLoaded, AdminLoaded, GoesOn, Active
<1>7. QED  BY <1>2, <1>5, <1>6 DEF GoesOn

\* A user who registers, and a new super admin.
LEMMA NewStatus ==
  ASSUME TypeInv, UserInv, NEW u \in Users, user[u] = NoUser, NEW s \in Statuses,
         user' = [user EXCEPT ![u].status = s], crossed \subseteq crossed',
         NEW written, u \in written, Settles(request', written)
  PROVE  UserInv'
<1>1. user \in [Users -> UserType] /\ Admins \subseteq Users
  BY SameType DEF TypeInv, Users
<1>2. \A v \in Users : /\ user'[v].manager = user[v].manager
                       /\ user'[v].status = IF v = u THEN s ELSE user[v].status
                       /\ v # u => user'[v] = user[v]
  BY <1>1 DEF UserType
<1>3. user[u].manager = None /\ ~Active(u)
  BY DEF NoUser, Active
<1>4. AdminFollowsManager'
  <2> SUFFICES ASSUME NEW v \in Admins \ crossed', user[v].manager # None, v # u, Active(v)
               PROVE  user'[user[v].manager].status = "ACTIVE"
    BY <1>1, <1>2, <1>3 DEF AdminFollowsManager, Active
  <2>1. user[v].manager \in Users /\ Active(user[v].manager)
    BY <1>1 DEF UserInv, AdminFollowsManager, UserType, Users
  <2>2. QED  BY <1>2, <1>3, <2>1 DEF Active
<1>5. \A q \in Requests : StatusLoaded(request[q])' /\ AdminLoaded(request[q])'
  BY <1>1, <1>2, OthersLoaded
<1>6. QED  BY <1>4, <1>5 DEF UserInv

\* The new admin of a super admin.
LEMMA NewAdmin ==
  ASSUME TypeInv, UserInv, NEW r \in Requests, request[r].op = "admin",
         NEW u \in request[r].targets, NEW status \in Statuses,
         user' = [user EXCEPT ![u] = [status |-> status, manager |-> request[r].by]],
         Crossing(r, {u}),
         NEW written, Settles(request', written), request[r].by \in written, u \in written
  PROVE  UserInv'
<1>1. /\ user \in [Users -> UserType] /\ Admins \subseteq Users /\ Supers \subseteq Users
      /\ None \notin Users /\ Supers \cap Admins = {}
  BY SameType, AccountsAssumption DEF TypeInv, Users
<1> DEFINE s == request[r].by
<1>2. s \in Supers /\ request[r].targets \subseteq Admins /\ (request[r].alone => Active(s))
  BY DEF TypeInv, KindOK, UserInv, AdminLoaded
<1>3. user' = [user EXCEPT ![u] = [status |-> status, manager |-> s]]
  OBVIOUS
<1>4. crossed \subseteq crossed' /\ (u \in crossed' \/ request[r].alone)
  BY DEF Crossing
<1>5. /\ u \in Admins /\ user'[u].manager = s /\ u \in written /\ s \in written
      /\ \A v \in Users \ {u} : user'[v] = user[v]
  BY <1>1, <1>2, <1>3
<1>6. AdminFollowsManager'
  <2> SUFFICES ASSUME NEW v \in Admins \ crossed', user'[v].manager # None,
                      user'[v].status = "ACTIVE"
               PROVE  user'[user'[v].manager].status = "ACTIVE"
    BY DEF AdminFollowsManager, Active
  <2>1. CASE v = u
    BY <1>1, <1>2, <1>4, <1>5, <2>1 DEF Active
  <2>2. CASE v # u
    <3>1. user'[v] = user[v] /\ user[v].manager \in Supers
      BY <1>1, <1>5, <2>2 DEF UserType
    <3>2. user[user[v].manager].status = "ACTIVE"
      BY <1>4, <3>1 DEF UserInv, AdminFollowsManager, Active
    <3>3. QED  BY <1>1, <1>5, <3>1, <3>2
  <2>3. QED  BY <2>1, <2>2
<1>7. \A q \in Requests : StatusLoaded(request[q])' /\ AdminLoaded(request[q])'
  <2>1. \A v \in Users \ written : user'[v] = user[v]
    BY <1>5
  <2>2. \A w \in Admins : user'[w].manager \in {user[w].manager} \cup written
    BY <1>1, <1>5
  <2>3. QED  BY <2>1, <2>2, OthersLoaded
<1>8. QED  BY <1>6, <1>7 DEF UserInv

\* A change of status and its cascade.
LEMMA ChangedStatus ==
  ASSUME TypeInv, UserInv, NEW r \in Requests, CommitStatus(r),
         NEW written, Settles(request', written), request[r].targets \subseteq written
  PROVE  UserInv'
<1>1. /\ user \in [Users -> UserType] /\ Admins \subseteq Users /\ Supers \subseteq Users
      /\ None \notin Users /\ Supers \cap Admins = {} /\ request[r] \in RequestType
  BY SameType, AccountsAssumption DEF TypeInv, Users
<1> DEFINE a == request[r]
<1>2. /\ KindOK(a) /\ StatusLoaded(a) /\ a.op = "status" /\ a.targets \subseteq Users
  BY <1>1 DEF TypeInv, UserInv, CommitStatus, IsOp, RequestType
<1>3. /\ user' = [u \in Users |-> IF u \in a.targets
                     THEN [user[u] EXCEPT !.status = Assigned(a.to, a.seen[u], @)] ELSE user[u]]
      /\ Crossing(r, a.targets \cup AdminsOf(a.targets))
  BY DEF CommitStatus
<1>4. \A v \in Users :
        /\ user'[v].manager = user[v].manager
        /\ v \notin a.targets => user'[v] = user[v]
        /\ v \in a.targets /\ a.alone => user'[v].status = a.to
  BY <1>1, <1>2, <1>3 DEF UserType, Assigned, StatusLoaded
<1>5. /\ crossed \subseteq crossed'
      /\ ~a.alone => a.targets \cup AdminsOf(a.targets) \subseteq crossed'
  BY <1>3 DEF Crossing
<1>6. AdminFollowsManager'
  <2> SUFFICES ASSUME NEW v \in Admins \ crossed', user[v].manager # None,
                      user'[v].status = "ACTIVE"
               PROVE  user'[user[v].manager].status = "ACTIVE"
    BY <1>1, <1>4 DEF AdminFollowsManager, Active
  <2> DEFINE m == user[v].manager
  <2>1. m \in Supers /\ m \in Users /\ m \notin Admins /\ v \in Users
    BY <1>1 DEF UserType
  <2>2. user[v].status = "ACTIVE" => user[m].status = "ACTIVE"
    BY <1>5 DEF UserInv, AdminFollowsManager, Active
  <2>3. CASE ~a.alone
    <3>1. v \notin a.targets /\ m \notin a.targets
      BY <1>5, <2>3 DEF AdminsOf
    <3>2. QED  BY <1>4, <2>1, <2>2, <3>1
  <2>4. CASE a.alone /\ a.by = None
    <3>1. a.on \in Supers /\ a.targets \subseteq {a.on} \cup Admins /\ a.on \in a.targets
      BY <1>1, <1>2, <2>4 DEF KindOK, StatusLoaded
    <3>2. CASE a.to = "ACTIVE"
      <4>1. a.targets = {a.on} /\ v \notin a.targets
        BY <1>1, <1>2, <2>4, <3>1, <3>2 DEF StatusLoaded
      <4>2. user[m].status = "ACTIVE"
        BY <1>4, <2>1, <2>2, <4>1
      <4>3. QED  BY <1>4, <2>1, <2>4, <3>2, <4>2
    <3>3. CASE a.to # "ACTIVE"
      <4>1. AdminsOf({a.on}) \subseteq a.targets /\ v \notin a.targets
        BY <1>2, <1>4, <2>1, <2>4, <3>3 DEF StatusLoaded
      <4>2. m # a.on /\ m \notin a.targets
        BY <2>1, <3>1, <4>1 DEF AdminsOf
      <4>3. QED  BY <1>4, <2>1, <2>2, <4>1, <4>2
    <3>4. QED  BY <3>2, <3>3
  <2>5. CASE a.alone /\ a.by # None
    <3>1. /\ a.by \in Supers /\ a.on \in Admins /\ a.targets = {a.on}
          /\ user[a.on].manager = a.by /\ user[a.by].status = "ACTIVE"
      BY <1>2, <2>5 DEF KindOK, StatusLoaded, Active
    <3>2. m \notin a.targets
      BY <2>1, <3>1
    <3>3. user[m].status = "ACTIVE"
      BY <1>4, <2>1, <2>2, <3>1
    <3>4. QED  BY <1>4, <2>1, <3>2, <3>3
  <2>6. QED  BY <2>3, <2>4, <2>5
<1>7. \A q \in Requests : StatusLoaded(request[q])' /\ AdminLoaded(request[q])'
  <2>1. \A v \in Users \ written : user'[v] = user[v]
    BY <1>4
  <2>2. \A w \in Admins : user'[w].manager \in {user[w].manager} \cup written
    BY <1>1, <1>4
  <2>3. QED  BY <2>1, <2>2, OthersLoaded
<1>8. QED  BY <1>6, <1>7 DEF UserInv

--------------------------------------------------------------------------------
\* Tokens are revoked, and at most one is issued, which may continue one of them.
Steps(ts, from, new) ==
  /\ \A t \in Tokens :
       \/ /\ token'[t].user = token[t].user /\ token'[t].from = token[t].from
          /\ token'[t].live => token[t].live /\ t \notin ts
       \/ /\ t = new /\ token[t] = NoToken
          /\ token'[t].user \in Users /\ token'[t].from = from
  /\ ended \subseteq ended' /\ \A t \in ended' \ ended : t \in ts /\ t # from /\ token[t].live
  /\ from # None =>
       from \in ts /\ token[from].user # None /\ (from \notin crossed' => Last(from))

LEMMA TokenStep ==
  ASSUME TypeInv, TokenInv, NEW ts \in SUBSET Tokens, NEW from, NEW new, Steps(ts, from, new),
         crossed \subseteq crossed',
         NEW written, ts \subseteq written, Settles(request', written)
  PROVE  TokenInv'
<1>0. /\ \A t \in Tokens :
           \/ /\ token'[t].user = token[t].user /\ token'[t].from = token[t].from
              /\ token'[t].live => token[t].live /\ t \notin ts
           \/ /\ t = new /\ token[t] = NoToken
              /\ token'[t].user \in Users /\ token'[t].from = from
      /\ ended \subseteq ended' /\ \A t \in ended' \ ended : t \in ts /\ t # from /\ token[t].live
      /\ from # None =>
           from \in ts /\ token[from].user # None /\ (from \notin crossed' => Last(from))
  BY DEF Steps
<1>1. token \in [Tokens -> TokenType] /\ None \notin Users /\ None \notin Tokens /\ TokensOK
      /\ ended \subseteq Tokens
  BY SameType, AccountsAssumption DEF TypeInv, TokenInv
<1>2. \A t \in Tokens : token[t] = NoToken => token[t].user = None
  BY DEF NoToken
<1>3. \A t \in Tokens : token[t].user # None => token'[t].user # None
  BY <1>0, <1>1, <1>2
<1>4. \A t \in Tokens : /\ token'[t].user = None => ~token'[t].live /\ token'[t].from = None
                        /\ token'[t].from # None => token'[token'[t].from].user # None
  <2> SUFFICES ASSUME NEW t \in Tokens
               PROVE  /\ token'[t].user = None => ~token'[t].live /\ token'[t].from = None
                      /\ token'[t].from # None => token'[token'[t].from].user # None
    OBVIOUS
  <2>1. CASE /\ token'[t].user = token[t].user /\ token'[t].from = token[t].from
             /\ token'[t].live => token[t].live /\ t \notin ts
    <3>1. token[t].from # None => token[t].from \in Tokens /\ token[token[t].from].user # None
      BY <1>0, <1>1 DEF TokensOK, TokenType
    <3>2. QED  BY <1>0, <1>1, <1>3, <2>1, <3>1 DEF TokensOK
  <2>2. CASE token'[t].user \in Users /\ token'[t].from = from
    BY <1>0, <1>1, <1>3, <2>2
  <2>3. QED  BY <1>0, <2>1, <2>2
<1>5. \A p \in ended' : token'[p].user # None
  BY <1>0, <1>1, <1>3 DEF TokensOK
<1>6. ASSUME NEW p \in Tokens, p \notin ts, Last(p)
      PROVE  Last(p)'
  <2>1. p \notin ended'
    BY <1>0, <1>6 DEF Last
  <2>2. ASSUME NEW x \in Tokens, token'[x].from = p PROVE FALSE
    BY <1>0, <1>1, <1>6, <2>2 DEF Last
  <2>3. QED  BY <1>0, <2>1, <2>2 DEF Last
<1>7. ASSUME NEW p \in Tokens \ crossed', token'[p].live
      PROVE  Last(p)'
  <2>1. CASE token[p].live /\ p \notin ts
    BY <1>0, <1>1, <1>6, <1>7, <2>1 DEF TokensOK
  <2>2. CASE token[p] = NoToken
    <3>1. token[p].user = None /\ ~token[p].live
      BY <1>0, <2>2 DEF NoToken
    <3>2. p \notin ended'
      BY <1>0, <1>1, <3>1 DEF TokensOK
    <3>3. ASSUME NEW x \in Tokens, token'[x].from = p PROVE FALSE
      BY <1>0, <1>1, <3>1, <3>3 DEF TokensOK
    <3>4. QED  BY <3>2, <3>3 DEF Last
  <2>3. QED  BY <1>0, <1>7, <2>1, <2>2
<1>8. ASSUME NEW p \in Tokens \ crossed', NEW x \in Tokens, token'[x].from = p
      PROVE  p \notin ended'
  <2>1. CASE token[x].from = p
    BY <1>0, <1>1, <1>8, <2>1 DEF TokensOK, Last
  <2>2. CASE from = p
    BY <1>0, <1>1, <1>8, <2>2 DEF Last
  <2>3. QED  BY <1>0, <1>8, <2>1, <2>2
<1>9. ASSUME NEW p \in Tokens \ crossed', NEW x \in Tokens, NEW y \in Tokens,
              token'[x].from = p, token'[y].from = p
       PROVE  x = y
  <2>1. (token[x].from = p \/ (x = new /\ from = p)) /\ (token[y].from = p \/ (y = new /\ from = p))
    BY <1>0, <1>9
  <2>2. from = p => \A z \in Tokens : token[z].from # p
    BY <1>0, <1>1 DEF Last
  <2>3. QED  BY <1>0, <1>1, <2>1, <2>2 DEF TokensOK
<1>10. TokensOK'
  BY <1>0, <1>4, <1>5, <1>7, <1>8, <1>9 DEF TokensOK
<1>11. ASSUME NEW q \in Requests, request'[q].op = "refresh"
       PROVE  RefreshLoaded(request[q])'
  <2>1. GoesOn(request'[q], q, written)
    BY <1>0, <1>11 DEF Settles
  <2>2. RefreshLoaded(request[q]) /\ request[q].on \in Tokens /\ request[q].op = "refresh"
    BY <1>0, <1>11, <2>1 DEF TokenInv, TypeInv, KindOK, GoesOn
  <2>3. request'[q].alone => request[q].alone /\ request[q].on \notin ts
    BY <1>0, <1>1, <2>1, <2>2 DEF GoesOn, Reads
  <2>4. token'[request[q].on].user # None
    BY <1>0, <1>3, <2>2 DEF RefreshLoaded
  <2>5. ASSUME request'[q].alone, request[q].on \notin crossed'
        PROVE  request[q].on \notin ended' /\ \A x \in Tokens : token'[x].from # request[q].on
    <3>1. Last(request[q].on)
      BY <1>0, <2>2, <2>3, <2>5 DEF RefreshLoaded
    <3>2. QED  BY <1>0, <1>1, <2>2, <2>3, <2>5, <3>1 DEF Last
  <2>6. request'[q].on = request[q].on
    BY <1>0, <2>1 DEF GoesOn
  <2>7. QED  BY <1>0, <2>4, <2>5, <2>6 DEF RefreshLoaded, Last
<1>12. QED  BY <1>0, <1>10, <1>11 DEF TokenInv, RefreshLoaded

LEMMA RevokedFields ==
  ASSUME TypeInv, NEW ts
  PROVE  /\ Revoked(ts) \in [Tokens -> TokenType]
         /\ \A t \in Tokens : /\ Revoked(ts)[t].user = token[t].user
                              /\ Revoked(ts)[t].from = token[t].from
                              /\ Revoked(ts)[t].live => token[t].live /\ t \notin ts
<1>1. token \in [Tokens -> TokenType]
  BY SameType DEF TypeInv
<1>2. ASSUME NEW t \in Tokens
      PROVE  LET new == [token[t] EXCEPT !.live = @ /\ t \notin ts] IN
             /\ new \in TokenType /\ new.user = token[t].user /\ new.from = token[t].from
             /\ new.live => token[t].live /\ t \notin ts
  <2> DEFINE live == token[t].live /\ t \notin ts
             new == [token[t] EXCEPT !.live = live]
  <2>1. live \in BOOLEAN /\ (live => token[t].live /\ t \notin ts)
    OBVIOUS
  <2> HIDE DEF live
  <2>2. /\ new \in TokenType /\ new.user = token[t].user /\ new.from = token[t].from
        /\ new.live = live
    BY <1>1, <2>1 DEF TokenType
  <2>3. QED  BY <2>1, <2>2 DEF live
<1>3. QED  BY <1>2 DEF Revoked

\* What _issue_tokens leaves.
LEMMA IssuedFields ==
  ASSUME TypeInv, NEW u \in Users, NEW from \in Tokens \cup {None}, NEW ts, Issue(u, from, ts)
  PROVE  /\ token' \in [Tokens -> TokenType]
         /\ \E new \in Tokens : \A t \in Tokens :
              \/ /\ token'[t].user = token[t].user /\ token'[t].from = token[t].from
                 /\ token'[t].live => token[t].live /\ t \notin ts
              \/ /\ t = new /\ token[t] = NoToken
                 /\ token'[t].user \in Users /\ token'[t].from = from
<1>1. PICK new \in Tokens :
        /\ token[new] = NoToken
        /\ token' = [Revoked(ts) EXCEPT ![new] = [user |-> u, live |-> TRUE, from |-> from]]
  BY DEF Issue, Unused
<1>2. [user |-> u, live |-> TRUE, from |-> from] \in TokenType
  BY DEF TokenType
<1>3. QED  BY <1>1, <1>2, RevokedFields

--------------------------------------------------------------------------------
\* A commit whose effect on each part is known.
LEMMA CommitInv ==
  ASSUME IInv, NEW written, Settles(request', written), request' \in [Requests -> RequestType],
         served' = served,
         user' \in [Users -> UserType], members' \in [Slugs -> SUBSET Users],
         key' \in [Keys -> KeyType], token' \in [Tokens -> TokenType],
         joined' \in [Keys -> Nat], ended' \subseteq Tokens,
         crossed \subseteq crossed', crossed' \subseteq Users \cup Keys \cup Tokens,
         KeyInv' \/ (key' = key /\ joined' = joined),
         UserInv' \/ user' = user,
         TokenInv' \/ (token' = token /\ ended' = ended)
  PROVE  IInv'
<1>1. TypeOK'
  <2>1. served' \in Nat
    BY SameType DEF IInv, TypeInv
  <2>2. QED  BY <2>1, NextType
<1>2. TypeInv'
  BY <1>1, SettledKinds DEF IInv, TypeInv
<1>3. KeyInv'
  BY KeysKept DEF IInv
<1>4. UserInv'
  BY UsersKept DEF IInv
<1>5. TokenInv'
  BY TokensKept DEF IInv
<1>6. QED  BY <1>2, <1>3, <1>4, <1>5 DEF IInv

LEMMA Finishing ==
  ASSUME TypeInv, NEW r \in Requests, NEW written, request' = Finished(r, written)
  PROVE  Settles(request', written) /\ request' \in [Requests -> RequestType]
<1>1. Settles(request', written)
  BY FinishedSettles DEF TypeInv
<1>2. request' \in [Requests -> RequestType]
  BY <1>1 DEF Settles, Finished
<1>3. QED  BY <1>1, <1>2

LEMMA LogsIn ==
  ASSUME TypeInv, NEW r \in Requests, NEW written, NEW u \in Users,
         request' = [Finished(r, written) EXCEPT ![r] = Asked("login", u, None)]
  PROVE  Settles(request', written) /\ request' \in [Requests -> RequestType]
<1>1. Settles(request', written)
  BY LoginSettles DEF TypeInv
<1>2. request' \in [Requests -> RequestType]
  BY <1>1 DEF Settles, Finished
<1>3. QED  BY <1>1, <1>2

\* The steps that touch neither users, keys' counts nor sessions.
LEMMA CalmInv ==
  ASSUME IInv,
         \/ \E r \in Requests : CommitAccount(r) \/ RequestFails(r)
         \/ \E k \in Keys : CreateKey(k) \/ KeyExpires(k)
         \/ \E t \in Tokens : TokenExpires(t)
  PROVE  IInv'
<1>1. TypeInv /\ KeyInv /\ TokenInv /\ TypeOK
  BY DEF IInv, TypeInv
<1>2. ASSUME NEW r \in Requests, CommitAccount(r) PROVE IInv'
  <2>1. /\ request' = Finished(r, {request[r].on}) /\ request[r].by \in Users
        /\ members' = [members EXCEPT ![request[r].on] = {request[r].by}]
        /\ UNCHANGED <<served, user, key, token, joined, ended, crossed>>
    BY <1>1, <1>2 DEF CommitAccount, IsOp, TypeInv, KindOK
  <2>2. members' \in [Slugs -> SUBSET Users]
    BY <1>1, <2>1, SameType
  <2>3. QED  BY <1>1, <2>1, <2>2, Finishing, CommitInv, SameType
<1>3. ASSUME NEW r \in Requests, RequestFails(r) PROVE IInv'
  <2>1. /\ request' = [request EXCEPT ![r] = NoRequest]
        /\ UNCHANGED <<served, user, members, key, token, joined, ended, crossed>>
    BY <1>3 DEF RequestFails
  <2>2. Settles(request', {}) /\ request' \in [Requests -> RequestType]
    BY <1>1, <2>1, QuietSettles, Nothing, SameType
  <2>3. QED  BY <1>1, <2>1, <2>2, CommitInv, SameType
<1>4. ASSUME NEW k \in Keys, CreateKey(k) \/ KeyExpires(k) PROVE IInv'
  <2>1. /\ UNCHANGED <<served, user, members, token, request, joined, ended, crossed>>
        /\ \/ /\ key[k] = NoKey
              /\ \E a \in Slugs : key' = [key EXCEPT ![k] = [of |-> a, open |-> TRUE, used |-> 0]]
           \/ key' = [key EXCEPT ![k].open = FALSE]
    BY <1>4 DEF CreateKey, KeyExpires
  <2>2. key' \in [Keys -> KeyType] /\ \A x \in Keys : key'[x].used = key[x].used
    <3>1. key \in [Keys -> KeyType]
      BY <1>1, SameType
    <3>2. CASE /\ key[k] = NoKey
               /\ \E a \in Slugs : key' = [key EXCEPT ![k] = [of |-> a, open |-> TRUE, used |-> 0]]
      <4>1. PICK a \in Slugs : key' = [key EXCEPT ![k] = [of |-> a, open |-> TRUE, used |-> 0]]
        BY <3>2
      <4>2. key[k].used = 0 /\ [of |-> a, open |-> TRUE, used |-> 0] \in KeyType
        BY <3>2 DEF NoKey, KeyType
      <4>3. QED  BY <3>1, <4>1, <4>2
    <3>3. CASE key' = [key EXCEPT ![k].open = FALSE]
      BY <3>1, <3>3 DEF KeyType
    <3>4. QED  BY <2>1, <3>2, <3>3
  <2>3. Settles(request', {}) /\ request' \in [Requests -> RequestType]
    BY <1>1, <2>1, QuietSettles, SameType
  <2>4. KeyInv'
    BY <1>1, <2>1, <2>2 DEF KeyInv, KeyUses, KeyLoaded, TypeInv, KindOK
  <2>5. QED  BY <1>1, <2>1, <2>2, <2>3, <2>4, CommitInv, SameType
<1>5. ASSUME NEW t \in Tokens, TokenExpires(t) PROVE IInv'
  <2>1. /\ UNCHANGED <<served, user, members, key, request, joined, ended, crossed>>
        /\ token' = [token EXCEPT ![t].live = FALSE]
    BY <1>5 DEF TokenExpires
  <2>2. token' \in [Tokens -> TokenType]
        /\ \A x \in Tokens : /\ token'[x].user = token[x].user /\ token'[x].from = token[x].from
                             /\ token'[x].live => token[x].live
    BY <1>1, <2>1, SameType DEF TokenType
  <2>3. Settles(request', {}) /\ request' \in [Requests -> RequestType]
    BY <1>1, <2>1, QuietSettles, SameType
  <2>4. Steps({}, None, None)
    BY <2>1, <2>2 DEF Steps
  <2>5. TokenInv'
    BY <1>1, <2>1, <2>3, <2>4, TokenStep
  <2>6. QED  BY <1>1, <2>1, <2>2, <2>3, <2>5, CommitInv, SameType
<1>6. QED  BY <1>2, <1>3, <1>4, <1>5

--------------------------------------------------------------------------------
(***************************************************************************)
(* Each commit.                                                            *)
(***************************************************************************)
\* The types JoinWrites keeps.
LEMMA JoinTypes ==
  ASSUME TypeInv, NEW r \in Requests, NEW u \in Users, NEW k \in Keys, JoinWrites(r, u, k),
         Crossing(r, {k})
  PROVE  /\ members' \in [Slugs -> SUBSET Users] /\ key' \in [Keys -> KeyType]
         /\ joined' \in [Keys -> Nat]
         /\ crossed \subseteq crossed' /\ crossed' \subseteq Users \cup Keys \cup Tokens
<1>1. /\ members \in [Slugs -> SUBSET Users] /\ key \in [Keys -> KeyType]
      /\ joined \in [Keys -> Nat] /\ crossed \subseteq Users \cup Keys \cup Tokens
      /\ request[r] \in RequestType
  BY SameType DEF TypeInv
<1>2. members' \in [Slugs -> SUBSET Users]
  BY <1>1 DEF JoinWrites
<1>3. key' \in [Keys -> KeyType]
  <2>1. request[r].uses + 1 \in Nat
    BY <1>1 DEF RequestType
  <2>2. [key[k] EXCEPT !.used = request[r].uses + 1] \in KeyType
    BY <1>1, <2>1 DEF KeyType
  <2>3. key' = [key EXCEPT ![k] = [key[k] EXCEPT !.used = request[r].uses + 1]]
    BY DEF JoinWrites
  <2>4. QED  BY <1>1, <2>2, <2>3
<1>4. joined' \in [Keys -> Nat]
  BY <1>1 DEF JoinWrites
<1>5. crossed \subseteq crossed' /\ crossed' \subseteq Users \cup Keys \cup Tokens
  BY <1>1 DEF Crossing
<1>6. QED  BY <1>2, <1>3, <1>4, <1>5

LEMMA JoinInv ==
  ASSUME IInv, NEW r \in Requests, CommitJoin(r)
  PROVE  IInv'
<1> DEFINE u == request[r].by  k == request[r].on
<1>1. TypeInv /\ KeyInv /\ TypeOK
  BY DEF IInv, TypeInv
<1>2. /\ request[r].op = "join" /\ u \in Users /\ k \in Keys
      /\ JoinWrites(r, u, k) /\ Crossing(r, {k}) /\ request' = Finished(r, {k})
      /\ UNCHANGED <<served, user, token, ended>>
  BY <1>1 DEF CommitJoin, IsOp, TypeInv, KindOK
<1>3. Settles(request', {k}) /\ request' \in [Requests -> RequestType]
  BY <1>1, <1>2, Finishing
<1>4. KeyInv'
  BY <1>1, <1>2, <1>3, JoinKeys
<1>5. /\ members' \in [Slugs -> SUBSET Users] /\ key' \in [Keys -> KeyType]
      /\ joined' \in [Keys -> Nat]
      /\ crossed \subseteq crossed' /\ crossed' \subseteq Users \cup Keys \cup Tokens
  BY <1>1, <1>2, JoinTypes
<1>6. QED  BY <1>1, <1>2, <1>3, <1>4, <1>5, CommitInv, SameType

\* The user who registers.
LEMMA RegisteredType ==
  ASSUME TypeInv, NEW u \in Users, NEW s \in Statuses
  PROVE  [user EXCEPT ![u].status = s] \in [Users -> UserType]
BY SameType DEF TypeInv, UserType

LEMMA RegisterJoinInv ==
  ASSUME IInv, NEW r \in Requests, CommitRegisterJoin(r)
  PROVE  IInv'
<1> DEFINE u == request[r].by  k == request[r].on
<1>1. TypeInv /\ KeyInv /\ UserInv /\ TypeOK
  BY DEF IInv, TypeInv
<1>2. /\ request[r].op = "register" /\ u \in Users /\ k \in Keys
      /\ user[u] = NoUser /\ user' = [user EXCEPT ![u].status = "ACTIVE"]
      /\ JoinWrites(r, u, k) /\ Crossing(r, {k})
      /\ request' = [Finished(r, {u, k}) EXCEPT ![r] = Asked("login", u, None)]
      /\ UNCHANGED <<served, token, ended>>
  BY <1>1 DEF CommitRegisterJoin, Registered, IsOp, TypeInv, KindOK, Users
<1>3. Settles(request', {u, k}) /\ request' \in [Requests -> RequestType]
  BY <1>1, <1>2, LogsIn
<1>4. KeyInv'
  <2> DEFINE written == {u, k}
  <2>1. k \in written /\ Settles(request', written)
    BY <1>3
  <2>2. /\ k = request[r].on /\ request[r].op \in {"register", "join"}
        /\ JoinWrites(r, u, k) /\ Crossing(r, {k}) /\ k \in Keys
    BY <1>2
  <2> HIDE DEF written, u, k
  <2>3. QED  BY <1>1, <2>1, <2>2, JoinKeys
<1>5. /\ members' \in [Slugs -> SUBSET Users] /\ key' \in [Keys -> KeyType]
      /\ joined' \in [Keys -> Nat]
      /\ crossed \subseteq crossed' /\ crossed' \subseteq Users \cup Keys \cup Tokens
  BY <1>1, <1>2, JoinTypes
<1>6. "ACTIVE" \in Statuses
  BY DEF Statuses
<1>7. user' \in [Users -> UserType]
  BY <1>1, <1>2, <1>6, RegisteredType
<1>8. UserInv'
  <2> DEFINE written == {u, k}
  <2>1. u \in written /\ Settles(request', written)
    BY <1>3
  <2>2. user' = [user EXCEPT ![u].status = "ACTIVE"] /\ user[u] = NoUser /\ u \in Users
    BY <1>2
  <2> HIDE DEF written
  <2>3. QED  BY <1>1, <1>5, <1>6, <2>1, <2>2, NewStatus
<1>9. QED  BY <1>1, <1>2, <1>3, <1>4, <1>5, <1>7, <1>8, CommitInv, SameType

LEMMA SuperInv ==
  ASSUME IInv, NEW r \in Requests, CommitSuper(r)
  PROVE  IInv'
<1> DEFINE u == request[r].by  a == request[r].on
<1>1. TypeInv /\ UserInv /\ TypeOK
  BY DEF IInv, TypeInv
<1>2. PICK status \in {"ACTIVE", "DISABLED"} : user' = [user EXCEPT ![u].status = status]
  BY DEF CommitSuper
<1>3. /\ u \in Users /\ user[u] = NoUser
      /\ members' = [members EXCEPT ![a] = {u}] /\ request' = Finished(r, {u, a})
      /\ UNCHANGED <<served, key, token, joined, ended, crossed>>
  BY <1>1 DEF CommitSuper, IsOp, TypeInv, KindOK, Users
<1>4. Settles(request', {u, a}) /\ request' \in [Requests -> RequestType]
  BY <1>1, <1>3, Finishing
<1>5. status \in Statuses
  BY DEF Statuses
<1>6. user' \in [Users -> UserType]
  BY <1>1, <1>2, <1>3, <1>5, RegisteredType
<1>7. UserInv'
  BY <1>1, <1>2, <1>3, <1>4, <1>5, NewStatus
<1>8. members' \in [Slugs -> SUBSET Users]
  BY <1>1, <1>3, SameType
<1>9. QED  BY <1>1, <1>3, <1>4, <1>6, <1>7, <1>8, CommitInv, SameType

LEMMA AdminInv ==
  ASSUME IInv, NEW r \in Requests, CommitAdmin(r)
  PROVE  IInv'
<1> DEFINE s == request[r].by  a == request[r].on
<1>1. TypeInv /\ UserInv /\ TypeOK
  BY DEF IInv, TypeInv
<1>2. /\ request[r].op = "admin" /\ s \in Supers /\ request[r].targets \subseteq Admins
      /\ UNCHANGED <<served, key, token, joined, ended>>
  BY <1>1 DEF CommitAdmin, IsOp, TypeInv, KindOK
<1>3. PICK u \in request[r].targets, status \in {"ACTIVE", "DISABLED"} :
        /\ user' = [user EXCEPT ![u] = [status |-> status, manager |-> s]]
        /\ members' = [members EXCEPT ![a] = @ \cup {u}]
        /\ Crossing(r, {u}) /\ request' = Finished(r, {s, u})
  BY DEF CommitAdmin
<1>4. u \in Users /\ status \in Statuses
  BY <1>2 DEF Users, Statuses
<1>5. Settles(request', {s, u}) /\ request' \in [Requests -> RequestType]
  BY <1>1, <1>3, Finishing
<1>6. UserInv'
  BY <1>1, <1>2, <1>3, <1>4, <1>5, NewAdmin
<1>7. user' \in [Users -> UserType]
  <2>1. [status |-> status, manager |-> s] \in UserType
    BY <1>2, <1>4 DEF UserType
  <2>2. QED  BY <1>1, <1>3, <2>1, SameType
<1>8. members' \in [Slugs -> SUBSET Users]
  BY <1>1, <1>3, <1>4, SameType
<1>9. crossed \subseteq crossed' /\ crossed' \subseteq Users \cup Keys \cup Tokens
  BY <1>1, <1>3, <1>4, SameType DEF Crossing
<1>10. QED  BY <1>1, <1>2, <1>5, <1>6, <1>7, <1>8, <1>9, CommitInv, SameType

\* The token a register, a login or a password change issues continues none.
LEMMA FreshInv ==
  ASSUME TypeInv, TokenInv, NEW u \in Users, NEW ts \in SUBSET Tokens, Issue(u, None, ts),
         ended \subseteq ended', ended' \subseteq ended \cup {t \in ts : token[t].live},
         crossed' = crossed, NEW written, ts \subseteq written, Settles(request', written)
  PROVE  TokenInv' /\ token' \in [Tokens -> TokenType]
<1>1. token' \in [Tokens -> TokenType]
  BY IssuedFields
<1>2. PICK new \in Tokens : \A t \in Tokens :
        \/ /\ token'[t].user = token[t].user /\ token'[t].from = token[t].from
           /\ token'[t].live => token[t].live /\ t \notin ts
        \/ /\ t = new /\ token[t] = NoToken
           /\ token'[t].user \in Users /\ token'[t].from = None
  BY IssuedFields
<1>3. \A t \in ended' \ ended : t \in ts /\ t # None /\ token[t].live
  BY AccountsAssumption
<1>4. Steps(ts, None, new)
  BY <1>2, <1>3 DEF Steps
<1>5. TokenInv'
  BY <1>4, TokenStep
<1>6. QED  BY <1>1, <1>5

LEMMA RegisterInv ==
  ASSUME IInv, NEW r \in Requests, CommitRegister(r)
  PROVE  IInv'
<1> DEFINE u == request[r].by
<1>1. TypeInv /\ UserInv /\ TokenInv /\ TypeOK
  BY DEF IInv, TypeInv
<1>2. /\ u \in Users /\ user[u] = NoUser /\ user' = [user EXCEPT ![u].status = "ACTIVE"]
      /\ Issue(u, None, {}) /\ request' = Finished(r, {u})
      /\ UNCHANGED <<served, members, key, joined, ended, crossed>>
  BY <1>1 DEF CommitRegister, Registered, IsOp, TypeInv, KindOK, Users
<1>3. Settles(request', {u}) /\ request' \in [Requests -> RequestType]
  BY <1>1, <1>2, Finishing
<1>4. "ACTIVE" \in Statuses
  BY DEF Statuses
<1>5. user' \in [Users -> UserType]
  BY <1>1, <1>2, <1>4, RegisteredType
<1>6. UserInv'
  BY <1>1, <1>2, <1>3, <1>4, NewStatus
<1>7. TokenInv' /\ token' \in [Tokens -> TokenType]
  BY <1>1, <1>2, <1>3, FreshInv
<1>8. QED  BY <1>1, <1>2, <1>3, <1>5, <1>6, <1>7, CommitInv, SameType

LEMMA LoginInv ==
  ASSUME IInv, NEW r \in Requests, CommitLogin(r)
  PROVE  IInv'
<1>1. TypeInv /\ TokenInv /\ TypeOK
  BY DEF IInv, TypeInv
<1>2. /\ request[r].by \in Users /\ Issue(request[r].by, None, {})
      /\ request' = Finished(r, {})
      /\ UNCHANGED <<served, user, members, key, joined, ended, crossed>>
  BY <1>1 DEF CommitLogin, IsOp, TypeInv, KindOK
<1>3. Settles(request', {}) /\ request' \in [Requests -> RequestType]
  BY <1>1, <1>2, Finishing
<1>4. TokenInv' /\ token' \in [Tokens -> TokenType]
  BY <1>1, <1>2, <1>3, FreshInv
<1>5. QED  BY <1>1, <1>2, <1>3, <1>4, CommitInv, SameType

LEMMA PasswordInv ==
  ASSUME IInv, NEW r \in Requests, CommitPassword(r)
  PROVE  IInv'
<1> DEFINE ts == request[r].revoked
<1>1. TypeInv /\ TokenInv /\ TypeOK
  BY DEF IInv, TypeInv
<1>2. /\ request[r].by \in Users /\ Issue(request[r].by, None, ts)
      /\ ended' = ended \cup {t \in ts : token[t].live}
      /\ request' = Finished(r, ts)
      /\ UNCHANGED <<served, user, members, key, joined, crossed>>
  BY <1>1 DEF CommitPassword, Ending, IsOp, TypeInv, KindOK
<1>3. ts \in SUBSET Tokens /\ ended' \subseteq Tokens
  BY <1>1, <1>2, SameType DEF RequestType
<1>4. Settles(request', ts) /\ request' \in [Requests -> RequestType]
  BY <1>1, <1>2, Finishing
<1> HIDE DEF ts
<1>5. TokenInv' /\ token' \in [Tokens -> TokenType]
  BY <1>1, <1>2, <1>3, <1>4, FreshInv
<1>6. QED  BY <1>1, <1>2, <1>3, <1>4, <1>5, CommitInv, SameType

\* Tokens are revoked and none is issued.
LEMMA EndedInv ==
  ASSUME TypeInv, TokenInv, NEW ts \in SUBSET Tokens, token' = Revoked(ts),
         ended' = ended \cup {t \in ts : token[t].live},
         crossed \subseteq crossed', NEW written, ts \subseteq written,
         Settles(request', written)
  PROVE  TokenInv' /\ token' \in [Tokens -> TokenType] /\ ended' \subseteq Tokens
<1>1. /\ token' \in [Tokens -> TokenType]
      /\ \A t \in Tokens : /\ token'[t].user = token[t].user /\ token'[t].from = token[t].from
                           /\ token'[t].live => token[t].live /\ t \notin ts
  BY RevokedFields
<1>2. ended \subseteq ended' /\ \A t \in ended' \ ended : t \in ts /\ t # None /\ token[t].live
  BY AccountsAssumption
<1>3. Steps(ts, None, None)
  BY <1>1, <1>2 DEF Steps
<1>4. TokenInv'
  BY <1>3, TokenStep
<1>5. ended' \subseteq Tokens
  BY SameType DEF TypeInv
<1>6. QED  BY <1>1, <1>4, <1>5

LEMMA LogoutInv ==
  ASSUME IInv, NEW r \in Requests, CommitLogout(r)
  PROVE  IInv'
<1> DEFINE ts == request[r].revoked
<1>1. TypeInv /\ TokenInv /\ TypeOK
  BY DEF IInv, TypeInv
<1>2. /\ token' = Revoked(ts) /\ ended' = ended \cup {t \in ts : token[t].live}
      /\ request' = Finished(r, ts)
      /\ UNCHANGED <<served, user, members, key, joined, crossed>>
  BY DEF CommitLogout, Ending
<1>3. ts \in SUBSET Tokens
  BY <1>1, SameType DEF RequestType
<1>4. Settles(request', ts) /\ request' \in [Requests -> RequestType]
  BY <1>1, <1>2, Finishing
<1> HIDE DEF ts
<1>5. TokenInv' /\ token' \in [Tokens -> TokenType] /\ ended' \subseteq Tokens
  BY <1>1, <1>2, <1>3, <1>4, EndedInv
<1>6. QED  BY <1>1, <1>2, <1>4, <1>5, CommitInv, SameType

LEMMA StatusInv ==
  ASSUME IInv, NEW r \in Requests, CommitStatus(r)
  PROVE  IInv'
<1> DEFINE us == request[r].targets  ts == request[r].revoked
<1>1. TypeInv /\ TokenInv /\ UserInv /\ TypeOK
  BY DEF IInv, TypeInv
<1>2. /\ token' = Revoked(ts) /\ ended' = ended \cup {t \in ts : token[t].live}
      /\ Crossing(r, us \cup AdminsOf(us))
      /\ request' = Finished(r, us \cup ts)
      /\ UNCHANGED <<served, members, key, joined>>
  BY DEF CommitStatus, Ending
<1>3. ts \in SUBSET Tokens /\ us \subseteq Users
  BY <1>1, SameType DEF RequestType
<1>4. Settles(request', us \cup ts) /\ request' \in [Requests -> RequestType]
  BY <1>1, <1>2, Finishing
<1>5. user' \in [Users -> UserType]
  <2>1. request[r].to \in Statuses /\ user \in [Users -> UserType]
    BY <1>1, SameType DEF RequestType
  <2>2. ASSUME NEW v \in Users
        PROVE  [user[v] EXCEPT !.status = Assigned(request[r].to, request[r].seen[v], @)]
                 \in UserType
    BY <2>1 DEF UserType, Assigned
  <2>3. QED  BY <2>1, <2>2 DEF CommitStatus
<1>6. crossed \subseteq crossed' /\ crossed' \subseteq Users \cup Keys \cup Tokens
  BY <1>1, <1>2, <1>3, SameType DEF Crossing, AdminsOf, Users
<1>7. UserInv'
  BY <1>1, <1>4, ChangedStatus
<1>8. TokenInv' /\ token' \in [Tokens -> TokenType] /\ ended' \subseteq Tokens
  BY <1>1, <1>2, <1>3, <1>4, <1>6, EndedInv
<1>9. QED  BY <1>1, <1>2, <1>4, <1>5, <1>6, <1>7, <1>8, CommitInv, SameType

LEMMA RefreshInv ==
  ASSUME IInv, NEW r \in Requests, CommitRefresh(r)
  PROVE  IInv'
<1> DEFINE p == request[r].on
<1>1. TypeInv /\ TokenInv /\ TypeOK
  BY DEF IInv, TypeInv
<1>2. /\ request[r].op = "refresh" /\ request[r].by \in Users /\ p \in Tokens
      /\ Issue(request[r].by, p, {p}) /\ Crossing(r, {p}) /\ request' = Finished(r, {p})
      /\ UNCHANGED <<served, user, members, key, joined, ended>>
  BY <1>1 DEF CommitRefresh, IsOp, TypeInv, KindOK
<1>3. Settles(request', {p}) /\ request' \in [Requests -> RequestType]
  BY <1>1, <1>2, Finishing
<1>4. /\ crossed \subseteq crossed' /\ crossed' \subseteq Users \cup Keys \cup Tokens
      /\ p \notin crossed' => request[r].alone /\ p \notin crossed
  BY <1>1, <1>2, SameType DEF Crossing
<1>5. token[p].user # None /\ (p \notin crossed' => Last(p))
  BY <1>1, <1>2, <1>4 DEF TokenInv, RefreshLoaded
<1> DEFINE ts == {p}
<1> HIDE DEF p
<1>6. token' \in [Tokens -> TokenType]
  BY <1>1, <1>2, IssuedFields
<1>7. PICK new \in Tokens : \A t \in Tokens :
        \/ /\ token'[t].user = token[t].user /\ token'[t].from = token[t].from
           /\ token'[t].live => token[t].live /\ t \notin ts
        \/ /\ t = new /\ token[t] = NoToken
           /\ token'[t].user \in Users /\ token'[t].from = p
  BY <1>1, <1>2, IssuedFields
<1>8. Steps(ts, p, new)
  BY <1>2, <1>5, <1>7 DEF Steps
<1>9. TokenInv'
  <2>1. ts \in SUBSET Tokens /\ ts \subseteq ts /\ Settles(request', ts)
    BY <1>2, <1>3
  <2> HIDE DEF ts
  <2>2. QED  BY <1>1, <1>4, <1>8, <2>1, TokenStep
<1>10. QED  BY <1>1, <1>2, <1>3, <1>4, <1>6, <1>9, CommitInv, SameType

--------------------------------------------------------------------------------
LEMMA CommitsInv ==
  ASSUME IInv, NEW r \in Requests, CommitRequest(r)
  PROVE  IInv'
BY RegisterInv, RegisterJoinInv, JoinInv, CalmInv, LoginInv, RefreshInv, LogoutInv, PasswordInv,
   SuperInv, AdminInv, StatusInv DEF CommitRequest

LEMMA StutterInv == IInv /\ UNCHANGED vars => IInv'
<1> SUFFICES ASSUME IInv, UNCHANGED vars PROVE IInv'
  OBVIOUS
<1>1. TypeInv /\ TypeOK
  BY DEF IInv, TypeInv
<1>2. UNCHANGED <<user, members, key, token, request, served, joined, ended, crossed>>
  BY DEF vars
<1>3. Settles(request', {}) /\ request' \in [Requests -> RequestType]
  BY <1>1, <1>2, QuietSettles, SameType
<1>4. QED  BY <1>1, <1>2, <1>3, CommitInv, SameType

LEMMA InductiveInv == Spec => []IInv
<1>1. IInv /\ [Next]_vars => IInv'
  <2> SUFFICES ASSUME IInv, Next PROVE IInv'
    BY StutterInv
  <2>1. CASE \E r \in Requests : BeginRequest(r)
    BY <2>1, BeginsInv
  <2>2. CASE \E r \in Requests : CommitRequest(r)
    BY <2>2, CommitsInv
  <2>3. CASE \/ \E r \in Requests : RequestFails(r)
             \/ \E k \in Keys : CreateKey(k) \/ KeyExpires(k)
             \/ \E t \in Tokens : TokenExpires(t)
    BY <2>3, CalmInv
  <2>4. QED  BY <2>1, <2>2, <2>3 DEF Next
<1>2. QED  BY InitInv, <1>1, PTL DEF Spec

\* A token is continued once or ended once, whatever the number of tokens.
LEMMA OneSuccessor ==
  ASSUME TypeOK, TokensOK
  PROVE  SessionsEnd
<1> SUFFICES ASSUME NEW p \in Tokens \ crossed
             PROVE  LET successors == {t \in Tokens : token[t].from = p}
                    IN  /\ successors # {} => ~token[p].live
                        /\ Cardinality(successors) + (IF p \in ended THEN 1 ELSE 0) <= 1
  BY DEF SessionsEnd
<1> DEFINE successors == {t \in Tokens : token[t].from = p}
<1>1. successors # {} => ~token[p].live /\ p \notin ended
  BY DEF TokensOK, Last
<1>2. CASE successors = {}
  <2>1. Cardinality(successors) = 0
    BY <1>2, FS_EmptySet
  <2>2. QED  BY <1>2, <2>1
<1>3. CASE successors # {}
  <2>1. PICK x \in successors : TRUE
    BY <1>3
  <2>2. successors = {x}
    BY <2>1 DEF TokensOK
  <2>3. Cardinality(successors) = 1
    BY <2>2, FS_Singleton
  <2>4. QED  BY <1>1, <1>3, <2>3
<1>4. QED  BY <1>2, <1>3

(***************************************************************************)
(* Theorems.                                                               *)
(***************************************************************************)
\* The rows of users, memberships, keys, tokens and requests keep their types.
THEOREM TypeCorrect == Spec => []TypeOK
<1>1. IInv => TypeOK
  BY DEF IInv, TypeInv
<1>2. QED  BY InductiveInv, <1>1, PTL

\* An onboarding key makes as many memberships as it counts, at most max_uses, unless
\* two joins overlapped (account_service.py, join_account).
THEOREM KeyUsesAlways == Spec => []KeyUses
<1>1. IInv => KeyUses
  BY DEF IInv, KeyInv
<1>2. QED  BY InductiveInv, <1>1, PTL

\* No admin stays active under a super admin who is not, unless the requests that made
\* it so overlapped (_cascade_status_to_admins).
THEOREM AdminFollowsManagerAlways == Spec => []AdminFollowsManager
<1>1. IInv => AdminFollowsManager
  BY DEF IInv, UserInv
<1>2. QED  BY InductiveInv, <1>1, PTL

\* A refresh token is exchanged for one successor or ended, not both, unless the
\* requests that took it overlapped (auth_service.py, refresh and logout).
THEOREM SessionsEndAlways == Spec => []SessionsEnd
<1>1. IInv => SessionsEnd
  BY OneSuccessor DEF IInv, TypeInv, TokenInv
<1>2. QED  BY InductiveInv, <1>1, PTL
================================================================================
