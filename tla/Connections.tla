----------------------------- MODULE Connections -----------------------------
(***************************************************************************)
(* The platform connections of an account and the Facebook OAuth sessions  *)
(* that lead to one, under requests and deliveries that overlap.           *)
(*                                                                         *)
(* An operation loads the connection, most of them call the platform, and  *)
(* commits the columns it has given another value.  OAuth sessions live in *)
(* Redis, and in the memory of the server when a call to Redis fails.      *)
(***************************************************************************)
EXTENDS FiniteSets, Naturals

CONSTANTS
  Rows,                   \* ids of platform_connections rows
  Pages,                  \* Facebook Pages or WhatsApp numbers, by external_id
  Tokens,                 \* access tokens
  Sessions,               \* OAuth sessions
  Requests,               \* operations under way at one time
  None,                   \* NULL
  MaxServed               \* bound: operations

ASSUME ConnectionsAssumption ==
  /\ MaxServed \in Nat
  /\ None \notin Rows \cup Pages \cup Tokens \cup Sessions

VARIABLES
  row,                    \* the platform_connections rows
  oauth,                  \* the two copies of each OAuth session
  request,                \* what each operation has loaded
  served,                 \* operations begun
  refused,                \* history: the token whose refusal a row records
  loose,                  \* history: rows written by hand, or by operations that overlapped
  used,                   \* history: rows each OAuth session connected
  leftover                \* history: sessions that outlived a connect

vars == <<row, oauth, request, served, refused, loose, used, leftover>>

Statuses == {"PENDING", "CONNECTED", "ERROR", "ACTION_REQUIRED", "DISCONNECTED"}
Errors == {"none", "token", "other"}
Payloads == {"none", "started", "pages"}
Ops == {"none", "update", "status", "disconnect", "delete", "sync", "subscribe", "send", "expire",
        "connect", "complete", "choose", "forget"}

NoRow == [page |-> None, status |-> "PENDING", token |-> None, error |-> "none"]
NoRequest == [op |-> "none", row |-> None, page |-> None, seen |-> NoRow, session |-> None,
              alone |-> TRUE]

Init ==
  /\ row = [x \in Rows |-> NoRow]
  /\ oauth = [s \in Sessions |-> [redis |-> "none", memory |-> "none"]]
  /\ request = [r \in Requests |-> NoRequest]
  /\ served = 0
  /\ refused = [x \in Rows |-> None]
  /\ loose = {}
  /\ used = [s \in Sessions |-> 0]
  /\ leftover = {}

Exists(x) == row[x].page # None
RowsOf(p) == {x \in Rows : row[x].page = p}

(***************************************************************************)
(* The status that follows from the row.                                   *)
(***************************************************************************)
\* The token looked at first (mutant of SyncStatus).
SyncStatusToken(c) ==
  IF c.status = "DISCONNECTED" THEN c
  ELSE IF c.token # None THEN [c EXCEPT !.status = "CONNECTED"]
  ELSE IF c.error # "none" THEN [c EXCEPT !.status = "ERROR"]
  ELSE [c EXCEPT !.status = "PENDING"]

\* _sync_status.
SyncStatus(c) ==
  IF c.status = "DISCONNECTED" THEN c
  ELSE IF c.error # "none" THEN [c EXCEPT !.status = "ERROR"]
  ELSE IF c.token # None THEN [c EXCEPT !.status = "CONNECTED"]
  ELSE [c EXCEPT !.status = "PENDING"]

Working(c) == [c EXCEPT !.status = "CONNECTED", !.error = "none"]

\* handle_api_error: token and permission errors ask the user to act.
Failed(c, error) ==
  [c EXCEPT !.status = IF error = "token" THEN "ACTION_REQUIRED" ELSE "ERROR", !.error = error]

(***************************************************************************)
(* What an operation loads, and what it commits.                           *)
(***************************************************************************)
UnchangedStore == UNCHANGED <<oauth, used, leftover>>
UnchangedRows == UNCHANGED <<row, refused, loose>>

Begin(r, asked) ==
  /\ request[r].op = "none" /\ served < MaxServed
  /\ request' = [request EXCEPT ![r] = asked]
  /\ served' = served + 1
  /\ UnchangedRows /\ UnchangedStore

\* The operations on one connection, a delivery through it, and the task that looks for
\* expired access tokens.
BeginOnRow(r) ==
  \E x \in Rows, op \in {"update", "status", "disconnect", "delete", "sync", "subscribe", "send", "expire"} :
    /\ Exists(x)
    /\ Begin(r, [NoRequest EXCEPT !.op = op, !.row = x, !.page = row[x].page, !.seen = row[x]])

\* _upsert_connection looks for the page whatever the row's status.
Existing(p) == RowsOf(p)

Upsert(op, p, s) ==
  IF Existing(p) = {} THEN [NoRequest EXCEPT !.op = op, !.page = p, !.session = s]
  ELSE LET x == CHOOSE y \in Existing(p) : TRUE
       IN  [NoRequest EXCEPT !.op = op, !.row = x, !.page = p, !.seen = row[x], !.session = s]

\* connect_page_from_manual_token and connect_phone_number_manually.
BeginConnect(r) == \E p \in Pages : Begin(r, Upsert("connect", p, None))

\* The operation is over; those that loaded what it wrote are no longer alone.
Finished(r, written) ==
  [q \in Requests |->
    IF q = r \/ request[q].op = "none" THEN NoRequest
    ELSE [request[q] EXCEPT
            !.alone = @ /\ {request[q].row, request[q].page, request[q].session} \cap written = {}]]

\* A column is written when its value differs from the one the session loaded.
Assigned(new, loaded, stored) == IF new = loaded THEN stored ELSE new

\* The row is settled when the operation alone has decided its status.
Store(r, new, settled) ==
  LET x == request[r].row  seen == request[r].seen
  IN  /\ Exists(x)
      /\ row' = [row EXCEPT ![x] = [c \in DOMAIN @ |-> Assigned(new[c], seen[c], @[c])]]
      /\ loose' = IF request[r].alone /\ settled THEN loose \ {x} ELSE loose \cup {x}
      /\ refused' = [refused EXCEPT ![x] = IF new.error = "token" /\ new.status = "ACTION_REQUIRED"
                                           THEN seen.token ELSE @]
      /\ UNCHANGED served

IsOp(r, op) == request[r].op = op
Ends(r) == request' = Finished(r, {request[r].row}) /\ UnchangedStore

\* update_connection: a page, a token and a last error given, cleared or left out.
CommitUpdate(r) ==
  LET seen == request[r].seen
  IN  /\ IsOp(r, "update")
      /\ \E p \in Pages, token \in Tokens \cup {None, seen.token},
            error \in {"none", "other", seen.error} :
           /\ Store(r, SyncStatus([seen EXCEPT !.page = p, !.token = token, !.error = error]), TRUE)
           /\ request' = Finished(r, {request[r].row, p})
      /\ UnchangedStore

\* update_status: any status, with or without an error.
CommitStatus(r) ==
  /\ IsOp(r, "status")
  /\ \E status \in Statuses, error \in {"none", "other"} :
        Store(r, [request[r].seen EXCEPT !.status = status, !.error = error], FALSE)
  /\ Ends(r)

CommitDisconnect(r) ==
  /\ IsOp(r, "disconnect")
  /\ Store(r, [request[r].seen EXCEPT !.status = "DISCONNECTED", !.token = None, !.error = "none"],
           TRUE)
  /\ Ends(r)

CommitDelete(r) ==
  LET x == request[r].row
  IN  /\ IsOp(r, "delete") /\ Exists(x)
      /\ row' = [row EXCEPT ![x] = NoRow]
      /\ refused' = [refused EXCEPT ![x] = None]
      /\ loose' = loose \ {x}
      /\ Ends(r)
      /\ UNCHANGED served

\* What the platform answers: it works, or an error; without a token there is no call.
CallFails(r) ==
  \E error \in {"token", "other"} :
    /\ request[r].seen.token = None => error = "other"
    /\ Store(r, Failed(request[r].seen, error), TRUE)

\* sync_connection.
CommitSync(r) ==
  LET seen == request[r].seen
  IN  /\ IsOp(r, "sync")
      /\ \/ seen.token # None /\ Store(r, Working(seen), TRUE)
         \/ CallFails(r)
      /\ Ends(r)

\* subscribe_webhooks: a subscription that is not confirmed is an error too.
CommitSubscribe(r) ==
  LET seen == request[r].seen
  IN  /\ IsOp(r, "subscribe")
      /\ \/ seen.token # None /\ Store(r, Working(seen), TRUE)
         \/ seen.token # None /\ Store(r, Failed(seen, "other"), TRUE)
         \/ CallFails(r)
      /\ Ends(r)

\* A delivery writes the connection when the platform refuses it.
CommitSend(r) ==
  /\ IsOp(r, "send")
  /\ CallFails(r)
  /\ Ends(r)

\* The task marks a connection whose metadata says that its token has expired.
CommitExpire(r) ==
  LET seen == request[r].seen
  IN  /\ IsOp(r, "expire") /\ seen.status # "ACTION_REQUIRED"
      /\ Store(r, [seen EXCEPT !.status = "ACTION_REQUIRED", !.error = "other"], TRUE)
      /\ Ends(r)

(***************************************************************************)
(* Rows made by hand, by a manual connect and by an OAuth session.         *)
(***************************************************************************)
Spare(x) == ~Exists(x) /\ \A q \in Requests : request[q].row # x
NewRow == CHOOSE x \in {y \in Rows : Spare(y)} : TRUE

\* create_connection looks for no other row of the page.
CreateConnection ==
  /\ served < MaxServed /\ \E x \in Rows : Spare(x)
  /\ \E p \in Pages, token \in Tokens \cup {None} :
        /\ row' = [row EXCEPT ![NewRow] =
                     SyncStatus([NoRow EXCEPT !.page = p, !.token = token])]
        /\ request' = [q \in Requests |-> [request[q] EXCEPT !.alone = @ /\ request[q].page # p]]
  /\ served' = served + 1
  /\ UNCHANGED <<refused, loose>> /\ UnchangedStore

\* _upsert_connection, with the row found when the operation began.
UpsertRow(r, next) ==
  LET p == request[r].page
  IN  \E token \in Tokens :
        IF request[r].row # None
        THEN /\ Store(r, [Working(request[r].seen) EXCEPT !.token = token], TRUE)
             /\ request' = [Finished(r, {request[r].row, request[r].session} \ {None}) EXCEPT ![r] = next]
        ELSE /\ \E x \in Rows : Spare(x)
             /\ row' = [row EXCEPT ![NewRow] = Working([NoRow EXCEPT !.page = p, !.token = token])]
             /\ request' = [Finished(r, {p, request[r].session} \ {None}) EXCEPT ![r] = next]
             /\ UNCHANGED <<served, refused, loose>>

CommitConnect(r) == IsOp(r, "connect") /\ UpsertRow(r, NoRequest) /\ UnchangedStore

(***************************************************************************)
(* FacebookOAuthSessionStore: a call that Redis fails is made on memory.   *)
(***************************************************************************)
Saved(s, payload) ==
  \/ oauth' = [oauth EXCEPT ![s].redis = payload]
  \/ oauth' = [oauth EXCEPT ![s].memory = payload]

\* What get returns.
Got(s) ==
  (IF oauth[s].redis # "none" THEN {oauth[s].redis} ELSE {}) \cup {oauth[s].memory}

\* start_oauth.
StartOauth(s) ==
  /\ served < MaxServed /\ oauth[s] = [redis |-> "none", memory |-> "none"] /\ used[s] = 0
  /\ Saved(s, "started")
  /\ served' = served + 1
  /\ UNCHANGED <<request, used, leftover>> /\ UnchangedRows

\* complete_oauth exchanges the code and lists the pages before it saves them.
BeginComplete(r) ==
  \E s \in Sessions :
    /\ Got(s) # {"none"}
    /\ Begin(r, [NoRequest EXCEPT !.op = "complete", !.session = s])

CommitComplete(r) ==
  LET s == request[r].session
  IN  /\ IsOp(r, "complete")
      /\ Saved(s, "pages")
      /\ leftover' = IF request[r].alone THEN leftover ELSE leftover \cup {s}
      /\ request' = Finished(r, {})
      /\ UNCHANGED <<served, used>> /\ UnchangedRows

\* connect_page_from_oauth.
BeginChoose(r) ==
  \E s \in Sessions, p \in Pages : "pages" \in Got(s) /\ Begin(r, Upsert("choose", p, s))

\* Another operation has loaded the session, or has yet to delete it.
Shared(r) ==
  \/ ~request[r].alone
  \/ \E q \in Requests \ {r} : IsOp(q, "forget") /\ request[q].session = request[r].session

CommitChoose(r) ==
  LET s == request[r].session
  IN  /\ IsOp(r, "choose")
      /\ UpsertRow(r, [NoRequest EXCEPT !.op = "forget", !.session = s])
      /\ used' = [used EXCEPT ![s] = @ + 1]
      /\ leftover' = IF Shared(r) THEN leftover \cup {s} ELSE leftover
      /\ UNCHANGED oauth

\* The copy in Redis is left (mutant of Deleted).
DeletedMemory(copies) == [copies EXCEPT !.memory = "none"]

Deleted(copies) == [copies EXCEPT !.redis = "none", !.memory = "none"]

\* delete, after the row has been committed; Redis may fail here too.
ForgetSession(r) ==
  LET s == request[r].session
  IN  /\ IsOp(r, "forget")
      /\ \/ oauth' = [oauth EXCEPT ![s] = Deleted(@)] /\ UNCHANGED leftover
         \/ /\ oauth' = [oauth EXCEPT ![s].memory = "none"]
            /\ leftover' = leftover \cup {s}
      /\ request' = Finished(r, {s})
      /\ UNCHANGED <<served, used>> /\ UnchangedRows

\* Fifteen minutes have passed since a copy was saved.
SessionExpires(s) ==
  /\ \E copy \in {"redis", "memory"} :
        oauth[s][copy] # "none" /\ oauth' = [oauth EXCEPT ![s][copy] = "none"]
  /\ UNCHANGED <<request, served, used, leftover>> /\ UnchangedRows

\* The operation ends without storing anything: an error, a delivery the platform
\* accepts, or a row deleted meanwhile.
RequestFails(r) ==
  /\ request[r].op # "none"
  /\ request' = [request EXCEPT ![r] = NoRequest]
  /\ leftover' = IF IsOp(r, "forget") THEN leftover \cup {request[r].session} ELSE leftover
  /\ UNCHANGED <<oauth, served, used>> /\ UnchangedRows

BeginOperation(r) == BeginOnRow(r) \/ BeginConnect(r) \/ BeginComplete(r) \/ BeginChoose(r)

CommitOperation(r) ==
  \/ CommitUpdate(r) \/ CommitStatus(r) \/ CommitDisconnect(r) \/ CommitDelete(r)
  \/ CommitSync(r) \/ CommitSubscribe(r) \/ CommitSend(r) \/ CommitExpire(r)
  \/ CommitConnect(r) \/ CommitComplete(r) \/ CommitChoose(r) \/ ForgetSession(r)

Next ==
  \/ CreateConnection
  \/ \E r \in Requests : BeginOperation(r) \/ CommitOperation(r) \/ RequestFails(r)
  \/ \E s \in Sessions : StartOauth(s) \/ SessionExpires(s)

Spec == Init /\ [][Next]_vars

--------------------------------------------------------------------------------
(***************************************************************************)
(* Properties.                                                             *)
(***************************************************************************)
TypeOK ==
  /\ row \in [Rows -> [page : Pages \cup {None}, status : Statuses, token : Tokens \cup {None}, error : Errors]]
  /\ oauth \in [Sessions -> [redis : Payloads, memory : Payloads]]
  /\ request \in [Requests ->
       [op : Ops, row : Rows \cup {None}, page : Pages \cup {None},
        seen : [page : Pages \cup {None}, status : Statuses, token : Tokens \cup {None}, error : Errors],
        session : Sessions \cup {None}, alone : BOOLEAN]]
  /\ served \in Nat
  /\ refused \in [Rows -> Tokens \cup {None}]
  /\ loose \subseteq Rows
  /\ used \in [Sessions -> Nat]
  /\ leftover \subseteq Sessions

\* What a connection shows agrees with its row: it works only with a token and no
\* error, it waits only for a token, it is in error only over an error, and it asks for
\* a new token only while the one it holds is the one that was refused.  Excepted is a
\* row whose status was set by hand, or that two operations wrote having loaded the
\* same values, until one alone has settled it.
StatusAgrees ==
  \A x \in Rows \ loose : Exists(x) =>
    LET c == row[x]
    IN  /\ c.status = "CONNECTED" => c.token # None /\ c.error = "none"
        /\ c.status = "PENDING" => c.token = None /\ c.error = "none"
        /\ c.status \in {"ERROR", "ACTION_REQUIRED"} => c.error # "none"
        /\ c.status = "ACTION_REQUIRED" /\ c.error = "token" => c.token = refused[x]

\* An OAuth session connects one row, unless two requests shared it or its deletion
\* did not happen.
SessionUsedOnce == \A s \in Sessions \ leftover : used[s] <= 1
================================================================================
